------------------------------ MODULE NodeHeap ------------------------------
(***************************************************************************)
(* The family links of jd_Node (jsondom.h:31-36) and the functions of      *)
(* jd_Node.c that rewire them, as pure operators on a heap of link cells.  *)
(* A heap maps every node block, allocated or not, to its five pointers.   *)
(* A block that is not allocated holds the cell memset leaves in it; which *)
(* blocks are allocated is the state of the modules that use this one.     *)
(***************************************************************************)
CONSTANTS Node,   \* the blocks malloc can return for a jd_Node
          Str,    \* the blocks malloc can return for a string
          NULL    \* the null pointer

ASSUME NullAssumption == NULL \notin Node \cup Str

Pointer == Node \cup {NULL}

Cell == [parent : Pointer, next : Pointer, first : Pointer,
         prev : Pointer, last : Pointer]

\* jd_Type, jsondom.h:6-18.
Types == {"null", "true", "false", "string", "integer", "float",
          "array", "property", "object"}

\* The types whose value is the text in the payload.
TextTypes == {"string", "integer", "float"}

\* memset(node, 0, sizeof(jd_Node)), jd_Node.c:138.
ZeroCell == [parent |-> NULL, next |-> NULL, first |-> NULL,
             prev |-> NULL, last |-> NULL]

(***************************************************************************)
(* jd_Node_emancipate, jd_Node.c:35-55.  Here and below, an operator whose *)
(* comment begins with "Slip:" is a faulty variant of the next one; it is  *)
(* used only to show that a property notices the fault.                    *)
(***************************************************************************)
\* Slip: the parent's lastChild is not replaced.
EmancipateForgetsLast(h, n) ==
  LET c == h[n] IN
  IF c.parent = NULL THEN h
  ELSE [m \in Node |->
         [h[m] EXCEPT !.parent = IF m = n THEN NULL ELSE @,
                      !.next = IF m = n THEN NULL ELSE IF m = c.prev THEN c.next ELSE @,
                      !.first = IF m = c.parent /\ @ = n THEN c.next ELSE @,
                      !.prev = IF m = n THEN NULL ELSE IF m = c.next THEN c.prev ELSE @]]

\* Slip: the parent's firstChild is not replaced.
EmancipateForgetsFirst(h, n) ==
  LET c == h[n] IN
  IF c.parent = NULL THEN h
  ELSE [m \in Node |->
         [h[m] EXCEPT !.parent = IF m = n THEN NULL ELSE @,
                      !.next = IF m = n THEN NULL ELSE IF m = c.prev THEN c.next ELSE @,
                      !.prev = IF m = n THEN NULL ELSE IF m = c.next THEN c.prev ELSE @,
                      !.last = IF m = c.parent /\ @ = n THEN c.prev ELSE @]]

Emancipate(h, n) ==
  LET c == h[n] IN
  IF c.parent = NULL THEN h
  ELSE [m \in Node |->
         [parent |-> IF m = n THEN NULL ELSE h[m].parent,
          next   |-> IF m = n THEN NULL
                     ELSE IF m = c.prev THEN c.next ELSE h[m].next,
          first  |-> IF m = c.parent /\ h[m].first = n THEN c.next ELSE h[m].first,
          prev   |-> IF m = n THEN NULL
                     ELSE IF m = c.next THEN c.prev ELSE h[m].prev,
          last   |-> IF m = c.parent /\ h[m].last = n THEN c.prev ELSE h[m].last]]

\* The cells emancipation dereferences besides that of n.
EmancipateTouches(h, n) ==
  IF h[n].parent = NULL THEN {}
  ELSE {h[n].parent, h[n].next, h[n].prev} \ {NULL}

(***************************************************************************)
(* jd_Node_adopt, jd_Node.c:72-112.  Elder is the sibling the adoptee is   *)
(* put behind: the one in front of "before", or the parent's last child.   *)
(***************************************************************************)
Elder(h, p, b) == IF b # NULL THEN h[b].prev ELSE h[p].last

\* Slip: the elder sibling is not linked to the adoptee.
AdoptForgetsElder(h, a, p, b) ==
  LET e == Elder(h, p, b) IN
  [m \in Node |->
    [h[m] EXCEPT !.parent = IF m = a THEN p ELSE @,
                 !.next = IF m = a /\ b # NULL THEN b ELSE @,
                 !.first = IF m = p /\ e = NULL THEN a ELSE @,
                 !.prev = IF m = a /\ e # NULL THEN e ELSE IF m = b THEN a ELSE @,
                 !.last = IF m = p /\ b = NULL THEN a ELSE @]]

Adopt(h, a, p, b) ==
  LET e == Elder(h, p, b) IN
  [m \in Node |->
    [parent |-> IF m = a THEN p ELSE h[m].parent,
     next   |-> IF m = e THEN a ELSE IF m = a /\ b # NULL THEN b ELSE h[m].next,
     first  |-> IF m = p /\ e = NULL THEN a ELSE h[m].first,
     prev   |-> IF m = a /\ e # NULL THEN e
                ELSE IF m = b THEN a ELSE h[m].prev,
     last   |-> IF m = p /\ b = NULL THEN a ELSE h[m].last]]

\* The cells adoption dereferences.
AdoptTouches(h, a, p, b) == {a, p, b, Elder(h, p, b)} \ {NULL}

\* The assertions of jd_Node.c:74-79 and 87.
AdoptAsserts(h, a, p, b) ==
  /\ a # NULL /\ p # NULL
  /\ h[a].parent = NULL /\ h[a].prev = NULL /\ h[a].next = NULL
  /\ b # NULL => h[b].parent = p

AdoptSafe(h, L, a, p, b) ==
  AdoptTouches(h, a, p, b) \subseteq L /\ AdoptAsserts(h, a, p, b)

(***************************************************************************)
(* jd_Node_destroy, jd_Node.c:167-184, follows firstChild and nextSibling  *)
(* and frees what it reaches.  Span(h, n) is the set of nodes it reaches:  *)
(* the least set that holds n and is closed under the two links.           *)
(***************************************************************************)
\* Slip: the children destroy their own children but not their siblings.
ClosedFirstOnly(h, S) == \A m \in S : h[m].first # NULL => h[m].first \in S

Closed(h, S) ==
  \A m \in S : /\ h[m].first # NULL => h[m].first \in S
               /\ h[m].next # NULL => h[m].next \in S

Span(h, n) ==
  LET Above == {S \in SUBSET Node : n \in S /\ Closed(h, S)}
  IN {m \in Node : \A S \in Above : m \in S}

\* The walk enters each node once: it terminates and frees no node twice.
VisitsOnce(h, n) ==
  LET S == Span(h, n) IN
  /\ \A x \in S : h[x].first # n /\ h[x].next # n
  /\ \A x, y \in S :
       /\ (h[x].first = h[y].first /\ h[x].first # NULL) => x = y
       /\ (h[x].next = h[y].next /\ h[x].next # NULL) => x = y
       /\ h[x].first = h[y].next => h[x].first = NULL

\* free() of the nodes of D.
FreeNodes(h, D) == [m \in Node |-> IF m \in D THEN ZeroCell ELSE h[m]]

(***************************************************************************)
(* What the operations keep true of the allocated nodes L, in named parts. *)
(* Torn is the set of nodes whose lastChild is not to be trusted (see      *)
(* JdNode, failed).                                                        *)
(***************************************************************************)
\* Every pointer but a torn node's lastChild is null or leads to L.
NoDangling(h, L, Torn) ==
  \A n \in L : /\ {h[n].parent, h[n].next, h[n].first, h[n].prev} \subseteq L \cup {NULL}
               /\ n \notin Torn => h[n].last \in L \cup {NULL}

\* Siblings mirror each other's links and share a parent.
SiblingsMirror(h, L) ==
  \A n, m \in L :
    /\ h[n].next = m => h[m].prev = n
    /\ h[n].prev = m => h[m].next = n
    /\ h[n].next = m => h[n].parent = h[m].parent /\ h[n].parent # NULL

\* firstChild and lastChild are the two ends of the children's list.
EndsOfFamily(h, L, Torn) ==
  \A p, c \in L :
    /\ h[p].first = c <=> (h[c].parent = p /\ h[c].prev = NULL)
    /\ p \notin Torn => (h[p].last = c <=> (h[c].parent = p /\ h[c].next = NULL))

\* A node without a parent has no siblings.
RootsAlone(h, L) ==
  \A n \in L : h[n].parent = NULL => h[n].next = NULL /\ h[n].prev = NULL

\* A parent has both a first and a last child or none; a torn one has none.
FirstAndLast(h, L, Torn) ==
  \A n \in L : /\ n \notin Torn => (h[n].first = NULL <=> h[n].last = NULL)
               /\ n \in Torn => h[n].first = NULL

\* No cycle of parents, nor of siblings: every set of nodes has one whose
\* parent, and one whose elder sibling, is outside the set.
Acyclic(h, L) ==
  \A T \in (SUBSET L) \ {{}} : /\ \E n \in T : h[n].parent \notin T
                             /\ \E n \in T : h[n].prev \notin T

Linked(h, L, Torn) ==
  /\ NoDangling(h, L, Torn)
  /\ SiblingsMirror(h, L)
  /\ EndsOfFamily(h, L, Torn)
  /\ RootsAlone(h, L)
  /\ FirstAndLast(h, L, Torn)
  /\ Acyclic(h, L)
=============================================================================
