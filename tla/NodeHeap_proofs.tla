-------------------------- MODULE NodeHeap_proofs --------------------------
(***************************************************************************)
(* The link operations of jd_Node.c keep a forest a forest: lemmas about   *)
(* the operators of NodeHeap, for any set of nodes.                        *)
(***************************************************************************)
EXTENDS NodeHeap, TLAPS

-----------------------------------------------------------------------------
\* The operators on the links return heaps, and Span a set of nodes.
LEMMA EmancipateType ==
  ASSUME NEW h \in [Node -> Cell], NEW n \in Node
  PROVE  Emancipate(h, n) \in [Node -> Cell]
<1>1. CASE h[n].parent = NULL
  BY <1>1 DEF Emancipate
<1>2. CASE h[n].parent # NULL
  <2> DEFINE New(m) ==
        [parent |-> IF m = n THEN NULL ELSE h[m].parent,
         next   |-> IF m = n THEN NULL
                    ELSE IF m = h[n].prev THEN h[n].next ELSE h[m].next,
         first  |-> IF m = h[n].parent /\ h[m].first = n THEN h[n].next ELSE h[m].first,
         prev   |-> IF m = n THEN NULL
                    ELSE IF m = h[n].next THEN h[n].prev ELSE h[m].prev,
         last   |-> IF m = h[n].parent /\ h[m].last = n THEN h[n].prev ELSE h[m].last]
  <2>1. \A m \in Node : New(m) \in Cell
    BY DEF Cell, Pointer
  <2>2. Emancipate(h, n) = [m \in Node |-> New(m)]
    BY <1>2 DEF Emancipate
  <2>3. QED
    BY <2>1, <2>2
<1>3. QED
  BY <1>1, <1>2

LEMMA AdoptType ==
  ASSUME NEW h \in [Node -> Cell], NEW a \in Node, NEW p \in Node, NEW b \in Pointer
  PROVE  Adopt(h, a, p, b) \in [Node -> Cell]
<1> DEFINE e == Elder(h, p, b)
           New(m) ==
             [parent |-> IF m = a THEN p ELSE h[m].parent,
              next   |-> IF m = e THEN a ELSE IF m = a /\ b # NULL THEN b ELSE h[m].next,
              first  |-> IF m = p /\ e = NULL THEN a ELSE h[m].first,
              prev   |-> IF m = a /\ e # NULL THEN e
                         ELSE IF m = b THEN a ELSE h[m].prev,
              last   |-> IF m = p /\ b = NULL THEN a ELSE h[m].last]
<1>1. e \in Pointer
  BY DEF Elder, Cell, Pointer
<1>2. \A m \in Node : New(m) \in Cell
  BY <1>1 DEF Cell, Pointer
<1>3. Adopt(h, a, p, b) = [m \in Node |-> New(m)]
  BY DEF Adopt
<1>4. QED
  BY <1>2, <1>3

LEMMA ZeroCellType == ZeroCell \in Cell
  BY DEF ZeroCell, Cell, Pointer

LEMMA FreeNodesType ==
  ASSUME NEW h \in [Node -> Cell], NEW D
  PROVE  FreeNodes(h, D) \in [Node -> Cell]
  BY ZeroCellType DEF FreeNodes

LEMMA SpanType ==
  ASSUME NEW h, NEW n
  PROVE  Span(h, n) \subseteq Node
  BY DEF Span

-----------------------------------------------------------------------------
(***************************************************************************)
(* What Span(h, n) holds when the links are a forest: n, and with a node   *)
(* all its children; and of every node but n the parent.                   *)
(***************************************************************************)
LEMMA SpanClosed ==
  ASSUME NEW h \in [Node -> Cell], NEW n \in Node
  PROVE  n \in Span(h, n) /\ Closed(h, Span(h, n))
<1>1. ASSUME NEW m \in Span(h, n), NEW c \in Node, c = h[m].first \/ c = h[m].next
      PROVE  c \in Span(h, n)
  <2>1. ASSUME NEW S \in SUBSET Node, n \in S, Closed(h, S) PROVE c \in S
    <3>1. m \in S
      BY <2>1 DEF Span
    <3>2. QED
      BY <1>1, <2>1, <3>1, NullAssumption DEF Closed
  <2>2. QED
    BY <2>1 DEF Span
<1>2. \A m \in Span(h, n) : m \in Node /\ h[m].first \in Pointer /\ h[m].next \in Pointer
  BY DEF Span, Cell
<1>3. QED
  BY <1>1, <1>2 DEF Span, Closed, Pointer

LEMMA SpanLeast ==
  ASSUME NEW h, NEW n, NEW S \in SUBSET Node, n \in S, Closed(h, S)
  PROVE  Span(h, n) \subseteq S
  BY DEF Span

\* A node that leads nowhere reaches only itself.
LEMMA SpanAlone ==
  ASSUME NEW h, NEW n \in Node, h[n].first = NULL, h[n].next = NULL
  PROVE  Span(h, n) \subseteq {n}
<1>1. Closed(h, {n})
  BY DEF Closed
<1>2. QED
  BY <1>1, SpanLeast

LEMMA SpanLive ==
  ASSUME NEW h, NEW L \in SUBSET Node, NEW Torn, NEW n \in L, NoDangling(h, L, Torn)
  PROVE  Span(h, n) \subseteq L
<1>1. Closed(h, L)
  BY DEF Closed, NoDangling
<1>2. QED
  BY <1>1, SpanLeast

\* A node with a child has a first child: its children without their elder
\* sibling would be a cycle of siblings otherwise.
LEMMA EldestChild ==
  ASSUME NEW h \in [Node -> Cell], NEW L \in SUBSET Node, NEW Torn, Linked(h, L, Torn),
         NEW C \in SUBSET L, C # {}, NEW p \in L, \A c \in C : h[c].parent = p
  PROVE  \E c \in C : \/ h[p].first = c
                      \/ /\ h[c].prev \in L \ C
                         /\ h[h[c].prev].next = c /\ h[h[c].prev].parent = p
<1>1. PICK c \in C : h[c].prev \notin C
  BY DEF Linked, Acyclic
<1>2. c \in L /\ h[c].parent = p /\ h[c].prev \in L \cup {NULL}
  BY DEF Linked, NoDangling
<1>3. CASE h[c].prev = NULL
  <2>1. h[p].first = c
    BY <1>2, <1>3 DEF Linked, EndsOfFamily
  <2>2. QED
    BY <2>1
<1>4. CASE h[c].prev \in L
  <2>1. h[h[c].prev].next = c
    BY <1>2, <1>4 DEF Linked, SiblingsMirror
  <2>2. h[h[c].prev].parent = p
    BY <1>2, <1>4, <2>1 DEF Linked, SiblingsMirror
  <2>3. QED
    BY <1>1, <1>4, <2>1, <2>2
<1>5. QED
  BY <1>2, <1>3, <1>4

LEMMA SpanChildren ==
  ASSUME NEW h \in [Node -> Cell], NEW L \in SUBSET Node, NEW Torn, Linked(h, L, Torn),
         NEW n \in L, NEW c \in L, h[c].parent \in Span(h, n)
  PROVE  c \in Span(h, n)
<1> DEFINE S == Span(h, n)
           p == h[c].parent
           C == {d \in L : h[d].parent = p /\ d \notin S}
<1>1. S \subseteq L /\ Closed(h, S)
  BY SpanLive, SpanClosed DEF Linked
<1>2. p \in S /\ p \in L
  BY <1>1
<1> HIDE DEF S, p
<1>3. ASSUME C # {} PROVE FALSE
  <2>1. PICK d \in C : \/ h[p].first = d
                       \/ /\ h[d].prev \in L \ C
                          /\ h[h[d].prev].next = d /\ h[h[d].prev].parent = p
    <3>1. C \in SUBSET L /\ \A d \in C : h[d].parent = p
      OBVIOUS
    <3> HIDE DEF C
    <3>2. QED
      BY <1>2, <1>3, <3>1, EldestChild
  <2>2. d \in L /\ d # NULL /\ d \notin S
    BY NullAssumption
  <2>3. CASE h[p].first = d
    BY <1>1, <1>2, <2>2, <2>3 DEF Closed
  <2>4. CASE h[p].first # d
    <3>1. h[d].prev \in S /\ h[h[d].prev].next = d
      BY <2>1, <2>4
    <3>2. QED
      BY <1>1, <2>2, <3>1 DEF Closed
  <2>5. QED
    BY <2>3, <2>4
<1>4. QED
  BY <1>3 DEF S, p

LEMMA SpanParents ==
  ASSUME NEW h \in [Node -> Cell], NEW L \in SUBSET Node, NEW Torn, Linked(h, L, Torn),
         NEW n \in L, h[n].parent = NULL
  PROVE  \A c \in Span(h, n) : c = n \/ h[c].parent \in Span(h, n)
<1> DEFINE S == Span(h, n)
           T == {c \in S : c = n \/ h[c].parent \in S}
<1>1. S \subseteq L /\ n \in S /\ Closed(h, S)
  BY SpanLive, SpanClosed DEF Linked
<1> HIDE DEF S
<1>2. ASSUME NEW m \in T
      PROVE  /\ h[m].first # NULL => h[m].first \in T
             /\ h[m].next # NULL => h[m].next \in T
  <2>1. m \in L /\ m \in S
    BY <1>1
  <2>2. h[m].first # NULL => h[m].first \in S /\ h[h[m].first].parent = m
    BY <1>1, <2>1 DEF Linked, EndsOfFamily, Closed
  <2>3. ASSUME h[m].next # NULL
        PROVE  /\ h[m].next \in S /\ h[h[m].next].parent = h[m].parent
               /\ h[m].parent # NULL
    BY <1>1, <2>1, <2>3 DEF Linked, SiblingsMirror, Closed
  <2>4. QED
    BY <2>1, <2>2, <2>3
<1>3. T \in SUBSET Node /\ n \in T
  BY <1>1
<1> HIDE DEF T
<1>4. Closed(h, T)
  BY <1>2 DEF Closed
<1>5. S \subseteq T
  BY <1>3, <1>4, SpanLeast DEF S
<1>6. QED
  BY <1>5 DEF S, T

-----------------------------------------------------------------------------
\* jd_Node_destroy of a root: the walk is sound, and what is left is linked.
LEMMA DestroyWalk ==
  ASSUME NEW h \in [Node -> Cell], NEW L \in SUBSET Node, NEW Torn, Linked(h, L, Torn),
         NEW n \in L, h[n].parent = NULL
  PROVE  VisitsOnce(h, n)
<1> DEFINE S == Span(h, n)
<1>1. S \subseteq L
  BY SpanLive DEF Linked
<1> HIDE DEF S
<1> USE DEF Linked, SiblingsMirror, EndsOfFamily, NoDangling
<1>2. \A x \in S : h[x].first # n /\ h[x].next # n
  BY <1>1, NullAssumption
<1>3. \A x, y \in S : (h[x].first = h[y].first /\ h[x].first # NULL) => x = y
  BY <1>1
<1>4. \A x, y \in S : (h[x].next = h[y].next /\ h[x].next # NULL) => x = y
  BY <1>1
<1>5. \A x, y \in S : h[x].first = h[y].next => h[x].first = NULL
  BY <1>1, NullAssumption
<1>6. QED
  BY <1>2, <1>3, <1>4, <1>5 DEF VisitsOnce, S

LEMMA DestroyLinked ==
  ASSUME NEW h \in [Node -> Cell], NEW L \in SUBSET Node, NEW Torn, Linked(h, L, Torn),
         NEW n \in L, h[n].parent = NULL
  PROVE  Linked(FreeNodes(h, Span(h, n)), L \ Span(h, n), Torn \ Span(h, n))
<1> DEFINE S == Span(h, n)
           k == FreeNodes(h, S)
           R == L \ S
<1>1. n \in S /\ S \subseteq L
  BY SpanLive, SpanClosed DEF Linked
<1>2. \A c \in S : c = n \/ h[c].parent \in S
  BY SpanParents
<1>3. \A c \in R : h[c].parent \notin S
  BY SpanChildren
<1>4. \A m \in R : k[m] = h[m]
  BY DEF FreeNodes
<1> HIDE DEF S, k
<1>5. ASSUME NEW m \in R
      PROVE  /\ {h[m].parent, h[m].next, h[m].first, h[m].prev} \subseteq R \cup {NULL}
             /\ m \notin Torn => h[m].last \in R \cup {NULL}
  <2> USE DEF Linked, SiblingsMirror, EndsOfFamily, NoDangling
  <2>1. h[m].parent \notin S
    BY <1>3, <1>5
  <2>2. h[m].first \notin S /\ (m \notin Torn => h[m].last \notin S)
    BY <1>1, <1>2, NullAssumption
  <2>3. h[m].next \notin S
    BY <1>1, <1>2, <2>1
  <2>4. h[m].prev \notin S
    BY <1>1, <1>2, <2>1
  <2>5. QED
    BY <2>1, <2>2, <2>3, <2>4
<1>6. NoDangling(k, R, Torn \ S)
  BY <1>4, <1>5 DEF NoDangling
<1>7. SiblingsMirror(k, R)
  BY <1>4 DEF Linked, SiblingsMirror
<1>8. EndsOfFamily(k, R, Torn \ S)
  BY <1>4 DEF Linked, EndsOfFamily
<1>9. RootsAlone(k, R) /\ FirstAndLast(k, R, Torn \ S)
  BY <1>4 DEF Linked, RootsAlone, FirstAndLast
<1>10. Acyclic(k, R)
  <2> SUFFICES ASSUME NEW T \in (SUBSET R) \ {{}}
               PROVE  /\ \E x \in T : k[x].parent \notin T
                      /\ \E x \in T : k[x].prev \notin T
    BY DEF Acyclic
  <2>1. T \in (SUBSET L) \ {{}} /\ \A x \in T : k[x] = h[x]
    BY <1>4
  <2>2. QED
    BY <2>1 DEF Linked, Acyclic
<1>11. QED
  BY <1>6, <1>7, <1>8, <1>9, <1>10 DEF Linked, S, k

-----------------------------------------------------------------------------
\* memset of a new node, jd_Node.c:138: a root without children, to which no
\* other node leads.
LEMMA CreateLinked ==
  ASSUME NEW h \in [Node -> Cell], NEW L \in SUBSET Node, NEW Torn \in SUBSET L,
         Linked(h, L, Torn), NEW n \in Node \ L
  PROVE  /\ [h EXCEPT ![n] = ZeroCell] \in [Node -> Cell]
         /\ Linked([h EXCEPT ![n] = ZeroCell], L \cup {n}, Torn)
<1> DEFINE k == [h EXCEPT ![n] = ZeroCell]
           K == L \cup {n}
<1>1. k \in [Node -> Cell]
  BY ZeroCellType
<1>2. k[n] = ZeroCell /\ \A m \in L : k[m] = h[m]
  OBVIOUS
<1>3. ZeroCell.parent = NULL /\ ZeroCell.next = NULL /\ ZeroCell.first = NULL
        /\ ZeroCell.prev = NULL /\ ZeroCell.last = NULL
  BY DEF ZeroCell
<1> HIDE DEF k
<1>4. NoDangling(k, K, Torn)
  BY <1>2, <1>3 DEF Linked, NoDangling
<1>5. SiblingsMirror(k, K)
  BY <1>2, <1>3, NullAssumption DEF Linked, SiblingsMirror, NoDangling
<1>6. EndsOfFamily(k, K, Torn)
  BY <1>2, <1>3, NullAssumption DEF Linked, EndsOfFamily, NoDangling
<1>7. RootsAlone(k, K) /\ FirstAndLast(k, K, Torn)
  BY <1>2, <1>3 DEF Linked, RootsAlone, FirstAndLast
<1>8. Acyclic(k, K)
  <2> SUFFICES ASSUME NEW T \in (SUBSET K) \ {{}}
               PROVE  /\ \E x \in T : k[x].parent \notin T
                      /\ \E x \in T : k[x].prev \notin T
    BY DEF Acyclic
  <2>1. CASE n \in T /\ T # {n}
    <3>1. T \ {n} \in (SUBSET L) \ {{}}
      BY <2>1
    <3>2. PICK x \in T \ {n} : h[x].parent \notin T \ {n}
      BY <3>1 DEF Linked, Acyclic
    <3>3. PICK y \in T \ {n} : h[y].prev \notin T \ {n}
      BY <3>1 DEF Linked, Acyclic
    <3>4. h[x].parent # n /\ h[y].prev # n
      BY <3>1, NullAssumption DEF Linked, NoDangling
    <3>5. QED
      BY <1>2, <3>1, <3>2, <3>3, <3>4
  <2>2. CASE n \notin T
    <3>1. T \in (SUBSET L) \ {{}}
      BY <2>2
    <3>2. QED
      BY <1>2, <3>1 DEF Linked, Acyclic
  <2>3. CASE T = {n}
    BY <1>2, <1>3, <2>3, NullAssumption
  <2>4. QED
    BY <2>1, <2>2, <2>3
<1>9. QED
  BY <1>1, <1>4, <1>5, <1>6, <1>7, <1>8 DEF Linked, k

-----------------------------------------------------------------------------
\* jd_Node_emancipate touches allocated nodes only and keeps the forest.
LEMMA EmancipateLinked ==
  ASSUME NEW h \in [Node -> Cell], NEW L \in SUBSET Node, NEW Torn \in SUBSET L,
         Linked(h, L, Torn), NEW n \in L
  PROVE  EmancipateTouches(h, n) \subseteq L /\ Linked(Emancipate(h, n), L, Torn)
<1> DEFINE p == h[n].parent
           x == h[n].next
           y == h[n].prev
           k == Emancipate(h, n)
<1>1. CASE p = NULL
  BY <1>1 DEF Emancipate, EmancipateTouches
<1>2. CASE p # NULL
  <2>1. p \in L /\ x \in L \cup {NULL} /\ y \in L \cup {NULL}
    BY <1>2 DEF Linked, NoDangling
  <2>2. p # n /\ y # n
    <3>1. {n} \in (SUBSET L) \ {{}}
      OBVIOUS
    <3>2. /\ \E m \in {n} : h[m].parent \notin {n}
          /\ \E m \in {n} : h[m].prev \notin {n}
      BY <3>1 DEF Linked, Acyclic
    <3>3. QED
      BY <3>2
  <2>3. x # NULL => h[x].prev = n /\ h[x].parent = p
    BY <2>1 DEF Linked, SiblingsMirror
  <2>4. y # NULL => h[y].next = n /\ h[y].parent = p
    BY <2>1 DEF Linked, SiblingsMirror
  <2>5. \A m \in L : /\ h[m].next = n => m = y
                     /\ h[m].prev = n => m = x
    BY DEF Linked, SiblingsMirror
  <2>6. p \notin Torn
    <3> DEFINE C == {c \in L : h[c].parent = p}
    <3>1. C \in SUBSET L /\ C # {} /\ (\A c \in C : h[c].parent = p)
      OBVIOUS
    <3>2. \E c \in C : \/ h[p].first = c
                       \/ /\ h[c].prev \in L \ C
                          /\ h[h[c].prev].next = c /\ h[h[c].prev].parent = p
      <4> HIDE DEF C, p
      <4>1. QED
        BY <2>1, <3>1, EldestChild
    <3>3. h[p].first # NULL
      BY <3>2, NullAssumption
    <3>4. QED
      BY <2>1, <3>3 DEF Linked, FirstAndLast
  <2>7. \A m \in L :
          /\ k[m].parent = IF m = n THEN NULL ELSE h[m].parent
          /\ k[m].next = IF m = n THEN NULL ELSE IF m = y THEN x ELSE h[m].next
          /\ k[m].first = IF m = p /\ h[m].first = n THEN x ELSE h[m].first
          /\ k[m].prev = IF m = n THEN NULL ELSE IF m = x THEN y ELSE h[m].prev
          /\ k[m].last = IF m = p /\ h[m].last = n THEN y ELSE h[m].last
    BY <1>2 DEF Emancipate
  <2>8. EmancipateTouches(h, n) \subseteq L
    BY <2>1 DEF EmancipateTouches
  <2> HIDE DEF p, x, y, k
  <2>9. NoDangling(k, L, Torn)
    BY <2>1, <2>7 DEF Linked, NoDangling
  <2>10. SiblingsMirror(k, L)
    BY <2>1, <2>2, <2>3, <2>4, <2>5, <2>7, NullAssumption DEF Linked, SiblingsMirror, p
  <2>11. EndsOfFamily(k, L, Torn)
    BY <2>1, <2>2, <2>3, <2>4, <2>5, <2>6, <2>7, NullAssumption
    DEF Linked, EndsOfFamily, p, x, y
  <2>12. RootsAlone(k, L)
    BY <1>2, <2>1, <2>3, <2>4, <2>7, NullAssumption DEF Linked, RootsAlone
  <2>13. FirstAndLast(k, L, Torn)
    BY <2>1, <2>6, <2>7, NullAssumption DEF Linked, FirstAndLast, EndsOfFamily, p, x, y
  <2>14. Acyclic(k, L)
    <3> SUFFICES ASSUME NEW T \in (SUBSET L) \ {{}}
                 PROVE  /\ \E m \in T : k[m].parent \notin T
                        /\ \E m \in T : k[m].prev \notin T
      BY DEF Acyclic
    <3>1. \E m \in T : k[m].parent \notin T
      <4>1. PICK m \in T : h[m].parent \notin T
        BY DEF Linked, Acyclic
      <4>2. QED
        BY <4>1, <2>7, NullAssumption
    <3>2. CASE n \in T
      BY <2>7, <3>1, <3>2, NullAssumption
    <3>3. CASE n \notin T /\ x \in T /\ y \notin T
      BY <2>7, <3>1, <3>3
    <3>4. CASE n \notin T /\ x \notin T
      <4>1. PICK m \in T : h[m].prev \notin T
        BY DEF Linked, Acyclic
      <4>2. QED
        BY <2>7, <3>1, <3>4, <4>1
    <3>5. CASE n \notin T /\ x \in T /\ y \in T
      <4>1. T \cup {n} \in (SUBSET L) \ {{}}
        OBVIOUS
      <4>2. PICK m \in T \cup {n} : h[m].prev \notin T \cup {n}
        BY <4>1 DEF Linked, Acyclic
      <4>3. m \in T /\ m # x
        BY <2>3, <3>5, <4>2, NullAssumption DEF y
      <4>4. QED
        BY <2>7, <3>1, <3>5, <4>2, <4>3
    <3>6. QED
      BY <3>2, <3>3, <3>4, <3>5
  <2>15. QED
    BY <2>8, <2>9, <2>10, <2>11, <2>12, <2>13, <2>14 DEF Linked, k
<1>3. QED
  BY <1>1, <1>2

-----------------------------------------------------------------------------
\* jd_Node_adopt of a root by a node outside its tree, at the end or in front
\* of a child: no assertion fails, allocated nodes only are touched, and the
\* forest stays one.
LEMMA AdoptLinked ==
  ASSUME NEW h \in [Node -> Cell], NEW L \in SUBSET Node, NEW Torn \in SUBSET L,
         Linked(h, L, Torn),
         NEW a \in L, h[a].parent = NULL,
         NEW p \in L, p \notin Torn, p \notin Span(h, a),
         NEW b \in L \cup {NULL}, b # NULL => h[b].parent = p
  PROVE  AdoptSafe(h, L, a, p, b) /\ Linked(Adopt(h, a, p, b), L, Torn)
<1> DEFINE e == Elder(h, p, b)
           k == Adopt(h, a, p, b)
<1>1. a # p /\ a # NULL /\ p # NULL
  BY SpanClosed, NullAssumption
<1>2. h[a].next = NULL /\ h[a].prev = NULL
  BY DEF Linked, RootsAlone
<1>3. e \in L \cup {NULL}
  BY DEF Elder, Linked, NoDangling
<1>4. e # NULL => h[e].parent = p /\ h[e].next = b
  BY <1>3 DEF Elder, Linked, SiblingsMirror, EndsOfFamily
<1>5. e # a /\ b # a
  BY <1>1, <1>4
<1>6. AdoptSafe(h, L, a, p, b)
  BY <1>1, <1>2, <1>3 DEF AdoptSafe, AdoptTouches, AdoptAsserts
<1>7. \A m \in L :
        /\ k[m].parent = IF m = a THEN p ELSE h[m].parent
        /\ k[m].next = IF m = e THEN a ELSE IF m = a /\ b # NULL THEN b ELSE h[m].next
        /\ k[m].first = IF m = p /\ e = NULL THEN a ELSE h[m].first
        /\ k[m].prev = IF m = a /\ e # NULL THEN e ELSE IF m = b THEN a ELSE h[m].prev
        /\ k[m].last = IF m = p /\ b = NULL THEN a ELSE h[m].last
  BY DEF Adopt
<1>8. b # NULL => h[b].prev = e
  BY DEF Elder
<1>9. b = NULL => h[p].last = e
  BY DEF Elder
<1>10. \A m \in L : h[m].next # a /\ h[m].prev # a
  BY <1>1, <1>2, NullAssumption DEF Linked, SiblingsMirror
<1> HIDE DEF e, k
<1>11. NoDangling(k, L, Torn)
  BY <1>1, <1>3, <1>7 DEF Linked, NoDangling
<1>12. SiblingsMirror(k, L)
  BY <1>1, <1>2, <1>3, <1>4, <1>5, <1>7, <1>8, <1>10, NullAssumption
  DEF Linked, SiblingsMirror
<1>13. EndsOfFamily(k, L, Torn)
  BY <1>1, <1>2, <1>3, <1>4, <1>5, <1>7, <1>8, <1>9, <1>10, NullAssumption
  DEF Linked, EndsOfFamily, FirstAndLast
<1>14. RootsAlone(k, L)
  BY <1>1, <1>2, <1>3, <1>4, <1>7, NullAssumption DEF Linked, RootsAlone
<1>15. FirstAndLast(k, L, Torn)
  <2>1. b # NULL /\ e = NULL => h[p].first = b
    BY <1>8 DEF Linked, EndsOfFamily
  <2>2. /\ e = NULL => k[p].first # NULL /\ k[p].last # NULL
        /\ e # NULL => (k[p].first = NULL <=> k[p].last = NULL)
    BY <1>1, <1>7, <1>9, <2>1, NullAssumption DEF Linked, FirstAndLast
  <2>3. \A m \in L : m # p => k[m].first = h[m].first /\ k[m].last = h[m].last
    BY <1>7
  <2>4. QED
    BY <2>2, <2>3 DEF Linked, FirstAndLast
<1>16. Acyclic(k, L)
  <2> SUFFICES ASSUME NEW T \in (SUBSET L) \ {{}}
               PROVE  /\ \E m \in T : k[m].parent \notin T
                      /\ \E m \in T : k[m].prev \notin T
    BY DEF Acyclic
  <2>1. \E m \in T : k[m].parent \notin T
    <3>1. CASE a \in T /\ p \notin T
      BY <1>7, <3>1
    <3>2. CASE a \notin T
      <4>1. PICK m \in T : h[m].parent \notin T
        BY DEF Linked, Acyclic
      <4>2. QED
        BY <1>7, <3>2, <4>1
    <3>3. CASE a \in T /\ p \in T
      <4> DEFINE U == T \ Span(h, a)
      <4>1. U \in (SUBSET L) \ {{}} /\ a \notin U
        BY <3>3, SpanClosed
      <4>2. PICK m \in U : h[m].parent \notin U
        BY <4>1 DEF Linked, Acyclic
      <4>3. h[m].parent \notin Span(h, a)
        BY <4>1, <4>2, SpanChildren
      <4>4. QED
        BY <1>7, <4>1, <4>2, <4>3
    <3>4. QED
      BY <3>1, <3>2, <3>3
  <2>2. \E m \in T : k[m].prev \notin T
    <3>1. CASE a \notin T
      <4>1. PICK m \in T : h[m].prev \notin T
        BY DEF Linked, Acyclic
      <4>2. QED
        BY <1>5, <1>7, <3>1, <4>1
    <3>2. CASE a \in T /\ e \notin T
      BY <1>2, <1>5, <1>7, <3>2, NullAssumption
    <3>3. CASE a \in T /\ e \in T
      <4>1. T \ {a} \in (SUBSET L) \ {{}}
        BY <1>5, <3>3
      <4>2. PICK m \in T \ {a} : h[m].prev \notin T \ {a}
        BY <4>1 DEF Linked, Acyclic
      <4>3. h[m].prev \notin T /\ m # b
        BY <1>5, <1>8, <1>10, <3>3, <4>2, NullAssumption
      <4>4. QED
        BY <1>7, <4>2, <4>3
    <3>4. QED
      BY <3>1, <3>2, <3>3
  <2>3. QED
    BY <2>1, <2>2
<1>17. QED
  BY <1>6, <1>11, <1>12, <1>13, <1>14, <1>15, <1>16 DEF Linked, k
=============================================================================
