------------------------------- MODULE JdNode -------------------------------
(***************************************************************************)
(* jd_Node.c as a state machine: a client builds, edits and destroys trees *)
(* through the functions of jd_Node.h, one action per call and per outcome *)
(* of the mallocs the call makes.  The library is sequential, so a call is *)
(* one step.  A call that would touch memory that is not allocated, free   *)
(* it, or fail an assertion sets fault and ends the behaviour.             *)
(***************************************************************************)
EXTENDS NodeHeap

CONSTANTS MallocMayFail,  \* whether malloc may return NULL
          StrictClient,   \* whether the client keeps to make_null_property's real contract
          TypesUsed       \* bound: the types the client converts nodes to

ASSUME ClientAssumption ==
  /\ MallocMayFail \in BOOLEAN /\ StrictClient \in BOOLEAN
  /\ TypesUsed \subseteq Types

VARIABLES heap,     \* the links of every node block
          type,     \* jd_Node::type of every block
          payload,  \* jd_Node::payload of every block
          live,     \* the allocated node blocks
          strs,     \* the allocated string blocks
          held,     \* the string blocks the client still owns
          failed,   \* nodes on which make_null_property returned false
          fault     \* memory was misused or an assertion failed

vars == <<heap, type, payload, live, strs, held, failed, fault>>

Init == /\ heap = [n \in Node |-> ZeroCell]
        /\ type = [n \in Node |-> "null"]
        /\ payload = [n \in Node |-> NULL]
        /\ live = {} /\ strs = {} /\ held = {} /\ failed = {}
        /\ fault = FALSE

-----------------------------------------------------------------------------
\* The children of p, the legal values of "before".
Children(p) == {c \in live : heap[c].parent = p}

\* A client that keeps to the contract appends nothing to a torn node.
MayParent(p) == StrictClient => p \notin failed

\* jd_Node_adopt as part of a call: relink, or run into undefined behaviour.
DoAdopt(h, L, a, p, b) ==
  IF AdoptSafe(h, L, a, p, b)
  THEN heap' = Adopt(h, a, p, b) /\ fault' = FALSE
  ELSE heap' = h /\ fault' = TRUE

(***************************************************************************)
(* jd_Node_create.  A failed malloc returns false and changes nothing, so  *)
(* only the success is an action.                                          *)
(***************************************************************************)
CreateRoot(n) ==
  /\ n \notin live
  /\ live' = live \cup {n}
  /\ heap' = [heap EXCEPT ![n] = ZeroCell]
  /\ type' = [type EXCEPT ![n] = "null"]
  /\ payload' = [payload EXCEPT ![n] = NULL]
  /\ UNCHANGED <<strs, held, failed, fault>>

CreateUnder(n, p, b) ==
  /\ n \notin live /\ p \in live /\ b \in Children(p) \cup {NULL}
  /\ MayParent(p)
  /\ live' = live \cup {n}
  /\ DoAdopt([heap EXCEPT ![n] = ZeroCell], live \cup {n}, n, p, b)
  /\ type' = [type EXCEPT ![n] = "null"]
  /\ payload' = [payload EXCEPT ![n] = NULL]
  /\ UNCHANGED <<strs, held, failed>>

(***************************************************************************)
(* jd_Node_adopt and jd_Node_array_insert_element.  The code does not test *)
(* that the adoptee is outside its new parent's ancestry: that, and a      *)
(* "before" that is a child of the parent, is the caller's duty.           *)
(***************************************************************************)
AdoptNode(a, p, b) ==
  /\ a \in live /\ heap[a].parent = NULL
  /\ p \in live \ Span(heap, a) /\ b \in Children(p) \cup {NULL}
  /\ MayParent(p)
  /\ DoAdopt(heap, live, a, p, b)
  /\ UNCHANGED <<type, payload, live, strs, held, failed>>

ArrayInsertElement(p, a, b) == type[p] = "array" /\ AdoptNode(a, p, b)

EmancipateNode(n) ==
  /\ n \in live
  /\ IF EmancipateTouches(heap, n) \subseteq live
     THEN heap' = Emancipate(heap, n) /\ fault' = FALSE
     ELSE heap' = heap /\ fault' = TRUE
  /\ UNCHANGED <<type, payload, live, strs, held, failed>>

(***************************************************************************)
(* jd_Node_destroy of a whole tree.  The function leaves the links of its  *)
(* argument's family alone, so an attached node is emancipated first.      *)
(***************************************************************************)
PayloadsOf(D) == {payload[d] : d \in D} \ {NULL}

DestroySafe(n) ==
  LET S == Span(heap, n) IN
  /\ S \subseteq live
  /\ VisitsOnce(heap, n)
  /\ PayloadsOf(S) \subseteq strs
  /\ \A x, y \in S : payload[x] = payload[y] => x = y \/ payload[x] = NULL

Destroy(n) ==
  LET S == Span(heap, n) IN
  /\ n \in live /\ heap[n].parent = NULL
  /\ fault' = ~DestroySafe(n)
  /\ heap' = FreeNodes(heap, S)
  /\ type' = [m \in Node |-> IF m \in S THEN "null" ELSE type[m]]
  /\ payload' = [m \in Node |-> IF m \in S THEN NULL ELSE payload[m]]
  /\ live' = live \ S
  /\ strs' = strs \ PayloadsOf(S)
  /\ failed' = failed \ S
  /\ UNCHANGED held

-----------------------------------------------------------------------------
(***************************************************************************)
(* The value setters.  All begin with jd_Node_discard_payload, which frees *)
(* the payload; none looks at the children.                                *)
(***************************************************************************)
Kept(n) == strs \ {payload[n]}
DiscardSafe(n) == payload[n] \in strs \cup {NULL}

\* Slip: the payload is freed but the pointer stays.
DiscardKeepsPointer(n) ==
  UNCHANGED payload /\ strs' = Kept(n) /\ fault' = ~DiscardSafe(n)

Discard(n) ==
  /\ payload' = [payload EXCEPT ![n] = NULL]
  /\ strs' = Kept(n)
  /\ fault' = ~DiscardSafe(n)

DiscardPayload(n) ==
  /\ n \in live /\ Discard(n)
  /\ UNCHANGED <<heap, type, live, held, failed>>

Scalars == {"null", "true", "false"}

\* Slip: the old payload is kept.
SetTypeOnly(n, t) ==
  /\ n \in live /\ t \in TypesUsed
  /\ type' = [type EXCEPT ![n] = t]
  /\ UNCHANGED <<heap, payload, live, strs, held, failed, fault>>

\* jd_Node_set_null, _set_true, _set_false, _make_array, _make_object.
SetType(n, t) ==
  /\ n \in live /\ t \in TypesUsed /\ Discard(n)
  /\ type' = [type EXCEPT ![n] = t]
  /\ UNCHANGED <<heap, live, held, failed>>

SetScalar(n, t) == t \in Scalars /\ SetType(n, t)
MakeArray(n) == SetType(n, "array")
MakeObject(n) == SetType(n, "object")

\* Slip: the old payload is overwritten without being freed.
TakeStringLeaks(n, s) ==
  /\ n \in live /\ s \in held /\ "string" \in TypesUsed
  /\ payload' = [payload EXCEPT ![n] = s]
  /\ type' = [type EXCEPT ![n] = "string"]
  /\ held' = held \ {s}
  /\ UNCHANGED <<heap, live, strs, failed, fault>>

\* jd_Node_take_string: the block s passes from the client to the node.
TakeString(n, s) ==
  /\ n \in live /\ s \in held /\ "string" \in TypesUsed
  /\ payload' = [payload EXCEPT ![n] = s]
  /\ type' = [type EXCEPT ![n] = "string"]
  /\ strs' = Kept(n) /\ fault' = ~DiscardSafe(n)
  /\ held' = held \ {s}
  /\ UNCHANGED <<heap, live, failed>>

\* jd_Node_copy_string (t = "string"), _set_integer, _set_float: the text is
\* copied to a new block s; the old payload may be the block malloc returns.
CopyText(n, t, s) ==
  /\ n \in live /\ s \notin Kept(n)
  /\ t \in TextTypes \cap TypesUsed
  /\ payload' = [payload EXCEPT ![n] = s]
  /\ type' = [type EXCEPT ![n] = t]
  /\ strs' = Kept(n) \cup {s} /\ fault' = ~DiscardSafe(n)
  /\ UNCHANGED <<heap, live, held, failed>>

\* The same calls when malloc fails: the old payload is gone, the type stays.
CopyTextFails(n) ==
  /\ MallocMayFail /\ DiscardPayload(n)

\* The client allocates a string to hand over with jd_Node_take_string.
ClientMalloc(s) ==
  /\ s \notin strs
  /\ strs' = strs \cup {s} /\ held' = held \cup {s}
  /\ UNCHANGED <<heap, type, payload, live, failed, fault>>

(***************************************************************************)
(* jd_Node_make_null_property, in three outcomes.  It destroys the         *)
(* children, which clears firstChild but leaves lastChild as it was, and   *)
(* then appends a label and a value node.  The client that keeps to the    *)
(* contract calls it on childless nodes only.                              *)
(***************************************************************************)
\* The nodes the call on n destroys, and the heap and nodes left after that.
\* Were n among them, ShedSafe would fail.
Shed(n) == IF heap[n].first = NULL THEN {} ELSE Span(heap, heap[n].first) \ {n}
ShedHeap(n) == [FreeNodes(heap, Shed(n)) EXCEPT ![n].first = NULL]
ShedLive(n) == live \ Shed(n)
ShedSafe(n) ==
  /\ DiscardSafe(n)
  /\ heap[n].first # NULL => DestroySafe(heap[n].first)

MayMakeProperty(n) ==
  n \in live /\ (StrictClient => n \notin failed /\ heap[n].first = NULL)

\* The value part of the call: the payloads of n and of the children are
\* freed, n becomes a property, and the nodes in Fresh are null nodes.
Retype(n, Fresh) ==
  type' = [m \in Node |-> IF m = n THEN "property"
                          ELSE IF m \in Shed(n) \cup Fresh THEN "null" ELSE type[m]]
Repay(n, Fresh) ==
  [m \in Node |-> IF m \in Shed(n) \cup Fresh \cup {n} THEN NULL ELSE payload[m]]
ShedStrs(n) == strs \ PayloadsOf(Shed(n) \cup {n})

\* The label node cannot be allocated.
MakePropertyNoLabel(n) ==
  /\ MallocMayFail /\ MayMakeProperty(n)
  /\ heap' = ShedHeap(n) /\ live' = ShedLive(n)
  /\ Retype(n, {}) /\ payload' = Repay(n, {}) /\ strs' = ShedStrs(n)
  /\ failed' = failed \ Shed(n)
  /\ fault' = ~ShedSafe(n)
  /\ UNCHANGED held

\* The value node cannot be allocated: the label l, already the last child,
\* is destroyed again, which clears firstChild only.
MakePropertyNoValue(n, l) ==
  /\ MallocMayFail /\ MayMakeProperty(n) /\ l \in Node \ ShedLive(n)
  /\ LET h == Adopt([ShedHeap(n) EXCEPT ![l] = ZeroCell], l, n, NULL)
         D == Span(h, h[n].first)
     IN /\ fault' = ~(/\ ShedSafe(n)
                      /\ AdoptTouches(ShedHeap(n), l, n, NULL) \subseteq ShedLive(n) \cup {l}
                      /\ h[n].first = l /\ D = {l})
        /\ heap' = [FreeNodes(h, {l}) EXCEPT ![n].first = NULL]
  /\ live' = ShedLive(n)
  /\ Retype(n, {l}) /\ payload' = Repay(n, {l}) /\ strs' = ShedStrs(n)
  /\ failed' = (failed \ Shed(n)) \cup {n}
  /\ UNCHANGED held

\* Both nodes are allocated; s is the label's copy, NULL if that malloc fails,
\* which the code ignores.
MakeProperty(n, l, v, s) ==
  /\ MayMakeProperty(n) /\ l # v /\ {l, v} \subseteq Node \ ShedLive(n)
  /\ s = NULL => MallocMayFail
  /\ s \notin ShedStrs(n)
  /\ LET h0 == [ShedHeap(n) EXCEPT ![l] = ZeroCell, ![v] = ZeroCell]
         h1 == Adopt(h0, l, n, NULL)
     IN /\ heap' = Adopt(h1, v, n, NULL)
        /\ fault' = ~(/\ ShedSafe(n)
                      /\ AdoptTouches(h0, l, n, NULL) \subseteq ShedLive(n) \cup {l})
  /\ live' = ShedLive(n) \cup {l, v}
  /\ type' = [m \in Node |-> IF m = n THEN "property"
                             ELSE IF m = l /\ s # NULL THEN "string"
                             ELSE IF m \in Shed(n) \cup {l, v} THEN "null" ELSE type[m]]
  /\ payload' = [Repay(n, {l, v}) EXCEPT ![l] = s]
  /\ strs' = ShedStrs(n) \cup ({s} \ {NULL})
  /\ failed' = failed \ Shed(n)
  /\ UNCHANGED held

-----------------------------------------------------------------------------
LinkCalls ==
  \/ \E n \in Node : CreateRoot(n)
  \/ \E n, p \in Node, b \in Pointer : CreateUnder(n, p, b)
  \/ \E a, p \in Node, b \in Pointer : AdoptNode(a, p, b)
  \/ \E a, p \in Node, b \in Pointer : ArrayInsertElement(p, a, b)
  \/ \E n \in Node : EmancipateNode(n)
  \/ \E n \in Node : Destroy(n)

ValueCalls ==
  \/ \E n \in Node : DiscardPayload(n)
  \/ \E n \in Node, t \in Scalars : SetScalar(n, t)
  \/ \E n \in Node : MakeArray(n)
  \/ \E n \in Node : MakeObject(n)
  \/ \E n \in Node, s \in Str : TakeString(n, s)
  \/ \E n \in Node, s \in Str, t \in TextTypes : CopyText(n, t, s)
  \/ \E n \in Node : CopyTextFails(n)
  \/ \E s \in Str : ClientMalloc(s)

PropertyCalls ==
  \/ \E n \in Node : MakePropertyNoLabel(n)
  \/ \E n, l \in Node : MakePropertyNoValue(n, l)
  \/ \E n, l, v \in Node, s \in Str \cup {NULL} : MakeProperty(n, l, v, s)

Next == ~fault /\ (LinkCalls \/ ValueCalls \/ PropertyCalls)

Spec == Init /\ [][Next]_vars
-----------------------------------------------------------------------------
(***************************************************************************)
(* Properties.                                                             *)
(***************************************************************************)
\* Every variable has its type, and the blocks the client and the nodes refer
\* to are allocated: jd_Node_discard_payload and the setters never leave a
\* payload pointer to a freed block (jd_Node.c:189-306).
TypeOK ==
  /\ heap \in [Node -> Cell] /\ type \in [Node -> Types]
  /\ payload \in [Node -> strs \cup {NULL}]
  /\ live \subseteq Node /\ failed \subseteq Node
  /\ strs \subseteq Str /\ held \subseteq strs
  /\ fault \in BOOLEAN

\* However the client adopts, emancipates, inserts and destroys, the five
\* pointers of all nodes describe one forest: lists of siblings linked in
\* both directions, with the right ends, under the right parent, without
\* cycles and without a pointer to freed memory (jd_Node.c:35-184).
TreeLinked == Linked(heap, live, failed)

\* No call touches a freed node or string, frees a block twice or fails one
\* of the assertions of jd_Node_adopt (jd_Node.c:74-87, 167-198).
MemorySafe == ~fault

\* Every allocated string has exactly one owner, a node or the client: no
\* sequence of take, copy, discard and destroy leaks or shares a payload
\* (jd_Node.c:167-306).
SoleOwner ==
  /\ strs = PayloadsOf(live) \cup held
  /\ PayloadsOf(live) \cap held = {}
  /\ \A x, y \in live : payload[x] = payload[y] => x = y \/ payload[x] = NULL

\* Only text values keep a payload, so that no value read as null, true,
\* false, array or object carries the text of an earlier value
\* (jd_Node.c:205-234, 311-373).
PayloadTyped == \A n \in live : payload[n] # NULL => type[n] \in TextTypes
=============================================================================
