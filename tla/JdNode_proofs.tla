--------------------------- MODULE JdNode_proofs ---------------------------
(***************************************************************************)
(* What jd_Node.c keeps true, for any number of nodes and strings and      *)
(* whether malloc may fail or not.  Of the payloads: whatever the client   *)
(* does.  Of the links and the memory: if the client keeps to the contract *)
(* that jd_Node_make_null_property really has (StrictClient), the          *)
(* functions keep the nodes a forest and misuse no memory; and, if the     *)
(* memory is finite, what they do to the links is what the operations of   *)
(* OrderedForest do to sequences of children.                              *)
(***************************************************************************)
EXTENDS MCJdNode, NodeHeap_proofs, Folding_proofs, SequenceTheorems, FiniteSetTheorems

(***************************************************************************)
(* SoleOwner and TypeOK are not inductive: a call could free the payload   *)
(* that a block not in live, or a second node, still points to.  Owned     *)
(* says that there is no such block.                                       *)
(***************************************************************************)
Owned ==
  /\ \A x \in Node \ live : payload[x] = NULL
  /\ \A x, y \in Node : payload[x] = payload[y] => x = y \/ payload[x] = NULL
  /\ \A x \in Node : payload[x] \notin held
  /\ \A s \in strs : s \in held \/ \E x \in live : payload[x] = s

PayloadInv == TypeOK /\ Owned /\ PayloadTyped

-----------------------------------------------------------------------------
LEMMA ShedType == \A n \in Node : Shed(n) \subseteq Node \ {n}
  BY SpanType DEF Shed

-----------------------------------------------------------------------------
\* No memory is allocated at the start.
LEMMA PayloadInvInit == Init => PayloadInv
  BY ZeroCellType, NullAssumption
  DEF Init, PayloadInv, TypeOK, Owned, PayloadTyped, Types

\* The calls on links do not touch a payload, but for those of the nodes that
\* jd_Node_destroy frees.
LEMMA LinkCallsKeep == PayloadInv /\ LinkCalls => PayloadInv'
<1> SUFFICES ASSUME PayloadInv, LinkCalls PROVE PayloadInv'
  OBVIOUS
<1> USE NullAssumption DEF PayloadInv, TypeOK
<1> DEFINE Frame == UNCHANGED <<type, payload, live, strs, held, failed>>
<1>1. ASSUME Frame, heap' \in [Node -> Cell], fault' \in BOOLEAN PROVE PayloadInv'
  BY <1>1 DEF Owned, PayloadTyped
<1>2. ASSUME NEW n \in Node, n \notin live, live' = live \cup {n},
             heap' \in [Node -> Cell], fault' \in BOOLEAN,
             type' = [type EXCEPT ![n] = "null"], payload' = [payload EXCEPT ![n] = NULL],
             UNCHANGED <<strs, held, failed>>
      PROVE  PayloadInv'
  BY <1>2 DEF Owned, PayloadTyped, Types
<1>3. ASSUME NEW h \in [Node -> Cell], NEW L, NEW a \in Node, NEW p \in Node,
             NEW b \in Pointer, DoAdopt(h, L, a, p, b)
      PROVE  heap' \in [Node -> Cell] /\ fault' \in BOOLEAN
  <2>1. Adopt(h, a, p, b) \in [Node -> Cell]
    BY AdoptType
  <2>2. CASE AdoptSafe(h, L, a, p, b)
    BY <1>3, <2>1, <2>2 DEF DoAdopt
  <2>3. CASE ~AdoptSafe(h, L, a, p, b)
    BY <1>3, <2>3 DEF DoAdopt
  <2>4. QED
    BY <2>2, <2>3
<1>4. ASSUME NEW n \in Node, CreateRoot(n) PROVE PayloadInv'
  BY <1>2, <1>4, ZeroCellType DEF CreateRoot
<1>5. ASSUME NEW n \in Node, NEW p \in Node, NEW b \in Pointer, CreateUnder(n, p, b)
      PROVE  PayloadInv'
  BY <1>2, <1>3, <1>5, ZeroCellType DEF CreateUnder
<1>6. ASSUME NEW a \in Node, NEW p \in Node, NEW b \in Pointer, AdoptNode(a, p, b)
      PROVE  PayloadInv'
  BY <1>1, <1>3, <1>6 DEF AdoptNode
<1>7. ASSUME NEW n \in Node, EmancipateNode(n) PROVE PayloadInv'
  <2>1. Emancipate(heap, n) \in [Node -> Cell]
    BY EmancipateType
  <2>2. Frame /\ (heap' = heap \/ heap' = Emancipate(heap, n)) /\ fault' \in BOOLEAN
    BY <1>7 DEF EmancipateNode
  <2>3. QED
    BY <1>1, <2>1, <2>2
<1>8. ASSUME NEW n \in Node, Destroy(n) PROVE PayloadInv'
  <2> DEFINE S == Span(heap, n)
  <2>1. S \subseteq Node
    BY SpanType
  <2>2. heap' \in [Node -> Cell] /\ fault' \in BOOLEAN
    BY <1>8, FreeNodesType DEF Destroy
  <2>3. /\ type' = [m \in Node |-> IF m \in S THEN "null" ELSE type[m]]
        /\ payload' = [m \in Node |-> IF m \in S THEN NULL ELSE payload[m]]
        /\ live' = live \ S /\ failed' = failed \ S /\ held' = held
        /\ strs' = strs \ {payload[d] : d \in S}
    BY <1>8, <2>1 DEF Destroy, PayloadsOf
  <2>4. TypeOK'
    BY <2>1, <2>2, <2>3 DEF Owned, Types
  <2>5. Owned'
    BY <2>1, <2>3 DEF Owned
  <2>6. PayloadTyped'
    BY <2>3 DEF PayloadTyped
  <2>7. QED
    BY <2>4, <2>5, <2>6
<1>9. QED
  BY <1>4, <1>5, <1>6, <1>7, <1>8 DEF LinkCalls, ArrayInsertElement

\* A setter frees the old payload and leaves every other string where it was.
LEMMA ValueCallsKeep == PayloadInv /\ ValueCalls => PayloadInv'
<1> SUFFICES ASSUME PayloadInv, ValueCalls PROVE PayloadInv'
  OBVIOUS
<1> USE NullAssumption DEF PayloadInv, TypeOK, Owned, PayloadTyped, Types, TextTypes
<1>1. ASSUME NEW n \in Node, DiscardPayload(n) PROVE PayloadInv'
  BY <1>1 DEF DiscardPayload, Discard, Kept
<1>2. ASSUME NEW n \in Node, NEW t \in Types \ TextTypes, SetType(n, t) PROVE PayloadInv'
  BY <1>2 DEF SetType, Discard, Kept
<1>3. ASSUME NEW n \in Node, NEW s \in Str, TakeString(n, s) PROVE PayloadInv'
  BY <1>3 DEF TakeString, Kept
<1>4. ASSUME NEW n \in Node, NEW s \in Str, NEW t \in TextTypes, CopyText(n, t, s)
      PROVE  PayloadInv'
  BY <1>4 DEF CopyText, Kept
<1>5. ASSUME NEW s \in Str, ClientMalloc(s) PROVE PayloadInv'
  BY <1>5 DEF ClientMalloc
<1>6. QED
  BY <1>1, <1>2, <1>3, <1>4, <1>5
  DEF ValueCalls, SetScalar, Scalars, MakeArray, MakeObject, CopyTextFails

\* jd_Node_make_null_property frees the payloads of the node and of what it
\* destroys, and at most one new string is the new label's.
LEMMA PropertyCallsKeep == PayloadInv /\ PropertyCalls => PayloadInv'
<1> SUFFICES ASSUME PayloadInv, PropertyCalls PROVE PayloadInv'
  OBVIOUS
<1> USE NullAssumption DEF PayloadInv, TypeOK
<1>1. ASSUME NEW n \in Node PROVE ShedHeap(n) \in [Node -> Cell]
  <2>1. FreeNodes(heap, Shed(n)) \in [Node -> Cell]
    BY FreeNodesType
  <2>2. QED
    BY <2>1 DEF ShedHeap, Cell, Pointer
<1>2. ASSUME NEW n \in Node, MakePropertyNoLabel(n) PROVE PayloadInv'
  <2>1. heap' \in [Node -> Cell] /\ fault' \in BOOLEAN
    BY <1>1, <1>2 DEF MakePropertyNoLabel
  <2>2. QED
    BY <1>2, <2>1, ShedType
    DEF MakePropertyNoLabel, Retype, Repay, ShedStrs, ShedLive, PayloadsOf, Owned,
        PayloadTyped, Types, TextTypes
<1>3. ASSUME NEW n \in Node, NEW l \in Node, MakePropertyNoValue(n, l) PROVE PayloadInv'
  <2> DEFINE h0 == [ShedHeap(n) EXCEPT ![l] = ZeroCell]
             h == Adopt(h0, l, n, NULL)
  <2>1. FreeNodes(h, {l}) \in [Node -> Cell]
    <3>1. h0 \in [Node -> Cell]
      BY <1>1, ZeroCellType
    <3>2. h \in [Node -> Cell]
      BY <3>1, AdoptType DEF Pointer
    <3>3. QED
      BY <3>2, FreeNodesType
  <2>2. [FreeNodes(h, {l}) EXCEPT ![n].first = NULL] \in [Node -> Cell]
    BY <2>1 DEF Cell, Pointer
  <2>3. heap' \in [Node -> Cell] /\ fault' \in BOOLEAN
    BY <1>3, <2>2 DEF MakePropertyNoValue
  <2> DEFINE D == Shed(n) \cup {n}
             Freed == {payload[d] : d \in D}
  <2>4. D \subseteq Node /\ n \in D /\ n \notin Shed(n) /\ l # n /\ n \in live
    BY <1>3, ShedType DEF MakePropertyNoValue, MayMakeProperty, ShedLive
  <2>5. /\ live' = live \ Shed(n) /\ strs' = strs \ (Freed \ {NULL})
        /\ failed' = (failed \ Shed(n)) \cup {n} /\ held' = held
        /\ l \notin live \ Shed(n)
    BY <1>3 DEF MakePropertyNoValue, ShedLive, ShedStrs, PayloadsOf
  <2>6. payload' = [m \in Node |-> IF m \in D \cup {l} THEN NULL ELSE payload[m]]
    BY <1>3 DEF MakePropertyNoValue, Repay
  <2>7. type' = [m \in Node |-> IF m = n THEN "property"
                                ELSE IF m \in Shed(n) \cup {l} THEN "null" ELSE type[m]]
    BY <1>3 DEF MakePropertyNoValue, Retype
  <2> HIDE DEF D
  <2>8. TypeOK'
    BY <2>3, <2>4, <2>5, <2>6, <2>7 DEF Owned, Types
  <2>9. Owned'
    BY <2>4, <2>5, <2>6 DEF Owned, D
  <2>10. PayloadTyped'
    BY <2>4, <2>5, <2>6, <2>7 DEF PayloadTyped, D
  <2>11. QED
    BY <2>8, <2>9, <2>10
<1>4. ASSUME NEW n \in Node, NEW l \in Node, NEW v \in Node, NEW s \in Str \cup {NULL},
             MakeProperty(n, l, v, s)
      PROVE  PayloadInv'
  <2> DEFINE h0 == [ShedHeap(n) EXCEPT ![l] = ZeroCell, ![v] = ZeroCell]
             h1 == Adopt(h0, l, n, NULL)
  <2>1. Adopt(h1, v, n, NULL) \in [Node -> Cell]
    <3>1. h0 \in [Node -> Cell]
      BY <1>1, ZeroCellType
    <3>2. h1 \in [Node -> Cell]
      BY <3>1, AdoptType DEF Pointer
    <3>3. QED
      BY <3>2, AdoptType DEF Pointer
  <2>2. heap' \in [Node -> Cell] /\ fault' \in BOOLEAN
    BY <1>4, <2>1 DEF MakeProperty
  <2> DEFINE D == Shed(n) \cup {n}
             Freed == {payload[d] : d \in D}
  <2>3. /\ D \subseteq Node /\ n \in D /\ n \notin Shed(n) /\ n \in live
        /\ l # v /\ l # n /\ v # n
    BY <1>4, ShedType DEF MakeProperty, MayMakeProperty, ShedLive
  <2>4. /\ live' = (live \ Shed(n)) \cup {l, v}
        /\ strs' = (strs \ (Freed \ {NULL})) \cup ({s} \ {NULL})
        /\ s \notin strs \ (Freed \ {NULL})
        /\ failed' = failed \ Shed(n) /\ held' = held
    BY <1>4 DEF MakeProperty, ShedLive, ShedStrs, PayloadsOf
  <2>5. /\ payload' = [m \in Node |-> IF m = l THEN s
                                     ELSE IF m \in D \cup {v} THEN NULL ELSE payload[m]]
        /\ l \notin live \ Shed(n) /\ v \notin live \ Shed(n)
    BY <1>4 DEF MakeProperty, Repay, ShedLive
  <2>6. type' = [m \in Node |-> IF m = n THEN "property"
                                ELSE IF m = l /\ s # NULL THEN "string"
                                ELSE IF m \in Shed(n) \cup {l, v} THEN "null" ELSE type[m]]
    BY <1>4 DEF MakeProperty
  <2> HIDE DEF D
  <2>7. TypeOK'
    BY <2>2, <2>3, <2>4, <2>5, <2>6 DEF Owned, Types
  <2>8. Owned'
    <3>1. ASSUME NEW m \in Node \ D PROVE payload[m] \notin Freed \ {NULL}
      BY <2>3, <3>1 DEF Owned
    <3>2. \A m \in Node : payload'[m] = s \/ payload'[m] = NULL
                           \/ (m \notin D /\ m # v /\ payload'[m] = payload[m])
      BY <2>5
    <3>3. \A x \in Node \ live' : payload'[x] = NULL
      BY <2>3, <2>4, <2>5 DEF Owned, D
    <3>4. \A m \in Node : payload'[m] = s => m = l \/ s = NULL
      BY <2>3, <2>4, <2>5, <3>1
    <3>5. \A x, y \in Node : payload'[x] = payload'[y] => x = y \/ payload'[x] = NULL
      BY <3>2, <3>4 DEF Owned
    <3>6. s \notin held
      BY <2>3, <2>4 DEF Owned
    <3>7. \A x \in Node : payload'[x] \notin held'
      BY <2>4, <3>2, <3>6 DEF Owned
    <3>8. ASSUME NEW t \in strs' PROVE t \in held' \/ \E x \in live' : payload'[x] = t
      <4>1. CASE t = s
        BY <2>4, <2>5, <4>1
      <4>2. CASE t # s /\ t \notin held
        <5>1. PICK x \in live : payload[x] = t
          BY <2>4, <4>2 DEF Owned
        <5>2. x \notin D
          BY <2>3, <2>4, <4>2, <5>1
        <5>3. x \in live' /\ payload'[x] = t
          BY <2>3, <2>4, <2>5, <5>1, <5>2 DEF D
        <5>4. QED
          BY <5>3
      <4>3. QED
        BY <2>4, <4>1, <4>2
    <3>9. QED
      BY <3>3, <3>5, <3>7, <3>8 DEF Owned
  <2>9. PayloadTyped'
    BY <2>3, <2>4, <2>5, <2>6 DEF PayloadTyped, TextTypes, D
  <2>10. QED
    BY <2>7, <2>8, <2>9
<1>5. QED
  BY <1>2, <1>3, <1>4 DEF PropertyCalls

-----------------------------------------------------------------------------
LEMMA PayloadInvAlways == Spec => []PayloadInv
<1>1. PayloadInv /\ UNCHANGED vars => PayloadInv'
  BY DEF PayloadInv, TypeOK, Owned, PayloadTyped, vars
<1>2. PayloadInv /\ [Next]_vars => PayloadInv'
  BY <1>1, LinkCallsKeep, ValueCallsKeep, PropertyCallsKeep DEF Next
<1>3. QED
  BY <1>2, PayloadInvInit, PTL DEF Spec

\* No call of jd_Node.c leaves a pointer, a type or a set of blocks outside
\* its type, and no payload pointer of a node, allocated or not, leads to a
\* freed string.
THEOREM TypeCorrect == Spec => []TypeOK
<1>1. PayloadInv => TypeOK
  BY DEF PayloadInv
<1>2. QED
  BY <1>1, PayloadInvAlways, PTL

\* Every allocated string has exactly one owner: no sequence of calls leaks a
\* payload or lets two nodes share one (jd_Node.c:167-306).
THEOREM SoleOwnership == Spec => []SoleOwner
<1>1. PayloadInv => SoleOwner
  BY NullAssumption DEF PayloadInv, TypeOK, Owned, SoleOwner, PayloadsOf
<1>2. QED
  BY <1>1, PayloadInvAlways, PTL

\* Whatever a node is converted to, only text values keep a payload
\* (jd_Node.c:189-373).
THEOREM PayloadsTyped == Spec => []PayloadTyped
<1>1. PayloadInv => PayloadTyped
  BY DEF PayloadInv
<1>2. QED
  BY <1>1, PayloadInvAlways, PTL

-----------------------------------------------------------------------------
LinksInv ==
  /\ PayloadInv
  /\ failed \subseteq live
  /\ TreeLinked
  /\ ~fault

-----------------------------------------------------------------------------
\* What a label allocated without its value leaves behind: a lastChild that is
\* not to be trusted, on a node without children.
LEMMA TornLinked ==
  ASSUME NEW h, NEW k, NEW L \in SUBSET Node, NEW Torn, Linked(h, L, Torn),
         NEW n \in L, h[n].first = NULL,
         \A m \in L : /\ k[m].parent = h[m].parent /\ k[m].next = h[m].next
                      /\ k[m].first = h[m].first /\ k[m].prev = h[m].prev
                      /\ m # n => k[m].last = h[m].last
  PROVE  Linked(k, L, Torn \cup {n})
<1>1. NoDangling(k, L, Torn \cup {n})
  BY DEF Linked, NoDangling
<1>2. SiblingsMirror(k, L) /\ RootsAlone(k, L)
  BY DEF Linked, SiblingsMirror, RootsAlone
<1>3. EndsOfFamily(k, L, Torn \cup {n})
  BY DEF Linked, EndsOfFamily
<1>4. FirstAndLast(k, L, Torn \cup {n})
  BY DEF Linked, FirstAndLast
<1>5. Acyclic(k, L)
  <2> SUFFICES ASSUME NEW T \in (SUBSET L) \ {{}}
               PROVE  /\ \E x \in T : k[x].parent \notin T
                      /\ \E x \in T : k[x].prev \notin T
    BY DEF Acyclic
  <2>1. /\ \E x \in T : h[x].parent \notin T
        /\ \E x \in T : h[x].prev \notin T
    BY DEF Linked, Acyclic
  <2>2. QED
    BY <2>1
<1>6. QED
  BY <1>1, <1>2, <1>3, <1>4, <1>5 DEF Linked

\* A node just cleared can be adopted by any node that is not torn.
LEMMA AdoptFresh ==
  ASSUME NEW h \in [Node -> Cell], NEW L \in SUBSET Node, NEW Torn \in SUBSET L,
         Linked(h, L, Torn),
         NEW a \in L, h[a].parent = NULL, h[a].first = NULL, h[a].next = NULL,
         NEW p \in L \ Torn, p # a,
         NEW b \in L \cup {NULL}, b # NULL => h[b].parent = p
  PROVE  AdoptSafe(h, L, a, p, b) /\ Linked(Adopt(h, a, p, b), L, Torn)
<1>1. p \notin Span(h, a)
  BY SpanAlone
<1>2. QED
  BY <1>1, AdoptLinked

\* What jd_Node_make_null_property finds, and does first, on a childless node.
LEMMA NothingToShed ==
  ASSUME StrictClient, LinksInv, NEW n \in Node, MayMakeProperty(n)
  PROVE  /\ n \in live \ failed /\ heap[n].first = NULL /\ heap[n].last = NULL
         /\ ShedHeap(n) = heap /\ ShedLive(n) = live /\ Shed(n) = {} /\ ShedSafe(n)
<1>1. n \in live \ failed /\ heap[n].first = NULL
  BY DEF MayMakeProperty
<1>2. heap[n].last = NULL
  BY <1>1 DEF LinksInv, TreeLinked, Linked, FirstAndLast
<1>3. Shed(n) = {} /\ ShedLive(n) = live
  BY <1>1 DEF Shed, ShedLive
<1>4. heap \in [Node -> Cell] /\ payload[n] \in strs \cup {NULL}
  BY DEF LinksInv, PayloadInv, TypeOK
<1>5. FreeNodes(heap, {}) = heap
  BY <1>4 DEF FreeNodes
<1>6. [heap EXCEPT ![n].first = NULL] = heap
  <2>1. [heap[n] EXCEPT !.first = NULL] = heap[n]
    BY <1>1, <1>4 DEF Cell
  <2>2. QED
    BY <1>4, <2>1
<1>7. ShedSafe(n)
  BY <1>1, <1>4 DEF ShedSafe, DiscardSafe
<1>8. QED
  BY <1>1, <1>2, <1>3, <1>5, <1>6, <1>7 DEF ShedHeap

-----------------------------------------------------------------------------
LEMMA LinksInvInit == Init => LinksInv
<1> SUFFICES ASSUME Init PROVE LinksInv
  OBVIOUS
<1>1. live = {} /\ failed = {} /\ ~fault
  BY DEF Init
<1>2. Linked(heap, {}, {})
  BY DEF Linked, NoDangling, SiblingsMirror, EndsOfFamily, RootsAlone, FirstAndLast, Acyclic
<1>3. QED
  BY <1>1, <1>2, PayloadInvInit DEF LinksInv, TreeLinked

\* What every step lemma below has to show, PayloadInv being preserved.
Sound == failed' \subseteq live' /\ TreeLinked' /\ ~fault'

LEMMA LinkCallsSound == ASSUME StrictClient, LinksInv, LinkCalls PROVE Sound
<1> USE DEF Sound, TreeLinked
<1>1. /\ heap \in [Node -> Cell] /\ live \in SUBSET Node /\ failed \in SUBSET live
      /\ Linked(heap, live, failed) /\ ~fault
      /\ \A x \in Node : payload[x] \in strs \cup {NULL}
      /\ \A x, y \in Node : payload[x] = payload[y] => x = y \/ payload[x] = NULL
  BY DEF LinksInv, PayloadInv, TypeOK, Owned
<1>2. ASSUME NEW n \in Node, n \notin live
      PROVE  /\ [heap EXCEPT ![n] = ZeroCell] \in [Node -> Cell]
             /\ Linked([heap EXCEPT ![n] = ZeroCell], live \cup {n}, failed)
  BY <1>1, <1>2, CreateLinked
<1>3. ASSUME NEW n \in Node, CreateRoot(n) PROVE Sound
  BY <1>1, <1>2, <1>3 DEF CreateRoot
<1>4. ASSUME NEW n \in Node, NEW p \in Node, NEW b \in Pointer, CreateUnder(n, p, b)
      PROVE  Sound
  <2> DEFINE h == [heap EXCEPT ![n] = ZeroCell]
             L == live \cup {n}
  <2>1. /\ n \notin live /\ p \in live \ failed /\ b \in Children(p) \cup {NULL}
        /\ live' = L /\ DoAdopt(h, L, n, p, b) /\ failed' = failed
    BY <1>4 DEF CreateUnder, MayParent
  <2>2. h \in [Node -> Cell] /\ Linked(h, L, failed) /\ failed \in SUBSET L
    BY <1>1, <1>2, <2>1
  <2>3. h[n].parent = NULL /\ h[n].first = NULL /\ h[n].next = NULL
    BY <1>1 DEF ZeroCell
  <2>4. b \in L \cup {NULL} /\ (b # NULL => h[b].parent = p)
    BY <1>1, <2>1 DEF Children
  <2> HIDE DEF h
  <2>5. AdoptSafe(h, L, n, p, b) /\ Linked(Adopt(h, n, p, b), L, failed)
    BY <1>1, <2>1, <2>2, <2>3, <2>4, AdoptFresh
  <2>6. QED
    BY <2>1, <2>2, <2>5 DEF DoAdopt
<1>5. ASSUME NEW a \in Node, NEW p \in Node, NEW b \in Pointer, AdoptNode(a, p, b)
      PROVE  Sound
  <2>1. /\ a \in live /\ heap[a].parent = NULL /\ p \in live \ failed
        /\ p \notin Span(heap, a) /\ b \in live \cup {NULL}
        /\ b # NULL => heap[b].parent = p
        /\ DoAdopt(heap, live, a, p, b) /\ live' = live /\ failed' = failed
    BY <1>5 DEF AdoptNode, MayParent, Children
  <2>2. AdoptSafe(heap, live, a, p, b) /\ Linked(Adopt(heap, a, p, b), live, failed)
    BY <1>1, <2>1, AdoptLinked
  <2>3. QED
    BY <1>1, <2>1, <2>2 DEF DoAdopt
<1>6. ASSUME NEW n \in Node, EmancipateNode(n) PROVE Sound
  <2>1. EmancipateTouches(heap, n) \subseteq live
          /\ Linked(Emancipate(heap, n), live, failed)
    BY <1>1, <1>6, EmancipateLinked DEF EmancipateNode
  <2>2. QED
    BY <1>1, <1>6, <2>1 DEF EmancipateNode
<1>7. ASSUME NEW n \in Node, Destroy(n) PROVE Sound
  <2> DEFINE S == Span(heap, n)
  <2>1. /\ n \in live /\ heap[n].parent = NULL /\ fault' = ~DestroySafe(n)
        /\ heap' = FreeNodes(heap, S) /\ live' = live \ S /\ failed' = failed \ S
    BY <1>7 DEF Destroy
  <2>2. S \subseteq live /\ VisitsOnce(heap, n)
    BY <1>1, <2>1, SpanLive, DestroyWalk DEF Linked
  <2>3. DestroySafe(n)
    BY <1>1, <2>2 DEF DestroySafe, PayloadsOf
  <2>4. Linked(heap', live', failed')
    BY <1>1, <2>1, DestroyLinked
  <2>5. QED
    BY <1>1, <2>1, <2>3, <2>4
<1>8. QED
  BY <1>3, <1>4, <1>5, <1>6, <1>7 DEF LinkCalls, ArrayInsertElement

LEMMA ValueCallsSound == ASSUME LinksInv, ValueCalls PROVE Sound
<1> USE DEF Sound, TreeLinked, LinksInv
<1>1. \A n \in Node : DiscardSafe(n)
  BY DEF PayloadInv, TypeOK, DiscardSafe
<1>2. UNCHANGED <<heap, live, failed>>
  BY DEF ValueCalls, DiscardPayload, SetScalar, MakeArray, MakeObject, SetType,
         TakeString, CopyText, CopyTextFails, ClientMalloc
<1>3. ~fault'
  BY <1>1 DEF ValueCalls, DiscardPayload, SetScalar, MakeArray, MakeObject, SetType,
              Discard, TakeString, CopyText, CopyTextFails, ClientMalloc
<1>4. QED
  BY <1>2, <1>3

LEMMA PropertyCallsSound == ASSUME StrictClient, LinksInv, PropertyCalls PROVE Sound
<1> USE NullAssumption DEF Sound, TreeLinked
<1>1. /\ heap \in [Node -> Cell] /\ live \in SUBSET Node /\ failed \in SUBSET live
      /\ Linked(heap, live, failed) /\ ~fault
  BY DEF LinksInv, PayloadInv, TypeOK
<1>2. ASSUME NEW n \in Node, MakePropertyNoLabel(n) PROVE Sound
  <2>1. MayMakeProperty(n)
    BY <1>2 DEF MakePropertyNoLabel
  <2>2. heap' = heap /\ live' = live /\ failed' = failed /\ fault' = FALSE
    BY <1>2, <2>1, NothingToShed DEF MakePropertyNoLabel
  <2>3. QED
    BY <1>1, <2>2
<1>3. ASSUME NEW n \in Node, NEW l \in Node, MakePropertyNoValue(n, l) PROVE Sound
  <2> DEFINE h0 == [heap EXCEPT ![l] = ZeroCell]
             h == Adopt(h0, l, n, NULL)
             D == Span(h, l)
  <2>1. MayMakeProperty(n)
    BY <1>3 DEF MakePropertyNoValue
  <2>2. /\ n \in live \ failed /\ heap[n].first = NULL /\ heap[n].last = NULL
        /\ ShedHeap(n) = heap /\ ShedLive(n) = live /\ Shed(n) = {} /\ ShedSafe(n)
    BY <2>1, NothingToShed
  <2>3. l \notin live /\ l # n
    BY <1>3, <2>2 DEF MakePropertyNoValue
  <2>4. Elder(heap, n, NULL) = NULL /\ Elder(h0, n, NULL) = NULL
    BY <1>1, <2>2, <2>3 DEF Elder
  <2>5. h0 \in [Node -> Cell] /\ h \in [Node -> Cell]
    <3>1. h0 \in [Node -> Cell]
      BY <1>1, ZeroCellType
    <3> HIDE DEF h0
    <3>2. QED
      BY <3>1, AdoptType DEF Pointer
  <2>6. /\ h[n].first = l /\ h[l].first = NULL /\ h[l].next = NULL
        /\ \A m \in live : /\ h[m].parent = heap[m].parent /\ h[m].next = heap[m].next
                           /\ h[m].prev = heap[m].prev
                           /\ m # n => h[m].first = heap[m].first /\ h[m].last = heap[m].last
    BY <1>1, <2>2, <2>3, <2>4 DEF Adopt, ZeroCell
  <2> HIDE DEF h
  <2>7. D = {l}
    BY <2>5, <2>6, SpanAlone, SpanClosed
  <2>8. AdoptTouches(heap, l, n, NULL) \subseteq live \cup {l}
    BY <2>2, <2>4 DEF AdoptTouches
  <2>9. /\ fault' = FALSE /\ live' = live /\ failed' = failed \cup {n}
        /\ heap' = [FreeNodes(h, {l}) EXCEPT ![n].first = NULL]
    BY <1>3, <2>2, <2>6, <2>7, <2>8 DEF MakePropertyNoValue, h
  <2>10. \A m \in live : /\ heap'[m].parent = heap[m].parent
                         /\ heap'[m].next = heap[m].next
                         /\ heap'[m].first = heap[m].first
                         /\ heap'[m].prev = heap[m].prev
                         /\ m # n => heap'[m].last = heap[m].last
    BY <1>1, <2>2, <2>3, <2>5, <2>6, <2>9 DEF FreeNodes, Cell
  <2>11. Linked(heap', live, failed \cup {n})
    BY <1>1, <2>2, <2>10, TornLinked
  <2>12. QED
    BY <1>1, <2>2, <2>9, <2>11
<1>4. ASSUME NEW n \in Node, NEW l \in Node, NEW v \in Node, NEW s \in Str \cup {NULL},
             MakeProperty(n, l, v, s)
      PROVE  Sound
  <2> DEFINE ha == [heap EXCEPT ![l] = ZeroCell]
             h0 == [heap EXCEPT ![l] = ZeroCell, ![v] = ZeroCell]
             h1 == Adopt(h0, l, n, NULL)
             L == live \cup {l, v}
  <2>1. MayMakeProperty(n)
    BY <1>4 DEF MakeProperty
  <2>2. /\ n \in live \ failed /\ heap[n].first = NULL /\ heap[n].last = NULL
        /\ ShedHeap(n) = heap /\ ShedLive(n) = live /\ Shed(n) = {} /\ ShedSafe(n)
    BY <2>1, NothingToShed
  <2>3. l \notin live /\ v \notin live /\ l # v /\ l # n /\ v # n
    BY <1>4, <2>2 DEF MakeProperty
  <2>4. ha \in [Node -> Cell] /\ Linked(ha, live \cup {l}, failed)
    BY <1>1, <2>3, CreateLinked
  <2>5. h0 \in [Node -> Cell] /\ Linked(h0, L, failed) /\ failed \in SUBSET L
    <3>1. v \in Node \ (live \cup {l}) /\ failed \in SUBSET (live \cup {l})
      BY <1>1, <2>3
    <3>2. live \cup {l} \in SUBSET Node
      BY <1>1
    <3> HIDE DEF ha
    <3>3. /\ [ha EXCEPT ![v] = ZeroCell] \in [Node -> Cell]
          /\ Linked([ha EXCEPT ![v] = ZeroCell], (live \cup {l}) \cup {v}, failed)
      BY <2>4, <3>1, <3>2, CreateLinked
    <3>4. h0 = [ha EXCEPT ![v] = ZeroCell] /\ L = (live \cup {l}) \cup {v}
      BY DEF ha
    <3>5. QED
      BY <1>1, <3>3, <3>4
  <2>6. /\ h0[l] = ZeroCell /\ h0[v] = ZeroCell /\ h0[n] = heap[n]
    BY <1>1, <2>2, <2>3
  <2>7. /\ ZeroCell.parent = NULL /\ ZeroCell.first = NULL /\ ZeroCell.next = NULL
    BY DEF ZeroCell
  <2>8. Elder(h0, n, NULL) = NULL
    BY <2>2, <2>6 DEF Elder
  <2>9. AdoptTouches(h0, l, n, NULL) \subseteq live \cup {l}
    BY <2>2, <2>8 DEF AdoptTouches
  <2> HIDE DEF h0
  <2>10. h1 \in [Node -> Cell]
    BY <2>5, AdoptType DEF Pointer
  <2>11. Linked(h1, L, failed)
    BY <1>1, <2>2, <2>3, <2>5, <2>6, <2>7, AdoptFresh
  <2>12. h1[v].parent = NULL /\ h1[v].first = NULL /\ h1[v].next = NULL
    BY <2>3, <2>6, <2>7, <2>8 DEF Adopt
  <2> HIDE DEF h1
  <2>13. Linked(Adopt(h1, v, n, NULL), L, failed)
    BY <1>1, <2>2, <2>3, <2>5, <2>10, <2>11, <2>12, AdoptFresh
  <2>14. /\ heap' = Adopt(h1, v, n, NULL) /\ fault' = FALSE
         /\ live' = L /\ failed' = failed
    BY <1>4, <2>2, <2>9 DEF MakeProperty, h0, h1
  <2>15. QED
    BY <1>1, <2>13, <2>14
<1>5. QED
  BY <1>2, <1>3, <1>4 DEF PropertyCalls

-----------------------------------------------------------------------------
LEMMA LinksInvAlways == ASSUME StrictClient PROVE Spec => []LinksInv
<1>1. LinksInv /\ UNCHANGED vars => LinksInv'
  BY DEF LinksInv, PayloadInv, TypeOK, Owned, PayloadTyped, TreeLinked, vars
<1>2. LinksInv /\ Next => LinksInv'
  <2> SUFFICES ASSUME LinksInv, Next PROVE LinksInv'
    OBVIOUS
  <2>1. PayloadInv'
    BY LinkCallsKeep, ValueCallsKeep, PropertyCallsKeep DEF Next, LinksInv
  <2>2. Sound
    BY LinkCallsSound, ValueCallsSound, PropertyCallsSound DEF Next
  <2>3. QED
    BY <2>1, <2>2 DEF LinksInv, Sound
<1>3. QED
  BY <1>1, <1>2, LinksInvInit, PTL DEF Spec

\* However nodes are created, adopted, inserted, emancipated, retyped and
\* destroyed, and whether malloc fails or not, the links of all allocated
\* nodes describe one forest (jd_Node.c:35-184, 311-373).
THEOREM ForestKept == ASSUME StrictClient PROVE Spec => []TreeLinked
<1>1. LinksInv => TreeLinked
  BY DEF LinksInv
<1>2. QED
  BY <1>1, LinksInvAlways, PTL

\* No sequence of calls touches a freed node or string, frees a block twice
\* or fails an assertion of jd_Node_adopt (jd_Node.c:74-87, 167-198).
THEOREM NoFault == ASSUME StrictClient PROVE Spec => []MemorySafe
<1>1. LinksInv => MemorySafe
  BY DEF LinksInv, MemorySafe
<1>2. QED
  BY <1>1, LinksInvAlways, PTL
-----------------------------------------------------------------------------
(***************************************************************************)
(* The children of a node, as a sequence.                                  *)
(***************************************************************************)
At(s, i) == IF i \in 1..Len(s) THEN s[i] ELSE NULL

\* s is what a client meets that starts at firstChild and follows nextSibling.
Family(h, n, s) ==
  /\ s \in Seq(Node)
  /\ h[n].first = At(s, 1)
  /\ \A i \in 1..Len(s) : h[s[i]].next = At(s, i + 1)

\* The parent and the elder sibling of the nodes of a family.
Placed(h, L, n, s) ==
  \A i \in 1..Len(s) : s[i] \in L /\ h[s[i]].parent = n /\ h[s[i]].prev = At(s, i - 1)

LEMMA FamilyLinks ==
  ASSUME NEW h \in [Node -> Cell], NEW L \in SUBSET Node, NEW Torn, Linked(h, L, Torn),
         NEW n \in L, NEW s, Family(h, n, s)
  PROVE  Placed(h, L, n, s)
<1> DEFINE T == {i \in 1..Len(s) :
                   s[i] \in L /\ h[s[i]].parent = n /\ h[s[i]].prev = At(s, i - 1)}
<1>1. Len(s) \in Nat /\ \A i \in 1..Len(s) : s[i] \in Node
  BY DEF Family
<1>2. Len(s) > 0 => 1 \in T
  <2> SUFFICES ASSUME Len(s) > 0 PROVE 1 \in T
    OBVIOUS
  <2>1. h[n].first = s[1] /\ s[1] \in Node /\ At(s, 0) = NULL
    BY <1>1 DEF Family, At
  <2>2. s[1] \in L
    BY <2>1, NullAssumption DEF Linked, NoDangling
  <2>3. h[s[1]].parent = n /\ h[s[1]].prev = NULL
    BY <2>1, <2>2 DEF Linked, EndsOfFamily
  <2>4. QED
    BY <1>1, <2>1, <2>2, <2>3
<1>3. ASSUME NEW i \in T, i + 1 <= Len(s) PROVE i + 1 \in T
  <2>1. i \in 1..Len(s) /\ i + 1 \in 1..Len(s) /\ (i + 1) - 1 = i
    BY <1>1, <1>3
  <2>2. h[s[i]].next = s[i + 1] /\ At(s, i) = s[i] /\ s[i + 1] \in Node /\ s[i] \in L
    BY <1>1, <2>1 DEF Family, At
  <2>3. s[i + 1] \in L
    BY <2>2, NullAssumption DEF Linked, NoDangling
  <2>4. h[s[i + 1]].prev = s[i] /\ h[s[i + 1]].parent = h[s[i]].parent
    BY <2>2, <2>3 DEF Linked, SiblingsMirror
  <2>5. QED
    BY <2>1, <2>2, <2>3, <2>4
<1>4. T \in SUBSET (Nat \ {0})
  BY <1>1
<1>5. 1..Len(s) \subseteq T
  <2> HIDE DEF T
  <2>1. QED
    BY <1>1, <1>2, <1>3, <1>4, Counting
<1>6. QED
  BY <1>5 DEF Placed

LEMMA FamilyDistinct ==
  ASSUME NEW h \in [Node -> Cell], NEW L \in SUBSET Node, NEW Torn, Linked(h, L, Torn),
         NEW n \in L, NEW s, Family(h, n, s)
  PROVE  \A i, j \in 1..Len(s) : s[i] = s[j] => i = j
<1> DEFINE T == {i \in 1..Len(s) : \A j \in 1..Len(s) : s[i] = s[j] => i = j}
<1>1. Len(s) \in Nat /\ \A i \in 1..Len(s) : s[i] \in Node /\ s[i] # NULL
  BY NullAssumption DEF Family
<1>2. \A i \in 1..Len(s) : h[s[i]].prev = At(s, i - 1)
  <2>1. Placed(h, L, n, s)
    BY FamilyLinks
  <2>2. QED
    BY <2>1 DEF Placed
<1>3. /\ At(s, 0) = NULL
      /\ \A i \in 1..Len(s) : i # 1 => i - 1 \in 1..Len(s) /\ At(s, i - 1) = s[i - 1]
  BY <1>1 DEF At
<1>4. Len(s) > 0 => 1 \in T
  <2> SUFFICES ASSUME Len(s) > 0, NEW j \in 1..Len(s), s[1] = s[j] PROVE 1 = j
    BY <1>1
  <2>1. 1 \in 1..Len(s)
    BY <1>1
  <2>2. At(s, 1 - 1) = NULL
    BY <1>3
  <2>3. QED
    BY <1>1, <1>2, <1>3, <2>1, <2>2
<1>5. ASSUME NEW i \in T, i + 1 <= Len(s) PROVE i + 1 \in T
  <2>1. i \in 1..Len(s) /\ i + 1 \in 1..Len(s) /\ (i + 1) - 1 = i /\ i + 1 # 1
    BY <1>1, <1>5
  <2> SUFFICES ASSUME NEW j \in 1..Len(s), s[i + 1] = s[j] PROVE i + 1 = j
    BY <2>1
  <2>2. At(s, j - 1) = s[i] /\ s[i] # NULL
    BY <1>1, <1>2, <1>3, <2>1
  <2>3. j # 1
    BY <1>3, <2>2
  <2>4. j - 1 \in 1..Len(s) /\ s[j - 1] = s[i]
    BY <1>3, <2>2, <2>3
  <2>5. i = j - 1
    BY <2>1, <2>4
  <2>6. QED
    BY <2>1, <2>5
<1>6. T \in SUBSET (Nat \ {0})
  BY <1>1
<1>7. 1..Len(s) \subseteq T
  <2> HIDE DEF T
  <2>1. QED
    BY <1>1, <1>4, <1>5, <1>6, Counting
<1>8. QED
  BY <1>7

\* No child is missing from the family.
LEMMA FamilyWhole ==
  ASSUME NEW h \in [Node -> Cell], NEW L \in SUBSET Node, NEW Torn, Linked(h, L, Torn),
         NEW n \in L, NEW s, Family(h, n, s), NEW c \in L, h[c].parent = n
  PROVE  \E i \in 1..Len(s) : s[i] = c
<1> DEFINE C == {d \in L : h[d].parent = n /\ \A i \in 1..Len(s) : s[i] # d}
<1> SUFFICES ASSUME C # {} PROVE FALSE
  OBVIOUS
<1>1. Len(s) \in Nat /\ \A i \in 1..Len(s) : s[i] \in Node
  BY DEF Family
<1>2. PICK d \in C : \/ h[n].first = d
                     \/ /\ h[d].prev \in L \ C
                        /\ h[h[d].prev].next = d /\ h[h[d].prev].parent = n
  <2>1. C \in SUBSET L /\ \A x \in C : h[x].parent = n
    OBVIOUS
  <2> HIDE DEF C
  <2>2. QED
    BY <2>1, EldestChild
<1>3. d \in Node /\ d # NULL
  BY NullAssumption
<1>4. CASE h[n].first = d
  BY <1>1, <1>3, <1>4 DEF Family, At
<1>5. CASE h[d].prev \in L \ C /\ h[h[d].prev].next = d /\ h[h[d].prev].parent = n
  <2>1. PICK i \in 1..Len(s) : s[i] = h[d].prev
    BY <1>5
  <2>2. At(s, i + 1) = d
    BY <1>5, <2>1 DEF Family
  <2>3. i + 1 \in 1..Len(s) /\ s[i + 1] = d
    BY <1>3, <2>2 DEF At
  <2>4. QED
    BY <2>3
<1>6. QED
  BY <1>2, <1>4, <1>5

\* The children of n in the refinement mapping are its family.
LEMMA KidsAre ==
  ASSUME IsFiniteSet(Node), NEW h, NEW n, NEW s, Family(h, n, s),
         \A i, j \in 1..Len(s) : s[i] = s[j] => i = j
  PROVE  Kids(h, n) = s
<1> DEFINE N == Cardinality(Node)
           E(at, i) == IF i = 1 THEN h[n].first
                       ELSE LET elder == at[i - 1]
                            IN IF elder = NULL THEN NULL ELSE h[elder].next
           w == [i \in 1..N |-> At(s, i)]
           c == Child(h, n)
<1>1. Len(s) \in Nat /\ (\A i \in 1..Len(s) : s[i] \in Node /\ s[i] # NULL) /\ N \in Nat
  BY NullAssumption, FS_CardinalityType DEF Family
<1>2. Len(s) <= N
  <2>1. s \in [1..Len(s) -> Node]
    BY DEF Family
  <2>2. s \in Injection(1..Len(s), Node)
    BY <2>1 DEF Injection, IsInjective
  <2>3. Cardinality(1..Len(s)) <= N
    BY <2>2, FS_Injection
  <2>4. Cardinality(1..Len(s)) = Len(s)
    <3>1. 1 \in Int /\ Len(s) \in Int /\ (Len(s) - 1) + 1 = Len(s)
      BY <1>1
    <3>2. Cardinality(1..Len(s)) = IF 1 > Len(s) THEN 0 ELSE Len(s) - 1 + 1
      BY <3>1, FS_Interval
    <3>3. QED
      BY <1>1, <3>2
  <2>5. QED
    BY <2>3, <2>4
<1>3. \A i \in 1..N : At(s, i) = E(w, i)
  <2> SUFFICES ASSUME NEW i \in 1..N PROVE At(s, i) = E(w, i)
    OBVIOUS
  <2>1. CASE i = 1
    BY <2>1 DEF Family
  <2>2. CASE i # 1
    <3>1. i - 1 \in 1..N /\ (i - 1) + 1 = i
      BY <1>1, <2>2
    <3>2. w[i - 1] = At(s, i - 1)
      BY <3>1
    <3>3. CASE i - 1 \in 1..Len(s)
      <4>1. At(s, i - 1) = s[i - 1] /\ s[i - 1] # NULL
        BY <1>1, <3>3 DEF At
      <4>2. h[s[i - 1]].next = At(s, i)
        BY <3>1, <3>3 DEF Family
      <4>3. QED
        BY <2>2, <3>2, <4>1, <4>2
    <3>4. CASE i - 1 \notin 1..Len(s)
      <4>1. At(s, i - 1) = NULL /\ At(s, i) = NULL
        BY <1>1, <3>1, <3>4 DEF At
      <4>2. QED
        BY <2>2, <3>2, <4>1
    <3>5. QED
      BY <3>3, <3>4
  <2>3. QED
    BY <2>1, <2>2
<1>4. w = [i \in 1..N |-> E(w, i)]
  BY <1>3
<1>5. c = [i \in 1..N |-> E(c, i)]
  <2>1. c = CHOOSE at : at = [i \in 1..N |-> E(at, i)]
    BY DEF Child
  <2> HIDE DEF w, N, E, c
  <2>2. QED
    BY <1>4, <2>1
<1>6. 1..N \subseteq {i \in 1..N : c[i] = At(s, i)}
  <2> DEFINE T == {i \in 1..N : c[i] = At(s, i)}
  <2> HIDE DEF c
  <2>1. N > 0 => 1 \in T
    <3> SUFFICES ASSUME N > 0 PROVE 1 \in T
      OBVIOUS
    <3>1. 1 \in 1..N
      BY <1>1
    <3>2. c[1] = E(c, 1)
      BY <1>5, <3>1
    <3>3. QED
      BY <3>1, <3>2 DEF Family
  <2>2. ASSUME NEW i \in T, i + 1 <= N PROVE i + 1 \in T
    <3>1. i \in 1..N /\ i + 1 \in 1..N /\ (i + 1) - 1 = i
      BY <1>1, <2>2
    <3>2. c[i + 1] = E(c, i + 1) /\ At(s, i + 1) = E(w, i + 1)
      BY <1>3, <1>5, <3>1
    <3>3. c[i] = w[i]
      BY <3>1
    <3>4. E(c, i + 1) = E(w, i + 1)
      BY <3>1, <3>3
    <3>5. QED
      BY <3>1, <3>2, <3>4
  <2>3. T \in SUBSET (Nat \ {0})
    BY <1>1
  <2> HIDE DEF T, N
  <2>4. 1..N \subseteq T
    BY <1>1, <2>1, <2>2, <2>3, Counting
  <2>5. QED
    BY <2>4 DEF T
<1> HIDE DEF c
<1>7. DOMAIN c = 1..N /\ \A i \in 1..N : c[i] = At(s, i)
  BY <1>5, <1>6
<1> HIDE DEF N
<1>8. {i \in DOMAIN c : c[i] # NULL} = 1..Len(s)
  BY <1>1, <1>2, <1>7 DEF At
<1>9. Kids(h, n) = [i \in 1..Len(s) |-> c[i]]
  BY <1>8 DEF Kids, Restrict, c
<1>10. \A i \in 1..Len(s) : c[i] = s[i]
  BY <1>1, <1>2, <1>7 DEF At
<1>11. QED
  BY <1>9, <1>10 DEF Family

-----------------------------------------------------------------------------
(***************************************************************************)
(* The families of all nodes, and what each operation makes of them.       *)
(***************************************************************************)
Families(h, L, K) ==
  /\ K \in [Node -> Seq(Node)]
  /\ \A n \in Node : Family(h, n, K[n])
  /\ \A n \in Node \ L : K[n] = <<>>

LEMMA KidsAreFamilies ==
  ASSUME IsFiniteSet(Node), NEW h \in [Node -> Cell], NEW L \in SUBSET Node, NEW Torn,
         Linked(h, L, Torn), NEW K, Families(h, L, K)
  PROVE  [n \in Node |-> Kids(h, n)] = K
<1>1. ASSUME NEW n \in Node PROVE Kids(h, n) = K[n]
  <2>1. Family(h, n, K[n])
    BY DEF Families
  <2>2. CASE n \in L
    <3>1. \A i, j \in 1..Len(K[n]) : K[n][i] = K[n][j] => i = j
      BY <2>1, <2>2, FamilyDistinct
    <3>2. QED
      BY <2>1, <3>1, KidsAre
  <2>3. CASE n \notin L
    <3>1. 1..Len(K[n]) = {}
      BY <2>3 DEF Families
    <3>2. QED
      BY <2>1, <3>1, KidsAre
  <2>4. QED
    BY <2>2, <2>3
<1>2. QED
  BY <1>1 DEF Families

\* The nodes of a family are allocated children of its parent.
InPlace(h, L, K) ==
  \A n \in Node : \A i \in 1..Len(K[n]) :
    /\ n \in L /\ K[n][i] \in L /\ h[K[n][i]].parent = n
    /\ h[K[n][i]].prev = At(K[n], i - 1) /\ h[K[n][i]].next = At(K[n], i + 1)

LEMMA InFamily ==
  ASSUME NEW h \in [Node -> Cell], NEW L \in SUBSET Node, NEW Torn, Linked(h, L, Torn),
         NEW K, Families(h, L, K)
  PROVE  InPlace(h, L, K)
<1> SUFFICES ASSUME NEW n \in Node, NEW i \in 1..Len(K[n])
             PROVE  /\ n \in L /\ K[n][i] \in L /\ h[K[n][i]].parent = n
                    /\ h[K[n][i]].prev = At(K[n], i - 1)
                    /\ h[K[n][i]].next = At(K[n], i + 1)
  BY DEF InPlace
<1>1. Family(h, n, K[n])
  BY DEF Families
<1>2. n \in L
  <2>1. n \notin L => 1..Len(K[n]) = {}
    BY DEF Families
  <2>2. QED
    BY <2>1
<1>3. Placed(h, L, n, K[n])
  BY <1>1, <1>2, FamilyLinks
<1>4. QED
  BY <1>1, <1>2, <1>3 DEF Placed, Family

LEMMA FamiliesSame ==
  ASSUME NEW h \in [Node -> Cell], NEW L \in SUBSET Node, NEW Torn, Linked(h, L, Torn),
         NEW K, Families(h, L, K), NEW k, NEW M, L \subseteq M,
         \A n \in Node : k[n].first = h[n].first, \A n \in L : k[n].next = h[n].next
  PROVE  Families(k, M, K)
<1>1. ASSUME NEW n \in Node PROVE Family(k, n, K[n])
  <2>1. InPlace(h, L, K)
    BY InFamily
  <2>2. Family(h, n, K[n])
    BY DEF Families
  <2>3. QED
    BY <2>1, <2>2 DEF Family, InPlace
<1>2. QED
  BY <1>1 DEF Families

LEMMA CreateFamilies ==
  ASSUME NEW h \in [Node -> Cell], NEW L \in SUBSET Node, NEW Torn, Linked(h, L, Torn),
         NEW K, Families(h, L, K), NEW x \in Node \ L
  PROVE  Families([h EXCEPT ![x] = ZeroCell], L \cup {x}, K)
<1> DEFINE k == [h EXCEPT ![x] = ZeroCell]
<1>1. h[x].first = NULL
  <2>1. K[x] = <<>> /\ Family(h, x, K[x])
    BY DEF Families
  <2>2. QED
    BY <2>1 DEF Family, At
<1>2. \A n \in Node : k[n].first = h[n].first
  BY <1>1 DEF ZeroCell
<1>3. \A n \in L : k[n].next = h[n].next
  OBVIOUS
<1> HIDE DEF k
<1>4. Families(k, L \cup {x}, K)
  BY <1>2, <1>3, FamiliesSame
<1>5. QED
  BY <1>4 DEF k

\* What SequencesExt puts in front of the i-th element, and takes out there.
IsInserted(t, s, i, a) ==
  /\ t \in Seq(Node) /\ Len(t) = Len(s) + 1
  /\ \A j \in 1..(Len(s) + 1) : t[j] = IF j < i THEN s[j] ELSE IF j = i THEN a ELSE s[j - 1]

LEMMA InsertIs ==
  ASSUME NEW s \in Seq(Node), NEW a \in Node, NEW i \in 1..(Len(s) + 1)
  PROVE  IsInserted(Forest!InsertAt(s, i, a), s, i, a)
<1> DEFINE u == SubSeq(s, 1, i - 1)
           v == SubSeq(s, i, Len(s))
<1>1. /\ u \in Seq(Node) /\ Len(u) = i - 1 /\ \A j \in 1..(i - 1) : u[j] = s[j]
      /\ v \in Seq(Node) /\ Len(v) = (Len(s) - i) + 1
      /\ \A j \in 1..((Len(s) - i) + 1) : v[j] = s[i + j - 1]
  OBVIOUS
<1> DEFINE o == <<a>>
           w == u \o o
           t == w \o v
<1>2. /\ Forest!InsertAt(s, i, a) = t
      /\ o \in Seq(Node) /\ Len(o) = 1 /\ o[1] = a
  BY DEF Forest!InsertAt
<1> HIDE DEF u, v, o
<1>3. /\ w \in Seq(Node) /\ Len(w) = i /\ w[i] = a /\ \A j \in 1..(i - 1) : w[j] = s[j]
  <2>1. u \in Seq(Node) /\ o \in Seq(Node)
    BY <1>1, <1>2
  <2>2. /\ w \in Seq(Node) /\ Len(w) = Len(u) + Len(o)
        /\ \A j \in 1..(Len(u) + Len(o)) : w[j] = IF j <= Len(u) THEN u[j] ELSE o[j - Len(u)]
    BY <2>1, ConcatProperties
  <2>3. Len(u) = i - 1 /\ Len(o) = 1 /\ (i - 1) + 1 = i
    BY <1>1, <1>2
  <2>4. i \in 1..i /\ ~(i <= i - 1) /\ i - (i - 1) = 1 /\ \A j \in 1..(i - 1) : j \in 1..i /\ j <= i - 1
    OBVIOUS
  <2> HIDE DEF w
  <2>5. w[i] = a
    BY <1>2, <2>2, <2>3, <2>4
  <2>6. \A j \in 1..(i - 1) : w[j] = s[j]
    BY <1>1, <2>2, <2>3, <2>4
  <2>7. QED
    BY <2>2, <2>3, <2>5, <2>6
<1> HIDE DEF w
<1>4. /\ t \in Seq(Node) /\ Len(t) = Len(s) + 1
      /\ \A j \in 1..(Len(s) + 1) : t[j] = IF j <= i THEN w[j] ELSE v[j - i]
  <2>1. w \in Seq(Node) /\ v \in Seq(Node)
    BY <1>1, <1>3
  <2>2. /\ t \in Seq(Node) /\ Len(t) = Len(w) + Len(v)
        /\ \A j \in 1..(Len(w) + Len(v)) : t[j] = IF j <= Len(w) THEN w[j] ELSE v[j - Len(w)]
    BY <2>1, ConcatProperties
  <2>3. Len(w) = i /\ Len(v) = (Len(s) - i) + 1
    BY <1>1, <1>3
  <2>4. i + ((Len(s) - i) + 1) = Len(s) + 1
    OBVIOUS
  <2> HIDE DEF t
  <2>5. QED
    BY <2>2, <2>3, <2>4
<1> HIDE DEF t
<1>5. ASSUME NEW j \in 1..(Len(s) + 1)
      PROVE  t[j] = IF j < i THEN s[j] ELSE IF j = i THEN a ELSE s[j - 1]
  <2>1. t[j] = IF j <= i THEN w[j] ELSE v[j - i]
    BY <1>4
  <2>2. j > i => j - i \in 1..((Len(s) - i) + 1) /\ i + (j - i) - 1 = j - 1
    OBVIOUS
  <2>3. j > i => v[j - i] = s[j - 1]
    BY <1>1, <2>2
  <2>4. QED
    BY <1>3, <2>1, <2>3
<1>6. QED
  BY <1>2, <1>4, <1>5 DEF IsInserted

LEMMA RemoveIs ==
  ASSUME NEW s \in Seq(Node), NEW i \in 1..Len(s)
  PROVE  /\ Forest!RemoveAt(s, i) \in Seq(Node)
         /\ Len(Forest!RemoveAt(s, i)) = Len(s) - 1
         /\ \A j \in 1..(Len(s) - 1) :
              Forest!RemoveAt(s, i)[j] = IF j < i THEN s[j] ELSE s[j + 1]
<1> DEFINE u == SubSeq(s, 1, i - 1)
           v == SubSeq(s, i + 1, Len(s))
<1>1. /\ u \in Seq(Node) /\ Len(u) = i - 1 /\ \A j \in 1..(i - 1) : u[j] = s[j]
      /\ v \in Seq(Node) /\ Len(v) = Len(s) - i
      /\ \A j \in 1..(Len(s) - i) : v[j] = s[i + j]
  OBVIOUS
<1>2. Forest!RemoveAt(s, i) = u \o v
  BY DEF Forest!RemoveAt
<1> DEFINE t == u \o v
<1> HIDE DEF u, v
<1>3. t \in Seq(Node) /\ Len(t) = Len(s) - 1
  BY <1>1
<1>4. ASSUME NEW j \in 1..(Len(s) - 1) PROVE t[j] = IF j < i THEN s[j] ELSE s[j + 1]
  <2>1. t[j] = IF j <= i - 1 THEN u[j] ELSE v[j - (i - 1)]
    BY <1>1, <1>3
  <2>2. j >= i => j - (i - 1) \in 1..(Len(s) - i) /\ i + (j - (i - 1)) = j + 1
    OBVIOUS
  <2>3. j >= i => v[j - (i - 1)] = s[j + 1]
    BY <1>1, <2>2
  <2>4. QED
    BY <1>1, <2>1, <2>3
<1>5. QED
  BY <1>2, <1>3, <1>4

\* A family depends on the links of its own nodes.
LEMMA FamilySame ==
  ASSUME NEW h, NEW k, NEW n, NEW s, Family(h, n, s), k[n].first = h[n].first,
         \A i \in 1..Len(s) : k[s[i]].next = h[s[i]].next
  PROVE  Family(k, n, s)
  BY DEF Family

\* There is a place in s between its members e and b.
HasPlace(e, b, s) ==
  \E i \in 1..(Len(s) + 1) :
    /\ e = At(s, i - 1) /\ b = At(s, i)
    /\ b = NULL => i = Len(s) + 1

LEMMA AdoptPlace ==
  ASSUME NEW h \in [Node -> Cell], NEW L \in SUBSET Node, NEW Torn, Linked(h, L, Torn),
         NEW K, Families(h, L, K), NEW p \in L, p \notin Torn,
         NEW b \in L \cup {NULL}, b # NULL => h[b].parent = p
  PROVE  HasPlace(Elder(h, p, b), b, K[p])
<1> DEFINE s == K[p]
<1>1. Family(h, p, s) /\ Len(s) \in Nat
  BY DEF Families, Family
<1>2. \A i \in 1..Len(s) : s[i] \in L /\ h[s[i]].parent = p
                           /\ h[s[i]].prev = At(s, i - 1) /\ h[s[i]].next = At(s, i + 1)
  <2>1. InPlace(h, L, K)
    BY InFamily
  <2>2. QED
    BY <2>1 DEF InPlace
<1>3. CASE b = NULL
  <2>1. Elder(h, p, b) = h[p].last
    BY <1>3 DEF Elder
  <2>2. At(s, Len(s) + 1) = NULL
    BY <1>1 DEF At
  <2>3. h[p].last = At(s, Len(s))
    <3>1. CASE Len(s) = 0
      <4>1. h[p].first = NULL /\ At(s, Len(s)) = NULL
        BY <1>1, <3>1 DEF Family, At
      <4>2. QED
        BY <4>1 DEF Linked, FirstAndLast
    <3>2. CASE Len(s) # 0
      <4>1. Len(s) \in 1..Len(s) /\ At(s, Len(s)) = s[Len(s)]
        BY <1>1, <3>2 DEF At
      <4>2. s[Len(s)] \in L /\ h[s[Len(s)]].parent = p /\ h[s[Len(s)]].next = NULL
        BY <1>2, <2>2, <4>1
      <4>3. h[p].last = s[Len(s)]
        BY <4>2 DEF Linked, EndsOfFamily
      <4>4. QED
        BY <4>1, <4>3
    <3>3. QED
      BY <3>1, <3>2
  <2>4. Len(s) + 1 \in 1..(Len(s) + 1) /\ (Len(s) + 1) - 1 = Len(s)
    BY <1>1
  <2> HIDE DEF s
  <2>5. QED
    BY <1>3, <2>1, <2>2, <2>3, <2>4 DEF s, HasPlace
<1>4. CASE b # NULL
  <2>1. PICK i \in 1..Len(s) : s[i] = b
    BY <1>1, <1>4, FamilyWhole
  <2>2. Elder(h, p, b) = At(s, i - 1) /\ b = At(s, i)
    BY <1>2, <1>4, <2>1 DEF Elder, At
  <2>3. i \in 1..(Len(s) + 1)
    BY <1>1
  <2>4. QED
    BY <1>4, <2>2, <2>3 DEF HasPlace
<1>5. QED
  BY <1>3, <1>4

\* The family of p with a in front of b, or at the end.
Adopted(h, L, K, a, p, b) ==
  \E i \in 1..(Len(K[p]) + 1) :
    /\ Families(Adopt(h, a, p, b), L, [K EXCEPT ![p] = Forest!InsertAt(@, i, a)])
    /\ b = NULL => i = Len(K[p]) + 1

LEMMA AdoptFamilies ==
  ASSUME NEW h \in [Node -> Cell], NEW L \in SUBSET Node, NEW Torn, Linked(h, L, Torn),
         NEW K, Families(h, L, K),
         NEW a \in L, h[a].parent = NULL, NEW p \in L, p \notin Torn, p # a,
         NEW b \in L \cup {NULL}, b # NULL => h[b].parent = p
  PROVE  Adopted(h, L, K, a, p, b)
<1> DEFINE e == Elder(h, p, b)
           k == Adopt(h, a, p, b)
           s == K[p]
<1>1. PICK i \in 1..(Len(s) + 1) : /\ e = At(s, i - 1) /\ b = At(s, i)
                                   /\ b = NULL => i = Len(s) + 1
  <2>1. HasPlace(e, b, s)
    BY AdoptPlace
  <2>2. QED
    BY <2>1 DEF HasPlace
<1> DEFINE t == Forest!InsertAt(s, i, a)
<1>2. s \in Seq(Node) /\ Len(s) \in Nat
  BY DEF Families
<1>3. /\ t \in Seq(Node) /\ Len(t) = Len(s) + 1
      /\ \A j \in 1..(Len(s) + 1) : t[j] = IF j < i THEN s[j] ELSE IF j = i THEN a ELSE s[j - 1]
  <2>1. IsInserted(t, s, i, a)
    BY <1>2, InsertIs
  <2> HIDE DEF t
  <2>2. QED
    BY <2>1 DEF IsInserted
<1>4. \A n \in Node : \A j \in 1..Len(K[n]) :
        n \in L /\ K[n][j] \in L /\ h[K[n][j]].parent = n
  <2>1. InPlace(h, L, K)
    BY InFamily
  <2>2. QED
    BY <2>1 DEF InPlace
<1>5. \A j \in 1..Len(s) : s[j] # a /\ s[j] # NULL /\ s[j] \in L
  BY <1>4, NullAssumption
<1>6. h[a].next = NULL
  BY DEF Linked, RootsAlone
<1>7. \A m \in Node : /\ k[m].first = IF m = p /\ e = NULL THEN a ELSE h[m].first
                      /\ k[m].next = IF m = e THEN a
                                     ELSE IF m = a /\ b # NULL THEN b ELSE h[m].next
  BY DEF Adopt
<1>8. Family(h, p, s) /\ \A n \in Node : Family(h, n, K[n])
  BY DEF Families
<1>9. \A i1, j1 \in 1..Len(s) : s[i1] = s[j1] => i1 = j1
  BY <1>8, FamilyDistinct
<1>10. e # NULL => i - 1 \in 1..Len(s) /\ e = s[i - 1]
  BY <1>1 DEF At
<1>11. e # a
  BY <1>5, <1>10, NullAssumption
<1> HIDE DEF e, k, s, t
<1>12. Family(k, p, t)
  <2>1. k[p].first = At(t, 1)
    <3>1. t[1] = (IF 1 < i THEN s[1] ELSE a) /\ At(t, 1) = t[1]
      BY <1>2, <1>3 DEF At
    <3>2. CASE i = 1
      <4>1. e = NULL
        BY <1>1, <3>2 DEF At
      <4>2. QED
        BY <1>7, <3>1, <3>2, <4>1
    <3>3. CASE i # 1
      <4>1. i - 1 \in 1..Len(s) /\ 1 \in 1..Len(s) /\ 1 < i
        BY <1>2, <3>3
      <4>2. e # NULL
        BY <1>1, <1>5, <4>1 DEF At
      <4>3. h[p].first = s[1]
        BY <1>8, <4>1 DEF Family, At
      <4>4. QED
        BY <1>7, <3>1, <4>1, <4>2, <4>3
    <3>4. QED
      BY <3>2, <3>3
  <2>2. ASSUME NEW j \in 1..Len(t) PROVE k[t[j]].next = At(t, j + 1)
    <3>1. j \in 1..(Len(s) + 1)
      BY <1>3, <2>2
    <3>2. At(t, j + 1) = IF j + 1 <= Len(s) + 1 THEN t[j + 1] ELSE NULL
      BY <1>2, <1>3, <3>1 DEF At
    <3>3. CASE j < i - 1
      <4>1. j \in 1..Len(s) /\ j + 1 \in 1..Len(s) /\ j + 1 < i /\ j + 1 <= Len(s) + 1
        BY <1>2, <3>3
      <4>2. t[j] = s[j] /\ t[j + 1] = s[j + 1]
        BY <1>2, <1>3, <3>3, <4>1
      <4>3. s[j] # e /\ s[j] # a
        BY <1>5, <1>9, <1>10, <3>3, <4>1
      <4>4. h[s[j]].next = s[j + 1]
        BY <1>8, <4>1 DEF Family, At
      <4>5. QED
        BY <1>5, <1>7, <3>2, <4>1, <4>2, <4>3, <4>4
    <3>4. CASE j = i - 1
      <4>1. j \in 1..Len(s) /\ j + 1 = i /\ j < i /\ j + 1 <= Len(s) + 1
        BY <1>2, <3>4
      <4>2. t[j] = s[j] /\ t[j + 1] = a
        BY <1>3, <3>1, <4>1
      <4>3. s[j] = e /\ s[j] \in Node
        BY <1>1, <1>5, <3>4, <4>1 DEF At
      <4>4. QED
        BY <1>7, <3>2, <4>1, <4>2, <4>3
    <3>5. CASE j = i
      <4>1. t[j] = a /\ k[a].next = b
        BY <1>3, <1>6, <1>7, <1>11, <3>1, <3>5
      <4>2. j + 1 <= Len(s) + 1 => t[j + 1] = s[j] /\ j \in 1..Len(s)
        <5>1. j + 1 <= Len(s) + 1 => j + 1 \in 1..(Len(s) + 1) /\ ~(j + 1 < i) /\ j + 1 # i
                                     /\ (j + 1) - 1 = j /\ j \in 1..Len(s)
          BY <1>2, <3>5
        <5>2. QED
          BY <1>3, <5>1
      <4>3. b = IF j + 1 <= Len(s) + 1 THEN s[j] ELSE NULL
        BY <1>1, <1>2, <3>5 DEF At
      <4>4. QED
        BY <3>2, <4>1, <4>2, <4>3
    <3>6. CASE j > i
      <4>1. j - 1 \in 1..Len(s) /\ ~(j < i) /\ j # i
        BY <1>2, <3>1, <3>6
      <4>2. t[j] = s[j - 1]
        BY <1>3, <3>1, <4>1
      <4>3. j - 1 # i - 1
        BY <3>6
      <4>4. s[j - 1] # e /\ s[j - 1] # a
        BY <1>5, <1>9, <1>10, <4>1, <4>3
      <4>5. h[s[j - 1]].next = At(s, j)
        <5>1. (j - 1) + 1 = j
          BY <3>1
        <5>2. h[s[j - 1]].next = At(s, (j - 1) + 1)
          BY <1>8, <4>1 DEF Family
        <5>3. QED
          BY <5>1, <5>2
      <4>6. j + 1 <= Len(s) + 1 => t[j + 1] = s[j]
        <5>1. j + 1 <= Len(s) + 1 => j + 1 \in 1..(Len(s) + 1) /\ ~(j + 1 < i) /\ j + 1 # i
                                     /\ (j + 1) - 1 = j
          BY <1>2, <3>6
        <5>2. QED
          BY <1>3, <5>1
      <4>7. At(s, j) = IF j + 1 <= Len(s) + 1 THEN s[j] ELSE NULL
        BY <1>2, <3>1 DEF At
      <4>8. QED
        BY <1>5, <1>7, <3>2, <4>1, <4>2, <4>4, <4>5, <4>6, <4>7
    <3>7. QED
      BY <3>1, <3>3, <3>4, <3>5, <3>6
  <2>3. QED
    BY <1>3, <2>1, <2>2 DEF Family
<1>13. ASSUME NEW n \in Node, n # p PROVE Family(k, n, K[n])
  <2>1. \A j \in 1..Len(K[n]) : K[n][j] # e /\ K[n][j] # a /\ K[n][j] \in Node
    <3>1. e # NULL => h[e].parent = p
      BY <1>4, <1>10 DEF s
    <3>2. QED
      BY <1>4, <1>13, <3>1, NullAssumption
  <2>2. \A j \in 1..Len(K[n]) : k[K[n][j]].next = h[K[n][j]].next
    BY <1>7, <2>1
  <2>3. k[n].first = h[n].first
    BY <1>7, <1>13
  <2>4. QED
    BY <1>8, <2>2, <2>3, FamilySame
<1>14. Families(k, L, [K EXCEPT ![p] = t])
  BY <1>3, <1>12, <1>13 DEF Families
<1>15. QED
  BY <1>1, <1>14 DEF s, t, k, Adopted
LEMMA EmancipateFamilies ==
  ASSUME NEW h \in [Node -> Cell], NEW L \in SUBSET Node, NEW Torn, Linked(h, L, Torn),
         NEW K, Families(h, L, K), NEW n \in L, h[n].parent # NULL
  PROVE  \E i \in 1..Len(K[h[n].parent]) :
           /\ K[h[n].parent][i] = n
           /\ Families(Emancipate(h, n), L, [K EXCEPT ![h[n].parent] = Forest!RemoveAt(@, i)])
<1> DEFINE p == h[n].parent
           k == Emancipate(h, n)
           s == K[p]
<1>1. p \in L
  BY DEF Linked, NoDangling
<1>2. s \in Seq(Node) /\ Len(s) \in Nat /\ Family(h, p, s) /\ \A m \in Node : Family(h, m, K[m])
  BY <1>1 DEF Families
<1>3. PICK i \in 1..Len(s) : s[i] = n
  BY <1>1, <1>2, FamilyWhole
<1> DEFINE t == Forest!RemoveAt(s, i)
<1>4. /\ t \in Seq(Node) /\ Len(t) = Len(s) - 1
      /\ \A j \in 1..(Len(s) - 1) : t[j] = IF j < i THEN s[j] ELSE s[j + 1]
  BY <1>2, RemoveIs
<1>5. InPlace(h, L, K)
  BY InFamily
<1>6. h[n].prev = At(s, i - 1) /\ h[n].next = At(s, i + 1)
  BY <1>1, <1>3, <1>5 DEF InPlace
<1>7. \A m \in Node :
        /\ k[m].first = IF m = p /\ h[m].first = n THEN h[n].next ELSE h[m].first
        /\ k[m].next = IF m = n THEN NULL
                       ELSE IF m = h[n].prev THEN h[n].next ELSE h[m].next
  BY DEF Emancipate
<1>8. \A i1, j1 \in 1..Len(s) : s[i1] = s[j1] => i1 = j1
  BY <1>1, <1>2, FamilyDistinct
<1>9. \A j \in 1..Len(s) : s[j] \in Node /\ s[j] # NULL /\ h[s[j]].parent = p
  BY <1>1, <1>5, NullAssumption DEF InPlace
<1>10. \A j \in 1..Len(s) : h[s[j]].next = At(s, j + 1)
  BY <1>2 DEF Family
<1> HIDE DEF p, k, s, t
<1>11. \A j \in 1..Len(s) : s[j] = h[n].prev => j = i - 1
  <2> SUFFICES ASSUME NEW j \in 1..Len(s), s[j] = At(s, i - 1) PROVE j = i - 1
    BY <1>6
  <2>1. i - 1 \in 1..Len(s) /\ s[j] = s[i - 1]
    BY <1>9 DEF At
  <2>2. QED
    BY <1>8, <2>1
<1>12. Family(k, p, t)
  <2>1. k[p].first = At(t, 1)
    <3>1. h[p].first = s[1] /\ 1 \in 1..Len(s)
      BY <1>2 DEF Family, At
    <3>2. CASE i = 1
      <4>1. h[p].first = n
        BY <1>3, <3>1, <3>2
      <4>2. k[p].first = At(s, 2)
        BY <1>1, <1>6, <1>7, <3>2, <4>1
      <4>3. 1 \in 1..Len(t) => t[1] = s[2] /\ 2 \in 1..Len(s)
        BY <1>2, <1>4, <3>2
      <4>4. 1 \notin 1..Len(t) => 2 \notin 1..Len(s)
        BY <1>2, <1>4
      <4>5. QED
        BY <4>2, <4>3, <4>4 DEF At
    <3>3. CASE i # 1
      <4>1. h[p].first # n
        BY <1>3, <1>8, <3>1, <3>3
      <4>2. 1 \in 1..Len(t) /\ 1 < i /\ 1 \in 1..(Len(s) - 1)
        BY <1>2, <1>4, <3>3
      <4>3. t[1] = s[1]
        BY <1>4, <4>2
      <4>4. QED
        BY <1>1, <1>7, <3>1, <4>1, <4>2, <4>3 DEF At
    <3>4. QED
      BY <3>2, <3>3
  <2>2. ASSUME NEW j \in 1..Len(t) PROVE k[t[j]].next = At(t, j + 1)
    <3>1. j \in 1..(Len(s) - 1) /\ j \in 1..Len(s) /\ j + 1 \in 1..Len(s)
      BY <1>2, <1>4, <2>2
    <3>2. At(t, j + 1) = IF j + 1 <= Len(s) - 1 THEN t[j + 1] ELSE NULL
      BY <1>2, <1>4, <3>1 DEF At
    <3>3. CASE j < i - 1
      <4>1. j < i /\ j + 1 < i /\ j + 1 <= Len(s) - 1 /\ j + 1 \in 1..(Len(s) - 1) /\ j # i
        BY <1>2, <3>1, <3>3
      <4>2. t[j] = s[j] /\ t[j + 1] = s[j + 1]
        BY <1>4, <3>1, <4>1
      <4>3. s[j] # n /\ s[j] # h[n].prev
        BY <1>3, <1>8, <1>11, <3>1, <3>3, <4>1
      <4>4. h[s[j]].next = s[j + 1]
        BY <1>10, <3>1 DEF At
      <4>5. QED
        BY <1>7, <1>9, <3>1, <3>2, <4>1, <4>2, <4>3, <4>4
    <3>4. CASE j = i - 1
      <4>1. j < i /\ j + 1 = i /\ j # i
        BY <3>4
      <4>2. t[j] = s[j]
        BY <1>4, <3>1, <4>1
      <4>3. s[j] # n /\ s[j] = h[n].prev
        BY <1>3, <1>6, <1>8, <3>1, <3>4, <4>1 DEF At
      <4>4. k[t[j]].next = At(s, i + 1)
        BY <1>6, <1>7, <1>9, <3>1, <4>2, <4>3
      <4>5. j + 1 <= Len(s) - 1 => t[j + 1] = s[i + 1] /\ i + 1 \in 1..Len(s)
        <5>1. j + 1 <= Len(s) - 1 => i \in 1..(Len(s) - 1) /\ ~(i < i) /\ i + 1 \in 1..Len(s)
          BY <1>2, <4>1
        <5>2. QED
          BY <1>4, <4>1, <5>1
      <4>6. ~(j + 1 <= Len(s) - 1) => i + 1 \notin 1..Len(s)
        BY <1>2, <4>1
      <4>7. QED
        BY <3>2, <4>4, <4>5, <4>6 DEF At
    <3>5. CASE j >= i
      <4>1. ~(j < i) /\ j + 1 # i /\ j + 1 # i - 1 /\ (j + 1) + 1 = j + 2
        BY <3>5
      <4>2. t[j] = s[j + 1]
        BY <1>4, <3>1, <4>1
      <4>3. s[j + 1] # n /\ s[j + 1] # h[n].prev
        BY <1>3, <1>8, <1>11, <3>1, <4>1
      <4>4. k[t[j]].next = At(s, j + 2)
        BY <1>7, <1>9, <1>10, <3>1, <4>1, <4>2, <4>3
      <4>5. j + 1 <= Len(s) - 1 => t[j + 1] = s[j + 2] /\ j + 2 \in 1..Len(s)
        <5>1. j + 1 <= Len(s) - 1 => j + 1 \in 1..(Len(s) - 1) /\ ~(j + 1 < i)
                                     /\ j + 2 \in 1..Len(s)
          BY <1>2, <3>1, <3>5
        <5>2. QED
          BY <1>4, <4>1, <5>1
      <4>6. ~(j + 1 <= Len(s) - 1) => j + 2 \notin 1..Len(s)
        BY <1>2, <3>1
      <4>7. QED
        BY <3>2, <4>4, <4>5, <4>6 DEF At
    <3>6. QED
      BY <3>1, <3>3, <3>4, <3>5
  <2>3. QED
    BY <1>4, <2>1, <2>2 DEF Family
<1>13. ASSUME NEW m \in Node, m # p PROVE Family(k, m, K[m])
  <2>1. h[n].prev = NULL \/ h[h[n].prev].parent = p
    BY <1>6, <1>9 DEF At
  <2>2. \A j \in 1..Len(K[m]) :
          K[m][j] # NULL /\ K[m][j] \in Node /\ h[K[m][j]].parent = m
    BY <1>5, NullAssumption DEF InPlace
  <2>3. \A j \in 1..Len(K[m]) : K[m][j] # n /\ K[m][j] # h[n].prev
    BY <1>13, <2>1, <2>2 DEF p
  <2>4. \A j \in 1..Len(K[m]) : k[K[m][j]].next = h[K[m][j]].next
    BY <1>7, <2>2, <2>3
  <2>5. k[m].first = h[m].first
    BY <1>7, <1>13
  <2>6. QED
    BY <1>2, <2>4, <2>5, FamilySame
<1>14. Families(k, L, [K EXCEPT ![p] = t])
  BY <1>1, <1>4, <1>12, <1>13 DEF Families
<1>15. QED
  BY <1>3, <1>14 DEF s, t, k, p

LEMMA DestroyFamilies ==
  ASSUME NEW h \in [Node -> Cell], NEW L \in SUBSET Node, NEW Torn, Linked(h, L, Torn),
         NEW K, Families(h, L, K), NEW r \in L, h[r].parent = NULL
  PROVE  Families(FreeNodes(h, Span(h, r)), L \ Span(h, r),
                  [m \in Node |-> IF m \in Span(h, r) THEN <<>> ELSE K[m]])
<1> DEFINE S == Span(h, r)
           k == FreeNodes(h, S)
           H == [m \in Node |-> IF m \in S THEN <<>> ELSE K[m]]
<1>1. \A c \in S : c = r \/ h[c].parent \in S
  BY SpanParents
<1>2. InPlace(h, L, K)
  BY InFamily
<1>3. \A m \in Node : k[m] = IF m \in S THEN ZeroCell ELSE h[m]
  BY DEF FreeNodes
<1> HIDE DEF S, k
<1>4. ASSUME NEW m \in Node PROVE Family(k, m, H[m])
  <2>1. CASE m \in S
    BY <1>3, <2>1 DEF Family, At, ZeroCell
  <2>2. CASE m \notin S
    <3>1. \A i \in 1..Len(K[m]) : K[m][i] \in L /\ K[m][i] \notin S
      BY <1>1, <1>2, <2>2, NullAssumption DEF InPlace
    <3>2. \A i \in 1..Len(K[m]) : k[K[m][i]].next = h[K[m][i]].next
      BY <1>3, <3>1
    <3>3. k[m].first = h[m].first /\ Family(h, m, K[m])
      BY <1>3, <2>2 DEF Families
    <3>4. Family(k, m, K[m])
      BY <3>2, <3>3, FamilySame
    <3>5. QED
      BY <2>2, <3>4
  <2>3. QED
    BY <2>1, <2>2
<1>5. H \in [Node -> Seq(Node)] /\ \A m \in Node \ (L \ S) : H[m] = <<>>
  BY DEF Families
<1> HIDE DEF H
<1>6. QED
  BY <1>4, <1>5 DEF Families, H, S, k

\* The tree under a root is what the walk of jd_Node_destroy reaches.
Below(K, n) ==
  LET Above == {S \in SUBSET Node : n \in S /\ \A x \in S : Forest!ToSet(K[x]) \subseteq S}
  IN {m \in Node : \A S \in Above : m \in S}

LEMMA SpanIsBelow ==
  ASSUME NEW h \in [Node -> Cell], NEW L \in SUBSET Node, NEW Torn, Linked(h, L, Torn),
         NEW K, Families(h, L, K), NEW r \in L, h[r].parent = NULL
  PROVE  Below(K, r) = Span(h, r)
<1> DEFINE S == Span(h, r)
           U == Below(K, r)
           T == {c \in U : c = r \/ h[c].parent \in U}
<1>1. InPlace(h, L, K)
  BY InFamily
<1>2. \A m \in Node : Family(h, m, K[m]) /\ K[m] \in Seq(Node)
  BY DEF Families
<1>3. \A m \in Node : \A c : c \in Forest!ToSet(K[m]) <=> \E i \in 1..Len(K[m]) : K[m][i] = c
  BY <1>2 DEF Forest!ToSet
<1>4. \A m \in Node : \A c \in Forest!ToSet(K[m]) : m \in L /\ c \in L /\ h[c].parent = m
  <2> SUFFICES ASSUME NEW m \in Node, NEW c \in Forest!ToSet(K[m])
               PROVE  m \in L /\ c \in L /\ h[c].parent = m
    OBVIOUS
  <2>1. PICK i \in 1..Len(K[m]) : K[m][i] = c
    BY <1>3
  <2>2. QED
    BY <1>1, <2>1 DEF InPlace
<1>5. S \in SUBSET Node /\ r \in S
  BY SpanClosed, SpanType
<1>6. \A m \in S : Forest!ToSet(K[m]) \subseteq S
  <2> SUFFICES ASSUME NEW m \in S, NEW c \in Forest!ToSet(K[m]) PROVE c \in S
    OBVIOUS
  <2>1. c \in L /\ h[c].parent \in S
    BY <1>4, <1>5
  <2>2. QED
    BY <2>1, SpanChildren
<1>7. U \subseteq S
  <2> HIDE DEF S
  <2>1. QED
    BY <1>5, <1>6 DEF Below
<1>8. U \subseteq Node /\ r \in U /\ \A m \in U : Forest!ToSet(K[m]) \subseteq U
  <2>1. U \subseteq Node /\ r \in U
    BY DEF Below
  <2>2. ASSUME NEW m \in U, NEW c \in Forest!ToSet(K[m]) PROVE c \in U
    <3>1. c \in Node /\ m \in Node
      BY <1>4, <2>1
    <3>2. ASSUME NEW V \in SUBSET Node, r \in V, \A x \in V : Forest!ToSet(K[x]) \subseteq V
          PROVE  c \in V
      <4>1. m \in V
        BY <3>2 DEF Below
      <4>2. QED
        BY <3>2, <4>1
    <3>3. QED
      BY <3>1, <3>2 DEF Below
  <2>3. QED
    BY <2>1, <2>2
<1>9. U \subseteq T
  <2>1. T \in SUBSET Node /\ r \in T
    BY <1>8
  <2>2. \A x \in T : Forest!ToSet(K[x]) \subseteq T
    BY <1>4, <1>8
  <2> HIDE DEF T
  <2>3. QED
    BY <2>1, <2>2 DEF Below
<1> HIDE DEF U
<1>10. ASSUME NEW m \in U
       PROVE  /\ h[m].first # NULL => h[m].first \in U
              /\ h[m].next # NULL => h[m].next \in U
  <2>1. m \in L
    BY <1>5, <1>7, SpanLive DEF Linked
  <2>2. ASSUME h[m].first # NULL PROVE h[m].first \in U
    <3>1. h[m].first = K[m][1] /\ 1 \in 1..Len(K[m])
      BY <1>2, <2>1, <2>2 DEF Family, At
    <3>2. QED
      BY <1>3, <1>8, <2>1, <3>1
  <2>3. ASSUME h[m].next # NULL PROVE h[m].next \in U
    <3>1. h[m].next \in L
      BY <2>1, <2>3 DEF Linked, NoDangling
    <3>2. h[h[m].next].parent = h[m].parent /\ h[m].parent # NULL
      BY <2>1, <3>1 DEF Linked, SiblingsMirror
    <3>3. h[m].parent \in U
      BY <1>9, <3>2
    <3>4. h[m].parent \in L
      BY <2>1, <3>2 DEF Linked, NoDangling
    <3>5. \E i \in 1..Len(K[h[m].parent]) : K[h[m].parent][i] = h[m].next
      BY <1>2, <3>1, <3>2, <3>4, FamilyWhole
    <3>6. QED
      BY <1>3, <1>8, <3>3, <3>4, <3>5
  <2>4. QED
    BY <2>2, <2>3
<1>11. S \subseteq U
  BY <1>8, <1>10, SpanLeast DEF Closed
<1>12. QED
  BY <1>7, <1>11 DEF U

-----------------------------------------------------------------------------
(***************************************************************************)
(* Every call as a step of OrderedForest.                                  *)
(***************************************************************************)
KidsNow == [n \in Node |-> Kids(heap, n)]

ForestInv == LinksInv /\ Families(heap, live, KidsNow)

\* What every step lemma below has to show.
Simulated ==
  /\ Forest!Next \/ (live' = live /\ KidsNow' = KidsNow)
  /\ Families(heap', live', KidsNow')

LEMMA RootIsOrphan ==
  ASSUME ForestInv, NEW a \in live, heap[a].parent = NULL
  PROVE  Forest!Orphan(a) /\ Forest!Under(a) = Span(heap, a)
<1>1. heap \in [Node -> Cell] /\ live \in SUBSET Node /\ Linked(heap, live, failed)
  BY DEF ForestInv, LinksInv, PayloadInv, TypeOK, TreeLinked
<1>2. Families(heap, live, KidsNow) /\ InPlace(heap, live, KidsNow)
  BY <1>1, InFamily DEF ForestInv
<1>3. Forest!Under(a) = Below(KidsNow, a)
  BY DEF Forest!Under, Below, KidsNow
<1>4. Below(KidsNow, a) = Span(heap, a)
  BY <1>1, <1>2, SpanIsBelow
<1>5. ASSUME NEW p \in live, a \in Forest!ToSet(KidsNow[p]) PROVE FALSE
  <2>1. p \in Node /\ KidsNow[p] \in Seq(Node)
    BY <1>1, <1>2 DEF Families
  <2>2. PICK i \in 1..Len(KidsNow[p]) : KidsNow[p][i] = a
    BY <1>5, <2>1 DEF Forest!ToSet
  <2>3. heap[a].parent = p
    BY <1>2, <2>1, <2>2 DEF InPlace
  <2>4. QED
    BY <2>1, <2>3, NullAssumption
<1>6. Forest!Orphan(a)
  BY <1>5 DEF Forest!Orphan, Forest!IsChild, KidsNow
<1>7. QED
  BY <1>3, <1>4, <1>6

LEMMA LinkCallsForest ==
  ASSUME StrictClient, IsFiniteSet(Node), ForestInv, LinksInv', LinkCalls
  PROVE  Simulated
<1>1. /\ heap \in [Node -> Cell] /\ live \in SUBSET Node /\ failed \in SUBSET live
      /\ Linked(heap, live, failed) /\ Families(heap, live, KidsNow) /\ ~fault'
  BY DEF ForestInv, LinksInv, PayloadInv, TypeOK, TreeLinked
<1>2. heap' \in [Node -> Cell] /\ live' \in SUBSET Node /\ Linked(heap', live', failed')
  BY DEF LinksInv, PayloadInv, TypeOK, TreeLinked
<1>3. KidsNow \in [Node -> Seq(Node)]
  BY <1>1 DEF Families
<1>4. ASSUME NEW n \in Node, CreateRoot(n) PROVE Simulated
  <2>1. n \notin live /\ live' = live \cup {n} /\ heap' = [heap EXCEPT ![n] = ZeroCell]
    BY <1>4 DEF CreateRoot
  <2>2. Families(heap', live', KidsNow)
    BY <1>1, <2>1, CreateFamilies
  <2>3. KidsNow' = KidsNow
    BY <1>2, <2>2, KidsAreFamilies DEF KidsNow
  <2>4. Forest!Born(n)
    BY <2>1, <2>3 DEF Forest!Born, KidsNow
  <2>5. QED
    BY <2>2, <2>3, <2>4 DEF Simulated, Forest!Next
<1>5. ASSUME NEW n \in Node, NEW p \in Node, NEW b \in Pointer, CreateUnder(n, p, b)
      PROVE  Simulated
  <2> DEFINE h == [heap EXCEPT ![n] = ZeroCell]
             L == live \cup {n}
  <2>1. /\ n \notin live /\ p \in live \ failed /\ b \in Children(p) \cup {NULL}
        /\ live' = L /\ DoAdopt(h, L, n, p, b)
    BY <1>5 DEF CreateUnder, MayParent
  <2>2. h \in [Node -> Cell] /\ Linked(h, L, failed) /\ Families(h, L, KidsNow)
    BY <1>1, <2>1, CreateLinked, CreateFamilies
  <2>3. h[n].parent = NULL /\ n \in L /\ p \in L /\ p # n /\ L \in SUBSET Node
    BY <1>1, <2>1 DEF ZeroCell
  <2>4. b \in L \cup {NULL} /\ (b # NULL => h[b].parent = p)
    BY <1>1, <2>1 DEF Children
  <2>5. heap' = Adopt(h, n, p, b)
    BY <1>1, <2>1 DEF DoAdopt
  <2> HIDE DEF h, L
  <2>6. PICK i \in 1..(Len(KidsNow[p]) + 1) :
          Families(Adopt(h, n, p, b), L, [KidsNow EXCEPT ![p] = Forest!InsertAt(@, i, n)])
    <3>1. Adopted(h, L, KidsNow, n, p, b)
      BY <2>1, <2>2, <2>3, <2>4, AdoptFamilies
    <3>2. QED
      BY <3>1 DEF Adopted
  <2> DEFINE K == [KidsNow EXCEPT ![p] = Forest!InsertAt(@, i, n)]
  <2>7. Families(heap', live', K)
    BY <2>1, <2>5, <2>6
  <2> HIDE DEF K
  <2>8. KidsNow' = K
    BY <1>2, <2>7, KidsAreFamilies DEF KidsNow
  <2>9. Forest!InsertedUnder(p, n)
    BY <2>8 DEF Forest!InsertedUnder, KidsNow, K
  <2>10. Forest!BornUnder(n, p)
    BY <2>1, <2>9 DEF Forest!BornUnder, L
  <2>11. QED
    BY <2>7, <2>8, <2>10 DEF Simulated, Forest!Next
<1>6. ASSUME NEW a \in Node, NEW p \in Node, NEW b \in Pointer, AdoptNode(a, p, b)
      PROVE  Simulated
  <2>1. /\ a \in live /\ heap[a].parent = NULL /\ p \in live \ failed
        /\ p \notin Span(heap, a) /\ b \in live \cup {NULL}
        /\ b # NULL => heap[b].parent = p
        /\ DoAdopt(heap, live, a, p, b) /\ live' = live
    BY <1>6 DEF AdoptNode, MayParent, Children
  <2>2. heap' = Adopt(heap, a, p, b)
    BY <1>1, <2>1 DEF DoAdopt
  <2>3. p # a
    BY <1>1, <2>1, SpanClosed
  <2>4. PICK i \in 1..(Len(KidsNow[p]) + 1) :
          Families(Adopt(heap, a, p, b), live, [KidsNow EXCEPT ![p] = Forest!InsertAt(@, i, a)])
    <3>1. Adopted(heap, live, KidsNow, a, p, b)
      BY <1>1, <2>1, <2>3, AdoptFamilies
    <3>2. QED
      BY <3>1 DEF Adopted
  <2> DEFINE K == [KidsNow EXCEPT ![p] = Forest!InsertAt(@, i, a)]
  <2>5. Families(heap', live', K)
    BY <2>1, <2>2, <2>4
  <2> HIDE DEF K
  <2>6. KidsNow' = K
    BY <1>2, <2>5, KidsAreFamilies DEF KidsNow
  <2>7. Forest!InsertedUnder(p, a)
    BY <2>6 DEF Forest!InsertedUnder, KidsNow, K
  <2>8. Forest!Joined(a, p)
    BY <2>1, <2>7, RootIsOrphan DEF Forest!Joined
  <2>9. QED
    BY <2>5, <2>6, <2>8 DEF Simulated, Forest!Next
<1>7. ASSUME NEW n \in Node, EmancipateNode(n) PROVE Simulated
  <2>1. n \in live /\ live' = live /\ heap' = Emancipate(heap, n)
    BY <1>1, <1>7 DEF EmancipateNode
  <2>2. CASE heap[n].parent = NULL
    <3>1. heap' = heap
      BY <2>1, <2>2 DEF Emancipate
    <3>2. QED
      BY <1>1, <2>1, <3>1 DEF Simulated, KidsNow
  <2>3. CASE heap[n].parent # NULL
    <3> DEFINE p == heap[n].parent
    <3>1. p \in live
      BY <1>1, <2>1, <2>3 DEF Linked, NoDangling
    <3>2. PICK i \in 1..Len(KidsNow[p]) :
            /\ KidsNow[p][i] = n
            /\ Families(Emancipate(heap, n), live, [KidsNow EXCEPT ![p] = Forest!RemoveAt(@, i)])
      BY <1>1, <2>1, <2>3, EmancipateFamilies
    <3> DEFINE K == [KidsNow EXCEPT ![p] = Forest!RemoveAt(@, i)]
    <3>3. Families(heap', live', K)
      BY <2>1, <3>2
    <3>4. n \in Forest!ToSet(KidsNow[p])
      <4>1. KidsNow[p] \in Seq(Node)
        BY <1>1, <1>3, <3>1
      <4>2. QED
        BY <3>2, <4>1 DEF Forest!ToSet
    <3> HIDE DEF K, p
    <3>5. KidsNow' = K
      BY <1>2, <3>3, KidsAreFamilies DEF KidsNow
    <3>6. Forest!Left(n)
      BY <2>1, <3>1, <3>2, <3>4, <3>5 DEF Forest!Left, Forest!IsChild, KidsNow, K
    <3>7. QED
      BY <3>3, <3>5, <3>6 DEF Simulated, Forest!Next
  <2>4. QED
    BY <2>2, <2>3
<1>8. ASSUME NEW n \in Node, Destroy(n) PROVE Simulated
  <2> DEFINE S == Span(heap, n)
             K == [m \in Node |-> IF m \in S THEN <<>> ELSE KidsNow[m]]
  <2>1. /\ n \in live /\ heap[n].parent = NULL
        /\ heap' = FreeNodes(heap, S) /\ live' = live \ S
    BY <1>8 DEF Destroy
  <2>2. Families(heap', live', K)
    BY <1>1, <2>1, DestroyFamilies
  <2>3. n \in S /\ Forest!Orphan(n) /\ Forest!Under(n) = S
    BY <1>1, <2>1, SpanClosed, RootIsOrphan
  <2> HIDE DEF K, S
  <2>4. KidsNow' = K
    BY <1>2, <2>2, KidsAreFamilies DEF KidsNow
  <2>5. Forest!Felled(n)
    BY <2>1, <2>3, <2>4 DEF Forest!Felled, KidsNow, K
  <2>6. QED
    BY <2>2, <2>4, <2>5 DEF Simulated, Forest!Next
<1>9. QED
  BY <1>4, <1>5, <1>6, <1>7, <1>8 DEF LinkCalls, ArrayInsertElement

LEMMA ValueCallsForest == ASSUME ForestInv, ValueCalls PROVE Simulated
<1>1. UNCHANGED <<heap, live>>
  BY DEF ValueCalls, DiscardPayload, SetScalar, MakeArray, MakeObject, SetType,
         TakeString, CopyText, CopyTextFails, ClientMalloc
<1>2. QED
  BY <1>1 DEF Simulated, ForestInv, KidsNow

\* Two nodes hung under a childless one, in this order, are its children.
LEMMA PairAdopted ==
  ASSUME NEW h \in [Node -> Cell], NEW L \in SUBSET Node, NEW Torn \in SUBSET L,
         Linked(h, L, Torn), NEW K, Families(h, L, K),
         NEW n \in L \ Torn, h[n].first = NULL,
         NEW x \in L, NEW y \in L, x # y, x # n, y # n, h[x] = ZeroCell, h[y] = ZeroCell
  PROVE  Families(Adopt(Adopt(h, x, n, NULL), y, n, NULL), L, [K EXCEPT ![n] = <<x, y>>])
<1> DEFINE k == Adopt(h, x, n, NULL)
           K1 == [K EXCEPT ![n] = <<x>>]
           one == <<x>>
<1>1. ZeroCell.parent = NULL /\ ZeroCell.first = NULL /\ ZeroCell.next = NULL
  BY DEF ZeroCell
<1>2. K \in [Node -> Seq(Node)] /\ K[n] = <<>>
  <2>1. Family(h, n, K[n]) /\ K \in [Node -> Seq(Node)]
    BY DEF Families
  <2>2. ASSUME K[n] # <<>> PROVE FALSE
    <3>1. K[n] \in Seq(Node) /\ 1 \in 1..Len(K[n])
      BY <2>1, <2>2
    <3>2. h[n].first = K[n][1] /\ K[n][1] \in Node
      BY <2>1, <3>1 DEF Family, At
    <3>3. QED
      BY <3>2, NullAssumption
  <2>3. QED
    BY <2>1, <2>2
<1>3. Linked(k, L, Torn)
  <2>1. AdoptSafe(h, L, x, n, NULL) /\ Linked(Adopt(h, x, n, NULL), L, Torn)
    BY <1>1, AdoptFresh
  <2>2. QED
    BY <2>1
<1>4. k \in [Node -> Cell]
  BY AdoptType DEF Pointer
<1>5. Families(k, L, K1)
  <2>1. PICK i \in 1..(Len(K[n]) + 1) :
          Families(k, L, [K EXCEPT ![n] = Forest!InsertAt(@, i, x)])
    <3>1. Adopted(h, L, K, x, n, NULL)
      BY <1>1, AdoptFamilies
    <3>2. QED
      BY <3>1 DEF Adopted
  <2>2. i = 1
    BY <1>2
  <2>3. Forest!InsertAt(<<>>, 1, x) = <<x>>
    <3>1. <<>> \in Seq(Node) /\ Len(<<>>) = 0 /\ 1 \in 1..(0 + 1)
      OBVIOUS
    <3> DEFINE t == Forest!InsertAt(<<>>, 1, x)
    <3>2. IsInserted(t, <<>>, 1, x)
      BY <3>1, InsertIs
    <3> HIDE DEF t
    <3>3. t \in Seq(Node) /\ Len(t) = 1 /\ t[1] = x
      BY <3>1, <3>2 DEF IsInserted
    <3>4. t = <<x>>
      BY <3>3
    <3>5. QED
      BY <3>4 DEF t
  <2> HIDE DEF k
  <2>4. QED
    BY <1>2, <2>1, <2>2, <2>3
<1>6. k[y].parent = NULL
  BY <1>1 DEF Adopt
<1>7. K1 \in [Node -> Seq(Node)] /\ K1[n] = one /\ one = <<x>>
  BY <1>2
<1> HIDE DEF k, one
<1>8. PICK i \in 1..(Len(K1[n]) + 1) :
        /\ Families(Adopt(k, y, n, NULL), L, [K1 EXCEPT ![n] = Forest!InsertAt(@, i, y)])
        /\ i = Len(K1[n]) + 1
  <2> HIDE DEF K1
  <2>1. Adopted(k, L, K1, y, n, NULL)
    BY <1>3, <1>4, <1>5, <1>6, AdoptFamilies
  <2>2. QED
    BY <2>1 DEF Adopted
<1>9. i = 2
  BY <1>7, <1>8
<1>10. Forest!InsertAt(one, 2, y) = <<x, y>>
  <2>1. one \in Seq(Node) /\ Len(one) = 1 /\ one[1] = x /\ 2 \in 1..(1 + 1)
    BY <1>7
  <2> DEFINE t == Forest!InsertAt(one, 2, y)
  <2>2. IsInserted(t, one, 2, y)
    BY <2>1, InsertIs
  <2> HIDE DEF t
  <2>3. t \in Seq(Node) /\ Len(t) = 2 /\ t[1] = x /\ t[2] = y
    BY <2>1, <2>2 DEF IsInserted
  <2>4. t = <<x, y>>
    BY <2>3
  <2>5. QED
    BY <2>4 DEF t
<1>11. [K1 EXCEPT ![n] = Forest!InsertAt(@, i, y)] = [K EXCEPT ![n] = <<x, y>>]
  BY <1>2, <1>7, <1>9, <1>10
<1>12. QED
  BY <1>8, <1>11 DEF k

LEMMA PropertyCallsForest ==
  ASSUME StrictClient, IsFiniteSet(Node), ForestInv, LinksInv', PropertyCalls
  PROVE  Simulated
<1>1. /\ heap \in [Node -> Cell] /\ live \in SUBSET Node /\ failed \in SUBSET live
      /\ Linked(heap, live, failed) /\ Families(heap, live, KidsNow) /\ LinksInv
  BY DEF ForestInv, LinksInv, PayloadInv, TypeOK, TreeLinked
<1>2. heap' \in [Node -> Cell] /\ live' \in SUBSET Node /\ Linked(heap', live', failed')
  BY DEF LinksInv, PayloadInv, TypeOK, TreeLinked
<1>3. KidsNow \in [Node -> Seq(Node)]
  BY <1>1 DEF Families
<1>4. ASSUME NEW n \in Node, MakePropertyNoLabel(n) PROVE Simulated
  <2>1. MayMakeProperty(n)
    BY <1>4 DEF MakePropertyNoLabel
  <2>2. heap' = heap /\ live' = live
    BY <1>1, <1>4, <2>1, NothingToShed DEF MakePropertyNoLabel
  <2>3. QED
    BY <1>1, <2>2 DEF Simulated, KidsNow
<1>5. ASSUME NEW n \in Node, NEW l \in Node, MakePropertyNoValue(n, l) PROVE Simulated
  <2> DEFINE h0 == [heap EXCEPT ![l] = ZeroCell]
             h == Adopt(h0, l, n, NULL)
  <2>1. MayMakeProperty(n)
    BY <1>5 DEF MakePropertyNoValue
  <2>2. /\ n \in live \ failed /\ heap[n].first = NULL /\ heap[n].last = NULL
        /\ ShedHeap(n) = heap /\ ShedLive(n) = live
    BY <1>1, <2>1, NothingToShed
  <2>3. l \notin live /\ l # n
    BY <1>5, <2>2 DEF MakePropertyNoValue
  <2>4. Elder(heap, n, NULL) = NULL /\ Elder(h0, n, NULL) = NULL
    BY <1>1, <2>2, <2>3 DEF Elder
  <2>5. h \in [Node -> Cell]
    <3>1. h0 \in [Node -> Cell]
      BY <1>1, ZeroCellType
    <3> HIDE DEF h0
    <3>2. QED
      BY <3>1, AdoptType DEF Pointer
  <2>6. /\ \A m \in Node : m # l => h[m].next = heap[m].next
        /\ \A m \in Node : m # l /\ m # n => h[m].first = heap[m].first
    BY <1>1, <2>2, <2>3, <2>4, NullAssumption DEF Adopt
  <2> HIDE DEF h
  <2>7. live' = live /\ heap' = [FreeNodes(h, {l}) EXCEPT ![n].first = NULL]
    BY <1>5, <2>2 DEF MakePropertyNoValue, h
  <2>8. heap[l].first = NULL
    <3>1. KidsNow[l] = <<>> /\ Family(heap, l, KidsNow[l])
      BY <1>1, <2>3 DEF Families
    <3>2. QED
      BY <3>1 DEF Family, At
  <2>9. \A m \in Node : heap'[m].first = heap[m].first
    BY <1>1, <2>2, <2>3, <2>5, <2>6, <2>7, <2>8 DEF FreeNodes, Cell, ZeroCell
  <2>10. \A m \in live : heap'[m].next = heap[m].next
    BY <1>1, <2>2, <2>3, <2>5, <2>6, <2>7 DEF FreeNodes, Cell
  <2>11. Families(heap', live', KidsNow)
    BY <1>1, <2>7, <2>9, <2>10, FamiliesSame
  <2>12. KidsNow' = KidsNow
    BY <1>2, <2>11, KidsAreFamilies DEF KidsNow
  <2>13. QED
    BY <2>7, <2>11, <2>12 DEF Simulated
<1>6. ASSUME NEW n \in Node, NEW l \in Node, NEW v \in Node, NEW s \in Str \cup {NULL},
             MakeProperty(n, l, v, s)
      PROVE  Simulated
  <2> DEFINE ha == [heap EXCEPT ![l] = ZeroCell]
             h0 == [heap EXCEPT ![l] = ZeroCell, ![v] = ZeroCell]
             L == live \cup {l, v}
             K == [KidsNow EXCEPT ![n] = <<l, v>>]
  <2>1. MayMakeProperty(n)
    BY <1>6 DEF MakeProperty
  <2>2. /\ n \in live \ failed /\ heap[n].first = NULL
        /\ ShedHeap(n) = heap /\ ShedLive(n) = live
    BY <1>1, <2>1, NothingToShed
  <2>3. l \notin live /\ v \notin live /\ l # v /\ l # n /\ v # n
    BY <1>6, <2>2 DEF MakeProperty
  <2>4. /\ ha \in [Node -> Cell] /\ Linked(ha, live \cup {l}, failed)
        /\ Families(ha, live \cup {l}, KidsNow)
    BY <1>1, <2>3, CreateLinked, CreateFamilies
  <2>5. h0 \in [Node -> Cell] /\ Linked(h0, L, failed) /\ Families(h0, L, KidsNow)
    <3>1. v \in Node \ (live \cup {l}) /\ failed \in SUBSET (live \cup {l})
      BY <1>1, <2>3
    <3>2. live \cup {l} \in SUBSET Node
      BY <1>1
    <3> HIDE DEF ha
    <3>3. /\ [ha EXCEPT ![v] = ZeroCell] \in [Node -> Cell]
          /\ Linked([ha EXCEPT ![v] = ZeroCell], (live \cup {l}) \cup {v}, failed)
      BY <2>4, <3>1, <3>2, CreateLinked
    <3>4. Families([ha EXCEPT ![v] = ZeroCell], (live \cup {l}) \cup {v}, KidsNow)
      BY <2>4, <3>1, <3>2, CreateFamilies
    <3>5. h0 = [ha EXCEPT ![v] = ZeroCell] /\ L = (live \cup {l}) \cup {v}
      BY DEF ha
    <3>6. QED
      BY <3>3, <3>4, <3>5
  <2>6. /\ h0[l] = ZeroCell /\ h0[v] = ZeroCell /\ h0[n].first = NULL
        /\ L \in SUBSET Node /\ failed \in SUBSET L /\ n \in L \ failed /\ l \in L /\ v \in L
    BY <1>1, <2>2, <2>3
  <2>7. heap' = Adopt(Adopt(h0, l, n, NULL), v, n, NULL) /\ live' = L
    BY <1>6, <2>2 DEF MakeProperty
  <2> HIDE DEF h0, L
  <2>8. Families(heap', live', K)
    BY <2>3, <2>5, <2>6, <2>7, PairAdopted
  <2>9. KidsNow[n] = <<>>
    <3>1. Family(heap, n, KidsNow[n]) /\ KidsNow[n] \in Seq(Node)
      BY <1>1, <1>3 DEF Families
    <3>2. ASSUME KidsNow[n] # <<>> PROVE FALSE
      <4>1. 1 \in 1..Len(KidsNow[n])
        BY <3>1, <3>2
      <4>2. heap[n].first = KidsNow[n][1] /\ KidsNow[n][1] \in Node
        BY <3>1, <4>1 DEF Family, At
      <4>3. QED
        BY <2>2, <4>2, NullAssumption
    <3>3. QED
      BY <3>2
  <2> HIDE DEF K
  <2>10. KidsNow' = K
    BY <1>2, <2>8, KidsAreFamilies DEF KidsNow
  <2>11. Forest!BornPair(n, l, v)
    BY <2>2, <2>3, <2>7, <2>9, <2>10 DEF Forest!BornPair, KidsNow, K, L
  <2>12. QED
    BY <2>8, <2>10, <2>11 DEF Simulated, Forest!Next
<1>7. QED
  BY <1>4, <1>5, <1>6 DEF PropertyCalls

LEMMA ForestInvInit == ASSUME IsFiniteSet(Node), Init PROVE ForestInv /\ Forest!Init
<1> DEFINE K == [n \in Node |-> <<>>]
<1>1. LinksInv
  BY LinksInvInit
<1>2. heap \in [Node -> Cell] /\ live \in SUBSET Node /\ Linked(heap, live, failed)
  BY <1>1 DEF LinksInv, PayloadInv, TypeOK, TreeLinked
<1>3. heap = [n \in Node |-> ZeroCell] /\ live = {}
  BY DEF Init
<1>4. Families(heap, live, K)
  BY <1>3 DEF Families, Family, At, ZeroCell
<1> HIDE DEF K
<1>5. KidsNow = K
  BY <1>2, <1>4, KidsAreFamilies DEF KidsNow
<1>6. QED
  BY <1>1, <1>3, <1>4, <1>5 DEF ForestInv, Forest!Init, KidsNow, K

\* Without pointers, jd_Node.c is OrderedForest: every call moves a whole tree,
\* or one node, or nothing, and leaves the order of all siblings as it was
\* (jd_Node.c:35-184, 311-333).
THEOREM ForestImplemented ==
  ASSUME StrictClient, IsFiniteSet(Node) PROVE Spec => ImplementsForest
<1>1. Init => ForestInv /\ Forest!Init
  BY ForestInvInit
<1>2. LinksInv /\ LinksInv' /\ ForestInv /\ [Next]_vars => ForestInv' /\ [Forest!Next]_(Forest!fvars)
  <2> SUFFICES ASSUME LinksInv', ForestInv, [Next]_vars
               PROVE  ForestInv' /\ [Forest!Next]_(Forest!fvars)
    OBVIOUS
  <2>1. CASE Next
    <3>1. Simulated
      BY <2>1, LinkCallsForest, ValueCallsForest, PropertyCallsForest DEF Next
    <3>2. QED
      BY <3>1 DEF Simulated, ForestInv, Forest!fvars, KidsNow
  <2>2. CASE UNCHANGED vars
    BY <2>2 DEF vars, ForestInv, Forest!fvars, KidsNow
  <2>3. QED
    BY <2>1, <2>2
<1>3. QED
  BY <1>1, <1>2, LinksInvAlways, PTL DEF Spec, Forest!Spec, ImplementsForest
=============================================================================
