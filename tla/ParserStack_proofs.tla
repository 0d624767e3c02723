-------------------------- MODULE ParserStack_proofs --------------------------
(***************************************************************************)
(* The parts JParser is made of: the text of its strings, what its calls   *)
(* into jd_Node.c and CharBag.c do to a memory that is in order, for any   *)
(* number of blocks; then its stack and what its calls are in charge of:   *)
(* what both keep when a call is pushed, replaced or popped, and what the  *)
(* calls on memory do to them.                                             *)
(***************************************************************************)
EXTENDS ParserOwnership, NodeHeap_proofs, Folding_proofs, SequenceTheorems

\* The characters a string can hold, and the texts made of them.
Symbol == Alphabet \cup {" ", "NUL", Escape}
Texts == Seq(Symbol)

\* A string read up to its first NUL is one of its beginnings.
LEMMA CStringType == ASSUME NEW t \in Texts PROVE CString(t) \in Texts
<1> DEFINE I == {i \in DOMAIN t : t[i] = "NUL"}
<1>1. Len(t) \in Nat /\ DOMAIN t = 1..Len(t) /\ \A i \in 1..Len(t) : t[i] \in Symbol
  BY DEF Texts
<1>2. CASE "NUL" \notin ToSet(t)
  BY <1>2 DEF CString
<1>3. CASE "NUL" \in ToSet(t)
  <2>1. I \in SUBSET Nat /\ I # {}
    BY <1>1, <1>3 DEF ToSet
  <2>2. Min(I) \in I
    <3> HIDE DEF I
    <3>1. QED
      BY <2>1, MinIsLeast
  <2>3. CString(t) = SubSeq(t, 1, Min(I) - 1)
    BY <1>3, <2>1 DEF CString
  <2>4. Min(I) \in 1..Len(t)
    BY <2>2
  <2> HIDE DEF I
  <2>5. SubSeq(t, 1, Min(I) - 1) \in Seq(Symbol)
    BY <1>1, <2>4 DEF Texts
  <2>6. QED
    BY <2>3, <2>5 DEF Texts
<1>4. QED
  BY <1>2, <1>3

LEMMA AddedType ==
  ASSUME NEW t \in Texts, NEW c \in Symbol, NEW b \in Added(t, c)
  PROVE  b \in Texts
  BY DEF Added, Texts

LEMMA FirstBagType == ASSUME NEW c \in Symbol PROVE FirstBag(c) \in Texts
  BY DEF FirstBag, Texts

-----------------------------------------------------------------------------
\* The memories whose strings hold texts of Text.
Memory(Text) ==
  [heap : [Node -> Cell], type : [Node -> Types], payload : [Node -> Str \cup {NULL}],
   live : SUBSET Node, strs : SUBSET Str, text : [Str -> Text],
   fault : {"none", "misuse", "assertion"}]

\* The nodes that nothing in memory leads to, and the strings no node has.
RootsOf(m) == {n \in m.live : m.heap[n].parent = NULL}
LooseOf(m) == m.strs \ {m.payload[n] : n \in m.live}

\* The links are a forest and every payload is an allocated string that no
\* other node has.
Sound(m) ==
  /\ Linked(m.heap, m.live, {})
  /\ \A n \in m.live : m.payload[n] \in m.strs \cup {NULL}
  /\ \A n \in Node \ m.live : m.payload[n] = NULL
  /\ \A x, y \in m.live : m.payload[x] = m.payload[y] => x = y \/ m.payload[x] = NULL

-----------------------------------------------------------------------------
LEMMA FreeNodeIsFree == ASSUME NEW m, NodeLeft(m) PROVE FreeNode(m) \in Node \ m.live
  BY DEF NodeLeft, FreeNode

LEMMA FreeStrIsFree == ASSUME NEW m, StrLeft(m) PROVE FreeStr(m) \in Str \ m.strs
  BY DEF StrLeft, FreeStr

\* jd_Node_create: one more root.
LEMMA NewNodeSound ==
  ASSUME NEW Text, NEW m \in Memory(Text), Sound(m), NEW n \in Node \ m.live
  PROVE  LET k == NewNode(m, n) IN
         /\ k \in Memory(Text) /\ Sound(k)
         /\ RootsOf(k) = RootsOf(m) \cup {n} /\ LooseOf(k) = LooseOf(m)
         /\ k.live = m.live \cup {n} /\ k.payload[n] = NULL
         /\ k.heap[n] = ZeroCell /\ \A x \in m.live : k.heap[x] = m.heap[x]
         /\ k.strs = m.strs /\ k.text = m.text /\ k.fault = m.fault
<1> DEFINE k == NewNode(m, n)
<1>1. /\ k.live = m.live \cup {n} /\ k.heap = [m.heap EXCEPT ![n] = ZeroCell]
      /\ k.type = [m.type EXCEPT ![n] = "null"]
      /\ k.payload = [m.payload EXCEPT ![n] = NULL]
      /\ k.strs = m.strs /\ k.text = m.text /\ k.fault = m.fault
  BY DEF NewNode, Memory
<1>2. k \in Memory(Text)
  BY ZeroCellType DEF NewNode, Memory, Types
<1>3. m.heap \in [Node -> Cell] /\ m.live \in SUBSET Node /\ m.payload \in [Node -> Str \cup {NULL}]
  BY DEF Memory
<1> HIDE DEF k
<1>4. /\ k.payload = m.payload /\ k.payload[n] = NULL
      /\ k.heap[n] = ZeroCell /\ \A x \in m.live : k.heap[x] = m.heap[x]
  BY <1>1, <1>3 DEF Sound
<1>5. Sound(k)
  <2>1. Linked(k.heap, k.live, {})
    BY <1>1, <1>3, CreateLinked DEF Sound
  <2>2. QED
    BY <1>1, <1>3, <1>4, <2>1 DEF Sound
<1>6. RootsOf(k) = RootsOf(m) \cup {n}
  BY <1>1, <1>4 DEF RootsOf, ZeroCell
<1>7. LooseOf(k) = LooseOf(m)
  BY <1>1, <1>2, <1>4, NullAssumption DEF LooseOf, Memory
<1>8. QED
  BY <1>1, <1>2, <1>4, <1>5, <1>6, <1>7 DEF k

\* A root's tree holds no other root, and no child of another root.
LEMMA OutOfTree ==
  ASSUME NEW Text, NEW m \in Memory(Text), Sound(m), NEW a \in RootsOf(m), NEW p \in m.live,
         p # a, m.heap[p].parent = NULL \/ m.heap[p].parent \in RootsOf(m) \ {a}
  PROVE  p \notin Span(m.heap, a)
<1>1. /\ m.heap \in [Node -> Cell] /\ m.live \in SUBSET Node /\ Linked(m.heap, m.live, {})
      /\ a \in m.live /\ m.heap[a].parent = NULL
  BY DEF Memory, Sound, RootsOf
<1>2. \A c \in Span(m.heap, a) : c = a \/ m.heap[c].parent \in Span(m.heap, a)
  BY <1>1, SpanParents
<1>3. NULL \notin Span(m.heap, a)
  BY SpanType, NullAssumption
<1>4. QED
  BY <1>2, <1>3 DEF RootsOf

\* jd_Node_adopt of a root by a node that is not in its tree: the root is one
\* no more.
LEMMA AdoptSound ==
  ASSUME NEW Text, NEW m \in Memory(Text), Sound(m), NEW a \in RootsOf(m), NEW p \in m.live,
         p # a, m.heap[p].parent = NULL \/ m.heap[p].parent \in RootsOf(m) \ {a}
  PROVE  LET k == AdoptLast(m, a, p) IN
         /\ k \in Memory(Text) /\ Sound(k)
         /\ RootsOf(k) = RootsOf(m) \ {a} /\ LooseOf(k) = LooseOf(m)
         /\ k.live = m.live /\ k.payload = m.payload /\ k.strs = m.strs
         /\ k.text = m.text /\ k.fault = m.fault
         /\ k.heap[a].parent = p /\ k.heap[a].first = m.heap[a].first
         /\ k.heap[a].next = NULL
         /\ \A x \in m.live \ {a} : k.heap[x].parent = m.heap[x].parent
<1> DEFINE k == AdoptLast(m, a, p)
           h == Adopt(m.heap, a, p, NULL)
<1>1. /\ m.heap \in [Node -> Cell] /\ m.live \in SUBSET Node /\ Linked(m.heap, m.live, {})
      /\ a \in m.live /\ m.heap[a].parent = NULL
      /\ p # NULL /\ a # NULL
  BY NullAssumption DEF Memory, Sound, RootsOf
<1>2. AdoptSafe(m.heap, m.live, a, p, NULL) /\ Linked(h, m.live, {})
  <2>1. p \notin Span(m.heap, a)
    BY OutOfTree
  <2>2. {} \in SUBSET m.live /\ p \notin {} /\ NULL \in m.live \cup {NULL}
    OBVIOUS
  <2>3. QED
    BY <1>1, <2>1, <2>2, AdoptLinked
<1>3. k = [m EXCEPT !.heap = h]
  BY <1>1, <1>2 DEF AdoptLast, AdoptSafe
<1>4. h \in [Node -> Cell]
  BY <1>1, AdoptType DEF Pointer
<1>5. /\ h[a].parent = p /\ h[a].first = m.heap[a].first
      /\ \A x \in m.live \ {a} : h[x].parent = m.heap[x].parent
  BY <1>1 DEF Adopt
<1>6. h[a].next = NULL
  <2>1. Elder(m.heap, p, NULL) # a
    BY <1>1 DEF Elder, Linked, EndsOfFamily
  <2>2. m.heap[a].next = NULL
    BY <1>1 DEF Linked, RootsAlone
  <2>3. QED
    BY <1>1, <2>1, <2>2 DEF Adopt
<1> HIDE DEF h
<1>7. /\ k \in Memory(Text) /\ k.heap = h
      /\ k.live = m.live /\ k.payload = m.payload /\ k.strs = m.strs
      /\ k.text = m.text /\ k.fault = m.fault
  BY <1>3, <1>4 DEF Memory
<1> HIDE DEF k
<1>8. Sound(k)
  BY <1>2, <1>7 DEF Sound
<1>9. RootsOf(k) = RootsOf(m) \ {a}
  BY <1>1, <1>5, <1>7 DEF RootsOf
<1>10. LooseOf(k) = LooseOf(m)
  BY <1>7 DEF LooseOf
<1>11. QED
  BY <1>5, <1>6, <1>7, <1>8, <1>9, <1>10 DEF k

\* A setter on a node without a payload: a loose string may find its node.
LEMMA SetValueSound ==
  ASSUME NEW Text, NEW m \in Memory(Text), Sound(m), NEW n \in m.live, m.payload[n] = NULL,
         NEW t \in Types, NEW s \in LooseOf(m) \cup {NULL}
  PROVE  LET k == SetValue(m, n, t, s) IN
         /\ k \in Memory(Text) /\ Sound(k)
         /\ RootsOf(k) = RootsOf(m) /\ LooseOf(k) = LooseOf(m) \ {s}
         /\ k.live = m.live /\ k.heap = m.heap /\ k.strs = m.strs
         /\ k.text = m.text /\ k.fault = m.fault
<1> DEFINE k == SetValue(m, n, t, s)
<1>1. k = [m EXCEPT !.type[n] = t, !.payload[n] = s]
  BY DEF SetValue, FreeText
<1>2. m.payload \in [Node -> Str \cup {NULL}] /\ m.live \in SUBSET Node /\ m.strs \in SUBSET Str
  BY DEF Memory
<1>3. s \in m.strs \cup {NULL}
  BY DEF LooseOf
<1>4. /\ k.payload = [m.payload EXCEPT ![n] = s] /\ k \in Memory(Text)
      /\ k.live = m.live /\ k.heap = m.heap /\ k.strs = m.strs
      /\ k.text = m.text /\ k.fault = m.fault
  <2>1. [m.payload EXCEPT ![n] = s] \in [Node -> Str \cup {NULL}]
    BY <1>2, <1>3
  <2>2. [m.type EXCEPT ![n] = t] \in [Node -> Types]
    BY DEF Memory
  <2>3. QED
    BY <1>1, <2>1, <2>2 DEF Memory
<1> HIDE DEF k
<1>5. k.payload[n] = s /\ \A x \in Node \ {n} : k.payload[x] = m.payload[x]
  BY <1>2, <1>4
<1>6. \A x \in m.live : m.payload[x] = s => s = NULL
  BY NullAssumption DEF LooseOf
<1>7. Sound(k)
  BY <1>2, <1>3, <1>4, <1>5, <1>6 DEF Sound
<1>8. RootsOf(k) = RootsOf(m)
  BY <1>4 DEF RootsOf
<1>9. LooseOf(k) = LooseOf(m) \ {s}
  BY <1>2, <1>4, <1>5, NullAssumption DEF LooseOf
<1>10. QED
  BY <1>4, <1>7, <1>8, <1>9 DEF k

\* node->type = JD_PROPERTY.
LEMMA RetypeSound ==
  ASSUME NEW Text, NEW m \in Memory(Text), Sound(m), NEW n \in m.live, NEW t \in Types
  PROVE  LET k == [m EXCEPT !.type[n] = t] IN
         /\ k \in Memory(Text) /\ Sound(k)
         /\ RootsOf(k) = RootsOf(m) /\ LooseOf(k) = LooseOf(m)
         /\ k.live = m.live /\ k.heap = m.heap /\ k.payload = m.payload /\ k.strs = m.strs
         /\ k.text = m.text /\ k.fault = m.fault
<1> DEFINE k == [m EXCEPT !.type[n] = t]
<1>1. /\ k \in Memory(Text)
      /\ k.live = m.live /\ k.heap = m.heap /\ k.payload = m.payload /\ k.strs = m.strs
      /\ k.text = m.text /\ k.fault = m.fault
  BY DEF Memory
<1> HIDE DEF k
<1>2. Sound(k) /\ RootsOf(k) = RootsOf(m) /\ LooseOf(k) = LooseOf(m)
  BY <1>1 DEF Sound, RootsOf, LooseOf
<1>3. QED
  BY <1>1, <1>2 DEF k

\* A string is allocated: one more loose string.
LEMMA NewTextSound ==
  ASSUME NEW Text, NEW m \in Memory(Text), Sound(m), NEW s \in Str \ m.strs, NEW t \in Text
  PROVE  LET k == NewText(m, s, t) IN
         /\ k \in Memory(Text) /\ Sound(k)
         /\ RootsOf(k) = RootsOf(m) /\ LooseOf(k) = LooseOf(m) \cup {s}
         /\ k.live = m.live /\ k.heap = m.heap /\ k.payload = m.payload /\ k.fault = m.fault
<1> DEFINE k == NewText(m, s, t)
<1>1. /\ k \in Memory(Text)
      /\ k.live = m.live /\ k.heap = m.heap /\ k.payload = m.payload
      /\ k.strs = m.strs \cup {s} /\ k.fault = m.fault
  BY DEF Memory, NewText
<1> HIDE DEF k
<1>2. Sound(k) /\ RootsOf(k) = RootsOf(m)
  BY <1>1 DEF Sound, RootsOf
<1>3. LooseOf(k) = LooseOf(m) \cup {s}
  <2>1. \A x \in m.live : m.payload[x] # s
    BY NullAssumption DEF Sound
  <2>2. QED
    BY <1>1, <2>1 DEF LooseOf
<1>4. QED
  BY <1>1, <1>2, <1>3 DEF k

\* free of a loose string, or of the null pointer.
LEMMA FreeTextSound ==
  ASSUME NEW Text, <<>> \in Text, NEW m \in Memory(Text), Sound(m),
         NEW s \in LooseOf(m) \cup {NULL}
  PROVE  LET k == FreeText(m, s) IN
         /\ k \in Memory(Text) /\ Sound(k)
         /\ RootsOf(k) = RootsOf(m) /\ LooseOf(k) = LooseOf(m) \ {s}
         /\ k.live = m.live /\ k.heap = m.heap /\ k.payload = m.payload /\ k.fault = m.fault
<1> DEFINE k == FreeText(m, s)
<1>1. CASE s = NULL
  <2>1. k = m
    BY <1>1 DEF FreeText
  <2>2. LooseOf(m) \ {s} = LooseOf(m)
    BY <1>1, NullAssumption DEF LooseOf, Memory
  <2>3. QED
    BY <2>1, <2>2
<1>2. CASE s \in LooseOf(m)
  <2>1. s \in m.strs /\ s # NULL /\ \A x \in m.live : m.payload[x] # s
    BY <1>2, NullAssumption DEF LooseOf, Memory
  <2>2. k = [m EXCEPT !.strs = @ \ {s}, !.text[s] = <<>>]
    BY <2>1 DEF FreeText, Checked
  <2>3. /\ k \in Memory(Text)
        /\ k.live = m.live /\ k.heap = m.heap /\ k.payload = m.payload
        /\ k.strs = m.strs \ {s} /\ k.fault = m.fault
    <3>1. [m.text EXCEPT ![s] = <<>>] \in [Str -> Text]
      BY DEF Memory
    <3>2. m.strs \ {s} \in SUBSET Str
      BY DEF Memory
    <3>3. QED
      BY <2>2, <3>1, <3>2 DEF Memory
  <2> HIDE DEF k
  <2>4. Sound(k) /\ RootsOf(k) = RootsOf(m) /\ LooseOf(k) = LooseOf(m) \ {s}
    BY <2>1, <2>3 DEF Sound, RootsOf, LooseOf
  <2>5. QED
    BY <2>3, <2>4 DEF k
<1>3. QED
  BY <1>1, <1>2

\* k is m without the nodes of D and their payloads.
Without(m, D, k) ==
  /\ k.live = m.live \ D /\ k.heap = FreeNodes(m.heap, D)
  /\ k.payload = [d \in Node |-> IF d \in D THEN NULL ELSE m.payload[d]]
  /\ k.strs = m.strs \ {m.payload[d] : d \in D}
  /\ k.fault = m.fault \/ k.fault = "misuse"
  /\ ~(D \subseteq m.live) => k.fault = "misuse"

\* The record jd_Node_destroy leaves, whether it was sound or not.
LEMMA FreeTreeFields ==
  ASSUME NEW Text, <<>> \in Text, NEW m \in Memory(Text), NEW n \in Node
  PROVE  FreeTree(m, n) \in Memory(Text) /\ Without(m, Span(m.heap, n), FreeTree(m, n))
<1> DEFINE k == FreeTree(m, n)
           D == Span(m.heap, n)
           P == {m.payload[d] : d \in D} \ {NULL}
           e == [m EXCEPT
                  !.live = @ \ D, !.heap = FreeNodes(@, D),
                  !.type = [d \in Node |-> IF d \in D THEN "null" ELSE @[d]],
                  !.payload = [d \in Node |-> IF d \in D THEN NULL ELSE @[d]],
                  !.strs = @ \ P,
                  !.text = [s \in Str |-> IF s \in P THEN <<>> ELSE @[s]]]
<1>1. PICK ok \in BOOLEAN : k = Checked(e, ok) /\ (~(D \subseteq m.live) => ~ok)
  BY NullAssumption DEF FreeTree
<1>2. FreeNodes(m.heap, D) \in [Node -> Cell]
  BY FreeNodesType DEF Memory
<1> HIDE DEF k, D
<1>3. /\ e \in Memory(Text)
      /\ e.live = m.live \ D /\ e.heap = FreeNodes(m.heap, D)
      /\ e.payload = [d \in Node |-> IF d \in D THEN NULL ELSE m.payload[d]]
      /\ e.strs = m.strs \ P /\ e.fault = m.fault
  BY <1>2 DEF Memory, Types
<1>4. e.strs = m.strs \ {m.payload[d] : d \in D}
  <2>1. NULL \notin m.strs
    BY NullAssumption DEF Memory
  <2>2. QED
    BY <1>3, <2>1
<1> HIDE DEF e
<1>5. k = e \/ k = [e EXCEPT !.fault = "misuse"]
  BY <1>1 DEF Checked
<1>6. ~(D \subseteq m.live) => k = [e EXCEPT !.fault = "misuse"]
  BY <1>1 DEF Checked
<1>7. QED
  BY <1>3, <1>4, <1>5, <1>6 DEF Without, Memory, k, D

\* jd_Node_destroy of a root: its tree goes, with the payloads in it.
LEMMA FreeTreeSound ==
  ASSUME NEW Text, <<>> \in Text, NEW m \in Memory(Text), Sound(m),
         NEW n \in RootsOf(m) \cup {NULL}
  PROVE  LET k == FreeTree(m, n) IN
         /\ k \in Memory(Text) /\ Sound(k)
         /\ RootsOf(k) = RootsOf(m) \ {n} /\ LooseOf(k) = LooseOf(m)
         /\ k.fault = m.fault
         /\ n = NULL => k = m
<1> DEFINE k == FreeTree(m, n)
           D == Span(m.heap, n)
<1>1. CASE n = NULL
  <2>1. k = m
    BY <1>1 DEF FreeTree
  <2>2. RootsOf(m) \ {n} = RootsOf(m)
    BY <1>1, NullAssumption DEF RootsOf, Memory
  <2>3. QED
    BY <2>1, <2>2
<1>2. CASE n \in RootsOf(m)
  <2>1. /\ m.heap \in [Node -> Cell] /\ m.live \in SUBSET Node /\ m.strs \in SUBSET Str
        /\ m.payload \in [Node -> Str \cup {NULL}]
        /\ Linked(m.heap, m.live, {}) /\ n \in m.live /\ m.heap[n].parent = NULL
    BY <1>2 DEF Memory, Sound, RootsOf
  <2>2. n \in D /\ D \subseteq m.live /\ VisitsOnce(m.heap, n)
          /\ Linked(FreeNodes(m.heap, D), m.live \ D, {})
    <3>1. Linked(FreeNodes(m.heap, D), m.live \ D, {} \ D)
      BY <2>1, DestroyLinked
    <3>2. {} \ D = {}
      OBVIOUS
    <3>3. QED
      BY <2>1, <3>1, <3>2, SpanLive, SpanClosed, DestroyWalk DEF Linked
  <2>3. \A c \in D : c = n \/ m.heap[c].parent \in D
    BY <2>1, SpanParents
  <2>4. n # NULL
    BY <2>1, NullAssumption
  <2>5. /\ k \in Memory(Text)
        /\ k.live = m.live \ D /\ k.heap = FreeNodes(m.heap, D)
        /\ k.payload = [d \in Node |-> IF d \in D THEN NULL ELSE m.payload[d]]
        /\ k.strs = m.strs \ {m.payload[d] : d \in D}
    <3>1. n \in Node
      BY <2>1
    <3>2. k \in Memory(Text) /\ Without(m, D, k)
      BY <3>1, FreeTreeFields
    <3>3. QED
      BY <3>2 DEF Without
  <2>6. k.fault = m.fault
    <3>1. {m.payload[d] : d \in D} \ {NULL} \subseteq m.strs
      BY <2>2 DEF Sound
    <3>2. \A x, y \in D : m.payload[x] = m.payload[y] => x = y \/ m.payload[x] = NULL
      BY <2>2 DEF Sound
    <3>3. k = [m EXCEPT
                  !.live = @ \ D, !.heap = FreeNodes(@, D),
                  !.type = [d \in Node |-> IF d \in D THEN "null" ELSE @[d]],
                  !.payload = [d \in Node |-> IF d \in D THEN NULL ELSE @[d]],
                  !.strs = @ \ ({m.payload[d] : d \in D} \ {NULL}),
                  !.text = [s \in Str |-> IF s \in {m.payload[d] : d \in D} \ {NULL}
                                          THEN <<>> ELSE @[s]]]
      BY <2>2, <2>4, <3>1, <3>2 DEF FreeTree, Checked
    <3>4. QED
      BY <3>3 DEF Memory
  <2> HIDE DEF k, D
  <2>7. \A x \in m.live \ D : k.heap[x] = m.heap[x]
    BY <2>1, <2>5 DEF FreeNodes
  <2>8. Sound(k)
    <3>1. \A x \in Node : k.payload[x] = IF x \in D THEN NULL ELSE m.payload[x]
      BY <2>5
    <3>2. \A x \in m.live \ D : m.payload[x] \in k.strs \cup {NULL}
      BY <2>2, <2>5 DEF Sound
    <3>3. QED
      BY <2>1, <2>2, <2>5, <3>1, <3>2 DEF Sound
  <2>9. RootsOf(k) = RootsOf(m) \ {n}
    <3>1. \A x \in RootsOf(m) : x \in D => x = n
      BY <2>1, <2>2, <2>3, NullAssumption DEF RootsOf
    <3>2. QED
      BY <2>2, <2>5, <2>7, <3>1 DEF RootsOf
  <2>10. LooseOf(k) = LooseOf(m)
    <3>1. \A x \in m.live \ D : k.payload[x] = m.payload[x]
      BY <2>1, <2>5
    <3>2. {k.payload[x] : x \in k.live} = {m.payload[x] : x \in m.live \ D}
      BY <2>5, <3>1
    <3>3. \A s : s \in m.strs \ {m.payload[d] : d \in D} /\ s \notin {m.payload[x] : x \in m.live \ D}
                <=> s \in m.strs /\ s \notin {m.payload[x] : x \in m.live}
      BY <2>2
    <3>4. QED
      BY <2>5, <3>2, <3>3 DEF LooseOf
  <2>11. QED
    BY <2>4, <2>5, <2>6, <2>8, <2>9, <2>10 DEF k
<1>3. QED
  BY <1>1, <1>2

-----------------------------------------------------------------------------
Starters == Alphabet \cup {" "}
Frames ==
  [fn : {"JParser"}, chr : Starters, parent : Pointer]
    \cup [fn : {"parse_collection"}, kind : {"array", "object"}, parent : Pointer,
          node : Node, needs : BOOLEAN, chr : Symbol]
    \cup [fn : {"Object_ReadMember"}, parent : Node, label : Str \cup {NULL},
          colon : BOOLEAN]
    \cup [fn : {"JReadString"}, first : Symbol, escape : BOOLEAN, bag : Seq(Symbol)]

\* The node that a call was told to attach its value to, and the node that
\* what f is given by the call it makes has been attached to.
ParentAt(f) == IF f.fn = "JReadString" THEN NULL ELSE f.parent
PassesOn(f) ==
  IF f.fn = "parse_collection" THEN f.node ELSE IF f.fn = "JParser" THEN f.parent ELSE NULL

\* The same for the innermost call, and the label it already has.
Above(st) == IF st = <<>> THEN NULL ELSE PassesOn(Last(st))
Pending(st) == IF st = <<>> THEN NULL ELSE LabelAt(Last(st))

\* Each call attaches to what its caller says; a string is read into an object
\* member that has no label yet.
Nested(st) ==
  \A i \in 1..Len(st) :
    IF st[i].fn = "JReadString" THEN i > 1 => LabelAt(st[i - 1]) = NULL
    ELSE ParentAt(st[i]) = IF i = 1 THEN NULL ELSE PassesOn(st[i - 1])

\* What a call attaches to is the node of a collection further out.
Held(st) ==
  \A i \in 1..Len(st) : ParentAt(st[i]) \in {NodeAt(st[j]) : j \in 1..i - 1} \cup {NULL}

\* No two calls are in charge of the same node, nor of the same label.
Distinct(st) ==
  \A i, j \in 1..Len(st) :
    i < j => /\ NodeAt(st[i]) = NodeAt(st[j]) => NodeAt(st[i]) = NULL
             /\ LabelAt(st[i]) = LabelAt(st[j]) => LabelAt(st[i]) = NULL

StackOK(st) == st \in Seq(Frames) /\ Nested(st) /\ Held(st) /\ Distinct(st)

\* Each tree and each string is in the charge of one frame of st, of the call
\* that works on the nodes N and the strings S, or lost, and of one only.
Charge(m, st, N, S, lo) ==
  /\ m \in Memory(Texts) /\ Sound(m)
  /\ N \subseteq Node /\ S \subseteq Str /\ lo \subseteq Node \cup Str
  /\ RootsOf(m) = NodesOf(st) \cup N \cup (lo \cap Node)
  /\ LooseOf(m) = LabelsOf(st) \cup S \cup (lo \cap Str)
  /\ NodesOf(st) \cap N = {} /\ NodesOf(st) \cap lo = {} /\ N \cap lo = {}
  /\ LabelsOf(st) \cap S = {} /\ LabelsOf(st) \cap lo = {} /\ S \cap lo = {}

-----------------------------------------------------------------------------
LEMMA FrameParts ==
  ASSUME NEW f \in Frames
  PROVE  /\ NodeAt(f) \in Pointer /\ LabelAt(f) \in Str \cup {NULL} /\ ParentAt(f) \in Pointer
         /\ PassesOn(f) \in {NULL, ParentAt(f), NodeAt(f)}
  BY DEF Frames, NodeAt, LabelAt, ParentAt, PassesOn, Pointer

LEMMA FrontLast ==
  ASSUME NEW S, NEW st \in Seq(S), st # <<>>
  PROVE  /\ Len(st) \in Nat /\ Len(st) > 0
         /\ Front(st) \in Seq(S) /\ Len(Front(st)) = Len(st) - 1
         /\ \A i \in 1..Len(st) - 1 : Front(st)[i] = st[i]
         /\ Last(st) = st[Len(st)] /\ Last(st) \in S
<1>1. Len(st) \in Nat /\ Len(st) > 0
  BY EmptySeq, LenProperties
<1>2. \A i \in 1..Len(st) : st[i] \in S
  BY ElementOfSeq
<1>3. \A i \in 1..Len(st) - 1 : st[i] \in S
  BY <1>1, <1>2
<1>4. 1 \in Int /\ Len(st) - 1 \in Int
  BY <1>1
<1>5. /\ SubSeq(st, 1, Len(st) - 1) \in Seq(S)
      /\ Len(SubSeq(st, 1, Len(st) - 1)) = IF 1 <= Len(st) - 1 THEN Len(st) - 1 - 1 + 1 ELSE 0
      /\ \A i \in 1..Len(st) - 1 - 1 + 1 : SubSeq(st, 1, Len(st) - 1)[i] = st[1 + i - 1]
  BY <1>3, <1>4, SubSeqProperties
<1>6. /\ Len(SubSeq(st, 1, Len(st) - 1)) = Len(st) - 1
      /\ \A i \in 1..Len(st) - 1 : SubSeq(st, 1, Len(st) - 1)[i] = st[i]
  <2> DEFINE n == Len(st) - 1
             s == SubSeq(st, 1, n)
  <2>1. n \in Nat /\ (1 <= n => n - 1 + 1 = n) /\ (~(1 <= n) => n = 0)
    <3>1. n \in Nat
      BY <1>1
    <3> HIDE DEF n
    <3>2. QED
      BY <3>1
  <2>2. \A i \in 1..n : i \in 1..n - 1 + 1 /\ 1 + i - 1 = i
    BY <2>1
  <2>3. /\ Len(s) = IF 1 <= n THEN n - 1 + 1 ELSE 0
        /\ \A i \in 1..n - 1 + 1 : s[i] = st[1 + i - 1]
    BY <1>5
  <2> HIDE DEF n, s
  <2>4. Len(s) = n /\ \A i \in 1..n : s[i] = st[i]
    BY <2>1, <2>2, <2>3
  <2>5. QED
    BY <2>4 DEF n, s
<1>7. Len(st) \in 1..Len(st)
  BY <1>1
<1>8. QED
  BY <1>1, <1>2, <1>5, <1>6, <1>7 DEF Front, Last

LEMMA StackParts ==
  ASSUME NEW st, StackOK(st)
  PROVE  /\ NodesOf(st) \subseteq Node /\ LabelsOf(st) \subseteq Str
         /\ Above(st) \in NodesOf(st) \cup {NULL}
         /\ Pending(st) \in LabelsOf(st) \cup {NULL}
<1>1. /\ st \in Seq(Frames) /\ Len(st) \in Nat /\ DOMAIN st = 1..Len(st)
      /\ \A i \in 1..Len(st) : st[i] \in Frames
  BY LenProperties, ElementOfSeq DEF StackOK
<1>2. NodesOf(st) \subseteq Node /\ LabelsOf(st) \subseteq Str
  BY <1>1, FrameParts DEF NodesOf, LabelsOf, Pointer
<1>3. ASSUME st # <<>>
      PROVE  Above(st) \in NodesOf(st) \cup {NULL} /\ Pending(st) \in LabelsOf(st) \cup {NULL}
  <2> DEFINE l == Len(st)
  <2>1. l \in 1..Len(st) /\ Last(st) = st[l] /\ st[l] \in Frames
    <3>1. Len(st) > 0 /\ Last(st) = st[Len(st)]
      BY <1>1, <1>3, FrontLast
    <3>2. QED
      BY <1>1, <3>1
  <2>2. \A i \in 1..Len(st) : NodeAt(st[i]) \in NodesOf(st) \cup {NULL}
    BY <1>1 DEF NodesOf
  <2>3. \A j \in 1..l - 1 : j \in 1..Len(st)
    BY <1>1
  <2>4. ParentAt(st[l]) \in NodesOf(st) \cup {NULL}
    BY <2>1, <2>2, <2>3 DEF StackOK, Held
  <2>5. PassesOn(st[l]) \in {NULL, ParentAt(st[l]), NodeAt(st[l])}
    BY <2>1, FrameParts
  <2>6. QED
    BY <1>1, <1>3, <2>1, <2>2, <2>4, <2>5 DEF Above, Pending, LabelsOf
<1>4. QED
  BY <1>2, <1>3 DEF Above, Pending

LEMMA PopStack ==
  ASSUME NEW st, StackOK(st), st # <<>>
  PROVE  /\ Last(st) \in Frames /\ StackOK(Front(st))
         /\ NodesOf(st) = NodesOf(Front(st)) \cup ({NodeAt(Last(st))} \ {NULL})
         /\ NodeAt(Last(st)) \notin NodesOf(Front(st))
         /\ LabelsOf(st) = LabelsOf(Front(st)) \cup ({LabelAt(Last(st))} \ {NULL})
         /\ LabelAt(Last(st)) \notin LabelsOf(Front(st))
         /\ IF Last(st).fn = "JReadString" THEN Pending(Front(st)) = NULL
            ELSE ParentAt(Last(st)) = Above(Front(st))
<1> DEFINE s == Front(st)
           l == Len(st)
<1>1. st \in Seq(Frames)
  BY DEF StackOK
<1>2. /\ l \in Nat /\ l > 0 /\ s \in Seq(Frames) /\ Len(s) = l - 1
      /\ \A i \in 1..l - 1 : s[i] = st[i]
      /\ Last(st) = st[l] /\ st[l] \in Frames
  BY <1>1, FrontLast
<1>3. DOMAIN st = 1..l /\ DOMAIN s = 1..l - 1
  BY <1>1, <1>2, LenProperties
<1> HIDE DEF s, l
<1>4. Nested(s) /\ Distinct(s)
  BY <1>2 DEF StackOK, Nested, Distinct, l
<1>5. Held(s)
  <2> SUFFICES ASSUME NEW i \in 1..Len(s)
               PROVE  ParentAt(s[i]) \in {NodeAt(s[j]) : j \in 1..i - 1} \cup {NULL}
    BY DEF Held
  <2>1. i \in 1..l /\ s[i] = st[i] /\ \A j \in 1..i - 1 : j \in 1..l - 1
    BY <1>2
  <2>2. ParentAt(st[i]) \in {NodeAt(st[j]) : j \in 1..i - 1} \cup {NULL}
    BY <2>1 DEF StackOK, Held, l
  <2>3. QED
    BY <1>2, <2>1, <2>2
<1>6. /\ NodesOf(st) = NodesOf(s) \cup ({NodeAt(st[l])} \ {NULL})
      /\ LabelsOf(st) = LabelsOf(s) \cup ({LabelAt(st[l])} \ {NULL})
  <2>1. \A i \in 1..l : i = l \/ i \in 1..l - 1
    BY <1>2
  <2>2. l \in 1..l /\ \A i \in 1..l - 1 : i \in 1..l
    BY <1>2
  <2>3. QED
    BY <1>2, <1>3, <2>1, <2>2 DEF NodesOf, LabelsOf
<1>7. NodeAt(st[l]) \notin NodesOf(s) /\ LabelAt(st[l]) \notin LabelsOf(s)
  <2>1. \A i \in 1..l - 1 : i \in 1..l /\ l \in 1..l /\ i < l
    BY <1>2
  <2>2. \A i \in 1..l - 1 : /\ NodeAt(st[i]) = NodeAt(st[l]) => NodeAt(st[i]) = NULL
                            /\ LabelAt(st[i]) = LabelAt(st[l]) => LabelAt(st[i]) = NULL
    BY <2>1 DEF StackOK, Distinct, l
  <2>3. QED
    BY <1>2, <1>3, <2>2 DEF NodesOf, LabelsOf
<1>8. IF st[l].fn = "JReadString" THEN Pending(s) = NULL ELSE ParentAt(st[l]) = Above(s)
  <2>1. IF st[l].fn = "JReadString" THEN l > 1 => LabelAt(st[l - 1]) = NULL
        ELSE ParentAt(st[l]) = IF l = 1 THEN NULL ELSE PassesOn(st[l - 1])
    <3>1. l \in 1..l
      BY <1>2
    <3>2. QED
      BY <3>1 DEF StackOK, Nested, l
  <2>2. CASE s = <<>>
    <3>1. l = 1
      BY <1>2, <2>2, EmptySeq
    <3>2. QED
      BY <2>1, <2>2, <3>1 DEF Above, Pending
  <2>3. CASE s # <<>>
    <3>1. Last(s) = s[l - 1] /\ l - 1 \in 1..l - 1 /\ l # 1 /\ l > 1
      <4>1. Len(s) > 0 /\ Last(s) = s[Len(s)]
        BY <1>2, <2>3, FrontLast
      <4>2. QED
        BY <1>2, <4>1
    <3>2. Last(s) = st[l - 1]
      BY <1>2, <3>1
    <3>3. QED
      BY <2>1, <2>3, <3>1, <3>2 DEF Above, Pending
  <2>4. QED
    BY <2>2, <2>3
<1>9. QED
  BY <1>2, <1>4, <1>5, <1>6, <1>7, <1>8 DEF StackOK, s

LEMMA PushStack ==
  ASSUME NEW st, StackOK(st), NEW f \in Frames,
         IF f.fn = "JReadString" THEN Pending(st) = NULL ELSE ParentAt(f) = Above(st),
         NodeAt(f) \notin NodesOf(st), LabelAt(f) \notin LabelsOf(st)
  PROVE  /\ StackOK(Append(st, f)) /\ Append(st, f) # <<>>
         /\ Front(Append(st, f)) = st /\ Last(Append(st, f)) = f
         /\ NodesOf(Append(st, f)) = NodesOf(st) \cup ({NodeAt(f)} \ {NULL})
         /\ LabelsOf(Append(st, f)) = LabelsOf(st) \cup ({LabelAt(f)} \ {NULL})
         /\ Above(Append(st, f)) = PassesOn(f) /\ Pending(Append(st, f)) = LabelAt(f)
<1> DEFINE s == Append(st, f)
           l == Len(st)
<1>1. st \in Seq(Frames) /\ l \in Nat /\ DOMAIN st = 1..l
  BY LenProperties DEF StackOK
<1>2. /\ s \in Seq(Frames) /\ s # <<>> /\ Len(s) = l + 1
      /\ \A i \in 1..l : s[i] = st[i]
      /\ s[l + 1] = f
  BY <1>1, AppendProperties
<1>3. DOMAIN s = 1..l + 1
  BY <1>2, LenProperties
<1>4. Last(s) = f
  BY <1>2, FrontLast
<1>5. Front(s) = st
  <2>1. /\ Front(s) \in Seq(Frames) /\ Len(Front(s)) = l
        /\ \A i \in 1..l : Front(s)[i] = st[i]
    <3>1. /\ Front(s) \in Seq(Frames) /\ Len(Front(s)) = Len(s) - 1
          /\ \A i \in 1..Len(s) - 1 : Front(s)[i] = s[i]
      BY <1>2, FrontLast
    <3>2. Len(s) - 1 = l
      BY <1>1, <1>2
    <3>3. QED
      BY <1>2, <3>1, <3>2
  <2>2. QED
    BY <1>1, <2>1, SeqEqual
<1> HIDE DEF s, l
<1>6. Above(s) = PassesOn(f) /\ Pending(s) = LabelAt(f)
  BY <1>2, <1>4 DEF Above, Pending
<1>7. \A i \in 1..l + 1 : i = l + 1 \/ i \in 1..l
  BY <1>1
<1>8. l + 1 \in 1..l + 1 /\ \A i \in 1..l : i \in 1..l + 1
  BY <1>1
<1>9. /\ NodesOf(s) = NodesOf(st) \cup ({NodeAt(f)} \ {NULL})
      /\ LabelsOf(s) = LabelsOf(st) \cup ({LabelAt(f)} \ {NULL})
  BY <1>1, <1>2, <1>3, <1>7, <1>8 DEF NodesOf, LabelsOf
<1>10. Nested(s)
  <2>1. IF f.fn = "JReadString" THEN l + 1 > 1 => LabelAt(s[l + 1 - 1]) = NULL
        ELSE ParentAt(f) = IF l + 1 = 1 THEN NULL ELSE PassesOn(s[l + 1 - 1])
    <3>1. CASE st = <<>>
      <4>1. l = 0
        BY <3>1, EmptySeq DEF l
      <4>2. QED
        BY <3>1, <4>1 DEF Above
    <3>2. CASE st # <<>>
      <4>1. Last(st) = st[l] /\ l > 0 /\ l \in 1..l
        <5>1. Len(st) > 0 /\ Last(st) = st[Len(st)]
          BY <1>1, <3>2, FrontLast
        <5>2. QED
          BY <1>1, <5>1 DEF l
      <4>2. s[l + 1 - 1] = Last(st) /\ l + 1 # 1
        BY <1>1, <1>2, <4>1
      <4>3. QED
        BY <3>2, <4>2 DEF Above, Pending
    <3>3. QED
      BY <3>1, <3>2
  <2>2. ASSUME NEW i \in 1..l
        PROVE  IF s[i].fn = "JReadString" THEN i > 1 => LabelAt(s[i - 1]) = NULL
               ELSE ParentAt(s[i]) = IF i = 1 THEN NULL ELSE PassesOn(s[i - 1])
    <3>1. i > 1 => i - 1 \in 1..l
      BY <1>1
    <3>2. IF st[i].fn = "JReadString" THEN i > 1 => LabelAt(st[i - 1]) = NULL
          ELSE ParentAt(st[i]) = IF i = 1 THEN NULL ELSE PassesOn(st[i - 1])
      BY DEF StackOK, Nested, l
    <3>3. s[i] = st[i] /\ (i > 1 => s[i - 1] = st[i - 1]) /\ (i > 1 \/ i = 1)
      BY <1>1, <1>2, <3>1
    <3>4. QED
      BY <3>2, <3>3
  <2> SUFFICES ASSUME NEW i \in 1..l + 1
               PROVE  IF s[i].fn = "JReadString" THEN i > 1 => LabelAt(s[i - 1]) = NULL
                      ELSE ParentAt(s[i]) = IF i = 1 THEN NULL ELSE PassesOn(s[i - 1])
    BY <1>2 DEF Nested
  <2>3. CASE i = l + 1
    <3>1. l + 1 - 1 = i - 1 /\ s[i] = f
      BY <1>1, <1>2, <2>3
    <3>2. QED
      BY <2>1, <2>3, <3>1
  <2>4. QED
    BY <1>7, <2>2, <2>3
<1>11. Held(s)
  <2> SUFFICES ASSUME NEW i \in 1..l + 1
               PROVE  ParentAt(s[i]) \in {NodeAt(s[j]) : j \in 1..i - 1} \cup {NULL}
    BY <1>2 DEF Held
  <2>1. \A j \in 1..i - 1 : j \in 1..l /\ s[j] = st[j]
    BY <1>1, <1>2
  <2>2. CASE i \in 1..l
    <3>1. ParentAt(st[i]) \in {NodeAt(st[j]) : j \in 1..i - 1} \cup {NULL}
      BY <2>2 DEF StackOK, Held, l
    <3>2. QED
      BY <1>2, <2>1, <2>2, <3>1
  <2>3. CASE i = l + 1
    <3>1. ParentAt(f) \in NodesOf(st) \cup {NULL}
      <4>1. Above(st) \in NodesOf(st) \cup {NULL}
        BY StackParts
      <4>2. QED
        BY <4>1 DEF ParentAt
    <3>2. NodesOf(st) \subseteq {NodeAt(s[j]) : j \in 1..i - 1}
      <4>1. \A j \in 1..l : j \in 1..i - 1
        BY <1>1, <2>3
      <4>2. QED
        BY <1>1, <1>2, <4>1 DEF NodesOf
    <3>3. QED
      BY <1>2, <2>3, <3>1, <3>2
  <2>4. QED
    BY <1>7, <2>2, <2>3
<1>12. Distinct(s)
  <2> SUFFICES ASSUME NEW i \in 1..l + 1, NEW j \in 1..l + 1, i < j
               PROVE  /\ NodeAt(s[i]) = NodeAt(s[j]) => NodeAt(s[i]) = NULL
                      /\ LabelAt(s[i]) = LabelAt(s[j]) => LabelAt(s[i]) = NULL
    BY <1>2 DEF Distinct
  <2>1. i \in 1..l /\ s[i] = st[i]
    BY <1>1, <1>2
  <2>2. CASE j \in 1..l
    BY <1>2, <2>1, <2>2 DEF StackOK, Distinct, l
  <2>3. CASE j = l + 1
    BY <1>1, <1>2, <2>1, <2>3 DEF NodesOf, LabelsOf
  <2>4. QED
    BY <1>7, <2>2, <2>3
<1>13. QED
  BY <1>2, <1>4, <1>5, <1>6, <1>9, <1>10, <1>11, <1>12 DEF StackOK, s

-----------------------------------------------------------------------------
\* The texts hold the empty text.
LEMMA EmptyText == <<>> \in Texts
  BY EmptySeq DEF Texts

LEMMA MemoryParts ==
  ASSUME NEW Text, NEW m \in Memory(Text)
  PROVE  m.live \in SUBSET Node /\ m.strs \in SUBSET Str /\ RootsOf(m) \subseteq m.live
  BY DEF Memory, RootsOf

-----------------------------------------------------------------------------
(***************************************************************************)
(* What the calls on memory do to what a call is in charge of.             *)
(***************************************************************************)
LEMMA ChargeNew ==
  ASSUME NEW m, NEW st, NEW N, NEW S, NEW lo, Charge(m, st, N, S, lo), NodeLeft(m)
  PROVE  /\ FreeNode(m) \in Node /\ FreeNode(m) \notin m.live
         /\ Charge(NewNode(m, FreeNode(m)), st, N \cup {FreeNode(m)}, S, lo)
         /\ FreeNode(m) \notin N
         /\ NewNode(m, FreeNode(m)).live = m.live \cup {FreeNode(m)}
         /\ NewNode(m, FreeNode(m)).payload[FreeNode(m)] = NULL
         /\ NewNode(m, FreeNode(m)).heap[FreeNode(m)] = ZeroCell
         /\ \A x \in m.live : NewNode(m, FreeNode(m)).heap[x] = m.heap[x]
         /\ NewNode(m, FreeNode(m)).strs = m.strs
         /\ NewNode(m, FreeNode(m)).text = m.text
         /\ NewNode(m, FreeNode(m)).fault = m.fault
<1> DEFINE n == FreeNode(m)
           k == NewNode(m, n)
<1>1. n \in Node \ m.live
  BY FreeNodeIsFree
<1>2. m \in Memory(Texts) /\ Sound(m)
  BY DEF Charge
<1> HIDE DEF n
<1>3. /\ k \in Memory(Texts) /\ Sound(k)
      /\ RootsOf(k) = RootsOf(m) \cup {n} /\ LooseOf(k) = LooseOf(m)
      /\ k.live = m.live \cup {n} /\ k.payload[n] = NULL
      /\ k.heap[n] = ZeroCell /\ \A x \in m.live : k.heap[x] = m.heap[x]
      /\ k.strs = m.strs /\ k.text = m.text /\ k.fault = m.fault
  BY <1>1, <1>2, NewNodeSound
<1>4. n \notin RootsOf(m)
  BY <1>1 DEF RootsOf
<1> HIDE DEF k
<1>5. Charge(k, st, N \cup {n}, S, lo) /\ n \notin N
  BY <1>1, <1>3, <1>4 DEF Charge
<1>6. QED
  BY <1>1, <1>3, <1>5 DEF n, k

LEMMA ChargeAdopt ==
  ASSUME NEW m, NEW st, NEW N, NEW S, NEW lo, Charge(m, st, N, S, lo),
         NEW a \in N, NEW p \in m.live, p # a,
         m.heap[p].parent = NULL \/ m.heap[p].parent \in RootsOf(m) \ {a}
  PROVE  /\ Charge(AdoptLast(m, a, p), st, N \ {a}, S, lo)
         /\ AdoptLast(m, a, p).live = m.live /\ AdoptLast(m, a, p).payload = m.payload
         /\ AdoptLast(m, a, p).strs = m.strs
         /\ AdoptLast(m, a, p).text = m.text /\ AdoptLast(m, a, p).fault = m.fault
         /\ AdoptLast(m, a, p).heap[a].parent = p
         /\ AdoptLast(m, a, p).heap[a].first = m.heap[a].first
         /\ AdoptLast(m, a, p).heap[a].next = NULL
         /\ \A x \in m.live \ {a} : AdoptLast(m, a, p).heap[x].parent = m.heap[x].parent
<1> DEFINE k == AdoptLast(m, a, p)
<1>1. m \in Memory(Texts) /\ Sound(m) /\ a \in RootsOf(m)
  BY DEF Charge
<1>2. /\ k \in Memory(Texts) /\ Sound(k)
      /\ RootsOf(k) = RootsOf(m) \ {a} /\ LooseOf(k) = LooseOf(m)
      /\ k.live = m.live /\ k.payload = m.payload /\ k.strs = m.strs
      /\ k.text = m.text /\ k.fault = m.fault
      /\ k.heap[a].parent = p /\ k.heap[a].first = m.heap[a].first
      /\ k.heap[a].next = NULL
      /\ \A x \in m.live \ {a} : k.heap[x].parent = m.heap[x].parent
  BY <1>1, AdoptSound
<1> HIDE DEF k
<1>3. Charge(k, st, N \ {a}, S, lo)
  BY <1>2 DEF Charge
<1>4. QED
  BY <1>2, <1>3 DEF k

LEMMA ChargeSet ==
  ASSUME NEW m, NEW st, NEW N, NEW S, NEW lo, Charge(m, st, N, S, lo),
         NEW n \in m.live, m.payload[n] = NULL, NEW t \in Types, NEW s \in S \cup {NULL}
  PROVE  /\ Charge(SetValue(m, n, t, s), st, N, S \ {s}, lo)
         /\ SetValue(m, n, t, s).live = m.live /\ SetValue(m, n, t, s).heap = m.heap
         /\ SetValue(m, n, t, s).strs = m.strs
         /\ SetValue(m, n, t, s).text = m.text /\ SetValue(m, n, t, s).fault = m.fault
<1> DEFINE k == SetValue(m, n, t, s)
<1>1. m \in Memory(Texts) /\ Sound(m) /\ s \in LooseOf(m) \cup {NULL} /\ NULL \notin LooseOf(m)
  BY NullAssumption, MemoryParts DEF Charge, LooseOf
<1>2. /\ k \in Memory(Texts) /\ Sound(k)
      /\ RootsOf(k) = RootsOf(m) /\ LooseOf(k) = LooseOf(m) \ {s}
      /\ k.live = m.live /\ k.heap = m.heap /\ k.strs = m.strs
      /\ k.text = m.text /\ k.fault = m.fault
  BY <1>1, SetValueSound
<1> HIDE DEF k
<1>3. Charge(k, st, N, S \ {s}, lo)
  BY <1>1, <1>2 DEF Charge
<1>4. QED
  BY <1>2, <1>3 DEF k

LEMMA ChargeText ==
  ASSUME NEW m, NEW st, NEW N, NEW S, NEW lo, Charge(m, st, N, S, lo),
         StrLeft(m), NEW t \in Texts
  PROVE  /\ FreeStr(m) \in Str /\ FreeStr(m) \notin S \cup lo \cup LabelsOf(st)
         /\ Charge(NewText(m, FreeStr(m), t), st, N, S \cup {FreeStr(m)}, lo)
         /\ NewText(m, FreeStr(m), t).live = m.live /\ NewText(m, FreeStr(m), t).heap = m.heap
         /\ NewText(m, FreeStr(m), t).payload = m.payload
         /\ NewText(m, FreeStr(m), t).fault = m.fault
<1> DEFINE s == FreeStr(m)
           k == NewText(m, s, t)
<1>1. s \in Str \ m.strs
  BY FreeStrIsFree
<1>2. m \in Memory(Texts) /\ Sound(m)
  BY DEF Charge
<1> HIDE DEF s
<1>3. /\ k \in Memory(Texts) /\ Sound(k)
      /\ RootsOf(k) = RootsOf(m) /\ LooseOf(k) = LooseOf(m) \cup {s}
      /\ k.live = m.live /\ k.heap = m.heap /\ k.payload = m.payload /\ k.fault = m.fault
  BY <1>1, <1>2, NewTextSound
<1>4. s \notin LooseOf(m)
  BY <1>1 DEF LooseOf
<1> HIDE DEF k
<1>5. Charge(k, st, N, S \cup {s}, lo) /\ s \notin S \cup lo \cup LabelsOf(st)
  BY <1>1, <1>3, <1>4 DEF Charge
<1>6. QED
  BY <1>1, <1>3, <1>5 DEF s, k

LEMMA ChargeFreeText ==
  ASSUME NEW m, NEW st, NEW N, NEW S, NEW lo, Charge(m, st, N, S, lo), NEW s \in S \cup {NULL}
  PROVE  /\ Charge(FreeText(m, s), st, N, S \ {s}, lo)
         /\ FreeText(m, s).live = m.live /\ FreeText(m, s).heap = m.heap
         /\ FreeText(m, s).payload = m.payload /\ FreeText(m, s).fault = m.fault
<1> DEFINE k == FreeText(m, s)
<1>1. m \in Memory(Texts) /\ Sound(m) /\ s \in LooseOf(m) \cup {NULL} /\ NULL \notin LooseOf(m)
  BY NullAssumption, MemoryParts DEF Charge, LooseOf
<1>2. /\ k \in Memory(Texts) /\ Sound(k)
      /\ RootsOf(k) = RootsOf(m) /\ LooseOf(k) = LooseOf(m) \ {s}
      /\ k.live = m.live /\ k.heap = m.heap /\ k.payload = m.payload /\ k.fault = m.fault
  BY <1>1, EmptyText, FreeTextSound
<1> HIDE DEF k
<1>3. Charge(k, st, N, S \ {s}, lo)
  BY <1>1, <1>2 DEF Charge
<1>4. QED
  BY <1>2, <1>3 DEF k

LEMMA ChargeFreeTree ==
  ASSUME NEW m, NEW st, NEW N, NEW S, NEW lo, Charge(m, st, N, S, lo), NEW n \in N \cup {NULL}
  PROVE  /\ Charge(FreeTree(m, n), st, N \ {n}, S, lo)
         /\ FreeTree(m, n).fault = m.fault
<1> DEFINE k == FreeTree(m, n)
<1>1. m \in Memory(Texts) /\ Sound(m) /\ n \in RootsOf(m) \cup {NULL} /\ NULL \notin RootsOf(m)
  BY NullAssumption, MemoryParts DEF Charge
<1>2. /\ k \in Memory(Texts) /\ Sound(k)
      /\ RootsOf(k) = RootsOf(m) \ {n} /\ LooseOf(k) = LooseOf(m) /\ k.fault = m.fault
  BY <1>1, EmptyText, FreeTreeSound
<1> HIDE DEF k
<1>3. Charge(k, st, N \ {n}, S, lo)
  BY <1>1, <1>2 DEF Charge
<1>4. QED
  BY <1>2, <1>3 DEF k

\* What has been in the charge of a call and no variable leads to any more.
LEMMA ChargeLost ==
  ASSUME NEW m, NEW st, NEW N, NEW S, NEW lo, Charge(m, st, N, S, lo),
         NEW A \in SUBSET N, NEW B \in SUBSET S
  PROVE  Charge(m, st, N \ A, S \ B, lo \cup A \cup B)
<1>1. NodesOf(st) \subseteq Node /\ LabelsOf(st) \subseteq Str
  BY DEF Charge, RootsOf, LooseOf, Memory
<1>2. (lo \cup A \cup B) \cap Node = (lo \cap Node) \cup A
  BY BlockAssumption DEF Charge
<1>3. (lo \cup A \cup B) \cap Str = (lo \cap Str) \cup B
  BY BlockAssumption DEF Charge
<1>4. QED
  BY <1>1, <1>2, <1>3, BlockAssumption DEF Charge

\* A call that returns is in charge of what its frame was.
LEMMA ChargePop ==
  ASSUME NEW m, NEW st, NEW N, NEW S, NEW lo, Charge(m, st, N, S, lo), StackOK(st), st # <<>>
  PROVE  Charge(m, Front(st), N \cup ({NodeAt(Last(st))} \ {NULL}),
                S \cup ({LabelAt(Last(st))} \ {NULL}), lo)
<1>1. /\ NodesOf(st) = NodesOf(Front(st)) \cup ({NodeAt(Last(st))} \ {NULL})
      /\ NodeAt(Last(st)) \notin NodesOf(Front(st))
      /\ LabelsOf(st) = LabelsOf(Front(st)) \cup ({LabelAt(Last(st))} \ {NULL})
      /\ LabelAt(Last(st)) \notin LabelsOf(Front(st))
  BY PopStack
<1>2. NodesOf(st) \subseteq Node /\ LabelsOf(st) \subseteq Str
  BY StackParts
<1>3. QED
  BY <1>1, <1>2 DEF Charge

\* A frame takes over what a call was in charge of.
LEMMA ChargePush ==
  ASSUME NEW m, NEW st, StackOK(st), NEW f \in Frames, NEW lo,
         Charge(m, st, {NodeAt(f)} \ {NULL}, {LabelAt(f)} \ {NULL}, lo),
         IF f.fn = "JReadString" THEN Pending(st) = NULL ELSE ParentAt(f) = Above(st)
  PROVE  /\ Charge(m, Append(st, f), {}, {}, lo)
         /\ StackOK(Append(st, f)) /\ Append(st, f) # <<>>
         /\ Front(Append(st, f)) = st /\ Last(Append(st, f)) = f
         /\ Above(Append(st, f)) = PassesOn(f) /\ Pending(Append(st, f)) = LabelAt(f)
<1>1. NodeAt(f) \notin NodesOf(st) /\ LabelAt(f) \notin LabelsOf(st)
  BY DEF Charge, NodesOf, LabelsOf
<1>2. /\ StackOK(Append(st, f)) /\ Append(st, f) # <<>>
      /\ Front(Append(st, f)) = st /\ Last(Append(st, f)) = f
      /\ NodesOf(Append(st, f)) = NodesOf(st) \cup ({NodeAt(f)} \ {NULL})
      /\ LabelsOf(Append(st, f)) = LabelsOf(st) \cup ({LabelAt(f)} \ {NULL})
      /\ Above(Append(st, f)) = PassesOn(f) /\ Pending(Append(st, f)) = LabelAt(f)
  BY <1>1, PushStack
<1>3. Charge(m, Append(st, f), {}, {}, lo)
  BY <1>2 DEF Charge
<1>4. QED
  BY <1>2, <1>3

\* node->type = JD_PROPERTY.
LEMMA ChargeRetype ==
  ASSUME NEW m, NEW st, NEW N, NEW S, NEW lo, Charge(m, st, N, S, lo),
         NEW n \in m.live, NEW t \in Types
  PROVE  /\ Charge([m EXCEPT !.type[n] = t], st, N, S, lo)
         /\ [m EXCEPT !.type[n] = t].live = m.live /\ [m EXCEPT !.type[n] = t].heap = m.heap
         /\ [m EXCEPT !.type[n] = t].payload = m.payload
         /\ [m EXCEPT !.type[n] = t].fault = m.fault
<1> DEFINE k == [m EXCEPT !.type[n] = t]
<1>1. m \in Memory(Texts) /\ Sound(m)
  BY DEF Charge
<1>2. /\ k \in Memory(Texts) /\ Sound(k)
      /\ RootsOf(k) = RootsOf(m) /\ LooseOf(k) = LooseOf(m)
      /\ k.live = m.live /\ k.heap = m.heap /\ k.payload = m.payload /\ k.fault = m.fault
  BY <1>1, RetypeSound
<1> HIDE DEF k
<1>3. Charge(k, st, N, S, lo)
  BY <1>2 DEF Charge
<1>4. QED
  BY <1>2, <1>3 DEF k

\* Only links, payloads and what is allocated count.
LEMMA ChargeSame ==
  ASSUME NEW m, NEW st, NEW N, NEW S, NEW lo, Charge(m, st, N, S, lo),
         NEW k \in Memory(Texts), k.heap = m.heap, k.payload = m.payload,
         k.live = m.live, k.strs = m.strs
  PROVE  Charge(k, st, N, S, lo)
<1>1. Sound(k) /\ RootsOf(k) = RootsOf(m) /\ LooseOf(k) = LooseOf(m)
  BY DEF Charge, Sound, RootsOf, LooseOf
<1>2. QED
  BY <1>1 DEF Charge

\* A collection on the stack is a tree of its own.
LEMMA ChargeAbove ==
  ASSUME NEW m, NEW st, NEW N, NEW S, NEW lo, Charge(m, st, N, S, lo), StackOK(st),
         Above(st) # NULL
  PROVE  /\ Above(st) \in Node /\ Above(st) \in m.live /\ Above(st) \notin N
         /\ m.heap[Above(st)].parent = NULL /\ Above(st) \in RootsOf(m)
  BY StackParts DEF Charge, RootsOf
=============================================================================
