------------------------- MODULE JReadString_proofs -------------------------
(***************************************************************************)
(* For leaves of any size, any number of them and strings of any length:   *)
(* the functions of CharBag.c keep the chain whole and its contents right, *)
(* and JReadString on top of them implements the reader of StringReader    *)
(* and hands over the string that the file holds.                          *)
(***************************************************************************)
EXTENDS MCJReadString, Folding_proofs, FiniteSetTheorems, SequenceTheorems

(***************************************************************************)
(* The chain of leaves and the text in it.                                 *)
(***************************************************************************)
Chars == Alphabet \cup {"NUL"}
Leaves == Leaf \cup {Root}
Cells == [buff : [1..CB_LEAF_SIZE -> Chars \cup {"junk"}], index : Nat,
          next : Leaves \cup {NULL}]
Bags == [cell : [Leaves -> Cells], live : SUBSET Leaf, cur : Leaves, fault : BOOLEAN]

\* The leaves in use, in the order in which the chain leads through them.
Chained(b, ch) ==
  /\ ch \in Seq(Leaves) /\ Len(ch) = Cardinality(b.live) + 1
  /\ ch[1] = Root /\ ToSet(ch) = b.live \cup {Root}
  /\ \A i, j \in 1..Len(ch) : ch[i] = ch[j] => i = j
  /\ \A i \in 1..Len(ch) - 1 : b.cell[ch[i]].next = ch[i + 1]
  /\ b.cell[ch[Len(ch)]].next = NULL

\* Leaf l can be read as far as it is filled.
Readable(b, l) == b.cell[l].index <= CB_LEAF_SIZE /\ b.cell[l].buff \in [1..CB_LEAF_SIZE -> Chars]

\* The leaves are in use up to the current one, which alone may have room.
Filled(b, ch) ==
  /\ Chained(b, ch) /\ b.cur = ch[Len(ch)]
  /\ \A i \in 1..Len(ch) - 1 : b.cell[ch[i]].index = CB_LEAF_SIZE
  /\ \A l \in b.live \cup {Root} : Readable(b, l)

IsWalk(w, b) ==
  w = [k \in 0..Cardinality(Leaf) + 1 |->
        IF k = 0 THEN <<Root>>
        ELSE LET n == b.cell[Last(w[k - 1])].next
             IN IF n \in b.live THEN Append(w[k - 1], n) ELSE w[k - 1]]
Ahead(b, s) ==
  IF b.cell[Last(s)].next \in b.live THEN Append(s, b.cell[Last(s)].next) ELSE s

LEMMA WalkIsWalk == ASSUME NEW b \in Bags PROVE IsWalk(CHOOSE w : IsWalk(w, b), b)
<1> DEFINE N == Cardinality(Leaf) + 1
           D == {s \in Seq(Leaves) : s # <<>>}
           F == [s \in D |-> Ahead(b, s)]
           start == <<Root>>
<1>1. N \in Nat
  BY FS_CardinalityType, LeafAssumption
<1>2. start \in D
  BY DEF Leaves
<1>3. F \in [D -> D]
  <2> SUFFICES ASSUME NEW s \in D PROVE Ahead(b, s) \in D
    OBVIOUS
  <2>1. b.live \subseteq Leaves
    BY DEF Bags, Leaves
  <2>2. QED
    BY <2>1 DEF Ahead
<1>4. PICK g \in [0..N -> D] : \A k \in 0..N : g[k] = IF k = 0 THEN start ELSE F[g[k - 1]]
  <2> HIDE DEF N, D, F, start
  <2>1. HasIterates(N, D, start, F)
    BY <1>1, <1>2, <1>3, Recursion
  <2>2. QED
    BY <2>1 DEF HasIterates
<1>5. \A k \in 0..N : g[k] = IF k = 0 THEN <<Root>> ELSE Ahead(b, g[k - 1])
  <2> SUFFICES ASSUME NEW k \in 0..N, k # 0 PROVE g[k] = Ahead(b, g[k - 1])
    BY <1>4
  <2>1. k - 1 \in 0..N
    BY <1>1
  <2>2. g[k - 1] \in D
    BY <2>1
  <2>3. QED
    BY <1>4, <2>2
<1>6. IsWalk(g, b)
  <2> HIDE DEF D, F
  <2>1. QED
    BY <1>5 DEF IsWalk, Ahead
<1>7. QED
  BY <1>6

LEMMA ChainIs ==
  ASSUME NEW b \in Bags, NEW ch, Chained(b, ch)
  PROVE  ChainOf(b) = ch
<1> DEFINE N == Cardinality(Leaf) + 1
           n == Len(ch)
           w == CHOOSE x : IsWalk(x, b)
           Upto(k) == IF k < n THEN SubSeq(ch, 1, k + 1) ELSE ch
           T == {k \in 0..N : w[k] # Upto(k)}
<1>1. IsWalk(w, b)
  BY WalkIsWalk
<1>2. N \in Nat /\ n \in Nat /\ n >= 1 /\ n <= N
  <2>1. IsFiniteSet(b.live) /\ Cardinality(b.live) <= Cardinality(Leaf)
    BY FS_Subset, LeafAssumption DEF Bags
  <2>2. QED
    BY <2>1, FS_CardinalityType, LeafAssumption DEF Chained
<1>3. \A k \in 0..N : w[k] = IF k = 0 THEN <<Root>> ELSE Ahead(b, w[k - 1])
  <2> HIDE DEF w
  <2>1. QED
    BY <1>1 DEF IsWalk, Ahead
<1>4. w[0] = Upto(0)
  <2>1. w[0] = <<Root>>
    BY <1>2, <1>3
  <2>2. Upto(0) = <<Root>>
    <3>1. ch \in Seq(Leaves) /\ ch[1] = Root
      BY DEF Chained
    <3>2. CASE 0 < n
      <4>1. SubSeq(ch, 1, 1) = <<ch[1]>>
        <5>1. SubSeq(ch, 1, 1) \in Seq(Leaves) /\ Len(SubSeq(ch, 1, 1)) = 1
              /\ SubSeq(ch, 1, 1)[1] = ch[1]
          BY <3>1, <3>2, <1>2
        <5>2. \A s \in Seq(Leaves) : Len(s) = 1 => s = <<s[1]>>
          OBVIOUS
        <5>3. QED
          BY <5>1, <5>2
      <4>2. QED
        BY <3>1, <3>2, <4>1
    <3>3. QED
      BY <3>2, <1>2
  <2>3. QED
    BY <2>1, <2>2
<1>5. ASSUME NEW k \in 0..N, k + 1 \in 0..N, w[k] = Upto(k)
      PROVE  w[k + 1] = Upto(k + 1)
  <2>1. w[k + 1] = Ahead(b, Upto(k))
    <3>1. (k + 1) - 1 = k /\ k + 1 # 0
      BY <1>2
    <3> HIDE DEF w, Upto
    <3>2. QED
      BY <1>3, <1>5, <3>1
  <2>2. CASE k + 1 < n
    <3>1. Upto(k) = SubSeq(ch, 1, k + 1) /\ Last(SubSeq(ch, 1, k + 1)) = ch[k + 1]
      BY <2>2, <1>2 DEF Chained, Last
    <3>2. k + 1 \in 1..n - 1 /\ (k + 1) + 1 \in 1..n
      BY <2>2, <1>2
    <3>3. b.cell[ch[k + 1]].next = ch[(k + 1) + 1]
      BY <3>2 DEF Chained
    <3>4. ch[(k + 1) + 1] \in b.live
      <4>1. ch[(k + 1) + 1] \in b.live \cup {Root}
        BY <3>2 DEF Chained, ToSet
      <4>2. ch[(k + 1) + 1] # Root
        BY <3>2, <1>2 DEF Chained
      <4>3. QED
        BY <4>1, <4>2
    <3>5. Ahead(b, Upto(k)) = Append(SubSeq(ch, 1, k + 1), ch[(k + 1) + 1])
      BY <3>1, <3>3, <3>4 DEF Ahead
    <3>6. Append(SubSeq(ch, 1, k + 1), ch[(k + 1) + 1]) = SubSeq(ch, 1, (k + 1) + 1)
      BY <3>2, <1>2 DEF Chained
    <3>7. Upto(k + 1) = SubSeq(ch, 1, (k + 1) + 1)
      BY <2>2
    <3> HIDE DEF Upto
    <3>8. QED
      BY <2>1, <3>5, <3>6, <3>7
  <2>3. CASE ~(k + 1 < n)
    <3>1. Upto(k) = ch /\ Upto(k + 1) = ch
      BY <2>3, <1>2 DEF Chained
    <3>2. Last(ch) = ch[n]
      BY DEF Last
    <3>3. b.cell[ch[n]].next = NULL /\ NULL \notin b.live
      BY LeafAssumption DEF Chained, Bags
    <3> HIDE DEF Upto
    <3>4. QED
      BY <2>1, <3>1, <3>2, <3>3 DEF Ahead
  <2>4. QED
    BY <2>2, <2>3
<1>6. T = {}
  <2> SUFFICES ASSUME T # {} PROVE FALSE
    OBVIOUS
  <2>1. T \in SUBSET Nat
    BY <1>2
  <2>2. PICK m \in T : \A k \in T : m <= k
    <3> HIDE DEF T
    <3>1. QED
      BY <2>1, Least
  <2> HIDE DEF w, Upto
  <2>3. m \in 0..N /\ w[m] # Upto(m) /\ \A k \in 0..N : k < m => w[k] = Upto(k)
    BY <2>2, <1>2
  <2>4. m # 0 /\ m - 1 \in 0..N /\ m - 1 < m /\ (m - 1) + 1 = m
    BY <2>3, <1>2, <1>4
  <2>5. QED
    BY <2>3, <2>4, <1>5
<1>7. w[N] = Upto(N)
  <2>1. N \in 0..N
    BY <1>2
  <2> HIDE DEF w, Upto, N
  <2>2. QED
    BY <1>6, <2>1
<1>8. Upto(N) = ch
  BY <1>2 DEF Chained
<1>9. ChainOf(b) = w[N]
  BY DEF ChainOf, IsWalk
<1>10. QED
  <2> HIDE DEF w, Upto, N
  <2>1. QED
    BY <1>7, <1>8, <1>9

\* What is copied from the leaf at position i of the chain.
Piece(b, ch, i) == SubSeq(b.cell[ch[i]].buff, 1, b.cell[ch[i]].index)

IsText(g, b, ch) ==
  g = [s \in SUBSET DOMAIN ch |-> IF s = {} THEN <<>> ELSE g[s \ {Max(s)}] \o Piece(b, ch, Max(s))]
IsCount(g, b, ch) ==
  g = [s \in SUBSET DOMAIN ch |-> IF s = {} THEN 0 ELSE g[s \ {Max(s)}] + b.cell[ch[Max(s)]].index]

\* The characters in the first k leaves, and how many the first pass counts.
Text(b, ch, k) == (CHOOSE g : IsText(g, b, ch))[1..k]
Count(b, ch, k) == (CHOOSE g : IsCount(g, b, ch))[1..k]

LEMMA PieceProperties ==
  ASSUME NEW b \in Bags, NEW ch, Filled(b, ch), NEW i \in 1..Len(ch)
  PROVE  /\ ch[i] \in b.live \cup {Root} /\ b.cell[ch[i]].index \in 0..CB_LEAF_SIZE
         /\ Piece(b, ch, i) \in Seq(Chars) /\ Len(Piece(b, ch, i)) = b.cell[ch[i]].index
<1>1. ch[i] \in b.live \cup {Root} /\ ch[i] \in Leaves
  BY DEF Filled, Chained, ToSet
<1>2. b.cell[ch[i]].index \in Nat /\ CB_LEAF_SIZE \in Nat
  BY <1>1, TextAssumption DEF Bags, Cells
<1>3. b.cell[ch[i]].index \in 0..CB_LEAF_SIZE /\ b.cell[ch[i]].buff \in [1..CB_LEAF_SIZE -> Chars]
  BY <1>1, <1>2 DEF Filled, Readable
<1> DEFINE m == b.cell[ch[i]].index
           s == b.cell[ch[i]].buff
<1>4. m \in Int /\ 1 \in Int /\ \A j \in 1..m : s[j] \in Chars
  BY <1>2, <1>3
<1> HIDE DEF m, s
<1>5. SubSeq(s, 1, m) \in Seq(Chars) /\ Len(SubSeq(s, 1, m)) = IF 1 <= m THEN m - 1 + 1 ELSE 0
  BY <1>4, SubSeqProperties
<1> USE DEF m, s
<1>6. QED
  BY <1>1, <1>2, <1>3, <1>5 DEF Piece

LEMMA TextIsText ==
  ASSUME NEW b \in Bags, NEW ch, Filled(b, ch)
  PROVE  /\ IsText(CHOOSE g : IsText(g, b, ch), b, ch)
         /\ IsCount(CHOOSE g : IsCount(g, b, ch), b, ch)
<1> DEFINE n == Len(ch)
<1>1. n \in Nat /\ DOMAIN ch = 1..n
  BY DEF Filled, Chained
<1>2. \E g : IsText(g, b, ch)
  <2> DEFINE D == Seq(Chars)
             F == [p \in Nat \X D |-> IF p[1] \in 1..n THEN p[2] \o Piece(b, ch, p[1]) ELSE p[2]]
             empty == <<>>
  <2>1. F \in [Nat \X D -> D] /\ empty \in D
    BY PieceProperties
  <2>2. PICK g \in [SUBSET (1..n) -> D] :
          \A s \in SUBSET (1..n) : g[s] = IF s = {} THEN empty ELSE F[<<Max(s), g[s \ {Max(s)}]>>]
    <3> HIDE DEF n, D, F, empty
    <3>1. HasFold(n, D, empty, F)
      BY <1>1, <2>1, FoldSubsets
    <3>2. QED
      BY <3>1 DEF HasFold
  <2>3. ASSUME NEW s \in SUBSET (1..n), s # {}
        PROVE  g[s] = g[s \ {Max(s)}] \o Piece(b, ch, Max(s))
    <3>1. Max(s) \in 1..n
      BY <1>1, <2>3, MaxIsGreatest
    <3>2. g[s \ {Max(s)}] \in D
      OBVIOUS
    <3>3. <<Max(s), g[s \ {Max(s)}]>> \in Nat \X D
      <4>1. Max(s) \in Nat
        BY <1>1, <3>1
      <4> HIDE DEF D
      <4>2. QED
        BY <3>2, <4>1
    <3>4. F[<<Max(s), g[s \ {Max(s)}]>>] = g[s \ {Max(s)}] \o Piece(b, ch, Max(s))
      BY <3>1, <3>3
    <3> HIDE DEF F, D
    <3>5. QED
      BY <2>2, <2>3, <3>4
  <2>4. g[{}] = <<>>
    BY <2>2
  <2> HIDE DEF F, D
  <2>5. IsText(g, b, ch)
    BY <1>1, <2>3, <2>4 DEF IsText
  <2>6. QED
    BY <2>5
<1>3. \E g : IsCount(g, b, ch)
  <2> DEFINE F == [p \in Nat \X Nat |-> IF p[1] \in 1..n THEN p[2] + b.cell[ch[p[1]]].index ELSE p[2]]
  <2>1. F \in [Nat \X Nat -> Nat] /\ 0 \in Nat
    BY PieceProperties, TextAssumption
  <2>2. PICK g \in [SUBSET (1..n) -> Nat] :
          \A s \in SUBSET (1..n) : g[s] = IF s = {} THEN 0 ELSE F[<<Max(s), g[s \ {Max(s)}]>>]
    <3> HIDE DEF n, F
    <3>1. HasFold(n, Nat, 0, F)
      BY <1>1, <2>1, FoldSubsets
    <3>2. QED
      BY <3>1 DEF HasFold
  <2>3. ASSUME NEW s \in SUBSET (1..n), s # {}
        PROVE  g[s] = g[s \ {Max(s)}] + b.cell[ch[Max(s)]].index
    <3>1. Max(s) \in 1..n
      BY <1>1, <2>3, MaxIsGreatest
    <3>2. g[s \ {Max(s)}] \in Nat
      OBVIOUS
    <3>3. <<Max(s), g[s \ {Max(s)}]>> \in Nat \X Nat
      BY <3>1, <3>2
    <3>4. F[<<Max(s), g[s \ {Max(s)}]>>] = g[s \ {Max(s)}] + b.cell[ch[Max(s)]].index
      BY <3>1, <3>3
    <3> HIDE DEF F
    <3>5. QED
      BY <2>2, <2>3, <3>4
  <2>4. g[{}] = 0
    BY <2>2
  <2> HIDE DEF F
  <2>5. IsCount(g, b, ch)
    BY <1>1, <2>3, <2>4 DEF IsCount
  <2>6. QED
    BY <2>5
<1>4. QED
  BY <1>2, <1>3

LEMMA TextSteps ==
  ASSUME NEW b \in Bags, NEW ch, Filled(b, ch)
  PROVE  /\ Text(b, ch, 0) = <<>> /\ Count(b, ch, 0) = 0
         /\ \A k \in 1..Len(ch) :
              /\ Text(b, ch, k) = Text(b, ch, k - 1) \o Piece(b, ch, k)
              /\ Count(b, ch, k) = Count(b, ch, k - 1) + b.cell[ch[k]].index
<1> DEFINE g == CHOOSE x : IsText(x, b, ch)
           h == CHOOSE x : IsCount(x, b, ch)
<1>1. IsText(g, b, ch) /\ IsCount(h, b, ch)
  BY TextIsText
<1>2. Len(ch) \in Nat /\ DOMAIN ch = 1..Len(ch)
  BY DEF Filled, Chained
<1>3. \A k \in Nat : Text(b, ch, k) = g[1..k] /\ Count(b, ch, k) = h[1..k]
  BY DEF Text, Count
<1> HIDE DEF g, h
<1>4. g[{}] = <<>> /\ h[{}] = 0
  BY <1>1, <1>2 DEF IsText, IsCount
<1>5. 1..0 = {}
  OBVIOUS
<1>6. ASSUME NEW k \in 1..Len(ch)
      PROVE  /\ g[1..k] = g[1..k - 1] \o Piece(b, ch, k)
             /\ h[1..k] = h[1..k - 1] + b.cell[ch[k]].index
  <2>1. 1..k \in SUBSET (1..Len(ch)) /\ k \in 1..k /\ k \in Nat \ {0}
    BY <1>2
  <2>2. Max(1..k) = k /\ (1..k) \ {k} = 1..k - 1
    BY <2>1, MaxOfInterval
  <2>3. QED
    BY <1>1, <1>2, <2>1, <2>2 DEF IsText, IsCount
<1>7. \A k \in 1..Len(ch) : k \in Nat /\ k - 1 \in Nat
  BY <1>2
<1>8. Text(b, ch, 0) = <<>> /\ Count(b, ch, 0) = 0
  BY <1>3, <1>4, <1>5
<1>9. ASSUME NEW k \in 1..Len(ch)
      PROVE  /\ Text(b, ch, k) = Text(b, ch, k - 1) \o Piece(b, ch, k)
             /\ Count(b, ch, k) = Count(b, ch, k - 1) + b.cell[ch[k]].index
  BY <1>3, <1>6, <1>7
<1>10. QED
  BY <1>8, <1>9

LEMMA CopiedIs ==
  ASSUME NEW b \in Bags, NEW ch, Filled(b, ch)
  PROVE  Copied(b) = Text(b, ch, Len(ch)) /\ CharCount(b) = Count(b, ch, Len(ch))
<1>1. ChainOf(b) = ch
  BY ChainIs DEF Filled
<1>2. DOMAIN ch = 1..Len(ch)
  BY DEF Filled, Chained
<1>3. Copied(b) = (CHOOSE g : IsText(g, b, ChainOf(b)))[DOMAIN ChainOf(b)]
  BY DEF Copied, FoldLeft, MapThenFoldSet, IsText, Piece
<1>4. CharCount(b) = (CHOOSE g : IsCount(g, b, ChainOf(b)))[DOMAIN ChainOf(b)]
  BY DEF CharCount, FoldLeft, MapThenFoldSet, IsCount
<1>5. QED
  BY <1>1, <1>2, <1>3, <1>4 DEF Text, Count

LEMMA TextTypes ==
  ASSUME NEW b \in Bags, NEW ch, Filled(b, ch)
  PROVE  \A k \in 0..Len(ch) :
           /\ Text(b, ch, k) \in Seq(Chars) /\ Count(b, ch, k) \in Nat
           /\ Len(Text(b, ch, k)) = Count(b, ch, k)
<1> DEFINE Typed(k) == /\ Text(b, ch, k) \in Seq(Chars) /\ Count(b, ch, k) \in Nat
                       /\ Len(Text(b, ch, k)) = Count(b, ch, k)
           T == {k \in 0..Len(ch) : ~Typed(k)}
<1>1. Len(ch) \in Nat
  BY DEF Filled, Chained
<1>2. Typed(0)
  <2>1. <<>> \in Seq(Chars) /\ Len(<<>>) = 0
    OBVIOUS
  <2>2. Text(b, ch, 0) = <<>> /\ Count(b, ch, 0) = 0
    BY TextSteps
  <2>3. Text(b, ch, 0) \in Seq(Chars) /\ Len(Text(b, ch, 0)) = 0
    BY <2>1, <2>2
  <2>4. Count(b, ch, 0) \in Nat /\ Len(Text(b, ch, 0)) = Count(b, ch, 0)
    BY <2>2, <2>3
  <2>5. QED
    BY <2>3, <2>4
<1>3. ASSUME NEW k \in 1..Len(ch), Typed(k - 1) PROVE Typed(k)
  <2>1. Text(b, ch, k) = Text(b, ch, k - 1) \o Piece(b, ch, k)
        /\ Count(b, ch, k) = Count(b, ch, k - 1) + b.cell[ch[k]].index
    BY TextSteps
  <2>2. /\ b.cell[ch[k]].index \in 0..CB_LEAF_SIZE
        /\ Piece(b, ch, k) \in Seq(Chars) /\ Len(Piece(b, ch, k)) = b.cell[ch[k]].index
    BY PieceProperties
  <2>3. /\ Text(b, ch, k - 1) \o Piece(b, ch, k) \in Seq(Chars)
        /\ Len(Text(b, ch, k - 1) \o Piece(b, ch, k))
             = Len(Text(b, ch, k - 1)) + Len(Piece(b, ch, k))
    BY <1>3, <2>2, ConcatProperties
  <2>4. QED
    BY <1>3, <2>1, <2>2, <2>3, TextAssumption
<1>4. T = {}
  <2> SUFFICES ASSUME T # {} PROVE FALSE
    OBVIOUS
  <2>1. T \in SUBSET Nat
    BY <1>1
  <2>2. PICK m \in T : \A k \in T : m <= k
    <3> HIDE DEF T
    <3>1. QED
      BY <2>1, Least
  <2> HIDE DEF Typed
  <2>3. m \in 0..Len(ch) /\ ~Typed(m) /\ \A k \in 0..Len(ch) : k < m => Typed(k)
    BY <2>2, <1>1
  <2>4. m \in 1..Len(ch) /\ m - 1 \in 0..Len(ch) /\ m - 1 < m
    BY <2>3, <1>1, <1>2
  <2>5. QED
    BY <2>3, <2>4, <1>3
<1>5. QED
  <2> HIDE DEF Typed
  <2>1. \A k \in 0..Len(ch) : Typed(k)
    BY <1>4
  <2> USE DEF Typed
  <2>2. QED
    BY <2>1

\* Bags that agree on their first leaves hold the same text there.
LEMMA SameText ==
  ASSUME NEW b \in Bags, NEW ch, Filled(b, ch), NEW c \in Bags, NEW dh, Filled(c, dh),
         NEW n \in 0..Len(ch), n <= Len(dh),
         \A i \in 1..n : Piece(b, ch, i) = Piece(c, dh, i)
  PROVE  Text(b, ch, n) = Text(c, dh, n)
<1> DEFINE T == {k \in 0..n : Text(b, ch, k) # Text(c, dh, k)}
<1>1. n \in Nat /\ Len(ch) \in Nat /\ Len(dh) \in Nat
  BY DEF Filled, Chained
<1>2. Text(b, ch, 0) = Text(c, dh, 0)
  BY TextSteps
<1>3. ASSUME NEW k \in 1..n, Text(b, ch, k - 1) = Text(c, dh, k - 1)
      PROVE  Text(b, ch, k) = Text(c, dh, k)
  <2>1. k \in 1..Len(ch) /\ k \in 1..Len(dh)
    BY <1>1
  <2>2. Text(b, ch, k) = Text(b, ch, k - 1) \o Piece(b, ch, k)
    BY <2>1, TextSteps
  <2>3. Text(c, dh, k) = Text(c, dh, k - 1) \o Piece(c, dh, k)
    BY <2>1, TextSteps
  <2>4. QED
    BY <1>3, <2>2, <2>3
<1>4. T = {}
  <2> SUFFICES ASSUME T # {} PROVE FALSE
    OBVIOUS
  <2>1. T \in SUBSET Nat
    BY <1>1
  <2>2. PICK m \in T : \A k \in T : m <= k
    <3> HIDE DEF T
    <3>1. QED
      BY <2>1, Least
  <2>3. m \in 0..n /\ Text(b, ch, m) # Text(c, dh, m)
        /\ \A k \in 0..n : k < m => Text(b, ch, k) = Text(c, dh, k)
    BY <2>2, <1>1
  <2>4. m \in 1..n /\ m - 1 \in 0..n /\ m - 1 < m
    BY <2>3, <1>1, <1>2
  <2>5. QED
    BY <2>3, <2>4, <1>3
<1>5. QED
  BY <1>4, <1>1

\* The leaves in front of the current one are full.
LEMMA FullCount ==
  ASSUME NEW b \in Bags, NEW ch, Filled(b, ch)
  PROVE  \A k \in 0..Len(ch) - 1 : Count(b, ch, k) = k * CB_LEAF_SIZE
<1> DEFINE T == {k \in 0..Len(ch) - 1 : Count(b, ch, k) # k * CB_LEAF_SIZE}
<1>1. Len(ch) \in Nat /\ CB_LEAF_SIZE \in Nat
  BY TextAssumption DEF Filled, Chained
<1>2. Count(b, ch, 0) = 0 * CB_LEAF_SIZE
  BY <1>1, TextSteps
<1>3. ASSUME NEW k \in 1..Len(ch) - 1, Count(b, ch, k - 1) = (k - 1) * CB_LEAF_SIZE
      PROVE  Count(b, ch, k) = k * CB_LEAF_SIZE
  <2>1. k \in 1..Len(ch)
    BY <1>1
  <2>2. Count(b, ch, k) = Count(b, ch, k - 1) + b.cell[ch[k]].index
    BY <2>1, TextSteps
  <2>3. b.cell[ch[k]].index = CB_LEAF_SIZE
    BY DEF Filled
  <2>4. QED
    BY <1>1, <1>3, <2>1, <2>2, <2>3
<1>4. T = {}
  <2> SUFFICES ASSUME T # {} PROVE FALSE
    OBVIOUS
  <2>1. T \in SUBSET Nat
    BY <1>1
  <2>2. PICK m \in T : \A k \in T : m <= k
    <3> HIDE DEF T
    <3>1. QED
      BY <2>1, Least
  <2>3. m \in 0..Len(ch) - 1 /\ Count(b, ch, m) # m * CB_LEAF_SIZE
        /\ \A k \in 0..Len(ch) - 1 : k < m => Count(b, ch, k) = k * CB_LEAF_SIZE
    BY <2>2, <1>1
  <2>4. m \in 1..Len(ch) - 1 /\ m - 1 \in 0..Len(ch) - 1 /\ m - 1 < m
    BY <2>3, <1>1, <1>2
  <2>5. QED
    BY <2>3, <2>4, <1>3
<1>5. QED
  BY <1>4

-----------------------------------------------------------------------------
(***************************************************************************)
(* The functions of CharBag.c.                                             *)
(***************************************************************************)

\* buff[index_next_char] = c; ++index_next_char, in a current leaf with room.
LEMMA StoreFits ==
  ASSUME NEW b \in Bags, NEW ch, Filled(b, ch), ~Full(b, b.cur), NEW c \in Alphabet
  PROVE  /\ Store(b, b.cur, c) \in Bags /\ Filled(Store(b, b.cur, c), ch)
         /\ Store(b, b.cur, c).live = b.live /\ Store(b, b.cur, c).fault = b.fault
         /\ \A l \in Leaves : Store(b, b.cur, c).cell[l].index
              = IF l = b.cur THEN b.cell[l].index + 1 ELSE b.cell[l].index
         /\ Copied(Store(b, b.cur, c)) = Append(Copied(b), c)
<1> DEFINE n == Len(ch)
           l == b.cur
           i == b.cell[l].index + 1
           d == Store(b, l, c)
<1>1. /\ n \in Nat /\ n >= 1 /\ l = ch[n] /\ l \in b.live \cup {Root} /\ l \in Leaves
      /\ CB_LEAF_SIZE \in Nat /\ b.cell[l].index \in Nat /\ b.cell[l].index < CB_LEAF_SIZE
      /\ b.cell[l].buff \in [1..CB_LEAF_SIZE -> Chars]
      /\ b.live \subseteq Leaf
  <2>1. n \in Nat /\ n >= 1
    <3>1. IsFiniteSet(b.live)
      BY FS_Subset, LeafAssumption DEF Bags
    <3>2. QED
      BY <3>1, FS_CardinalityType DEF Filled, Chained
  <2>2. l = ch[n] /\ l \in b.live \cup {Root}
    BY <2>1 DEF Filled, Chained, ToSet
  <2>3. b.live \subseteq Leaf /\ l \in Leaves
    BY DEF Bags
  <2>4. b.cell[l].index \in Nat /\ CB_LEAF_SIZE \in Nat
    BY <2>3, TextAssumption DEF Bags, Cells
  <2>5. b.cell[l].index < CB_LEAF_SIZE
    BY <2>4 DEF Full
  <2>6. b.cell[l].buff \in [1..CB_LEAF_SIZE -> Chars]
    BY <2>2 DEF Filled, Readable
  <2>7. QED
    BY <2>1, <2>2, <2>3, <2>4, <2>5, <2>6
<1>2. i \in 1..CB_LEAF_SIZE
  BY <1>1
<1>3. d = [b EXCEPT !.cell[l].buff[i] = c, !.cell[l].index = i]
  <2> HIDE DEF l
  <2>1. QED
    BY <1>1, <1>2 DEF Store
<1>4. /\ d.live = b.live /\ d.fault = b.fault /\ d.cur = l
      /\ \A x \in Leaves : x # l => d.cell[x] = b.cell[x]
      /\ d.cell[l].next = b.cell[l].next /\ d.cell[l].index = i
      /\ d.cell[l].buff = [b.cell[l].buff EXCEPT ![i] = c]
  BY <1>1, <1>3 DEF Bags, Cells
<1>5. c \in Chars
  BY DEF Chars
<1>6. d \in Bags
  <2> DEFINE new == [b.cell[l] EXCEPT !.buff = [@ EXCEPT ![i] = c], !.index = i]
  <2>1. b.cell \in [Leaves -> Cells] /\ b.cell[l] \in Cells
    BY <1>1 DEF Bags
  <2>2. [b.cell[l].buff EXCEPT ![i] = c] \in [1..CB_LEAF_SIZE -> Chars \cup {"junk"}]
    BY <1>1, <1>2, <1>5
  <2>3. new \in Cells
    <3>1. \A r \in Cells, u \in [1..CB_LEAF_SIZE -> Chars \cup {"junk"}], j \in Nat :
            [r EXCEPT !.buff = u, !.index = j] \in Cells
      BY DEF Cells
    <3>2. i \in Nat
      BY <1>2
    <3>3. new = [b.cell[l] EXCEPT !.buff = [b.cell[l].buff EXCEPT ![i] = c], !.index = i]
      BY <2>1 DEF Cells
    <3> HIDE DEF new, d, i
    <3>4. QED
      BY <2>1, <2>2, <3>1, <3>2, <3>3
  <2>4. d = [b EXCEPT !.cell = [b.cell EXCEPT ![l] = new]]
    <3> HIDE DEF d
    <3>1. QED
      BY <1>1, <1>3, <2>1 DEF Bags, Cells
  <2> HIDE DEF new, d
  <2>5. [b.cell EXCEPT ![l] = new] \in [Leaves -> Cells]
    BY <2>1, <2>3
  <2>6. QED
    BY <2>4, <2>5 DEF Bags
<1> HIDE DEF d, l, i
<1>7. Chained(d, ch)
  <2>1. \A j \in 1..n : ch[j] \in Leaves
    BY DEF Filled, Chained
  <2>2. \A x \in Leaves : d.cell[x].next = b.cell[x].next
    BY <1>4
  <2>3. \A j \in 1..n - 1 : d.cell[ch[j]].next = ch[j + 1]
    BY <1>1, <2>1, <2>2 DEF Filled, Chained
  <2>4. d.cell[ch[n]].next = NULL
    BY <1>1, <2>1, <2>2 DEF Filled, Chained
  <2>5. QED
    BY <1>4, <2>3, <2>4 DEF Filled, Chained
<1>8. Filled(d, ch)
  <2>1. \A j \in 1..n - 1 : ch[j] # l /\ ch[j] \in Leaves
    BY <1>1 DEF Filled, Chained
  <2>2. \A j \in 1..n - 1 : d.cell[ch[j]].index = CB_LEAF_SIZE
    BY <1>4, <2>1 DEF Filled
  <2>3. \A x \in d.live \cup {Root} : Readable(d, x)
    <3> SUFFICES ASSUME NEW x \in b.live \cup {Root} PROVE Readable(d, x)
      BY <1>4
    <3>1. CASE x = l
      <4>1. [b.cell[l].buff EXCEPT ![i] = c] \in [1..CB_LEAF_SIZE -> Chars]
        BY <1>1, <1>2, <1>5
      <4>2. i <= CB_LEAF_SIZE
        BY <1>1, <1>2
      <4>3. QED
        BY <1>4, <3>1, <4>1, <4>2 DEF Readable
    <3>2. CASE x # l
      <4>1. d.cell[x] = b.cell[x]
        BY <1>1, <1>4, <3>2 DEF Leaves
      <4>2. QED
        BY <4>1 DEF Filled, Readable
    <3>3. QED
      BY <3>1, <3>2
  <2>4. d.cur = ch[n]
    BY <1>1, <1>4
  <2>5. QED
    BY <1>7, <2>2, <2>3, <2>4 DEF Filled
<1>9. Copied(d) = Append(Copied(b), c)
  <2>1. \A j \in 1..n - 1 : ch[j] # l /\ ch[j] \in Leaves
    BY <1>1 DEF Filled, Chained
  <2>2. \A j \in 1..n - 1 : Piece(b, ch, j) = Piece(d, ch, j)
    BY <1>4, <2>1 DEF Piece
  <2>3. Text(b, ch, n - 1) = Text(d, ch, n - 1)
    BY <1>1, <1>6, <1>8, <2>2, SameText
  <2>4. Piece(d, ch, n) = Append(Piece(b, ch, n), c)
    <3> DEFINE s == b.cell[l].buff
               m == b.cell[l].index
    <3>1. Piece(b, ch, n) = SubSeq(s, 1, m)
      BY <1>1 DEF Piece
    <3>2. Piece(d, ch, n) = SubSeq([s EXCEPT ![m + 1] = c], 1, m + 1)
      BY <1>1, <1>4 DEF Piece, i
    <3>3. s \in [1..CB_LEAF_SIZE -> Chars] /\ m \in Nat /\ m < CB_LEAF_SIZE /\ CB_LEAF_SIZE \in Nat
      BY <1>1
    <3> HIDE DEF s, m
    <3>4. s \in Seq(Chars) /\ Len(s) = CB_LEAF_SIZE
      BY <3>3
    <3>5. SubSeq([s EXCEPT ![m + 1] = c], 1, m + 1) = Append(SubSeq(s, 1, m), c)
      BY <1>5, <3>3, <3>4
    <3>6. QED
      BY <3>1, <3>2, <3>5
  <2>5. n \in 1..n
    BY <1>1
  <2>6. Text(d, ch, n) = Text(d, ch, n - 1) \o Piece(d, ch, n)
        /\ Text(b, ch, n) = Text(b, ch, n - 1) \o Piece(b, ch, n)
    BY <1>6, <1>8, <2>5, TextSteps
  <2>7. n - 1 \in 0..n
    BY <1>1
  <2>8. Text(b, ch, n - 1) \in Seq(Chars) /\ Piece(b, ch, n) \in Seq(Chars)
    BY <2>5, <2>7, TextTypes, PieceProperties
  <2>9. \A t, u \in Seq(Chars) : t \o Append(u, c) = Append(t \o u, c)
    BY <1>5
  <2>10. Text(d, ch, n) = Append(Text(b, ch, n), c)
    BY <2>3, <2>4, <2>6, <2>8, <2>9
  <2>11. QED
    BY <1>6, <1>8, <2>10, CopiedIs
<1>10. QED
  BY <1>4, <1>6, <1>8, <1>9 DEF d, l, i

\* A new leaf goes behind the current one, and is empty.
LEMMA GrowFits ==
  ASSUME NEW b \in Bags, NEW ch, Filled(b, ch), Full(b, b.cur), Leaf \ b.live # {}
  PROVE  /\ Grow(b) \in Bags /\ Filled(Grow(b), Append(ch, Grow(b).cur))
         /\ Grow(b).cur \in Leaf \ b.live /\ Grow(b).live = b.live \cup {Grow(b).cur}
         /\ Grow(b).fault = b.fault
         /\ \A l \in Leaves : Grow(b).cell[l].index
              = IF l = Grow(b).cur THEN 0 ELSE b.cell[l].index
         /\ Copied(Grow(b)) = Copied(b)
<1> DEFINE n == Len(ch)
           l == CHOOSE x \in Leaf : x \notin b.live
           g == Grow(b)
           dh == Append(ch, l)
<1>1. l \in Leaf /\ l \notin b.live /\ l \in Leaves /\ l # Root
  BY LeafAssumption DEF Leaves
<1>2. /\ n \in Nat /\ n >= 1 /\ n = Cardinality(b.live) + 1 /\ IsFiniteSet(b.live)
      /\ ch \in Seq(Leaves) /\ b.cur = ch[n] /\ b.cur \in Leaves
      /\ \A j \in 1..n : ch[j] \in b.live \cup {Root}
      /\ CB_LEAF_SIZE \in Nat
  <2>1. IsFiniteSet(b.live)
    BY FS_Subset, LeafAssumption DEF Bags
  <2>2. n \in Nat /\ n >= 1 /\ n = Cardinality(b.live) + 1 /\ ch \in Seq(Leaves)
    BY <2>1, FS_CardinalityType DEF Filled, Chained
  <2>3. b.cur = ch[n] /\ \A j \in 1..n : ch[j] \in b.live \cup {Root}
    BY <2>2 DEF Filled, Chained, ToSet
  <2>4. QED
    BY <2>1, <2>2, <2>3, TextAssumption DEF Bags
<1>3. g = [b EXCEPT !.live = b.live \cup {l}, !.cur = l,
                    !.cell = [b.cell EXCEPT ![l] = ZeroLeaf, ![b.cur].next = l]]
  BY DEF Grow
<1>4. ZeroLeaf \in Cells /\ ZeroLeaf.index = 0 /\ ZeroLeaf.next = NULL
      /\ ZeroLeaf.buff \in [1..CB_LEAF_SIZE -> Chars]
  BY DEF ZeroLeaf, Cells, Chars
<1> HIDE DEF l, g
<1>5. b.cur # l
  BY <1>1, <1>2
<1>6. /\ g.live = b.live \cup {l} /\ g.cur = l /\ g.fault = b.fault
      /\ g.cell[l] = ZeroLeaf
      /\ \A x \in Leaves : x # l => /\ g.cell[x].index = b.cell[x].index
                                    /\ g.cell[x].buff = b.cell[x].buff
                                    /\ g.cell[x].next = IF x = b.cur THEN l ELSE b.cell[x].next
  BY <1>1, <1>2, <1>3, <1>5 DEF Bags, Cells
<1>7. g \in Bags
  <2> DEFINE new == [b.cell[b.cur] EXCEPT !.next = l]
             zeroed == [b.cell EXCEPT ![l] = ZeroLeaf]
             cells == [zeroed EXCEPT ![b.cur] = new]
  <2>1. \A r \in Cells : [r EXCEPT !.next = l] \in Cells
    BY <1>1 DEF Cells
  <2>2. b.cell \in [Leaves -> Cells] /\ b.cell[b.cur] \in Cells
    BY <1>2 DEF Bags
  <2>3. new \in Cells
    BY <2>1, <2>2
  <2>4. zeroed \in [Leaves -> Cells]
    BY <2>2, <1>4
  <2>5. cells \in [Leaves -> Cells]
    <3> HIDE DEF new, zeroed
    <3>1. QED
      BY <2>3, <2>4
  <2>6. g = [b EXCEPT !.live = b.live \cup {l}, !.cur = l, !.cell = cells]
    BY <1>1, <1>2, <1>3, <1>5, <2>2
  <2> HIDE DEF cells
  <2>7. QED
    BY <1>1, <2>5, <2>6 DEF Bags
<1>8. /\ dh \in Seq(Leaves) /\ Len(dh) = n + 1 /\ dh[n + 1] = l
      /\ \A j \in 1..n : dh[j] = ch[j]
      /\ \A j \in 1..n : ch[j] # l /\ ch[j] \in Leaves /\ (ch[j] = b.cur => j = n)
  BY <1>1, <1>2 DEF Filled, Chained
<1> HIDE DEF dh
<1>9. Chained(g, dh)
  <2>1. Len(dh) = Cardinality(g.live) + 1
    <3>1. Cardinality(b.live \cup {l}) = Cardinality(b.live) + 1
      BY <1>1, <1>2, FS_AddElement
    <3>2. QED
      BY <1>2, <1>6, <1>8, <3>1
  <2>2. dh[1] = Root
    BY <1>2, <1>8 DEF Filled, Chained
  <2>3. ToSet(dh) = g.live \cup {Root}
    <3>1. ToSet(dh) = {dh[j] : j \in 1..n + 1} /\ ToSet(ch) = {ch[j] : j \in 1..n}
      BY <1>2, <1>8 DEF ToSet
    <3>2. {dh[j] : j \in 1..n + 1} = {ch[j] : j \in 1..n} \cup {l}
      BY <1>2, <1>8
    <3>3. QED
      BY <1>6, <3>1, <3>2 DEF Filled, Chained
  <2>4. \A i, j \in 1..Len(dh) : dh[i] = dh[j] => i = j
    <3>1. \A i, j \in 1..n : ch[i] = ch[j] => i = j
      BY DEF Filled, Chained
    <3>2. \A i \in 1..n + 1 : i \in 1..n \/ i = n + 1
      BY <1>2
    <3>3. QED
      BY <1>8, <3>1, <3>2
  <2>5. \A i \in 1..Len(dh) - 1 : g.cell[dh[i]].next = dh[i + 1]
    <3> SUFFICES ASSUME NEW i \in 1..n PROVE g.cell[dh[i]].next = dh[i + 1]
      BY <1>2, <1>8
    <3>1. g.cell[ch[i]].next = IF ch[i] = b.cur THEN l ELSE b.cell[ch[i]].next
      BY <1>6, <1>8
    <3>2. CASE i = n
      BY <1>2, <1>8, <3>1, <3>2
    <3>3. CASE i # n
      <4>1. i \in 1..n - 1 /\ i + 1 \in 1..n
        BY <1>2, <3>3
      <4>2. b.cell[ch[i]].next = ch[i + 1]
        BY <4>1 DEF Filled, Chained
      <4>3. QED
        BY <1>8, <3>1, <3>3, <4>1, <4>2
    <3>4. QED
      BY <3>2, <3>3
  <2>6. g.cell[dh[Len(dh)]].next = NULL
    BY <1>4, <1>6, <1>8
  <2>7. QED
    BY <1>8, <2>1, <2>2, <2>3, <2>4, <2>5, <2>6 DEF Chained
<1>10. Filled(g, dh)
  <2>1. \A i \in 1..Len(dh) - 1 : g.cell[dh[i]].index = CB_LEAF_SIZE
    <3> SUFFICES ASSUME NEW i \in 1..n PROVE g.cell[dh[i]].index = CB_LEAF_SIZE
      BY <1>2, <1>8
    <3>1. g.cell[dh[i]].index = b.cell[ch[i]].index
      BY <1>6, <1>8
    <3>2. CASE i = n
      <4>1. b.cell[b.cur].index >= CB_LEAF_SIZE /\ b.cell[b.cur].index \in Nat
        BY <1>2 DEF Full, Bags, Cells
      <4>2. b.cell[ch[n]].index <= CB_LEAF_SIZE
        BY <1>2 DEF Filled, Readable
      <4>3. QED
        BY <1>2, <3>1, <3>2, <4>1, <4>2
    <3>3. CASE i # n
      BY <1>2, <3>1, <3>3 DEF Filled
    <3>4. QED
      BY <3>2, <3>3
  <2>2. ASSUME NEW x \in g.live \cup {Root} PROVE Readable(g, x)
    <3>1. CASE x = l
      BY <1>2, <1>4, <1>6, <3>1 DEF Readable
    <3>2. CASE x # l
      <4>1. x \in b.live \cup {Root} /\ x \in Leaves
        BY <1>6, <3>2 DEF Bags, Leaves
      <4>2. Readable(b, x)
        BY <4>1 DEF Filled
      <4>3. QED
        BY <1>6, <3>2, <4>1, <4>2 DEF Readable
    <3>3. QED
      BY <3>1, <3>2
  <2>3. g.cur = dh[Len(dh)]
    BY <1>6, <1>8
  <2>4. QED
    BY <1>9, <2>1, <2>2, <2>3 DEF Filled
<1>11. Copied(g) = Copied(b)
  <2>1. \A j \in 1..n : Piece(b, ch, j) = Piece(g, dh, j)
    BY <1>6, <1>8 DEF Piece
  <2>2. n \in 0..Len(ch) /\ n <= Len(dh)
    BY <1>2, <1>8
  <2>3. Text(b, ch, n) = Text(g, dh, n)
    BY <1>7, <1>10, <2>1, <2>2, SameText
  <2>4. n + 1 \in 1..Len(dh) /\ (n + 1) - 1 = n
    BY <1>2, <1>8
  <2>5. Text(g, dh, n + 1) = Text(g, dh, n) \o Piece(g, dh, n + 1)
    BY <1>7, <1>10, <2>4, TextSteps
  <2>6. Piece(g, dh, n + 1) \in Seq(Chars) /\ Len(Piece(g, dh, n + 1)) = 0
    <3>1. g.cell[dh[n + 1]].index = 0
      BY <1>4, <1>6, <1>8
    <3>2. /\ Piece(g, dh, n + 1) \in Seq(Chars)
          /\ Len(Piece(g, dh, n + 1)) = g.cell[dh[n + 1]].index
      BY <1>7, <1>10, <2>4, PieceProperties
    <3>3. QED
      BY <3>1, <3>2
  <2>7. Text(b, ch, n) \in Seq(Chars)
    BY <2>2, TextTypes
  <2>8. \A t, u \in Seq(Chars) : Len(u) = 0 => t \o u = t
    OBVIOUS
  <2>9. Text(g, dh, n + 1) = Text(b, ch, n)
    BY <2>3, <2>5, <2>6, <2>7, <2>8
  <2>10. QED
    BY <1>7, <1>8, <1>10, <2>9, CopiedIs
<1>12. QED
  <2>1. \A x \in Leaves : g.cell[x].index = IF x = l THEN 0 ELSE b.cell[x].index
    BY <1>4, <1>6
  <2>2. QED
    BY <1>1, <1>6, <1>7, <1>10, <1>11, <2>1 DEF g, dh

\* A bag that is being filled: whole, without a fault and without a leaf that
\* holds nothing.
InUse(b) ==
  /\ b \in Bags /\ ~b.fault /\ \A l \in b.live : b.cell[l].index > 0
  /\ \E ch : Filled(b, ch)

\* A full leaf is where StringText says it is.
LEMMA FullLeaf ==
  ASSUME NEW b \in Bags, NEW ch, Filled(b, ch), Full(b, b.cur)
  PROVE  LeafFull(Copied(b))
<1> DEFINE n == Len(ch)
<1>1. n \in Nat /\ n >= 1 /\ n \in 1..n /\ n \in 0..n /\ n - 1 \in 0..n - 1
  <2>1. IsFiniteSet(b.live)
    BY FS_Subset, LeafAssumption DEF Bags
  <2>2. n \in Nat /\ n >= 1
    BY <2>1, FS_CardinalityType DEF Filled, Chained
  <2>3. QED
    BY <2>2
<1>2. b.cell[ch[n]].index = CB_LEAF_SIZE
  <2>1. b.cur = ch[n]
    BY DEF Filled
  <2>2. b.cell[ch[n]].index \in 0..CB_LEAF_SIZE
    BY <1>1, PieceProperties
  <2>3. QED
    BY <2>1, <2>2, TextAssumption DEF Full
<1>3. Count(b, ch, n - 1) = (n - 1) * CB_LEAF_SIZE
  BY <1>1, FullCount
<1>4. Count(b, ch, n) = (n - 1) * CB_LEAF_SIZE + CB_LEAF_SIZE
  BY <1>1, <1>2, <1>3, TextSteps
<1>5. Len(Copied(b)) = n * CB_LEAF_SIZE /\ Copied(b) \in Seq(Chars)
  <2>1. Copied(b) \in Seq(Chars) /\ Len(Copied(b)) = Count(b, ch, n)
    BY <1>1, TextTypes, CopiedIs
  <2>2. (n - 1) * CB_LEAF_SIZE + CB_LEAF_SIZE = n * CB_LEAF_SIZE
    BY <1>1, TextAssumption
  <2>3. QED
    BY <1>4, <2>1, <2>2
<1>6. n * CB_LEAF_SIZE > 0 /\ (n * CB_LEAF_SIZE) % CB_LEAF_SIZE = 0
  BY <1>1, TextAssumption
<1>7. Copied(b) # <<>>
  BY <1>5, <1>6
<1>8. QED
  BY <1>5, <1>6, <1>7 DEF LeafFull

\* add_char_to_bag keeps the bag in use, and adds the character to its text or,
\* where a leaf is wanted, nothing.
LEMMA AddChar ==
  ASSUME NEW b, InUse(b), NEW c \in Alphabet, NEW r \in add_char_to_bag(b, c)
  PROVE  /\ InUse(r.bag) /\ Copied(r.bag) \in Added(Copied(b), c)
         /\ r.ok => Copied(r.bag) = Append(Copied(b), c)
<1>1. PICK ch : Filled(b, ch)
  BY DEF InUse
<1>2. b \in Bags /\ ~b.fault
  BY DEF InUse
<1>3. CASE ~Full(b, b.cur)
  <2>1. r = [bag |-> Store(b, b.cur, c), ok |-> TRUE]
    BY <1>3 DEF add_char_to_bag
  <2> DEFINE d == Store(b, b.cur, c)
  <2>2. /\ d \in Bags /\ Filled(d, ch) /\ d.live = b.live /\ d.fault = b.fault
        /\ \A l \in Leaves : d.cell[l].index
             = IF l = b.cur THEN b.cell[l].index + 1 ELSE b.cell[l].index
        /\ Copied(d) = Append(Copied(b), c)
    BY <1>1, <1>2, <1>3, StoreFits
  <2> HIDE DEF d
  <2>3. ASSUME NEW l \in b.live PROVE d.cell[l].index > 0
    <3>1. l \in Leaves /\ b.cell[l].index \in Nat /\ b.cell[l].index > 0
      BY <1>2 DEF InUse, Bags, Cells, Leaves
    <3>2. QED
      BY <2>2, <3>1
  <2>4. InUse(d)
    BY <1>2, <2>2, <2>3 DEF InUse
  <2>5. QED
    BY <2>1, <2>2, <2>4 DEF Added, d
<1>4. CASE Full(b, b.cur) /\ Leaf \ b.live # {} /\ r = [bag |-> Store(Grow(b), Grow(b).cur, c), ok |-> TRUE]
  <2> DEFINE g == Grow(b)
             dh == Append(ch, g.cur)
             d == Store(g, g.cur, c)
  <2>1. /\ g \in Bags /\ Filled(g, dh) /\ g.cur \in Leaf \ b.live
        /\ g.live = b.live \cup {g.cur} /\ g.fault = b.fault
        /\ \A l \in Leaves : g.cell[l].index = IF l = g.cur THEN 0 ELSE b.cell[l].index
        /\ Copied(g) = Copied(b)
    BY <1>1, <1>2, <1>4, GrowFits
  <2>2. ~Full(g, g.cur)
    BY <2>1, TextAssumption DEF Full, Leaves
  <2> HIDE DEF g, dh
  <2>3. /\ d \in Bags /\ Filled(d, dh) /\ d.live = g.live /\ d.fault = g.fault
        /\ \A l \in Leaves : d.cell[l].index
             = IF l = g.cur THEN g.cell[l].index + 1 ELSE g.cell[l].index
        /\ Copied(d) = Append(Copied(g), c)
    BY <2>1, <2>2, StoreFits
  <2> HIDE DEF d
  <2>4. ASSUME NEW l \in d.live PROVE d.cell[l].index > 0
    <3>1. l \in Leaves
      BY <2>3 DEF Bags, Leaves
    <3>2. CASE l = g.cur
      BY <2>1, <2>3, <3>1, <3>2
    <3>3. CASE l # g.cur
      BY <2>1, <2>3, <3>1, <3>3 DEF InUse
    <3>4. QED
      BY <3>2, <3>3
  <2>5. InUse(d)
    BY <1>2, <2>1, <2>3, <2>4 DEF InUse
  <2>6. r.bag = d
    BY <1>4 DEF d, g
  <2>7. QED
    BY <2>1, <2>3, <2>5, <2>6 DEF Added
<1>5. CASE Full(b, b.cur) /\ MallocMayFail /\ r = [bag |-> [b EXCEPT !.cell[b.cur].next = NULL], ok |-> FALSE]
  <2>1. [b EXCEPT !.cell[b.cur].next = NULL] = b
    <3>1. b.cell[b.cur].next = NULL /\ b.cur \in Leaves
      BY <1>1, <1>2 DEF Filled, Chained, Bags
    <3>2. b.cell \in [Leaves -> Cells] /\ b.cell[b.cur] \in Cells
      BY <1>2, <3>1 DEF Bags
    <3>3. \A x \in Cells : x.next = NULL => [x EXCEPT !.next = NULL] = x
      BY DEF Cells
    <3>4. [b.cell[b.cur] EXCEPT !.next = NULL] = b.cell[b.cur]
      BY <3>1, <3>2, <3>3
    <3>5. [b.cell EXCEPT ![b.cur] = b.cell[b.cur]] = b.cell
      BY <3>2
    <3>6. [b EXCEPT !.cell = b.cell] = b
      BY <1>2 DEF Bags
    <3>7. QED
      BY <3>4, <3>5, <3>6
  <2>2. r.bag = b
    BY <1>5, <2>1
  <2>3. ~r.ok
    BY <1>5
  <2>4. QED
    BY <1>1, <1>2, <1>5, <2>2, <2>3, FullLeaf DEF Added
<1>6. QED
  BY <1>3, <1>4, <1>5 DEF add_char_to_bag

\* Both passes of char_bag_to_string agree.
LEMMA CopiesSafely == ASSUME NEW b, InUse(b) PROVE CopySafe(b)
<1>1. PICK ch : Filled(b, ch)
  BY DEF InUse
<1>2. b \in Bags
  BY DEF InUse
<1>3. ChainOf(b) = ch
  BY <1>1, <1>2, ChainIs DEF Filled
<1>4. b.cell[Last(ch)].next = NULL
  BY <1>1 DEF Filled, Chained, Last
<1>5. \A l \in b.live \cup {Root} : b.cell[l].index <= CB_LEAF_SIZE
  BY <1>1 DEF Filled, Readable
<1>6. Len(ch) \in 0..Len(ch)
  BY <1>1 DEF Filled, Chained
<1>7. Len(Copied(b)) = CharCount(b)
  BY <1>1, <1>2, <1>6, TextTypes, CopiedIs
<1>8. QED
  BY <1>3, <1>4, <1>5, <1>7 DEF CopySafe

LEMMA CopiesText ==
  ASSUME NEW b, InUse(b), NEW r \in char_bag_to_string(b)
  PROVE  /\ r.bag = b /\ r.ok \in BOOLEAN
         /\ r.ok => r.text = Copied(b)
         /\ ~r.ok => MallocMayFail
<1>1. CopySafe(b)
  BY CopiesSafely
<1>2. \/ r = [bag |-> b, ok |-> TRUE, text |-> Copied(b)]
      \/ MallocMayFail /\ r = [bag |-> b, ok |-> FALSE, text |-> <<>>]
  BY <1>1 DEF char_bag_to_string
<1>3. CASE r = [bag |-> b, ok |-> TRUE, text |-> Copied(b)]
  <2>1. r.bag = b /\ r.ok = TRUE /\ r.text = Copied(b)
    BY <1>3
  <2>2. QED
    BY <2>1
<1>4. CASE MallocMayFail /\ r = [bag |-> b, ok |-> FALSE, text |-> <<>>]
  <2>1. r.bag = b /\ r.ok = FALSE
    BY <1>4
  <2>2. QED
    BY <1>4, <2>1
<1>5. QED
  BY <1>2, <1>3, <1>4

LEMMA FreshBag == InUse(initialize_CharBag) /\ Copied(initialize_CharBag) = <<>>
<1> DEFINE b == initialize_CharBag
<1>1. b \in Bags /\ b.live = {} /\ b.cur = Root /\ b.fault = FALSE /\ b.cell[Root] = ZeroLeaf
  BY TextAssumption, LeafAssumption
     DEF initialize_CharBag, Bags, Cells, ZeroLeaf, Garbage, Leaves, Chars
<1>2. ZeroLeaf.index = 0 /\ ZeroLeaf.next = NULL /\ ZeroLeaf.buff \in [1..CB_LEAF_SIZE -> Chars]
  BY DEF ZeroLeaf, Chars
<1> HIDE DEF b
<1>3. Chained(b, <<Root>>)
  <2>1. Cardinality(b.live) = 0
    BY <1>1, FS_EmptySet
  <2>2. <<Root>> \in Seq(Leaves) /\ Len(<<Root>>) = 1 /\ <<Root>>[1] = Root
    BY DEF Leaves
  <2>3. ToSet(<<Root>>) = {Root}
    BY DEF ToSet
  <2>4. QED
    BY <1>1, <1>2, <2>1, <2>2, <2>3 DEF Chained
<1>4. Filled(b, <<Root>>)
  BY <1>1, <1>2, <1>3, TextAssumption DEF Filled, Readable
<1>5. InUse(b)
  BY <1>1, <1>4 DEF InUse
<1>6. Copied(b) = <<>>
  <2> DEFINE ch == <<Root>>
  <2>1. Len(ch) = 1 /\ ch[1] = Root /\ 1 \in 1..1 /\ 1 - 1 = 0
    OBVIOUS
  <2>2. Filled(b, ch)
    BY <1>4
  <2> HIDE DEF ch
  <2>3. Copied(b) = Text(b, ch, 1)
    BY <1>1, <2>1, <2>2, CopiedIs
  <2>4. Text(b, ch, 0) = <<>> /\ Text(b, ch, 1) = Text(b, ch, 0) \o Piece(b, ch, 1)
    BY <1>1, <2>1, <2>2, TextSteps
  <2>5. Piece(b, ch, 1) \in Seq(Chars) /\ Len(Piece(b, ch, 1)) = b.cell[ch[1]].index
    BY <1>1, <2>1, <2>2, PieceProperties
  <2>6. \A u \in Seq(Chars) : Len(u) = 0 => <<>> \o u = <<>>
    OBVIOUS
  <2>7. QED
    BY <1>1, <1>2, <2>1, <2>3, <2>4, <2>5, <2>6
<1>7. QED
  BY <1>5, <1>6 DEF b

\* A bag on its way to being empty, and one that is.
Loose(b, ch) == b \in Bags /\ ~b.fault /\ Chained(b, ch) /\ Readable(b, Root)
Emptied(b) ==
  b \in Bags /\ ~b.fault /\ b.live = {} /\ b.cell[Root].next = NULL /\ Readable(b, Root)

LEMMA FreeFirstType == ASSUME NEW b \in Bags PROVE FreeFirst(b) \in Bags
<1> DEFINE l == b.cell[Root].next
           first == [b.cell[Root] EXCEPT !.next = b.cell[l].next]
           cells == [[b.cell EXCEPT ![l] = Garbage] EXCEPT ![Root] = first]
<1>1. CASE l \in b.live
  <2>1. l \in Leaf /\ l \in Leaves /\ Root \in Leaves /\ l # Root /\ l # NULL
    BY <1>1, LeafAssumption DEF Bags, Leaves
  <2>2. b.cell \in [Leaves -> Cells] /\ b.cell[Root] \in Cells /\ b.cell[l] \in Cells
    BY <2>1 DEF Bags
  <2>3. Garbage \in Cells
    BY TextAssumption DEF Garbage, Cells, Leaves
  <2>4. \A r, s \in Cells : [r EXCEPT !.next = s.next] \in Cells
    BY DEF Cells
  <2>5. first \in Cells
    BY <2>2, <2>4
  <2> HIDE DEF first
  <2>6. cells \in [Leaves -> Cells]
    BY <2>2, <2>3, <2>5
  <2>7. FreeFirst(b) = [b EXCEPT !.live = b.live \ {l}, !.cell = cells]
    <3> USE DEF first
    <3>1. [[b.cell EXCEPT ![l] = Garbage] EXCEPT ![Root].next = b.cell[l].next] = cells
      BY <2>1, <2>2
    <3>2. QED
      BY <1>1, <2>1, <3>1 DEF FreeFirst
  <2> HIDE DEF cells, l
  <2>8. QED
    BY <2>6, <2>7 DEF Bags
<1>2. CASE l \notin b.live
  BY <1>2 DEF FreeFirst, Bags
<1>3. QED
  BY <1>1, <1>2

LEMMA FreeFirstLoose ==
  ASSUME NEW b, NEW ch, Loose(b, ch)
  PROVE  /\ Len(ch) \in Nat /\ Len(ch) >= 1
         /\ Len(ch) = 1 => Emptied(b) /\ FreeFirst(b) = b
         /\ Len(ch) > 1 => \E dh : Loose(FreeFirst(b), dh) /\ Len(dh) = Len(ch) - 1
<1> DEFINE n == Len(ch)
           l == b.cell[Root].next
           f == FreeFirst(b)
<1>1. /\ n \in Nat /\ n >= 1 /\ n = Cardinality(b.live) + 1 /\ IsFiniteSet(b.live)
      /\ b.live \subseteq Leaf /\ ch \in Seq(Leaves) /\ ch[1] = Root /\ b \in Bags
      /\ \A j \in 1..n : ch[j] \in b.live \cup {Root} /\ ch[j] \in Leaves
      /\ \A i, j \in 1..n : ch[i] = ch[j] => i = j
      /\ \A j \in 1..n - 1 : b.cell[ch[j]].next = ch[j + 1]
      /\ b.cell[ch[n]].next = NULL
  <2>1. IsFiniteSet(b.live) /\ b.live \subseteq Leaf
    BY FS_Subset, LeafAssumption DEF Loose, Bags
  <2>2. n \in Nat /\ n >= 1 /\ n = Cardinality(b.live) + 1
    BY <2>1, FS_CardinalityType DEF Loose, Chained
  <2>3. \A j \in 1..n : ch[j] \in b.live \cup {Root}
    BY DEF Loose, Chained, ToSet
  <2>4. QED
    BY <2>1, <2>2, <2>3 DEF Loose, Chained
<1>2. Root \notin b.live
  BY <1>1, LeafAssumption
<1>3. ASSUME n = 1 PROVE Emptied(b) /\ FreeFirst(b) = b
  <2>1. b.live = {}
    <3>1. Cardinality(b.live) \in Nat
      BY <1>1, FS_CardinalityType
    <3>2. Cardinality(b.live) = 0
      <4>1. \A c \in Nat : 1 = c + 1 => c = 0
        OBVIOUS
      <4>2. QED
        BY <1>1, <1>3, <3>1, <4>1
    <3>3. QED
      BY <1>1, <3>2, FS_EmptySet
  <2>2. b.cell[Root].next = NULL
    BY <1>1, <1>3
  <2>3. QED
    BY <2>1, <2>2 DEF Loose, Emptied, FreeFirst
<1>4. ASSUME n > 1 PROVE \E dh : Loose(f, dh) /\ Len(dh) = n - 1
  <2> DEFINE dh == [i \in 1..n - 1 |-> IF i = 1 THEN Root ELSE ch[i + 1]]
  <2>1. 1 \in 1..n - 1 /\ 2 \in 1..n /\ 1 + 1 = 2
    BY <1>1, <1>4
  <2>2. l = ch[2]
    BY <1>1, <2>1
  <2>3. l \in b.live /\ l # Root /\ l # NULL /\ l \in Leaf /\ l \in Leaves
    <3>1. ch[2] # ch[1]
      BY <1>1, <2>1
    <3>2. QED
      BY <1>1, <2>1, <2>2, <3>1, LeafAssumption
  <2>4. f = [b EXCEPT !.live = b.live \ {l},
                      !.cell = [[b.cell EXCEPT ![l] = Garbage] EXCEPT ![Root].next = b.cell[l].next]]
    BY <2>3 DEF FreeFirst
  <2> HIDE DEF l, f
  <2>5. /\ f.live = b.live \ {l} /\ f.fault = b.fault
        /\ \A x \in Leaves : x # l /\ x # Root => f.cell[x] = b.cell[x]
        /\ f.cell[Root].next = b.cell[l].next
        /\ f.cell[Root].index = b.cell[Root].index /\ f.cell[Root].buff = b.cell[Root].buff
    BY <1>1, <2>3, <2>4 DEF Bags, Cells, Leaves
  <2>6. f \in Bags
    BY <1>1, FreeFirstType DEF f
  <2>7. dh \in Seq(Leaves) /\ Len(dh) = n - 1 /\ dh[1] = Root
    BY <1>1, <2>1 DEF Leaves
  <2>8. \A i \in 2..n - 1 : dh[i] = ch[i + 1] /\ i + 1 \in 1..n
    BY <1>1
  <2>9. \A i \in 2..n - 1 : dh[i] \in b.live \ {l} /\ dh[i] # Root /\ dh[i] \in Leaves
    <3> SUFFICES ASSUME NEW i \in 2..n - 1
                 PROVE  dh[i] \in b.live \ {l} /\ dh[i] # Root /\ dh[i] \in Leaves
      OBVIOUS
    <3>1. i + 1 \in 1..n /\ i + 1 # 1 /\ i + 1 # 2
      BY <1>1
    <3>2. ch[i + 1] # ch[1] /\ ch[i + 1] # ch[2]
      BY <1>1, <2>1, <3>1
    <3>3. QED
      BY <1>1, <2>2, <2>8, <3>1, <3>2
  <2> HIDE DEF dh
  <2>10. Chained(f, dh)
    <3>1. Len(dh) = Cardinality(f.live) + 1
      <4>1. Cardinality(b.live \ {l}) = Cardinality(b.live) - 1
        BY <1>1, <2>3, FS_RemoveElement
      <4>2. Cardinality(b.live) \in Nat
        BY <1>1, FS_CardinalityType
      <4>3. QED
        BY <1>1, <2>5, <2>7, <4>1, <4>2
    <3>2. ToSet(dh) = f.live \cup {Root}
      <4>1. ToSet(dh) = {dh[i] : i \in 1..n - 1}
        BY <2>7 DEF ToSet
      <4>2. \A x \in f.live : \E i \in 2..n - 1 : dh[i] = x
        <5> SUFFICES ASSUME NEW x \in f.live PROVE \E i \in 2..n - 1 : dh[i] = x
          OBVIOUS
        <5>1. x \in b.live /\ x # l /\ x # Root
          BY <1>2, <2>5
        <5>2. PICK j \in 1..n : ch[j] = x
          BY <1>1, <5>1 DEF Loose, Chained, ToSet
        <5>3. j # 1 /\ j # 2
          BY <1>1, <2>2, <5>1, <5>2
        <5>4. j - 1 \in 2..n - 1 /\ (j - 1) + 1 = j
          BY <1>1, <5>3
        <5>5. QED
          BY <2>8, <5>2, <5>4
      <4>3. \A i \in 1..n - 1 : i = 1 \/ i \in 2..n - 1
        BY <1>1
      <4>4. \A i \in 1..n - 1 : dh[i] \in f.live \cup {Root}
        BY <2>5, <2>7, <2>9, <4>3
      <4>5. \A i \in 2..n - 1 : i \in 1..n - 1
        BY <1>1
      <4>6. QED
        BY <2>1, <2>7, <4>1, <4>2, <4>4, <4>5
    <3>3. \A i, j \in 1..n - 1 : dh[i] = dh[j] => i = j
      <4> SUFFICES ASSUME NEW i \in 1..n - 1, NEW j \in 1..n - 1, dh[i] = dh[j] PROVE i = j
        OBVIOUS
      <4>1. (i = 1 \/ i \in 2..n - 1) /\ (j = 1 \/ j \in 2..n - 1)
        BY <1>1
      <4>2. CASE i \in 2..n - 1 /\ j \in 2..n - 1
        <5>1. ch[i + 1] = ch[j + 1] /\ i + 1 \in 1..n /\ j + 1 \in 1..n
          BY <2>8, <4>2
        <5>2. i + 1 = j + 1
          BY <1>1, <5>1
        <5>3. QED
          BY <1>1, <5>2
      <4>3. QED
        BY <2>7, <2>9, <4>1, <4>2
    <3>4. \A i \in 1..n - 2 : f.cell[dh[i]].next = dh[i + 1]
      <4> SUFFICES ASSUME NEW i \in 1..n - 2 PROVE f.cell[dh[i]].next = dh[i + 1]
        OBVIOUS
      <4>1. i + 1 \in 2..n - 1 /\ dh[i + 1] = ch[(i + 1) + 1] /\ i + 1 \in 1..n - 1
        BY <1>1, <2>8
      <4>2. b.cell[ch[i + 1]].next = ch[(i + 1) + 1]
        BY <1>1, <4>1
      <4>3. CASE i = 1
        BY <2>1, <2>2, <2>5, <2>7, <4>1, <4>2, <4>3
      <4>4. CASE i # 1
        <5>1. i \in 2..n - 1
          BY <1>1, <4>4
        <5>2. f.cell[dh[i]] = b.cell[ch[i + 1]]
          BY <2>5, <2>8, <2>9, <5>1
        <5>3. QED
          BY <4>1, <4>2, <5>2
      <4>5. QED
        BY <4>3, <4>4
    <3>5. f.cell[dh[n - 1]].next = NULL
      <4>1. CASE n = 2
        <5>1. dh[n - 1] = Root /\ l = ch[n]
          BY <2>2, <2>7, <4>1
        <5>2. QED
          BY <1>1, <2>5, <5>1
      <4>2. CASE n # 2
        <5>1. n - 1 \in 2..n - 1 /\ (n - 1) + 1 = n
          BY <1>1, <1>4, <4>2
        <5>2. f.cell[dh[n - 1]] = b.cell[ch[n]]
          BY <2>5, <2>8, <2>9, <5>1
        <5>3. QED
          BY <1>1, <5>2
      <4>3. QED
        BY <4>1, <4>2
    <3>6. (n - 1) - 1 = n - 2
      BY <1>1
    <3>7. QED
      BY <2>7, <3>1, <3>2, <3>3, <3>4, <3>5, <3>6 DEF Chained
  <2>11. Loose(f, dh)
    BY <2>5, <2>6, <2>10 DEF Loose, Readable
  <2>12. QED
    BY <2>7, <2>11
<1>5. QED
  BY <1>1, <1>3, <1>4

IsCleanup(g, b) ==
  g = [k \in 0..Cardinality(Leaf) + 1 |-> IF k = 0 THEN b ELSE FreeFirst(g[k - 1])]

\* char_bag_cleanup frees every leaf once and then stops.
LEMMA CleanupEmpties ==
  ASSUME NEW b, NEW ch, Loose(b, ch)
  PROVE  Emptied(char_bag_cleanup(b))
<1> DEFINE N == Cardinality(Leaf) + 1
           n == Len(ch)
           g == CHOOSE x : IsCleanup(x, b)
           Left(k) == \E dh : Loose(g[k], dh) /\ (Len(dh) = 1 \/ Len(dh) + k = n)
           T == {k \in 0..N : ~Left(k)}
<1>1. N \in Nat /\ n \in Nat /\ n <= N /\ b \in Bags
  <2>1. IsFiniteSet(b.live) /\ Cardinality(b.live) <= Cardinality(Leaf) /\ b \in Bags
    BY FS_Subset, LeafAssumption DEF Loose, Bags
  <2>2. QED
    BY <2>1, FS_CardinalityType, LeafAssumption DEF Loose, Chained
<1>2. IsCleanup(g, b)
  <2> DEFINE F == [x \in Bags |-> FreeFirst(x)]
  <2>1. F \in [Bags -> Bags]
    BY FreeFirstType
  <2>2. PICK h \in [0..N -> Bags] : \A k \in 0..N : h[k] = IF k = 0 THEN b ELSE F[h[k - 1]]
    <3> HIDE DEF N, F
    <3>1. HasIterates(N, Bags, b, F)
      BY <1>1, <2>1, Recursion
    <3>2. QED
      BY <3>1 DEF HasIterates
  <2>3. \A k \in 0..N : h[k] = IF k = 0 THEN b ELSE FreeFirst(h[k - 1])
    <3> SUFFICES ASSUME NEW k \in 0..N, k # 0 PROVE h[k] = FreeFirst(h[k - 1])
      BY <2>2
    <3>1. k - 1 \in 0..N
      BY <1>1
    <3>2. h[k - 1] \in Bags
      BY <3>1
    <3>3. QED
      BY <2>2, <3>2
  <2> HIDE DEF F
  <2>4. IsCleanup(h, b)
    BY <2>3 DEF IsCleanup
  <2>5. QED
    BY <2>4
<1> HIDE DEF g
<1>3. \A k \in 0..N : g[k] = IF k = 0 THEN b ELSE FreeFirst(g[k - 1])
  BY <1>2 DEF IsCleanup
<1>4. Left(0)
  <2>1. g[0] = b /\ n + 0 = n
    BY <1>1, <1>3
  <2>2. QED
    BY <2>1
<1>5. ASSUME NEW k \in 0..N, k + 1 \in 0..N, Left(k) PROVE Left(k + 1)
  <2>1. PICK dh : Loose(g[k], dh) /\ (Len(dh) = 1 \/ Len(dh) + k = n)
    BY <1>5
  <2>2. g[k + 1] = FreeFirst(g[k])
    BY <1>1, <1>3, <1>5
  <2>3. Len(dh) \in Nat /\ Len(dh) >= 1
    BY <2>1, FreeFirstLoose
  <2>4. CASE Len(dh) = 1
    <3>1. FreeFirst(g[k]) = g[k]
      BY <2>1, <2>4, FreeFirstLoose
    <3>2. QED
      BY <2>1, <2>2, <2>4, <3>1
  <2>5. CASE Len(dh) > 1
    <3>1. PICK eh : Loose(FreeFirst(g[k]), eh) /\ Len(eh) = Len(dh) - 1
      BY <2>1, <2>5, FreeFirstLoose
    <3>2. Len(eh) + (k + 1) = n
      BY <1>1, <2>1, <2>3, <2>5, <3>1
    <3>3. QED
      BY <2>2, <3>1, <3>2
  <2>6. Len(dh) = 1 \/ Len(dh) > 1
    <3>1. \A m \in Nat : m >= 1 => m = 1 \/ m > 1
      OBVIOUS
    <3>2. QED
      BY <2>3, <3>1
  <2> HIDE DEF Left
  <2>7. QED
    BY <2>4, <2>5, <2>6
<1>6. T = {}
  <2> SUFFICES ASSUME T # {} PROVE FALSE
    OBVIOUS
  <2>1. T \in SUBSET Nat
    BY <1>1
  <2>2. PICK m \in T : \A k \in T : m <= k
    <3> HIDE DEF T
    <3>1. QED
      BY <2>1, Least
  <2> HIDE DEF Left
  <2>3. m \in 0..N /\ ~Left(m) /\ \A k \in 0..N : k < m => Left(k)
    BY <2>2, <1>1
  <2>4. m # 0 /\ m - 1 \in 0..N /\ m - 1 < m /\ (m - 1) + 1 = m
    BY <2>3, <1>1, <1>4
  <2>5. QED
    BY <2>3, <2>4, <1>5
<1>7. Emptied(g[N])
  <2>1. N \in 0..N
    BY <1>1
  <2>2. Left(N)
    <3> HIDE DEF Left, N
    <3>1. QED
      BY <1>6, <2>1
  <2>3. PICK dh : Loose(g[N], dh) /\ (Len(dh) = 1 \/ Len(dh) + N = n)
    BY <2>2
  <2>4. Len(dh) \in Nat /\ Len(dh) >= 1
    BY <2>3, FreeFirstLoose
  <2>5. Len(dh) = 1
    BY <1>1, <2>3, <2>4
  <2>6. QED
    BY <2>3, <2>5, FreeFirstLoose
<1>8. char_bag_cleanup(b) = g[N]
  BY DEF char_bag_cleanup, IsCleanup, g
<1>9. QED
  BY <1>7, <1>8

LEMMA InUseEmpties == ASSUME NEW b, InUse(b) PROVE Emptied(char_bag_cleanup(b))
<1>1. PICK ch : Filled(b, ch)
  BY DEF InUse
<1>2. Loose(b, ch)
  BY <1>1 DEF InUse, Filled, Loose
<1>3. QED
  BY <1>2, CleanupEmpties

-----------------------------------------------------------------------------
(***************************************************************************)
(* The calls of JReadString.                                               *)
(***************************************************************************)
Handles == [first_char : Chars, string : Seq(Chars) \cup {NULL}, end_signal : Chars]

Shape ==
  /\ state \in {"idle", "reading", "returned"} /\ io \in {"open", "end", "error"}
  /\ retval \in BOOLEAN /\ escape \in BOOLEAN /\ refused \in BOOLEAN
  /\ raw \in Seq(Alphabet) /\ Len(raw) <= MaxRaw /\ handle \in Handles
  /\ escape => Escape \in Alphabet

\* The inductive invariant.
ReaderInv ==
  /\ Shape
  /\ state = "reading" => InUse(bag)
  /\ state # "reading" => Emptied(bag)

LEMMA FreshEmptied == Emptied(initialize_CharBag)
  BY FreshBag, TextAssumption
     DEF Emptied, InUse, initialize_CharBag, ZeroLeaf, Readable, Chars

LEMMA CopiedType == ASSUME NEW b, InUse(b) PROVE Copied(b) \in Seq(Chars)
<1>1. PICK ch : Filled(b, ch)
  BY DEF InUse
<1>2. Len(ch) \in 0..Len(ch) /\ b \in Bags
  BY <1>1 DEF InUse, Filled, Chained
<1>3. QED
  BY <1>1, <1>2, TextTypes, CopiedIs

LEMMA ReaderInvInit == Init => ReaderInv
<1> SUFFICES ASSUME Init PROVE ReaderInv
  OBVIOUS
<1>1. Emptied(bag)
  BY FreshEmptied DEF Init
<1>2. raw \in Seq(Alphabet) /\ Len(raw) <= MaxRaw
  BY ReaderAssumption DEF Init
<1>3. handle \in Handles
  BY DEF Init, EmptyHandle, Handles, Chars
<1>4. state = "idle" /\ io = "open" /\ retval = FALSE /\ escape = FALSE /\ refused = FALSE
  BY DEF Init
<1>5. QED
  BY <1>1, <1>2, <1>3, <1>4 DEF ReaderInv, Shape

LEMMA ReadTypes ==
  ASSUME Shape, NEW c, Read(c)
  PROVE  io' \in {"open", "end", "error"} /\ raw' \in Seq(Alphabet) /\ Len(raw') <= MaxRaw
  BY ReaderAssumption DEF Shape, Read

\* Every step that begins, continues or ends a call does one of these.
LEMMA CollectsInv ==
  ASSUME ReaderInv, Reading, NEW c, Read(c), Loop, InUse(bag'),
         escape' \in BOOLEAN, escape' => Escape \in Alphabet, refused' \in BOOLEAN
  PROVE  ReaderInv'
<1>1. io' \in {"open", "end", "error"} /\ raw' \in Seq(Alphabet) /\ Len(raw') <= MaxRaw
  BY ReadTypes DEF ReaderInv
<1>2. Shape'
  BY <1>1 DEF Shape, Loop, ReaderInv
<1>3. QED
  BY <1>2 DEF ReaderInv, Loop, Reading

LEMMA ReturnsInv ==
  ASSUME ReaderInv, Reading, NEW c, Read(c), NEW ok \in BOOLEAN, Return(ok, bag),
         handle' \in Handles, refused' \in BOOLEAN
  PROVE  ReaderInv'
<1>1. io' \in {"open", "end", "error"} /\ raw' \in Seq(Alphabet) /\ Len(raw') <= MaxRaw
  BY ReadTypes DEF ReaderInv
<1>2. Shape'
  BY <1>1 DEF Shape, Return, ReaderInv
<1>3. Emptied(bag')
  BY InUseEmpties DEF ReaderInv, Reading, Return
<1>4. QED
  BY <1>2, <1>3 DEF ReaderInv, Return

LEMMA HandsOver ==
  ASSUME ReaderInv, Reading, NEW r \in char_bag_to_string(bag), NEW end \in Chars,
         HandOver(r, end)
  PROVE  /\ Return(TRUE, bag) /\ handle' \in Handles /\ refused' = refused
         /\ handle'.string = Copied(bag) /\ handle'.end_signal = end
<1>1. InUse(bag)
  BY DEF ReaderInv, Reading
<1>2. r.bag = bag /\ r.text = Copied(bag)
  BY <1>1, CopiesText DEF HandOver
<1>3. Copied(bag) \in Seq(Chars)
  BY <1>1, CopiedType
<1>4. handle' = [handle EXCEPT !.string = Copied(bag), !.end_signal = end] /\ handle \in Handles
  BY <1>2 DEF HandOver, ReaderInv, Shape
<1>5. handle' \in Handles /\ handle'.string = Copied(bag) /\ handle'.end_signal = end
  BY <1>3, <1>4 DEF Handles
<1>6. QED
  BY <1>2, <1>5 DEF HandOver

LEMMA ReaderInvStep == ReaderInv /\ [Next]_vars => ReaderInv'
<1> SUFFICES ASSUME ReaderInv, [Next]_vars PROVE ReaderInv'
  OBVIOUS
<1>1. ASSUME NEW c \in Alphabet, Begin(c) PROVE ReaderInv'
  <2>1. InUse(bag') /\ refused' \in BOOLEAN
    <3>1. CASE c = Quote
      BY <1>1, <3>1, FreshBag DEF Begin
    <3>2. CASE c # Quote
      <4>1. PICK r \in add_char_to_bag(initialize_CharBag, c) : bag' = r.bag /\ refused' = ~r.ok
        BY <1>1, <3>2 DEF Begin
      <4>2. InUse(r.bag)
        BY FreshBag, AddChar
      <4>3. QED
        BY <4>1, <4>2
    <3>3. QED
      BY <3>1, <3>2
  <2>2. raw' \in Seq(Alphabet) /\ Len(raw') <= MaxRaw
    BY <1>1, ReaderAssumption DEF Begin
  <2>3. handle' \in Handles
    BY <1>1 DEF Begin, EmptyHandle, Handles, Chars
  <2>4. state' = "reading" /\ io' = "open" /\ escape' = FALSE /\ retval' = FALSE
    BY <1>1 DEF Begin
  <2>5. Shape'
    BY <2>1, <2>2, <2>3, <2>4 DEF Shape
  <2>6. QED
    BY <2>1, <2>4, <2>5 DEF ReaderInv
<1>2. ASSUME NEW c \in Alphabet \cup {EOF, ERR}, Reading,
             Escaped(c) \/ BeginEscape(c) \/ End(c) \/ Char(c) \/ NoMore(c)
      PROVE  ReaderInv'
  <2>1. InUse(bag)
    BY <1>2 DEF ReaderInv, Reading
  <2>2. CASE Escaped(c)
    <3>1. PICK r \in add_char_to_bag(bag, Escape) : \E r2 \in add_char_to_bag(r.bag, c) :
            bag' = r2.bag /\ refused' = (refused \/ ~r.ok \/ ~r2.ok)
      BY <2>2 DEF Escaped
    <3>2. PICK r2 \in add_char_to_bag(r.bag, c) :
            bag' = r2.bag /\ refused' = (refused \/ ~r.ok \/ ~r2.ok)
      BY <3>1
    <3>3. Escape \in Alphabet /\ c \in Alphabet
      BY <2>2 DEF Escaped, ReaderInv, Shape
    <3>4. InUse(r.bag)
      BY <2>1, <3>3, AddChar
    <3>5. InUse(bag')
      BY <3>2, <3>3, <3>4, AddChar
    <3>6. Read(c) /\ Loop /\ escape' = FALSE
      BY <2>2 DEF Escaped
    <3>7. refused' \in BOOLEAN
      BY <3>2
    <3>8. QED
      BY <1>2, <3>5, <3>6, <3>7, CollectsInv
  <2>3. CASE BeginEscape(c)
    <3>1. c = Escape /\ Read(c) /\ escape' = TRUE /\ Loop /\ bag' = bag /\ refused' = refused
      BY <2>3 DEF BeginEscape
    <3>2. Escape \in Alphabet
      BY <1>2, <3>1 DEF Escape, EOF, ERR
    <3>3. refused' \in BOOLEAN /\ escape' \in BOOLEAN
      BY <3>1 DEF ReaderInv, Shape
    <3>4. QED
      BY <1>2, <2>1, <3>1, <3>2, <3>3, CollectsInv
  <2>4. CASE End(c)
    <3>1. Read(c) /\ c \in Alphabet /\ c \in Chars
      BY <2>4 DEF End, Chars
    <3>2. PICK r \in char_bag_to_string(bag) :
            \/ HandOver(r, c)
            \/ NoString(r) /\ bag' = r.bag /\ UNCHANGED escape /\ Loop
      BY <2>4 DEF End
    <3>3. CASE HandOver(r, c)
      <4>1. Return(TRUE, bag) /\ handle' \in Handles /\ refused' = refused
        BY <1>2, <3>1, <3>3, HandsOver
      <4>2. refused' \in BOOLEAN
        BY <4>1 DEF ReaderInv, Shape
      <4>3. QED
        BY <1>2, <3>1, <4>1, <4>2, ReturnsInv
    <3>4. CASE NoString(r) /\ bag' = r.bag /\ UNCHANGED escape /\ Loop
      <4>1. bag' = bag /\ refused' = TRUE /\ escape' = escape /\ Loop
        BY <2>1, <3>4, CopiesText DEF NoString
      <4>2. escape' \in BOOLEAN /\ (escape' => Escape \in Alphabet)
        BY <4>1 DEF ReaderInv, Shape
      <4>3. QED
        BY <1>2, <2>1, <3>1, <4>1, <4>2, CollectsInv
    <3>5. QED
      BY <3>2, <3>3, <3>4
  <2>5. CASE Char(c)
    <3>1. PICK r \in add_char_to_bag(bag, c) : bag' = r.bag /\ refused' = (refused \/ ~r.ok)
      BY <2>5 DEF Char
    <3>2. c \in Alphabet /\ Read(c) /\ Loop /\ escape' = escape
      BY <2>5 DEF Char
    <3>3. InUse(bag')
      BY <2>1, <3>1, <3>2, AddChar
    <3>4. escape' \in BOOLEAN /\ (escape' => Escape \in Alphabet) /\ refused' \in BOOLEAN
      BY <3>1, <3>2 DEF ReaderInv, Shape
    <3>5. QED
      BY <1>2, <3>2, <3>3, <3>4, CollectsInv
  <2>6. CASE NoMore(c)
    <3>1. Read(c) /\ "NUL" \in Chars
      BY <2>6 DEF NoMore, Chars
    <3>2. refused \in BOOLEAN /\ handle \in Handles
      BY DEF ReaderInv, Shape
    <3>3. CASE handle.first_char = Quote
      <4>1. Return(FALSE, bag) /\ handle' = handle /\ refused' = refused
        BY <2>6, <3>3 DEF NoMore
      <4>2. QED
        BY <1>2, <3>1, <3>2, <4>1, ReturnsInv
    <3>4. CASE handle.first_char # Quote
      <4>1. PICK r \in char_bag_to_string(bag) :
              \/ HandOver(r, "NUL")
              \/ NoString(r) /\ Return(FALSE, r.bag) /\ UNCHANGED handle
        BY <2>6, <3>4 DEF NoMore
      <4>2. CASE HandOver(r, "NUL")
        <5>1. Return(TRUE, bag) /\ handle' \in Handles /\ refused' = refused
          BY <1>2, <3>1, <4>2, HandsOver
        <5>2. QED
          BY <1>2, <3>1, <3>2, <5>1, ReturnsInv
      <4>3. CASE NoString(r) /\ Return(FALSE, r.bag) /\ UNCHANGED handle
        <5>1. Return(FALSE, bag) /\ handle' = handle /\ refused' = TRUE
          BY <2>1, <4>3, CopiesText DEF NoString
        <5>2. QED
          BY <1>2, <3>1, <3>2, <5>1, ReturnsInv
      <4>4. QED
        BY <4>1, <4>2, <4>3
    <3>5. QED
      BY <3>3, <3>4
  <2>7. QED
    BY <1>2, <2>2, <2>3, <2>4, <2>5, <2>6
<1>3. CASE Dismiss
  <2>1. Emptied(bag')
    BY <1>3, FreshEmptied DEF Dismiss
  <2>2. raw' \in Seq(Alphabet) /\ Len(raw') <= MaxRaw
    BY <1>3, ReaderAssumption DEF Dismiss
  <2>3. handle' \in Handles
    BY <1>3 DEF Dismiss, EmptyHandle, Handles, Chars
  <2>4. state' = "idle" /\ io' = "open" /\ escape' = FALSE /\ retval' = FALSE /\ refused' = FALSE
    BY <1>3 DEF Dismiss
  <2>5. Shape'
    BY <2>2, <2>3, <2>4 DEF Shape
  <2>6. QED
    BY <2>1, <2>4, <2>5 DEF ReaderInv
<1>4. CASE UNCHANGED vars
  BY <1>4 DEF vars, ReaderInv, Shape
<1>5. Step => \E c \in Alphabet \cup {EOF, ERR} :
        Reading /\ (Escaped(c) \/ BeginEscape(c) \/ End(c) \/ Char(c) \/ NoMore(c))
  BY DEF Step, Escaped, BeginEscape, End, Char, NoMore
<1>6. QED
  BY <1>1, <1>2, <1>3, <1>4, <1>5 DEF Next

\* Whatever is read and whichever malloc fails, the bag of a running call is
\* whole, and no other call has one (JReadString.c:104-173).
THEOREM ReaderInvHolds == Spec => []ReaderInv
<1>1. Init => ReaderInv
  BY ReaderInvInit
<1>2. ReaderInv /\ [Next]_vars => ReaderInv'
  BY ReaderInvStep
<1>3. QED
  BY <1>1, <1>2, PTL DEF Spec

LEMMA InvTypeOK == ReaderInv => TypeOK
<1> SUFFICES ASSUME ReaderInv PROVE TypeOK
  OBVIOUS
<1>1. /\ bag.live \subseteq Leaf /\ bag.cur \in Leaf \cup {Root}
      /\ \A l \in bag.live \cup {Root} : bag.cell[l] \in Cells
  <2>1. bag \in Bags
    BY DEF ReaderInv, InUse, Emptied
  <2>2. QED
    BY <2>1 DEF Bags, Leaves
<1>2. \A l \in bag.live \cup {Root} : Readable(bag, l) /\ bag.cell[l].next \in bag.live \cup {NULL}
  <2>1. CASE state = "reading"
    <3>1. PICK ch : Filled(bag, ch)
      BY <2>1 DEF ReaderInv, InUse
    <3>2. Len(ch) \in Nat /\ ToSet(ch) = bag.live \cup {Root}
          /\ \A i \in 1..Len(ch) - 1 : bag.cell[ch[i]].next = ch[i + 1]
      BY <3>1 DEF Filled, Chained
    <3>3. ASSUME NEW l \in bag.live \cup {Root} PROVE bag.cell[l].next \in bag.live \cup {NULL}
      <4>1. PICK i \in 1..Len(ch) : ch[i] = l
        <5>1. DOMAIN ch = 1..Len(ch)
          BY <3>1 DEF Filled, Chained
        <5>2. l \in {ch[i] : i \in 1..Len(ch)}
          BY <3>2, <5>1 DEF ToSet
        <5>3. QED
          BY <5>2
      <4>2. CASE i = Len(ch)
        BY <3>1, <4>1, <4>2 DEF Filled, Chained
      <4>3. CASE i # Len(ch)
        <5>1. i \in 1..Len(ch) - 1 /\ i + 1 \in 1..Len(ch) /\ i + 1 # 1 /\ 1 \in 1..Len(ch)
          BY <3>2, <4>3
        <5>2. bag.cell[l].next = ch[i + 1]
          BY <3>2, <4>1, <5>1
        <5>3. ch[i + 1] # Root
          BY <3>1, <5>1 DEF Filled, Chained
        <5>4. ch[i + 1] \in bag.live \cup {Root}
          BY <3>1, <5>1 DEF Filled, Chained, ToSet
        <5>5. QED
          BY <5>2, <5>3, <5>4
      <4>4. QED
        BY <4>2, <4>3
    <3>4. QED
      BY <3>1, <3>3 DEF Filled
  <2>2. CASE state # "reading"
    BY <2>2 DEF ReaderInv, Emptied
  <2>3. QED
    BY <2>1, <2>2
<1>3. ASSUME NEW l \in bag.live \cup {Root} PROVE bag.cell[l].index \in 0..CB_LEAF_SIZE
  <2>1. bag.cell[l].index \in Nat /\ bag.cell[l].index <= CB_LEAF_SIZE
    BY <1>1, <1>2 DEF Cells, Readable
  <2>2. QED
    BY <2>1, TextAssumption
<1>4. \A l \in bag.live \cup {Root} :
        bag.cell[l].buff \in [1..CB_LEAF_SIZE -> Alphabet \cup {"NUL"}]
  BY <1>2 DEF Readable, Chars
<1>5. QED
  BY <1>1, <1>2, <1>3, <1>4 DEF TypeOK, ReaderInv, Shape

LEMMA InvBagSafe == ReaderInv => BagSafe
  BY DEF ReaderInv, InUse, Emptied, BagSafe

LEMMA InvChainWhole == ReaderInv => ChainWhole
<1> SUFFICES ASSUME ReaderInv, state = "reading" PROVE WellFormed(bag)
  BY DEF ChainWhole
<1>1. PICK ch : Filled(bag, ch)
  BY DEF ReaderInv, InUse
<1>2. ChainOf(bag) = ch
  BY <1>1, ChainIs DEF ReaderInv, InUse, Filled
<1>3. Last(ch) = bag.cur /\ bag.cell[bag.cur].next = NULL
  BY <1>1 DEF Filled, Chained, Last
<1>4. ToSet(ch) = bag.live \cup {Root} /\ Len(ch) = Cardinality(bag.live) + 1
  BY <1>1 DEF Filled, Chained
<1>5. \A i \in 1..Len(ch) - 1 : bag.cell[ch[i]].index = CB_LEAF_SIZE
  BY <1>1 DEF Filled
<1>6. \A l \in bag.live : bag.cell[l].index > 0
  BY DEF ReaderInv, InUse
<1>7. QED
  BY <1>2, <1>3, <1>4, <1>5, <1>6 DEF WellFormed

LEMMA InvNoLeafLeft == ReaderInv => NoLeafLeft
  BY DEF ReaderInv, Emptied, NoLeafLeft

\* The types of JReadString and its bag, for leaves of any size.
THEOREM ReaderTypes == Spec => []TypeOK
<1>1. ReaderInv => TypeOK
  BY InvTypeOK
<1>2. QED
  BY <1>1, ReaderInvHolds, PTL

\* However long a string is and whichever malloc fails, no function of
\* CharBag.c writes outside a leaf, touches a freed one, frees one twice or
\* copies another number of characters than it has measured
\* (CharBag.c:42-61, 87-115, 138-147).
THEOREM BagNeverFaults == Spec => []BagSafe
<1>1. ReaderInv => BagSafe
  BY InvBagSafe
<1>2. QED
  BY <1>1, ReaderInvHolds, PTL

\* While a string is read no leaf is lost, none is empty, and only the last has
\* room (CharBag.c:42-58).
THEOREM ChainStaysWhole == Spec => []ChainWhole
<1>1. ReaderInv => ChainWhole
  BY InvChainWhole
<1>2. QED
  BY <1>1, ReaderInvHolds, PTL

\* However a call ends, every leaf is given back (JReadString.c:169).
THEOREM EveryLeafFreed == Spec => []NoLeafLeft
<1>1. ReaderInv => NoLeafLeft
  BY InvNoLeafLeft
<1>2. QED
  BY <1>1, ReaderInvHolds, PTL

-----------------------------------------------------------------------------
(***************************************************************************)
(* JReadString implements StringReader.                                    *)
(***************************************************************************)
LEMMA SameOperators ==
  /\ Reader!Quote = Quote /\ Reader!Escape = Escape
  /\ \A first : Reader!FirstBag(first) = FirstBag(first)
  /\ \A b : Reader!CString(b) = CString(b)
  /\ \A b, c : Reader!Added(b, c) = Added(b, c)
  /\ \A first, c : Reader!EndCheck(first, c) <=> EndCheck(first, c)
<1>1. Reader!Quote = Quote /\ Reader!Escape = Escape
  BY DEF Reader!Quote, Quote, Reader!Escape, Escape
<1>2. \A first : Reader!FirstBag(first) = FirstBag(first)
  BY <1>1 DEF Reader!FirstBag, FirstBag
<1>3. \A b : Reader!CString(b) = CString(b)
  BY DEF Reader!CString, CString, Reader!ToSet, ToSet, Reader!Min, Min
<1>4. \A b : Reader!LeafFull(b) <=> LeafFull(b)
  BY DEF Reader!LeafFull, LeafFull
<1>5. \A b, c : Reader!Added(b, c) = Added(b, c)
  BY <1>4 DEF Reader!Added, Added
<1>6. \A first, c : Reader!EndCheck(first, c) <=> EndCheck(first, c)
  BY <1>1 DEF Reader!EndCheck, EndCheck, Reader!IsSpace, IsSpace
<1>7. QED
  BY <1>1, <1>2, <1>3, <1>5, <1>6

LEMMA FirstAdded == \A c : Added(<<>>, c) = {<<c>>}
  BY DEF Added, LeafFull

\* The first step: the opening quote, or the first character of a literal.
LEMMA BeginRefines ==
  ASSUME ReaderInv, NEW c \in Alphabet, Begin(c)
  PROVE  Reader!Begin
<1>1. /\ state = "idle" /\ state' = "reading" /\ escape' = FALSE /\ retval' = FALSE
      /\ handle' = [EmptyHandle EXCEPT !.first_char = c]
  BY DEF Begin
<1>2. handle'.first_char = c
  BY <1>1 DEF EmptyHandle
<1>3. Copied(bag') = FirstBag(c)
  <2>1. CASE c = Quote
    BY <2>1, FreshBag DEF Begin, FirstBag
  <2>2. CASE c # Quote
    <3>1. PICK r \in add_char_to_bag(initialize_CharBag, c) : bag' = r.bag
      BY <2>2 DEF Begin
    <3>2. Copied(r.bag) \in Added(<<>>, c)
      BY FreshBag, AddChar
    <3>3. QED
      BY <2>2, <3>1, <3>2, FirstAdded DEF FirstBag
  <2>3. QED
    BY <2>1, <2>2
<1>4. Reader!FirstBag(c) = FirstBag(c)
  BY SameOperators
<1>5. QED
  BY <1>1, <1>2, <1>3, <1>4 DEF Reader!Begin, Reader!Result

\* A round of the loop that only collects.
LEMMA CollectRefines ==
  ASSUME Reading, Loop
  PROVE  Reader!Reading /\ Reader!Collect(Copied(bag'))
<1>1. state = "reading" /\ state' = "reading" /\ handle' = handle /\ retval' = retval
  BY DEF Reading, Loop
<1>2. QED
  BY <1>1 DEF Reader!Reading, Reader!Collect, Reader!Result

\* The ways out: with the string, or without.
LEMMA FinishRefines ==
  ASSUME Reading, Return(TRUE, bag), handle'.string = Copied(bag), NEW c, handle'.end_signal = c
  PROVE  Reader!Finish(c)
<1>1. state = "reading" /\ state' = "returned" /\ retval' = TRUE
  BY DEF Reading, Return
<1>2. Reader!CString(Copied(bag)) = CString(Copied(bag))
  BY SameOperators
<1>3. QED
  BY <1>1, <1>2, SameOperators DEF Reader!Finish

LEMMA BreakRefines == ASSUME Reading, Return(FALSE, bag) PROVE Reader!Break
<1>1. state = "reading" /\ state' = "returned" /\ retval' = FALSE
  BY DEF Reading, Return
<1>2. QED
  BY <1>1 DEF Reader!Break, Reader!Result

LEMMA StepRefines ==
  ASSUME ReaderInv, Reading, NEW c \in Alphabet \cup {EOF, ERR},
         Escaped(c) \/ BeginEscape(c) \/ End(c) \/ Char(c) \/ NoMore(c)
  PROVE  Reader!Next \/ UNCHANGED Reader!vars
<1>1. InUse(bag) /\ state = "reading"
  BY DEF ReaderInv, Reading
<1>2. CASE Escaped(c)
  <2>1. PICK r \in add_char_to_bag(bag, Escape) : \E r2 \in add_char_to_bag(r.bag, c) : bag' = r2.bag
    BY <1>2 DEF Escaped
  <2>2. PICK r2 \in add_char_to_bag(r.bag, c) : bag' = r2.bag
    BY <2>1
  <2>3. c \in Alphabet /\ Escape \in Alphabet /\ escape = TRUE /\ escape' = FALSE /\ Loop
    BY <1>2 DEF Escaped, ReaderInv, Shape
  <2>4. InUse(r.bag) /\ Copied(r.bag) \in Added(Copied(bag), Escape)
    BY <1>1, <2>3, AddChar
  <2>5. Copied(bag') \in Added(Copied(r.bag), c)
    BY <2>2, <2>3, <2>4, AddChar
  <2>6. Reader!Reading /\ Reader!Collect(Copied(bag'))
    BY <2>3, CollectRefines
  <2>7. state' = "reading"
    BY <1>1, <2>3 DEF Loop
  <2>8. Reader!Escaped
    BY <1>1, <2>3, <2>4, <2>5, <2>6, <2>7, SameOperators DEF Reader!Escaped
  <2>9. QED
    BY <2>8 DEF Reader!Next
<1>3. CASE BeginEscape(c)
  <2>1. ~escape /\ escape' = TRUE /\ Loop /\ bag' = bag
    BY <1>3 DEF BeginEscape
  <2>2. Reader!Reading /\ Reader!Collect(Copied(bag'))
    BY <2>1, CollectRefines
  <2>3. state' = "reading"
    BY <1>1, <2>1 DEF Loop
  <2>4. Reader!BeginEscape
    BY <1>1, <2>1, <2>2, <2>3 DEF Reader!BeginEscape
  <2>5. QED
    BY <2>4 DEF Reader!Next
<1>4. CASE End(c)
  <2>1. ~escape /\ c \in Alphabet /\ EndCheck(handle.first_char, c) /\ c \in Chars
    BY <1>4 DEF End, Chars
  <2>2. PICK r \in char_bag_to_string(bag) :
          \/ HandOver(r, c)
          \/ NoString(r) /\ bag' = r.bag /\ UNCHANGED escape /\ Loop
    BY <1>4 DEF End
  <2>3. CASE HandOver(r, c)
    <3>1. /\ Return(TRUE, bag) /\ handle'.string = Copied(bag) /\ handle'.end_signal = c
      BY <2>1, <2>3, HandsOver
    <3>2. Reader!Finish(c)
      BY <3>1, FinishRefines
    <3>3. Reader!End
      BY <1>1, <2>1, <3>2, SameOperators DEF Reader!End, Reader!Reading
    <3>4. QED
      BY <3>3 DEF Reader!Next
  <2>4. CASE NoString(r) /\ bag' = r.bag /\ UNCHANGED escape /\ Loop
    <3>1. bag' = bag /\ escape' = escape /\ Loop
      BY <1>1, <2>4, CopiesText
    <3>2. UNCHANGED Reader!vars
      BY <3>1 DEF Loop, Reader!vars
    <3>3. QED
      BY <3>2
  <2>5. QED
    BY <2>2, <2>3, <2>4
<1>5. CASE Char(c)
  <2>1. PICK r \in add_char_to_bag(bag, c) : bag' = r.bag
    BY <1>5 DEF Char
  <2>2. /\ ~escape /\ c \in Alphabet \ {Escape} /\ ~EndCheck(handle.first_char, c)
        /\ Loop /\ escape' = escape
    BY <1>5 DEF Char
  <2>3. Copied(bag') \in Added(Copied(bag), c)
    BY <1>1, <2>1, <2>2, AddChar
  <2>4. Reader!Reading /\ Reader!Collect(Copied(bag'))
    BY <2>2, CollectRefines
  <2>5. state' = "reading"
    BY <1>1, <2>2 DEF Loop
  <2>6. Reader!Char
    BY <1>1, <2>2, <2>3, <2>4, <2>5, SameOperators DEF Reader!Char
  <2>7. QED
    BY <2>6 DEF Reader!Next
<1>6. CASE NoMore(c)
  <2>1. Reader!Reading
    BY <1>1 DEF Reader!Reading
  <2>2. CASE handle.first_char = Quote
    <3>1. Return(FALSE, bag)
      BY <1>6, <2>2 DEF NoMore
    <3>2. Reader!Break
      BY <3>1, BreakRefines
    <3>3. Reader!NoMore
      BY <1>1, <2>1, <2>2, <3>2, SameOperators DEF Reader!NoMore
    <3>4. QED
      BY <3>3 DEF Reader!Next
  <2>3. CASE handle.first_char # Quote
    <3>1. PICK r \in char_bag_to_string(bag) :
            \/ HandOver(r, "NUL")
            \/ NoString(r) /\ Return(FALSE, r.bag) /\ UNCHANGED handle
      BY <1>6, <2>3 DEF NoMore
    <3>2. CASE HandOver(r, "NUL")
      <4>1. /\ Return(TRUE, bag) /\ handle'.string = Copied(bag) /\ handle'.end_signal = "NUL"
        BY <3>2, HandsOver DEF Chars
      <4>2. Reader!Finish("NUL")
        BY <4>1, FinishRefines
      <4>3. Reader!NoMore
        BY <1>1, <2>1, <2>3, <4>2, SameOperators DEF Reader!NoMore
      <4>4. QED
        BY <4>3 DEF Reader!Next
    <3>3. CASE NoString(r) /\ Return(FALSE, r.bag) /\ UNCHANGED handle
      <4>1. Return(FALSE, bag) /\ MallocMayFail
        BY <1>1, <3>3, CopiesText DEF NoString
      <4>2. Reader!Break
        BY <4>1, BreakRefines
      <4>3. Reader!NoMore
        BY <1>1, <2>1, <2>3, <4>1, <4>2, SameOperators DEF Reader!NoMore
      <4>4. QED
        BY <4>3 DEF Reader!Next
    <3>4. QED
      BY <3>1, <3>2, <3>3
  <2>4. QED
    BY <2>2, <2>3
<1>7. QED
  BY <1>2, <1>3, <1>4, <1>5, <1>6

LEMMA DismissRefines == ASSUME ReaderInv, Dismiss PROVE Reader!Dismiss
<1>1. state = "returned" /\ state' = "idle"
  BY DEF Dismiss
<1>2. retval \in BOOLEAN
  BY DEF ReaderInv, Shape
<1>3. QED
  BY <1>1, <1>2 DEF Reader!Dismiss

\* The bag of leaves behaves as the sequence of the characters put in it, also
\* when leaves and strings cannot be allocated (JReadString.c:104-173,
\* CharBag.c:42-147).
THEOREM ReaderImplemented == Spec => ImplementsReader
<1>1. Init => Reader!Init
  <2> SUFFICES ASSUME Init PROVE Reader!Init
    OBVIOUS
  <2>1. state = "idle"
    BY DEF Init
  <2>2. QED
    BY <2>1 DEF Reader!Init, Reader!Idle
<1>2. ReaderInv /\ [Next]_vars => [Reader!Next]_(Reader!vars)
  <2> SUFFICES ASSUME ReaderInv, [Next]_vars PROVE Reader!Next \/ UNCHANGED Reader!vars
    OBVIOUS
  <2>1. ASSUME NEW c \in Alphabet, Begin(c) PROVE Reader!Next
    BY <2>1, BeginRefines DEF Reader!Next
  <2>2. CASE Step
    <3>1. PICK c \in Alphabet \cup {EOF, ERR} :
            Reading /\ (Escaped(c) \/ BeginEscape(c) \/ End(c) \/ Char(c) \/ NoMore(c))
      BY <2>2 DEF Step, Escaped, BeginEscape, End, Char, NoMore
    <3>2. QED
      BY <3>1, StepRefines
  <2>3. CASE Dismiss
    BY <2>3, DismissRefines DEF Reader!Next
  <2>4. CASE UNCHANGED vars
    BY <2>4 DEF vars, Reader!vars
  <2>5. QED
    BY <2>1, <2>2, <2>3, <2>4 DEF Next
<1>3. QED
  BY <1>1, <1>2, ReaderInvHolds, PTL DEF Spec, ImplementsReader, Reader!Spec
-----------------------------------------------------------------------------
(***************************************************************************)
(* What is handed over is the string that the file holds.                  *)
(***************************************************************************)
\* Whether a character is escaped depends on the characters in front of it.
LEMMA BackslashesKept ==
  ASSUME NEW s \in Seq(Alphabet), NEW c \in Alphabet, NEW i \in 1..(Len(s) + 1)
  PROVE  Backslashes(Append(s, c), i) = Backslashes(s, i)
<1>1. \A j \in 1..(i - 1) : Append(s, c)[j] = s[j]
  OBVIOUS
<1>2. \A k \in 2..(i - 1) : \A j \in k..(i - 1) : j \in 1..(i - 1)
  OBVIOUS
<1>3. QED
  BY <1>1, <1>2 DEF Backslashes

LEMMA BackslashesNext ==
  ASSUME NEW s \in Seq(Alphabet), s # <<>>, NEW c \in Alphabet
  PROVE  Backslashes(Append(s, c), Len(s) + 2)
           = IF c = Escape THEN Backslashes(s, Len(s) + 1) \cup {Len(s) + 1} ELSE {}
<1> DEFINE t == Append(s, c)
           n == Len(s)
<1>1. n \in Nat /\ n >= 1 /\ t[n + 1] = c /\ \A j \in 1..n : t[j] = s[j]
  OBVIOUS
<1> HIDE DEF t, n
<1>2. (n + 2) - 1 = n + 1 /\ (n + 1) - 1 = n
  BY <1>1
<1>3. \A k \in 2..(n + 1) : (n + 1 \in k..(n + 1)) /\ \A j \in k..n : j \in 1..n
  BY <1>1
<1>4. \A k \in 2..(n + 1) : \A j \in k..(n + 1) : j = n + 1 \/ j \in k..n
  BY <1>1
<1>5. Backslashes(t, n + 2) = {k \in 2..(n + 1) : \A j \in k..(n + 1) : t[j] = Escape}
  BY <1>2 DEF Backslashes
<1>6. Backslashes(s, n + 1) = {k \in 2..n : \A j \in k..n : s[j] = Escape}
  BY <1>2 DEF Backslashes
<1>7. CASE c = Escape
  <2>1. ASSUME NEW k \in 2..(n + 1)
        PROVE  (\A j \in k..(n + 1) : t[j] = Escape) <=> (\A j \in k..n : s[j] = Escape)
    <3>1. \A j \in k..n : t[j] = s[j] /\ j \in k..(n + 1)
      BY <1>1, <1>3
    <3>2. QED
      BY <1>1, <1>4, <1>7, <3>1
  <2>2. \A k \in 2..(n + 1) : k \in 2..n \/ k = n + 1
    BY <1>1
  <2>3. 2..n \subseteq 2..(n + 1) /\ n + 1 \in 2..(n + 1) /\ (n + 1)..n = {}
    BY <1>1
  <2>4. QED
    BY <1>5, <1>6, <1>7, <2>1, <2>2, <2>3 DEF t, n
<1>8. CASE c # Escape
  BY <1>1, <1>3, <1>5, <1>8 DEF t, n
<1>9. QED
  BY <1>7, <1>8

LEMMA BackslashesFinite ==
  ASSUME NEW s, NEW i \in Nat
  PROVE  /\ IsFiniteSet(Backslashes(s, i)) /\ Cardinality(Backslashes(s, i)) \in Nat
         /\ i \notin Backslashes(s, i)
<1>1. IsFiniteSet(2..(i - 1))
  BY FS_Interval
<1>2. Backslashes(s, i) \subseteq 2..(i - 1)
  BY DEF Backslashes
<1>3. IsFiniteSet(Backslashes(s, i))
  BY <1>1, <1>2, FS_Subset
<1>4. QED
  BY <1>2, <1>3, FS_CardinalityType

\* The character behind a backslash is escaped, unless the backslash is.
LEMMA UnescapedNext ==
  ASSUME NEW s \in Seq(Alphabet), s # <<>>, NEW c \in Alphabet
  PROVE  Unescaped(Append(s, c), Len(s) + 2) <=> (c = Escape => ~Unescaped(s, Len(s) + 1))
<1> DEFINE B == Backslashes(s, Len(s) + 1)
           N == Cardinality(B)
<1>1. Len(s) + 1 \in Nat /\ IsFiniteSet(B) /\ N \in Nat /\ Len(s) + 1 \notin B
  BY BackslashesFinite
<1>2. Cardinality(B \cup {Len(s) + 1}) = N + 1
  BY <1>1, FS_AddElement
<1>3. Cardinality({}) = 0
  BY FS_EmptySet
<1>4. \A m \in Nat : (m + 1) % 2 = 0 <=> m % 2 # 0
  OBVIOUS
<1>5. 0 % 2 = 0
  OBVIOUS
<1>6. Backslashes(Append(s, c), Len(s) + 2) = IF c = Escape THEN B \cup {Len(s) + 1} ELSE {}
  BY BackslashesNext
<1>7. (N + 1) % 2 = 0 <=> N % 2 # 0
  BY <1>1, <1>4
<1> HIDE DEF B
<1>8. QED
  BY <1>2, <1>3, <1>5, <1>6, <1>7 DEF Unescaped, B

\* Only the new character can end the string, if nothing before it has.
LEMMA EndersNext ==
  ASSUME NEW s \in Seq(Alphabet), s # <<>>, NEW c \in Alphabet, Enders(s) = {}
  PROVE  Enders(Append(s, c))
           = IF Unescaped(s, Len(s) + 1) /\ EndCheck(s[1], c) THEN {Len(s) + 1} ELSE {}
<1> DEFINE t == Append(s, c)
           n == Len(s)
<1>1. n \in Nat /\ n >= 1 /\ Len(t) = n + 1 /\ t[n + 1] = c /\ t[1] = s[1]
        /\ \A j \in 1..n : t[j] = s[j]
  OBVIOUS
<1>2. \A i \in 2..(n + 1) : Unescaped(t, i) <=> Unescaped(s, i)
  <2>1. \A i \in 2..(n + 1) : i \in 1..(n + 1)
    OBVIOUS
  <2>2. QED
    BY <2>1, BackslashesKept DEF Unescaped
<1> HIDE DEF t, n
<1>3. \A i \in 2..n : ~(Unescaped(s, i) /\ EndCheck(s[1], s[i]))
  BY DEF Enders, n
<1>4. \A i \in 2..(n + 1) : i = n + 1 \/ (i \in 2..n /\ i \in 1..n)
  BY <1>1
<1>5. n + 1 \in 2..(n + 1)
  BY <1>1
<1>6. \A i \in 2..(n + 1) : (Unescaped(t, i) /\ EndCheck(t[1], t[i]))
        <=> (i = n + 1 /\ Unescaped(s, n + 1) /\ EndCheck(s[1], c))
  BY <1>1, <1>2, <1>3, <1>4, <1>5
<1>7. Enders(t) = {i \in 2..(n + 1) : i = n + 1 /\ Unescaped(s, n + 1) /\ EndCheck(s[1], c)}
  BY <1>1, <1>6 DEF Enders
<1>8. QED
  BY <1>5, <1>7 DEF t, n

\* The end of the string kept so far, and its first place.
Kept(s) == IF Unescaped(s, Len(s) + 1) THEN Len(s) ELSE Len(s) - 1
From(s) == IF s[1] = Quote THEN 2 ELSE 1

\* A string that has not ended is all that was read, but for a last backslash.
LEMMA ContentSoFar ==
  ASSUME NEW s \in Seq(Alphabet), Enders(s) = {}
  PROVE  Content(s) = SubSeq(s, From(s), Kept(s))
<1>1. Len(s) \in Nat /\ (Len(s) + 1) - 1 = Len(s) /\ (Len(s) + 1) - 2 = Len(s) - 1
  OBVIOUS
<1>2. QED
  BY <1>1 DEF Content, From, Kept

\* An escaped character follows a backslash that is not the first character.
LEMMA EscapedIsBackslash ==
  ASSUME NEW s \in Seq(Alphabet), s # <<>>, ~Unescaped(s, Len(s) + 1)
  PROVE  Len(s) >= 2 /\ s[Len(s)] = Escape
<1>1. Len(s) \in Nat /\ (Len(s) + 1) - 1 = Len(s) /\ 0 % 2 = 0
  OBVIOUS
<1>2. Backslashes(s, Len(s) + 1) # {}
  <2>1. Cardinality({}) = 0
    BY FS_EmptySet
  <2>2. QED
    BY <1>1, <2>1 DEF Unescaped
<1>3. PICK k \in 2..Len(s) : \A j \in k..Len(s) : s[j] = Escape
  BY <1>1, <1>2 DEF Backslashes
<1>4. Len(s) >= 2 /\ Len(s) \in k..Len(s)
  BY <1>1, <1>3
<1>5. QED
  BY <1>3, <1>4

\* One more character of the string.
LEMMA SubSeqNext ==
  ASSUME NEW s \in Seq(Alphabet), NEW c \in Alphabet, NEW q \in {1, 2}, q <= Len(s) + 1
  PROVE  /\ SubSeq(Append(s, c), q, Len(s)) = SubSeq(s, q, Len(s))
         /\ SubSeq(Append(s, c), q, Len(s) + 1) = Append(SubSeq(s, q, Len(s)), c)
         /\ q <= Len(s) => SubSeq(s, q, Len(s)) = Append(SubSeq(s, q, Len(s) - 1), s[Len(s)])
<1> DEFINE n == Len(s)
           t == Append(s, c)
           u == SubSeq(s, q, n)
           v == SubSeq(t, q, n)
           w == SubSeq(t, q, n + 1)
<1>1. n \in Nat /\ Len(t) = n + 1 /\ t[n + 1] = c /\ t \in Seq(Alphabet)
        /\ \A j \in 1..n : t[j] = s[j]
  OBVIOUS
<1>2. u \in Seq(Alphabet) /\ Len(u) = n - q + 1 /\ \A j \in 1..(n - q + 1) : u[j] = s[q + j - 1]
  <2>1. \A j \in q..n : s[j] \in Alphabet
    OBVIOUS
  <2>2. q \in Int /\ n \in Int
    BY <1>1
  <2>3. /\ u \in Seq(Alphabet) /\ Len(u) = IF q <= n THEN n - q + 1 ELSE 0
        /\ \A j \in 1..(n - q + 1) : u[j] = s[q + j - 1]
    BY <2>1, <2>2, SubSeqProperties
  <2>4. ~(q <= n) => n - q + 1 = 0
    BY <1>1
  <2>5. QED
    BY <2>3, <2>4
<1>3. v \in Seq(Alphabet) /\ Len(v) = n - q + 1 /\ \A j \in 1..(n - q + 1) : v[j] = t[q + j - 1]
  <2>1. \A j \in q..n : t[j] \in Alphabet
    OBVIOUS
  <2>2. q \in Int /\ n \in Int
    BY <1>1
  <2> HIDE DEF t
  <2>3. /\ v \in Seq(Alphabet) /\ Len(v) = IF q <= n THEN n - q + 1 ELSE 0
        /\ \A j \in 1..(n - q + 1) : v[j] = t[q + j - 1]
    BY <2>1, <2>2, SubSeqProperties
  <2>4. ~(q <= n) => n - q + 1 = 0
    BY <1>1
  <2>5. QED
    BY <2>3, <2>4
<1>4. w \in Seq(Alphabet) /\ Len(w) = n + 2 - q /\ \A j \in 1..(n + 2 - q) : w[j] = t[q + j - 1]
  <2>1. \A j \in q..(n + 1) : t[j] \in Alphabet
    OBVIOUS
  <2>2. q \in Int /\ n + 1 \in Int /\ q <= n + 1 /\ (n + 1) - q + 1 = n + 2 - q
    BY <1>1
  <2> HIDE DEF t
  <2>3. /\ w \in Seq(Alphabet) /\ Len(w) = IF q <= n + 1 THEN (n + 1) - q + 1 ELSE 0
        /\ \A j \in 1..((n + 1) - q + 1) : w[j] = t[q + j - 1]
    BY <2>1, <2>2, SubSeqProperties
  <2>4. QED
    BY <2>2, <2>3
<1> HIDE DEF t, u, v, w
<1>5. \A j \in 1..(n - q + 1) : t[q + j - 1] = s[q + j - 1]
  BY <1>1
<1>6. v = u
  <2>1. \A j \in 1..(n - q + 1) : v[j] = u[j]
    BY <1>2, <1>3, <1>5
  <2>2. QED
    BY <1>2, <1>3, <2>1, SeqEqual
<1>7. w = Append(u, c)
  <2> DEFINE x == Append(u, c)
  <2>1. x \in Seq(Alphabet) /\ Len(x) = n + 2 - q
    BY <1>1, <1>2
  <2>2. ASSUME NEW j \in 1..(n + 2 - q) PROVE w[j] = x[j]
    <3>1. CASE j = n + 2 - q
      <4>1. x[j] = c
        BY <1>1, <1>2, <3>1
      <4>2. q + j - 1 = n + 1
        BY <1>1, <3>1
      <4>3. QED
        BY <1>1, <1>4, <4>1, <4>2
    <3>2. CASE j # n + 2 - q
      <4>1. j \in 1..(n - q + 1)
        BY <1>1, <3>2
      <4>2. x[j] = u[j]
        BY <1>2, <4>1
      <4>3. QED
        BY <1>2, <1>4, <1>5, <4>1, <4>2
    <3>3. QED
      BY <3>1, <3>2
  <2> HIDE DEF x
  <2>3. w = x
    BY <1>4, <2>1, <2>2, SeqEqual
  <2>4. QED
    BY <2>3 DEF x
<1>8. ASSUME q <= n PROVE u = Append(SubSeq(s, q, n - 1), s[n])
  <2> DEFINE y == SubSeq(s, q, n - 1)
             x == Append(y, s[n])
  <2>1. s[n] \in Alphabet
    BY <1>1, <1>8
  <2>2. y \in Seq(Alphabet) /\ Len(y) = n - q /\ \A j \in 1..(n - q) : y[j] = s[q + j - 1]
    <3>1. \A j \in q..(n - 1) : s[j] \in Alphabet
      BY <1>1
    <3>2. q \in Int /\ n - 1 \in Int /\ (n - 1) - q + 1 = n - q
      BY <1>1
    <3>3. /\ y \in Seq(Alphabet) /\ Len(y) = IF q <= n - 1 THEN (n - 1) - q + 1 ELSE 0
          /\ \A j \in 1..((n - 1) - q + 1) : y[j] = s[q + j - 1]
      BY <3>1, <3>2, SubSeqProperties
    <3>4. ~(q <= n - 1) => n - q = 0
      BY <1>1, <1>8
    <3>5. QED
      BY <3>2, <3>3, <3>4
  <2> HIDE DEF y
  <2>3. x \in Seq(Alphabet) /\ Len(x) = n - q + 1
    BY <1>1, <2>1, <2>2
  <2>4. ASSUME NEW j \in 1..(n - q + 1) PROVE u[j] = x[j]
    <3>1. CASE j = n - q + 1
      <4>1. x[j] = s[n]
        BY <1>1, <2>1, <2>2, <3>1
      <4>2. q + j - 1 = n
        BY <1>1, <3>1
      <4>3. QED
        BY <1>2, <4>1, <4>2
    <3>2. CASE j # n - q + 1
      <4>1. j \in 1..(n - q)
        BY <1>1, <3>2
      <4>2. x[j] = y[j]
        BY <2>1, <2>2, <4>1
      <4>3. QED
        BY <1>2, <2>2, <4>1, <4>2
    <3>3. QED
      BY <3>1, <3>2
  <2> HIDE DEF x
  <2>5. u = x
    BY <1>2, <2>3, <2>4, SeqEqual
  <2>6. QED
    BY <2>5 DEF x, y
<1>9. QED
  BY <1>6, <1>7, <1>8 DEF t, u, v, w

LEMMA FirstRead ==
  ASSUME NEW c \in Alphabet
  PROVE  /\ <<c>> \in Seq(Alphabet) /\ <<c>> # <<>> /\ Enders(<<c>>) = {}
         /\ Unescaped(<<c>>, Len(<<c>>) + 1) /\ Content(<<c>>) = FirstBag(c)
<1> DEFINE s == <<c>>
<1>1. s \in Seq(Alphabet) /\ s # <<>> /\ Len(s) = 1 /\ s[1] = c
  OBVIOUS
<1>2. 2..1 = {} /\ 1 + 1 = 2 /\ 2 - 1 = 1 /\ 0 % 2 = 0
  OBVIOUS
<1> HIDE DEF s
<1>3. Backslashes(s, 2) = {} /\ Enders(s) = {}
  BY <1>1, <1>2 DEF Backslashes, Enders
<1>4. Unescaped(s, 2)
  <2>1. Cardinality({}) = 0
    BY FS_EmptySet
  <2>2. QED
    BY <1>2, <1>3, <2>1 DEF Unescaped
<1>5. Content(s) = SubSeq(s, From(s), 1)
  BY <1>1, <1>2, <1>3, <1>4, ContentSoFar DEF Kept
<1>6. SubSeq(s, From(s), 1) = FirstBag(c)
  <2>1. CASE c = Quote
    <3>1. SubSeq(s, 2, 1) = <<>>
      BY <1>1
    <3>2. QED
      BY <1>1, <2>1, <3>1 DEF From, FirstBag
  <2>2. CASE c # Quote
    <3>1. SubSeq(s, 1, 1) = s
      BY <1>1
    <3>2. QED
      BY <1>1, <2>2, <3>1 DEF From, FirstBag, s
  <2>3. QED
    BY <2>1, <2>2
<1>7. QED
  BY <1>1, <1>2, <1>3, <1>4, <1>5, <1>6 DEF s

\* The text of a string that goes on, whatever its next character is.
LEMMA ContentEscaped ==
  ASSUME NEW s \in Seq(Alphabet), s # <<>>, NEW c \in Alphabet, Enders(s) = {},
         ~Unescaped(s, Len(s) + 1)
  PROVE  /\ Enders(Append(s, c)) = {} /\ Unescaped(Append(s, c), Len(s) + 2)
         /\ Content(Append(s, c)) = Append(Append(Content(s), Escape), c)
<1> DEFINE n == Len(s)
           t == Append(s, c)
<1>1. n \in Nat /\ n >= 2 /\ s[n] = Escape
  BY EscapedIsBackslash
<1>2. t \in Seq(Alphabet) /\ Len(t) = n + 1 /\ t[1] = s[1] /\ (n + 1) + 1 = n + 2
  BY <1>1
<1>3. Enders(t) = {} /\ Unescaped(t, n + 2)
  BY EndersNext, UnescapedNext
<1>4. From(s) \in {1, 2} /\ From(s) <= n /\ From(s) <= n + 1 /\ From(t) = From(s)
  BY <1>1, <1>2 DEF From
<1> DEFINE q == From(s)
<1>5. /\ SubSeq(t, q, n + 1) = Append(SubSeq(s, q, n), c)
      /\ SubSeq(s, q, n) = Append(SubSeq(s, q, n - 1), Escape)
  BY <1>1, <1>4, SubSeqNext
<1>6. Content(s) = SubSeq(s, q, n - 1)
  BY ContentSoFar DEF Kept
<1> HIDE DEF t, n
<1>7. Kept(t) = n + 1
  BY <1>2, <1>3 DEF Kept
<1>8. Content(t) = SubSeq(t, q, n + 1)
  BY <1>2, <1>3, <1>4, <1>7, ContentSoFar
<1>9. QED
  BY <1>3, <1>5, <1>6, <1>8 DEF t, n

LEMMA ContentKept ==
  ASSUME NEW s \in Seq(Alphabet), s # <<>>, NEW c \in Alphabet, Enders(s) = {},
         Unescaped(s, Len(s) + 1)
  PROVE  /\ c = Escape => /\ Enders(Append(s, c)) = {}
                          /\ ~Unescaped(Append(s, c), Len(s) + 2)
                          /\ Content(Append(s, c)) = Content(s)
         /\ c # Escape /\ ~EndCheck(s[1], c) =>
              /\ Enders(Append(s, c)) = {} /\ Unescaped(Append(s, c), Len(s) + 2)
              /\ Content(Append(s, c)) = Append(Content(s), c)
         /\ EndCheck(s[1], c) =>
              Enders(Append(s, c)) = {Len(s) + 1} /\ Content(Append(s, c)) = Content(s)
<1> DEFINE n == Len(s)
           t == Append(s, c)
           q == From(s)
<1>1. n \in Nat /\ n >= 1
  OBVIOUS
<1>2. t \in Seq(Alphabet) /\ Len(t) = n + 1 /\ t[1] = s[1]
  BY <1>1
<1>2a. (n + 1) + 1 = n + 2 /\ (n + 2) - 2 = n /\ (n + 1) - 1 = n
  BY <1>1
<1>3. Enders(t) = IF EndCheck(s[1], c) THEN {n + 1} ELSE {}
  BY EndersNext
<1>4. Unescaped(t, n + 2) <=> c # Escape
  BY UnescapedNext
<1>5. q \in {1, 2} /\ q <= n + 1 /\ From(t) = q
  BY <1>1, <1>2 DEF From
<1>6. SubSeq(t, q, n) = SubSeq(s, q, n) /\ SubSeq(t, q, n + 1) = Append(SubSeq(s, q, n), c)
  BY <1>5, SubSeqNext
<1>7. Content(s) = SubSeq(s, q, n)
  BY ContentSoFar DEF Kept
<1>8. ~EndCheck(s[1], Escape)
  BY DEF EndCheck, Escape, Quote, IsSpace
<1> HIDE DEF t, n, q
<1>9. CASE EndCheck(s[1], c)
  <2>1. Enders(t) = {n + 1} /\ Enders(t) # {}
    BY <1>3, <1>9
  <2>2. Min(Enders(t)) = n + 1
    BY <1>1, <2>1 DEF Min
  <2>3. Content(t) = SubSeq(t, q, (n + 1) - 1)
    <3>1. Content(t) = SubSeq(t, From(t), Min(Enders(t)) - 1)
      BY <2>1 DEF Content, From
    <3>2. QED
      BY <1>5, <2>2, <3>1
  <2>4. QED
    BY <1>2a, <1>6, <1>7, <1>8, <1>9, <2>1, <2>3 DEF t, n
<1>10. CASE ~EndCheck(s[1], c)
  <2>1. Enders(t) = {}
    BY <1>3, <1>10
  <2>2. Content(t) = SubSeq(t, q, Kept(t))
    BY <1>2, <1>5, <2>1, ContentSoFar
  <2>3. Kept(t) = IF c = Escape THEN n ELSE n + 1
    <3>1. Kept(t) = IF Unescaped(t, n + 2) THEN n + 1 ELSE (n + 1) - 1
      BY <1>2, <1>2a DEF Kept
    <3>2. QED
      BY <1>2a, <1>4, <3>1
  <2>4. QED
    BY <1>4, <1>6, <1>7, <1>10, <2>1, <2>2, <2>3 DEF t, n
<1>11. QED
  BY <1>9, <1>10

\* As long as every malloc of the call has worked, the bag holds the string as
\* far as it is read, and no character read has ended it.
TextSoFar ==
  /\ raw # <<>> /\ handle.first_char = raw[1] /\ Enders(raw) = {}
  /\ escape <=> ~Unescaped(raw, Len(raw) + 1)
  /\ Copied(bag) = Content(raw)

TextInv ==
  /\ state = "reading" /\ ~refused => TextSoFar
  /\ ReadsTheString

LEMMA BeginText ==
  ASSUME NEW c \in Alphabet, Begin(c)
  PROVE  TextInv'
<1>1. /\ state' = "reading" /\ raw' = <<c>> /\ escape' = FALSE
      /\ handle' = [EmptyHandle EXCEPT !.first_char = c]
  BY DEF Begin
<1>2. ~refused' => Copied(bag') = FirstBag(c)
  <2>1. CASE c = Quote
    <3>1. bag' = initialize_CharBag
      BY <2>1 DEF Begin
    <3>2. QED
      BY <2>1, <3>1, FreshBag DEF FirstBag
  <2>2. CASE c # Quote
    <3>1. PICK r \in add_char_to_bag(initialize_CharBag, c) : bag' = r.bag /\ refused' = ~r.ok
      BY <2>2 DEF Begin
    <3>2. r.ok => Copied(r.bag) = Append(<<>>, c)
      BY FreshBag, AddChar
    <3>3. Append(<<>>, c) = <<c>>
      OBVIOUS
    <3>4. QED
      BY <2>2, <3>1, <3>2, <3>3 DEF FirstBag
  <2>3. QED
    BY <2>1, <2>2
<1>3. handle'.first_char = c
  BY <1>1 DEF EmptyHandle
<1>4. raw'[1] = c
  BY <1>1
<1>5. ~refused' => TextSoFar'
  BY <1>1, <1>2, <1>3, <1>4, FirstRead DEF TextSoFar
<1>6. ReadsTheString'
  BY <1>1 DEF ReadsTheString
<1>7. QED
  BY <1>5, <1>6 DEF TextInv

\* What a step that goes on reading has to keep.
LEMMA GoesOn ==
  ASSUME Reading, Loop, ~refused' => ~refused,
         ~refused' /\ TextSoFar =>
           /\ raw' # <<>> /\ raw'[1] = raw[1] /\ Enders(raw') = {}
           /\ escape' <=> ~Unescaped(raw', Len(raw') + 1)
           /\ Copied(bag') = Content(raw'),
         TextInv
  PROVE  TextInv'
<1>1. state' = "reading" /\ handle' = handle
  BY DEF Reading, Loop
<1>2. ReadsTheString'
  BY <1>1 DEF ReadsTheString
<1>3. ~refused' => TextSoFar'
  BY <1>1 DEF TextSoFar, TextInv, Reading
<1>4. QED
  BY <1>2, <1>3 DEF TextInv

LEMMA ReadOn ==
  ASSUME Shape, NEW c \in Alphabet, Read(c)
  PROVE  /\ io = "open" /\ io' = "open" /\ raw' = Append(raw, c) /\ raw \in Seq(Alphabet)
         /\ raw' # <<>> /\ Len(raw') = Len(raw) + 1 /\ Len(raw') + 1 = Len(raw) + 2
         /\ raw # <<>> => raw'[1] = raw[1]
         /\ Last(raw') = c
<1>1. c # EOF /\ c # ERR
  BY TextAssumption
<1>2. io = "open" /\ io' = io /\ raw' = Append(raw, c) /\ raw \in Seq(Alphabet)
  BY <1>1 DEF Read, Shape
<1>3. QED
  BY <1>2 DEF Last

LEMMA CollectText ==
  ASSUME ReaderInv, TextInv, NEW c \in Alphabet, Escaped(c) \/ BeginEscape(c) \/ Char(c)
  PROVE  TextInv'
<1>1. Reading /\ Read(c) /\ Loop /\ InUse(bag) /\ Shape
  BY DEF Escaped, BeginEscape, Char, ReaderInv, Reading
<1>2. /\ raw' = Append(raw, c) /\ raw \in Seq(Alphabet) /\ raw' # <<>>
      /\ Len(raw') + 1 = Len(raw) + 2 /\ (raw # <<>> => raw'[1] = raw[1])
  BY <1>1, ReadOn
<1>3. CASE Escaped(c)
  <2>1. Escape \in Alphabet
    BY <1>1, <1>3 DEF Escaped, Shape
  <2>2. PICK r \in add_char_to_bag(bag, Escape) : \E r2 \in add_char_to_bag(r.bag, c) :
          bag' = r2.bag /\ refused' = (refused \/ ~r.ok \/ ~r2.ok)
    BY <1>3 DEF Escaped
  <2>3. PICK r2 \in add_char_to_bag(r.bag, c) :
          bag' = r2.bag /\ refused' = (refused \/ ~r.ok \/ ~r2.ok)
    BY <2>2
  <2>4. InUse(r.bag) /\ (r.ok => Copied(r.bag) = Append(Copied(bag), Escape))
    BY <1>1, <2>1, AddChar
  <2>5. r2.ok => Copied(r2.bag) = Append(Copied(r.bag), c)
    BY <2>4, AddChar
  <2>6. ~refused' => ~refused /\ r.ok /\ r2.ok
    BY <2>3
  <2>7. escape /\ escape' = FALSE
    BY <1>3 DEF Escaped
  <2>8. ASSUME ~refused', TextSoFar
        PROVE  /\ Enders(raw') = {} /\ Unescaped(raw', Len(raw') + 1)
               /\ Copied(bag') = Content(raw')
    <3>1. raw # <<>> /\ Enders(raw) = {} /\ ~Unescaped(raw, Len(raw) + 1)
            /\ Copied(bag) = Content(raw)
      BY <2>7, <2>8 DEF TextSoFar
    <3>2. /\ Enders(raw') = {} /\ Unescaped(raw', Len(raw) + 2)
          /\ Content(raw') = Append(Append(Content(raw), Escape), c)
      BY <1>2, <3>1, ContentEscaped
    <3>3. QED
      BY <1>2, <2>3, <2>4, <2>5, <2>6, <2>8, <3>1, <3>2
  <2>9. TextSoFar => raw # <<>>
    BY DEF TextSoFar
  <2>10. QED
    BY <1>1, <1>2, <2>6, <2>7, <2>8, <2>9, GoesOn
<1>4. CASE BeginEscape(c)
  <2>1. c = Escape /\ ~escape /\ escape' = TRUE /\ bag' = bag /\ refused' = refused
    BY <1>4 DEF BeginEscape
  <2>2. ASSUME TextSoFar
        PROVE  /\ raw # <<>> /\ Enders(raw') = {} /\ ~Unescaped(raw', Len(raw') + 1)
               /\ Copied(bag') = Content(raw')
    <3>1. raw # <<>> /\ Enders(raw) = {} /\ Unescaped(raw, Len(raw) + 1)
            /\ Copied(bag) = Content(raw)
      BY <2>1, <2>2 DEF TextSoFar
    <3>2. /\ Enders(raw') = {} /\ ~Unescaped(raw', Len(raw) + 2)
          /\ Content(raw') = Content(raw)
      BY <1>2, <2>1, <3>1, ContentKept
    <3>3. QED
      BY <1>2, <2>1, <3>1, <3>2
  <2>3. QED
    BY <1>1, <1>2, <2>1, <2>2, GoesOn
<1>5. CASE Char(c)
  <2>1. PICK r \in add_char_to_bag(bag, c) : bag' = r.bag /\ refused' = (refused \/ ~r.ok)
    BY <1>5 DEF Char
  <2>2. c # Escape /\ ~EndCheck(handle.first_char, c) /\ ~escape /\ escape' = escape
    BY <1>5 DEF Char
  <2>3. r.ok => Copied(r.bag) = Append(Copied(bag), c)
    BY <1>1, AddChar
  <2>4. ~refused' => ~refused /\ r.ok
    BY <2>1
  <2>5. ASSUME ~refused', TextSoFar
        PROVE  /\ raw # <<>> /\ Enders(raw') = {} /\ Unescaped(raw', Len(raw') + 1)
               /\ Copied(bag') = Content(raw')
    <3>1. raw # <<>> /\ Enders(raw) = {} /\ Unescaped(raw, Len(raw) + 1)
            /\ Copied(bag) = Content(raw) /\ ~EndCheck(raw[1], c)
      BY <2>2, <2>5 DEF TextSoFar
    <3>2. /\ Enders(raw') = {} /\ Unescaped(raw', Len(raw) + 2)
          /\ Content(raw') = Append(Content(raw), c)
      BY <1>2, <2>2, <3>1, ContentKept
    <3>3. QED
      BY <1>2, <2>1, <2>3, <2>4, <2>5, <3>1, <3>2
  <2>6. QED
    BY <1>1, <1>2, <2>2, <2>4, <2>5, GoesOn
<1>6. QED
  BY <1>3, <1>4, <1>5

\* The character that ends the string is the last one read.
LEMMA EndText ==
  ASSUME ReaderInv, TextInv, NEW c \in Alphabet, End(c)
  PROVE  TextInv'
<1>1. /\ Reading /\ ~escape /\ EndCheck(handle.first_char, c) /\ Read(c)
      /\ InUse(bag) /\ Shape /\ c \in Chars
  BY DEF End, ReaderInv, Reading, Chars
<1>2. /\ raw' = Append(raw, c) /\ raw \in Seq(Alphabet) /\ io' = "open"
      /\ Len(raw') = Len(raw) + 1 /\ Last(raw') = c
  BY <1>1, ReadOn
<1>3. PICK r \in char_bag_to_string(bag) :
        \/ HandOver(r, c)
        \/ NoString(r) /\ bag' = r.bag /\ UNCHANGED escape /\ Loop
  BY DEF End
<1>4. CASE HandOver(r, c)
  <2>1. /\ Return(TRUE, bag) /\ refused' = refused
        /\ handle'.string = Copied(bag) /\ handle'.end_signal = c
    BY <1>1, <1>4, HandsOver
  <2>2. state' = "returned" /\ retval' = TRUE
    BY <2>1 DEF Return
  <2>3. ASSUME ~refused'
        PROVE  Enders(raw') = {Len(raw')} /\ CString(handle'.string) = CString(Content(raw'))
    <3>1. TextSoFar
      BY <1>1, <2>1, <2>3 DEF TextInv, Reading
    <3>2. /\ raw # <<>> /\ Enders(raw) = {} /\ Unescaped(raw, Len(raw) + 1)
          /\ Copied(bag) = Content(raw) /\ EndCheck(raw[1], c)
      BY <1>1, <3>1 DEF TextSoFar
    <3>3. Enders(raw') = {Len(raw) + 1} /\ Content(raw') = Content(raw)
      BY <1>2, <3>2, ContentKept
    <3>4. QED
      BY <1>2, <2>1, <3>2, <3>3
  <2>4. ReadsTheString'
    BY <1>2, <2>1, <2>2, <2>3 DEF ReadsTheString
  <2>5. QED
    BY <2>2, <2>4 DEF TextInv
<1>5. CASE NoString(r) /\ bag' = r.bag /\ UNCHANGED escape /\ Loop
  <2>1. refused' = TRUE /\ Loop
    BY <1>5 DEF NoString
  <2>2. QED
    BY <1>1, <2>1, GoesOn
<1>6. QED
  BY <1>3, <1>4, <1>5

\* No character ends a string that the file or an error breaks off.
LEMMA NoMoreText ==
  ASSUME ReaderInv, TextInv, NEW c, NoMore(c)
  PROVE  TextInv'
<1>1. Reading /\ c \in {EOF, ERR} /\ Read(c) /\ InUse(bag) /\ "NUL" \in Chars
  BY DEF NoMore, ReaderInv, Reading, Chars
<1>2. raw' = raw /\ io' \in {"end", "error"}
  BY <1>1, TextAssumption DEF Read, EOF, ERR
<1>3. ~refused => TextSoFar
  BY <1>1 DEF TextInv, Reading
<1>4. CASE handle.first_char = Quote
  <2>1. Return(FALSE, bag) /\ refused' = refused
    BY <1>4 DEF NoMore
  <2>2. state' = "returned" /\ retval' = FALSE
    BY <2>1 DEF Return
  <2>3. ReadsTheString'
    BY <1>2, <1>3, <1>4, <2>1, <2>2 DEF ReadsTheString, TextSoFar
  <2>4. QED
    BY <2>2, <2>3 DEF TextInv
<1>5. CASE handle.first_char # Quote
  <2>1. PICK r \in char_bag_to_string(bag) :
          \/ HandOver(r, "NUL")
          \/ NoString(r) /\ Return(FALSE, r.bag) /\ UNCHANGED handle
    BY <1>5 DEF NoMore
  <2>2. CASE HandOver(r, "NUL")
    <3>1. /\ Return(TRUE, bag) /\ refused' = refused
          /\ handle'.string = Copied(bag) /\ handle'.end_signal = "NUL"
      BY <1>1, <2>2, HandsOver
    <3>2. state' = "returned" /\ retval' = TRUE
      BY <3>1 DEF Return
    <3>3. ReadsTheString'
      BY <1>2, <1>3, <1>5, <3>1, <3>2 DEF ReadsTheString, TextSoFar
    <3>4. QED
      BY <3>2, <3>3 DEF TextInv
  <2>3. CASE NoString(r) /\ Return(FALSE, r.bag) /\ UNCHANGED handle
    <3>1. state' = "returned" /\ refused' = TRUE
      BY <2>3 DEF NoString, Return
    <3>2. QED
      BY <3>1 DEF TextInv, ReadsTheString
  <2>4. QED
    BY <2>1, <2>2, <2>3
<1>6. QED
  BY <1>4, <1>5

\* If malloc works, JReadString reads up to the first character that ends the
\* string and no further, and hands over all characters in front of it, escapes
\* included; only a quoted string whose end is not in the file fails
\* (JReadString.c:104-173).
THEOREM StringHandedOver == Spec => []ReadsTheString
<1>1. Init => TextInv
  BY DEF Init, TextInv, ReadsTheString
<1>2. ReaderInv /\ TextInv /\ [Next]_vars => TextInv'
  <2> SUFFICES ASSUME ReaderInv, TextInv, [Next]_vars PROVE TextInv'
    OBVIOUS
  <2>1. ASSUME NEW c \in Alphabet, Begin(c) PROVE TextInv'
    BY <2>1, BeginText
  <2>2. CASE Step
    <3>1. PICK c \in Alphabet \cup {EOF, ERR} :
            Escaped(c) \/ BeginEscape(c) \/ End(c) \/ Char(c) \/ NoMore(c)
      BY <2>2 DEF Step
    <3>2. BeginEscape(c) => c \in Alphabet
      BY DEF BeginEscape, Escape, EOF, ERR
    <3>3. Escaped(c) \/ End(c) \/ Char(c) => c \in Alphabet
      BY DEF Escaped, End, Char
    <3>4. QED
      BY <3>1, <3>2, <3>3, CollectText, EndText, NoMoreText
  <2>3. CASE Dismiss
    <3>1. state' = "idle"
      BY <2>3 DEF Dismiss
    <3>2. QED
      BY <3>1 DEF TextInv, ReadsTheString
  <2>4. CASE UNCHANGED vars
    <3>1. UNCHANGED <<state, handle, retval, bag, escape, io, raw, refused>>
      BY <2>4 DEF vars
    <3>2. QED
      BY <3>1 DEF TextInv, TextSoFar, ReadsTheString
  <2>5. QED
    BY <2>1, <2>2, <2>3, <2>4 DEF Next
<1>3. TextInv => ReadsTheString
  BY DEF TextInv
<1>4. QED
  BY <1>1, <1>2, <1>3, ReaderInvHolds, PTL DEF Spec
=============================================================================
