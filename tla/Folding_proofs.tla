--------------------------- MODULE Folding_proofs ---------------------------
(***************************************************************************)
(* What recursion over numbers and a fold over a sequence are: induction   *)
(* in the form the provers can use, over sets of numbers instead of        *)
(* formulas, and the functions that recursion and FoldLeft stand for.      *)
(***************************************************************************)
EXTENDS Integers, SequencesExt, WellFoundedInduction, TLAPS

\* A set of natural numbers that is not empty has a least element.
LEMMA Least ==
  ASSUME NEW T \in SUBSET Nat, T # {}
  PROVE  \E m \in T : \A k \in T : m <= k
<1> DEFINE R == OpToRel(<, Nat)
<1>1. \E x \in T : \A y \in T : ~(<<y, x>> \in R)
  <2>1. IsWellFoundedOn(R, Nat)
    BY NatLessThanWellFounded
  <2> HIDE DEF R
  <2>2. QED
    BY <2>1, WFMin
<1>2. \A x, y \in Nat : y < x => <<y, x>> \in R
  BY DEF OpToRel
<1> HIDE DEF R
<1>3. \A x, y \in Nat : y < x \/ x <= y
  OBVIOUS
<1>4. QED
  BY <1>1, <1>2, <1>3

LEMMA MinIsLeast ==
  ASSUME NEW T \in SUBSET Nat, T # {}
  PROVE  Min(T) \in T /\ \A k \in T : Min(T) <= k
  BY Least DEF Min

\* A property of numbers that passes from each to the next holds of all.
LEMMA Counting ==
  ASSUME NEW T \in SUBSET (Nat \ {0}), NEW k \in Nat,
         k > 0 => 1 \in T, \A i \in T : i + 1 <= k => i + 1 \in T
  PROVE  1..k \subseteq T
<1> DEFINE R == OpToRel(<, Nat)
           U == (1..k) \ T
<1> SUFFICES ASSUME U # {} PROVE FALSE
  OBVIOUS
<1>1. \E x \in U : \A y \in U : ~(<<y, x>> \in R)
  <2>1. IsWellFoundedOn(R, Nat)
    BY NatLessThanWellFounded
  <2>2. U \in SUBSET Nat
    OBVIOUS
  <2> HIDE DEF R, U
  <2>3. QED
    BY <2>1, <2>2, WFMin
<1>2. PICK x \in U : \A y \in U : ~(<<y, x>> \in R)
  BY <1>1
<1>3. \A y \in Nat : y < x => <<y, x>> \in R
  BY <1>2 DEF OpToRel
<1> HIDE DEF R
<1>4. x \in 1..k /\ x # 1
  BY <1>2
<1>5. x - 1 \in 1..k /\ x - 1 < x /\ (x - 1) + 1 = x /\ x - 1 \in Nat
  BY <1>4
<1>6. x - 1 \in T
  BY <1>2, <1>3, <1>5
<1>7. QED
  BY <1>2, <1>4, <1>5, <1>6

(***************************************************************************)
(* What a recursive function over 0..N, or a fold over a sequence, is.     *)
(***************************************************************************)
HasIterates(N, D, a, F) ==
  \E g \in [0..N -> D] : \A k \in 0..N : g[k] = IF k = 0 THEN a ELSE F[g[k - 1]]

LEMMA Recursion ==
  ASSUME NEW N \in Nat, NEW D, NEW a \in D, NEW F \in [D -> D]
  PROVE  HasIterates(N, D, a, F)
<1> DEFINE Solves(n, g) == \A k \in 0..n : g[k] = IF k = 0 THEN a ELSE F[g[k - 1]]
           Solved(n) == \E g \in [0..n -> D] : Solves(n, g)
           T == {n \in Nat : ~Solved(n)}
<1>1. Solved(0)
  <2>1. [k \in 0..0 |-> a] \in [0..0 -> D] /\ Solves(0, [k \in 0..0 |-> a])
    OBVIOUS
  <2>2. QED
    BY <2>1
<1>2. ASSUME NEW n \in Nat, Solved(n) PROVE Solved(n + 1)
  <2>1. PICK g \in [0..n -> D] : Solves(n, g)
    BY <1>2
  <2> DEFINE h == [k \in 0..n + 1 |-> IF k = n + 1 THEN F[g[n]] ELSE g[k]]
  <2>2. h \in [0..n + 1 -> D]
    OBVIOUS
  <2>3. ASSUME NEW k \in 0..n + 1 PROVE h[k] = IF k = 0 THEN a ELSE F[h[k - 1]]
    <3>1. CASE k = n + 1
      BY <3>1
    <3>2. CASE k # n + 1
      <4>1. k \in 0..n /\ h[k] = g[k] /\ (k # 0 => h[k - 1] = g[k - 1])
        BY <3>2
      <4>2. g[k] = IF k = 0 THEN a ELSE F[g[k - 1]]
        BY <2>1, <4>1
      <4>3. QED
        BY <4>1, <4>2
    <3>3. QED
      BY <3>1, <3>2
  <2>4. QED
    BY <2>2, <2>3
<1>3. T = {}
  <2> SUFFICES ASSUME T # {} PROVE FALSE
    OBVIOUS
  <2>1. T \in SUBSET Nat
    OBVIOUS
  <2>2. PICK m \in T : \A k \in T : m <= k
    <3> HIDE DEF T
    <3>1. QED
      BY <2>1, Least
  <2> HIDE DEF Solved
  <2>3. m \in Nat /\ ~Solved(m) /\ \A k \in Nat : k < m => Solved(k)
    BY <2>2
  <2>4. m # 0 /\ m - 1 \in Nat /\ m - 1 < m /\ (m - 1) + 1 = m
    BY <2>3, <1>1
  <2>5. QED
    BY <2>3, <2>4, <1>2
<1>4. QED
  BY <1>3 DEF HasIterates

LEMMA MaxIsGreatest ==
  ASSUME NEW n \in Nat, NEW T \in SUBSET (1..n), T # {}
  PROVE  Max(T) \in T /\ \A k \in T : Max(T) >= k
<1> DEFINE U == {u \in Nat : \A k \in T : k <= u}
<1>1. U \in SUBSET Nat /\ n \in U
  OBVIOUS
<1>2. PICK u \in U : \A v \in U : u <= v
  <2> HIDE DEF U
  <2>1. QED
    BY <1>1, Least
<1>3. u \in T
  <2> SUFFICES ASSUME u \notin T PROVE FALSE
    OBVIOUS
  <2>1. PICK k \in T : TRUE
    OBVIOUS
  <2>2. u \in Nat /\ u # 0 /\ \A j \in T : j <= u /\ j # u
    BY <2>1, <1>2
  <2>3. u - 1 \in U
    BY <2>2
  <2>4. QED
    BY <2>2, <2>3, <1>2
<1>4. \A k \in T : u >= k
  BY <1>2
<1>5. QED
  BY <1>3, <1>4 DEF Max

LEMMA MaxOfInterval ==
  ASSUME NEW k \in Nat \ {0} PROVE Max(1..k) = k /\ (1..k) \ {k} = 1..k - 1
<1>1. 1..k \in SUBSET (1..k) /\ 1..k # {} /\ k \in 1..k /\ k \in Nat
  OBVIOUS
<1>2. Max(1..k) \in 1..k /\ Max(1..k) >= k
  BY <1>1, MaxIsGreatest
<1>3. Max(1..k) = k
  BY <1>2
<1>4. QED
  BY <1>3

\* FoldLeft builds its result as a function on the sets of positions.
HasFold(n, D, a, F) ==
  \E g \in [SUBSET (1..n) -> D] :
    \A s \in SUBSET (1..n) : g[s] = IF s = {} THEN a ELSE F[<<Max(s), g[s \ {Max(s)}]>>]

LEMMA FoldSubsets ==
  ASSUME NEW n \in Nat, NEW D, NEW a \in D, NEW F \in [Nat \X D -> D]
  PROVE  HasFold(n, D, a, F)
<1> DEFINE Eq(g, s) == g[s] = IF s = {} THEN a ELSE F[<<Max(s), g[s \ {Max(s)}]>>]
           Solved(m) == \E g \in [SUBSET (1..m) -> D] : \A s \in SUBSET (1..m) : Eq(g, s)
           T == {m \in Nat : ~Solved(m)}
<1>1. Solved(0)
  <2> DEFINE g == [s \in SUBSET (1..0) |-> a]
  <2>1. g \in [SUBSET (1..0) -> D] /\ \A s \in SUBSET (1..0) : s = {} /\ g[s] = a
    OBVIOUS
  <2>2. QED
    BY <2>1
<1>2. ASSUME NEW m \in Nat, Solved(m) PROVE Solved(m + 1)
  <2>1. PICK g \in [SUBSET (1..m) -> D] : \A s \in SUBSET (1..m) : Eq(g, s)
    BY <1>2
  <2> DEFINE Rest(s) == s \ {m + 1}
             h == [s \in SUBSET (1..m + 1) |->
                     IF m + 1 \in s THEN F[<<m + 1, g[Rest(s)]>>] ELSE g[s]]
  <2>2. \A s \in SUBSET (1..m + 1) : Rest(s) \in SUBSET (1..m) /\ (m + 1 \notin s => s \in SUBSET (1..m))
    OBVIOUS
  <2>3. h \in [SUBSET (1..m + 1) -> D]
    BY <2>2
  <2>4. ASSUME NEW s \in SUBSET (1..m + 1) PROVE Eq(h, s)
    <3>1. CASE m + 1 \in s
      <4>1. m + 1 \in Nat /\ s \in SUBSET (1..(m + 1)) /\ s # {}
        BY <3>1
      <4>2. Max(s) \in s /\ \A k \in s : Max(s) >= k
        BY MaxIsGreatest, <4>1
      <4>3. Max(s) = m + 1
        <5>1. Max(s) \in 1..(m + 1) /\ Max(s) >= m + 1
          BY <3>1, <4>2
        <5>2. QED
          BY <5>1
      <4>4. h[s] = F[<<m + 1, g[Rest(s)]>>]
        BY <3>1
      <4>5. Rest(s) \in SUBSET (1..m + 1) /\ m + 1 \notin Rest(s) /\ s # {}
        BY <3>1
      <4>6. h[Rest(s)] = g[Rest(s)]
        BY <4>5
      <4>7. s \ {Max(s)} = Rest(s)
        BY <4>3
      <4> HIDE DEF h, Rest
      <4>8. QED
        BY <4>3, <4>4, <4>5, <4>6, <4>7
    <3>2. CASE m + 1 \notin s
      <4>1. s \in SUBSET (1..m) /\ h[s] = g[s]
        BY <2>2, <3>2
      <4>2. Eq(g, s)
        BY <2>1, <4>1
      <4>3. CASE s = {}
        BY <4>1, <4>2, <4>3
      <4>4. CASE s # {}
        <5>1. s \ {Max(s)} \in SUBSET (1..m) /\ m + 1 \notin s \ {Max(s)}
          BY <4>1, <3>2
        <5>2. h[s \ {Max(s)}] = g[s \ {Max(s)}]
          BY <5>1, <2>2
        <5> HIDE DEF h
        <5>3. QED
          BY <4>1, <4>2, <4>4, <5>2
      <4>5. QED
        BY <4>3, <4>4
    <3>3. QED
      BY <3>1, <3>2
  <2> HIDE DEF h, Eq
  <2>5. QED
    BY <2>3, <2>4
<1>3. T = {}
  <2> SUFFICES ASSUME T # {} PROVE FALSE
    OBVIOUS
  <2>1. T \in SUBSET Nat
    OBVIOUS
  <2>2. PICK m \in T : \A k \in T : m <= k
    <3> HIDE DEF T
    <3>1. QED
      BY <2>1, Least
  <2> HIDE DEF Solved
  <2>3. m \in Nat /\ ~Solved(m) /\ \A k \in Nat : k < m => Solved(k)
    BY <2>2
  <2>4. m # 0 /\ m - 1 \in Nat /\ m - 1 < m /\ (m - 1) + 1 = m
    BY <2>3, <1>1
  <2>5. QED
    BY <2>3, <2>4, <1>2
<1> HIDE DEF Eq
<1>4. Solved(n)
  <2> HIDE DEF Solved
  <2>1. QED
    BY <1>3
<1>5. QED
  BY <1>4 DEF Eq, HasFold
=============================================================================
