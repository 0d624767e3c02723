------------------------- MODULE JsonNumber_proofs -------------------------
(***************************************************************************)
(* The scan of isJsonNumber, character by character, over texts of any     *)
(* length and any characters.                                              *)
(***************************************************************************)
EXTENDS JsonNumber, Folding_proofs

\* FoldLeftDomain folds over the positions of s.
Positions(s) == [i \in DOMAIN s |-> i]
IsScan(g, s) ==
  g = [S \in SUBSET DOMAIN Positions(s) |->
         IF S = {} THEN Scan0 ELSE ScanChar(s, g[S \ {Max(S)}], Positions(s)[Max(S)])]
ScanStates == [numerals : BOOLEAN, first : Nat, decimal : BOOLEAN,
               exponent : BOOLEAN, skip : BOOLEAN, bad : BOOLEAN]

\* The turns of the loop, variable by variable.
SameDigits(t, st) == (t.numerals <=> st.numerals) /\ t.first = st.first
SameParts(t, st) == (t.decimal <=> st.decimal) /\ (t.exponent <=> st.exponent)
Turns(s, st, i, t) ==
  /\ st.bad => t.bad
  /\ ~st.bad /\ (st.skip \/ (i = 1 /\ s[i] = "-")) =>
       SameDigits(t, st) /\ SameParts(t, st) /\ ~t.skip /\ ~t.bad
  /\ ~st.bad /\ ~st.skip =>
       /\ s[i] \in Digits =>
            /\ t.numerals /\ t.first = (IF st.first = 0 THEN i ELSE st.first)
            /\ SameParts(t, st) /\ ~t.skip /\ ~t.bad
       /\ s[i] = "." =>
            /\ SameDigits(t, st) /\ t.decimal /\ (t.exponent <=> st.exponent) /\ ~t.skip
            /\ t.bad <=> \/ i = 1 \/ CharAt(s, i - 1) \notin Digits
                         \/ CharAt(s, i + 1) \notin Digits
                         \/ st.decimal \/ st.exponent
       /\ s[i] \in {"e", "E"} =>
            /\ t.exponent /\ ~t.numerals /\ t.first = st.first /\ (t.decimal <=> st.decimal)
            /\ t.skip <=> CharAt(s, i + 1) \in {"-", "+"}
            /\ t.bad <=> st.exponent \/ ~st.numerals
       /\ ~(i = 1 /\ s[i] = "-") /\ s[i] \notin Digits \cup {".", "e", "E"} => t.bad

LEMMA NoDigits == {".", "e", "E", "-", "+", "NUL"} \cap Digits = {}
  BY DEF Digits

LEMMA ScanCharTurns ==
  ASSUME NEW s, NEW st \in ScanStates, NEW i \in Nat
  PROVE  ScanChar(s, st, i) \in ScanStates /\ Turns(s, st, i, ScanChar(s, st, i))
<1> DEFINE t == ScanChar(s, st, i)
<1>1. CASE st.bad \/ st.skip \/ (i = 1 /\ s[i] = "-")
  <2>1. t = IF st.bad THEN st ELSE IF st.skip THEN [st EXCEPT !.skip = FALSE] ELSE st
    BY <1>1 DEF ScanChar
  <2> HIDE DEF t
  <2>2. t \in ScanStates
    BY <2>1 DEF ScanStates
  <2>3. Turns(s, st, i, t)
    BY <1>1, <2>1, NoDigits DEF Turns, ScanStates, SameDigits, SameParts
  <2>4. QED
    BY <2>2, <2>3 DEF t
<1>2. CASE ~st.bad /\ ~st.skip /\ s[i] \in Digits
  <2>1. t = [st EXCEPT !.numerals = TRUE, !.first = IF @ = 0 THEN i ELSE @]
    BY <1>2, NoDigits DEF ScanChar
  <2> HIDE DEF t
  <2>2. t \in ScanStates /\ Turns(s, st, i, t)
    BY <1>2, <2>1, NoDigits DEF Turns, ScanStates, SameDigits, SameParts
  <2>3. QED
    BY <2>2 DEF t
<1>3. CASE ~st.bad /\ ~st.skip /\ s[i] = "."
  <2> DEFINE bad == \/ i = 1 \/ CharAt(s, i - 1) \notin Digits
                    \/ CharAt(s, i + 1) \notin Digits \/ st.decimal \/ st.exponent
  <2>1. t = [st EXCEPT !.decimal = TRUE, !.bad = bad] /\ bad \in BOOLEAN
    BY <1>3, NoDigits DEF ScanChar
  <2> HIDE DEF t, bad
  <2>2. t \in ScanStates /\ SameDigits(t, st) /\ t.decimal /\ (t.exponent <=> st.exponent)
        /\ ~t.skip /\ (t.bad <=> bad)
    BY <1>3, <2>1 DEF ScanStates, SameDigits
  <2>3. Turns(s, st, i, t)
    BY <1>3, <2>2, NoDigits DEF Turns, bad
  <2>4. QED
    BY <2>2, <2>3 DEF t
<1>4. CASE ~st.bad /\ ~st.skip /\ s[i] \in {"e", "E"}
  <2> DEFINE skip == CharAt(s, i + 1) \in {"-", "+"}
             bad == st.exponent \/ ~st.numerals
  <2>1. /\ t = [st EXCEPT !.exponent = TRUE, !.numerals = FALSE, !.skip = skip, !.bad = bad]
        /\ bad \in BOOLEAN /\ skip \in BOOLEAN
    BY <1>4, NoDigits DEF ScanChar
  <2> HIDE DEF t, bad, skip
  <2>2. /\ t \in ScanStates /\ t.exponent /\ ~t.numerals /\ t.first = st.first
        /\ (t.decimal <=> st.decimal) /\ (t.skip <=> skip) /\ (t.bad <=> bad)
    BY <1>4, <2>1 DEF ScanStates
  <2>3. Turns(s, st, i, t)
    BY <1>4, <2>2, NoDigits DEF Turns, bad, skip
  <2>4. QED
    BY <2>2, <2>3 DEF t
<1>5. CASE ~st.bad /\ ~st.skip /\ ~(i = 1 /\ s[i] = "-") /\ s[i] \notin Digits \cup {".", "e", "E"}
  <2>1. t = [st EXCEPT !.bad = TRUE]
    BY <1>5 DEF ScanChar
  <2> HIDE DEF t
  <2>2. t \in ScanStates /\ Turns(s, st, i, t)
    BY <1>5, <2>1 DEF Turns, ScanStates
  <2>3. QED
    BY <2>2 DEF t
<1>6. QED
  BY <1>1, <1>2, <1>3, <1>4, <1>5

LEMMA ScanExists ==
  ASSUME NEW X, NEW s \in Seq(X)
  PROVE  IsScan(CHOOSE g : IsScan(g, s), s)
<1> DEFINE n == Len(s)
           D == ScanStates
           F == [p \in Nat \X D |-> ScanChar(s, p[2], p[1])]
<1>1. n \in Nat /\ DOMAIN s = 1..n /\ Scan0 \in D
  BY DEF Scan0, ScanStates
<1>2. F \in [Nat \X D -> D]
  BY ScanCharTurns
<1>3. PICK g \in [SUBSET (1..n) -> D] :
        \A S \in SUBSET (1..n) : g[S] = IF S = {} THEN Scan0 ELSE F[<<Max(S), g[S \ {Max(S)}]>>]
  <2> HIDE DEF n, D, F
  <2>1. HasFold(n, D, Scan0, F)
    BY <1>1, <1>2, FoldSubsets
  <2>2. QED
    BY <2>1 DEF HasFold
<1>4. DOMAIN Positions(s) = 1..n /\ \A i \in 1..n : Positions(s)[i] = i
  BY <1>1 DEF Positions
<1>5. ASSUME NEW S \in SUBSET (1..n), S # {}
      PROVE  g[S] = ScanChar(s, g[S \ {Max(S)}], Positions(s)[Max(S)])
  <2>1. Max(S) \in 1..n /\ Max(S) \in Nat
    <3> HIDE DEF n, D, F
    <3>1. Max(S) \in 1..n
      BY <1>1, <1>5, MaxIsGreatest
    <3>2. QED
      BY <1>1, <3>1
  <2>2. g[S \ {Max(S)}] \in D
    <3> HIDE DEF D
    <3>1. QED
      OBVIOUS
  <2>3. F[<<Max(S), g[S \ {Max(S)}]>>] = ScanChar(s, g[S \ {Max(S)}], Max(S))
    BY <2>1, <2>2
  <2> HIDE DEF F, D
  <2>4. QED
    BY <1>3, <1>4, <1>5, <2>1, <2>3
<1>6. g[{}] = Scan0
  BY <1>3
<1> HIDE DEF F, D
<1>7. IsScan(g, s)
  BY <1>4, <1>5, <1>6 DEF IsScan
<1>8. QED
  BY <1>7

\* The local variables of the scan behind the first k characters of s.
ScanTo(s, k) == (CHOOSE g : IsScan(g, s))[1..k]

LEMMA ScanSteps ==
  ASSUME NEW X, NEW s \in Seq(X)
  PROVE  /\ Scan(s) = ScanTo(s, Len(s)) /\ ScanTo(s, 0) = Scan0
         /\ \A k \in 1..Len(s) : ScanTo(s, k) = ScanChar(s, ScanTo(s, k - 1), k)
<1> DEFINE g == CHOOSE x : IsScan(x, s)
<1>1. IsScan(g, s)
  BY ScanExists
<1>2. /\ Len(s) \in Nat /\ DOMAIN s = 1..Len(s) /\ 1..0 = {}
      /\ DOMAIN Positions(s) = 1..Len(s) /\ \A i \in 1..Len(s) : Positions(s)[i] = i
  BY DEF Positions
<1>3. Scan(s) = ScanTo(s, Len(s))
  <2>1. Scan(s) = (CHOOSE x : IsScan(x, s))[DOMAIN Positions(s)]
    BY DEF Scan, FoldLeftDomain, FoldLeft, MapThenFoldSet, IsScan, Positions
  <2>2. QED
    BY <1>2, <2>1 DEF ScanTo
<1>4. \A k \in Nat : ScanTo(s, k) = g[1..k]
  BY DEF ScanTo
<1> HIDE DEF g
<1>5. g[{}] = Scan0
  BY <1>1 DEF IsScan
<1>6. ASSUME NEW k \in 1..Len(s) PROVE g[1..k] = ScanChar(s, g[1..k - 1], k)
  <2>1. 1..k \in SUBSET (1..Len(s)) /\ k \in 1..k /\ k \in Nat \ {0}
    BY <1>2
  <2>2. Max(1..k) = k /\ (1..k) \ {k} = 1..k - 1
    BY <2>1, MaxOfInterval
  <2>3. Positions(s)[k] = k /\ 1..k # {} /\ 1..k \in SUBSET DOMAIN Positions(s)
    BY <1>2, <2>1
  <2>4. g[1..k] = ScanChar(s, g[(1..k) \ {Max(1..k)}], Positions(s)[Max(1..k)])
    BY <1>1, <2>3 DEF IsScan
  <2>5. QED
    BY <2>2, <2>3, <2>4
<1>7. \A k \in 1..Len(s) : k \in Nat /\ k - 1 \in Nat
  BY <1>2
<1>8. QED
  BY <1>2, <1>3, <1>4, <1>5, <1>6, <1>7

LEMMA ScanTypes ==
  ASSUME NEW X, NEW s \in Seq(X)
  PROVE  \A k \in 0..Len(s) : ScanTo(s, k) \in ScanStates
<1> DEFINE T == {k \in 1..Len(s) : ScanTo(s, k) \in ScanStates}
<1>1. Len(s) \in Nat /\ Scan0 \in ScanStates
  BY DEF Scan0, ScanStates
<1>2. T \in SUBSET (Nat \ {0})
  OBVIOUS
<1>3. ASSUME NEW k \in 1..Len(s), ScanTo(s, k - 1) \in ScanStates PROVE ScanTo(s, k) \in ScanStates
  BY <1>3, ScanSteps, ScanCharTurns
<1>4. Len(s) > 0 => 1 \in T
  BY <1>1, <1>3, ScanSteps
<1>5. ASSUME NEW k \in T, k + 1 <= Len(s) PROVE k + 1 \in T
  <2>1. k + 1 \in 1..Len(s) /\ (k + 1) - 1 = k /\ ScanTo(s, k) \in ScanStates
    BY <1>1, <1>5
  <2>2. QED
    BY <1>3, <2>1
<1>6. 1..Len(s) \subseteq T
  <2> HIDE DEF T
  <2>1. QED
    BY <1>1, <1>2, <1>4, <1>5, Counting
<1>7. \A k \in 0..Len(s) : k \in 1..Len(s) \/ k = 0
  BY <1>1
<1>8. QED
  BY <1>1, <1>6, <1>7, ScanSteps

-----------------------------------------------------------------------------
(***************************************************************************)
(* The parts of what has been read: a minus, digits up to i, a period and  *)
(* digits up to j, an exponent up to k.                                    *)
(***************************************************************************)
Minus(s) == IF CharAt(s, 1) = "-" THEN 1 ELSE 0
Sign(s, j) == IF CharAt(s, j + 2) \in {"-", "+"} THEN 1 ELSE 0
DigitsIn(s, a, b) == \A x \in a..b : s[x] \in Digits

Fits(s, i, j, k) ==
  /\ Minus(s) <= i /\ i <= j /\ j <= k /\ DigitsIn(s, Minus(s) + 1, i)
  /\ i < j => /\ i > Minus(s) /\ s[i + 1] = "." /\ CharAt(s, i + 2) \in Digits
              /\ DigitsIn(s, i + 2, j)
  /\ j < k => i > Minus(s) /\ s[j + 1] \in {"e", "E"} /\ DigitsIn(s, j + 2 + Sign(s, j), k)

\* The local variables then.
Stands(st, s, i, j, k) ==
  /\ st.numerals <=> IF j < k THEN k > j + 1 + Sign(s, j) ELSE i > Minus(s)
  /\ st.first = IF i > Minus(s) THEN Minus(s) + 1 ELSE 0
  /\ (st.decimal <=> i < j) /\ (st.exponent <=> j < k)
  /\ (st.skip <=> k = j + 1 /\ Sign(s, j) = 1) /\ ~st.bad

LEMMA FitsFirst ==
  ASSUME NEW X, NEW s \in Seq(X), Len(s) >= 1,
         ~ScanTo(s, 1).bad \/ s[1] \in Digits \cup {"-"}
  PROVE  Fits(s, 1, 1, 1) /\ Stands(ScanTo(s, 1), s, 1, 1, 1)
<1> DEFINE t == ScanTo(s, 1)
           o == Minus(s)
<1>1. Len(s) \in Nat /\ 1 \in 1..Len(s) /\ 1 - 1 = 0 /\ CharAt(s, 1) = s[1]
  BY DEF CharAt
<1>2. t = ScanChar(s, Scan0, 1) /\ Scan0 \in ScanStates
  BY <1>1, ScanSteps DEF Scan0, ScanStates
<1>3. Turns(s, Scan0, 1, t)
  BY <1>2, ScanCharTurns
<1>4. ~t.bad \/ s[1] \in Digits \cup {"-"}
  OBVIOUS
<1> HIDE DEF t
<1>5. /\ ~Scan0.bad /\ ~Scan0.skip /\ Scan0.first = 0 /\ ~Scan0.numerals
      /\ ~Scan0.decimal /\ ~Scan0.exponent
  BY DEF Scan0
<1>6. CASE s[1] = "-"
  <2>1. o = 1 /\ Fits(s, 1, 1, 1)
    BY <1>1, <1>6 DEF Minus, Fits, DigitsIn
  <2>2. Stands(t, s, 1, 1, 1)
    BY <1>3, <1>5, <1>6, <2>1 DEF Turns, SameDigits, SameParts, Stands
  <2>3. QED
    BY <2>1, <2>2 DEF t
<1>7. CASE s[1] \in Digits
  <2>1. o = 0
    BY <1>1, <1>7, NoDigits DEF Minus
  <2>2. Fits(s, 1, 1, 1)
    BY <1>7, <2>1 DEF Fits, DigitsIn
  <2>3. Stands(t, s, 1, 1, 1)
    BY <1>3, <1>5, <1>7, <2>1 DEF Turns, SameParts, Stands
  <2>4. QED
    BY <2>2, <2>3 DEF t
<1>8. CASE s[1] \notin Digits /\ s[1] # "-"
  BY <1>3, <1>4, <1>5, <1>8 DEF Turns
<1>9. QED
  BY <1>6, <1>7, <1>8

LEMMA FitsNext ==
  ASSUME NEW X, NEW s \in Seq(X), NEW k \in 1..Len(s) - 1,
         NEW i \in Nat, NEW j \in Nat, Fits(s, i, j, k), Stands(ScanTo(s, k), s, i, j, k),
         ~ScanTo(s, k + 1).bad
  PROVE  \E i2, j2 \in Nat :
           Fits(s, i2, j2, k + 1) /\ Stands(ScanTo(s, k + 1), s, i2, j2, k + 1)
<1> DEFINE o == Minus(s)
           st == ScanTo(s, k)
           t == ScanTo(s, k + 1)
           c == s[k + 1]
           m == k + 1
<1>1. /\ Len(s) \in Nat /\ k \in Nat /\ k >= 1 /\ m \in 1..Len(s) /\ m - 1 = k /\ m # 1
      /\ CharAt(s, k) = s[k] /\ CharAt(s, m) = c /\ o \in {0, 1} /\ Sign(s, j) \in {0, 1}
  BY DEF CharAt, Minus, Sign
<1>2. t = ScanChar(s, st, m) /\ st \in ScanStates
  <2>1. ScanTo(s, k) \in ScanStates
    BY <1>1, ScanTypes
  <2>2. ScanTo(s, m) = ScanChar(s, ScanTo(s, m - 1), m)
    BY <1>1, ScanSteps
  <2>3. QED
    BY <1>1, <2>1, <2>2
<1>3. Turns(s, st, m, t)
  BY <1>1, <1>2, ScanCharTurns
<1>4. ~t.bad /\ Stands(st, s, i, j, k)
  OBVIOUS
<1>5. SUFFICES \E i2, j2 \in Nat : Fits(s, i2, j2, m) /\ Stands(t, s, i2, j2, m)
  OBVIOUS
<1> HIDE DEF t, st
<1>6. ~st.bad /\ (st.decimal <=> i < j) /\ (st.exponent <=> j < k)
      /\ (st.skip <=> k = j + 1 /\ Sign(s, j) = 1)
  BY <1>4 DEF Stands
<1>7. Minus(s) <= i /\ i <= j /\ j <= k
  BY DEF Fits
<1>8. CASE st.skip
  <2>1. k = j + 1 /\ Sign(s, j) = 1
    BY <1>6, <1>8
  <2>2. Fits(s, i, j, m)
    BY <1>1, <2>1 DEF Fits, DigitsIn
  <2>3. Stands(t, s, i, j, m)
    BY <1>1, <1>3, <1>4, <1>7, <1>8, <2>1 DEF Stands, Turns, SameDigits, SameParts
  <2>4. QED
    BY <2>2, <2>3
<1>9. CASE ~st.skip /\ c \in Digits
  <2>1. /\ t.numerals /\ t.first = (IF st.first = 0 THEN m ELSE st.first)
        /\ SameParts(t, st) /\ ~t.skip /\ ~t.bad
    BY <1>3, <1>6, <1>9 DEF Turns
  <2>2. CASE j = k /\ i = k
    <3>1. Fits(s, m, m, m)
      BY <1>1, <1>9, <2>2 DEF Fits, DigitsIn
    <3>2. Stands(t, s, m, m, m)
      BY <1>1, <1>4, <1>7, <2>1, <2>2 DEF Stands, SameParts
    <3>3. QED
      BY <1>1, <3>1, <3>2
  <2>3. CASE j = k /\ i < k
    <3>1. Fits(s, i, m, m)
      BY <1>1, <1>9, <2>3 DEF Fits, DigitsIn
    <3>2. i > o
      BY <2>3 DEF Fits
    <3>3. Stands(t, s, i, m, m)
      BY <1>1, <1>4, <2>1, <2>3, <3>2 DEF Stands, SameParts
    <3>4. QED
      BY <1>1, <3>1, <3>3
  <2>4. CASE j < k
    <3>1. i > o /\ k > j + Sign(s, j)
      BY <1>1, <1>6, <1>9, <2>4 DEF Fits
    <3>2. Fits(s, i, j, m)
      BY <1>1, <1>9, <2>4 DEF Fits, DigitsIn
    <3>3. Stands(t, s, i, j, m)
      BY <1>1, <1>4, <1>6, <1>9, <2>1, <2>4, <3>1 DEF Stands, SameParts
    <3>4. QED
      BY <3>2, <3>3
  <2>5. QED
    BY <1>1, <1>7, <2>2, <2>3, <2>4
<1>10. CASE ~st.skip /\ c = "."
  <2>1. /\ SameDigits(t, st) /\ t.decimal /\ (t.exponent <=> st.exponent) /\ ~t.skip
        /\ s[k] \in Digits /\ CharAt(s, m + 1) \in Digits /\ ~st.decimal /\ ~st.exponent
    BY <1>1, <1>3, <1>4, <1>6, <1>10 DEF Turns
  <2>2. i = k /\ j = k
    BY <1>1, <1>6, <1>7, <2>1
  <2>3. k > o
    <3>1. k = 1 => o = 0
      BY <1>1, <2>1, NoDigits DEF Minus
    <3>2. QED
      BY <1>1, <3>1
  <2>4. Fits(s, k, m, m)
    <3>1. m + 1 = k + 2
      BY <1>1
    <3>2. CharAt(s, k + 2) \in Digits /\ DigitsIn(s, k + 2, m)
      BY <1>1, <2>1, <3>1 DEF DigitsIn
    <3>3. DigitsIn(s, o + 1, k)
      BY <2>2 DEF Fits
    <3>4. QED
      BY <1>1, <1>10, <2>3, <3>2, <3>3 DEF Fits
  <2>5. Stands(t, s, k, m, m)
    BY <1>1, <1>4, <2>1, <2>2, <2>3 DEF Stands, SameDigits
  <2>6. QED
    BY <1>1, <2>4, <2>5
<1>11. CASE ~st.skip /\ c \in {"e", "E"}
  <2>1. /\ t.exponent /\ ~t.numerals /\ t.first = st.first /\ (t.decimal <=> st.decimal)
        /\ t.skip <=> CharAt(s, m + 1) \in {"-", "+"}
        /\ ~st.exponent /\ st.numerals
    BY <1>3, <1>4, <1>6, <1>11 DEF Turns
  <2>2. j = k
    BY <1>1, <1>6, <1>7, <2>1
  <2>3. i > o
    BY <1>4, <2>1, <2>2 DEF Stands
  <2>4. Fits(s, i, k, m)
    BY <1>1, <1>11, <2>2, <2>3 DEF Fits, DigitsIn
  <2>5. CharAt(s, m + 1) \in {"-", "+"} <=> Sign(s, k) = 1
    <3>1. m + 1 = k + 2
      BY <1>1
    <3>2. QED
      BY <3>1 DEF Sign
  <2>6. Sign(s, k) \in {0, 1}
    BY DEF Sign
  <2>7. Stands(t, s, i, k, m)
    BY <1>1, <1>4, <2>1, <2>2, <2>3, <2>5, <2>6 DEF Stands
  <2>8. QED
    BY <1>1, <2>4, <2>7
<1>12. CASE ~st.skip /\ c \notin Digits \cup {".", "e", "E"}
  BY <1>1, <1>3, <1>4, <1>6, <1>12 DEF Turns
<1>13. QED
  BY <1>8, <1>9, <1>10, <1>11, <1>12

LEMMA ScanFits ==
  ASSUME NEW X, NEW s \in Seq(X), Len(s) >= 1, ~ScanTo(s, Len(s)).bad
  PROVE  \E i, j \in Nat : Fits(s, i, j, Len(s)) /\ Stands(ScanTo(s, Len(s)), s, i, j, Len(s))
<1> DEFINE Apt(k) == \E i, j \in Nat : Fits(s, i, j, k) /\ Stands(ScanTo(s, k), s, i, j, k)
           T == {k \in 1..Len(s) : ScanTo(s, k).bad \/ Apt(k)}
<1>1. Len(s) \in Nat /\ Len(s) \in 1..Len(s)
  OBVIOUS
<1>2. T \in SUBSET (Nat \ {0})
  OBVIOUS
<1>3. 1 \in T
  BY <1>1, FitsFirst
<1>4. ASSUME NEW k \in T, k + 1 <= Len(s) PROVE k + 1 \in T
  <2>1. k \in 1..Len(s) - 1 /\ k + 1 \in 1..Len(s) /\ (k + 1) - 1 = k /\ k \in 0..Len(s)
        /\ k + 1 \in Nat
    BY <1>1, <1>4
  <2>2. ScanTo(s, k).bad => ScanTo(s, k + 1).bad
    <3>1. ScanTo(s, k + 1) = ScanChar(s, ScanTo(s, k), k + 1) /\ ScanTo(s, k) \in ScanStates
      BY <2>1, ScanSteps, ScanTypes
    <3>2. Turns(s, ScanTo(s, k), k + 1, ScanTo(s, k + 1))
      BY <2>1, <3>1, ScanCharTurns
    <3>3. QED
      BY <3>2 DEF Turns
  <2>3. ASSUME Apt(k), ~ScanTo(s, k + 1).bad PROVE Apt(k + 1)
    BY <2>1, <2>3, FitsNext
  <2> HIDE DEF Apt
  <2>4. QED
    BY <2>1, <2>2, <2>3
<1>5. 1..Len(s) \subseteq T
  <2> HIDE DEF T
  <2>1. QED
    BY <1>1, <1>2, <1>3, <1>4, Counting
<1>6. QED
  BY <1>1, <1>5

Lesser(a, b) == IF a < b THEN a ELSE b

LEMMA FitsStand ==
  ASSUME NEW X, NEW s \in Seq(X), NEW i \in Nat, NEW j \in Nat,
         Fits(s, i, j, Len(s)), i > Minus(s), NEW k \in 1..Len(s) - 1,
         Stands(ScanTo(s, k), s, Lesser(i, k), Lesser(j, k), k)
  PROVE  Stands(ScanTo(s, k + 1), s, Lesser(i, k + 1), Lesser(j, k + 1), k + 1)
<1> DEFINE o == Minus(s)
           n == Len(s)
           st == ScanTo(s, k)
           t == ScanTo(s, k + 1)
           m == k + 1
<1>1. /\ n \in Nat /\ k \in Nat /\ k >= 1 /\ m \in 1..n /\ m - 1 = k /\ m # 1
      /\ CharAt(s, k) = s[k] /\ CharAt(s, m) = s[m] /\ o \in {0, 1} /\ Sign(s, j) \in {0, 1}
  BY DEF CharAt, Minus, Sign
<1>2. t = ScanChar(s, st, m) /\ st \in ScanStates
  <2>1. ScanTo(s, k) \in ScanStates
    BY <1>1, ScanTypes
  <2>2. ScanTo(s, m) = ScanChar(s, ScanTo(s, m - 1), m)
    BY <1>1, ScanSteps
  <2>3. QED
    BY <1>1, <2>1, <2>2
<1>3. Turns(s, st, m, t)
  BY <1>1, <1>2, ScanCharTurns
<1>4. Stands(st, s, Lesser(i, k), Lesser(j, k), k)
  OBVIOUS
<1>5. SUFFICES Stands(t, s, Lesser(i, m), Lesser(j, m), m)
  OBVIOUS
<1> HIDE DEF t, st
<1>6. o < i /\ i <= j /\ j <= n
  BY DEF Fits
<1>7. CASE m <= i
  <2>1. s[m] \in Digits
    BY <1>1, <1>7 DEF Fits, DigitsIn
  <2>2. Lesser(i, k) = k /\ Lesser(j, k) = k /\ Lesser(i, m) = m /\ Lesser(j, m) = m
    BY <1>1, <1>6, <1>7 DEF Lesser
  <2>3. QED
    BY <1>1, <1>3, <1>4, <2>1, <2>2 DEF Stands, Turns, SameParts
<1>8. CASE m = i + 1 /\ i < j
  <2>1. s[m] = "." /\ CharAt(s, m + 1) \in Digits /\ s[k] \in Digits
    <3>1. m + 1 = i + 2 /\ k = i
      BY <1>1, <1>8
    <3>2. QED
      BY <1>1, <1>6, <1>8, <3>1 DEF Fits, DigitsIn
  <2>2. Lesser(i, k) = k /\ Lesser(j, k) = k /\ Lesser(i, m) = k /\ Lesser(j, m) = m
    BY <1>1, <1>6, <1>8 DEF Lesser
  <2>3. k > o
    BY <1>1, <1>6, <1>8
  <2>4. QED
    BY <1>1, <1>3, <1>4, <2>1, <2>2, <2>3 DEF Stands, Turns, SameDigits
<1>9. CASE i + 1 < m /\ m <= j
  <2>1. s[m] \in Digits
    BY <1>1, <1>9 DEF Fits, DigitsIn
  <2>2. Lesser(i, k) = i /\ Lesser(j, k) = k /\ Lesser(i, m) = i /\ Lesser(j, m) = m
        /\ i < k
    BY <1>1, <1>6, <1>9 DEF Lesser
  <2>3. QED
    BY <1>1, <1>3, <1>4, <1>6, <2>1, <2>2 DEF Stands, Turns, SameParts
<1>10. CASE m = j + 1
  <2>1. s[m] \in {"e", "E"}
    BY <1>1, <1>10 DEF Fits
  <2>2. Lesser(i, k) = i /\ Lesser(j, k) = k /\ Lesser(i, m) = i /\ Lesser(j, m) = k /\ k = j
    BY <1>1, <1>6, <1>10 DEF Lesser
  <2>3. CharAt(s, m + 1) \in {"-", "+"} <=> Sign(s, k) = 1
    <3>1. m + 1 = k + 2
      BY <1>1
    <3>2. QED
      BY <3>1 DEF Sign
  <2>4. QED
    BY <1>1, <1>3, <1>4, <1>6, <2>1, <2>2, <2>3 DEF Stands, Turns
<1>11. CASE m > j + 1
  <2>1. Lesser(i, k) = i /\ Lesser(j, k) = j /\ Lesser(i, m) = i /\ Lesser(j, m) = j /\ j < k
    BY <1>1, <1>6, <1>11 DEF Lesser
  <2>2. CASE k = j + 1 /\ Sign(s, j) = 1
    BY <1>1, <1>3, <1>4, <1>6, <2>1, <2>2 DEF Stands, Turns, SameDigits, SameParts
  <2>3. CASE ~(k = j + 1 /\ Sign(s, j) = 1)
    <3>1. s[m] \in Digits
      BY <1>1, <2>1, <2>3 DEF Fits, DigitsIn
    <3>2. QED
      BY <1>1, <1>3, <1>4, <1>6, <2>1, <2>3, <3>1 DEF Stands, Turns, SameParts
  <2>4. QED
    BY <2>2, <2>3
<1>12. QED
  BY <1>1, <1>6, <1>7, <1>8, <1>9, <1>10, <1>11

LEMMA FitsScan ==
  ASSUME NEW X, NEW s \in Seq(X), NEW i \in Nat, NEW j \in Nat,
         Fits(s, i, j, Len(s)), i > Minus(s)
  PROVE  Stands(ScanTo(s, Len(s)), s, i, j, Len(s))
<1> DEFINE T == {k \in 1..Len(s) : Stands(ScanTo(s, k), s, Lesser(i, k), Lesser(j, k), k)}
<1>1. /\ Len(s) \in Nat /\ Minus(s) \in {0, 1} /\ Minus(s) < i /\ i <= j /\ j <= Len(s)
      /\ Len(s) \in 1..Len(s) /\ CharAt(s, 1) = s[1]
  BY DEF Fits, Minus, CharAt
<1>2. T \in SUBSET (Nat \ {0})
  OBVIOUS
<1>3. 1 \in T
  <2>1. s[1] \in Digits \cup {"-"}
    BY <1>1 DEF Fits, DigitsIn, Minus
  <2>2. Lesser(i, 1) = 1 /\ Lesser(j, 1) = 1
    BY <1>1 DEF Lesser
  <2>3. QED
    BY <1>1, <2>1, <2>2, FitsFirst
<1>4. ASSUME NEW k \in T, k + 1 <= Len(s) PROVE k + 1 \in T
  <2>1. k \in 1..Len(s) - 1 /\ k + 1 \in 1..Len(s)
    BY <1>1, <1>4
  <2>2. QED
    BY <1>4, <2>1, FitsStand
<1>5. 1..Len(s) \subseteq T
  <2> HIDE DEF T
  <2>1. QED
    BY <1>1, <1>2, <1>3, <1>4, Counting
<1>6. Lesser(i, Len(s)) = i /\ Lesser(j, Len(s)) = j
  BY <1>1 DEF Lesser
<1>7. QED
  BY <1>1, <1>5, <1>6

\* s is a number: digits up to i, a fraction up to j, an exponent to the end.
Parts(s, i, j) ==
  /\ Len(s) >= 1 /\ Fits(s, i, j, Len(s)) /\ i > Minus(s)
  /\ j < Len(s) => Len(s) > j + 1 + Sign(s, j)
  /\ i = Len(s) => s[Minus(s) + 1] # "0" \/ Len(s) = Minus(s) + 1

LEMMA NumberWhenStands ==
  ASSUME NEW X, NEW s \in Seq(X), Len(s) >= 1, NEW i \in Nat, NEW j \in Nat,
         Fits(s, i, j, Len(s)), Stands(Scan(s), s, i, j, Len(s))
  PROVE  /\ IsJsonNumber(s) <=> Parts(s, i, j)
         /\ IsFloat(s) <=> Parts(s, i, j) /\ (i < j \/ j < Len(s))
<1> DEFINE st == Scan(s)
           n == Len(s)
           o == Minus(s)
<1>1. n \in Nat /\ o \in {0, 1} /\ o <= i /\ i <= j /\ j <= n /\ Sign(s, j) \in {0, 1}
  BY DEF Fits, Minus, Sign
<1>2. /\ st.numerals <=> IF j < n THEN n > j + 1 + Sign(s, j) ELSE i > o
      /\ i > o => st.first = o + 1
      /\ (st.decimal <=> i < j) /\ (st.exponent <=> j < n) /\ ~st.bad
  BY DEF Stands
<1>3. j < n \/ i < j => i > o
  BY DEF Fits
<1>4. ASSUME i > o
      PROVE  CharAt(s, st.first) = s[o + 1]
             /\ (i = n => (CharAt(s, st.first + 1) = "NUL" <=> n = o + 1))
  <2>1. st.first = o + 1 /\ o + 1 \in 1..n /\ st.first + 1 = o + 2
    BY <1>1, <1>2, <1>4
  <2>2. CharAt(s, st.first) = s[o + 1]
    BY <2>1 DEF CharAt
  <2>3. CASE o + 2 <= n
    <3>1. i = n => s[o + 2] \in Digits
      BY <1>1, <2>3 DEF Fits, DigitsIn
    <3>2. CharAt(s, o + 2) = s[o + 2]
      BY <1>1, <2>3 DEF CharAt
    <3>3. n # o + 1
      BY <1>1, <2>3
    <3>4. QED
      BY <2>1, <2>2, <3>1, <3>2, <3>3, NoDigits
  <2>4. CASE ~(o + 2 <= n)
    <3>1. CharAt(s, o + 2) = "NUL" /\ n = o + 1
      BY <1>1, <1>4, <2>4 DEF CharAt
    <3>2. QED
      BY <2>1, <2>2, <3>1
  <2>5. QED
    BY <2>3, <2>4
<1>5. IsJsonNumber(s) <=>
        /\ ~st.bad /\ st.numerals
        /\ CharAt(s, st.first) # "0" \/ CharAt(s, st.first + 1) = "NUL" \/ st.exponent \/ st.decimal
  BY DEF IsJsonNumber
<1>6. IsFloat(s) <=> IsJsonNumber(s) /\ (st.decimal \/ st.exponent)
  BY DEF IsFloat
<1> HIDE DEF st
<1>7. IsJsonNumber(s) <=> Parts(s, i, j)
  <2>1. CASE i > o /\ i = n
    BY <1>1, <1>2, <1>4, <1>5, <2>1 DEF Parts
  <2>2. CASE i > o /\ i # n
    BY <1>1, <1>2, <1>4, <1>5, <2>2 DEF Parts
  <2>3. CASE ~(i > o)
    BY <1>1, <1>2, <1>3, <1>5, <2>3 DEF Parts
  <2>4. QED
    BY <2>1, <2>2, <2>3
<1>8. QED
  BY <1>2, <1>6, <1>7

\* isJsonNumber takes the texts made of these parts, and no other.
LEMMA NumberParts ==
  ASSUME NEW X, NEW s \in Seq(X)
  PROVE  /\ IsJsonNumber(s) <=> \E i, j \in Nat : Parts(s, i, j)
         /\ \A i, j \in Nat : Parts(s, i, j) => (IsFloat(s) <=> i < j \/ j < Len(s))
<1>1. Len(s) \in Nat /\ Scan(s) = ScanTo(s, Len(s))
  BY ScanSteps
<1>2. ASSUME IsJsonNumber(s) PROVE \E i, j \in Nat : Parts(s, i, j)
  <2>1. ~Scan(s).bad /\ Scan(s).numerals
    BY <1>2 DEF IsJsonNumber
  <2>2. Len(s) >= 1
    <3>1. Len(s) = 0 => Scan(s) = Scan0
      BY <1>1, ScanSteps
    <3>2. ~Scan0.numerals
      BY DEF Scan0
    <3>3. QED
      BY <1>1, <2>1, <3>1, <3>2
  <2>3. PICK i, j \in Nat : Fits(s, i, j, Len(s)) /\ Stands(Scan(s), s, i, j, Len(s))
    BY <1>1, <2>1, <2>2, ScanFits
  <2>4. Parts(s, i, j)
    BY <1>2, <2>2, <2>3, NumberWhenStands
  <2>5. QED
    BY <2>4
<1>3. ASSUME NEW i \in Nat, NEW j \in Nat, Parts(s, i, j)
      PROVE  IsJsonNumber(s) /\ (IsFloat(s) <=> i < j \/ j < Len(s))
  <2>1. Len(s) >= 1 /\ Fits(s, i, j, Len(s)) /\ i > Minus(s)
    BY <1>3 DEF Parts
  <2>2. Stands(Scan(s), s, i, j, Len(s))
    BY <1>1, <2>1, FitsScan
  <2>3. QED
    BY <1>3, <2>1, <2>2, NumberWhenStands
<1>4. QED
  BY <1>2, <1>3

NumberSymbols == Digits \cup {".", "-", "+", "e", "E"}

LEMMA NumberMadeOf ==
  ASSUME NEW X, NEW s \in Seq(X), IsJsonNumber(s)
  PROVE  s # <<>> /\ \A x \in DOMAIN s : s[x] \in NumberSymbols
<1>1. PICK i, j \in Nat : Parts(s, i, j)
  BY NumberParts
<1>2. /\ Len(s) \in Nat /\ Len(s) >= 1 /\ Fits(s, i, j, Len(s)) /\ Minus(s) \in {0, 1}
      /\ Sign(s, j) \in {0, 1} /\ DOMAIN s = 1..Len(s)
  BY <1>1 DEF Parts, Minus, Sign
<1>3. ASSUME NEW x \in 1..Len(s) PROVE s[x] \in NumberSymbols
  <2>1. CASE x <= Minus(s)
    <3>1. x = 1 /\ Minus(s) = 1 /\ CharAt(s, 1) = s[1]
      BY <1>2, <2>1 DEF CharAt
    <3>2. QED
      BY <3>1 DEF Minus, NumberSymbols
  <2>2. CASE Minus(s) < x /\ x <= i
    BY <1>2, <2>2 DEF Fits, DigitsIn, NumberSymbols
  <2>3. CASE i < x /\ x <= j
    BY <1>2, <2>3 DEF Fits, DigitsIn, NumberSymbols
  <2>4. CASE j < x
    <3>1. CASE x = j + 2 /\ Sign(s, j) = 1
      <4>1. CharAt(s, j + 2) = s[x]
        BY <3>1 DEF CharAt
      <4>2. QED
        BY <3>1, <4>1 DEF Sign, NumberSymbols
    <3>2. CASE x = j + 1
      BY <1>2, <3>2 DEF Fits, NumberSymbols
    <3>3. CASE x > j + 1 /\ ~(x = j + 2 /\ Sign(s, j) = 1)
      BY <1>2, <3>3 DEF Fits, DigitsIn, NumberSymbols
    <3>4. QED
      BY <2>4, <3>1, <3>2, <3>3
  <2>5. QED
    BY <1>2, <2>1, <2>2, <2>3, <2>4 DEF Fits
<1>4. s # <<>>
  BY <1>2
<1>5. QED
  BY <1>2, <1>3, <1>4
=============================================================================
