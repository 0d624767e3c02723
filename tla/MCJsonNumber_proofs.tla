----------------------- MODULE MCJsonNumber_proofs -----------------------
(***************************************************************************)
(* isJsonNumber against the number grammar, for texts of any length over   *)
(* any characters.                                                         *)
(***************************************************************************)
EXTENDS MCJsonNumber, JsonNumber_proofs, SequenceTheorems

\* A piece of a text, position by position.
LEMMA PieceIs ==
  ASSUME NEW X, NEW s \in Seq(X), NEW a \in Nat \ {0}, NEW b \in Nat, b <= Len(s), a <= b + 1
  PROVE  /\ Piece(s, a, b) \in Seq(X) /\ Len(Piece(s, a, b)) = b + 1 - a
         /\ \A x \in 1..b + 1 - a : Piece(s, a, b)[x] = s[a + x - 1]
<1>1. \A x \in a..b : s[x] \in X
  OBVIOUS
<1>2. QED
  BY <1>1, SubSeqProperties DEF Piece

LEMMA DigitsAre ==
  ASSUME NEW X, NEW s \in Seq(X), NEW a \in Nat \ {0}, NEW b \in Nat, b <= Len(s), a <= b + 1
  PROVE  AllDigits(Piece(s, a, b)) <=> a <= b /\ DigitsIn(s, a, b)
<1> DEFINE p == Piece(s, a, b)
<1>1. /\ p \in Seq(X) /\ Len(p) = b + 1 - a
      /\ \A x \in 1..b + 1 - a : p[x] = s[a + x - 1]
  <2>1. /\ Piece(s, a, b) \in Seq(X) /\ Len(Piece(s, a, b)) = b + 1 - a
        /\ \A x \in 1..b + 1 - a : Piece(s, a, b)[x] = s[a + x - 1]
    BY PieceIs DEF Piece
  <2>2. QED
    BY <2>1
<1> HIDE DEF p
<1>2. DOMAIN p = 1..b + 1 - a /\ (p # <<>> <=> a <= b)
  BY <1>1
<1>3. ASSUME DigitsIn(s, a, b), NEW x \in 1..b + 1 - a PROVE p[x] \in Digits
  <2>1. a + x - 1 \in a..b
    OBVIOUS
  <2>2. QED
    BY <1>1, <1>3, <2>1 DEF DigitsIn
<1>4. ASSUME \A x \in 1..b + 1 - a : p[x] \in Digits, NEW y \in a..b PROVE s[y] \in Digits
  <2>1. y - a + 1 \in 1..b + 1 - a /\ a + (y - a + 1) - 1 = y
    OBVIOUS
  <2>2. QED
    BY <1>1, <1>4, <2>1
<1>5. AllDigits(p) <=> a <= b /\ DigitsIn(s, a, b)
  BY <1>2, <1>3, <1>4 DEF AllDigits, DigitsIn
<1>6. QED
  BY <1>5 DEF p

\* The parts of the grammar are pieces of the text behind the minus.
LEMMA MagnitudeIs ==
  ASSUME NEW X, NEW s \in Seq(X)
  PROVE  /\ Minus(s) \in {0, 1} /\ Minus(s) <= Len(s) /\ Len(s) \in Nat
         /\ Magnitude(s) = Piece(s, Minus(s) + 1, Len(s))
<1>1. Len(s) \in Nat /\ DOMAIN s = 1..Len(s) /\ (s # <<>> <=> Len(s) >= 1)
  OBVIOUS
<1>2. CASE s # <<>> /\ s[1] = "-"
  <2>1. Minus(s) = 1
    BY <1>1, <1>2 DEF Minus, CharAt
  <2>2. Tail(s) = SubSeq(s, 2, Len(s))
    BY <1>1, <1>2 DEF Tail
  <2>3. QED
    BY <1>1, <1>2, <2>1, <2>2 DEF Magnitude, Piece
<1>3. CASE ~(s # <<>> /\ s[1] = "-")
  <2>1. Minus(s) = 0
    BY <1>1, <1>3 DEF Minus, CharAt
  <2>2. Magnitude(s) = s
    BY <1>3 DEF Magnitude
  <2>3. SubSeq(s, 1, Len(s)) = s
    OBVIOUS
  <2>4. QED
    BY <1>1, <2>1, <2>2, <2>3 DEF Piece
<1>4. QED
  BY <1>2, <1>3

LEMMA PieceOfPiece ==
  ASSUME NEW X, NEW s \in Seq(X), NEW o \in Nat, NEW e \in Nat, o <= e, e <= Len(s),
         NEW a \in Nat \ {0}, NEW b \in Nat, b <= e - o, a <= b + 1
  PROVE  Piece(Piece(s, o + 1, e), a, b) = Piece(s, o + a, o + b)
<1> DEFINE m == Piece(s, o + 1, e)
           p == Piece(m, a, b)
           q == Piece(s, o + a, o + b)
<1>1. /\ m \in Seq(X) /\ Len(m) = e - o
      /\ \A x \in 1..e - o : m[x] = s[o + x]
  <2>1. /\ m \in Seq(X) /\ Len(m) = e + 1 - (o + 1)
        /\ \A x \in 1..e + 1 - (o + 1) : m[x] = s[(o + 1) + x - 1]
    BY PieceIs DEF Piece
  <2> HIDE DEF m
  <2>2. QED
    BY <2>1
<1> HIDE DEF m
<1>2. /\ p \in Seq(X) /\ Len(p) = b + 1 - a
      /\ \A x \in 1..b + 1 - a : p[x] = m[a + x - 1]
  BY <1>1, PieceIs DEF Piece
<1>3. /\ q \in Seq(X) /\ Len(q) = (o + b) + 1 - (o + a)
      /\ \A x \in 1..(o + b) + 1 - (o + a) : q[x] = s[(o + a) + x - 1]
  BY PieceIs DEF Piece
<1> HIDE DEF p, q
<1>4. Len(p) = Len(q)
  BY <1>2, <1>3
<1>5. ASSUME NEW x \in 1..Len(p) PROVE p[x] = q[x]
  <2>1. /\ x \in 1..b + 1 - a /\ x \in 1..(o + b) + 1 - (o + a)
        /\ a + x - 1 \in 1..e - o /\ o + (a + x - 1) = (o + a) + x - 1
    BY <1>2
  <2>2. QED
    BY <1>1, <1>2, <1>3, <2>1
<1>6. p = q
  BY <1>2, <1>3, <1>4, <1>5, SeqEqual
<1>7. QED
  BY <1>6 DEF p, q, m

\* What a fraction and an exponent are, position by position.
FracIn(s, a, b) == s[a] = "." /\ a < b /\ DigitsIn(s, a + 1, b)
ExpIn(s, a, b) ==
  /\ s[a] \in {"e", "E"} /\ a < b
  /\ DigitsIn(s, a + 1, b) \/ (s[a + 1] \in {"-", "+"} /\ a + 1 < b /\ DigitsIn(s, a + 2, b))

LEMMA PieceRest ==
  ASSUME NEW X, NEW s \in Seq(X), NEW a \in Nat \ {0}, NEW b \in Nat, b <= Len(s), a <= b
  PROVE  /\ Piece(s, a, b) # <<>> /\ Len(Piece(s, a, b)) = b + 1 - a
         /\ Piece(s, a, b)[1] = s[a] /\ Tail(Piece(s, a, b)) = Piece(s, a + 1, b)
         /\ a < b => /\ Piece(s, a, b)[2] = s[a + 1]
                     /\ Piece(Piece(s, a, b), 3, Len(Piece(s, a, b))) = Piece(s, a + 2, b)
<1> DEFINE p == Piece(s, a, b)
<1>1. /\ p \in Seq(X) /\ Len(p) = b + 1 - a
      /\ \A x \in 1..b + 1 - a : p[x] = s[a + x - 1]
  BY PieceIs DEF Piece
<1>2. \A u \in Nat \ {0}, v \in Nat : v <= b - (a - 1) /\ u <= v + 1 =>
        Piece(p, u, v) = Piece(s, (a - 1) + u, (a - 1) + v)
  <2> TAKE u \in Nat \ {0}, v \in Nat
  <2> HAVE v <= b - (a - 1) /\ u <= v + 1
  <2>1. a - 1 \in Nat /\ a - 1 <= b /\ (a - 1) + 1 = a
    OBVIOUS
  <2> DEFINE o == a - 1
  <2> HIDE DEF o
  <2>2. o \in Nat /\ o <= b /\ o + 1 = a /\ v <= b - o
    BY <2>1 DEF o
  <2>3. Piece(Piece(s, o + 1, b), u, v) = Piece(s, o + u, o + v)
    BY <2>2, PieceOfPiece DEF Piece
  <2>4. QED
    BY <2>2, <2>3 DEF o
<1> HIDE DEF p
<1>3. p # <<>> /\ p[1] = s[a] /\ (a < b => p[2] = s[a + 1])
  <2>1. 1 \in 1..b + 1 - a /\ a + 1 - 1 = a /\ (a < b => 2 \in 1..b + 1 - a /\ a + 2 - 1 = a + 1)
    OBVIOUS
  <2>2. QED
    BY <1>1, <2>1
<1>4. Tail(p) = Piece(s, a + 1, b)
  <2>1. Tail(p) = Piece(p, 2, Len(p))
    <3>1. p \in Seq(X) /\ p # <<>>
      BY <1>1, <1>3
    <3>2. QED
      BY <3>1 DEF Piece
  <2>2. Piece(p, 2, Len(p)) = Piece(s, (a - 1) + 2, (a - 1) + Len(p))
    BY <1>1, <1>2
  <2>3. (a - 1) + 2 = a + 1 /\ (a - 1) + Len(p) = b
    BY <1>1
  <2>4. QED
    BY <2>1, <2>2, <2>3
<1>5. a < b => Piece(p, 3, Len(p)) = Piece(s, a + 2, b)
  <2>1. a < b => Piece(p, 3, Len(p)) = Piece(s, (a - 1) + 3, (a - 1) + Len(p))
    BY <1>1, <1>2
  <2>2. (a - 1) + 3 = a + 2 /\ (a - 1) + Len(p) = b
    BY <1>1
  <2>3. QED
    BY <2>1, <2>2
<1>6. QED
  BY <1>1, <1>3, <1>4, <1>5 DEF p

LEMMA FracIs ==
  ASSUME NEW X, NEW s \in Seq(X), NEW a \in Nat \ {0}, NEW b \in Nat, b <= Len(s), a <= b + 1
  PROVE  Frac(Piece(s, a, b)) <=> a = b + 1 \/ FracIn(s, a, b)
<1>1. CASE a = b + 1
  <2>1. Len(Piece(s, a, b)) = 0 /\ Piece(s, a, b) \in Seq(X)
    BY <1>1, PieceIs DEF Piece
  <2>2. QED
    BY <1>1, <2>1 DEF Frac
<1>2. CASE a <= b
  <2>1. Piece(s, a, b) # <<>> /\ Piece(s, a, b)[1] = s[a] /\ Tail(Piece(s, a, b)) = Piece(s, a + 1, b)
    BY <1>2, PieceRest DEF Piece
  <2>2. AllDigits(Piece(s, a + 1, b)) <=> a + 1 <= b /\ DigitsIn(s, a + 1, b)
    BY <1>2, DigitsAre DEF Piece
  <2>3. a # b + 1 /\ (a + 1 <= b <=> a < b)
    BY <1>2
  <2>4. QED
    BY <2>1, <2>2, <2>3 DEF Frac, FracIn
<1>3. QED
  BY <1>1, <1>2

LEMMA ExpIs ==
  ASSUME NEW X, NEW s \in Seq(X), NEW a \in Nat \ {0}, NEW b \in Nat, b <= Len(s), a <= b + 1
  PROVE  Exp(Piece(s, a, b)) <=> a = b + 1 \/ ExpIn(s, a, b)
<1>1. CASE a = b + 1
  <2>1. Len(Piece(s, a, b)) = 0 /\ Piece(s, a, b) \in Seq(X)
    BY <1>1, PieceIs DEF Piece
  <2>2. QED
    BY <1>1, <2>1 DEF Exp
<1>2. CASE a <= b
  <2>1. /\ Piece(s, a, b) # <<>> /\ Piece(s, a, b)[1] = s[a]
        /\ Tail(Piece(s, a, b)) = Piece(s, a + 1, b) /\ Len(Piece(s, a, b)) = b + 1 - a
    BY <1>2, PieceRest DEF Piece
  <2>6. a < b => /\ Piece(s, a, b)[2] = s[a + 1]
                 /\ Piece(Piece(s, a, b), 3, Len(Piece(s, a, b))) = Piece(s, a + 2, b)
    BY <1>2, PieceRest DEF Piece
  <2>2. AllDigits(Piece(s, a + 1, b)) <=> a + 1 <= b /\ DigitsIn(s, a + 1, b)
    BY <1>2, DigitsAre DEF Piece
  <2>3. a < b => (AllDigits(Piece(s, a + 2, b)) <=> a + 2 <= b /\ DigitsIn(s, a + 2, b))
    BY <1>2, DigitsAre DEF Piece
  <2>4. a # b + 1 /\ (a + 1 <= b <=> a < b) /\ (a + 2 <= b <=> a + 1 < b)
        /\ (b + 1 - a > 1 <=> a < b)
    BY <1>2
  <2>5. QED
    BY <2>1, <2>2, <2>3, <2>4, <2>6 DEF Exp, ExpIn
<1>3. QED
  BY <1>1, <1>2

\* The grammar in the positions of the whole text.
Told(s, i, j) ==
  /\ Minus(s) < i /\ i <= j /\ j <= Len(s) /\ DigitsIn(s, Minus(s) + 1, i)
  /\ i = Len(s) => s[Minus(s) + 1] # "0" \/ Len(s) = Minus(s) + 1
  /\ i = j \/ FracIn(s, i + 1, j)
  /\ j = Len(s) \/ ExpIn(s, j + 1, Len(s))

LEMMA ToldIsParts ==
  ASSUME NEW X, NEW s \in Seq(X), NEW i \in Nat, NEW j \in Nat
  PROVE  Told(s, i, j) <=> Parts(s, i, j)
<1> DEFINE o == Minus(s)
           n == Len(s)
<1>1. o \in {0, 1} /\ n \in Nat /\ DOMAIN s = 1..n /\ Sign(s, j) \in {0, 1}
      /\ (j + 2 <= n => CharAt(s, j + 2) = s[j + 2])
  BY DEF Minus, Sign, CharAt
<1>8. n \in Nat /\ o \in Nat
  BY <1>1
<1>2. SUFFICES ASSUME o < i, i <= j, j <= n PROVE Told(s, i, j) <=> Parts(s, i, j)
  BY <1>1 DEF Told, Parts, Fits
<1>3. ASSUME j < n
      PROVE  ExpIn(s, j + 1, n) <=>
               s[j + 1] \in {"e", "E"} /\ DigitsIn(s, j + 2 + Sign(s, j), n) /\ n > j + 1 + Sign(s, j)
  <2>1. (j + 1) + 1 = j + 2 /\ (j + 1) + 2 = j + 3
    OBVIOUS
  <2>2. j + 1 < n => CharAt(s, j + 2) = s[j + 2] /\ j + 2 \in j + 2..n
    BY <1>1, <1>3
  <2>3. CASE Sign(s, j) = 1
    <3>1. CharAt(s, j + 2) \in {"-", "+"}
      BY <2>3 DEF Sign
    <3>2. j + 1 < n => ~DigitsIn(s, j + 2, n)
      BY <2>2, <3>1, NoDigits DEF DigitsIn
    <3>3. j + 2 + Sign(s, j) = j + 3 /\ j + 1 + Sign(s, j) = j + 2
      BY <2>3
    <3>4. QED
      BY <1>1, <1>3, <2>1, <2>2, <3>1, <3>2, <3>3 DEF ExpIn
  <2>4. CASE Sign(s, j) = 0
    <3>1. CharAt(s, j + 2) \notin {"-", "+"}
      BY <2>4 DEF Sign
    <3>2. j + 2 + Sign(s, j) = j + 2 /\ j + 1 + Sign(s, j) = j + 1
      BY <2>4
    <3>3. QED
      BY <1>1, <1>3, <2>1, <2>2, <3>1, <3>2 DEF ExpIn
  <2>5. QED
    BY <1>1, <2>3, <2>4
<1>4. ASSUME i < j, j < n => s[j + 1] \in {"e", "E"}
      PROVE  FracIn(s, i + 1, j) <=>
               s[i + 1] = "." /\ CharAt(s, i + 2) \in Digits /\ DigitsIn(s, i + 2, j)
  <2>1. (i + 1) + 1 = i + 2
    OBVIOUS
  <2>2. CASE i + 1 < j
    <3>1. CharAt(s, i + 2) = s[i + 2] /\ i + 2 \in i + 2..j
      BY <1>1, <1>2, <2>2 DEF CharAt
    <3>2. QED
      BY <2>1, <2>2, <3>1 DEF FracIn, DigitsIn
  <2>3. CASE i + 1 = j
    <3>1. i + 2 = j + 1
      BY <2>3
    <3>2. CharAt(s, j + 1) = IF j < n THEN s[j + 1] ELSE "NUL"
      BY <1>1, <1>2 DEF CharAt
    <3>3. CharAt(s, i + 2) \notin Digits
      BY <1>4, <3>1, <3>2, NoDigits
    <3>4. ~(i + 1 < j)
      BY <2>3
    <3>5. QED
      BY <3>3, <3>4 DEF FracIn
  <2>4. QED
    BY <1>4, <2>2, <2>3
<1>5. ASSUME Told(s, i, j) PROVE Parts(s, i, j)
  <2>1. j < n => ExpIn(s, j + 1, n)
    BY <1>2, <1>5 DEF Told
  <2>2. j < n => s[j + 1] \in {"e", "E"} /\ DigitsIn(s, j + 2 + Sign(s, j), n)
                 /\ n > j + 1 + Sign(s, j)
    BY <1>3, <2>1
  <2>3. i < j => FracIn(s, i + 1, j)
    BY <1>2, <1>5 DEF Told
  <2>4. i < j => s[i + 1] = "." /\ CharAt(s, i + 2) \in Digits /\ DigitsIn(s, i + 2, j)
    BY <1>4, <2>2, <2>3
  <2>5. DigitsIn(s, o + 1, i) /\ (i = n => s[o + 1] # "0" \/ n = o + 1)
    BY <1>5 DEF Told
  <2>6. Fits(s, i, j, n)
    <3>1. i > o /\ o <= i
      BY <1>8, <1>2
    <3>2. QED
      BY <1>2, <2>2, <2>4, <2>5, <3>1 DEF Fits
  <2>8. n >= 1 /\ i > o
    BY <1>8, <1>2
  <2>7. QED
    BY <1>2, <2>2, <2>5, <2>6, <2>8 DEF Parts
<1>6. ASSUME Parts(s, i, j) PROVE Told(s, i, j)
  <2>1. /\ Fits(s, i, j, n) /\ (j < n => n > j + 1 + Sign(s, j))
        /\ i = n => s[o + 1] # "0" \/ n = o + 1
    BY <1>6 DEF Parts
  <2>2. DigitsIn(s, o + 1, i)
        /\ (i < j => s[i + 1] = "." /\ CharAt(s, i + 2) \in Digits /\ DigitsIn(s, i + 2, j))
        /\ (j < n => s[j + 1] \in {"e", "E"} /\ DigitsIn(s, j + 2 + Sign(s, j), n))
    BY <2>1 DEF Fits
  <2>3. j < n => ExpIn(s, j + 1, n)
    BY <1>3, <2>1, <2>2
  <2>4. i < j => FracIn(s, i + 1, j)
    BY <1>4, <2>2
  <2>5. (i < j \/ i = j) /\ (j < n \/ j = n)
    BY <1>8, <1>2
  <2>6. QED
    BY <1>2, <2>1, <2>2, <2>3, <2>4, <2>5 DEF Told
<1>7. QED
  BY <1>5, <1>6

\* A choice of int and frac in the text behind the minus, as the grammar makes
\* it, and as positions of the whole text.
Chosen(s, i, j) ==
  LET m == Magnitude(s) IN
  /\ IF i = Len(m) THEN Unsigned(m) ELSE AllDigits(Piece(m, 1, i))
  /\ Frac(Piece(m, i + 1, j))
  /\ Exp(Piece(m, j + 1, Len(m)))

LEMMA ChosenIsTold ==
  ASSUME NEW X, NEW s \in Seq(X),
         NEW i \in 1..Len(Magnitude(s)), NEW j \in i..Len(Magnitude(s))
  PROVE  Chosen(s, i, j) <=> Told(s, Minus(s) + i, Minus(s) + j)
<1> DEFINE o == Minus(s)
           n == Len(s)
           m == Magnitude(s)
<1>1. o \in Nat /\ n \in Nat /\ o <= n /\ m = Piece(s, o + 1, n)
  BY MagnitudeIs
<1>2. m \in Seq(X) /\ Len(m) = n - o /\ \A x \in 1..n - o : m[x] = s[o + x]
  <2>1. /\ Piece(s, o + 1, n) \in Seq(X) /\ Len(Piece(s, o + 1, n)) = n + 1 - (o + 1)
        /\ \A x \in 1..n + 1 - (o + 1) : Piece(s, o + 1, n)[x] = s[(o + 1) + x - 1]
    BY <1>1, PieceIs DEF Piece
  <2> HIDE DEF m, n, o
  <2>2. n + 1 - (o + 1) = n - o
    BY <1>1
  <2>3. \A x \in 1..n - o : (o + 1) + x - 1 = o + x
    BY <1>1
  <2>4. QED
    BY <1>1, <2>1, <2>2, <2>3
<1>3. i \in 1..Len(m) /\ j \in i..Len(m)
  OBVIOUS
<1>4. \A u \in Nat \ {0}, v \in Nat : v <= n - o /\ u <= v + 1 =>
        Piece(m, u, v) = Piece(s, o + u, o + v)
  <2> TAKE u \in Nat \ {0}, v \in Nat
  <2> HAVE v <= n - o /\ u <= v + 1
  <2>1. Piece(Piece(s, o + 1, n), u, v) = Piece(s, o + u, o + v)
    <3> HIDE DEF m, n, o
    <3>1. n <= Len(s)
      BY DEF n
    <3>2. QED
      BY <1>1, <3>1, PieceOfPiece DEF Piece
  <2>2. QED
    BY <1>1, <2>1
<1>5. Chosen(s, i, j) <=>
        /\ IF i = Len(m) THEN Unsigned(m) ELSE AllDigits(Piece(m, 1, i))
        /\ Frac(Piece(m, i + 1, j))
        /\ Exp(Piece(m, j + 1, Len(m)))
  BY DEF Chosen
<1>6. Told(s, o + i, o + j) <=>
        /\ o < o + i /\ o + i <= o + j /\ o + j <= n /\ DigitsIn(s, o + 1, o + i)
        /\ o + i = n => s[o + 1] # "0" \/ n = o + 1
        /\ o + i = o + j \/ FracIn(s, (o + i) + 1, o + j)
        /\ o + j = n \/ ExpIn(s, (o + j) + 1, n)
  BY DEF Told
<1>7. n = Len(s)
  OBVIOUS
<1> HIDE DEF m, n, o
<1>8. /\ i \in Nat /\ j \in Nat /\ 1 <= i /\ i <= j /\ j <= n - o
      /\ (i = Len(m) <=> o + i = n) /\ o < o + i /\ o + i <= o + j /\ o + j <= n
      /\ (o + i = o + j <=> o + (i + 1) = (o + j) + 1) /\ (o + j = n <=> o + (j + 1) = n + 1)
      /\ (o + i) + 1 = o + (i + 1) /\ (o + j) + 1 = o + (j + 1)
  BY <1>1, <1>2, <1>3
<1>9. AllDigits(Piece(m, 1, i)) <=> DigitsIn(s, o + 1, o + i)
  <2>1. Piece(m, 1, i) = Piece(s, o + 1, o + i)
    <3>1. 1 \in Nat \ {0} /\ i \in Nat /\ i <= n - o /\ 1 <= i + 1
      BY <1>1, <1>8
    <3>2. QED
      BY <1>4, <3>1
  <2>2. o + 1 \in Nat \ {0} /\ o + i \in Nat /\ o + i <= Len(s) /\ o + 1 <= (o + i) + 1 /\ o + 1 <= o + i
    BY <1>1, <1>7, <1>8
  <2>3. QED
    BY <2>1, <2>2, DigitsAre DEF Piece
<1>10. ASSUME i = Len(m)
       PROVE  Unsigned(m) <=> DigitsIn(s, o + 1, o + i) /\ (s[o + 1] # "0" \/ n = o + 1)
  <2>1. Piece(m, 1, i) = m
    BY <1>2, <1>10 DEF Piece
  <2>2. m[1] = s[o + 1] /\ (Len(m) = 1 <=> n = o + 1)
    <3>1. 1 \in 1..n - o /\ Len(m) = n - o
      BY <1>1, <1>2, <1>8
    <3>2. n - o = 1 <=> n = o + 1
      BY <1>1
    <3>3. QED
      BY <1>2, <3>1, <3>2
  <2>3. QED
    BY <1>9, <2>1, <2>2 DEF Unsigned
<1>11. Frac(Piece(m, i + 1, j)) <=> o + i = o + j \/ FracIn(s, (o + i) + 1, o + j)
  <2>1. Piece(m, i + 1, j) = Piece(s, o + (i + 1), o + j)
    BY <1>4, <1>8
  <2>2. o + (i + 1) \in Nat \ {0} /\ o + j \in Nat /\ o + j <= Len(s) /\ o + (i + 1) <= (o + j) + 1
    BY <1>1, <1>7, <1>8
  <2>3. Frac(Piece(s, o + (i + 1), o + j)) <=>
          o + (i + 1) = (o + j) + 1 \/ FracIn(s, o + (i + 1), o + j)
    BY <2>2, FracIs DEF Piece
  <2>4. QED
    BY <1>8, <2>1, <2>3
<1>12. Exp(Piece(m, j + 1, Len(m))) <=> o + j = n \/ ExpIn(s, (o + j) + 1, n)
  <2>1. Piece(m, j + 1, Len(m)) = Piece(s, o + (j + 1), n)
    <3>1. Len(m) \in Nat /\ Len(m) <= n - o /\ j + 1 <= Len(m) + 1 /\ o + Len(m) = n /\ j + 1 \in Nat \ {0}
      BY <1>1, <1>2, <1>8
    <3>2. QED
      BY <1>4, <3>1
  <2>2. o + (j + 1) \in Nat \ {0} /\ n <= Len(s) /\ o + (j + 1) <= n + 1
    BY <1>1, <1>7, <1>8
  <2>3. Exp(Piece(s, o + (j + 1), n)) <=> o + (j + 1) = n + 1 \/ ExpIn(s, o + (j + 1), n)
    BY <1>1, <2>2, ExpIs DEF Piece
  <2>4. QED
    BY <1>8, <2>1, <2>3
<1>13. Told(s, o + i, o + j) <=> Chosen(s, i, j)
  BY <1>5, <1>6, <1>8, <1>9, <1>10, <1>11, <1>12
<1>14. QED
  BY <1>13 DEF o

\* The grammar says what the scan's parts say.
LEMMA LenientIsParts ==
  ASSUME NEW X, NEW s \in Seq(X)
  PROVE  LenientNumber(s) <=> \E i, j \in Nat : Parts(s, i, j)
<1> DEFINE l == Len(Magnitude(s))
<1>1. Minus(s) \in Nat /\ Minus(s) <= Len(s) /\ Len(s) \in Nat /\ l = Len(s) - Minus(s)
  <2>1. /\ Minus(s) \in Nat /\ Minus(s) <= Len(s) /\ Len(s) \in Nat
        /\ Magnitude(s) = Piece(s, Minus(s) + 1, Len(s))
    BY MagnitudeIs
  <2>2. Len(Piece(s, Minus(s) + 1, Len(s))) = Len(s) + 1 - (Minus(s) + 1)
    BY <2>1, PieceIs DEF Piece
  <2>3. QED
    BY <2>1, <2>2
<1>2. LenientNumber(s) <=> \E i \in 1..l : \E j \in i..l : Chosen(s, i, j)
  BY DEF LenientNumber, Chosen
<1>3. ASSUME NEW i \in 1..l, NEW j \in i..l, Chosen(s, i, j)
      PROVE  \E u, v \in Nat : Parts(s, u, v)
  <2>1. Told(s, Minus(s) + i, Minus(s) + j)
    BY <1>3, ChosenIsTold
  <2>2. Minus(s) + i \in Nat /\ Minus(s) + j \in Nat
    BY <1>1
  <2>3. QED
    BY <2>1, <2>2, ToldIsParts
<1>4. ASSUME NEW u \in Nat, NEW v \in Nat, Parts(s, u, v)
      PROVE  \E i \in 1..l : \E j \in i..l : Chosen(s, i, j)
  <2>1. Told(s, u, v)
    BY <1>4, ToldIsParts
  <2>2. Minus(s) < u /\ u <= v /\ v <= Len(s)
    BY <2>1 DEF Told
  <2> HIDE DEF l
  <2>3. /\ u - Minus(s) \in 1..l /\ v - Minus(s) \in u - Minus(s)..l
        /\ Minus(s) + (u - Minus(s)) = u /\ Minus(s) + (v - Minus(s)) = v
    BY <1>1, <2>2
  <2>4. Chosen(s, u - Minus(s), v - Minus(s))
    <3> DEFINE i == u - Minus(s)
               j == v - Minus(s)
    <3>1. i \in 1..Len(Magnitude(s)) /\ j \in i..Len(Magnitude(s))
      BY <2>3 DEF l
    <3>2. Told(s, Minus(s) + i, Minus(s) + j)
      BY <2>1, <2>3
    <3> HIDE DEF i, j
    <3>3. Chosen(s, i, j)
      BY <3>1, <3>2, ChosenIsTold
    <3>4. QED
      BY <3>3 DEF i, j
  <2>5. QED
    BY <2>3, <2>4
<1> HIDE DEF l
<1>5. QED
  BY <1>2, <1>3, <1>4

\* A fraction or an exponent shows as a period or an e.
LEMMA FloatShows ==
  ASSUME NEW X, NEW s \in Seq(X), NEW i \in Nat, NEW j \in Nat, Parts(s, i, j)
  PROVE  i < j \/ j < Len(s) <=> \E x \in DOMAIN s : s[x] \in {".", "e", "E"}
<1>1. /\ Len(s) \in Nat /\ Len(s) >= 1 /\ Minus(s) \in {0, 1} /\ DOMAIN s = 1..Len(s)
      /\ Minus(s) < i /\ i <= j /\ j <= Len(s) /\ DigitsIn(s, Minus(s) + 1, i)
  BY DEF Parts, Fits, Minus
<1>2. CASE i < j
  <2>1. s[i + 1] = "." /\ i + 1 \in DOMAIN s
    <3>1. s[i + 1] = "."
      BY <1>2 DEF Parts, Fits
    <3>2. QED
      BY <1>1, <1>2, <3>1
  <2>2. QED
    BY <1>2, <2>1
<1>3. CASE j < Len(s)
  <2>1. s[j + 1] \in {"e", "E"} /\ j + 1 \in DOMAIN s
    <3>1. s[j + 1] \in {"e", "E"}
      BY <1>3 DEF Parts, Fits
    <3>2. QED
      BY <1>1, <1>3, <3>1
  <2>2. QED
    BY <1>3, <2>1
<1>4. CASE i = j /\ j = Len(s)
  <2>1. ASSUME NEW x \in 1..Len(s) PROVE s[x] \notin {".", "e", "E"}
    <3>1. CASE x <= Minus(s)
      <4>1. x = 1 /\ Minus(s) = 1 /\ CharAt(s, 1) = s[1]
        BY <1>1, <3>1 DEF CharAt
      <4>2. s[x] = "-"
        BY <4>1 DEF Minus
      <4>3. QED
        BY <4>2
    <3>2. CASE Minus(s) < x
      <4>1. s[x] \in Digits
        BY <1>1, <1>4, <3>2 DEF DigitsIn
      <4>2. QED
        BY <4>1, NoDigits
    <3>3. QED
      BY <1>1, <3>1, <3>2
  <2>2. QED
    BY <1>1, <1>4, <2>1
<1>5. i < j \/ j < Len(s) \/ (i = j /\ j = Len(s))
  <2>1. i <= j /\ j <= Len(s) /\ Len(s) \in Nat
    BY <1>1
  <2> DEFINE n == Len(s)
  <2> HIDE DEF n
  <2>2. i < j \/ j < n \/ (i = j /\ j = n)
    BY <2>1 DEF n
  <2>3. QED
    BY <2>2 DEF n
<1>6. QED
  BY <1>2, <1>3, <1>4, <1>5

-----------------------------------------------------------------------------
LEMMA NumberText == Spec => [](text \in Seq(Chars))
<1>1. Init => text \in Seq(Chars)
  BY DEF Init
<1>2. text \in Seq(Chars) /\ [Next]_text => (text \in Seq(Chars))'
  BY DEF Next
<1>3. QED
  BY <1>1, <1>2, PTL DEF Spec

\* isJsonNumber accepts exactly the numbers of RFC 8259 and those with leading
\* zeros before a fraction or an exponent, for texts of any length over any
\* characters (isJsonNumber.c:18-77).
THEOREM NumbersAcceptedHolds == Spec => []NumbersAccepted
<1>1. text \in Seq(Chars) => NumbersAccepted
  BY NumberParts, LenientIsParts DEF NumbersAccepted
<1>2. QED
  BY <1>1, NumberText, PTL

\* An accepted text is reported as a float exactly when it has a fraction or an
\* exponent, for texts of any length over any characters (isJsonNumber.c:79-86).
THEOREM FloatsToldHolds == Spec => []FloatsTold
<1>1. ASSUME text \in Seq(Chars), LenientNumber(text)
      PROVE  IsFloat(text) <=> \E x \in DOMAIN text : text[x] \in {".", "e", "E"}
  <2>1. PICK i, j \in Nat : Parts(text, i, j)
    BY <1>1, LenientIsParts
  <2>2. IsFloat(text) <=> i < j \/ j < Len(text)
    BY <1>1, <2>1, NumberParts
  <2>3. i < j \/ j < Len(text) <=> \E x \in DOMAIN text : text[x] \in {".", "e", "E"}
    BY <1>1, <2>1, FloatShows
  <2>4. QED
    BY <2>2, <2>3
<1>2. text \in Seq(Chars) => FloatsTold
  BY <1>1 DEF FloatsTold
<1>3. QED
  BY <1>2, NumberText, PTL
=============================================================================
