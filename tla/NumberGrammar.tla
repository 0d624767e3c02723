--------------------------- MODULE NumberGrammar ---------------------------
(***************************************************************************)
(* The numbers of RFC 8259, section 6: [ minus ] int [ frac ] [ exp ],     *)
(* each part a piece of the text, whatever isJsonNumber does.              *)
(***************************************************************************)
EXTENDS JsonNumber, Integers

Piece(s, i, j) == SubSeq(s, i, j)
AllDigits(s) == s # <<>> /\ \A i \in DOMAIN s : s[i] \in Digits
Unsigned(s) == AllDigits(s) /\ (s[1] = "0" => Len(s) = 1)
Frac(s) == s = <<>> \/ (s[1] = "." /\ AllDigits(Tail(s)))
Exp(s) == s = <<>> \/ /\ s[1] \in {"e", "E"} /\ Len(s) > 1
                      /\ \/ AllDigits(Tail(s))
                         \/ s[2] \in {"-", "+"} /\ AllDigits(Piece(s, 3, Len(s)))
Magnitude(s) == IF s # <<>> /\ s[1] = "-" THEN Tail(s) ELSE s

StrictNumber(s) ==
  LET m == Magnitude(s) IN
  \E i \in 1..Len(m) : \E j \in i..Len(m) :
    /\ Unsigned(Piece(m, 1, i))
    /\ Frac(Piece(m, i + 1, j))
    /\ Exp(Piece(m, j + 1, Len(m)))

\* What the code takes: the grammar, but leading zeros pass once a fraction or
\* an exponent follows int.
LenientNumber(s) ==
  LET m == Magnitude(s) IN
  \E i \in 1..Len(m) : \E j \in i..Len(m) :
    /\ IF i = Len(m) THEN Unsigned(m) ELSE AllDigits(Piece(m, 1, i))
    /\ Frac(Piece(m, i + 1, j))
    /\ Exp(Piece(m, j + 1, Len(m)))
=============================================================================
