----------------------------- MODULE JsonNumber -----------------------------
(***************************************************************************)
(* isJsonNumber (isJsonNumber.c): the scan that decides whether the text   *)
(* of an unquoted literal is a number, and whether it is a float.  A text  *)
(* is a sequence of characters without its terminating NUL.                *)
(***************************************************************************)
EXTENDS Naturals, SequencesExt

Digits == {"0", "1", "2", "3", "4", "5", "6", "7", "8", "9"}

\* *(str + i), the terminator included; i counts from 1.
CharAt(str, i) == IF i \in DOMAIN str THEN str[i] ELSE "NUL"

\* The local variables of the scan.  first is the index of first_numeral, 0
\* while it is NULL; skip says that the sign behind an e was consumed with it.
Scan0 == [numerals |-> FALSE, first |-> 0, decimal |-> FALSE,
          exponent |-> FALSE, skip |-> FALSE, bad |-> FALSE]

\* Slip: a second period is let through.
ScanCharTwoPoints(str, st, i) ==
  IF str[i] = "." /\ ~st.bad /\ ~st.skip
  THEN [st EXCEPT !.decimal = TRUE,
                  !.bad = \/ i = 1 \/ CharAt(str, i - 1) \notin Digits
                          \/ CharAt(str, i + 1) \notin Digits \/ st.exponent]
  ELSE IF st.bad THEN st
  ELSE IF st.skip THEN [st EXCEPT !.skip = FALSE]
  ELSE IF i = 1 /\ str[i] = "-" THEN st
  ELSE IF str[i] \in Digits
  THEN [st EXCEPT !.numerals = TRUE, !.first = IF @ = 0 THEN i ELSE @]
  ELSE IF str[i] \in {"e", "E"}
  THEN [st EXCEPT !.exponent = TRUE, !.numerals = FALSE,
                  !.skip = CharAt(str, i + 1) \in {"-", "+"},
                  !.bad = st.exponent \/ ~st.numerals]
  ELSE [st EXCEPT !.bad = TRUE]

\* One turn of the loop, isJsonNumber.c:18-70, for the character at i.
ScanChar(str, st, i) ==
  LET c == str[i] IN
  IF st.bad THEN st
  ELSE IF st.skip THEN [st EXCEPT !.skip = FALSE]
  ELSE IF i = 1 /\ c = "-" THEN st
  ELSE IF c \in Digits
  THEN [st EXCEPT !.numerals = TRUE, !.first = IF @ = 0 THEN i ELSE @]
  ELSE IF c = "."
  THEN [st EXCEPT !.decimal = TRUE,
                  !.bad = \/ i = 1 \/ CharAt(str, i - 1) \notin Digits
                          \/ CharAt(str, i + 1) \notin Digits
                          \/ st.decimal \/ st.exponent]
  ELSE IF c \in {"e", "E"}
  THEN [st EXCEPT !.exponent = TRUE, !.numerals = FALSE,
                  !.skip = CharAt(str, i + 1) \in {"-", "+"},
                  !.bad = st.exponent \/ ~st.numerals]
  ELSE [st EXCEPT !.bad = TRUE]

Scan(str) == FoldLeftDomain(LAMBDA st, i : ScanChar(str, st, i), Scan0, str)

\* "It's only a number if several factors line up", isJsonNumber.c:72-77.
IsJsonNumber(str) ==
  LET st == Scan(str) IN
  /\ ~st.bad /\ st.numerals
  /\ \/ CharAt(str, st.first) # "0" \/ CharAt(str, st.first + 1) = "NUL"
     \/ st.exponent \/ st.decimal

\* Slip: an exponent alone does not make a float.
IsFloatByPoint(str) == IsJsonNumber(str) /\ Scan(str).decimal

\* *isFloatReturn, isJsonNumber.c:79-86.
IsFloat(str) ==
  IsJsonNumber(str) /\ (Scan(str).decimal \/ Scan(str).exponent)
=============================================================================
