---------------------------- MODULE MCJsonNumber ----------------------------
(***************************************************************************)
(* isJsonNumber against the number grammar of RFC 8259, section 6, for all *)
(* texts over a small alphabet.  A state is one text.                      *)
(***************************************************************************)
EXTENDS NumberGrammar

CONSTANTS Chars,   \* bound: the characters of the texts
          MaxText  \* bound: the length of the texts

VARIABLE text

Init == text = <<>>
Next == /\ Len(text) < MaxText
        /\ \E c \in Chars : text' = Append(text, c)
Spec == Init /\ [][Next]_text

-----------------------------------------------------------------------------
\* isJsonNumber accepts exactly the numbers of RFC 8259 and those with
\* leading zeros before a fraction or an exponent (isJsonNumber.c:18-77).
NumbersAccepted == IsJsonNumber(text) <=> LenientNumber(text)

\* An accepted text is reported as a float exactly when it has a fraction or
\* an exponent (isJsonNumber.c:79-86).
FloatsTold ==
  LenientNumber(text) =>
    (IsFloat(text) <=> \E i \in DOMAIN text : text[i] \in {".", "e", "E"})
=============================================================================
