------------------------------ MODULE JsonText ------------------------------
(***************************************************************************)
(* Which documents are JSON texts: the grammar of RFC 8259 over sequences  *)
(* of symbols, stated by where a text can be cut, independently of how     *)
(* JParser.c reads.  What the parser takes beyond the grammar has a name,  *)
(* and a set of such liberties is part of what is asked of a text.         *)
(***************************************************************************)
EXTENDS NumberGrammar, JsonReading

\* "colons": more than one between a label and its value; "strings": anything
\* behind a backslash, and control characters; "zeros": leading zeros in front
\* of a fraction or an exponent; "trailer": see HasTrailer.
Liberties == {"colons", "strings", "zeros", "trailer"}

Blank(s) == ToSet(s) \subseteq {" "}
Inner(s) == SubSeq(s, 2, Len(s) - 1)

\* s without the space around it.
Trim(s) ==
  LET I == {i \in DOMAIN s : s[i] # " "} IN
  IF I = {} THEN <<>>
  ELSE SubSeq(s, CHOOSE i \in I : \A j \in I : i <= j, CHOOSE i \in I : \A j \in I : j <= i)

\* The position in s of an unescaped quote, 0 if there is none.
RECURSIVE Closing(_, _)
Closing(s, i) ==
  IF i > Len(s) THEN 0
  ELSE IF s[i] = "quote" THEN i
  ELSE Closing(s, IF s[i] = "backslash" THEN i + 2 ELSE i + 1)

\* What may stand behind a backslash; a keyword begins with n, t or f.
Escapable ==
  {"quote", "backslash", "/", "b", "f", "n", "r", "t", "null", "true", "false"}
HexDigits == Digits \cup {"a", "b", "c", "d", "e", "f", "A", "B", "C", "D", "E", "F"}
Control == {"NUL"}

\* What may stand between quotes.
RECURSIVE Legal(_)
Legal(t) ==
  \/ t = <<>>
  \/ t[1] \notin Control \cup {"backslash"} /\ Legal(Tail(t))
  \/ /\ t[1] = "backslash" /\ Len(t) > 1
     /\ \/ t[2] \in Escapable /\ Legal(SubSeq(t, 3, Len(t)))
        \/ /\ t[2] = "u" /\ Len(t) > 5 /\ ToSet(SubSeq(t, 3, 6)) \subseteq HexDigits
           /\ Legal(SubSeq(t, 7, Len(t)))

IsString(s, free) ==
  /\ Len(s) >= 2 /\ s[1] = "quote" /\ Closing(s, 2) = Len(s)
  /\ "strings" \in free \/ Legal(Inner(s))
IsNumber(s, free) == IF "zeros" \in free THEN LenientNumber(s) ELSE StrictNumber(s)
IsUnquoted(s, free) == s \in {<<"null">>, <<"true">>, <<"false">>} \/ IsNumber(s, free)
Bracketed(s, open, close) == Len(s) >= 2 /\ s[1] = open /\ s[Len(s)] = close

\* What separates a label from its value.
Colons(s, free) ==
  LET t == SelectSeq(s, LAMBDA c : c # " ") IN
  IF "colons" \in free THEN t # <<>> /\ ToSet(t) = {":"} ELSE t = <<":">>

RECURSIVE Value(_, _), Elements(_, _), Members(_, _)

Member(s, free) ==
  \E i, j \in DOMAIN s :
    /\ i < j /\ s[j] = ":"
    /\ IsString(Trim(SubSeq(s, 1, i)), free)
    /\ Colons(SubSeq(s, i + 1, j), free)
    /\ Value(SubSeq(s, j + 1, Len(s)), free)

Elements(s, free) ==
  \/ Value(s, free)
  \/ \E i \in DOMAIN s : /\ s[i] = ","
                         /\ Value(SubSeq(s, 1, i - 1), free)
                         /\ Elements(SubSeq(s, i + 1, Len(s)), free)

Members(s, free) ==
  \/ Member(s, free)
  \/ \E i \in DOMAIN s : /\ s[i] = ","
                         /\ Member(SubSeq(s, 1, i - 1), free)
                         /\ Members(SubSeq(s, i + 1, Len(s)), free)

Value(s0, free) ==
  LET s == Trim(s0) IN
  \/ IsUnquoted(s, free)
  \/ IsString(s, free)
  \/ Bracketed(s, "[", "]") /\ (Blank(Inner(s)) \/ Elements(Inner(s), free))
  \/ Bracketed(s, "{", "}") /\ (Blank(Inner(s)) \/ Members(Inner(s), free))

\* A literal at the root may be followed by one of these, or by a backslash
\* that ends the document.
Terminators == {",", "]", "}"}
HasTrailer(s, free) ==
  LET t == Trim(s) IN
  /\ Len(t) > 1 /\ IsUnquoted(Front(t), free)
  /\ Last(t) \in Terminators \/ Last(s) = "backslash"

\* A JSON text but for the liberties it may take, a JSON text, and a text that
\* the parser takes.
TextBut(s, free) == Value(s, free) \/ ("trailer" \in free /\ HasTrailer(s, free))
Text(s) == TextBut(s, {})
LenientText(s) == TextBut(s, Liberties)

-----------------------------------------------------------------------------
\* The symbols that carry meaning wherever they stand.
Kept(s) == Reading(s).kept

\* The document without what carries no meaning: space outside strings,
\* repeated colons, the trailer of a root literal.
Squeezed(s) ==
  LET k == Kept(s) IN IF HasTrailer(k, Liberties) THEN Front(k) ELSE k

\* The shortest ways to complete a document that can be completed: a value,
\* the rest of a string, of a member, then the closing brackets.
Endings ==
  LET q == "quote" IN
  {<<>>, <<"1">>, <<q>>, <<"1", q>>, <<":", "1">>, <<q, ":", "1">>,
   <<"1", q, ":", "1">>, <<q, q, ":", "1">>}

\* No way of going on makes a text of s.
Doomed(s) ==
  LET close == Reading(s).open
  IN \A e \in Endings : ~LenientText(s \o e \o close)
=============================================================================
