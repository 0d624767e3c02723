--------------------------- MODULE MCJReadString ---------------------------
(***************************************************************************)
(* JReadString for TLC, with what it owes its callers.                     *)
(***************************************************************************)
EXTENDS JReadString

TypeOK ==
  /\ state \in {"idle", "reading", "returned"} /\ io \in {"open", "end", "error"}
  /\ retval \in BOOLEAN /\ escape \in BOOLEAN /\ refused \in BOOLEAN
  /\ raw \in Seq(Alphabet) /\ Len(raw) <= MaxRaw
  /\ bag.live \subseteq Leaf /\ bag.cur \in Leaf \cup {Root}
  /\ \A l \in bag.live \cup {Root} :
       /\ bag.cell[l].buff \in [1..CB_LEAF_SIZE -> Alphabet \cup {"NUL"}]
       /\ bag.cell[l].index \in 0..CB_LEAF_SIZE
       /\ bag.cell[l].next \in bag.live \cup {NULL}

\* No string, whatever mallocs fail, makes the bag write outside a leaf, touch
\* a freed one, free one twice or copy another number of characters than it
\* has measured (CharBag.c:42-61, 87-115, 138-147).
BagSafe == ~bag.fault

\* While a string is read the chain is whole: no leaf is lost, none is empty,
\* and only the last has room (CharBag.c:42-58).
ChainWhole == state = "reading" => WellFormed(bag)

\* A call leaves no leaf behind, whichever way it ends (JReadString.c:169).
NoLeafLeft == state # "reading" => bag.live = {} /\ bag.cell[Root].next = NULL

-----------------------------------------------------------------------------
\* The backslashes right in front of position i, the first character of the
\* string not counted: it is kept whatever it is.
Backslashes(s, i) == {k \in 2..i - 1 : \A j \in k..i - 1 : s[j] = Escape}
Unescaped(s, i) == Cardinality(Backslashes(s, i)) % 2 = 0
Enders(s) == {i \in 2..Len(s) : Unescaped(s, i) /\ EndCheck(s[1], s[i])}

\* The characters of the string that s begins with: up to the first character
\* that ends it, without an opening quote, and without a backslash that
\* nothing follows.
Content(s) ==
  LET e == IF Enders(s) = {} THEN Len(s) + 1 ELSE Min(Enders(s))
      drop == Enders(s) = {} /\ ~Unescaped(s, e)
  IN SubSeq(s, IF s[1] = Quote THEN 2 ELSE 1, IF drop THEN e - 2 ELSE e - 1)

\* If malloc works, JReadString reads up to the first character that ends the
\* string and no further, hands over all characters in front of it, escapes
\* included, up to a NUL, and tells which character it was; only a quoted
\* string whose end is not in the file fails (JReadString.c:104-173).
ReadsTheString ==
  state = "returned" /\ ~refused =>
    IF ~retval THEN raw[1] = Quote /\ Enders(raw) = {} /\ io # "open"
    ELSE /\ CString(handle.string) = CString(Content(raw))
         /\ IF io = "open" THEN Enders(raw) = {Len(raw)} /\ handle.end_signal = Last(raw)
            ELSE Enders(raw) = {} /\ handle.end_signal = "NUL" /\ raw[1] # Quote

\* Every call returns (JReadString.c:118-143).
Returns == state = "reading" ~> state # "reading"

-----------------------------------------------------------------------------
Reader == INSTANCE StringReader WITH
  state <- IF state = "returned" THEN IF retval THEN "done" ELSE "failed" ELSE state,
  first <- IF state = "reading" THEN handle.first_char ELSE "NUL",
  escape <- state = "reading" /\ escape,
  bag <- IF state = "reading" THEN Copied(bag) ELSE <<>>,
  string <- IF state = "returned" /\ retval THEN CString(handle.string) ELSE <<>>,
  end <- IF state = "returned" /\ retval THEN handle.end_signal ELSE "NUL"

\* The bag of leaves behaves as the sequence of the characters put in it, also
\* when leaves and strings cannot be allocated: JReadString implements the
\* reader that the parser's model is built on.
ImplementsReader == Reader!Spec

-----------------------------------------------------------------------------
\* What the repository says of JReadString and the code does not keep:
\* "collect the characters that constitute the current string into a single
\* memory block. ... @return True for success" (JReadString.c:87-102).
WholeString ==
  state = "returned" /\ retval => CString(handle.string) = CString(Content(raw))
=============================================================================
