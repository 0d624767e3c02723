----------------------------- MODULE StringText -----------------------------
(***************************************************************************)
(* What the string reader and its callers know of the text of a string: a  *)
(* sequence of symbols, where it ends, and how it grows in a CharBag.      *)
(***************************************************************************)
EXTENDS SequencesExt

CONSTANTS Alphabet,       \* bound: the symbols documents are made of
          MallocMayFail,  \* whether malloc may return NULL
          CB_LEAF_SIZE    \* characters in a leaf of a CharBag (CharBag.h:13)

Quote == "quote"
Escape == "backslash"
EOF == "EOF"
ERR == "ERR"

ASSUME TextAssumption ==
  /\ {EOF, ERR} \cap Alphabet = {}
  /\ CB_LEAF_SIZE \in Nat \ {0} /\ MallocMayFail \in BOOLEAN

IsSpace(c) == c = " "

\* Slip: a closing bracket does not end an unquoted literal.
EndCheckNoBracket(first, c) ==
  IF first = Quote THEN c = Quote ELSE IsSpace(c) \/ c \in {",", "}", "NUL"}

\* strchr also finds the NUL that ends its list of terminators.
EndCheck(first, c) ==
  IF first = Quote THEN c = Quote ELSE IsSpace(c) \/ c \in {",", "]", "}", "NUL"}

\* The bag once JReadString has put the first character in it.
FirstBag(first) == IF first = Quote THEN <<>> ELSE <<first>>

\* Every reader of the block stops at its first NUL.
CString(bag) ==
  IF "NUL" \notin ToSet(bag) THEN bag
  ELSE SubSeq(bag, 1, Min({i \in DOMAIN bag : bag[i] = "NUL"}) - 1)

\* add_char_to_bag: a full leaf calls for another; JReadString does not look
\* at the result, so a character that finds no leaf is dropped.
LeafFull(bag) == bag # <<>> /\ Len(bag) % CB_LEAF_SIZE = 0
Added(bag, c) ==
  {Append(bag, c)} \cup IF MallocMayFail /\ LeafFull(bag) THEN {bag} ELSE {}
=============================================================================
