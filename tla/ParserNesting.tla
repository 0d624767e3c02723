--------------------------- MODULE ParserNesting ---------------------------
(***************************************************************************)
(* What the stack and the message of JParser say of the document read so   *)
(* far.                                                                    *)
(***************************************************************************)
EXTENDS JParser, JsonReading

\* The brackets that the calls of parse_collection on the stack wait for,
\* innermost first.
Awaits(open, f) ==
  IF f.fn = "parse_collection" THEN <<EndChar(f.kind)>> \o open ELSE open
Awaited(st) == FoldLeft(Awaits, <<>>, st)

\* The calls of parse_collection on the stack are the brackets open in the
\* document, and no other call piles up: the recursion is as deep as the
\* document and no deeper, however long it is (JParser.c:263, 359, 368).
StackByNesting ==
  Executing("parse_collection") =>
    /\ Reading(doc).open = Awaited(stack)
    /\ Len(stack) <= 3 * Len(Awaited(stack))

\* The message has been set, with the offset of the end of what was read.
MessageSet == pe.message # "none" /\ pe.loc = Len(doc)

\* A read has failed between a label and its value.
FailedBehindLabel ==
  LET kept == Reading(doc).kept
  IN io = "error" /\ kept # <<>> /\ Last(kept) \in {Quote, ":"}

\* The caller of a rejected document gets a message, and the offset with it is
\* that of the end of what was read; only a read error between a label and its
\* value goes unreported (JParser.c:20-25 and its uses, 155; jsondom.c:43-44).
RejectionReported == phase = "rejected" => MessageSet \/ FailedBehindLabel

\* What is cut short is not accepted: in an accepted document no string and no
\* bracket is left open, wherever the file or the reading of it ended
\* (JParser.c:203-313, 463-474; JReadString.c:146-156; jsondom.c:36-41).
AcceptedIsClosed ==
  phase \in {"accepted", "released"} =>
    ~Reading(doc).quoted /\ Reading(doc).open = <<>>
=============================================================================
