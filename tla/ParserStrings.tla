--------------------------- MODULE ParserStrings ---------------------------
(***************************************************************************)
(* The strings that JParser reads, seen as the work of a StringReader.     *)
(***************************************************************************)
EXTENDS JParser

\* The string being read, or just read, as the abstract reader sees it.
Scanning == Executing("JReadString")
Scanned == phase = "parse" /\ ret.fn = "JReadString"

Reader == INSTANCE StringReader WITH
  state <- IF Scanning THEN "reading"
           ELSE IF ~Scanned THEN "idle" ELSE IF ret.ok THEN "done" ELSE "failed",
  first <- IF Scanning THEN Top.first ELSE "NUL",
  escape <- Scanning /\ Top.escape,
  bag <- IF Scanning THEN Top.bag ELSE <<>>,
  string <- IF Scanned /\ ret.ok THEN mem.text[ret.str] ELSE <<>>,
  end <- IF Scanned THEN ret.end ELSE "NUL"

\* Each string the parser reads, label or value, is read as the abstract
\* reader reads it, and the callers leave its text alone until they have taken
\* it (JParser.c:94-101, 379-390).
ReadsStrings == Reader!Spec
=============================================================================
