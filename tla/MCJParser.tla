----------------------------- MODULE MCJParser -----------------------------
(***************************************************************************)
(* JParser for TLC, with what it must accept, build and leave behind.      *)
(***************************************************************************)
EXTENDS ParserOwnership, ParserStrings, ParserNesting, Printer, Accessors, Stringify

Grammar == INSTANCE JsonText

\* What is accepted is a JSON text, apart from repeated colons, a terminator
\* behind a literal at the root, strings with control characters or with
\* anything behind a backslash, and numbers with leading zeros; and that as
\* far as it could be read: a read error behind the root value goes unnoticed.
\* What is rejected is not even that, and unless the file had ended nothing
\* that could follow would make it so (JParser.c:71-165, 184-313, 463-474;
\* JReadString.c:118-145).
AcceptsTexts == phase = "accepted" => Grammar!LenientText(doc)
RejectsOthers ==
  phase = "rejected" =>
    IF io = "open" THEN Grammar!Doomed(doc) ELSE ~Grammar!LenientText(doc)

\* Printing the tree of an accepted document, on lines of its own or on one,
\* gives the document back, up to space: every value, label and member is
\* there, once, in order (JParser.c:94-151, 261-300; jd_Node.c:398-585).
RoundTrip ==
  phase = "accepted" =>
    \A text \in {jd_serialize(mem, tree), Serialize(mem, tree, NoIndent)} :
      Grammar!Kept(text) = Grammar!Squeezed(doc)

\* What is printed has one colon per member and no terminator behind its root,
\* and it is a JSON text exactly if the document took no liberties but those:
\* strings and numbers are printed as they were read, with what the parser let
\* pass in them.  Without indentation it holds no space outside strings but
\* the final line break (jd_Node.c:398-585).
PrintsJson ==
  phase = "accepted" =>
    LET printed == jd_serialize(mem, tree) IN
    /\ Grammar!TextBut(printed, {"strings", "zeros"})
    /\ Grammar!Text(printed) <=> Grammar!TextBut(doc, {"colons", "trailer"})
    /\ Serialize(mem, tree, NoIndent) = Append(Grammar!Squeezed(doc), Gap)

IndexIn(s, x) == SelectInSeq(s, LAMBDA y : y = x)

\* The walk of a client through the tree from n on: n, its children and their
\* younger siblings, or the same from the last child backwards.
RECURSIVE Walk(_, _, _)
Walk(n, down, along) ==
  IF n = NULL THEN <<>>
  ELSE <<n>> \o Walk(down[n], down, along) \o Walk(along[n], down, along)
Relation(r) == [n \in mem.live |-> jd_get_relation(mem, n, r)]
Forward == Walk(tree, [n \in mem.live |-> firstChild(mem, n)],
                      [n \in mem.live |-> nextSibling(mem, n)])
Backward == Walk(tree, Relation(JD_LAST), Relation(JD_PREVIOUS))

\* A client that follows first children and next siblings, or last children
\* and previous siblings, meets every node of the tree once; the two ways are
\* each other's reverse among the children of a node, from every node the way
\* up leads to the root, and each named function returns what jd_get_relation
\* returns for the member of jd_Relation of its name (jsondom.c:69-145,
\* jsondom.h:71-77).  The table of test_basic.c:189-199 pairs JD_FIRST with
\* prevSibling and JD_PREVIOUS with firstChild and is not meant here.
Navigable ==
  phase = "accepted" =>
    /\ \A walk \in {Forward, Backward} :
         ToSet(walk) = mem.live /\ Len(walk) = Cardinality(mem.live)
    /\ \A x, y \in mem.live \ {tree} :
         parent(mem, x) = parent(mem, y) /\ x # y =>
           (IndexIn(Forward, x) < IndexIn(Forward, y)
              <=> IndexIn(Backward, x) > IndexIn(Backward, y))
    /\ \A n \in mem.live :
         /\ parent(mem, n) = Relation(JD_PARENT)[n]
         /\ nextSibling(mem, n) = Relation(JD_NEXT)[n]
         /\ firstChild(mem, n) = Relation(JD_FIRST)[n]
         /\ prevSibling(mem, n) = Relation(JD_PREVIOUS)[n]
         /\ lastChild(mem, n) = Relation(JD_LAST)[n]
         /\ n # tree => IndexIn(Forward, parent(mem, n)) < IndexIn(Forward, n)

\* What stands for the value of a node.
RECURSIVE ValueText(_)
ValueText(n) ==
  CASE mem.type[n] \in TextTypes -> mem.text[jd_generic_value(mem, n)]
    [] mem.type[n] = "property" ->
         ValueText(firstChild(mem, n)) \o <<":">> \o ValueText(lastChild(mem, n))
    [] OTHER -> Front(Constant(jd_id_name(mem, n)))

\* jd_node_value writes nothing to a buffer that is shorter than the length it
\* asks for, and the whole value with its terminator, inside the buffer, to
\* any other, whatever hangs below the node (jsondom.c:181-267).
ValueCopied ==
  phase = "accepted" =>
    \A n \in mem.live :
      LET len == jd_node_value_length(mem, n) IN
      \A bufflen \in 0..len + 1 :
        LET bytes == jd_node_value(mem, n, bufflen) IN
        IF bufflen < len THEN bytes = <<>>
        ELSE bytes = Append(ValueText(n), "NUL") /\ Len(bytes) <= bufflen

\* The two ways to read a scalar agree: a stringify function asks for the
\* length jd_node_value asks for and writes the same bytes; it cuts the text
\* to a shorter buffer.  Only a copy of one byte, an empty text or a buffer of
\* two, is left out, and only a buffer of just that length is written behind.
\* The function for another type writes nothing (Stringify.c:8-90;
\* jsondom.c:181-249).
StringifyAgrees ==
  phase = "accepted" =>
    \A n \in mem.live, type \in {"null", "true", "false"} \cup TextTypes :
      LET len == jd_node_value_length(mem, n) IN
      \A bufflen \in 0..len + 1 :
        LET s == Stringified(mem, n, bufflen, type)
            bytes == jd_node_value(mem, n, len)
        IN IF type # mem.type[n]
           THEN s = Outcome(0, "JNE_INVALID_TYPE", Untouched)
           ELSE /\ s.retval = len
                /\ DOMAIN s.written \subseteq 0..bufflen - 1 \/ bufflen = len
                /\ bufflen >= len /\ len > 1 => \A i \in 0..len - 1 : s.written[i] = bytes[i + 1]
                /\ bufflen \in 1..len - 1 => s.written[bufflen - 1] = "NUL"
                /\ bufflen \in 3..len - 1 =>
                     \A i \in 0..bufflen - 2 : s.written[i] = bytes[i + 1]

UnquotedTypes == {"null", "true", "false", "integer", "float"}

\* The texts that the parser has left behind, by what they were read as.
Left(as) == {s \in lost \cap Str : origin[s] = as}

\* When malloc fails a document may be accepted with values missing from its
\* tree, or with no tree at all; but only the values for which no node could
\* be had are missing: every other unquoted value that was read has its node,
\* even if its text could not be copied (JParser.c:385-437; jsondom.c:37-42).
OnlyUnmadeMissing ==
  phase = "accepted" =>
    /\ Cardinality({n \in mem.live : mem.type[n] \in UnquotedTypes}) = Cardinality(Left("literal"))
    /\ tree = NULL => Left("unmade") # {}

\* Every document is accepted or rejected in the end.
Terminates == <>Done

\* Whatever malloc and read refuse, the parse ends, unless a read error meets
\* the loop that skips the space in front of a value or memory is misused
\* (JParser.c:203, 343-350, 467; JReadString.c:118).
Spinning == Executing("JParser") /\ IsSpace(Top.chr) /\ io = "error"
Decides == <>(Done \/ Spinning \/ mem.fault # "none")

-----------------------------------------------------------------------------
(***************************************************************************)
(* What the repository says of the parser and the code does not keep.      *)
(***************************************************************************)
\* "Avoid attempting to free the memory twice" (jd_Node.c:163-165): even when
\* malloc fails the parser frees no block twice and touches none it has freed.
FreesOnce == mem.fault # "misuse"

\* "In the interest of conforming to the JSON standard", invalid documents
\* "should trigger parsing warnings" (README.md:69-73): the strings of what is
\* accepted hold no escape that JSON does not have.
AcceptsJsonStrings ==
  phase = "accepted" => Grammar!TextBut(doc, Grammar!Liberties \ {"strings"})

\* "Confirms only whitespace characters remain in file", "no additional
\* content follows" the root (JParser.c:453-457): only JSON texts are accepted.
AcceptsOnlyTexts == phase = "accepted" => Grammar!Text(doc)
=============================================================================
