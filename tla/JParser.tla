------------------------------ MODULE JParser ------------------------------
(***************************************************************************)
(* jd_parse_file and the parser under it (JParser.c, JReadString.c and     *)
(* their calls into jd_Node.c), for every document the file may hold.  The *)
(* recursion is an explicit stack of frames, one per C function that reads *)
(* from the file; a step runs from one read, call or return to the next.   *)
(* A symbol of the document is a character, or a keyword standing for the  *)
(* run of characters that spells it.                                       *)
(***************************************************************************)
EXTENDS NodeMemory, JsonNumber, StringText

CONSTANTS MaxDoc,         \* bound: the length of the documents
          Simple,         \* bound: documents of these symbols may be longer,
          MaxSimple,      \*        up to this length
          MaxString,      \* bound: the length of the strings in them
          ReadMayFail     \* whether read() may return -1

\* malloc returns no block both as a node and as a string.
ASSUME BlockAssumption == Node \cap Str = {}

ASSUME ParserAssumption ==
  /\ MaxDoc \in Nat /\ MaxSimple \in Nat /\ MaxString \in Nat
  /\ ReadMayFail \in BOOLEAN

VARIABLES doc,     \* the symbols read so far; lseek's offset is its length
          io,      \* "open", or what further reads return: "end", "error"
          mem,     \* the memory, see NodeMemory
          lost,    \* history: the blocks no variable leads to any more
          origin,  \* history: what each string block was last written as
          torn,    \* history: collections whose property was freed in place
          stack,   \* the frames of the running calls, innermost last
          ret,     \* what the call that just returned returned
          pe,      \* the caller's jd_ParseError: message and char_loc
          phase,   \* where jd_parse_file and its caller are
          tree     \* *new_tree

vars == <<doc, io, mem, lost, origin, torn, stack, ret, pe, phase, tree>>

\* A string is written as a quoted text, as an unquoted one, or as the payload
\* of a number copied from one; "unmade" is a text for which no node was made.
Origins == {"none", "quoted", "literal", "copy", "unmade"}

\* What a call returns: success, the node or string block it hands over, and
\* the character that ended a literal (end_signal).
Returned(fn, ok, node, str, end) ==
  [fn |-> fn, ok |-> ok, node |-> node, str |-> str, end |-> end]
Failed(fn) == Returned(fn, FALSE, NULL, NULL, "NUL")
Running == Returned("none", FALSE, NULL, NULL, "NUL")

\* The frames.  JParser takes a first_char of 0 for a space (JParser.c:342).
JParserFrame(chr, parent) ==
  [fn |-> "JParser", chr |-> IF chr = "NUL" THEN " " ELSE chr, parent |-> parent]
CollectionFrame(kind, parent, node) ==
  [fn |-> "parse_collection", kind |-> kind, parent |-> parent, node |-> node,
   needs |-> FALSE, chr |-> "NUL"]
MemberFrame(parent) ==
  [fn |-> "Object_ReadMember", parent |-> parent, label |-> NULL, colon |-> FALSE]
\* ReadStringInit, and the first_char JReadString puts in its bag.
StringFrame(chr) ==
  [fn |-> "JReadString", first |-> chr, escape |-> FALSE,
   bag |-> FirstBag(chr)]

Init == /\ doc = <<>> /\ io = "open"
        /\ mem = NoMemory /\ lost = {} /\ torn = {} /\ origin = [s \in Str |-> "none"]
        /\ stack = <<JParserFrame("NUL", NULL)>> /\ ret = Running
        /\ pe = [message |-> "none", loc |-> 0] /\ phase = "parse" /\ tree = NULL

-----------------------------------------------------------------------------
Top == Last(stack)
In(fn) == phase = "parse" /\ stack # <<>> /\ Top.fn = fn
Executing(fn) == In(fn) /\ ret = Running
Resuming(fn, callee) == In(fn) /\ ret.fn = callee

Call(frame) == stack' = Append(stack, frame) /\ ret' = Running
Stay(frame) == stack' = Append(Front(stack), frame) /\ ret' = Running
Return(r) == stack' = Front(stack) /\ ret' = r
Fail(fn) == Return(Failed(fn))

\* report_parse_error: lseek tells the offset behind the last symbol read.
Report(message) == pe' = [message |-> message, loc |-> Len(doc')]

Input == Alphabet \cup {EOF, ERR}

Bounded(d) == Len(d) <= MaxDoc \/ (Len(d) <= MaxSimple /\ ToSet(d) \subseteq Simple)

\* read(fh, &chr, 1): a symbol, the end of the file, or an error.  The end
\* and an error are permanent.
Read(c) ==
  \/ /\ c \in Alphabet /\ io = "open" /\ Bounded(Append(doc, c))
     /\ doc' = Append(doc, c) /\ UNCHANGED io
  \/ c = EOF /\ io \in {"open", "end"} /\ io' = "end" /\ UNCHANGED doc
  \/ c = ERR /\ ReadMayFail /\ io \in {"open", "error"} /\ io' = "error" /\ UNCHANGED doc

NoRead == UNCHANGED <<doc, io>>
Frame == UNCHANGED <<phase, tree>>
NothingLost == UNCHANGED <<lost, torn, origin>>

-----------------------------------------------------------------------------
(***************************************************************************)
(* JReadString, JReadString.c:104-173.                                     *)
(***************************************************************************)
\* char_bag_to_string succeeds, and JReadString with it.
StringDone(end) ==
  /\ StrLeft(mem)
  /\ LET s == FreeStr(mem) IN
     /\ mem' = NewText(mem, s, CString(Top.bag))
     /\ origin' = [origin EXCEPT ![s] = IF Top.first = Quote THEN "quoted" ELSE "literal"]
     /\ Return(Returned("JReadString", TRUE, NULL, s, end))
  /\ UNCHANGED pe

\* Slip: the backslash of an escape is dropped.
RS_EscapedBare(c) ==
  /\ Executing("JReadString") /\ Top.escape /\ c \in Alphabet /\ Read(c)
  /\ \E b \in Added(Top.bag, c) : Stay([Top EXCEPT !.bag = b, !.escape = FALSE])
  /\ UNCHANGED <<mem, pe, origin>>

RS_Escaped(c) ==
  /\ Executing("JReadString") /\ Top.escape /\ c \in Alphabet /\ Read(c)
  /\ \E b \in Added(Top.bag, Escape) : \E b2 \in Added(b, c) :
       Stay([Top EXCEPT !.bag = b2, !.escape = FALSE])
  /\ UNCHANGED <<mem, pe, origin>>

RS_Escape(c) ==
  /\ Executing("JReadString") /\ ~Top.escape /\ c = Escape /\ Read(c)
  /\ Len(Top.bag) < MaxString
  /\ Stay([Top EXCEPT !.escape = TRUE])
  /\ UNCHANGED <<mem, pe, origin>>

\* At the end character.  If the string cannot be allocated the loop goes on.
RS_End(c) ==
  /\ Executing("JReadString") /\ ~Top.escape
  /\ c \in Alphabet /\ EndCheck(Top.first, c) /\ Read(c)
  /\ \/ StringDone(c)
     \/ MallocMayFail /\ UNCHANGED <<stack, ret, mem, pe, origin>>

RS_Char(c) ==
  /\ Executing("JReadString") /\ ~Top.escape
  /\ c \in Alphabet \ {Escape} /\ ~EndCheck(Top.first, c) /\ Read(c)
  /\ Len(Top.bag) < MaxString
  /\ \E b \in Added(Top.bag, c) : Stay([Top EXCEPT !.bag = b])
  /\ UNCHANGED <<mem, pe, origin>>

\* The file ends inside the string, or right after a literal.
RS_NoMore(c) ==
  /\ Executing("JReadString") /\ c \in {EOF, ERR} /\ Read(c)
  /\ IF Top.first = Quote
     THEN Report("unexpected EOF") /\ Fail("JReadString") /\ UNCHANGED <<mem, origin>>
     ELSE \/ StringDone("NUL")
          \/ MallocMayFail /\ Fail("JReadString") /\ UNCHANGED <<mem, pe, origin>>

ReadString(c) ==
  /\ RS_Escaped(c) \/ RS_Escape(c) \/ RS_End(c) \/ RS_Char(c) \/ RS_NoMore(c)
  /\ UNCHANGED <<lost, torn>> /\ Frame

-----------------------------------------------------------------------------
(***************************************************************************)
(* JParser, JParser.c:331-449.                                             *)
(***************************************************************************)
\* Slip: the end of the file is taken for another space.
JP_SkipOverEnd(c) ==
  /\ Executing("JParser") /\ IsSpace(Top.chr) /\ Read(c)
  /\ Stay([Top EXCEPT !.chr = IF c \in {EOF, ERR} THEN @ ELSE c])
  /\ UNCHANGED <<mem, pe>> /\ NothingLost /\ Frame

\* Slip: the end of the file is not reported.
JP_SkipSilent(c) ==
  /\ Executing("JParser") /\ IsSpace(Top.chr) /\ Read(c)
  /\ IF c = EOF THEN Fail("JParser")
     ELSE Stay([Top EXCEPT !.chr = IF c = ERR THEN @ ELSE c])
  /\ UNCHANGED <<mem, pe>> /\ NothingLost /\ Frame

\* Skipping leading space.  Only 0 ends the loop: an error leaves the space
\* in chr and the loop goes round again.
JP_Skip(c) ==
  /\ Executing("JParser") /\ IsSpace(Top.chr) /\ Read(c)
  /\ IF c = EOF THEN Report("unexpected end-of-file") /\ Fail("JParser")
     ELSE Stay([Top EXCEPT !.chr = IF c = ERR THEN @ ELSE c]) /\ UNCHANGED pe
  /\ UNCHANGED mem /\ NothingLost /\ Frame

Kind(c) == IF c = "[" THEN "array" ELSE "object"

\* The switch.  parse_collection begins with jd_Node_create and coerce_type;
\* without a node it reports and fails at once (JParser.c:198-201, 304-312).
JP_Switch ==
  /\ Executing("JParser") /\ ~IsSpace(Top.chr) /\ NoRead
  /\ IF Top.chr \in {"[", "{"}
     THEN LET n == FreeNode(mem) IN
          \/ /\ NodeLeft(mem)
             /\ mem' = SetValue(NewNode(mem, n), n, Kind(Top.chr), NULL)
             /\ Call(CollectionFrame(Kind(Top.chr), Top.parent, n))
             /\ UNCHANGED pe
          \/ /\ MallocMayFail
             /\ Report("unterminated collection")
             /\ ret' = Failed("parse_collection") /\ UNCHANGED <<mem, stack>>
     ELSE Call(StringFrame(Top.chr)) /\ UNCHANGED <<mem, pe>>
  /\ NothingLost /\ Frame

\* Slip: a failed collection is reported once more.
JP_AfterCollectionReports ==
  /\ Resuming("JParser", "parse_collection") /\ NoRead
  /\ Return(Returned("JParser", ret.ok, ret.node, NULL, "NUL"))
  /\ IF ret.ok THEN UNCHANGED pe ELSE Report("bad collection")
  /\ UNCHANGED mem /\ NothingLost /\ Frame

\* After parse_collection, which has attached the node to the parent already.
JP_AfterCollection ==
  /\ Resuming("JParser", "parse_collection")
  /\ Return(Returned("JParser", ret.ok, ret.node, NULL, "NUL"))
  /\ UNCHANGED <<mem, pe>> /\ NothingLost /\ NoRead /\ Frame

\* The type of an unquoted text, or the message that rejects it.
NumberStart == Digits \cup {".", "-", "+"}
Literal(t) ==
  IF t \in {<<"null">>, <<"true">>, <<"false">>} THEN t[1]
  ELSE IF t = <<>> \/ t[1] \in NumberStart
  THEN IF ~IsJsonNumber(t) THEN "invalid number"
       ELSE IF IsFloat(t) THEN "float" ELSE "integer"
  ELSE "unquoted values must be keywords or numbers"

\* The node of a value is handed to the parent, if any, and to the caller.
HandOver(m, n) ==
  /\ mem' = AdoptLast(m, n, Top.parent)
  /\ Return(Returned("JParser", TRUE, n, NULL, ret.end))

\* JReadString failed.
JP_NoString ==
  /\ Resuming("JParser", "JReadString") /\ ~ret.ok
  /\ Fail("JParser")
  /\ UNCHANGED <<mem, lost, origin, pe>>

\* No node for the value: the call still returns true, with a null node, and
\* the text of the value is lost.
JP_NoNode ==
  /\ Resuming("JParser", "JReadString") /\ ret.ok /\ MallocMayFail
  /\ Return(Returned("JParser", TRUE, NULL, NULL, ret.end))
  /\ lost' = lost \cup {ret.str} /\ origin' = [origin EXCEPT ![ret.str] = "unmade"]
  /\ UNCHANGED <<mem, pe>>

\* Slip: the node takes a copy, and the text read is left behind.
JP_QuotedCopies ==
  /\ Resuming("JParser", "JReadString") /\ ret.ok /\ Top.chr = Quote
  /\ NodeLeft(mem) /\ StrLeft(mem)
  /\ LET n == FreeNode(mem)
         s == FreeStr(mem)
         m == NewText(NewNode(mem, n), s, mem.text[ret.str])
     IN HandOver(SetValue(m, n, "string", s), n)
  /\ lost' = lost \cup {ret.str} /\ UNCHANGED <<origin, pe>>

JP_Quoted ==
  /\ Resuming("JParser", "JReadString") /\ ret.ok /\ Top.chr = Quote
  /\ NodeLeft(mem)
  /\ LET n == FreeNode(mem)
     IN HandOver(SetValue(NewNode(mem, n), n, "string", ret.str), n)
  /\ UNCHANGED <<lost, origin, pe>>

\* Slip: the node is adopted before the text is found to be a value.
JP_UnquotedAdoptsFirst ==
  /\ Resuming("JParser", "JReadString") /\ ret.ok /\ Top.chr # Quote
  /\ NodeLeft(mem)
  /\ LET n == FreeNode(mem)
         m == AdoptLast(NewNode(mem, n), n, Top.parent)
         k == Literal(mem.text[ret.str])
     IN IF k \notin Types
        THEN Report(k) /\ mem' = FreeTree(m, n) /\ Fail("JParser")
        ELSE /\ mem' = SetValue(m, n, "null", NULL) /\ UNCHANGED pe
             /\ Return(Returned("JParser", TRUE, n, NULL, ret.end))
  /\ lost' = lost \cup {ret.str} /\ UNCHANGED origin

\* Slip: without memory for the copy of a number the node is given up.
JP_UnquotedDropsNode ==
  /\ Resuming("JParser", "JReadString") /\ ret.ok /\ Top.chr # Quote
  /\ NodeLeft(mem)
  /\ LET n == FreeNode(mem)
         m == NewNode(mem, n)
         t == mem.text[ret.str]
         k == Literal(t)
         s == FreeStr(mem)
     IN IF k \notin Types
        THEN Report(k) /\ UNCHANGED <<mem, origin>> /\ Fail("JParser")
        ELSE /\ UNCHANGED pe
             /\ \/ /\ k \notin TextTypes
                   /\ HandOver(SetValue(m, n, k, NULL), n) /\ UNCHANGED origin
                \/ /\ k \in TextTypes /\ StrLeft(mem)
                   /\ HandOver(SetValue(NewText(m, s, t), n, k, s), n)
                   /\ origin' = [origin EXCEPT ![s] = "copy"]
                \/ /\ k \in TextTypes /\ MallocMayFail
                   /\ Return(Returned("JParser", TRUE, NULL, NULL, ret.end))
                   /\ UNCHANGED <<mem, origin>>
  /\ lost' = lost \cup {ret.str}

\* An unquoted value: its type is told from its text, which nobody frees.
\* A number copies the text; if the copy fails the node stays null.
JP_Unquoted ==
  /\ Resuming("JParser", "JReadString") /\ ret.ok /\ Top.chr # Quote
  /\ NodeLeft(mem)
  /\ LET n == FreeNode(mem)
         m == NewNode(mem, n)
         t == mem.text[ret.str]
         k == Literal(t)
         s == FreeStr(mem)
     IN IF k \notin Types
        THEN /\ Report(k) /\ mem' = FreeTree(m, n)
             /\ Fail("JParser") /\ UNCHANGED origin
        ELSE /\ UNCHANGED pe
             /\ \/ /\ k \notin TextTypes
                   /\ HandOver(SetValue(m, n, k, NULL), n) /\ UNCHANGED origin
                \/ /\ k \in TextTypes /\ StrLeft(mem)
                   /\ HandOver(SetValue(NewText(m, s, t), n, k, s), n)
                   /\ origin' = [origin EXCEPT ![s] = "copy"]
                \/ /\ k \in TextTypes /\ MallocMayFail
                   /\ HandOver(m, n) /\ UNCHANGED origin
  /\ lost' = lost \cup {ret.str}

JP_AfterString ==
  /\ NoRead /\ UNCHANGED torn /\ Frame
  /\ JP_NoString \/ JP_NoNode \/ JP_Quoted \/ JP_Unquoted

-----------------------------------------------------------------------------
(***************************************************************************)
(* parse_collection, JParser.c:184-313.                                    *)
(***************************************************************************)
EndChar(kind) == IF kind = "array" THEN "]" ELSE "}"
HasMember(f) == mem.heap[f.node].first # NULL

\* The message for a character a collection rejects, "none" if it does not.
\* The test for a premature end (JParser.c:221-226) can never succeed.
Objection(f, c) ==
  IF f.needs
  THEN IF c = "," THEN "comma in collection without preceeding member" ELSE "none"
  ELSE IF c \in {"]", "}"} \ {EndChar(f.kind)}
  THEN "incorrect end char for the collection type"
  ELSE IF c = "," /\ ~HasMember(f)
  THEN "comma in collection without preceeding member"
  ELSE IF c \notin {",", EndChar(f.kind)} /\ HasMember(f)
  THEN "missing comma between collection members"
  ELSE "none"

\* Slip: the node is not destroyed.
AbandonLeaks == UNCHANGED mem /\ Fail("parse_collection")

\* early_exit: the node, with the members it has, is destroyed.
Abandon ==
  /\ mem' = FreeTree(mem, Top.node)
  /\ Fail("parse_collection")

\* The end of the collection.  collection_terminated is never set, so that
\* the error is reported on this path too (JParser.c:192, 304-305).
Complete ==
  /\ mem' = AdoptLast(mem, Top.node, Top.parent)
  /\ Return(Returned("parse_collection", TRUE, Top.node, NULL, "NUL"))
  /\ Report("unterminated collection")

PC_Space(c) ==
  /\ IsSpace(c) /\ Read(c)
  /\ UNCHANGED <<stack, ret, mem, pe>>

\* Slip: a comma may come before the end.
PC_EndAnyway(c) == c = EndChar(Top.kind) /\ Read(c) /\ Complete

PC_End(c) ==
  /\ c = EndChar(Top.kind) /\ ~Top.needs /\ Read(c)
  /\ Complete

\* Slip: the rest of the collection is read by a call of its own.
PC_CommaRecurses(c) ==
  /\ c = "," /\ Objection(Top, c) = "none" /\ Read(c)
  /\ Call([Top EXCEPT !.needs = TRUE]) /\ UNCHANGED <<mem, pe>>

PC_Comma(c) ==
  /\ c = "," /\ Objection(Top, c) = "none" /\ Read(c)
  /\ Stay([Top EXCEPT !.needs = TRUE]) /\ UNCHANGED <<mem, pe>>

PC_Reject(c) ==
  /\ c \in Alphabet /\ ~IsSpace(c) /\ Objection(Top, c) # "none" /\ Read(c)
  /\ Report(Objection(Top, c))
  /\ Abandon

\* read_member: an array's is JParser; an object's begins with a label.
PC_Member(c) ==
  /\ c \in Alphabet \ {","} /\ ~IsSpace(c) /\ Objection(Top, c) = "none" /\ Read(c)
  /\ c = EndChar(Top.kind) => Top.needs
  /\ LET frames == Append(Front(stack), [Top EXCEPT !.chr = c]) IN
     IF Top.kind = "array"
     THEN /\ stack' = Append(frames, JParserFrame(c, Top.node))
          /\ ret' = Running /\ UNCHANGED pe
     ELSE IF c = Quote
     THEN /\ stack' = frames \o <<MemberFrame(Top.node), StringFrame(c)>>
          /\ ret' = Running /\ UNCHANGED pe
     ELSE /\ stack' = frames /\ ret' = Failed("Object_ReadMember")
          /\ Report("labels must be double-quoted")
  /\ UNCHANGED mem

\* Slip: the end of the file ends a collection.
PC_NoMoreCompletes(c) == c \in {EOF, ERR} /\ Read(c) /\ Complete

PC_NoMore(c) ==
  /\ c \in {EOF, ERR} /\ Read(c)
  /\ Report("unterminated collection")
  /\ Abandon

CollectionRead(c) ==
  /\ Executing("parse_collection")
  /\ PC_Space(c) \/ PC_End(c) \/ PC_Comma(c) \/ PC_Reject(c) \/ PC_Member(c) \/ PC_NoMore(c)
  /\ NothingLost /\ Frame

\* After read_member: the character that ended the member decides.
PC_AfterMember ==
  /\ In("parse_collection") /\ ret.fn \in {"JParser", "Object_ReadMember"} /\ NoRead
  /\ \/ ~ret.ok /\ Abandon /\ UNCHANGED pe
     \/ /\ ret.ok /\ ret.end = ","
        /\ Stay([Top EXCEPT !.needs = TRUE]) /\ UNCHANGED <<mem, pe>>
     \/ ret.ok /\ ret.end = EndChar(Top.kind) /\ Complete
     \/ /\ ret.ok
        /\ \/ ret.end = Quote /\ Top.chr = Quote
           \/ ret.end = "NUL" \/ IsSpace(ret.end)
        /\ Stay([Top EXCEPT !.needs = FALSE]) /\ UNCHANGED <<mem, pe>>
     \/ /\ ret.ok /\ ~IsSpace(ret.end)
        /\ ret.end \notin {",", "NUL", EndChar(Top.kind)}
        /\ ~(ret.end = Quote /\ Top.chr = Quote)
        /\ Report("unexpected member end char") /\ Abandon
  /\ NothingLost /\ Frame

-----------------------------------------------------------------------------
(***************************************************************************)
(* Object_ReadMember after its first test, JParser.c:94-165.  Every exit   *)
(* goes through ReadStringDestroy, which frees the label unless the        *)
(* property has taken it.                                                  *)
(***************************************************************************)
OM_AfterLabel ==
  /\ Resuming("Object_ReadMember", "JReadString")
  /\ IF ret.ok THEN Stay([Top EXCEPT !.label = ret.str]) ELSE Fail("Object_ReadMember")
  /\ UNCHANGED <<mem, pe>> /\ NothingLost /\ NoRead /\ Frame

\* Looking for the colon, then for the value.  Any number of colons will do.
OM_Read(c) ==
  /\ Executing("Object_ReadMember") /\ Read(c)
  /\ \/ IsSpace(c) /\ UNCHANGED <<stack, ret, mem, pe>>
     \/ /\ c = ":"
        /\ Stay([Top EXCEPT !.colon = TRUE]) /\ UNCHANGED <<mem, pe>>
     \/ /\ c \in Alphabet \ {":"} /\ ~IsSpace(c) /\ Top.colon
        /\ Call(JParserFrame(c, NULL)) /\ UNCHANGED <<mem, pe>>
     \/ /\ c \in Alphabet \ {":"} /\ ~IsSpace(c) /\ ~Top.colon
        /\ Report("colons must follow labels")
        /\ mem' = FreeText(mem, Top.label) /\ Fail("Object_ReadMember")
     \/ /\ c = EOF /\ Report("unexpected end-of-file")
        /\ mem' = FreeText(mem, Top.label) /\ Fail("Object_ReadMember")
     \/ /\ c = ERR /\ UNCHANGED pe
        /\ mem' = FreeText(mem, Top.label) /\ Fail("Object_ReadMember")
  /\ NothingLost /\ Frame

\* Slip: the label is not freed.
OM_NoValueLeaks ==
  ~ret.ok /\ UNCHANGED mem /\ Fail("Object_ReadMember") /\ NothingLost

\* No value.
OM_NoValue ==
  /\ ~ret.ok
  /\ mem' = FreeText(mem, Top.label) /\ Fail("Object_ReadMember")
  /\ NothingLost

\* Slip: the label is freed although the label node has taken it.
OM_PropertyNoSteal ==
  LET p == FreeNode(mem)
      m2 == [AdoptLast(NewNode(mem, p), p, Top.parent) EXCEPT !.type[p] = "property"]
      l == FreeNode(m2)
      m4 == SetValue(AdoptLast(NewNode(m2, l), l, p), l, "string", Top.label)
  IN /\ ret.ok /\ NodeLeft(mem) /\ NodeLeft(m2)
     /\ mem' = FreeText(AdoptLast(m4, ret.node, p), Top.label)
     /\ Return(Returned("Object_ReadMember", TRUE, p, NULL, ret.end))
     /\ NothingLost

\* Label and value are there: the property, then its label node.
OM_Property ==
  LET p == FreeNode(mem)
      m1 == AdoptLast(NewNode(mem, p), p, Top.parent)
      m2 == [m1 EXCEPT !.type[p] = "property"]
      l == FreeNode(m2)
      m3 == AdoptLast(NewNode(m2, l), l, p)
      m4 == SetValue(m3, l, "string", Top.label)
  IN /\ ret.ok /\ NodeLeft(mem) /\ NodeLeft(m2)
     /\ mem' = AdoptLast(m4, ret.node, p)
     /\ Return(Returned("Object_ReadMember", TRUE, p, NULL, ret.end))
     /\ NothingLost

\* No memory for the property: the value is left behind.
OM_NoProperty ==
  /\ ret.ok /\ MallocMayFail
  /\ mem' = FreeText(mem, Top.label) /\ Fail("Object_ReadMember")
  /\ lost' = lost \cup ({ret.node} \ {NULL}) /\ UNCHANGED <<torn, origin>>

\* No memory for the label node: the property is destroyed where it hangs,
\* and its collection keeps the links to it; the value is left behind too.
OM_NoLabelNode ==
  LET p == FreeNode(mem)
      m1 == AdoptLast(NewNode(mem, p), p, Top.parent)
  IN /\ ret.ok /\ MallocMayFail /\ NodeLeft(mem)
     /\ mem' = FreeText(FreeTree(m1, p), Top.label) /\ Fail("Object_ReadMember")
     /\ lost' = lost \cup ({ret.node} \ {NULL})
     /\ torn' = torn \cup {Top.parent} /\ UNCHANGED origin

OM_AfterValue ==
  /\ Resuming("Object_ReadMember", "JParser")
  /\ OM_NoValue \/ OM_Property \/ OM_NoProperty \/ OM_NoLabelNode
  /\ UNCHANGED pe /\ NoRead /\ Frame

-----------------------------------------------------------------------------
(***************************************************************************)
(* jd_parse_file, jsondom.c:31-51, confirm_no_further_file_content,        *)
(* JParser.c:463-474, and the caller, which destroys the tree it got.      *)
(***************************************************************************)
PF_AfterJParser ==
  /\ phase = "parse" /\ stack = <<>>
  /\ IF ret.ok THEN phase' = "confirm" ELSE phase' = "rejected"
  /\ NoRead /\ NothingLost /\ UNCHANGED <<mem, stack, ret, pe, tree>>

PF_Confirm(c) ==
  /\ phase = "confirm" /\ Read(c)
  /\ \/ IsSpace(c) /\ UNCHANGED <<phase, mem, pe, tree>>
     \/ /\ c \in Alphabet /\ ~IsSpace(c)
        /\ Report("forbidden characters following singleton root object")
        /\ mem' = FreeTree(mem, ret.node)
        /\ phase' = "rejected" /\ UNCHANGED tree
     \/ /\ c \in {EOF, ERR}
        /\ tree' = ret.node /\ phase' = "accepted" /\ UNCHANGED <<mem, pe>>
  /\ NothingLost /\ UNCHANGED <<stack, ret>>

CallerDestroys ==
  /\ phase = "accepted"
  /\ mem' = FreeTree(mem, tree) /\ tree' = NULL /\ phase' = "released"
  /\ NoRead /\ NothingLost /\ UNCHANGED <<stack, ret, pe>>

Done == phase \in {"rejected", "released"}
\* Nothing more happens, or what happens is undefined.
Rest == (Done \/ mem.fault # "none") /\ UNCHANGED vars

Step ==
  \/ \E c \in Input : ReadString(c) \/ JP_Skip(c) \/ CollectionRead(c) \/ OM_Read(c) \/ PF_Confirm(c)
  \/ JP_Switch \/ JP_AfterCollection \/ JP_AfterString
  \/ PC_AfterMember
  \/ OM_AfterLabel \/ OM_AfterValue
  \/ PF_AfterJParser \/ CallerDestroys

Next == (mem.fault = "none" /\ Step) \/ Rest

\* The program runs until it returns.
Spec == Init /\ [][Next]_vars
FairSpec == Spec /\ WF_vars(Next)
=============================================================================
