--------------------------- MODULE JParser_proofs ---------------------------
(***************************************************************************)
(* Whatever the document, and whichever malloc or read fails, the parser   *)
(* loses no node or string it has not been seen to lose, and misuses no    *)
(* memory while malloc works; and then its stack follows the brackets of   *)
(* the document, what is accepted is closed and what is rejected has been  *)
(* reported: for documents, files and memories of any size.                *)
(***************************************************************************)
EXTENDS ParserStack_proofs, ParserStrings, ParserNesting, JsonNumber_proofs

Results ==
  [fn : {"none", "JParser", "parse_collection", "Object_ReadMember", "JReadString"},
   ok : BOOLEAN, node : Pointer, str : Str \cup {NULL}, end : Symbol]

\* What a call returns: a failure hands nothing over, and only JReadString
\* hands over a string, to a caller that has no label yet.
Consistent(r, st) ==
  /\ r \in Results
  /\ ~r.ok => r.node = NULL /\ r.str = NULL
  /\ r.fn = "none" => ~r.ok
  /\ r.fn = "JReadString" => r.node = NULL /\ Pending(st) = NULL /\ (r.ok => r.str # NULL)
  /\ r.fn # "JReadString" => r.str = NULL /\ (r.ok /\ r.node = NULL => MallocMayFail)

\* The node n and the string s are handed to the innermost call of st; n hangs
\* where that call has told the one before to attach it, or nowhere.
Unattached(n, st) == IF Above(st) = NULL THEN {n} \ {NULL} ELSE {}
Owned(m, st, n, s, lo) ==
  /\ n \in m.live \cup {NULL}
  /\ n # NULL => m.heap[n].parent = Above(st)
  /\ Charge(m, st, Unattached(n, st), {s} \ {NULL}, lo)

Good(m, st, r, lo) ==
  StackOK(st) /\ Consistent(r, st) /\ Owned(m, st, r.node, r.str, lo)

\* The property p of the object Above(st) has been freed where it hung: in k it
\* was not yet.
TornOff(m, k, p, st) ==
  /\ p \in k.live /\ p # Above(st) /\ k.heap[p].parent = Above(st)
  /\ k.heap[p].first = NULL /\ k.heap[p].next = NULL
  /\ k.payload[p] = NULL
  /\ m.live = k.live \ {p} /\ m.heap = FreeNodes(k.heap, {p})
  /\ m.payload = k.payload /\ m.strs = k.strs /\ m.fault = k.fault

Torn(m, st, r, lo) ==
  /\ m \in Memory(Texts) /\ m.fault = "none"
  /\ r = Failed("Object_ReadMember") /\ StackOK(st) /\ Above(st) \in Node
  /\ \E k \in Memory(Texts), p \in Node :
       TornOff(m, k, p, st) /\ Charge(k, st, {}, {}, lo)

\* The types, and where the phases are.
Shape ==
  /\ doc \in Seq(Alphabet) /\ Bounded(doc) /\ io \in {"open", "end", "error"}
  /\ pe.loc \in Nat /\ pe.loc <= Len(doc)
  /\ phase \in {"parse", "confirm", "rejected", "accepted", "released"}
  /\ phase # "parse" => stack = <<>>
  /\ phase = "confirm" => ret.ok
  /\ phase # "accepted" => tree = NULL

\* Why a fault has come about.
Blame ==
  /\ mem.fault = "misuse" => torn # {}
  /\ mem.fault = "assertion" => MallocMayFail
  /\ torn # {} => MallocMayFail

\* The inductive invariant.
ParserInv ==
  /\ Shape /\ Blame
  /\ \/ /\ StackOK(stack) /\ Consistent(ret, stack)
        /\ Owned(mem, stack, Handed, ret.str, lost)
        /\ torn # {} => mem.fault = "misuse"
     \/ phase = "parse" /\ torn # {} /\ Torn(mem, stack, ret, lost)

-----------------------------------------------------------------------------
(***************************************************************************)
(* The steps between the calls: frames replaced, pushed and popped.        *)
(***************************************************************************)
Same(f, g) == /\ f.fn = g.fn /\ NodeAt(f) = NodeAt(g) /\ LabelAt(f) = LabelAt(g)
              /\ ParentAt(f) = ParentAt(g)

LEMMA RunningConsistent == ASSUME NEW st PROVE Consistent(Running, st)
  BY DEF Consistent, Running, Returned, Results, Pointer, Symbol

LEMMA PushGood ==
  ASSUME NEW m, NEW st, StackOK(st), NEW f \in Frames, NEW lo,
         Charge(m, st, {NodeAt(f)} \ {NULL}, {LabelAt(f)} \ {NULL}, lo),
         IF f.fn = "JReadString" THEN Pending(st) = NULL ELSE ParentAt(f) = Above(st)
  PROVE  Good(m, Append(st, f), Running, lo)
<1>1. Charge(m, Append(st, f), {}, {}, lo) /\ StackOK(Append(st, f))
  BY ChargePush
<1>2. Running.node = NULL /\ Running.str = NULL
  BY DEF Running, Returned
<1>3. Unattached(NULL, Append(st, f)) = {} /\ {NULL} \ {NULL} = {}
  BY DEF Unattached
<1>4. QED
  BY <1>1, <1>2, <1>3, RunningConsistent DEF Good, Owned

LEMMA FailGood ==
  ASSUME NEW m, NEW st, StackOK(st), NEW lo, Charge(m, st, {}, {}, lo),
         NEW fn \in {"JParser", "parse_collection", "Object_ReadMember", "JReadString"},
         fn = "JReadString" => Pending(st) = NULL
  PROVE  Good(m, st, Failed(fn), lo)
<1>1. Consistent(Failed(fn), st)
  BY DEF Consistent, Failed, Returned, Results, Pointer, Symbol
<1>2. Failed(fn).node = NULL /\ Failed(fn).str = NULL
  BY DEF Failed, Returned
<1>3. Unattached(NULL, st) = {} /\ {NULL} \ {NULL} = {}
  BY DEF Unattached
<1>4. QED
  BY <1>1, <1>2, <1>3 DEF Good, Owned

LEMMA GoodCharge ==
  ASSUME NEW m, NEW st, NEW r, NEW lo, Good(m, st, r, lo), st # <<>>
  PROVE  /\ StackOK(st) /\ StackOK(Front(st)) /\ Last(st) \in Frames
         /\ Charge(m, st, Unattached(r.node, st), {r.str} \ {NULL}, lo)
         /\ Charge(m, Front(st), Unattached(r.node, st) \cup ({NodeAt(Last(st))} \ {NULL}),
                   ({r.str} \ {NULL}) \cup ({LabelAt(Last(st))} \ {NULL}), lo)
         /\ IF Last(st).fn = "JReadString" THEN Pending(Front(st)) = NULL
            ELSE ParentAt(Last(st)) = Above(Front(st))
  BY PopStack, ChargePop DEF Good, Owned

LEMMA OnlyItsOwn == ASSUME NEW X PROVE {} \cup X = X
  OBVIOUS

\* The innermost call has used up what it was handed.
LEMMA StayGood ==
  ASSUME NEW m, NEW st, NEW r, NEW lo, Good(m, st, r, lo), st # <<>>,
         r.str = NULL, r.node = NULL \/ Above(st) # NULL,
         NEW f \in Frames, Same(f, Last(st))
  PROVE  Good(m, Append(Front(st), f), Running, lo)
<1>1. Unattached(r.node, st) = {} /\ {r.str} \ {NULL} = {}
  BY DEF Unattached
<1>2. Charge(m, Front(st), {NodeAt(f)} \ {NULL}, {LabelAt(f)} \ {NULL}, lo)
  <2>1. Charge(m, Front(st), Unattached(r.node, st) \cup ({NodeAt(Last(st))} \ {NULL}),
               ({r.str} \ {NULL}) \cup ({LabelAt(Last(st))} \ {NULL}), lo)
    BY GoodCharge
  <2>2. QED
    BY <1>1, <2>1, OnlyItsOwn DEF Same
<1>3. IF f.fn = "JReadString" THEN Pending(Front(st)) = NULL
      ELSE ParentAt(f) = Above(Front(st))
  BY GoodCharge DEF Same
<1>4. QED
  BY <1>2, <1>3, GoodCharge, PushGood

-----------------------------------------------------------------------------
\* A step of the parser from a state in order, and to one.
Calm == phase = "parse" /\ Good(mem, stack, ret, lost)
Fine == /\ Good(mem', stack', ret', lost')
        /\ mem'.fault = mem.fault \/ (mem'.fault = "assertion" /\ MallocMayFail)

LEMMA Executed ==
  ASSUME Calm, NEW fn, Executing(fn)
  PROVE  /\ stack # <<>> /\ Top = Last(stack) /\ Top.fn = fn /\ Top \in Frames
         /\ Good(mem, stack, Running, lost) /\ ret = Running
         /\ StackOK(stack) /\ StackOK(Front(stack))
         /\ Charge(mem, stack, {}, {}, lost)
         /\ Charge(mem, Front(stack), {NodeAt(Top)} \ {NULL}, {LabelAt(Top)} \ {NULL}, lost)
         /\ IF fn = "JReadString" THEN Pending(Front(stack)) = NULL
            ELSE ParentAt(Top) = Above(Front(stack))
<1>1. /\ stack # <<>> /\ Top = Last(stack) /\ Top.fn = fn
      /\ Good(mem, stack, Running, lost) /\ ret = Running
  BY DEF Calm, Executing, In, Top
<1>2. Running.node = NULL /\ Running.str = NULL
  BY DEF Running, Returned
<1>3. Unattached(Running.node, stack) = {} /\ {Running.str} \ {NULL} = {}
  BY <1>2 DEF Unattached
<1>4. /\ StackOK(stack) /\ StackOK(Front(stack)) /\ Last(stack) \in Frames
      /\ Charge(mem, stack, Unattached(Running.node, stack), {Running.str} \ {NULL}, lost)
      /\ Charge(mem, Front(stack),
                Unattached(Running.node, stack) \cup ({NodeAt(Last(stack))} \ {NULL}),
                ({Running.str} \ {NULL}) \cup ({LabelAt(Last(stack))} \ {NULL}), lost)
      /\ IF Last(stack).fn = "JReadString" THEN Pending(Front(stack)) = NULL
         ELSE ParentAt(Last(stack)) = Above(Front(stack))
  BY <1>1, GoodCharge
<1>5. /\ Charge(mem, stack, {}, {}, lost)
      /\ Charge(mem, Front(stack), {NodeAt(Top)} \ {NULL}, {LabelAt(Top)} \ {NULL}, lost)
  BY <1>1, <1>3, <1>4, OnlyItsOwn
<1>6. QED
  BY <1>1, <1>4, <1>5

LEMMA StayFine ==
  ASSUME Calm, stack # <<>>, ret.str = NULL, ret.node = NULL \/ Above(stack) # NULL,
         NEW f \in Frames, Same(f, Top), Stay(f), mem' = mem, lost' = lost
  PROVE  Fine
  BY StayGood DEF Calm, Fine, Stay, Top

\* The frames the actions put on the stack.
LEMMA FrameTypes ==
  /\ \A chr \in Starters \cup {"NUL"}, p \in Pointer : JParserFrame(chr, p) \in Frames
  /\ \A kind \in {"array", "object"}, p \in Pointer, n \in Node :
       CollectionFrame(kind, p, n) \in Frames
  /\ \A p \in Node : MemberFrame(p) \in Frames
  /\ \A chr \in Symbol : StringFrame(chr) \in Frames
<1>1. \A chr \in Symbol : FirstBag(chr) \in Seq(Symbol)
  BY FirstBagType DEF Texts
<1>2. QED
  BY <1>1 DEF Frames, JParserFrame, CollectionFrame, MemberFrame, StringFrame, Symbol, Starters

LEMMA StringFrameKept ==
  ASSUME NEW f \in Frames, f.fn = "JReadString"
  PROVE  /\ f.bag \in Texts /\ f.first \in Symbol
         /\ \A e \in BOOLEAN :
              [f EXCEPT !.escape = e] \in Frames /\ Same([f EXCEPT !.escape = e], f)
         /\ \A b \in Texts :
              [f EXCEPT !.bag = b] \in Frames /\ Same([f EXCEPT !.bag = b], f)
         /\ \A b \in Texts, e \in BOOLEAN :
              /\ [f EXCEPT !.bag = b, !.escape = e] \in Frames
              /\ Same([f EXCEPT !.bag = b, !.escape = e], f)
  BY DEF Frames, Texts, Same, NodeAt, LabelAt, ParentAt

LEMMA JParserFrameKept ==
  ASSUME NEW f \in Frames, f.fn = "JParser"
  PROVE  /\ f.chr \in Starters /\ f.chr \in Symbol /\ f.parent \in Pointer
         /\ NodeAt(f) = NULL /\ LabelAt(f) = NULL /\ ParentAt(f) = f.parent
         /\ PassesOn(f) = f.parent
         /\ \A chr \in Starters :
              [f EXCEPT !.chr = chr] \in Frames /\ Same([f EXCEPT !.chr = chr], f)
  BY DEF Frames, Starters, Symbol, Same, NodeAt, LabelAt, ParentAt, PassesOn

LEMMA CollectionFrameKept ==
  ASSUME NEW f \in Frames, f.fn = "parse_collection"
  PROVE  /\ f.kind \in {"array", "object"} /\ f.node \in Node /\ f.parent \in Pointer
         /\ NodeAt(f) = f.node /\ LabelAt(f) = NULL /\ ParentAt(f) = f.parent
         /\ PassesOn(f) = f.node
         /\ \A b \in BOOLEAN : [f EXCEPT !.needs = b] \in Frames /\ Same([f EXCEPT !.needs = b], f)
         /\ \A chr \in Symbol :
              /\ [f EXCEPT !.chr = chr] \in Frames /\ Same([f EXCEPT !.chr = chr], f)
              /\ PassesOn([f EXCEPT !.chr = chr]) = f.node
  BY DEF Frames, Same, NodeAt, LabelAt, ParentAt, PassesOn

LEMMA MemberFrameKept ==
  ASSUME NEW f \in Frames, f.fn = "Object_ReadMember"
  PROVE  /\ f.parent \in Node /\ f.label \in Str \cup {NULL}
         /\ NodeAt(f) = NULL /\ LabelAt(f) = f.label /\ ParentAt(f) = f.parent
         /\ PassesOn(f) = NULL
         /\ \A b \in BOOLEAN : [f EXCEPT !.colon = b] \in Frames /\ Same([f EXCEPT !.colon = b], f)
         /\ \A s \in Str :
              /\ [f EXCEPT !.label = s] \in Frames /\ [f EXCEPT !.label = s].fn = f.fn
              /\ LabelAt([f EXCEPT !.label = s]) = s /\ NodeAt([f EXCEPT !.label = s]) = NULL
              /\ ParentAt([f EXCEPT !.label = s]) = ParentAt(f)
  BY DEF Frames, Same, NodeAt, LabelAt, ParentAt, PassesOn

LEMMA OnTop ==
  ASSUME NEW st \in Seq(Frames), NEW f \in Frames
  PROVE  Above(Append(st, f)) = PassesOn(f) /\ Pending(Append(st, f)) = LabelAt(f)
<1>1. Append(st, f) \in Seq(Frames) /\ Append(st, f) # <<>> /\ Len(Append(st, f)) = Len(st) + 1
      /\ Append(st, f)[Len(st) + 1] = f
  BY AppendProperties
<1>2. QED
  BY <1>1, FrontLast DEF Above, Pending

LEMMA Idle ==
  ASSUME NEW m, NEW st, NEW lo, Good(m, st, Running, lo)
  PROVE  StackOK(st) /\ Charge(m, st, {}, {}, lo)
  BY DEF Good, Owned, Running, Returned, Unattached

LEMMA InputSymbol == ASSUME NEW c \in Input, c \notin {EOF, ERR} PROVE c \in Starters /\ c \in Symbol
  BY DEF Input, Symbol, Starters

-----------------------------------------------------------------------------
(***************************************************************************)
(* The steps of each function.                                             *)
(***************************************************************************)
LEMMA StringDoneFine ==
  ASSUME Calm, Executing("JReadString"), NEW end \in Symbol, StringDone(end), lost' = lost
  PROVE  Fine
<1> DEFINE s == FreeStr(mem)
           t == CString(Top.bag)
           r == Returned("JReadString", TRUE, NULL, s, end)
<1>1. /\ stack # <<>> /\ Top = Last(stack) /\ Top.fn = "JReadString" /\ Top \in Frames
      /\ StackOK(Front(stack)) /\ Pending(Front(stack)) = NULL
      /\ Charge(mem, Front(stack), {NodeAt(Top)} \ {NULL}, {LabelAt(Top)} \ {NULL}, lost)
  BY Executed
<1>2. Charge(mem, Front(stack), {}, {}, lost)
  BY <1>1 DEF NodeAt, LabelAt
<1>3. t \in Texts
  BY <1>1, StringFrameKept, CStringType
<1>4. StrLeft(mem) /\ mem' = NewText(mem, s, t) /\ stack' = Front(stack) /\ ret' = r
  BY DEF StringDone, Return
<1> HIDE DEF t
<1>5. /\ s \in Str /\ Charge(mem', Front(stack), {}, {} \cup {s}, lost)
      /\ mem'.fault = mem.fault
  BY <1>2, <1>3, <1>4, ChargeText
<1> HIDE DEF s
<1>6. s # NULL
  BY <1>5, NullAssumption
<1>7. Consistent(r, Front(stack))
  BY <1>1, <1>5, <1>6 DEF Consistent, Returned, Results, Pointer
<1>8. r.node = NULL /\ {r.str} \ {NULL} = {} \cup {s} /\ Unattached(r.node, Front(stack)) = {}
  BY <1>6 DEF Returned, Unattached
<1>9. QED
  BY <1>1, <1>4, <1>5, <1>7, <1>8 DEF Good, Owned, Fine

LEMMA ReadStringFine ==
  ASSUME Calm, NEW c \in Input, ReadString(c)
  PROVE  Fine /\ torn' = torn
<1>1. Executing("JReadString") /\ lost' = lost /\ torn' = torn
  BY DEF ReadString, RS_Escaped, RS_Escape, RS_End, RS_Char, RS_NoMore, NothingLost
<1>2. /\ stack # <<>> /\ Top = Last(stack) /\ Top.fn = "JReadString" /\ Top \in Frames
      /\ StackOK(Front(stack)) /\ Pending(Front(stack)) = NULL
      /\ Charge(mem, Front(stack), {NodeAt(Top)} \ {NULL}, {LabelAt(Top)} \ {NULL}, lost)
      /\ ret = Running /\ Good(mem, stack, ret, lost)
  BY <1>1, Executed
<1>3. Top.bag \in Texts
  BY <1>2, StringFrameKept
<1>4. \A f \in Frames : Same(f, Top) /\ Stay(f) /\ mem' = mem => Fine
  BY <1>1, <1>2, StayFine DEF Running, Returned
<1>5. CASE RS_Escaped(c)
  <2>1. c \in Symbol /\ Escape \in Symbol
    BY <1>5 DEF RS_Escaped, Symbol
  <2>2. PICK b \in Added(Top.bag, Escape) :
          \E b2 \in Added(b, c) : Stay([Top EXCEPT !.bag = b2, !.escape = FALSE])
    BY <1>5 DEF RS_Escaped
  <2>3. PICK b2 \in Added(b, c) : Stay([Top EXCEPT !.bag = b2, !.escape = FALSE])
    BY <2>2
  <2>4. b2 \in Texts
    BY <1>3, <2>1, AddedType
  <2>5. mem' = mem
    BY <1>5 DEF RS_Escaped
  <2>6. QED
    BY <1>1, <1>2, <1>4, <2>3, <2>4, <2>5, StringFrameKept
<1>6. CASE RS_Escape(c)
  <2>1. Stay([Top EXCEPT !.escape = TRUE]) /\ mem' = mem
    BY <1>6 DEF RS_Escape
  <2>2. QED
    BY <1>1, <1>2, <1>3, <1>4, <2>1, StringFrameKept
<1>7. CASE RS_End(c)
  <2>1. c \in Symbol
    BY <1>7 DEF RS_End, Symbol
  <2>2. CASE StringDone(c)
    BY <1>1, <2>1, <2>2, StringDoneFine
  <2>3. CASE UNCHANGED <<stack, ret, mem, pe>>
    BY <1>1, <1>2, <2>3 DEF Fine
  <2>4. QED
    BY <1>1, <1>7, <2>2, <2>3 DEF RS_End
<1>8. CASE RS_Char(c)
  <2>1. c \in Symbol
    BY <1>8 DEF RS_Char, Symbol
  <2>2. PICK b \in Added(Top.bag, c) : Stay([Top EXCEPT !.bag = b])
    BY <1>8 DEF RS_Char
  <2>3. b \in Texts
    BY <1>3, <2>1, AddedType
  <2>4. mem' = mem
    BY <1>8 DEF RS_Char
  <2>5. QED
    BY <1>1, <1>2, <1>4, <2>2, <2>3, <2>4, StringFrameKept
<1>9. CASE RS_NoMore(c)
  <2>1. CASE StringDone("NUL")
    <3>1. "NUL" \in Symbol
      BY DEF Symbol
    <3>2. QED
      BY <1>1, <2>1, <3>1, StringDoneFine
  <2>2. CASE Fail("JReadString") /\ mem' = mem
    <3>1. Charge(mem, Front(stack), {}, {}, lost)
      BY <1>2 DEF NodeAt, LabelAt
    <3>2. Good(mem, Front(stack), Failed("JReadString"), lost)
      BY <1>2, <3>1, FailGood
    <3>3. QED
      BY <1>1, <2>2, <3>2 DEF Fail, Return, Fine
  <2>3. QED
    BY <1>9, <2>1, <2>2 DEF RS_NoMore
<1>10. QED
  BY <1>1, <1>5, <1>6, <1>7, <1>8, <1>9 DEF ReadString

LEMMA SkipFine ==
  ASSUME Calm, NEW c \in Input, JP_Skip(c)
  PROVE  Fine /\ torn' = torn
<1>1. Executing("JParser") /\ mem' = mem /\ lost' = lost /\ torn' = torn
  BY DEF JP_Skip, NothingLost
<1>2. /\ stack # <<>> /\ Top = Last(stack) /\ Top.fn = "JParser" /\ Top \in Frames
      /\ StackOK(Front(stack))
      /\ Charge(mem, Front(stack), {NodeAt(Top)} \ {NULL}, {LabelAt(Top)} \ {NULL}, lost)
      /\ ret = Running
  BY <1>1, Executed
<1>3. CASE c = EOF
  <2>1. Charge(mem, Front(stack), {}, {}, lost)
    BY <1>2 DEF NodeAt, LabelAt
  <2>2. Good(mem, Front(stack), Failed("JParser"), lost)
    BY <1>2, <2>1, FailGood
  <2>3. QED
    BY <1>1, <1>3, <2>2 DEF JP_Skip, Fail, Return, Fine
<1>4. CASE c # EOF
  <2> DEFINE chr == IF c = ERR THEN Top.chr ELSE c
  <2>1. Stay([Top EXCEPT !.chr = chr])
    BY <1>4 DEF JP_Skip
  <2>2. chr \in Starters
    BY <1>2, <1>4, JParserFrameKept DEF Input, Starters
  <2> HIDE DEF chr
  <2>3. ret.str = NULL /\ ret.node = NULL
    BY <1>2 DEF Running, Returned
  <2>4. [Top EXCEPT !.chr = chr] \in Frames /\ Same([Top EXCEPT !.chr = chr], Top)
    BY <1>2, <2>2, JParserFrameKept
  <2>5. QED
    BY <1>1, <1>2, <2>1, <2>3, <2>4, StayFine
<1>5. QED
  BY <1>1, <1>3, <1>4

LEMMA SwitchFine ==
  ASSUME Calm, JP_Switch
  PROVE  Fine /\ torn' = torn
<1>1. Executing("JParser") /\ lost' = lost /\ torn' = torn
  BY DEF JP_Switch, NothingLost
<1>2. /\ stack # <<>> /\ Top = Last(stack) /\ Top.fn = "JParser" /\ Top \in Frames
      /\ StackOK(stack) /\ Charge(mem, stack, {}, {}, lost)
  BY <1>1, Executed
<1>3. /\ Above(stack) = Top.parent /\ Pending(stack) = NULL
      /\ Top.chr \in Symbol /\ Top.parent \in Pointer
  BY <1>2, JParserFrameKept DEF Above, Pending
<1>4. CASE Top.chr \notin {"[", "{"}
  <2> DEFINE f == StringFrame(Top.chr)
  <2>1. f \in Frames /\ f.fn = "JReadString" /\ NodeAt(f) = NULL /\ LabelAt(f) = NULL
    BY <1>3, FrameTypes DEF StringFrame, NodeAt, LabelAt
  <2>2. mem' = mem /\ stack' = Append(stack, f) /\ ret' = Running
    BY <1>4 DEF JP_Switch, Call
  <2> HIDE DEF f
  <2>3. {NodeAt(f)} \ {NULL} = {} /\ {LabelAt(f)} \ {NULL} = {}
    BY <2>1
  <2>4. Good(mem, Append(stack, f), Running, lost)
    BY <1>2, <1>3, <2>1, <2>3, PushGood
  <2>5. QED
    BY <1>1, <2>2, <2>4 DEF Fine
<1>5. CASE Top.chr \in {"[", "{"}
  <2> DEFINE n == FreeNode(mem)
             m == NewNode(mem, n)
             k == Kind(Top.chr)
             f == CollectionFrame(k, Top.parent, n)
  <2>1. CASE /\ NodeLeft(mem) /\ mem' = SetValue(m, n, k, NULL) /\ Call(f)
    <3>1. /\ n \in Node /\ Charge(m, stack, {} \cup {n}, {}, lost)
          /\ m.live = mem.live \cup {n} /\ m.payload[n] = NULL /\ m.fault = mem.fault
      BY <1>2, <2>1, ChargeNew
    <3>2. k \in Types /\ k \in {"array", "object"}
      BY DEF Kind, Types
    <3> HIDE DEF m, k
    <3>3. /\ Charge(mem', stack, {} \cup {n}, {} \ {NULL}, lost)
          /\ mem'.fault = mem.fault
      <4>1. n \in m.live /\ NULL \in {} \cup {NULL}
        BY <3>1
      <4>2. /\ Charge(SetValue(m, n, k, NULL), stack, {} \cup {n}, {} \ {NULL}, lost)
            /\ SetValue(m, n, k, NULL).fault = m.fault
        BY <3>1, <3>2, <4>1, ChargeSet
      <4>3. QED
        BY <2>1, <3>1, <4>2
    <3>4. /\ f \in Frames /\ f.fn = "parse_collection" /\ NodeAt(f) = n /\ LabelAt(f) = NULL
          /\ ParentAt(f) = Above(stack)
      BY <1>3, <3>1, <3>2, FrameTypes DEF CollectionFrame, NodeAt, LabelAt, ParentAt
    <3> HIDE DEF n, f
    <3>5. {NodeAt(f)} \ {NULL} = {} \cup {n} /\ {LabelAt(f)} \ {NULL} = {} \ {NULL}
      BY <3>1, <3>4, NullAssumption
    <3>6. Good(mem', Append(stack, f), Running, lost)
      BY <1>2, <3>3, <3>4, <3>5, PushGood
    <3>7. QED
      BY <1>1, <2>1, <3>3, <3>6 DEF Call, Fine
  <2>2. CASE ret' = Failed("parse_collection") /\ mem' = mem /\ stack' = stack
    <3>1. Good(mem, stack, Failed("parse_collection"), lost)
      BY <1>2, FailGood
    <3>2. QED
      BY <1>1, <2>2, <3>1 DEF Fine
  <2>3. QED
    BY <1>5, <2>1, <2>2 DEF JP_Switch
<1>6. QED
  BY <1>4, <1>5

\* What a call knows when the call it made has returned.
LEMMA Resumed ==
  ASSUME Calm, NEW fn, In(fn)
  PROVE  /\ stack # <<>> /\ Top = Last(stack) /\ Top.fn = fn /\ Top \in Frames
         /\ StackOK(stack) /\ StackOK(Front(stack)) /\ Consistent(ret, stack)
         /\ ret.node \in mem.live \cup {NULL}
         /\ ret.node # NULL => mem.heap[ret.node].parent = Above(stack)
         /\ Charge(mem, stack, Unattached(ret.node, stack), {ret.str} \ {NULL}, lost)
         /\ Charge(mem, Front(stack), Unattached(ret.node, stack) \cup ({NodeAt(Top)} \ {NULL}),
                   ({ret.str} \ {NULL}) \cup ({LabelAt(Top)} \ {NULL}), lost)
         /\ Above(stack) = PassesOn(Top) /\ Pending(stack) = LabelAt(Top)
         /\ fn # "JReadString" => ParentAt(Top) = Above(Front(stack))
<1>1. stack # <<>> /\ Top = Last(stack) /\ Top.fn = fn /\ Good(mem, stack, ret, lost)
  BY DEF Calm, In, Top
<1>2. QED
  BY <1>1, GoodCharge DEF Good, Owned, Above, Pending

LEMMA AfterCollectionFine ==
  ASSUME Calm, JP_AfterCollection
  PROVE  Fine /\ torn' = torn
<1> DEFINE r == Returned("JParser", ret.ok, ret.node, NULL, "NUL")
<1>1. /\ In("JParser") /\ ret.fn = "parse_collection" /\ lost' = lost /\ torn' = torn
      /\ mem' = mem /\ stack' = Front(stack) /\ ret' = r
  BY DEF JP_AfterCollection, Resuming, NothingLost, Return
<1>2. /\ Top \in Frames /\ Top.fn = "JParser" /\ StackOK(Front(stack)) /\ Consistent(ret, stack)
      /\ ret.node \in mem.live \cup {NULL}
      /\ ret.node # NULL => mem.heap[ret.node].parent = Above(stack)
      /\ Above(stack) = PassesOn(Top) /\ ParentAt(Top) = Above(Front(stack))
  BY <1>1, Resumed
<1> Charge(mem, Front(stack), Unattached(ret.node, stack) \cup ({NodeAt(Top)} \ {NULL}),
           ({ret.str} \ {NULL}) \cup ({LabelAt(Top)} \ {NULL}), lost)
  BY <1>1, Resumed
<1>3. /\ NodeAt(Top) = NULL /\ LabelAt(Top) = NULL /\ Above(Front(stack)) = Above(stack)
      /\ ret.str = NULL
  BY <1>1, <1>2, JParserFrameKept DEF Consistent
<1>4. /\ Unattached(ret.node, Front(stack)) = Unattached(ret.node, stack) \cup ({NodeAt(Top)} \ {NULL})
      /\ {NULL} \ {NULL} = ({ret.str} \ {NULL}) \cup ({LabelAt(Top)} \ {NULL})
  BY <1>3 DEF Unattached
<1>5. Consistent(r, Front(stack))
  BY <1>1, <1>2 DEF Consistent, Results, Returned, Symbol
<1>6. r.node = ret.node /\ r.str = NULL
  BY DEF Returned
<1>7. Good(mem, Front(stack), r, lost)
  BY <1>2, <1>3, <1>4, <1>5, <1>6 DEF Good, Owned
<1>8. QED
  BY <1>1, <1>7 DEF Fine

\* The node of a value is attached where the call was told to.
LEMMA HandOverGood ==
  ASSUME NEW m, NEW st, StackOK(st), NEW n, NEW lo, Charge(m, st, {n}, {}, lo),
         NEW end \in Symbol, NEW fn \in {"JParser", "parse_collection"}
  PROVE  /\ Good(AdoptLast(m, n, Above(st)), st, Returned(fn, TRUE, n, NULL, end), lo)
         /\ AdoptLast(m, n, Above(st)).fault = m.fault
<1> DEFINE p == Above(st)
           r == Returned(fn, TRUE, n, NULL, end)
<1>1. n \in Node /\ n # NULL /\ n \in RootsOf(m) /\ n \in m.live /\ m.heap[n].parent = NULL
  BY NullAssumption DEF Charge, RootsOf
<1>2. /\ Consistent(r, st) /\ r.node = n /\ r.str = NULL /\ {NULL} \ {NULL} = {}
  BY <1>1 DEF Consistent, Returned, Results, Pointer
<1> HIDE DEF r
<1>3. CASE p = NULL
  <2>1. AdoptLast(m, n, p) = m
    BY <1>3 DEF AdoptLast
  <2>2. Unattached(n, st) = {n}
    BY <1>1, <1>3 DEF Unattached
  <2>3. Good(m, st, r, lo)
    BY <1>1, <1>2, <1>3, <2>2 DEF Good, Owned
  <2>4. QED
    BY <2>1, <2>3 DEF r
<1>4. CASE p # NULL
  <2> DEFINE k == AdoptLast(m, n, p)
  <2>1. p \in m.live /\ p # n /\ m.heap[p].parent = NULL
    BY <1>4, ChargeAbove
  <2> HIDE DEF p
  <2>2. /\ Charge(k, st, {n} \ {n}, {}, lo) /\ k.live = m.live /\ k.fault = m.fault
        /\ k.heap[n].parent = p
    BY <2>1, ChargeAdopt
  <2>3. Unattached(n, st) = {n} \ {n}
    BY <1>4 DEF Unattached, p
  <2> HIDE DEF k
  <2>4. Good(k, st, r, lo)
    BY <1>1, <1>2, <2>2, <2>3 DEF Good, Owned, p
  <2>5. QED
    BY <2>2, <2>4 DEF k, r, p
<1>5. QED
  BY <1>3, <1>4

\* The text of a value is in the hands of JParser.
LEMMA AfterStringCharge ==
  ASSUME Calm, Resuming("JParser", "JReadString")
  PROVE  /\ StackOK(Front(stack)) /\ Consistent(ret, stack) /\ ret.end \in Symbol
         /\ Charge(mem, Front(stack), {}, {ret.str} \ {NULL}, lost)
         /\ Top.parent = Above(Front(stack))
<1>1. In("JParser") /\ ret.fn = "JReadString"
  BY DEF Resuming
<1>2. /\ Top \in Frames /\ Top.fn = "JParser" /\ StackOK(Front(stack)) /\ Consistent(ret, stack)
      /\ ParentAt(Top) = Above(Front(stack))
  BY <1>1, Resumed
<1>3. Charge(mem, Front(stack), Unattached(ret.node, stack) \cup ({NodeAt(Top)} \ {NULL}),
             ({ret.str} \ {NULL}) \cup ({LabelAt(Top)} \ {NULL}), lost)
  BY <1>1, Resumed
<1>4. /\ NodeAt(Top) = NULL /\ LabelAt(Top) = NULL /\ Top.parent = Above(Front(stack))
      /\ ret.node = NULL /\ ret.end \in Symbol
  BY <1>1, <1>2, JParserFrameKept DEF Consistent, Results
<1>5. /\ Unattached(ret.node, stack) \cup ({NodeAt(Top)} \ {NULL}) = {}
      /\ ({ret.str} \ {NULL}) \cup ({LabelAt(Top)} \ {NULL}) = {ret.str} \ {NULL}
  BY <1>4 DEF Unattached
<1>6. QED
  BY <1>2, <1>3, <1>4, <1>5

LEMMA NoStringFine ==
  ASSUME Calm, JP_NoString
  PROVE  Fine
<1>1. /\ Resuming("JParser", "JReadString") /\ ~ret.ok
      /\ stack' = Front(stack) /\ ret' = Failed("JParser") /\ mem' = mem /\ lost' = lost
  BY DEF JP_NoString, Fail, Return
<1>2. StackOK(Front(stack)) /\ Charge(mem, Front(stack), {}, {ret.str} \ {NULL}, lost)
  BY <1>1, AfterStringCharge
<1>3. {ret.str} \ {NULL} = {}
  BY <1>1, AfterStringCharge DEF Consistent
<1>4. Good(mem, Front(stack), Failed("JParser"), lost)
  BY <1>2, <1>3, FailGood
<1>5. QED
  BY <1>1, <1>4 DEF Fine

\* The text of an unquoted value, and of a value without a node, is lost.
LEMMA TextLost ==
  ASSUME Calm, Resuming("JParser", "JReadString"), ret.ok
  PROVE  /\ ret.str \in Str
         /\ Charge(mem, Front(stack), {}, {}, lost \cup {ret.str})
<1>1. Consistent(ret, stack) /\ Charge(mem, Front(stack), {}, {ret.str} \ {NULL}, lost)
  BY AfterStringCharge
<1>2. ret.str # NULL /\ ret.str \in Str
  BY <1>1 DEF Consistent, Results, Resuming
<1>3. {ret.str} \ {NULL} = {ret.str}
  BY <1>2
<1>4. Charge(mem, Front(stack), {} \ {}, {ret.str} \ {ret.str}, lost \cup {} \cup {ret.str})
  BY <1>1, <1>3, ChargeLost
<1>5. /\ {} \ {} = {} /\ {ret.str} \ {ret.str} = {}
      /\ lost \cup {} \cup {ret.str} = lost \cup {ret.str}
  OBVIOUS
<1>6. QED
  BY <1>2, <1>4, <1>5

LEMMA NoNodeFine ==
  ASSUME Calm, JP_NoNode
  PROVE  Fine
<1> DEFINE r == Returned("JParser", TRUE, NULL, NULL, ret.end)
<1>1. /\ Resuming("JParser", "JReadString") /\ ret.ok /\ MallocMayFail
      /\ stack' = Front(stack) /\ ret' = r /\ mem' = mem /\ lost' = lost \cup {ret.str}
  BY DEF JP_NoNode, Return
<1>2. /\ StackOK(Front(stack)) /\ ret.end \in Symbol
      /\ Charge(mem, Front(stack), {}, {}, lost \cup {ret.str})
  BY <1>1, AfterStringCharge, TextLost
<1>3. Consistent(r, Front(stack)) /\ r.node = NULL /\ r.str = NULL
  BY <1>1, <1>2 DEF Consistent, Returned, Results, Pointer
<1> HIDE DEF r
<1>4. Unattached(NULL, Front(stack)) = {} /\ {NULL} \ {NULL} = {}
  BY DEF Unattached
<1>5. Good(mem, Front(stack), r, lost \cup {ret.str})
  BY <1>2, <1>3, <1>4 DEF Good, Owned
<1>6. QED
  BY <1>1, <1>5 DEF Fine

\* A new node gets its type, and perhaps its text, and is handed over.
LEMMA NewValueGood ==
  ASSUME NEW m, NEW st, StackOK(st), NEW s, NEW lo, Charge(m, st, {}, {s} \ {NULL}, lo),
         NodeLeft(m), NEW t \in Types, NEW end \in Symbol
  PROVE  /\ Good(AdoptLast(SetValue(NewNode(m, FreeNode(m)), FreeNode(m), t, s),
                        FreeNode(m), Above(st)),
                 st, Returned("JParser", TRUE, FreeNode(m), NULL, end), lo)
         /\ AdoptLast(SetValue(NewNode(m, FreeNode(m)), FreeNode(m), t, s),
                      FreeNode(m), Above(st)).fault = m.fault
<1> DEFINE n == FreeNode(m)
           m1 == NewNode(m, n)
           m2 == SetValue(m1, n, t, s)
<1>1. /\ Charge(m1, st, {} \cup {n}, {s} \ {NULL}, lo) /\ m1.live = m.live \cup {n}
      /\ m1.payload[n] = NULL /\ m1.fault = m.fault
  BY ChargeNew
<1> HIDE DEF m1, n
<1>2. n \in m1.live /\ s \in ({s} \ {NULL}) \cup {NULL}
  BY <1>1
<1>3. Charge(m2, st, {} \cup {n}, ({s} \ {NULL}) \ {s}, lo) /\ m2.fault = m1.fault
  BY <1>1, <1>2, ChargeSet
<1> HIDE DEF m2
<1>4. {} \cup {n} = {n} /\ ({s} \ {NULL}) \ {s} = {}
  OBVIOUS
<1>5. /\ Good(AdoptLast(m2, n, Above(st)), st, Returned("JParser", TRUE, n, NULL, end), lo)
      /\ AdoptLast(m2, n, Above(st)).fault = m2.fault
  BY <1>3, <1>4, HandOverGood
<1>6. QED
  BY <1>1, <1>3, <1>5 DEF m1, m2, n

LEMMA QuotedFine ==
  ASSUME Calm, JP_Quoted
  PROVE  Fine
<1> DEFINE n == FreeNode(mem)
           k == AdoptLast(SetValue(NewNode(mem, n), n, "string", ret.str), n, Top.parent)
           r == Returned("JParser", TRUE, n, NULL, ret.end)
<1>1. /\ Resuming("JParser", "JReadString") /\ ret.ok /\ NodeLeft(mem)
      /\ stack' = Front(stack) /\ ret' = r /\ mem' = k /\ lost' = lost
  BY DEF JP_Quoted, HandOver, Return
<1>2. /\ StackOK(Front(stack)) /\ ret.end \in Symbol /\ Top.parent = Above(Front(stack))
      /\ Charge(mem, Front(stack), {}, {ret.str} \ {NULL}, lost)
  BY <1>1, AfterStringCharge
<1>3. "string" \in Types
  BY DEF Types
<1> DEFINE c == AdoptLast(SetValue(NewNode(mem, n), n, "string", ret.str), n, Above(Front(stack)))
<1>4. Good(c, Front(stack), r, lost) /\ c.fault = mem.fault
  BY <1>1, <1>2, <1>3, NewValueGood
<1>5. k = c
  BY <1>2
<1> HIDE DEF c
<1> HIDE DEF k, r
<1>6. QED
  BY <1>1, <1>4, <1>5 DEF Fine

LEMMA UnquotedFine ==
  ASSUME Calm, JP_Unquoted
  PROVE  Fine
<1> DEFINE n == FreeNode(mem)
           m == NewNode(mem, n)
           t == mem.text[ret.str]
           k == Literal(t)
           s == FreeStr(mem)
           lo == lost \cup {ret.str}
           st == Front(stack)
           r == Returned("JParser", TRUE, n, NULL, ret.end)
<1>1. Resuming("JParser", "JReadString") /\ ret.ok /\ NodeLeft(mem) /\ lost' = lo
  BY DEF JP_Unquoted
<1>2. /\ StackOK(st) /\ ret.end \in Symbol /\ Top.parent = Above(st)
      /\ Charge(mem, st, {}, {}, lo) /\ ret.str \in Str
  BY <1>1, AfterStringCharge, TextLost
<1>3. /\ Charge(m, st, {} \cup {n}, {}, lo) /\ m.fault = mem.fault /\ m.strs = mem.strs
      /\ n \in Node /\ m.live = mem.live \cup {n} /\ m.payload[n] = NULL
  BY <1>1, <1>2, ChargeNew
<1>4. Charge(m, st, {n}, {}, lo)
  <2>1. {} \cup {n} = {n}
    OBVIOUS
  <2> HIDE DEF m, n, lo, st
  <2>2. QED
    BY <1>3, <2>1
<1>5. CASE k \notin Types /\ mem' = FreeTree(m, n) /\ Fail("JParser")
  <2>1. Charge(FreeTree(m, n), st, {n} \ {n}, {}, lo) /\ FreeTree(m, n).fault = m.fault
    <3>1. n \in {n} \cup {NULL}
      OBVIOUS
    <3> HIDE DEF m, n, lo, st
    <3>2. QED
      BY <1>4, <3>1, ChargeFreeTree
  <2>2. {n} \ {n} = {}
    OBVIOUS
  <2>3. Good(mem', st, Failed("JParser"), lo)
    BY <1>2, <1>5, <2>1, <2>2, FailGood
  <2>4. QED
    BY <1>1, <1>3, <1>5, <2>1, <2>3 DEF Fail, Return, Fine
<1>6. CASE k \in Types \ TextTypes /\ HandOver(SetValue(m, n, k, NULL), n)
  <2> DEFINE a == AdoptLast(SetValue(m, n, k, NULL), n, Above(st))
  <2>1. {NULL} \ {NULL} = {} /\ k \in Types
    BY <1>6
  <2>2. mem' = a /\ stack' = st /\ ret' = r
    BY <1>2, <1>6 DEF HandOver, Return
  <2> HIDE DEF k, lo, st
  <2>3. Charge(mem, st, {}, {NULL} \ {NULL}, lo)
    BY <1>2, <2>1
  <2>4. Good(a, st, r, lo) /\ a.fault = mem.fault
    BY <1>1, <1>2, <2>1, <2>3, NewValueGood
  <2> HIDE DEF a, r
  <2>5. QED
    BY <1>1, <2>2, <2>4 DEF Fine
<1>7. CASE k \in Types /\ StrLeft(mem) /\ HandOver(SetValue(NewText(m, s, t), n, k, s), n)
  <2> DEFINE b == NewText(m, s, t)
             c == SetValue(b, n, k, s)
             a == AdoptLast(c, n, Above(st))
  <2>1. StrLeft(m) /\ s = FreeStr(m) /\ t \in Texts
    <3>1. m.strs = mem.strs
      BY <1>3
    <3>2. mem \in Memory(Texts)
      BY <1>2 DEF Charge
    <3> HIDE DEF m
    <3>3. QED
      BY <1>2, <1>7, <3>1, <3>2 DEF StrLeft, FreeStr, Memory
  <2> HIDE DEF m, t, k, s, lo, st
  <2>2. /\ Charge(b, st, {n}, {} \cup {s}, lo) /\ b.live = m.live
        /\ b.payload = m.payload /\ b.fault = m.fault
    BY <1>3, <1>4, <2>1, ChargeText
  <2> HIDE DEF b, n
  <2>3. Charge(c, st, {n}, ({} \cup {s}) \ {s}, lo) /\ c.fault = b.fault
    <3>1. n \in b.live /\ b.payload[n] = NULL /\ k \in Types /\ s \in {} \cup {s} \cup {NULL}
      BY <1>3, <1>7, <2>2
    <3>2. QED
      BY <2>2, <3>1, ChargeSet
  <2>4. ({} \cup {s}) \ {s} = {}
    OBVIOUS
  <2> HIDE DEF c
  <2>5. Good(a, st, r, lo) /\ a.fault = c.fault
    BY <1>2, <2>3, <2>4, HandOverGood
  <2>6. mem' = a /\ stack' = st /\ ret' = r
    BY <1>2, <1>7 DEF HandOver, Return, b, c, st
  <2> HIDE DEF a, r
  <2>7. QED
    BY <1>1, <1>3, <2>2, <2>3, <2>5, <2>6 DEF Fine
<1>8. CASE HandOver(m, n)
  <2> DEFINE a == AdoptLast(m, n, Above(st))
  <2>1. Good(a, st, r, lo) /\ a.fault = m.fault
    <3> HIDE DEF m, n, lo, st
    <3>1. QED
      BY <1>2, <1>4, HandOverGood
  <2>2. mem' = a /\ stack' = st /\ ret' = r
    BY <1>2, <1>8 DEF HandOver, Return
  <2> HIDE DEF a, r, lo, st
  <2>3. QED
    BY <1>1, <1>3, <2>1, <2>2 DEF Fine
<1>9. QED
  BY <1>5, <1>6, <1>7, <1>8 DEF JP_Unquoted

LEMMA AfterStringFine ==
  ASSUME Calm, JP_AfterString
  PROVE  Fine /\ torn' = torn
  BY NoStringFine, NoNodeFine, QuotedFine, UnquotedFine DEF JP_AfterString

\* What parse_collection is in charge of between two reads, and when its member
\* has been read: its node.
LEMMA CollectionCharge ==
  ASSUME Calm, In("parse_collection"), ret = Running \/ ret.fn \in {"JParser", "Object_ReadMember"}
  PROVE  /\ StackOK(Front(stack)) /\ Top \in Frames /\ Top.fn = "parse_collection"
         /\ Top.node \in Node /\ Top.node # NULL /\ Top.parent = Above(Front(stack))
         /\ Charge(mem, Front(stack), {Top.node}, {}, lost)
         /\ stack # <<>> /\ Top = Last(stack) /\ Above(stack) = Top.node /\ ret.str = NULL
<1>1. /\ Top \in Frames /\ Top.fn = "parse_collection" /\ StackOK(Front(stack))
      /\ ParentAt(Top) = Above(Front(stack)) /\ stack # <<>> /\ Top = Last(stack)
      /\ Above(stack) = PassesOn(Top) /\ Consistent(ret, stack)
  BY Resumed
<1>2. Charge(mem, Front(stack), Unattached(ret.node, stack) \cup ({NodeAt(Top)} \ {NULL}),
             ({ret.str} \ {NULL}) \cup ({LabelAt(Top)} \ {NULL}), lost)
  BY Resumed
<1>3. /\ Top.node \in Node /\ Top.node # NULL /\ NodeAt(Top) = Top.node /\ LabelAt(Top) = NULL
      /\ Above(stack) = Top.node /\ Top.parent = Above(Front(stack))
  BY <1>1, CollectionFrameKept, NullAssumption
<1>4. ret.str = NULL
  BY <1>1 DEF Consistent, Running, Returned
<1>5. /\ Unattached(ret.node, stack) \cup ({NodeAt(Top)} \ {NULL}) = {Top.node}
      /\ ({ret.str} \ {NULL}) \cup ({LabelAt(Top)} \ {NULL}) = {}
  BY <1>3, <1>4 DEF Unattached
<1>6. QED
  BY <1>1, <1>2, <1>3, <1>4, <1>5

LEMMA AbandonFine ==
  ASSUME StackOK(Front(stack)), Charge(mem, Front(stack), {Top.node}, {}, lost),
         Abandon, lost' = lost
  PROVE  Fine
<1> DEFINE k == FreeTree(mem, Top.node)
<1>1. Charge(k, Front(stack), {Top.node} \ {Top.node}, {}, lost) /\ k.fault = mem.fault
  BY ChargeFreeTree
<1>2. {Top.node} \ {Top.node} = {}
  OBVIOUS
<1> HIDE DEF k
<1>3. Good(k, Front(stack), Failed("parse_collection"), lost)
  BY <1>1, <1>2, FailGood
<1>4. QED
  BY <1>1, <1>3 DEF Abandon, Fail, Return, Fine, k

LEMMA CompleteFine ==
  ASSUME StackOK(Front(stack)), Charge(mem, Front(stack), {Top.node}, {}, lost),
         Top.parent = Above(Front(stack)), Complete, lost' = lost
  PROVE  Fine
<1> DEFINE k == AdoptLast(mem, Top.node, Above(Front(stack)))
           r == Returned("parse_collection", TRUE, Top.node, NULL, "NUL")
<1>1. "NUL" \in Symbol
  BY DEF Symbol
<1>2. Good(k, Front(stack), r, lost) /\ k.fault = mem.fault
  BY <1>1, HandOverGood
<1>3. mem' = k /\ stack' = Front(stack) /\ ret' = r
  BY DEF Complete, Return
<1> HIDE DEF k, r
<1>4. QED
  BY <1>2, <1>3 DEF Fine

\* read_member: the frame goes on, and the calls of the member on top of it.
LEMMA MemberFine ==
  ASSUME Calm, NEW c \in Input, Executing("parse_collection"), PC_Member(c), lost' = lost
  PROVE  Fine
<1> DEFINE f == [Top EXCEPT !.chr = c]
           frames == Append(Front(stack), f)
<1>1. /\ stack # <<>> /\ Top = Last(stack) /\ Top.fn = "parse_collection" /\ Top \in Frames
      /\ Good(mem, stack, Running, lost) /\ StackOK(Front(stack))
  BY Executed
<1>2. c \in Symbol /\ c \in Alphabet /\ mem' = mem
  BY DEF PC_Member, Symbol
<1>3. f \in Frames /\ Same(f, Top) /\ PassesOn(f) = Top.node /\ Top.node \in Node
  BY <1>1, <1>2, CollectionFrameKept
<1>4. LabelAt(f) = NULL
  BY <1>1, <1>3, CollectionFrameKept DEF Same
<1> HIDE DEF f
<1>5. Good(mem, frames, Running, lost)
  BY <1>1, <1>3, StayGood DEF Running, Returned
<1>6. StackOK(frames) /\ Charge(mem, frames, {}, {}, lost)
  BY <1>5, Idle
<1>7. Above(frames) = Top.node /\ Pending(frames) = NULL
  BY <1>1, <1>3, <1>4, OnTop DEF StackOK
<1> HIDE DEF frames
<1>8. CASE stack' = Append(frames, JParserFrame(c, Top.node)) /\ ret' = Running
  <2> DEFINE g == JParserFrame(c, Top.node)
  <2>1. /\ g \in Frames /\ g.fn = "JParser" /\ NodeAt(g) = NULL /\ LabelAt(g) = NULL
        /\ ParentAt(g) = Top.node
    BY <1>2, <1>3, FrameTypes DEF JParserFrame, NodeAt, LabelAt, ParentAt, Pointer, Starters
  <2> HIDE DEF g
  <2>2. {NodeAt(g)} \ {NULL} = {} /\ {LabelAt(g)} \ {NULL} = {}
    BY <2>1
  <2>3. Good(mem, Append(frames, g), Running, lost)
    BY <1>6, <1>7, <2>1, <2>2, PushGood
  <2>4. QED
    BY <1>2, <1>8, <2>3 DEF g, Fine
<1>9. CASE stack' = frames \o <<MemberFrame(Top.node), StringFrame(c)>> /\ ret' = Running
  <2> DEFINE g == MemberFrame(Top.node)
             h == StringFrame(c)
  <2>1. /\ g \in Frames /\ g.fn = "Object_ReadMember" /\ NodeAt(g) = NULL /\ LabelAt(g) = NULL
        /\ ParentAt(g) = Top.node
    BY <1>3, FrameTypes DEF MemberFrame, NodeAt, LabelAt, ParentAt
  <2>2. h \in Frames /\ h.fn = "JReadString" /\ NodeAt(h) = NULL /\ LabelAt(h) = NULL
    BY <1>2, FrameTypes DEF StringFrame, NodeAt, LabelAt
  <2>3. frames \o <<g, h>> = Append(Append(frames, g), h)
    <3> HIDE DEF g, h
    <3>1. QED
      BY <1>6, <2>1, <2>2 DEF StackOK
  <2> HIDE DEF g, h
  <2>4. {NodeAt(g)} \ {NULL} = {} /\ {LabelAt(g)} \ {NULL} = {}
    BY <2>1
  <2>5. Good(mem, Append(frames, g), Running, lost)
    BY <1>6, <1>7, <2>1, <2>4, PushGood
  <2>6. StackOK(Append(frames, g)) /\ Charge(mem, Append(frames, g), {}, {}, lost)
    BY <2>5, Idle
  <2>7. Pending(Append(frames, g)) = NULL
    BY <1>6, <2>1, OnTop DEF StackOK
  <2>8. {NodeAt(h)} \ {NULL} = {} /\ {LabelAt(h)} \ {NULL} = {}
    BY <2>2
  <2>9. Good(mem, Append(Append(frames, g), h), Running, lost)
    BY <2>2, <2>6, <2>7, <2>8, PushGood
  <2>10. QED
    BY <1>2, <1>9, <2>3, <2>9 DEF g, h, Fine
<1>10. CASE stack' = frames /\ ret' = Failed("Object_ReadMember")
  <2>1. Good(mem, frames, Failed("Object_ReadMember"), lost)
    BY <1>6, FailGood
  <2>2. QED
    BY <1>2, <1>10, <2>1 DEF Fine
<1>11. QED
  BY <1>8, <1>9, <1>10 DEF PC_Member, f, frames

LEMMA CollectionReadFine ==
  ASSUME Calm, NEW c \in Input, CollectionRead(c)
  PROVE  Fine /\ torn' = torn
<1>1. Executing("parse_collection") /\ lost' = lost /\ torn' = torn
  BY DEF CollectionRead, NothingLost
<1>2. In("parse_collection") /\ ret = Running
  BY <1>1 DEF Executing
<1>3. /\ StackOK(Front(stack)) /\ Top \in Frames /\ Top.fn = "parse_collection"
      /\ Top.parent = Above(Front(stack))
      /\ Charge(mem, Front(stack), {Top.node}, {}, lost)
      /\ stack # <<>> /\ Top = Last(stack)
  BY <1>2, CollectionCharge
<1>4. CASE PC_Space(c)
  BY <1>1, <1>4 DEF PC_Space, Calm, Fine
<1>5. CASE PC_End(c)
  BY <1>1, <1>3, <1>5, CompleteFine DEF PC_End
<1>6. CASE PC_Comma(c)
  <2>1. Stay([Top EXCEPT !.needs = TRUE]) /\ mem' = mem
    BY <1>6 DEF PC_Comma
  <2>2. [Top EXCEPT !.needs = TRUE] \in Frames /\ Same([Top EXCEPT !.needs = TRUE], Top)
    BY <1>3, CollectionFrameKept
  <2>3. ret.str = NULL /\ ret.node = NULL
    BY <1>2 DEF Running, Returned
  <2>4. QED
    BY <1>1, <1>3, <2>1, <2>2, <2>3, StayFine
<1>7. CASE PC_Reject(c)
  BY <1>1, <1>3, <1>7, AbandonFine DEF PC_Reject
<1>8. CASE PC_Member(c)
  BY <1>1, <1>8, MemberFine
<1>9. CASE PC_NoMore(c)
  BY <1>1, <1>3, <1>9, AbandonFine DEF PC_NoMore
<1>10. QED
  BY <1>1, <1>4, <1>5, <1>6, <1>7, <1>8, <1>9 DEF CollectionRead

LEMMA AfterMemberFine ==
  ASSUME Calm, PC_AfterMember
  PROVE  Fine /\ torn' = torn
<1>1. /\ In("parse_collection") /\ ret.fn \in {"JParser", "Object_ReadMember"}
      /\ lost' = lost /\ torn' = torn
  BY DEF PC_AfterMember, NothingLost
<1>2. /\ StackOK(Front(stack)) /\ Top \in Frames /\ Top.fn = "parse_collection"
      /\ Top.parent = Above(Front(stack))
      /\ Charge(mem, Front(stack), {Top.node}, {}, lost)
      /\ stack # <<>> /\ Top = Last(stack) /\ Above(stack) # NULL /\ ret.str = NULL
  BY <1>1, CollectionCharge
<1>3. ASSUME NEW b \in BOOLEAN, Stay([Top EXCEPT !.needs = b]), mem' = mem
      PROVE  Fine
  <2>1. [Top EXCEPT !.needs = b] \in Frames /\ Same([Top EXCEPT !.needs = b], Top)
    BY <1>2, CollectionFrameKept
  <2>2. QED
    BY <1>1, <1>2, <1>3, <2>1, StayFine
<1>4. CASE Abandon
  BY <1>1, <1>2, <1>4, AbandonFine
<1>5. CASE Complete
  BY <1>1, <1>2, <1>5, CompleteFine
<1>6. QED
  BY <1>1, <1>3, <1>4, <1>5 DEF PC_AfterMember

\* What Object_ReadMember is in charge of: its label, once it has one.
LEMMA MemberCharge ==
  ASSUME Calm, In("Object_ReadMember")
  PROVE  /\ StackOK(Front(stack)) /\ Top \in Frames /\ Top.fn = "Object_ReadMember"
         /\ stack # <<>> /\ Top = Last(stack) /\ Consistent(ret, stack)
         /\ Above(stack) = NULL /\ Pending(stack) = Top.label
         /\ Top.parent = Above(Front(stack)) /\ Top.parent \in Node
         /\ Top.label \in Str \cup {NULL}
         /\ Charge(mem, Front(stack), {ret.node} \ {NULL},
                   ({ret.str} \ {NULL}) \cup ({Top.label} \ {NULL}), lost)
<1>1. /\ Top \in Frames /\ Top.fn = "Object_ReadMember" /\ StackOK(Front(stack))
      /\ ParentAt(Top) = Above(Front(stack)) /\ stack # <<>> /\ Top = Last(stack)
      /\ Above(stack) = PassesOn(Top) /\ Pending(stack) = LabelAt(Top) /\ Consistent(ret, stack)
  BY Resumed
<1>2. Charge(mem, Front(stack), Unattached(ret.node, stack) \cup ({NodeAt(Top)} \ {NULL}),
             ({ret.str} \ {NULL}) \cup ({LabelAt(Top)} \ {NULL}), lost)
  BY Resumed
<1>3. /\ NodeAt(Top) = NULL /\ LabelAt(Top) = Top.label /\ Above(stack) = NULL
      /\ Top.parent = Above(Front(stack)) /\ Top.parent \in Node
      /\ Top.label \in Str \cup {NULL}
  BY <1>1, MemberFrameKept
<1>4. Unattached(ret.node, stack) \cup ({NodeAt(Top)} \ {NULL}) = {ret.node} \ {NULL}
  BY <1>3 DEF Unattached
<1>5. QED
  BY <1>1, <1>2, <1>3, <1>4

\* The exits of Object_ReadMember without a property: the label is freed.
LEMMA NoMemberFine ==
  ASSUME StackOK(Front(stack)), NEW lo,
         Charge(mem, Front(stack), {}, {Top.label} \ {NULL}, lo),
         mem' = FreeText(mem, Top.label), Fail("Object_ReadMember"), lost' = lo
  PROVE  Fine
<1> DEFINE k == FreeText(mem, Top.label)
           S == {Top.label} \ {NULL}
<1>1. Top.label \in S \cup {NULL} /\ S \ {Top.label} = {}
  OBVIOUS
<1> HIDE DEF S
<1>2. Charge(k, Front(stack), {}, S \ {Top.label}, lo) /\ k.fault = mem.fault
  BY <1>1, ChargeFreeText DEF S
<1> HIDE DEF k
<1>3. Good(k, Front(stack), Failed("Object_ReadMember"), lo)
  BY <1>1, <1>2, FailGood
<1>4. QED
  BY <1>2, <1>3 DEF Fail, Return, Fine, k

LEMMA AfterLabelFine ==
  ASSUME Calm, OM_AfterLabel
  PROVE  Fine /\ torn' = torn
<1>1. /\ In("Object_ReadMember") /\ ret.fn = "JReadString" /\ mem' = mem
      /\ lost' = lost /\ torn' = torn
  BY DEF OM_AfterLabel, Resuming, NothingLost
<1>2. /\ StackOK(Front(stack)) /\ Top \in Frames /\ Top.fn = "Object_ReadMember"
      /\ Consistent(ret, stack) /\ Pending(stack) = Top.label
      /\ Top.parent = Above(Front(stack))
      /\ Charge(mem, Front(stack), {ret.node} \ {NULL},
                ({ret.str} \ {NULL}) \cup ({Top.label} \ {NULL}), lost)
  BY <1>1, MemberCharge
<1>3. Top.label = NULL /\ ret.node = NULL
  BY <1>1, <1>2 DEF Consistent
<1>4. {ret.node} \ {NULL} = {} /\ ({ret.str} \ {NULL}) \cup ({Top.label} \ {NULL}) = {ret.str} \ {NULL}
  BY <1>3
<1>5. Charge(mem, Front(stack), {}, {ret.str} \ {NULL}, lost)
  BY <1>2, <1>4
<1>6. CASE ret.ok
  <2> DEFINE f == [Top EXCEPT !.label = ret.str]
  <2>1. ret.str \in Str
    BY <1>1, <1>2, <1>6 DEF Consistent, Results
  <2>2. /\ f \in Frames /\ f.fn = "Object_ReadMember" /\ NodeAt(f) = NULL
        /\ LabelAt(f) = ret.str /\ ParentAt(f) = Top.parent
    BY <1>2, <2>1, MemberFrameKept
  <2>3. stack' = Append(Front(stack), f) /\ ret' = Running
    BY <1>6 DEF OM_AfterLabel, Stay
  <2> HIDE DEF f
  <2>4. {NodeAt(f)} \ {NULL} = {}
    BY <2>2
  <2>5. Good(mem, Append(Front(stack), f), Running, lost)
    BY <1>2, <1>5, <2>2, <2>4, PushGood
  <2>6. QED
    BY <1>1, <2>3, <2>5 DEF Fine
<1>7. CASE ~ret.ok
  <2>1. {ret.str} \ {NULL} = {}
    BY <1>2, <1>7 DEF Consistent
  <2>2. Good(mem, Front(stack), Failed("Object_ReadMember"), lost)
    BY <1>2, <1>5, <2>1, FailGood
  <2>3. stack' = Front(stack) /\ ret' = Failed("Object_ReadMember")
    BY <1>7 DEF OM_AfterLabel, Fail, Return
  <2>4. QED
    BY <1>1, <2>2, <2>3 DEF Fine
<1>8. QED
  BY <1>6, <1>7

LEMMA MemberReadFine ==
  ASSUME Calm, NEW c \in Input, OM_Read(c)
  PROVE  Fine /\ torn' = torn
<1>1. Executing("Object_ReadMember") /\ lost' = lost /\ torn' = torn
  BY DEF OM_Read, NothingLost
<1>2. In("Object_ReadMember") /\ ret = Running /\ ret.node = NULL /\ ret.str = NULL
  BY <1>1 DEF Executing, Running, Returned
<1>3. /\ StackOK(Front(stack)) /\ Top \in Frames /\ Top.fn = "Object_ReadMember"
      /\ stack # <<>> /\ Top = Last(stack) /\ Above(stack) = NULL
      /\ Charge(mem, Front(stack), {ret.node} \ {NULL},
                ({ret.str} \ {NULL}) \cup ({Top.label} \ {NULL}), lost)
  BY <1>2, MemberCharge
<1>4. /\ {ret.node} \ {NULL} = {}
      /\ ({ret.str} \ {NULL}) \cup ({Top.label} \ {NULL}) = {Top.label} \ {NULL}
  BY <1>2
<1>5. Charge(mem, Front(stack), {}, {Top.label} \ {NULL}, lost)
  BY <1>3, <1>4
<1>6. CASE UNCHANGED <<stack, ret, mem, pe>>
  BY <1>1, <1>6 DEF Calm, Fine
<1>7. CASE Stay([Top EXCEPT !.colon = TRUE]) /\ mem' = mem
  <2>1. [Top EXCEPT !.colon = TRUE] \in Frames /\ Same([Top EXCEPT !.colon = TRUE], Top)
    BY <1>3, MemberFrameKept
  <2>2. QED
    BY <1>1, <1>2, <1>3, <1>7, <2>1, StayFine
<1>8. CASE c \in Alphabet /\ Call(JParserFrame(c, NULL)) /\ mem' = mem
  <2> DEFINE g == JParserFrame(c, NULL)
  <2>1. /\ g \in Frames /\ g.fn = "JParser" /\ NodeAt(g) = NULL /\ LabelAt(g) = NULL
        /\ ParentAt(g) = Above(stack)
    BY <1>3, <1>8, FrameTypes DEF JParserFrame, NodeAt, LabelAt, ParentAt, Pointer, Starters
  <2> HIDE DEF g
  <2>2. {NodeAt(g)} \ {NULL} = {} /\ {LabelAt(g)} \ {NULL} = {}
    BY <2>1
  <2>3. StackOK(stack) /\ Charge(mem, stack, {}, {}, lost)
    BY <1>1, Executed
  <2>4. Good(mem, Append(stack, g), Running, lost)
    BY <2>1, <2>2, <2>3, PushGood
  <2>5. QED
    BY <1>1, <1>8, <2>4 DEF Call, Fine, g
<1>9. CASE mem' = FreeText(mem, Top.label) /\ Fail("Object_ReadMember")
  BY <1>1, <1>3, <1>5, <1>9, NoMemberFine
<1>10. QED
  BY <1>1, <1>6, <1>7, <1>8, <1>9 DEF OM_Read

\* The value has been read: it and the label are in the charge of the call.
LEMMA ValueCharge ==
  ASSUME Calm, Resuming("Object_ReadMember", "JParser")
  PROVE  /\ StackOK(Front(stack)) /\ Top.parent = Above(Front(stack))
         /\ Above(Front(stack)) \in Node /\ Consistent(ret, stack) /\ ret.end \in Symbol
         /\ Charge(mem, Front(stack), {ret.node} \ {NULL}, {Top.label} \ {NULL}, lost)
<1>1. In("Object_ReadMember") /\ ret.fn = "JParser"
  BY DEF Resuming
<1>2. /\ StackOK(Front(stack)) /\ Consistent(ret, stack)
      /\ Top.parent = Above(Front(stack)) /\ Top.parent \in Node
      /\ Charge(mem, Front(stack), {ret.node} \ {NULL},
                ({ret.str} \ {NULL}) \cup ({Top.label} \ {NULL}), lost)
  BY <1>1, MemberCharge
<1>3. ret.str = NULL /\ ret.end \in Symbol
  BY <1>1, <1>2 DEF Consistent, Results
<1>4. ({ret.str} \ {NULL}) \cup ({Top.label} \ {NULL}) = {Top.label} \ {NULL}
  BY <1>3
<1>5. QED
  BY <1>2, <1>3, <1>4

LEMMA NoValueFine ==
  ASSUME Calm, Resuming("Object_ReadMember", "JParser"), OM_NoValue
  PROVE  Fine /\ torn' = torn
<1>1. /\ StackOK(Front(stack)) /\ Consistent(ret, stack)
      /\ Charge(mem, Front(stack), {ret.node} \ {NULL}, {Top.label} \ {NULL}, lost)
  BY ValueCharge
<1>2. {ret.node} \ {NULL} = {}
  BY <1>1 DEF OM_NoValue, Consistent
<1>3. Charge(mem, Front(stack), {}, {Top.label} \ {NULL}, lost)
  BY <1>1, <1>2
<1>4. QED
  BY <1>1, <1>3, NoMemberFine DEF OM_NoValue, NothingLost

\* The value is left behind.
LEMMA ValueLost ==
  ASSUME NEW m, NEW N, NEW S, NEW lo, Charge(m, Front(stack), N, S, lo)
  PROVE  Charge(m, Front(stack), {}, S, lo \cup N)
<1>1. Charge(m, Front(stack), N \ N, S \ {}, lo \cup N \cup {})
  BY ChargeLost
<1>2. N \ N = {} /\ S \ {} = S /\ lo \cup N \cup {} = lo \cup N
  OBVIOUS
<1>3. QED
  BY <1>1, <1>2

LEMMA NoPropertyFine ==
  ASSUME Calm, Resuming("Object_ReadMember", "JParser"), OM_NoProperty
  PROVE  Fine /\ torn' = torn
<1> DEFINE V == {ret.node} \ {NULL}
<1>1. /\ StackOK(Front(stack))
      /\ Charge(mem, Front(stack), V, {Top.label} \ {NULL}, lost)
  BY ValueCharge
<1> HIDE DEF V
<1>2. Charge(mem, Front(stack), {}, {Top.label} \ {NULL}, lost \cup V)
  BY <1>1, ValueLost
<1>3. QED
  BY <1>1, <1>2, NoMemberFine DEF OM_NoProperty, V

\* The property node, put behind the members of the collection.
Hung(m, p, q) == AdoptLast(NewNode(m, p), p, q)

LEMMA HangProperty ==
  ASSUME NEW m, NEW st, StackOK(st), Above(st) \in Node, NEW N, NEW S, NEW lo,
         Charge(m, st, N, S, lo), NodeLeft(m)
  PROVE  /\ FreeNode(m) \in Node /\ FreeNode(m) \notin N /\ FreeNode(m) # Above(st)
         /\ Charge(Hung(m, FreeNode(m), Above(st)), st, N, S, lo)
         /\ Hung(m, FreeNode(m), Above(st)).live = m.live \cup {FreeNode(m)}
         /\ Hung(m, FreeNode(m), Above(st)).heap[FreeNode(m)].parent = Above(st)
         /\ Hung(m, FreeNode(m), Above(st)).heap[FreeNode(m)].first = NULL
         /\ Hung(m, FreeNode(m), Above(st)).heap[FreeNode(m)].next = NULL
         /\ Hung(m, FreeNode(m), Above(st)).payload[FreeNode(m)] = NULL
         /\ Hung(m, FreeNode(m), Above(st)).fault = m.fault
<1> DEFINE p == FreeNode(m)
           q == Above(st)
           k == NewNode(m, p)
           h == AdoptLast(k, p, q)
<1>1. q # NULL
  BY NullAssumption
<1>2. q \in m.live /\ m.heap[q].parent = NULL
  BY <1>1, ChargeAbove
<1>3. /\ p \in Node /\ p \notin m.live /\ p \notin N
      /\ Charge(k, st, N \cup {p}, S, lo)
      /\ k.live = m.live \cup {p} /\ k.payload[p] = NULL /\ k.heap[p] = ZeroCell
      /\ \A x \in m.live : k.heap[x] = m.heap[x]
      /\ k.fault = m.fault
  BY ChargeNew
<1> HIDE DEF p, q, k
<1> DEFINE P == N \cup {p}
<1>4. /\ p \in P /\ q \in k.live /\ q # p /\ k.heap[q].parent = NULL
      /\ Charge(k, st, P, S, lo)
  BY <1>2, <1>3
<1>5. P \ {p} = N
  BY <1>3
<1> HIDE DEF P
<1>6. /\ Charge(h, st, P \ {p}, S, lo)
      /\ h.live = k.live /\ h.payload = k.payload /\ h.fault = k.fault
      /\ h.heap[p].parent = q /\ h.heap[p].first = k.heap[p].first /\ h.heap[p].next = NULL
  BY <1>4, ChargeAdopt
<1> HIDE DEF h
<1>7. h.heap[p].first = NULL
  BY <1>3, <1>6 DEF ZeroCell
<1>8. QED
  BY <1>3, <1>4, <1>5, <1>6, <1>7 DEF h, k, p, q, Hung

\* The value goes behind the label node.  Without a value the assertion fails.
LEMMA ValueAdopted ==
  ASSUME NEW m, NEW st, StackOK(st), Above(st) \in Node, NEW n \in Pointer, NEW lo,
         Charge(m, st, {n} \ {NULL}, {}, lo), NEW p \in m.live, p # n, p # Above(st),
         m.heap[p].parent = Above(st), n = NULL => MallocMayFail, NEW end \in Symbol
  PROVE  /\ Good(AdoptLast(m, n, p), st, Returned("Object_ReadMember", TRUE, p, NULL, end), lo)
         /\ \/ AdoptLast(m, n, p).fault = m.fault
            \/ AdoptLast(m, n, p).fault = "assertion" /\ MallocMayFail
<1> DEFINE r == Returned("Object_ReadMember", TRUE, p, NULL, end)
           k == AdoptLast(m, n, p)
<1>1. Above(st) # NULL /\ p \in Node /\ p # NULL
  BY NullAssumption DEF Charge, Memory
<1>2. Consistent(r, st) /\ r.node = p /\ r.str = NULL
  BY <1>1 DEF Consistent, Returned, Results, Pointer
<1>3. Unattached(p, st) = {} /\ {NULL} \ {NULL} = {}
  BY <1>1 DEF Unattached
<1> HIDE DEF r
<1>4. CASE n = NULL
  <2>1. k = [m EXCEPT !.fault = "assertion"]
    BY <1>1, <1>4 DEF AdoptLast, AdoptAsserts
  <2>2. m \in Memory(Texts)
    BY DEF Charge
  <2>3. /\ k \in Memory(Texts) /\ k.heap = m.heap /\ k.payload = m.payload /\ k.live = m.live
        /\ k.strs = m.strs /\ k.fault = "assertion"
    BY <2>1, <2>2 DEF Memory
  <2>4. Charge(m, st, {}, {}, lo)
    <3>1. {n} \ {NULL} = {}
      BY <1>4
    <3>2. QED
      BY <3>1
  <2> HIDE DEF k
  <2>5. Charge(k, st, {}, {}, lo)
    BY <2>3, <2>4, ChargeSame
  <2>6. Good(k, st, r, lo)
    BY <1>2, <1>3, <2>3, <2>5 DEF Good, Owned
  <2>7. QED
    BY <1>4, <2>3, <2>6 DEF k, r
<1>5. CASE n # NULL
  <2>1. n \in {n} \ {NULL} /\ ({n} \ {NULL}) \ {n} = {}
    BY <1>5
  <2>2. Above(st) \in RootsOf(m) \ {n}
    BY <1>1, <2>1, ChargeAbove
  <2>3. m.heap[p].parent \in RootsOf(m) \ {n}
    BY <2>2
  <2>4. /\ Charge(k, st, ({n} \ {NULL}) \ {n}, {}, lo)
        /\ k.live = m.live /\ k.fault = m.fault
        /\ \A x \in m.live \ {n} : k.heap[x].parent = m.heap[x].parent
    BY <2>1, <2>3, ChargeAdopt
  <2> HIDE DEF k
  <2>5. Charge(k, st, {}, {}, lo) /\ k.heap[p].parent = Above(st)
    BY <2>1, <2>4
  <2>6. Good(k, st, r, lo)
    BY <1>1, <1>2, <1>3, <2>4, <2>5 DEF Good, Owned
  <2>7. QED
    BY <2>4, <2>6 DEF k, r
<1>6. QED
  BY <1>4, <1>5

\* The label node takes the label.
LEMMA LabelHung ==
  ASSUME NEW m, NEW st, StackOK(st), Above(st) \in Node, NEW N, NEW s, NEW lo,
         Charge(m, st, N, {s} \ {NULL}, lo), NodeLeft(m),
         NEW p \in m.live, m.heap[p].parent = Above(st), p # Above(st)
  PROVE  LET l == FreeNode(m)
             k == SetValue(AdoptLast(NewNode(m, l), l, p), l, "string", s)
         IN /\ Charge(k, st, N, {}, lo) /\ k.live = m.live \cup {l}
            /\ k.heap[p].parent = Above(st) /\ k.fault = m.fault
<1> DEFINE l == FreeNode(m)
           a == NewNode(m, l)
           b == AdoptLast(a, l, p)
           k == SetValue(b, l, "string", s)
           q == Above(st)
           S == {s} \ {NULL}
           P == N \cup {l}
<1>1. q # NULL
  BY NullAssumption
<1>2. q \in m.live
  BY <1>1, ChargeAbove
<1>3. /\ l \in Node /\ l \notin m.live /\ l \notin N
      /\ Charge(a, st, P, S, lo)
      /\ a.live = m.live \cup {l} /\ a.payload[l] = NULL
      /\ \A x \in m.live : a.heap[x] = m.heap[x]
      /\ a.fault = m.fault
  BY ChargeNew
<1>4. P \ {l} = N /\ l \in P
  BY <1>3
<1>5. s \in S \cup {NULL} /\ S \ {s} = {}
  OBVIOUS
<1> HIDE DEF a, l, P, S, q
<1>6. q \in RootsOf(a)
  BY <1>1, <1>3, ChargeAbove DEF q
<1>7. p \in a.live /\ p # l /\ q # l /\ a.heap[p].parent = q
  BY <1>2, <1>3 DEF q
<1>8. a.heap[p].parent \in RootsOf(a) \ {l}
  BY <1>6, <1>7
<1>9. /\ Charge(b, st, P \ {l}, S, lo)
      /\ b.live = a.live /\ b.payload = a.payload /\ b.fault = a.fault
      /\ \A x \in a.live \ {l} : b.heap[x].parent = a.heap[x].parent
  BY <1>3, <1>4, <1>7, <1>8, ChargeAdopt
<1> HIDE DEF b
<1>10. /\ l \in b.live /\ b.payload[l] = NULL /\ "string" \in Types
       /\ Charge(b, st, N, S, lo)
  BY <1>3, <1>4, <1>9 DEF Types
<1>11. /\ Charge(k, st, N, S \ {s}, lo)
       /\ k.live = b.live /\ k.heap = b.heap /\ k.fault = b.fault
  BY <1>5, <1>10, ChargeSet
<1> HIDE DEF k
<1>12. k.heap[p].parent = q
  BY <1>7, <1>9, <1>11
<1>13. QED
  BY <1>3, <1>5, <1>9, <1>11, <1>12 DEF k, b, a, l, q

LEMMA PropertyFine ==
  ASSUME Calm, Resuming("Object_ReadMember", "JParser"), OM_Property
  PROVE  Fine /\ torn' = torn
<1> DEFINE st == Front(stack)
           p == FreeNode(mem)
           V == {ret.node} \ {NULL}
           S == {Top.label} \ {NULL}
           m1 == Hung(mem, p, Above(st))
           m2 == [m1 EXCEPT !.type[p] = "property"]
           l == FreeNode(m2)
           m4 == SetValue(AdoptLast(NewNode(m2, l), l, p), l, "string", Top.label)
           k == AdoptLast(m4, ret.node, p)
           r == Returned("Object_ReadMember", TRUE, p, NULL, ret.end)
<1>1. /\ StackOK(st) /\ Top.parent = Above(st) /\ Above(st) \in Node
      /\ Consistent(ret, stack) /\ ret.end \in Symbol
      /\ Charge(mem, st, V, S, lost)
  BY ValueCharge
<1>2. /\ ret.ok /\ NodeLeft(mem) /\ NodeLeft(m2)
      /\ mem' = k /\ stack' = st /\ ret' = r /\ lost' = lost /\ torn' = torn
  BY <1>1 DEF OM_Property, Return, NothingLost, Hung
<1>3. ret.node \in Pointer /\ (ret.node = NULL => MallocMayFail)
  BY <1>1, <1>2 DEF Consistent, Results, Resuming
<1>4. V \subseteq {ret.node} /\ (ret.node # NULL => ret.node \in V)
  OBVIOUS
<1> HIDE DEF V, S, st
<1>5. /\ p \in Node /\ p \notin V /\ p # Above(st)
      /\ Charge(m1, st, V, S, lost) /\ p \in m1.live
      /\ m1.heap[p].parent = Above(st) /\ m1.fault = mem.fault
  BY <1>1, <1>2, HangProperty
<1>6. p # ret.node
  BY <1>4, <1>5, NullAssumption
<1> HIDE DEF m1
<1>7. /\ Charge(m2, st, V, S, lost) /\ m2.live = m1.live /\ m2.heap = m1.heap
      /\ m2.fault = m1.fault
  <2>1. "property" \in Types
    BY DEF Types
  <2> HIDE DEF p
  <2>2. QED
    BY <1>5, <2>1, ChargeRetype
<1> HIDE DEF m2, p
<1>8. /\ Charge(m4, st, V, {}, lost) /\ m4.live = m2.live \cup {l}
      /\ m4.heap[p].parent = Above(st) /\ m4.fault = m2.fault
  <2>1. p \in m2.live /\ m2.heap[p].parent = Above(st)
    BY <1>5, <1>7
  <2>2. Charge(m2, st, V, {Top.label} \ {NULL}, lost)
    BY <1>7 DEF S
  <2>3. QED
    BY <1>1, <1>2, <1>5, <2>1, <2>2, LabelHung
<1>9. p \in m4.live
  BY <1>5, <1>7, <1>8
<1> HIDE DEF m4
<1>10. /\ Good(k, st, r, lost)
       /\ k.fault = m4.fault \/ (k.fault = "assertion" /\ MallocMayFail)
  <2>1. Charge(m4, st, {ret.node} \ {NULL}, {}, lost)
    BY <1>8 DEF V
  <2>2. QED
    BY <1>1, <1>3, <1>5, <1>6, <1>8, <1>9, <2>1, ValueAdopted
<1> HIDE DEF k, r
<1>11. QED
  BY <1>2, <1>5, <1>7, <1>8, <1>10 DEF Fine

\* jd_Node_destroy of the property where it hangs: it has neither children nor
\* siblings behind it, and no payload, so nothing else is freed.
LEMMA FreeProperty ==
  ASSUME NEW m \in Memory(Texts), NEW p \in m.live, m.heap[p].first = NULL,
         m.heap[p].next = NULL, m.payload[p] = NULL
  PROVE  /\ FreeTree(m, p) \in Memory(Texts)
         /\ FreeTree(m, p).live = m.live \ {p}
         /\ FreeTree(m, p).heap = FreeNodes(m.heap, {p})
         /\ FreeTree(m, p).payload = m.payload
         /\ FreeTree(m, p).strs = m.strs /\ FreeTree(m, p).fault = m.fault
<1> DEFINE D == Span(m.heap, p)
           k == FreeTree(m, p)
<1>1. p \in Node /\ p # NULL /\ m.heap \in [Node -> Cell]
  BY NullAssumption DEF Memory
<1>2. D = {p}
  BY <1>1, SpanAlone, SpanClosed
<1>3. k \in Memory(Texts) /\ Without(m, D, k)
  BY <1>1, EmptyText, FreeTreeFields
<1>4. /\ k.live = m.live \ {p} /\ k.heap = FreeNodes(m.heap, {p})
      /\ k.payload = [d \in Node |-> IF d \in {p} THEN NULL ELSE m.payload[d]]
      /\ k.strs = m.strs \ {m.payload[d] : d \in {p}}
  BY <1>2, <1>3 DEF Without
<1>5. m.payload \in [Node -> Str \cup {NULL}] /\ NULL \notin m.strs
  BY NullAssumption DEF Memory
<1>6. k.payload = m.payload /\ k.strs = m.strs
  BY <1>4, <1>5
<1>7. k.fault = m.fault
  <2>1. /\ D \subseteq m.live /\ {m.payload[d] : d \in D} \ {NULL} \subseteq m.strs
        /\ \A x, y \in D : m.payload[x] = m.payload[y] => x = y \/ m.payload[x] = NULL
    BY <1>2
  <2>2. VisitsOnce(m.heap, p)
    BY <1>1, <1>2 DEF VisitsOnce
  <2>3. k = [m EXCEPT
                !.live = @ \ D, !.heap = FreeNodes(@, D),
                !.type = [d \in Node |-> IF d \in D THEN "null" ELSE @[d]],
                !.payload = [d \in Node |-> IF d \in D THEN NULL ELSE @[d]],
                !.strs = @ \ ({m.payload[d] : d \in D} \ {NULL}),
                !.text = [s \in Str |-> IF s \in {m.payload[d] : d \in D} \ {NULL}
                                        THEN <<>> ELSE @[s]]]
    BY <1>1, <2>1, <2>2 DEF FreeTree, Checked
  <2>4. QED
    BY <2>3 DEF Memory
<1>8. QED
  BY <1>3, <1>4, <1>6, <1>7

\* Without a label node the property is freed but stays among the members.
LEMMA NoLabelNodeTorn ==
  ASSUME Calm, mem.fault = "none", Resuming("Object_ReadMember", "JParser"), OM_NoLabelNode
  PROVE  /\ Torn(mem', stack', ret', lost') /\ mem'.fault = "none"
         /\ torn' # {} /\ MallocMayFail
<1> DEFINE st == Front(stack)
           p == FreeNode(mem)
           V == {ret.node} \ {NULL}
           S == {Top.label} \ {NULL}
           m1 == Hung(mem, p, Above(st))
           f1 == FreeTree(m1, p)
           m2 == FreeText(f1, Top.label)
           k == FreeText(m1, Top.label)
<1>1. /\ StackOK(st) /\ Top.parent = Above(st) /\ Above(st) \in Node
      /\ Charge(mem, st, V, S, lost)
  BY ValueCharge
<1>2. /\ ret.ok /\ NodeLeft(mem) /\ MallocMayFail
      /\ mem' = m2 /\ stack' = st /\ ret' = Failed("Object_ReadMember")
      /\ lost' = lost \cup V /\ torn' # {}
  BY <1>1 DEF OM_NoLabelNode, Fail, Return, Hung
<1>3. /\ Top.label \in S \cup {NULL} /\ S \ {Top.label} = {}
      /\ Top.label # NULL => Top.label \in S
  OBVIOUS
<1> HIDE DEF V, S
<1>4. /\ p \in Node /\ p # Above(st)
      /\ Charge(m1, st, V, S, lost) /\ p \in m1.live
      /\ m1.heap[p].parent = Above(st) /\ m1.heap[p].first = NULL /\ m1.heap[p].next = NULL
      /\ m1.payload[p] = NULL /\ m1.fault = mem.fault
  BY <1>1, <1>2, HangProperty
<1> HIDE DEF p, m1
<1>5. Charge(m1, st, {}, S, lost \cup V)
  BY <1>4, ValueLost
<1>6. /\ Charge(k, st, {}, S \ {Top.label}, lost \cup V)
      /\ k.live = m1.live /\ k.heap = m1.heap /\ k.payload = m1.payload /\ k.fault = m1.fault
  BY <1>3, <1>5, ChargeFreeText
<1>7. m1 \in Memory(Texts) /\ (Top.label # NULL => Top.label \in m1.strs) /\ k \in Memory(Texts)
  BY <1>3, <1>5, <1>6 DEF Charge, LooseOf
<1>8. /\ f1 \in Memory(Texts) /\ f1.live = m1.live \ {p} /\ f1.heap = FreeNodes(m1.heap, {p})
      /\ f1.payload = m1.payload /\ f1.strs = m1.strs /\ f1.fault = m1.fault
  BY <1>4, <1>7, FreeProperty
<1> HIDE DEF f1
<1>9. /\ m2 \in Memory(Texts) /\ m2.live = f1.live /\ m2.heap = f1.heap
      /\ m2.payload = f1.payload /\ m2.fault = f1.fault /\ m2.strs = k.strs
  <2>1. CASE Top.label = NULL
    BY <1>7, <1>8, <2>1 DEF FreeText
  <2>2. CASE Top.label # NULL
    <3>1. [f1.text EXCEPT ![Top.label] = <<>>] \in [Str -> Texts]
      BY <1>8, EmptyText DEF Memory
    <3>2. /\ m2 = [f1 EXCEPT !.strs = @ \ {Top.label}, !.text[Top.label] = <<>>]
          /\ k = [m1 EXCEPT !.strs = @ \ {Top.label}, !.text[Top.label] = <<>>]
      BY <1>7, <1>8, <2>2 DEF FreeText, Checked
    <3> HIDE DEF m2, k
    <3>3. f1.strs \ {Top.label} \in SUBSET Str
      BY <1>8 DEF Memory
    <3>4. QED
      BY <1>7, <1>8, <3>1, <3>2, <3>3 DEF Memory
  <2>3. QED
    BY <2>1, <2>2
<1> HIDE DEF m2, k, st
<1>10. TornOff(m2, k, p, st)
  BY <1>4, <1>6, <1>8, <1>9 DEF TornOff
<1>11. Charge(k, st, {}, {}, lost \cup V)
  BY <1>3, <1>6
<1>12. QED
  BY <1>1, <1>2, <1>4, <1>6, <1>7, <1>8, <1>9, <1>10, <1>11 DEF Torn

-----------------------------------------------------------------------------
\* An object that is not told of its property's end is destroyed next, and the
\* property, which is no longer allocated, with it.
LEMMA SameSpan ==
  ASSUME NEW h, NEW k, NEW n,
         \A x \in Node : h[x].first = k[x].first /\ h[x].next = k[x].next
  PROVE  Span(h, n) = Span(k, n)
<1>1. \A S \in SUBSET Node : Closed(h, S) <=> Closed(k, S)
  BY DEF Closed
<1>2. QED
  BY <1>1 DEF Span

LEMMA TornStep ==
  ASSUME Torn(mem, stack, ret, lost), phase = "parse", Step
  PROVE  /\ PC_AfterMember /\ Abandon /\ lost' = lost /\ torn' = torn /\ phase' = phase
         /\ Above(stack) = Top.node /\ Top.node \in Node
         /\ StackOK(stack) /\ Top \in Frames /\ NodeAt(Top) = Top.node /\ LabelAt(Top) = NULL
<1>1. /\ ret.fn = "Object_ReadMember" /\ ~ret.ok /\ ret # Running
      /\ StackOK(stack) /\ stack # <<>>
  BY NullAssumption DEF Torn, Failed, Returned, Running, Above
<1>2. PC_AfterMember
  <2>1. \A fn : ~Executing(fn)
    BY <1>1 DEF Executing
  <2>2. \A c \in Input : ~ReadString(c) /\ ~JP_Skip(c) /\ ~CollectionRead(c) /\ ~OM_Read(c)
    BY <2>1 DEF ReadString, RS_Escaped, RS_Escape, RS_End, RS_Char, RS_NoMore, JP_Skip,
                CollectionRead, OM_Read
  <2>3. \A c \in Input : ~PF_Confirm(c)
    BY DEF PF_Confirm
  <2>4. ~JP_Switch /\ ~JP_AfterCollection /\ ~JP_AfterString
    BY <1>1, <2>1 DEF JP_Switch, JP_AfterCollection, JP_AfterString, JP_NoString, JP_NoNode,
                      JP_Quoted, JP_Unquoted, Resuming
  <2>5. ~OM_AfterLabel /\ ~OM_AfterValue
    BY <1>1 DEF OM_AfterLabel, OM_AfterValue, Resuming
  <2>6. ~PF_AfterJParser /\ ~CallerDestroys
    BY <1>1 DEF PF_AfterJParser, CallerDestroys
  <2>7. QED
    BY <2>2, <2>3, <2>4, <2>5, <2>6 DEF Step
<1>3. /\ In("parse_collection") /\ Abandon /\ lost' = lost /\ torn' = torn /\ phase' = phase
  BY <1>1, <1>2 DEF PC_AfterMember, NothingLost, Frame
<1>4. Top.fn = "parse_collection" /\ Top = Last(stack) /\ Top \in Frames
  BY <1>1, <1>3, PopStack DEF In, Top
<1>5. /\ Above(stack) = Top.node /\ Top.node \in Node /\ NodeAt(Top) = Top.node
      /\ LabelAt(Top) = NULL
  BY <1>1, <1>4, CollectionFrameKept DEF Above
<1>6. QED
  BY <1>1, <1>2, <1>3, <1>4, <1>5

LEMMA TornMisuse ==
  ASSUME Torn(mem, stack, ret, lost), phase = "parse", Step
  PROVE  Good(mem', stack', ret', lost') /\ mem'.fault = "misuse"
<1> DEFINE q == Top.node
           D == Span(mem.heap, q)
           r == Failed("parse_collection")
<1>1. /\ Abandon /\ lost' = lost /\ Above(stack) = q /\ q \in Node
      /\ StackOK(stack) /\ Top \in Frames /\ NodeAt(Top) = q /\ LabelAt(Top) = NULL
  BY TornStep
<1>2. /\ mem' = FreeTree(mem, q) /\ stack' = Front(stack) /\ ret' = r
  BY <1>1 DEF Abandon, Fail, Return
<1>3. PICK k \in Memory(Texts), p \in Node :
        TornOff(mem, k, p, stack) /\ Charge(k, stack, {}, {}, lost)
  BY DEF Torn
<1>4. mem \in Memory(Texts) /\ stack # <<>> /\ Top = Last(stack)
  BY <1>1, NullAssumption DEF Torn, Above, Top
<1> DEFINE K == FreeTree(k, q)
<1>5. /\ Charge(k, Front(stack), {q}, {}, lost) /\ StackOK(Front(stack))
      /\ k.heap \in [Node -> Cell] /\ k.live \in SUBSET Node /\ Linked(k.heap, k.live, {})
      /\ q \in k.live
  <2>1. Charge(k, Front(stack), {} \cup ({NodeAt(Top)} \ {NULL}),
               {} \cup ({LabelAt(Top)} \ {NULL}), lost)
    BY <1>1, <1>3, <1>4, ChargePop
  <2>2. {} \cup ({NodeAt(Top)} \ {NULL}) = {q} /\ {} \cup ({LabelAt(Top)} \ {NULL}) = {}
    BY <1>1, NullAssumption
  <2>3. q # NULL
    BY <1>1, NullAssumption
  <2>4. q \in k.live
    BY <1>1, <1>3, <2>3, ChargeAbove
  <2>5. k.heap \in [Node -> Cell] /\ k.live \in SUBSET Node /\ Linked(k.heap, k.live, {})
    BY <1>3 DEF Memory, Charge, Sound
  <2>6. QED
    BY <1>1, <1>4, <2>1, <2>2, <2>4, <2>5, PopStack
<1> HIDE DEF q
<1>6. Span(k.heap, q) = D
  <2>1. ZeroCell.first = NULL /\ ZeroCell.next = NULL
    BY DEF ZeroCell
  <2>2. \A x \in Node : mem.heap[x] = IF x = p THEN ZeroCell ELSE k.heap[x]
    BY <1>3 DEF TornOff, FreeNodes
  <2>3. k.heap[p].first = NULL /\ k.heap[p].next = NULL
    BY <1>3 DEF TornOff
  <2>4. QED
    BY <2>1, <2>2, <2>3, SameSpan
<1>7. p \in D /\ p \notin mem.live
  <2>1. p \in k.live /\ k.heap[p].parent = q
    BY <1>1, <1>3 DEF TornOff
  <2>2. q \in Span(k.heap, q)
    BY <1>1, <1>5, SpanClosed
  <2>3. p \in Span(k.heap, q)
    BY <1>5, <2>1, <2>2, SpanChildren
  <2>4. QED
    BY <1>3, <1>6, <2>3 DEF TornOff
<1>8. Charge(K, Front(stack), {}, {}, lost)
  <2>1. Charge(K, Front(stack), {q} \ {q}, {}, lost)
    <3>1. q \in {q} \cup {NULL}
      OBVIOUS
    <3>2. QED
      BY <1>5, <3>1, ChargeFreeTree
  <2>2. {q} \ {q} = {}
    OBVIOUS
  <2> HIDE DEF K
  <2>3. QED
    BY <2>1, <2>2
<1>9. mem' \in Memory(Texts) /\ Without(mem, D, mem') /\ Without(k, D, K)
  BY <1>1, <1>2, <1>4, <1>6, EmptyText, FreeTreeFields
<1> HIDE DEF K, D
<1>10. /\ mem'.live = K.live /\ mem'.heap = K.heap /\ mem'.payload = K.payload
       /\ mem'.strs = K.strs /\ mem'.fault = "misuse"
  <2>1. /\ mem.live = k.live \ {p} /\ mem.heap = FreeNodes(k.heap, {p})
        /\ mem.payload = k.payload /\ mem.strs = k.strs
    BY <1>3 DEF TornOff
  <2>2. FreeNodes(FreeNodes(k.heap, {p}), D) = FreeNodes(k.heap, D)
    BY <1>7 DEF FreeNodes
  <2>3. (k.live \ {p}) \ D = k.live \ D
    BY <1>7
  <2>4. QED
    BY <1>7, <1>9, <2>1, <2>2, <2>3 DEF Without
<1>11. Charge(mem', Front(stack), {}, {}, lost)
  BY <1>8, <1>9, <1>10, ChargeSame
<1>12. Good(mem', Front(stack), r, lost)
  BY <1>5, <1>11, FailGood
<1>13. QED
  BY <1>1, <1>2, <1>10, <1>12

-----------------------------------------------------------------------------
(***************************************************************************)
(* The whole: every step keeps ParserInv.                                  *)
(***************************************************************************)
LEMMA AfterValueStep ==
  ASSUME Calm, mem.fault = "none", OM_AfterValue
  PROVE  \/ Fine /\ torn' = torn
         \/ /\ Torn(mem', stack', ret', lost') /\ mem'.fault = "none"
            /\ torn' # {} /\ MallocMayFail
<1>1. Resuming("Object_ReadMember", "JParser")
  BY DEF OM_AfterValue
<1>2. CASE OM_NoValue
  BY <1>1, <1>2, NoValueFine
<1>3. CASE OM_Property
  BY <1>1, <1>3, PropertyFine
<1>4. CASE OM_NoProperty
  BY <1>1, <1>4, NoPropertyFine
<1>5. CASE OM_NoLabelNode
  BY <1>1, <1>5, NoLabelNodeTorn
<1>6. QED
  BY <1>2, <1>3, <1>4, <1>5 DEF OM_AfterValue

LEMMA CalmStep ==
  ASSUME Calm, mem.fault = "none", Step
  PROVE  \/ PF_AfterJParser
         \/ Fine /\ torn' = torn /\ phase' = "parse" /\ tree' = tree
         \/ /\ Torn(mem', stack', ret', lost') /\ mem'.fault = "none"
            /\ torn' # {} /\ MallocMayFail /\ phase' = "parse" /\ tree' = tree
<1>1. phase = "parse"
  BY DEF Calm
<1>2. ASSUME NEW c \in Input, ReadString(c) \/ JP_Skip(c) \/ CollectionRead(c) \/ OM_Read(c)
      PROVE  Fine /\ torn' = torn /\ phase' = "parse" /\ tree' = tree
  <2>1. Fine /\ torn' = torn
    BY <1>2, ReadStringFine, SkipFine, CollectionReadFine, MemberReadFine
  <2>2. Frame
    BY <1>2 DEF ReadString, JP_Skip, CollectionRead, OM_Read
  <2>3. QED
    BY <1>1, <2>1, <2>2 DEF Frame
<1>3. CASE JP_Switch \/ JP_AfterCollection \/ JP_AfterString \/ PC_AfterMember \/ OM_AfterLabel
  <2>1. Fine /\ torn' = torn
    BY <1>3, SwitchFine, AfterCollectionFine, AfterStringFine, AfterMemberFine, AfterLabelFine
  <2>2. Frame
    BY <1>3 DEF JP_Switch, JP_AfterCollection, JP_AfterString, PC_AfterMember, OM_AfterLabel
  <2>3. QED
    BY <1>1, <2>1, <2>2 DEF Frame
<1>4. CASE OM_AfterValue
  <2>1. Frame
    BY <1>4 DEF OM_AfterValue
  <2>2. QED
    BY <1>1, <1>4, <2>1, AfterValueStep DEF Frame
<1>5. ~CallerDestroys /\ \A c \in Input : ~PF_Confirm(c)
  BY <1>1 DEF CallerDestroys, PF_Confirm
<1>6. QED
  BY <1>2, <1>3, <1>4, <1>5 DEF Step

\* What a read adds to the document.
LEMMA ReadMore ==
  ASSUME Shape, (\E c \in Input : Read(c)) \/ NoRead
  PROVE  /\ doc' \in Seq(Alphabet) /\ Bounded(doc') /\ io' \in {"open", "end", "error"}
         /\ Len(doc) \in Nat /\ Len(doc') \in Nat /\ Len(doc) <= Len(doc')
<1>1. doc \in Seq(Alphabet) /\ Len(doc) \in Nat /\ Bounded(doc) /\ io \in {"open", "end", "error"}
  BY DEF Shape
<1>2. CASE doc' = doc
  <2>1. io' \in {"open", "end", "error"}
    BY <1>1 DEF Read, NoRead
  <2>2. Bounded(doc')
    BY <1>1, <1>2
  <2>3. QED
    BY <1>1, <1>2, <2>1, <2>2
<1>3. ASSUME NEW c \in Alphabet, doc' = Append(doc, c), Bounded(Append(doc, c)), io' = io
      PROVE  /\ doc' \in Seq(Alphabet) /\ Bounded(doc') /\ io' \in {"open", "end", "error"}
             /\ Len(doc') \in Nat /\ Len(doc) <= Len(doc')
  <2>1. Append(doc, c) \in Seq(Alphabet) /\ Len(Append(doc, c)) = Len(doc) + 1
    BY <1>1
  <2>2. QED
    BY <1>1, <1>3, <2>1
<1>4. QED
  BY <1>2, <1>3 DEF Read, NoRead

\* Every step reads at most once, and reports behind what it has read.
Reported == pe' = pe \/ pe'.loc = Len(doc')

LEMMA ReportReported == (pe' = pe => Reported) /\ \A message : Report(message) => Reported
  BY DEF Report, Reported

LEMMA StepReads ==
  ASSUME Step
  PROVE  ((\E c \in Input : Read(c)) \/ NoRead) /\ Reported
<1>1. ASSUME NEW c \in Input, ReadString(c) PROVE Read(c) /\ Reported
  BY <1>1, ReportReported
     DEF ReadString, RS_Escaped, RS_Escape, RS_End, RS_Char, RS_NoMore, StringDone
<1>2. ASSUME NEW c \in Input, JP_Skip(c) PROVE Read(c) /\ Reported
  BY <1>2, ReportReported DEF JP_Skip
<1>3. ASSUME NEW c \in Input, CollectionRead(c) PROVE Read(c) /\ Reported
  BY <1>3, ReportReported
     DEF CollectionRead, PC_Space, PC_End, PC_Comma, PC_Reject, PC_Member, PC_NoMore, Complete
<1>4. ASSUME NEW c \in Input, OM_Read(c) PROVE Read(c) /\ Reported
  BY <1>4, ReportReported DEF OM_Read
<1>5. ASSUME NEW c \in Input, PF_Confirm(c) PROVE Read(c) /\ Reported
  BY <1>5, ReportReported DEF PF_Confirm
<1>6. JP_Switch => NoRead /\ Reported
  BY ReportReported DEF JP_Switch
<1>7. JP_AfterCollection => NoRead /\ Reported
  BY ReportReported DEF JP_AfterCollection
<1>8. JP_AfterString => NoRead /\ Reported
  BY ReportReported DEF JP_AfterString, JP_NoString, JP_NoNode, JP_Quoted, JP_Unquoted
<1>9. PC_AfterMember => NoRead /\ Reported
  BY ReportReported DEF PC_AfterMember, Complete
<1>10. OM_AfterLabel \/ OM_AfterValue => NoRead /\ Reported
  BY ReportReported DEF OM_AfterLabel, OM_AfterValue
<1>11. PF_AfterJParser \/ CallerDestroys => NoRead /\ Reported
  BY ReportReported DEF PF_AfterJParser, CallerDestroys
<1>12. QED
  BY <1>1, <1>2, <1>3, <1>4, <1>5, <1>6, <1>7, <1>8, <1>9, <1>10, <1>11 DEF Step

\* The part of Shape that every step keeps in the same way.
Read3 == /\ doc \in Seq(Alphabet) /\ Bounded(doc) /\ io \in {"open", "end", "error"}
         /\ pe.loc \in Nat /\ pe.loc <= Len(doc)

LEMMA StepKeepsReading == ASSUME Shape, Step PROVE Read3'
<1>1. pe.loc \in Nat /\ pe.loc <= Len(doc)
  BY DEF Shape
<1>2. /\ (\E c \in Input : Read(c)) \/ NoRead
      /\ pe' = pe \/ pe'.loc = Len(doc')
  BY StepReads DEF Reported
<1>3. /\ doc' \in Seq(Alphabet) /\ Bounded(doc') /\ io' \in {"open", "end", "error"}
      /\ Len(doc) \in Nat /\ Len(doc') \in Nat /\ Len(doc) <= Len(doc')
  BY <1>2, ReadMore
<1>4. pe'.loc \in Nat /\ pe'.loc <= Len(doc')
  BY <1>1, <1>2, <1>3
<1>5. Bounded(doc)'
  BY <1>3 DEF Bounded
<1>6. QED
  BY <1>3, <1>4, <1>5 DEF Read3

LEMMA ParserInvInit == Init => ParserInv
<1> SUFFICES ASSUME Init PROVE ParserInv
  OBVIOUS
<1> DEFINE f == JParserFrame("NUL", NULL)
<1>1. /\ f \in Frames /\ f.fn = "JParser" /\ NodeAt(f) = NULL /\ LabelAt(f) = NULL
      /\ ParentAt(f) = NULL
  BY FrameTypes DEF JParserFrame, NodeAt, LabelAt, ParentAt, Pointer, Symbol
<1>2. StackOK(<<>>) /\ Above(<<>>) = NULL /\ NodesOf(<<>>) = {} /\ LabelsOf(<<>>) = {}
  BY DEF StackOK, Nested, Held, Distinct, Above, NodesOf, LabelsOf
<1>3. /\ NoMemory \in Memory(Texts) /\ NoMemory.live = {} /\ NoMemory.strs = {}
      /\ NoMemory.fault = "none" /\ \A n \in Node : NoMemory.payload[n] = NULL
  BY ZeroCellType, EmptyText DEF NoMemory, Memory, Types
<1>4. Sound(NoMemory) /\ RootsOf(NoMemory) = {} /\ LooseOf(NoMemory) = {}
  BY <1>3 DEF Sound, RootsOf, LooseOf, Linked, NoDangling, SiblingsMirror, EndsOfFamily,
              RootsAlone, FirstAndLast, Acyclic
<1> HIDE DEF f
<1>5. Charge(NoMemory, <<>>, {NodeAt(f)} \ {NULL}, {LabelAt(f)} \ {NULL}, {})
  BY <1>1, <1>2, <1>3, <1>4 DEF Charge
<1>6. Good(NoMemory, Append(<<>>, f), Running, {})
  BY <1>1, <1>2, <1>5, PushGood
<1>7. Append(<<>>, f) = <<f>>
  OBVIOUS
<1>8. /\ mem = NoMemory /\ stack = <<f>> /\ ret = Running /\ lost = {} /\ torn = {}
      /\ phase = "parse" /\ tree = NULL
  BY DEF Init, f
<1>9. Good(mem, stack, ret, lost) /\ Handed = ret.node
  BY <1>6, <1>7, <1>8 DEF Handed
<1>10. Shape
  <2>1. doc = <<>> /\ pe.loc = 0 /\ io = "open"
    BY DEF Init
  <2>2. doc \in Seq(Alphabet) /\ Len(doc) = 0 /\ 0 <= MaxDoc
    BY <2>1, ParserAssumption
  <2>3. Bounded(doc)
    BY <2>2 DEF Bounded
  <2>4. QED
    BY <1>8, <2>1, <2>2, <2>3 DEF Shape
<1>11. Blame
  BY <1>3, <1>8 DEF Blame
<1>12. QED
  BY <1>8, <1>9, <1>10, <1>11 DEF ParserInv, Good

\* The parser's steps belong to the phase "parse".
LEMMA StepPhase ==
  ASSUME Step
  PROVE  phase = "parse" \/ (\E c \in Input : PF_Confirm(c)) \/ CallerDestroys
<1>1. (\E fn : In(fn)) => phase = "parse"
  BY DEF In
<1>2. ASSUME NEW c \in Input, ReadString(c) \/ JP_Skip(c) \/ CollectionRead(c) \/ OM_Read(c)
      PROVE  \E fn : In(fn)
  BY <1>2 DEF ReadString, RS_Escaped, RS_Escape, RS_End, RS_Char, RS_NoMore, JP_Skip,
              CollectionRead, OM_Read, Executing
<1>3. JP_Switch \/ JP_AfterCollection \/ JP_AfterString => \E fn : In(fn)
  BY DEF JP_Switch, JP_AfterCollection, JP_AfterString, JP_NoString, JP_NoNode, JP_Quoted,
         JP_Unquoted, Executing, Resuming
<1>4. PC_AfterMember \/ OM_AfterLabel \/ OM_AfterValue => \E fn : In(fn)
  BY DEF PC_AfterMember, OM_AfterLabel, OM_AfterValue, Resuming
<1>5. PF_AfterJParser => phase = "parse"
  BY DEF PF_AfterJParser
<1>6. QED
  BY <1>1, <1>2, <1>3, <1>4, <1>5 DEF Step

LEMMA ParserInvParse ==
  ASSUME ParserInv, mem.fault = "none", Step, phase = "parse"
  PROVE  ParserInv'
<1>1. Read3' /\ tree = NULL
  BY StepKeepsReading DEF ParserInv, Shape
<1>2. CASE Torn(mem, stack, ret, lost) /\ torn # {}
  <2>1. Good(mem', stack', ret', lost') /\ mem'.fault = "misuse"
    BY <1>2, TornMisuse
  <2>2. torn' = torn /\ phase' = "parse" /\ tree' = tree
    <3>1. PC_AfterMember /\ torn' = torn
      BY <1>2, TornStep
    <3>2. QED
      BY <3>1 DEF PC_AfterMember, Frame
  <2>3. MallocMayFail
    BY <1>2 DEF ParserInv, Blame
  <2>4. Handed' = ret'.node
    BY <2>2 DEF Handed
  <2>5. QED
    BY <1>1, <1>2, <2>1, <2>2, <2>3, <2>4 DEF ParserInv, Shape, Read3, Blame, Good
<1>3. CASE ~(Torn(mem, stack, ret, lost) /\ torn # {})
  <2>1. Calm /\ torn = {}
    BY <1>3 DEF ParserInv, Calm, Good, Handed
  <2>2. CASE PF_AfterJParser
    <3>1. /\ mem' = mem /\ stack' = stack /\ ret' = ret /\ lost' = lost /\ torn' = torn
          /\ tree' = tree /\ stack = <<>>
          /\ phase' = IF ret.ok THEN "confirm" ELSE "rejected"
      BY <2>2 DEF PF_AfterJParser, NothingLost
    <3>2. Good(mem, stack, ret, lost)
      BY <2>1 DEF Calm
    <3>3. Handed' = ret.node
      BY <1>1, <3>1, <3>2 DEF Handed, Good, Consistent
    <3>4. QED
      BY <1>1, <2>1, <3>1, <3>2, <3>3 DEF ParserInv, Shape, Read3, Blame, Good
  <2>3. CASE Fine /\ torn' = torn /\ phase' = "parse" /\ tree' = tree
    <3>1. Handed' = ret'.node
      BY <2>3 DEF Handed
    <3>2. QED
      BY <1>1, <2>1, <2>3, <3>1 DEF ParserInv, Shape, Read3, Blame, Good, Fine
  <2>4. CASE /\ Torn(mem', stack', ret', lost') /\ mem'.fault = "none"
             /\ torn' # {} /\ MallocMayFail /\ phase' = "parse" /\ tree' = tree
    BY <1>1, <2>4 DEF ParserInv, Shape, Read3, Blame
  <2>5. QED
    BY <2>1, <2>2, <2>3, <2>4, CalmStep
<1>4. QED
  BY <1>2, <1>3

LEMMA ParserInvEnd ==
  ASSUME ParserInv, mem.fault = "none", Step, phase # "parse"
  PROVE  ParserInv'
<1>1. Read3' /\ stack = <<>>
  BY StepKeepsReading DEF ParserInv, Shape
<1>2. /\ StackOK(stack) /\ Consistent(ret, stack) /\ Owned(mem, stack, Handed, ret.str, lost)
      /\ torn = {}
  BY DEF ParserInv
<1> DEFINE S == {ret.str} \ {NULL}
<1>3. /\ Charge(mem, stack, {Handed} \ {NULL}, S, lost)
      /\ Unattached(NULL, stack) = {}
  BY <1>1, <1>2 DEF Owned, Unattached, Above
<1>4. ASSUME mem' = FreeTree(mem, Handed), Handed' = NULL,
             UNCHANGED <<stack, ret, lost, torn>>, tree' = NULL,
             phase' \in {"rejected", "released"}
      PROVE  ParserInv'
  <2> DEFINE k == FreeTree(mem, Handed)
             N == {Handed} \ {NULL}
  <2>1. Handed \in N \cup {NULL} /\ N \ {Handed} = {}
    OBVIOUS
  <2> HIDE DEF N, S
  <2>2. Charge(k, stack, N \ {Handed}, S, lost) /\ k.fault = mem.fault
    BY <1>3, <2>1, ChargeFreeTree DEF N
  <2>3. Owned(k, stack, NULL, ret.str, lost)
    BY <1>3, <2>1, <2>2 DEF Owned, S
  <2> HIDE DEF k
  <2>4. QED
    BY <1>1, <1>2, <1>4, <2>2, <2>3 DEF ParserInv, Shape, Read3, Blame, k
<1>5. ASSUME NEW c \in Input, PF_Confirm(c)
      PROVE  ParserInv'
  <2>1. /\ UNCHANGED <<stack, ret, lost, torn>> /\ Handed = ret.node /\ tree = NULL /\ ret.ok
        /\ phase = "confirm"
    BY <1>5 DEF PF_Confirm, NothingLost, Handed, ParserInv, Shape
  <2>2. CASE UNCHANGED <<phase, mem, pe, tree>>
    <3>1. Handed' = Handed
      BY <2>1, <2>2 DEF Handed
    <3>2. QED
      BY <1>1, <1>2, <2>1, <2>2, <3>1 DEF ParserInv, Shape, Read3, Blame
  <2>3. CASE mem' = FreeTree(mem, ret.node) /\ phase' = "rejected" /\ UNCHANGED tree
    BY <1>4, <2>1, <2>3 DEF Handed
  <2>4. CASE tree' = ret.node /\ phase' = "accepted" /\ UNCHANGED <<mem, pe>>
    <3>1. Handed' = Handed
      BY <2>1, <2>4 DEF Handed
    <3>2. QED
      BY <1>1, <1>2, <2>1, <2>4, <3>1 DEF ParserInv, Shape, Read3, Blame
  <2>5. QED
    BY <1>5, <2>2, <2>3, <2>4 DEF PF_Confirm
<1>6. CASE CallerDestroys
  <2>1. /\ UNCHANGED <<stack, ret, lost, torn>> /\ Handed = tree /\ tree' = NULL
        /\ phase' = "released" /\ mem' = FreeTree(mem, tree)
    BY <1>6 DEF CallerDestroys, NothingLost, Handed
  <2>2. QED
    BY <1>4, <2>1 DEF Handed
<1>7. QED
  BY <1>5, <1>6, StepPhase

\* The parser's inductive invariant holds at every step.
THEOREM ParserInvHolds == Spec => []ParserInv
<1>1. ParserInv /\ [Next]_vars => ParserInv'
  <2>1. ASSUME ParserInv, mem.fault = "none", Step PROVE ParserInv'
    BY <2>1, ParserInvParse, ParserInvEnd
  <2>2. ASSUME ParserInv, UNCHANGED vars PROVE ParserInv'
    BY <2>2 DEF vars, ParserInv, Shape, Blame, Handed, Bounded
  <2>3. QED
    BY <2>1, <2>2 DEF Next, Rest
<1>2. QED
  BY <1>1, ParserInvInit, PTL DEF Spec

-----------------------------------------------------------------------------
(***************************************************************************)
(* What it says of the runs' properties.                                   *)
(***************************************************************************)
\* Freeing the property in place leaves the rest as it was.
Kept(m, st, n, s, lo) ==
  /\ m \in Memory(Texts) /\ lo \subseteq Node \cup Str
  /\ n \in m.live \cup {NULL} /\ (n # NULL => m.heap[n].parent = Above(st))
  /\ RootsOf(m) = NodesOf(st) \cup Unattached(n, st) \cup (lo \cap Node)
  /\ LooseOf(m) = LabelsOf(st) \cup ({s} \ {NULL}) \cup (lo \cap Str)
  /\ LabelsOf(st) \cap ({s} \ {NULL}) = {} /\ LabelsOf(st) \cap lo = {}
  /\ ({s} \ {NULL}) \cap lo = {}
  /\ \A x \in m.live : m.payload[x] \in m.strs \cup {NULL}
  /\ \A x \in Node \ m.live : m.payload[x] = NULL
  /\ \A x, y \in m.live : m.payload[x] = m.payload[y] => x = y \/ m.payload[x] = NULL

LEMMA ParserInvKept == ASSUME ParserInv PROVE Kept(mem, stack, Handed, ret.str, lost)
<1>1. CASE Owned(mem, stack, Handed, ret.str, lost)
  BY <1>1 DEF Owned, Charge, Kept, Sound
<1>2. CASE phase = "parse" /\ Torn(mem, stack, ret, lost)
  <2>1. PICK k \in Memory(Texts), p \in Node :
          TornOff(mem, k, p, stack) /\ Charge(k, stack, {}, {}, lost)
    BY <1>2 DEF Torn
  <2>2. /\ mem \in Memory(Texts) /\ Handed = NULL /\ ret.str = NULL
        /\ Above(stack) # NULL
    BY <1>2, NullAssumption DEF Torn, Handed, Failed, Returned
  <2>3. Unattached(NULL, stack) = {} /\ {NULL} \ {NULL} = {}
    BY DEF Unattached
  <2>4. RootsOf(mem) = RootsOf(k) /\ LooseOf(mem) = LooseOf(k)
    <3>1. NULL \notin mem.strs
      BY <2>2, NullAssumption DEF Memory
    <3>2. \A x \in Node : mem.heap[x] = IF x = p THEN ZeroCell ELSE k.heap[x]
      BY <2>1 DEF TornOff, FreeNodes
    <3>3. k.live \in SUBSET Node
      BY <2>1 DEF Memory
    <3>4. RootsOf(mem) = RootsOf(k)
      BY <2>1, <2>2, <3>2, <3>3 DEF RootsOf, TornOff
    <3>5. LooseOf(mem) = LooseOf(k)
      BY <2>1, <3>1 DEF LooseOf, TornOff
    <3>6. QED
      BY <3>4, <3>5
  <2>5. /\ \A x \in mem.live : mem.payload[x] \in mem.strs \cup {NULL}
        /\ \A x \in Node \ mem.live : mem.payload[x] = NULL
        /\ \A x, y \in mem.live :
             mem.payload[x] = mem.payload[y] => x = y \/ mem.payload[x] = NULL
    BY <2>1 DEF TornOff, Charge, Sound
  <2>6. QED
    BY <2>1, <2>2, <2>3, <2>4, <2>5 DEF Kept, Charge
<1>3. QED
  BY <1>1, <1>2 DEF ParserInv

LEMMA InvTypeOK == ParserInv => TypeOK
<1> SUFFICES ASSUME ParserInv PROVE TypeOK
  OBVIOUS
<1>1. Kept(mem, stack, Handed, ret.str, lost)
  BY ParserInvKept
<1>2. /\ mem.heap \in [Node -> Cell] /\ mem.type \in [Node -> Types]
      /\ mem.payload \in [Node -> mem.strs \cup {NULL}]
      /\ mem.live \subseteq Node /\ mem.strs \subseteq Str
  BY <1>1 DEF Kept, Memory
<1>3. Roots \subseteq mem.live /\ Labels \subseteq mem.strs
  BY <1>1 DEF Kept, Roots, Labels, RootsOf, LooseOf
<1>4. tree \in mem.live \cup {NULL}
  BY <1>1 DEF Kept, Handed, ParserInv, Shape
<1>5. QED
  BY <1>2, <1>3, <1>4 DEF TypeOK, ParserInv, Shape

LEMMA InvNoNodeLost == ParserInv => NoNodeLost
<1> SUFFICES ASSUME ParserInv PROVE NoNodeLost
  OBVIOUS
<1>1. Kept(mem, stack, Handed, ret.str, lost)
  BY ParserInvKept
<1>2. Roots = NodesOf(stack) \cup Unattached(Handed, stack)
  <2>1. \A n \in NodesOf(stack) : n # NULL /\ mem.heap[n].parent = NULL
    BY <1>1 DEF Kept, NodesOf, RootsOf
  <2>2. \A n \in Unattached(Handed, stack) :
          n # NULL /\ n = Handed /\ mem.heap[n].parent = NULL
    BY <1>1 DEF Kept, Unattached, RootsOf
  <2>3. Handed # NULL /\ mem.heap[Handed].parent = NULL => Handed \in Unattached(Handed, stack)
    BY <1>1 DEF Kept, Unattached
  <2>4. QED
    BY <2>1, <2>2, <2>3 DEF Roots
<1>3. QED
  BY <1>1, <1>2 DEF Kept, NoNodeLost, RootsOf

LEMMA InvStringsCharged == ParserInv => StringsCharged
<1> SUFFICES ASSUME ParserInv PROVE StringsCharged
  OBVIOUS
<1>1. Kept(mem, stack, Handed, ret.str, lost)
  BY ParserInvKept
<1> DEFINE S == {ret.str} \ {NULL}
<1>2. /\ LooseOf(mem) = Labels \cup S \cup (lost \cap Str)
      /\ Labels \cap S = {} /\ Labels \cap lost = {} /\ S \cap lost = {}
      /\ lost \subseteq Node \cup Str
  BY <1>1 DEF Kept, Labels
<1>3. NULL \notin Payloads /\ NULL \notin Labels /\ NULL \notin lost
  BY <1>2, NullAssumption DEF Payloads, Labels, LabelsOf
<1>4. /\ Payloads \subseteq mem.strs /\ mem.strs \subseteq Str /\ NULL \notin mem.strs
      /\ LooseOf(mem) = mem.strs \ Payloads
  BY <1>1, NullAssumption DEF Kept, Payloads, LooseOf, Memory
<1>5. mem.strs = Payloads \cup Labels \cup S \cup (lost \cap Str)
  BY <1>2, <1>4
<1>6. Payloads \cap (Labels \cup {ret.str} \cup lost) = {}
  BY <1>2, <1>3, <1>4
<1>7. Labels \cap ({ret.str} \cup lost) = {} /\ ret.str \notin lost
  BY <1>2, <1>3
<1>8. \A x, y \in mem.live : mem.payload[x] = mem.payload[y] => x = y \/ mem.payload[x] = NULL
  BY <1>1 DEF Kept
<1>9. QED
  BY <1>5, <1>6, <1>7, <1>8 DEF StringsCharged

LEMMA InvTreeLinked == ParserInv => TreeLinked
  BY DEF ParserInv, Owned, Charge, Sound, TreeLinked

-----------------------------------------------------------------------------
\* Whatever is read and whatever malloc refuses, all variables keep their types
\* and every pointer of the parser's frames leads to an allocated block
\* (JParser.c:94-449, jsondom.c:31-51).
THEOREM TypesKept == Spec => []TypeOK
  BY ParserInvHolds, InvTypeOK, PTL

\* However the parse goes, no node is left without a frame or a return value in
\* charge of it but the values of members whose property could not be allocated
\* (JParser.c:113-135, 307-310; jsondom.c:37-48).
THEOREM NodesAccountedFor == Spec => []NoNodeLost
  BY ParserInvHolds, InvNoNodeLost, PTL

\* Until a property is freed where it hangs, the nodes are a forest at every
\* step of the parse (JParser.c:118-125, 295-300, 427-433).
THEOREM ForestUnlessTorn == Spec => []TreeLinked
  BY ParserInvHolds, InvTreeLinked, PTL

\* Memory is misused only behind a property freed where it hangs in its object
\* (JParser.c:133-134).
THEOREM MisuseNeedsTorn == Spec => []MisuseOnlyWhenTorn
<1>1. ParserInv => MisuseOnlyWhenTorn
  BY DEF ParserInv, Blame, MisuseOnlyWhenTorn
<1>2. QED
  BY <1>1, ParserInvHolds, PTL

\* While malloc works, no document makes the parser touch or free a block that
\* is not allocated, or fail an assertion of jd_Node_adopt (JParser.c:118-134,
\* 295-310, 425-433; jsondom.c:37-48).
THEOREM SafeWhileMallocWorks == ~MallocMayFail => (Spec => []MemorySafe)
<1>1. ~MallocMayFail /\ ParserInv => MemorySafe
  <2>1. ParserInv => mem.fault \in {"none", "misuse", "assertion"}
    BY ParserInvKept DEF Kept, Memory
  <2>2. QED
    BY <2>1 DEF ParserInv, Blame, MemorySafe
<1>2. SUFFICES ASSUME ~MallocMayFail PROVE Spec => []MemorySafe
  OBVIOUS
<1>3. ParserInv => MemorySafe
  BY <1>1, <1>2
<1>4. QED
  BY <1>3, ParserInvHolds, PTL

LEMMA FirstMessageStep ==
  ASSUME Shape, Step, ret.fn # "none", ~ret.ok
  PROVE  pe' = pe
<1>1. ret # Running
  BY DEF Running, Returned
<1>2. \A c \in Input : ~ReadString(c) /\ ~JP_Skip(c) /\ ~CollectionRead(c) /\ ~OM_Read(c)
  BY <1>1 DEF ReadString, RS_Escaped, RS_Escape, RS_End, RS_Char, RS_NoMore, JP_Skip,
              CollectionRead, OM_Read, Executing
<1>3. ~JP_Switch /\ \A c \in Input : ~PF_Confirm(c)
  BY <1>1 DEF JP_Switch, Executing, PF_Confirm, Shape
<1>4. JP_AfterString => pe' = pe
  BY DEF JP_AfterString, JP_NoString, JP_NoNode, JP_Quoted, JP_Unquoted
<1>5. PC_AfterMember => pe' = pe
  BY DEF PC_AfterMember
<1>6. JP_AfterCollection \/ OM_AfterLabel \/ OM_AfterValue \/ PF_AfterJParser \/ CallerDestroys
        => pe' = pe
  BY DEF JP_AfterCollection, OM_AfterLabel, OM_AfterValue, PF_AfterJParser, CallerDestroys
<1>7. QED
  BY <1>2, <1>3, <1>4, <1>5, <1>6 DEF Step

\* The caller is told what went wrong first: once a call has failed, no call on
\* the way out writes another message (JParser.c:136-158, 286-310).
THEOREM FirstMessageReaches == Spec => FirstMessageKept
<1>1. ParserInv /\ [Next]_vars => [ret.fn # "none" /\ ~ret.ok => pe' = pe]_vars
  BY FirstMessageStep DEF ParserInv, Next, Rest, vars
<1>2. QED
  BY <1>1, ParserInvHolds, PTL DEF Spec, FirstMessageKept
-----------------------------------------------------------------------------
(***************************************************************************)
(* The parser's strings are read as StringReader reads.                    *)
(***************************************************************************)
LEMMA ReaderOperators ==
  /\ Reader!Quote = Quote /\ Reader!Escape = Escape
  /\ \A first : Reader!FirstBag(first) = FirstBag(first)
  /\ \A b : Reader!CString(b) = CString(b)
  /\ \A b, c : Reader!Added(b, c) = Added(b, c)
  /\ \A first, c : Reader!EndCheck(first, c) <=> EndCheck(first, c)
<1>1. Reader!Quote = Quote /\ Reader!Escape = Escape
  BY DEF Reader!Quote, Quote, Reader!Escape, Escape
<1>2. \A first : Reader!FirstBag(first) = FirstBag(first)
  BY <1>1 DEF Reader!FirstBag, FirstBag
<1>3. \A b : Reader!CString(b) = CString(b)
  BY DEF Reader!CString, CString, Reader!ToSet, ToSet, Reader!Min, Min
<1>4. \A b : Reader!LeafFull(b) <=> LeafFull(b)
  BY DEF Reader!LeafFull, LeafFull
<1>5. \A b, c : Reader!Added(b, c) = Added(b, c)
  BY <1>4 DEF Reader!Added, Added
<1>6. \A first, c : Reader!EndCheck(first, c) <=> EndCheck(first, c)
  BY <1>1 DEF Reader!EndCheck, EndCheck, Reader!IsSpace, IsSpace
<1>7. QED
  BY <1>1, <1>2, <1>3, <1>5, <1>6

LEMMA ParserInvStack ==
  ASSUME ParserInv, stack # <<>>
  PROVE  stack \in Seq(Frames) /\ Top \in Frames /\ Front(stack) \in Seq(Frames)
<1>1. stack \in Seq(Frames)
  BY DEF ParserInv, Torn, StackOK
<1>2. QED
  BY <1>1, FrontLast DEF Top

LEMMA LastAppended ==
  ASSUME NEW st \in Seq(Frames), NEW f \in Frames
  PROVE  Append(st, f) # <<>> /\ Append(st, f) \in Seq(Frames) /\ Last(Append(st, f)) = f
<1>1. Append(st, f) \in Seq(Frames) /\ Append(st, f) # <<>> /\ Len(Append(st, f)) = Len(st) + 1
      /\ Append(st, f)[Len(st) + 1] = f
  BY AppendProperties
<1>2. QED
  BY <1>1, FrontLast

\* No string is being read, nor has one just been.
Quiet == ~Scanning /\ ~Scanned

\* What takes the parser from one quiet state to another, or back to one.
LEMMA Returning ==
  ASSUME NEW r, Return(r), r.fn \in {"JParser", "parse_collection", "Object_ReadMember"}
  PROVE  ~Scanning' /\ ~Scanned'
  BY DEF Return, Scanning, Scanned, Executing, Running, Returned

LEMMA Staying ==
  ASSUME NEW f \in Frames, NEW st \in Seq(Frames), stack' = Append(st, f), ret' = Running
  PROVE  /\ Scanning' <=> phase' = "parse" /\ f.fn = "JReadString"
         /\ ~Scanned' /\ Top' = f
<1>1. stack' # <<>> /\ Last(stack') = f
  BY LastAppended
<1>2. QED
  BY <1>1 DEF Scanning, Scanned, Executing, In, Top, Running, Returned

LEMMA Quieted ==
  ASSUME ~Scanning, ~Scanning', ~Scanned'
  PROVE  Reader!Next \/ UNCHANGED Reader!vars
<1>1. CASE Scanned
  <2>1. Reader!Dismiss
    BY <1>1 DEF Reader!Dismiss
  <2>2. QED
    BY <2>1 DEF Reader!Next
<1>2. CASE ~Scanned
  BY <1>2 DEF Reader!vars
<1>3. QED
  BY <1>1, <1>2

\* A caller begins a string.
LEMMA BeginsString ==
  ASSUME Quiet, NEW c \in Alphabet, NEW st \in Seq(Frames), phase' = "parse",
         stack' = Append(st, StringFrame(c)), ret' = Running
  PROVE  Reader!Next
<1>1. StringFrame(c) \in Frames /\ StringFrame(c).fn = "JReadString"
  BY FrameTypes DEF StringFrame, Symbol
<1>2. Scanning' /\ ~Scanned' /\ Top' = StringFrame(c)
  BY <1>1, Staying
<1>3. Top'.first = c /\ Top'.escape = FALSE /\ Top'.bag = FirstBag(c)
  BY <1>2 DEF StringFrame
<1>4. Reader!Begin
  BY <1>2, <1>3, ReaderOperators DEF Quiet, Reader!Begin, Reader!Result
<1>5. QED
  BY <1>4 DEF Reader!Next

\* The reader goes on.
LEMMA CollectsString ==
  ASSUME ParserInv, Scanning, NEW b \in Texts, NEW e \in BOOLEAN, phase' = phase,
         Stay([Top EXCEPT !.bag = b, !.escape = e])
  PROVE  /\ Scanning' /\ Reader!Reading /\ Reader!Collect(b)
         /\ (Scanning' /\ Top'.escape) = e
<1>1. stack # <<>> /\ phase = "parse" /\ Top.fn = "JReadString" /\ ret.fn = "none"
  BY DEF Scanning, Executing, In, Running, Returned
<1>2. Top \in Frames /\ Front(stack) \in Seq(Frames)
  BY <1>1, ParserInvStack
<1> DEFINE f == [Top EXCEPT !.bag = b, !.escape = e]
<1>3. f \in Frames
  BY <1>1, <1>2, StringFrameKept
<1>4. f.fn = "JReadString" /\ f.bag = b /\ f.escape = e /\ f.first = Top.first
  BY <1>1, <1>2 DEF Frames
<1>5. stack' = Append(Front(stack), f) /\ ret' = Running
  BY DEF Stay
<1> HIDE DEF f
<1>6. Scanning' /\ ~Scanned' /\ Top' = f
  BY <1>1, <1>2, <1>3, <1>4, <1>5, Staying
<1>7. ~Scanned
  BY <1>1 DEF Scanned
<1>8. QED
  BY <1>4, <1>6, <1>7 DEF Reader!Reading, Reader!Collect, Reader!Result

\* It hands the string over, or fails.
LEMMA FinishesString ==
  ASSUME ParserInv, Scanning, NEW c, phase' = phase, StringDone(c)
  PROVE  Reader!Finish(c)
<1>1. phase = "parse"
  BY DEF Scanning, Executing, In
<1> DEFINE s == FreeStr(mem)
<1>2. s \in Str
  BY DEF StringDone, StrLeft, FreeStr
<1>3. mem.text \in [Str -> Texts]
  BY ParserInvKept DEF Kept, Memory
<1>4. mem' = NewText(mem, s, CString(Top.bag)) /\ Return(Returned("JReadString", TRUE, NULL, s, c))
  BY DEF StringDone
<1> HIDE DEF s
<1>5. mem'.text[s] = CString(Top.bag)
  BY <1>2, <1>3, <1>4 DEF NewText, Memory
<1>6. ret'.fn = "JReadString" /\ ret'.ok = TRUE /\ ret'.str = s /\ ret'.end = c
  BY <1>4 DEF Return, Returned
<1>7. Scanned' /\ ~Scanning'
  BY <1>1, <1>6 DEF Scanned, Scanning, Executing, Running, Returned
<1>8. QED
  BY <1>5, <1>6, <1>7, ReaderOperators DEF Reader!Finish

LEMMA FailsString ==
  ASSUME Scanning, phase' = phase, Fail("JReadString")
  PROVE  Reader!Break
<1>1. phase = "parse" /\ ret.fn = "none"
  BY DEF Scanning, Executing, In, Running, Returned
<1>2. ret'.fn = "JReadString" /\ ret'.ok = FALSE /\ ret'.end = "NUL"
  BY DEF Fail, Return, Failed, Returned
<1>3. Scanned' /\ ~Scanning' /\ ~Scanned
  BY <1>1, <1>2 DEF Scanned, Scanning, Executing, Running, Returned
<1>4. QED
  BY <1>2, <1>3 DEF Reader!Break, Reader!Result
LEMMA StringFramesSame ==
  ASSUME NEW f \in Frames, f.fn = "JReadString"
  PROVE  /\ \A e \in BOOLEAN : [f EXCEPT !.escape = e] = [f EXCEPT !.bag = f.bag, !.escape = e]
         /\ \A b : [f EXCEPT !.bag = b] = [f EXCEPT !.bag = b, !.escape = f.escape]
         /\ f.escape \in BOOLEAN /\ f.bag \in Texts
  BY DEF Frames, Texts

LEMMA ReadStringReads ==
  ASSUME ParserInv, NEW c \in Input, ReadString(c)
  PROVE  Reader!Next \/ UNCHANGED Reader!vars
<1>1. Scanning /\ phase' = phase
  BY DEF ReadString, Frame, RS_Escaped, RS_Escape, RS_End, RS_Char, RS_NoMore, Scanning
<1>2. Top \in Frames /\ Top.fn = "JReadString" /\ stack # <<>> /\ Reader!Reading
  BY <1>1, ParserInvStack DEF Scanning, Executing, In, Reader!Reading
<1>3. Top.escape \in BOOLEAN /\ Top.bag \in Texts
  BY <1>2, StringFramesSame
<1>4. CASE RS_Escaped(c)
  <2>1. Top.escape /\ c \in Alphabet
    BY <1>4 DEF RS_Escaped
  <2>2. PICK b \in Added(Top.bag, Escape) : \E b2 \in Added(b, c) :
          Stay([Top EXCEPT !.bag = b2, !.escape = FALSE])
    BY <1>4 DEF RS_Escaped
  <2>3. PICK b2 \in Added(b, c) : Stay([Top EXCEPT !.bag = b2, !.escape = FALSE])
    BY <2>2
  <2>4. b2 \in Texts
    BY <1>3, <2>1, AddedType DEF Symbol
  <2>5. Reader!Collect(b2) /\ (Scanning' /\ Top'.escape) = FALSE
    BY <1>1, <2>3, <2>4, CollectsString
  <2>6. Reader!Escaped
    BY <1>1, <1>2, <2>1, <2>5, ReaderOperators DEF Reader!Escaped
  <2>7. QED
    BY <2>6 DEF Reader!Next
<1>5. CASE RS_Escape(c)
  <2>1. Stay([Top EXCEPT !.bag = Top.bag, !.escape = TRUE]) /\ ~Top.escape
    BY <1>2, <1>5, StringFramesSame DEF RS_Escape
  <2>2. Reader!Collect(Top.bag) /\ (Scanning' /\ Top'.escape) = TRUE
    BY <1>1, <1>3, <2>1, CollectsString
  <2>3. Reader!BeginEscape
    BY <1>1, <1>2, <2>1, <2>2 DEF Reader!BeginEscape
  <2>4. QED
    BY <2>3 DEF Reader!Next
<1>6. CASE RS_End(c)
  <2>1. ~Top.escape /\ c \in Alphabet /\ EndCheck(Top.first, c)
    BY <1>6 DEF RS_End
  <2>2. CASE StringDone(c)
    <3>1. Reader!Finish(c)
      BY <1>1, <2>2, FinishesString
    <3>2. Reader!End
      BY <1>1, <1>2, <2>1, <3>1, ReaderOperators DEF Reader!End
    <3>3. QED
      BY <3>2 DEF Reader!Next
  <2>3. CASE UNCHANGED <<stack, ret, mem, pe>>
    BY <1>1, <2>3 DEF Reader!vars, Scanning, Scanned, Executing, In, Top
  <2>4. QED
    BY <1>6, <2>2, <2>3 DEF RS_End
<1>7. CASE RS_Char(c)
  <2>1. ~Top.escape /\ c \in Alphabet \ {Escape} /\ ~EndCheck(Top.first, c)
    BY <1>7 DEF RS_Char
  <2>2. PICK b \in Added(Top.bag, c) : Stay([Top EXCEPT !.bag = b])
    BY <1>7 DEF RS_Char
  <2>3. b \in Texts
    BY <1>3, <2>1, AddedType DEF Symbol
  <2>4. Stay([Top EXCEPT !.bag = b, !.escape = Top.escape])
    BY <1>2, <2>2, StringFramesSame
  <2>5. Reader!Collect(b) /\ (Scanning' /\ Top'.escape) = Top.escape
    BY <1>1, <1>3, <2>3, <2>4, CollectsString
  <2>6. (Scanning' /\ Top'.escape) = (Scanning /\ Top.escape)
    BY <1>1, <1>3, <2>5
  <2>7. Reader!Char
    BY <1>1, <1>2, <2>1, <2>2, <2>5, <2>6, ReaderOperators DEF Reader!Char
  <2>8. QED
    BY <2>7 DEF Reader!Next
<1>8. CASE RS_NoMore(c)
  <2>1. CASE Top.first = Quote
    <3>1. Reader!Break
      BY <1>1, <1>8, <2>1, FailsString DEF RS_NoMore
    <3>2. Reader!NoMore
      BY <1>1, <1>2, <2>1, <3>1, ReaderOperators DEF Reader!NoMore
    <3>3. QED
      BY <3>2 DEF Reader!Next
  <2>2. CASE Top.first # Quote /\ StringDone("NUL")
    <3>1. Reader!Finish("NUL")
      BY <1>1, <2>2, FinishesString
    <3>2. Reader!NoMore
      BY <1>1, <1>2, <2>2, <3>1, ReaderOperators DEF Reader!NoMore
    <3>3. QED
      BY <3>2 DEF Reader!Next
  <2>3. CASE Top.first # Quote /\ MallocMayFail /\ Fail("JReadString")
    <3>1. Reader!Break
      BY <1>1, <2>3, FailsString
    <3>2. Reader!NoMore
      BY <1>1, <1>2, <2>3, <3>1, ReaderOperators DEF Reader!NoMore
    <3>3. QED
      BY <3>2 DEF Reader!Next
  <2>4. QED
    BY <1>8, <2>1, <2>2, <2>3 DEF RS_NoMore
<1>9. QED
  BY <1>4, <1>5, <1>6, <1>7, <1>8 DEF ReadString

\* Every other function of the parser starts a string, or takes it, or neither.
LEMMA ParserReads ==
  ASSUME ParserInv, JP_Switch \/ JP_AfterCollection \/ JP_AfterString
                      \/ \E c \in Input : JP_Skip(c)
  PROVE  Reader!Next \/ UNCHANGED Reader!vars
<1>1. In("JParser") /\ ~Scanning /\ phase' = "parse"
  BY DEF JP_Switch, JP_AfterCollection, JP_AfterString, JP_NoString, JP_NoNode, JP_Quoted,
         JP_Unquoted, JP_Skip, Frame, Executing, Resuming, In, Scanning
<1>2. stack # <<>> /\ Top \in Frames /\ Top.fn = "JParser" /\ stack \in Seq(Frames)
        /\ Front(stack) \in Seq(Frames)
  BY <1>1, ParserInvStack DEF In
<1>3. Executing("JParser") => Quiet
  BY <1>1 DEF Quiet, Scanned, Executing, Running, Returned
<1>4. ASSUME NEW c \in Input, JP_Skip(c) PROVE ~Scanning' /\ ~Scanned'
  <2>1. CASE Fail("JParser")
    BY <2>1, Returning DEF Fail, Failed, Returned
  <2>2. CASE Stay([Top EXCEPT !.chr = IF c = ERR THEN @ ELSE c]) /\ c # EOF
    <3> DEFINE x == IF c = ERR THEN Top.chr ELSE c
               f == [Top EXCEPT !.chr = x]
    <3>1. x \in Starters
      BY <1>2, <2>2, JParserFrameKept DEF Input, Starters
    <3> HIDE DEF x
    <3>2. f \in Frames /\ f.fn = "JParser"
      BY <1>2, <3>1, JParserFrameKept DEF Same
    <3>3. stack' = Append(Front(stack), f) /\ ret' = Running
      BY <2>2 DEF Stay, x
    <3>4. QED
      BY <1>2, <3>2, <3>3, Staying
  <2>3. QED
    BY <1>4, <2>1, <2>2 DEF JP_Skip
<1>5. CASE JP_Switch
  <2>1. Quiet /\ Top.chr \in Starters
    BY <1>2, <1>3, <1>5, JParserFrameKept DEF JP_Switch
  <2>2. CASE Call(StringFrame(Top.chr))
    <3>1. Top.chr \in Alphabet
      BY <1>5, <2>1 DEF JP_Switch, IsSpace, Starters
    <3>2. QED
      BY <1>1, <1>2, <2>1, <2>2, <3>1, BeginsString DEF Call
  <2>3. CASE ret' = Failed("parse_collection")
    <3>1. ~Scanning' /\ ~Scanned'
      BY <2>3 DEF Scanning, Scanned, Executing, Failed, Running, Returned
    <3>2. QED
      BY <1>1, <3>1, Quieted
  <2>4. CASE Top.chr \in {"[", "{"} /\ NodeLeft(mem)
               /\ Call(CollectionFrame(Kind(Top.chr), Top.parent, FreeNode(mem)))
    <3> DEFINE f == CollectionFrame(Kind(Top.chr), Top.parent, FreeNode(mem))
    <3>1. FreeNode(mem) \in Node /\ Kind(Top.chr) \in {"array", "object"}
      BY <2>4 DEF NodeLeft, FreeNode, Kind
    <3>2. f \in Frames /\ f.fn = "parse_collection"
      BY <1>2, <3>1, FrameTypes, JParserFrameKept DEF CollectionFrame
    <3>3. stack' = Append(stack, f) /\ ret' = Running
      BY <2>4 DEF Call
    <3> HIDE DEF f
    <3>4. ~Scanning' /\ ~Scanned'
      BY <1>2, <3>2, <3>3, Staying
    <3>5. QED
      BY <1>1, <3>4, Quieted
  <2>5. QED
    BY <1>5, <2>2, <2>3, <2>4 DEF JP_Switch
<1>6. JP_AfterCollection => ~Scanning' /\ ~Scanned'
  BY Returning DEF JP_AfterCollection, Returned
<1>7. JP_AfterString => ~Scanning' /\ ~Scanned'
  BY Returning DEF JP_AfterString, JP_NoString, JP_NoNode, JP_Quoted, JP_Unquoted, HandOver,
                   Fail, Failed, Returned
<1>8. QED
  BY <1>1, <1>4, <1>5, <1>6, <1>7, Quieted
LEMMA CollectionReads ==
  ASSUME ParserInv, PC_AfterMember \/ \E c \in Input : CollectionRead(c)
  PROVE  Reader!Next \/ UNCHANGED Reader!vars
<1>1. In("parse_collection") /\ Quiet /\ phase' = "parse"
  <2>1. /\ In("parse_collection") /\ phase' = phase
        /\ ret = Running \/ ret.fn \in {"JParser", "Object_ReadMember"}
    BY DEF PC_AfterMember, CollectionRead, Frame, Executing
  <2>2. phase = "parse" /\ Top.fn = "parse_collection"
    BY <2>1 DEF In
  <2>3. ret.fn # "JReadString"
    BY <2>1 DEF Running, Returned
  <2>4. QED
    BY <2>1, <2>2, <2>3 DEF Quiet, Scanning, Scanned, Executing, In
<1>2. stack # <<>> /\ Top \in Frames /\ Top.fn = "parse_collection" /\ Front(stack) \in Seq(Frames)
  BY <1>1, ParserInvStack DEF In
<1> DEFINE Still == UNCHANGED <<stack, ret>>
<1>3. Still => ~Scanning' /\ ~Scanned'
  BY <1>1 DEF Quiet, Scanning, Scanned, Executing, In, Top
<1>4. Fail("parse_collection") \/ Complete => ~Scanning' /\ ~Scanned'
  BY Returning DEF Complete, Fail, Failed, Returned
<1>5. ASSUME NEW b \in BOOLEAN, Stay([Top EXCEPT !.needs = b]) PROVE ~Scanning' /\ ~Scanned'
  <2> DEFINE f == [Top EXCEPT !.needs = b]
  <2>1. f \in Frames /\ f.fn = "parse_collection"
    BY <1>2, CollectionFrameKept DEF Same
  <2>2. stack' = Append(Front(stack), f) /\ ret' = Running
    BY <1>5 DEF Stay
  <2> HIDE DEF f
  <2>3. QED
    BY <1>2, <2>1, <2>2, Staying
<1>6. CASE PC_AfterMember
  <2>1. \/ Fail("parse_collection") \/ Complete
        \/ \E b \in BOOLEAN : Stay([Top EXCEPT !.needs = b])
    BY <1>6 DEF PC_AfterMember, Abandon
  <2>2. QED
    BY <1>1, <1>4, <1>5, <2>1, Quieted DEF Quiet
<1>7. ASSUME NEW c \in Input, CollectionRead(c), ~PC_Member(c) PROVE ~Scanning' /\ ~Scanned'
  <2>1. \/ Still \/ Fail("parse_collection") \/ Complete \/ Stay([Top EXCEPT !.needs = TRUE])
    BY <1>7 DEF CollectionRead, PC_Space, PC_End, PC_Comma, PC_Reject, PC_NoMore, Abandon
  <2>2. QED
    BY <1>3, <1>4, <1>5, <2>1
<1>8. ASSUME NEW c \in Input, PC_Member(c) PROVE Reader!Next \/ UNCHANGED Reader!vars
  <2> DEFINE f == [Top EXCEPT !.chr = c]
             frames == Append(Front(stack), f)
  <2>1. c \in Alphabet /\ c \in Symbol
    BY <1>8 DEF PC_Member, Symbol
  <2>2. f \in Frames /\ Top.node \in Node
    BY <1>2, <2>1, CollectionFrameKept
  <2>3. frames \in Seq(Frames)
    BY <1>2, <2>2, LastAppended
  <2>4. \/ stack' = Append(frames, JParserFrame(c, Top.node)) /\ ret' = Running
        \/ c = Quote /\ stack' = frames \o <<MemberFrame(Top.node), StringFrame(c)>> /\ ret' = Running
        \/ ret' = Failed("Object_ReadMember")
    BY <1>8 DEF PC_Member
  <2> HIDE DEF frames
  <2>5. CASE stack' = Append(frames, JParserFrame(c, Top.node)) /\ ret' = Running
    <3> DEFINE g == JParserFrame(c, Top.node)
    <3>1. g \in Frames /\ g.fn = "JParser"
      BY <2>1, <2>2, FrameTypes DEF JParserFrame, Starters, Pointer
    <3> HIDE DEF g
    <3>2. stack' = Append(frames, g)
      BY <2>5 DEF g
    <3>3. QED
      BY <1>1, <2>3, <2>5, <3>1, <3>2, Staying, Quieted DEF Quiet
  <2>6. CASE c = Quote /\ stack' = frames \o <<MemberFrame(Top.node), StringFrame(c)>> /\ ret' = Running
    <3> DEFINE g == MemberFrame(Top.node)
               h == StringFrame(c)
               st == Append(frames, g)
    <3>1. g \in Frames /\ h \in Frames
      BY <2>1, <2>2, FrameTypes
    <3>2. stack' = frames \o <<g, h>>
      BY <2>6
    <3> HIDE DEF g, h
    <3>3. frames \o <<g, h>> = Append(Append(frames, g), h)
      BY <2>3, <3>1
    <3>4. st \in Seq(Frames) /\ stack' = Append(st, StringFrame(c))
      BY <2>3, <3>1, <3>2, <3>3, LastAppended DEF h
    <3> HIDE DEF st
    <3>5. QED
      BY <1>1, <2>1, <2>6, <3>4, BeginsString
  <2>7. CASE ret' = Failed("Object_ReadMember")
    <3>1. ~Scanning' /\ ~Scanned'
      BY <2>7 DEF Scanning, Scanned, Executing, Failed, Running, Returned
    <3>2. QED
      BY <1>1, <3>1, Quieted DEF Quiet
  <2>8. QED
    BY <2>4, <2>5, <2>6, <2>7
<1>9. QED
  BY <1>1, <1>6, <1>7, <1>8, Quieted DEF CollectionRead, Quiet

LEMMA MemberReads ==
  ASSUME ParserInv, OM_AfterLabel \/ OM_AfterValue \/ \E c \in Input : OM_Read(c)
  PROVE  Reader!Next \/ UNCHANGED Reader!vars
<1>1. In("Object_ReadMember") /\ ~Scanning /\ phase' = "parse"
  BY DEF OM_AfterLabel, OM_AfterValue, OM_Read, Frame, Executing, Resuming, In, Scanning
<1>2. /\ stack # <<>> /\ Top \in Frames /\ Top.fn = "Object_ReadMember"
      /\ stack \in Seq(Frames) /\ Front(stack) \in Seq(Frames)
  BY <1>1, ParserInvStack DEF In
<1>3. Fail("Object_ReadMember") => ~Scanning' /\ ~Scanned'
  BY Returning DEF Fail, Failed, Returned
<1>4. OM_AfterValue => ~Scanning' /\ ~Scanned'
  BY <1>3, Returning DEF OM_AfterValue, OM_NoValue, OM_Property, OM_NoProperty, OM_NoLabelNode,
                         Returned
<1>5. OM_AfterLabel => ~Scanning' /\ ~Scanned'
  <2>1. CASE OM_AfterLabel /\ ret.ok
    <3> DEFINE f == [Top EXCEPT !.label = ret.str]
    <3>1. stack' = Append(Front(stack), f) /\ ret' = Running
      BY <2>1 DEF OM_AfterLabel, Stay
    <3>2. ret.str \in Str
      <4>1. Consistent(ret, stack)
        BY <2>1 DEF ParserInv, Torn, OM_AfterLabel, Resuming, Failed, Returned
      <4>2. QED
        BY <2>1, <4>1 DEF Consistent, Results, OM_AfterLabel, Resuming
    <3>3. f \in Frames /\ f.fn = "Object_ReadMember"
      BY <1>2, <3>2, MemberFrameKept
    <3> HIDE DEF f
    <3>4. QED
      BY <1>2, <3>1, <3>3, Staying
  <2>2. QED
    BY <1>3, <2>1 DEF OM_AfterLabel
<1>6. ASSUME NEW c \in Input, OM_Read(c) PROVE ~Scanning' /\ ~Scanned'
  <2>1. \/ UNCHANGED <<stack, ret>>
        \/ Stay([Top EXCEPT !.colon = TRUE])
        \/ c \in Alphabet /\ Call(JParserFrame(c, NULL))
        \/ Fail("Object_ReadMember")
    BY <1>6 DEF OM_Read
  <2>2. Executing("Object_ReadMember")
    BY <1>6 DEF OM_Read
  <2>3. CASE UNCHANGED <<stack, ret>>
    BY <1>1, <2>2, <2>3 DEF Scanning, Scanned, Executing, In, Top, Running, Returned
  <2>4. CASE Stay([Top EXCEPT !.colon = TRUE])
    <3> DEFINE f == [Top EXCEPT !.colon = TRUE]
    <3>1. f \in Frames /\ f.fn = "Object_ReadMember"
      BY <1>2, MemberFrameKept DEF Same
    <3>2. stack' = Append(Front(stack), f) /\ ret' = Running
      BY <2>4 DEF Stay
    <3> HIDE DEF f
    <3>3. QED
      BY <1>2, <3>1, <3>2, Staying
  <2>5. CASE c \in Alphabet /\ Call(JParserFrame(c, NULL))
    <3> DEFINE f == JParserFrame(c, NULL)
    <3>1. f \in Frames /\ f.fn = "JParser"
      BY <2>5, FrameTypes DEF JParserFrame, Starters, Pointer
    <3>2. stack' = Append(stack, f) /\ ret' = Running
      BY <2>5 DEF Call
    <3> HIDE DEF f
    <3>3. QED
      BY <1>2, <3>1, <3>2, Staying
  <2>6. QED
    BY <1>3, <2>1, <2>3, <2>4, <2>5
<1>7. QED
  BY <1>1, <1>4, <1>5, <1>6, Quieted

LEMMA FileReads ==
  ASSUME ParserInv, PF_AfterJParser \/ CallerDestroys \/ \E c \in Input : PF_Confirm(c)
  PROVE  Reader!Next \/ UNCHANGED Reader!vars
<1>1. ~Scanning
  BY DEF PF_AfterJParser, CallerDestroys, PF_Confirm, Scanning, Executing, In
<1>2. phase' # "parse"
  BY DEF PF_AfterJParser, CallerDestroys, PF_Confirm
<1>3. ~Scanning' /\ ~Scanned'
  BY <1>2 DEF Scanning, Scanned, Executing, In
<1>4. QED
  BY <1>1, <1>3, Quieted

\* Each string that the parser reads, label or value, is read as the abstract
\* reader reads it, and no caller disturbs its text before it has taken it
\* (JParser.c:94-101, 379-390; JReadString.c:104-173).
THEOREM StringsRead == Spec => ReadsStrings
<1>1. Init => Reader!Init
  <2> SUFFICES ASSUME Init PROVE Reader!Init
    OBVIOUS
  <2> DEFINE f == JParserFrame("NUL", NULL)
  <2>1. f \in Frames /\ f.fn = "JParser"
    BY FrameTypes DEF Pointer, JParserFrame
  <2>2. stack = <<f>> /\ ret.fn = "none"
    BY DEF Init, Running, Returned
  <2> HIDE DEF f
  <2>3. stack = Append(<<>>, f) /\ <<>> \in Seq(Frames)
    BY <2>1, <2>2
  <2>4. Quiet
    <3>1. Last(stack) = f
      BY <2>1, <2>3, LastAppended
    <3>2. QED
      BY <2>1, <2>2, <3>1 DEF Quiet, Scanning, Scanned, Executing, In, Top
  <2>5. QED
    BY <2>4 DEF Quiet, Reader!Init, Reader!Idle
<1>2. ParserInv /\ [Next]_vars => [Reader!Next]_(Reader!vars)
  <2> SUFFICES ASSUME ParserInv, [Next]_vars PROVE Reader!Next \/ UNCHANGED Reader!vars
    OBVIOUS
  <2>1. CASE Step
    BY <2>1, ReadStringReads, ParserReads, CollectionReads, MemberReads, FileReads DEF Step
  <2>2. CASE UNCHANGED vars
    BY <2>2 DEF vars, Reader!vars, Scanning, Scanned, Executing, In, Top
  <2>3. QED
    BY <2>1, <2>2 DEF Next, Rest
<1>3. QED
  BY <1>1, <1>2, ParserInvHolds, PTL DEF Spec, ReadsStrings, Reader!Spec

-----------------------------------------------------------------------------
(***************************************************************************)
(* Which strings are lost.                                                 *)
(***************************************************************************)
\* A string that JParser has read begins with the character JParser has seen.
TextsFollow(st) ==
  \A i \in 2..Len(st) :
    st[i - 1].fn = "JParser" /\ st[i].fn = "JReadString" => st[i].first = st[i - 1].chr

\* What has just been read for a value without a quote is an unquoted text.
LiteralReturned ==
  phase = "parse" /\ stack # <<>> /\ Top.fn = "JParser" /\ Top.chr # Quote
    /\ ret.fn = "JReadString" /\ ret.ok
  => origin[ret.str] = "literal"

LostInv ==
  /\ origin \in [Str -> Origins]
  /\ TextsFollow(stack) /\ LiteralReturned /\ LostForReason

LEMMA FollowPush ==
  ASSUME NEW st \in Seq(Frames), TextsFollow(st), NEW f \in Frames,
         st # <<>> /\ Last(st).fn = "JParser" /\ f.fn = "JReadString" => f.first = Last(st).chr
  PROVE  TextsFollow(Append(st, f))
<1> DEFINE n == Len(st)
           t == Append(st, f)
<1>1. /\ n \in Nat /\ Len(t) = n + 1 /\ t[n + 1] = f /\ \A k \in 1..n : t[k] = st[k]
  OBVIOUS
<1>2. st # <<>> => Last(st) = st[n]
  BY FrontLast
<1>3. st = <<>> => n = 0
  OBVIOUS
<1>4. \A k \in 2..n :
        st[k - 1].fn = "JParser" /\ st[k].fn = "JReadString" => st[k].first = st[k - 1].chr
  BY DEF TextsFollow
<1> HIDE DEF t, n
<1>5. ASSUME NEW k \in 2..n + 1, t[k - 1].fn = "JParser", t[k].fn = "JReadString"
      PROVE  t[k].first = t[k - 1].chr
  <2>1. CASE k = n + 1
    <3>1. n \in 1..n /\ k - 1 = n /\ st # <<>>
      BY <1>1, <1>3, <2>1
    <3>2. QED
      BY <1>1, <1>2, <1>5, <2>1, <3>1
  <2>2. CASE k # n + 1
    <3>1. k \in 2..n /\ k \in 1..n /\ k - 1 \in 1..n
      BY <1>1, <2>2
    <3>2. QED
      BY <1>1, <1>4, <1>5, <3>1
  <2>3. QED
    BY <2>1, <2>2
<1>6. QED
  BY <1>1, <1>5 DEF TextsFollow, t

LEMMA FollowPop ==
  ASSUME NEW st \in Seq(Frames), TextsFollow(st), st # <<>>
  PROVE  /\ Front(st) \in Seq(Frames) /\ TextsFollow(Front(st))
         /\ Front(st) # <<>> /\ Last(Front(st)).fn = "JParser" /\ Last(st).fn = "JReadString"
              => Last(st).first = Last(Front(st)).chr
<1> DEFINE n == Len(st)
           t == Front(st)
<1>1. /\ n \in Nat /\ n > 0 /\ t \in Seq(Frames) /\ Len(t) = n - 1
      /\ \A k \in 1..n - 1 : t[k] = st[k]
      /\ Last(st) = st[n]
  BY FrontLast
<1>2. \A k \in 2..n :
        st[k - 1].fn = "JParser" /\ st[k].fn = "JReadString" => st[k].first = st[k - 1].chr
  BY DEF TextsFollow
<1> HIDE DEF t, n
<1>3. TextsFollow(t)
  <2>1. \A k \in 2..Len(t) : k \in 2..n /\ k \in 1..n - 1 /\ k - 1 \in 1..n - 1
    BY <1>1
  <2>2. QED
    BY <1>1, <1>2, <2>1 DEF TextsFollow
<1>4. ASSUME t # <<>>
      PROVE  n \in 2..n /\ Last(t) = st[n - 1]
  <2>1. Len(t) >= 1 /\ Last(t) = t[Len(t)]
    BY <1>1, <1>4, FrontLast
  <2>2. QED
    BY <1>1, <2>1
<1>5. QED
  BY <1>1, <1>2, <1>3, <1>4 DEF t

\* A frame changes, but not what TextsFollow sees of it.
LEMMA FollowStay ==
  ASSUME stack \in Seq(Frames), stack # <<>>, TextsFollow(stack), NEW f \in Frames, Stay(f),
         f.fn = Top.fn, f.fn = "JReadString" => f.first = Top.first
  PROVE  TextsFollow(stack')
  BY FollowPop, FollowPush DEF Stay, Top

LEMMA FollowCall ==
  ASSUME stack \in Seq(Frames), stack # <<>>, TextsFollow(stack), NEW f \in Frames, Call(f),
         Top.fn = "JParser" /\ f.fn = "JReadString" => f.first = Top.chr
  PROVE  TextsFollow(stack')
  BY FollowPush DEF Call, Top

LEMMA FollowReturn ==
  ASSUME stack \in Seq(Frames), stack # <<>>, TextsFollow(stack), NEW r, Return(r)
  PROVE  TextsFollow(stack')
  BY FollowPop DEF Return

\* What ParserInv says of the blocks that are lost or just returned.
LEMMA BlocksReturned ==
  ASSUME ParserInv
  PROVE  /\ lost \cap Str \subseteq mem.strs /\ ret.str \in mem.strs \cup {NULL}
         /\ mem.strs \subseteq Str /\ ret.str \notin lost
         /\ phase = "parse" => ret.node \in Node \cup {NULL}
<1>1. StringsCharged /\ TypeOK
  BY InvStringsCharged, InvTypeOK
<1>2. ParserInv => Kept(mem, stack, Handed, ret.str, lost)
  BY ParserInvKept
<1>3. phase = "parse" => ret.node \in Node \cup {NULL}
  BY <1>1, <1>2 DEF Kept, Handed, TypeOK
<1>4. QED
  BY <1>1, <1>3 DEF StringsCharged, TypeOK

\* A step that loses no string, writes none and returns none.
LEMMA NothingMoreLost ==
  ASSUME LostInv, UNCHANGED origin, TextsFollow(stack'), lost' \cap Str = lost \cap Str,
         UNCHANGED <<stack, ret, phase>> \/ ret'.fn # "JReadString" \/ ~ret'.ok \/ phase' # "parse"
  PROVE  LostInv'
<1>1. LiteralReturned'
  BY DEF LostInv, LiteralReturned, Top
<1>2. LostForReason'
  BY DEF LostInv, LostForReason
<1>3. QED
  BY <1>1, <1>2 DEF LostInv, TextsFollow

LEMMA StringDoneLost ==
  ASSUME ParserInv, LostInv, Executing("JReadString"), NEW end, StringDone(end), UNCHANGED lost
  PROVE  LostInv'
<1> DEFINE s == FreeStr(mem)
           o == IF Top.first = Quote THEN "quoted" ELSE "literal"
<1>1. /\ s \in Str \ mem.strs /\ origin' = [origin EXCEPT ![s] = o]
      /\ stack' = Front(stack) /\ ret'.str = s
  BY FreeStrIsFree DEF StringDone, Return, Returned
<1>2. stack \in Seq(Frames) /\ stack # <<>> /\ Top = Last(stack) /\ Top.fn = "JReadString"
  BY ParserInvStack DEF Executing, In, Top
<1>3. TextsFollow(stack')
  BY <1>1, <1>2, FollowPop DEF LostInv
<1>4. stack' # <<>> /\ Top'.fn = "JParser" => Top.first = Top'.chr
  BY <1>1, <1>2, FollowPop DEF LostInv, Top
<1> HIDE DEF s
<1>5. origin' \in [Str -> Origins] /\ origin'[s] = o
  BY <1>1 DEF LostInv, Origins
<1>6. LiteralReturned'
  BY <1>1, <1>4, <1>5 DEF LiteralReturned
<1>7. LostForReason'
  <2>1. \A x \in lost \cap Str : x # s /\ origin'[x] = origin[x]
    BY <1>1, BlocksReturned DEF LostInv
  <2>2. QED
    BY <2>1 DEF LostInv, LostForReason
<1>8. QED
  BY <1>3, <1>5, <1>6, <1>7 DEF LostInv, TextsFollow

LEMMA ReadStringLost ==
  ASSUME ParserInv, LostInv, NEW c \in Input, ReadString(c)
  PROVE  LostInv'
<1>1. Executing("JReadString") /\ UNCHANGED <<lost, phase>>
  BY DEF ReadString, RS_Escaped, RS_Escape, RS_End, RS_Char, RS_NoMore, Frame
<1>2. /\ stack \in Seq(Frames) /\ stack # <<>> /\ Top \in Frames /\ Top.fn = "JReadString"
      /\ TextsFollow(stack) /\ Top.bag \in Texts
  BY <1>1, ParserInvStack, StringFrameKept DEF Executing, In, LostInv
<1>3. ASSUME NEW f \in Frames, Stay(f), f.fn = Top.fn, f.first = Top.first, UNCHANGED origin
      PROVE  LostInv'
  <2>1. TextsFollow(stack')
    BY <1>2, <1>3, FollowStay
  <2>2. QED
    BY <1>1, <1>3, <2>1, NothingMoreLost DEF Stay, Running, Returned
<1>4. CASE RS_Escaped(c)
  <2>1. c \in Symbol /\ Escape \in Symbol /\ UNCHANGED origin
    BY <1>4 DEF RS_Escaped, Symbol
  <2>2. PICK b \in Added(Top.bag, Escape) :
          \E b2 \in Added(b, c) : Stay([Top EXCEPT !.bag = b2, !.escape = FALSE])
    BY <1>4 DEF RS_Escaped
  <2>3. PICK b2 \in Added(b, c) : Stay([Top EXCEPT !.bag = b2, !.escape = FALSE])
    BY <2>2
  <2>4. b2 \in Texts
    BY <1>2, <2>1, AddedType
  <2> DEFINE f == [Top EXCEPT !.bag = b2, !.escape = FALSE]
  <2>5. f \in Frames /\ f.fn = Top.fn /\ f.first = Top.first
    BY <1>2, <2>4, StringFrameKept DEF Frames
  <2> HIDE DEF f
  <2>6. Stay(f)
    BY <2>3 DEF f
  <2>7. QED
    BY <1>3, <2>1, <2>5, <2>6
<1>5. CASE RS_Escape(c)
  <2> DEFINE f == [Top EXCEPT !.escape = TRUE]
  <2>1. f \in Frames /\ f.fn = Top.fn /\ f.first = Top.first
    BY <1>2, StringFrameKept DEF Frames
  <2> HIDE DEF f
  <2>2. Stay(f) /\ UNCHANGED origin
    BY <1>5 DEF RS_Escape, f
  <2>3. QED
    BY <1>3, <2>1, <2>2
<1>6. CASE RS_Char(c)
  <2>1. c \in Symbol /\ UNCHANGED origin
    BY <1>6 DEF RS_Char, Symbol
  <2>2. PICK b \in Added(Top.bag, c) : Stay([Top EXCEPT !.bag = b])
    BY <1>6 DEF RS_Char
  <2>3. b \in Texts
    BY <1>2, <2>1, AddedType
  <2> DEFINE f == [Top EXCEPT !.bag = b]
  <2>4. f \in Frames /\ f.fn = Top.fn /\ f.first = Top.first
    BY <1>2, <2>3, StringFrameKept DEF Frames
  <2> HIDE DEF f
  <2>5. Stay(f)
    BY <2>2 DEF f
  <2>6. QED
    BY <1>3, <2>1, <2>4, <2>5
<1>7. ASSUME NEW end, StringDone(end)
      PROVE  LostInv'
  BY <1>1, <1>7, StringDoneLost
<1>8. CASE UNCHANGED <<stack, ret, origin>>
  BY <1>1, <1>2, <1>8, NothingMoreLost
<1>9. CASE Fail("JReadString") /\ UNCHANGED origin
  <2>1. TextsFollow(stack') /\ ~ret'.ok
    BY <1>2, <1>9, FollowReturn DEF Fail, Return, Failed, Returned
  <2>2. QED
    BY <1>1, <1>9, <2>1, NothingMoreLost
<1>10. QED
  BY <1>4, <1>5, <1>6, <1>7, <1>8, <1>9 DEF ReadString, RS_End, RS_NoMore

\* The text of a value is taken by a node, or left behind.
LEMMA AfterStringLost ==
  ASSUME ParserInv, LostInv, JP_AfterString
  PROVE  LostInv'
<1>1. /\ phase = "parse" /\ stack # <<>> /\ Top.fn = "JParser" /\ ret.fn = "JReadString"
      /\ phase' = phase
  BY DEF JP_AfterString, JP_NoString, JP_NoNode, JP_Quoted, JP_Unquoted, Resuming, In, Frame
<1>2. /\ stack' = Front(stack) /\ ret'.fn = "JParser"
  BY DEF JP_AfterString, JP_NoString, JP_NoNode, JP_Quoted, JP_Unquoted, HandOver, Fail,
         Failed, Return, Returned
<1>3. TextsFollow(stack')
  BY <1>1, <1>2, ParserInvStack, FollowPop DEF LostInv
<1>4. LiteralReturned'
  BY <1>2 DEF LiteralReturned
<1>5. ret.ok => ret.str \in mem.strs
  <2>1. ret.ok => Consistent(ret, stack)
    BY DEF ParserInv, Torn, Failed, Returned
  <2>2. QED
    BY <1>1, <2>1, BlocksReturned DEF Consistent
<1>6. CASE JP_NoString \/ JP_Quoted
  <2>1. UNCHANGED <<lost, origin>>
    BY <1>6 DEF JP_NoString, JP_Quoted
  <2>2. QED
    BY <1>2, <1>3, <2>1, NothingMoreLost
<1>7. CASE JP_NoNode
  <2>1. /\ ret.str \in Str /\ lost' = lost \cup {ret.str} /\ MallocMayFail
        /\ origin' = [origin EXCEPT ![ret.str] = "unmade"]
    BY <1>5, <1>7, BlocksReturned DEF JP_NoNode
  <2>2. origin' \in [Str -> Origins] /\ \A x \in Str :
          origin'[x] = IF x = ret.str THEN "unmade" ELSE origin[x]
    BY <2>1 DEF LostInv, Origins
  <2>3. LostForReason'
    BY <2>1, <2>2 DEF LostInv, LostForReason
  <2>4. QED
    BY <1>3, <1>4, <2>2, <2>3 DEF LostInv, TextsFollow
<1>8. CASE JP_Unquoted
  <2> DEFINE s == FreeStr(mem)
  <2>1. ret.ok /\ Top.chr # Quote /\ lost' = lost \cup {ret.str}
    BY <1>8 DEF JP_Unquoted
  <2>2. UNCHANGED origin \/ (StrLeft(mem) /\ origin' = [origin EXCEPT ![s] = "copy"])
    BY <1>8 DEF JP_Unquoted
  <2>3. origin' \in [Str -> Origins] /\ \A x \in mem.strs : origin'[x] = origin[x]
    <3>1. CASE UNCHANGED origin
      BY <3>1 DEF LostInv
    <3>2. CASE StrLeft(mem) /\ origin' = [origin EXCEPT ![s] = "copy"]
      <4>1. s \in Str \ mem.strs
        BY <3>2, FreeStrIsFree
      <4> HIDE DEF s
      <4>2. QED
        BY <3>2, <4>1, BlocksReturned DEF LostInv, Origins
    <3>3. QED
      BY <2>2, <3>1, <3>2
  <2>4. origin[ret.str] = "literal"
    BY <1>1, <2>1 DEF LostInv, LiteralReturned
  <2>5. \A x \in lost' \cap Str : x \in mem.strs
    BY <1>5, <2>1, BlocksReturned
  <2>6. LostForReason'
    BY <2>1, <2>3, <2>4, <2>5 DEF LostInv, LostForReason
  <2>7. QED
    BY <1>3, <1>4, <2>3, <2>6 DEF LostInv, TextsFollow
<1>9. QED
  BY <1>6, <1>7, <1>8 DEF JP_AfterString

\* The other calls read no string to its end.
OtherCalls == \/ \E c \in Input : JP_Skip(c) \/ CollectionRead(c) \/ OM_Read(c)
              \/ JP_Switch \/ JP_AfterCollection \/ PC_AfterMember
              \/ OM_AfterLabel \/ OM_AfterValue
Follows == /\ TextsFollow(stack')
           /\ UNCHANGED <<stack, ret>> \/ ret'.fn # "JReadString"

LEMMA FollowsReturned ==
  ASSUME stack \in Seq(Frames), stack # <<>>, TextsFollow(stack)
  PROVE  /\ \A fn, ok, node, str, end :
              fn # "JReadString" /\ Return(Returned(fn, ok, node, str, end)) => Follows
         /\ \A fn : fn # "JReadString" /\ Fail(fn) => Follows
         /\ UNCHANGED <<stack, ret>> => Follows
         /\ \A f \in Frames : Stay(f) /\ f.fn = Top.fn /\ Top.fn # "JReadString" => Follows
         /\ \A f \in Frames : Call(f) /\ (Top.fn = "JParser" => f.fn # "JReadString") => Follows
<1>1. ASSUME NEW fn, NEW ok, NEW node, NEW str, NEW end, fn # "JReadString",
             Return(Returned(fn, ok, node, str, end))
      PROVE  Follows
  BY <1>1, FollowReturn DEF Return, Returned, Follows
<1>2. ASSUME NEW fn, fn # "JReadString", Fail(fn)
      PROVE  Follows
  BY <1>1, <1>2 DEF Fail, Failed
<1>3. ASSUME NEW f \in Frames, Stay(f), f.fn = Top.fn, Top.fn # "JReadString"
      PROVE  Follows
  BY <1>3, FollowStay DEF Stay, Running, Returned, Follows
<1>4. ASSUME NEW f \in Frames, Call(f), Top.fn = "JParser" => f.fn # "JReadString"
      PROVE  Follows
  BY <1>4, FollowCall DEF Call, Running, Returned, Follows
<1>5. UNCHANGED <<stack, ret>> => Follows
  BY DEF Follows
<1>6. QED
  BY <1>1, <1>2, <1>3, <1>4, <1>5

LEMMA ParserFollows ==
  ASSUME ParserInv, TextsFollow(stack),
         (\E c \in Input : JP_Skip(c)) \/ JP_Switch \/ JP_AfterCollection
  PROVE  Follows
<1>1. /\ stack \in Seq(Frames) /\ stack # <<>> /\ Top \in Frames /\ Top.fn = "JParser"
      /\ Top.chr \in Starters /\ Top.parent \in Pointer
  BY ParserInvStack, JParserFrameKept DEF JP_Skip, JP_Switch, JP_AfterCollection, Executing, Resuming, In
<1>2. ASSUME NEW c \in Input, JP_Skip(c) PROVE Follows
  <2> DEFINE chr == IF c = ERR THEN Top.chr ELSE c
  <2>1. Fail("JParser") \/ (c # EOF /\ Stay([Top EXCEPT !.chr = chr]))
    BY <1>2 DEF JP_Skip
  <2>2. c # EOF => chr \in Starters
    BY <1>1, InputSymbol
  <2> HIDE DEF chr
  <2>3. c # EOF => [Top EXCEPT !.chr = chr] \in Frames /\ [Top EXCEPT !.chr = chr].fn = Top.fn
    BY <1>1, <2>2, JParserFrameKept DEF Same
  <2>4. QED
    BY <1>1, <2>1, <2>3, FollowsReturned
<1>3. CASE JP_Switch
  <2>1. CASE Call(StringFrame(Top.chr))
    <3>1. /\ StringFrame(Top.chr) \in Frames /\ StringFrame(Top.chr).first = Top.chr
      BY <1>1, FrameTypes DEF StringFrame, Starters, Symbol
    <3>2. QED
      BY <1>1, <2>1, <3>1, FollowCall DEF Call, Running, Returned, Follows
  <2>2. CASE NodeLeft(mem) /\ Call(CollectionFrame(Kind(Top.chr), Top.parent, FreeNode(mem)))
    <3>1. FreeNode(mem) \in Node /\ Kind(Top.chr) \in {"array", "object"}
      BY <2>2, FreeNodeIsFree DEF Kind
    <3>2. CollectionFrame(Kind(Top.chr), Top.parent, FreeNode(mem)) \in Frames
      BY <1>1, <3>1, FrameTypes
    <3>3. QED
      BY <1>1, <2>2, <3>2, FollowsReturned DEF CollectionFrame
  <2>3. CASE UNCHANGED stack /\ ret' = Failed("parse_collection")
    BY <2>3 DEF Follows, Failed, Returned
  <2>4. QED
    BY <1>3, <2>1, <2>2, <2>3 DEF JP_Switch
<1>4. CASE JP_AfterCollection
  BY <1>1, <1>4, FollowsReturned DEF JP_AfterCollection
<1>5. QED
  BY <1>2, <1>3, <1>4

LEMMA CollectionFollows ==
  ASSUME ParserInv, TextsFollow(stack), (\E c \in Input : CollectionRead(c)) \/ PC_AfterMember
  PROVE  Follows
<1>1. /\ stack \in Seq(Frames) /\ stack # <<>> /\ Top \in Frames
      /\ Top.fn = "parse_collection" /\ Top.node \in Node
  BY ParserInvStack, CollectionFrameKept DEF CollectionRead, PC_AfterMember, Executing, In
<1>2. ASSUME NEW b \in BOOLEAN, Stay([Top EXCEPT !.needs = b]) PROVE Follows
  <2>1. [Top EXCEPT !.needs = b] \in Frames /\ [Top EXCEPT !.needs = b].fn = Top.fn
    BY <1>1, CollectionFrameKept DEF Same
  <2>2. QED
    BY <1>1, <1>2, <2>1, FollowsReturned
<1>3. Abandon \/ Complete => Follows
  BY <1>1, FollowsReturned DEF Abandon, Complete
<1>4. ASSUME NEW c \in Input, PC_Member(c) PROVE Follows
  <2> DEFINE f == [Top EXCEPT !.chr = c]
             st == Append(Front(stack), f)
  <2>1. c \in Symbol /\ c \in Starters
    BY <1>4 DEF PC_Member, Symbol, Starters
  <2>2. f \in Frames /\ f.fn = Top.fn
    BY <1>1, <2>1, CollectionFrameKept DEF Same
  <2> HIDE DEF f
  <2>3. st \in Seq(Frames) /\ TextsFollow(st) /\ st # <<>> /\ Last(st).fn = "parse_collection"
    <3>1. Front(stack) \in Seq(Frames) /\ TextsFollow(Front(stack))
      BY <1>1, FollowPop
    <3>2. QED
      BY <1>1, <2>2, <3>1, FollowPush, LastAppended
  <2> HIDE DEF st
  <2>4. CASE stack' = Append(st, JParserFrame(c, Top.node)) /\ ret' = Running
    <3>1. /\ JParserFrame(c, Top.node) \in Frames /\ JParserFrame(c, Top.node).fn = "JParser"
      BY <1>1, <2>1, FrameTypes DEF JParserFrame, Pointer
    <3>2. QED
      BY <2>3, <2>4, <3>1, FollowPush DEF Follows, Running, Returned
  <2>5. CASE stack' = st \o <<MemberFrame(Top.node), StringFrame(c)>> /\ ret' = Running
    <3> DEFINE g == MemberFrame(Top.node)
               h == StringFrame(c)
    <3>1. g \in Frames /\ g.fn = "Object_ReadMember" /\ h \in Frames
      BY <1>1, <2>1, FrameTypes DEF MemberFrame
    <3> HIDE DEF g, h
    <3>2. stack' = Append(Append(st, g), h)
      BY <2>3, <2>5, <3>1 DEF g, h
    <3>3. TextsFollow(Append(st, g))
      BY <2>3, <3>1, FollowPush
    <3>4. Append(st, g) \in Seq(Frames) /\ Last(Append(st, g)) = g
      BY <2>3, <3>1, LastAppended
    <3>5. TextsFollow(stack')
      BY <3>1, <3>2, <3>3, <3>4, FollowPush
    <3>6. QED
      BY <2>5, <3>5 DEF Follows, Running, Returned
  <2>6. CASE stack' = st /\ ret' = Failed("Object_ReadMember")
    BY <2>3, <2>6 DEF Follows, Failed, Returned
  <2>7. QED
    BY <1>4, <2>4, <2>5, <2>6 DEF PC_Member, f, st
<1>5. ASSUME NEW c \in Input, CollectionRead(c) PROVE Follows
  <2>1. PC_Space(c) => Follows
    BY <1>1, FollowsReturned DEF PC_Space
  <2>2. PC_End(c) \/ PC_Reject(c) \/ PC_NoMore(c) => Abandon \/ Complete
    BY DEF PC_End, PC_Reject, PC_NoMore
  <2>3. PC_Comma(c) => Stay([Top EXCEPT !.needs = TRUE])
    BY DEF PC_Comma
  <2>4. QED
    BY <1>2, <1>3, <1>4, <1>5, <2>1, <2>2, <2>3 DEF CollectionRead
<1>6. CASE PC_AfterMember
  <2>1. Abandon \/ Complete \/ \E b \in BOOLEAN : Stay([Top EXCEPT !.needs = b])
    BY <1>6 DEF PC_AfterMember
  <2>2. QED
    BY <1>2, <1>3, <2>1
<1>7. QED
  BY <1>5, <1>6

LEMMA MemberFollows ==
  ASSUME ParserInv, TextsFollow(stack),
         (\E c \in Input : OM_Read(c)) \/ OM_AfterLabel \/ OM_AfterValue
  PROVE  Follows
<1>1. /\ stack \in Seq(Frames) /\ stack # <<>> /\ Top \in Frames
      /\ Top.fn = "Object_ReadMember"
  BY ParserInvStack DEF OM_Read, OM_AfterLabel, OM_AfterValue, Executing, Resuming, In
<1>2. ASSUME NEW c \in Input, OM_Read(c) PROVE Follows
  <2>1. CASE Stay([Top EXCEPT !.colon = TRUE])
    <3>1. [Top EXCEPT !.colon = TRUE] \in Frames /\ [Top EXCEPT !.colon = TRUE].fn = Top.fn
      BY <1>1, MemberFrameKept DEF Same
    <3>2. QED
      BY <1>1, <2>1, <3>1, FollowsReturned
  <2>2. CASE c \in Alphabet /\ Call(JParserFrame(c, NULL))
    <3>1. JParserFrame(c, NULL) \in Frames /\ JParserFrame(c, NULL).fn = "JParser"
      BY <2>2, FrameTypes DEF JParserFrame, Pointer, Starters
    <3>2. QED
      BY <1>1, <2>2, <3>1, FollowsReturned
  <2>3. CASE Fail("Object_ReadMember") \/ UNCHANGED <<stack, ret>>
    BY <1>1, <2>3, FollowsReturned
  <2>4. QED
    BY <1>2, <2>1, <2>2, <2>3 DEF OM_Read
<1>3. CASE OM_AfterLabel
  <2>1. CASE Fail("Object_ReadMember")
    BY <1>1, <2>1, FollowsReturned
  <2>2. CASE Stay([Top EXCEPT !.label = ret.str])
    <3>1. ret.str \in Str \cup {NULL}
      BY BlocksReturned
    <3>2. /\ [Top EXCEPT !.label = ret.str] \in Frames
          /\ [Top EXCEPT !.label = ret.str].fn = Top.fn
      BY <1>1, <3>1 DEF Frames
    <3>3. QED
      BY <1>1, <2>2, <3>2, FollowsReturned
  <2>3. QED
    BY <1>3, <2>1, <2>2 DEF OM_AfterLabel
<1>4. CASE OM_AfterValue
  <2>1. Fail("Object_ReadMember")
        \/ \E p : Return(Returned("Object_ReadMember", TRUE, p, NULL, ret.end))
    BY <1>4 DEF OM_AfterValue, OM_NoValue, OM_Property, OM_NoProperty, OM_NoLabelNode
  <2>2. QED
    BY <1>1, <2>1, FollowsReturned
<1>5. QED
  BY <1>2, <1>3, <1>4

LEMMA OtherCallsLost ==
  ASSUME ParserInv, LostInv, OtherCalls
  PROVE  LostInv'
<1>1. Follows
  BY ParserFollows, CollectionFollows, MemberFollows DEF OtherCalls, LostInv
<1>2. UNCHANGED phase /\ phase = "parse"
  BY DEF OtherCalls, JP_Skip, CollectionRead, OM_Read, JP_Switch, JP_AfterCollection,
         PC_AfterMember, OM_AfterLabel, OM_AfterValue, Frame, Executing, Resuming, In
<1>3. UNCHANGED origin /\ lost' \cap Str = lost \cap Str
  <2>1. CASE OM_AfterValue
    <3>1. UNCHANGED origin /\ (UNCHANGED lost \/ lost' = lost \cup ({ret.node} \ {NULL}))
      BY <2>1 DEF OM_AfterValue, OM_NoValue, OM_Property, OM_NoProperty, OM_NoLabelNode,
                  NothingLost
    <3>2. QED
      BY <1>2, <3>1, BlocksReturned, BlockAssumption
  <2>2. CASE ~OM_AfterValue
    BY <2>2 DEF OtherCalls, JP_Skip, CollectionRead, OM_Read, JP_Switch, JP_AfterCollection,
                PC_AfterMember, OM_AfterLabel, NothingLost
  <2>3. QED
    BY <2>1, <2>2
<1>4. QED
  BY <1>1, <1>2, <1>3, NothingMoreLost DEF Follows

LEMMA LostInvInit == Init => LostInv
<1> SUFFICES ASSUME Init PROVE LostInv
  OBVIOUS
<1>1. /\ Len(stack) = 1 /\ lost = {} /\ origin = [s \in Str |-> "none"] /\ ret.fn = "none"
  BY DEF Init, Running, Returned
<1>2. QED
  BY <1>1 DEF LostInv, TextsFollow, LiteralReturned, LostForReason, Origins

LEMMA LostInvStep == ParserInv /\ LostInv /\ [Next]_vars => LostInv'
<1> SUFFICES ASSUME ParserInv, LostInv, [Next]_vars PROVE LostInv'
  OBVIOUS
<1>1. ASSUME NEW c \in Input, ReadString(c) PROVE LostInv'
  BY <1>1, ReadStringLost
<1>2. CASE JP_AfterString
  BY <1>2, AfterStringLost
<1>3. CASE OtherCalls
  BY <1>3, OtherCallsLost
<1>4. CASE PF_AfterJParser \/ CallerDestroys \/ \E c \in Input : PF_Confirm(c)
  <2>1. UNCHANGED <<stack, lost, origin>> /\ phase' # "parse"
    BY <1>4 DEF PF_AfterJParser, CallerDestroys, PF_Confirm, NothingLost
  <2>2. QED
    BY <2>1, NothingMoreLost DEF LostInv
<1>5. CASE UNCHANGED vars
  BY <1>5, NothingMoreLost DEF vars, LostInv
<1>6. QED
  BY <1>1, <1>2, <1>3, <1>4, <1>5 DEF Next, Rest, Step, OtherCalls

\* Whatever is read and whatever malloc refuses, every string has one owner,
\* and the only ones lost are the texts of unquoted values and those of values
\* for which no node could be had: a quoted text, a label or a payload is lost
\* in no other way (JReadString.c:56-81, JParser.c:124, 162, 379-391).
THEOREM StringsAccountedFor == Spec => []StringsOwned
<1>1. Spec => []LostInv
  BY ParserInvHolds, LostInvInit, LostInvStep, PTL DEF Spec
<1>2. ParserInv /\ LostInv => StringsOwned
  BY InvStringsCharged DEF StringsOwned, LostInv
<1>3. QED
  BY <1>1, <1>2, ParserInvHolds, PTL

-----------------------------------------------------------------------------
(***************************************************************************)
(* Reading and Awaited, symbol by symbol and call by call.                 *)
(***************************************************************************)
\* A document is read symbol by symbol.
IsReading(g, s) ==
  g = [S \in SUBSET DOMAIN s |->
         IF S = {} THEN Unread ELSE ReadSymbol(g[S \ {Max(S)}], s[Max(S)])]
Brackets == Seq({"]", "}"})
ReadingStates(X) == [quoted : BOOLEAN, escape : BOOLEAN, open : Brackets, kept : Seq(X)]

LEMMA Prepended ==
  ASSUME NEW S, NEW o \in Seq(S), NEW x \in S
  PROVE  /\ <<x>> \o o \in Seq(S) /\ <<x>> \o o # <<>>
         /\ Tail(<<x>> \o o) = o
         /\ Len(<<x>> \o o) = Len(o) + 1 /\ Len(o) \in Nat
<1> DEFINE s == <<x>>
           p == s \o o
<1>1. Len(o) \in Nat
  OBVIOUS
<1>2. s \in Seq(S) /\ Len(s) = 1
  OBVIOUS
<1> HIDE DEF s
<1>3. /\ p \in Seq(S) /\ Len(p) = 1 + Len(o)
      /\ \A i \in 1..1 + Len(o) : p[i] = IF i <= 1 THEN s[i] ELSE o[i - 1]
  <2>1. /\ s \o o \in Seq(S) /\ Len(s \o o) = Len(s) + Len(o)
        /\ \A i \in 1..Len(s) + Len(o) :
             (s \o o)[i] = IF i <= Len(s) THEN s[i] ELSE o[i - Len(s)]
    BY <1>2, ConcatProperties
  <2>2. QED
    BY <1>2, <2>1
<1> HIDE DEF p
<1>4. ASSUME NEW i \in 1..Len(o) PROVE p[i + 1] = o[i]
  <2>1. i + 1 \in 1..1 + Len(o) /\ ~(i + 1 <= 1) /\ (i + 1) - 1 = i
    BY <1>1
  <2>2. QED
    BY <1>3, <2>1
<1>5. p # <<>>
  BY <1>1, <1>3, EmptySeq
<1>6. Tail(p) = o
  <2>1. /\ Tail(p) \in Seq(S) /\ Len(Tail(p)) = Len(p) - 1
        /\ \A i \in 1..Len(Tail(p)) : Tail(p)[i] = p[i + 1]
    BY <1>3, <1>5, HeadTailProperties
  <2>2. Len(Tail(p)) = Len(o)
    BY <1>1, <1>3, <2>1
  <2>3. \A i \in 1..Len(o) : Tail(p)[i] = o[i]
    BY <1>4, <2>1, <2>2
  <2>4. QED
    BY <2>1, <2>2, <2>3, SeqEqual
<1>7. QED
  BY <1>1, <1>3, <1>5, <1>6 DEF p, s

LEMMA OpenedType ==
  ASSUME NEW open \in Brackets, NEW c
  PROVE  Opened(open, c) \in Brackets
<1> DEFINE S == {"]", "}"}
<1>1. open \in Seq(S) /\ "]" \in S /\ "}" \in S /\ Brackets = Seq(S)
  BY Zenon DEF Brackets
<1>2. \/ Opened(open, c) \in {open, <<"]">> \o open, <<"}">> \o open}
      \/ open # <<>> /\ Opened(open, c) = Tail(open)
  BY DEF Opened
<1> HIDE DEF S
<1>3. <<"]">> \o open \in Seq(S) /\ <<"}">> \o open \in Seq(S)
  BY <1>1, Prepended
<1>4. open # <<>> => Tail(open) \in Seq(S)
  BY <1>1, HeadTailProperties
<1>5. QED
  BY <1>1, <1>2, <1>3, <1>4

LEMMA ReadSymbolType ==
  ASSUME NEW X, NEW st \in ReadingStates(X), NEW c \in X
  PROVE  ReadSymbol(st, c) \in ReadingStates(X)
<1>1. st.kept \in Seq(X) /\ st.open \in Brackets /\ Append(st.kept, c) \in Seq(X)
  BY DEF ReadingStates
<1>2. Opened(st.open, c) \in Brackets
  BY <1>1, OpenedType
<1>3. QED
  BY <1>1, <1>2 DEF ReadSymbol, ReadingStates

LEMMA ReadingExists ==
  ASSUME NEW X, NEW s \in Seq(X)
  PROVE  IsReading(CHOOSE g : IsReading(g, s), s)
<1> DEFINE n == Len(s)
           D == ReadingStates(X)
           F == [p \in Nat \X D |-> IF p[1] \in 1..n THEN ReadSymbol(p[2], s[p[1]]) ELSE p[2]]
<1>1. n \in Nat /\ DOMAIN s = 1..n /\ Unread \in D
  BY DEF Unread, ReadingStates, Brackets
<1>2. F \in [Nat \X D -> D]
  BY ReadSymbolType
<1>3. PICK g \in [SUBSET (1..n) -> D] :
        \A S \in SUBSET (1..n) : g[S] = IF S = {} THEN Unread ELSE F[<<Max(S), g[S \ {Max(S)}]>>]
  <2> HIDE DEF n, D, F
  <2>1. HasFold(n, D, Unread, F)
    BY <1>1, <1>2, FoldSubsets
  <2>2. QED
    BY <2>1 DEF HasFold
<1>4. ASSUME NEW S \in SUBSET (1..n), S # {}
      PROVE  g[S] = ReadSymbol(g[S \ {Max(S)}], s[Max(S)])
  <2>1. Max(S) \in 1..n /\ Max(S) \in Nat
    <3> HIDE DEF n, D, F
    <3>1. Max(S) \in 1..n
      BY <1>1, <1>4, MaxIsGreatest
    <3>2. QED
      BY <1>1, <3>1
  <2>2. <<Max(S), g[S \ {Max(S)}]>> \in Nat \X D
    <3> HIDE DEF D
    <3>1. QED
      BY <2>1
  <2>3. F[<<Max(S), g[S \ {Max(S)}]>>] = ReadSymbol(g[S \ {Max(S)}], s[Max(S)])
    BY <2>1, <2>2
  <2> HIDE DEF F, D
  <2>4. QED
    BY <1>3, <1>4, <2>3
<1>5. g[{}] = Unread
  BY <1>3
<1> HIDE DEF F, D
<1>6. IsReading(g, s)
  BY <1>1, <1>3, <1>4, <1>5 DEF IsReading
<1>7. QED
  BY <1>6

\* What is known after the first k symbols of s.
ReadingTo(s, k) == (CHOOSE g : IsReading(g, s))[1..k]

LEMMA ReadingSteps ==
  ASSUME NEW X, NEW s \in Seq(X)
  PROVE  /\ Reading(s) = ReadingTo(s, Len(s)) /\ ReadingTo(s, 0) = Unread
         /\ \A k \in 1..Len(s) : ReadingTo(s, k) = ReadSymbol(ReadingTo(s, k - 1), s[k])
<1> DEFINE g == CHOOSE x : IsReading(x, s)
<1>1. IsReading(g, s)
  BY ReadingExists
<1>2. Len(s) \in Nat /\ DOMAIN s = 1..Len(s) /\ 1..0 = {}
  OBVIOUS
<1>3. Reading(s) = ReadingTo(s, Len(s))
  <2>1. Reading(s) = (CHOOSE x : IsReading(x, s))[DOMAIN s]
    BY DEF Reading, FoldLeft, MapThenFoldSet, IsReading
  <2>2. QED
    BY <1>2, <2>1 DEF ReadingTo
<1>4. \A k \in Nat : ReadingTo(s, k) = g[1..k]
  BY DEF ReadingTo
<1> HIDE DEF g
<1>5. g[{}] = Unread
  BY <1>1 DEF IsReading
<1>6. ASSUME NEW k \in 1..Len(s) PROVE g[1..k] = ReadSymbol(g[1..k - 1], s[k])
  <2>1. 1..k \in SUBSET (1..Len(s)) /\ k \in 1..k /\ k \in Nat \ {0}
    BY <1>2
  <2>2. Max(1..k) = k /\ (1..k) \ {k} = 1..k - 1
    BY <2>1, MaxOfInterval
  <2>3. QED
    BY <1>1, <1>2, <2>1, <2>2 DEF IsReading
<1>7. \A k \in 1..Len(s) : k \in Nat /\ k - 1 \in Nat
  BY <1>2
<1>8. QED
  BY <1>2, <1>3, <1>4, <1>5, <1>6, <1>7

LEMMA ReadingIs ==
  ASSUME NEW X, NEW s \in Seq(X), NEW r,
         r[0] = Unread, \A k \in 1..Len(s) : r[k] = ReadSymbol(r[k - 1], s[k])
  PROVE  Reading(s) = r[Len(s)]
<1> DEFINE T == {k \in 1..Len(s) : ReadingTo(s, k) = r[k]}
<1>1. Len(s) \in Nat
  OBVIOUS
<1>2. T \in SUBSET (Nat \ {0})
  OBVIOUS
<1>3. Len(s) > 0 => 1 \in T
  BY <1>1, ReadingSteps
<1>4. ASSUME NEW k \in T, k + 1 <= Len(s) PROVE k + 1 \in T
  <2>1. k + 1 \in 1..Len(s) /\ (k + 1) - 1 = k /\ ReadingTo(s, k) = r[k]
    BY <1>1, <1>4
  <2>2. ReadingTo(s, k + 1) = ReadSymbol(ReadingTo(s, k), s[k + 1])
    BY <2>1, ReadingSteps
  <2>3. QED
    BY <2>1, <2>2
<1>5. 1..Len(s) \subseteq T
  <2> HIDE DEF T
  <2>1. QED
    BY <1>1, <1>2, <1>3, <1>4, Counting
<1>6. Len(s) \in 1..Len(s) \/ Len(s) = 0
  BY <1>1
<1>7. QED
  BY <1>5, <1>6, ReadingSteps

LEMMA ReadingAppend ==
  ASSUME NEW X, NEW s \in Seq(X), NEW c \in X
  PROVE  Reading(Append(s, c)) = ReadSymbol(Reading(s), c)
<1> DEFINE n == Len(s)
           t == Append(s, c)
           r == [k \in 0..n + 1 |-> IF k = n + 1 THEN ReadSymbol(Reading(s), c) ELSE ReadingTo(s, k)]
<1>1. /\ n \in Nat /\ t \in Seq(X) /\ Len(t) = n + 1 /\ t[n + 1] = c
      /\ \A k \in 1..n : t[k] = s[k]
  OBVIOUS
<1>2. /\ Reading(s) = ReadingTo(s, n) /\ ReadingTo(s, 0) = Unread
      /\ \A k \in 1..n : ReadingTo(s, k) = ReadSymbol(ReadingTo(s, k - 1), s[k])
  BY ReadingSteps
<1> HIDE DEF t
<1>3. r[0] = Unread /\ r[n + 1] = ReadSymbol(Reading(s), c)
  BY <1>1, <1>2
<1>4. ASSUME NEW k \in 1..Len(t) PROVE r[k] = ReadSymbol(r[k - 1], t[k])
  <2>1. CASE k = n + 1
    <3>1. k - 1 = n /\ n # n + 1 /\ n \in 0..n + 1
      BY <1>1, <2>1
    <3>2. QED
      BY <1>1, <1>2, <1>3, <2>1, <3>1
  <2>2. CASE k # n + 1
    <3>1. k \in 1..n /\ k - 1 \in 0..n + 1 /\ k - 1 # n + 1 /\ k \in 0..n + 1
      BY <1>1, <2>2
    <3>2. QED
      BY <1>1, <1>2, <3>1
  <2>3. QED
    BY <2>1, <2>2
<1> HIDE DEF r
<1>5. Reading(t) = r[Len(t)]
  BY <1>1, <1>3, <1>4, ReadingIs
<1>6. QED
  BY <1>1, <1>3, <1>5 DEF t

LEMMA ReadingNothing == Reading(<<>>) = Unread
<1>1. <<>> \in Seq({}) /\ Len(<<>>) = 0
  OBVIOUS
<1>2. QED
  BY <1>1, ReadingSteps

LEMMA ReadingType ==
  ASSUME NEW X, NEW s \in Seq(X)
  PROVE  Reading(s) \in ReadingStates(X)
<1> DEFINE T == {k \in 1..Len(s) : ReadingTo(s, k) \in ReadingStates(X)}
<1>1. Len(s) \in Nat /\ Unread \in ReadingStates(X)
  BY DEF Unread, ReadingStates, Brackets
<1>2. T \in SUBSET (Nat \ {0})
  OBVIOUS
<1>3. ASSUME NEW k \in 1..Len(s), ReadingTo(s, k - 1) \in ReadingStates(X)
      PROVE  ReadingTo(s, k) \in ReadingStates(X)
  <2>1. s[k] \in X
    BY <1>1
  <2>2. QED
    BY <1>3, <2>1, ReadingSteps, ReadSymbolType
<1>4. Len(s) > 0 => 1 \in T
  BY <1>1, <1>3, ReadingSteps
<1>5. ASSUME NEW k \in T, k + 1 <= Len(s) PROVE k + 1 \in T
  <2>1. k + 1 \in 1..Len(s) /\ (k + 1) - 1 = k /\ ReadingTo(s, k) \in ReadingStates(X)
    BY <1>1, <1>5
  <2>2. QED
    BY <1>3, <2>1
<1>6. 1..Len(s) \subseteq T
  <2> HIDE DEF T
  <2>1. QED
    BY <1>1, <1>2, <1>4, <1>5, Counting
<1>7. Len(s) \in 1..Len(s) \/ Len(s) = 0
  BY <1>1
<1>8. QED
  BY <1>1, <1>6, <1>7, ReadingSteps
\* The calls on the stack, outermost first.
IsAwaited(g, s) ==
  g = [S \in SUBSET DOMAIN s |->
         IF S = {} THEN <<>> ELSE Awaits(g[S \ {Max(S)}], s[Max(S)])]

LEMMA AwaitsType ==
  ASSUME NEW open \in Brackets, NEW f
  PROVE  Awaits(open, f) \in Brackets
<1> DEFINE S == {"]", "}"}
<1>1. EndChar(f.kind) \in S
  BY DEF EndChar
<1>2. open \in Seq(S) /\ Brackets = Seq(S)
  BY Zenon DEF Brackets
<1> HIDE DEF S
<1>3. <<EndChar(f.kind)>> \o open \in Seq(S)
  BY <1>1, <1>2, Prepended
<1>4. QED
  BY <1>2, <1>3 DEF Awaits

LEMMA AwaitedExists ==
  ASSUME NEW X, NEW s \in Seq(X)
  PROVE  IsAwaited(CHOOSE g : IsAwaited(g, s), s)
<1> DEFINE n == Len(s)
           D == Brackets
           F == [p \in Nat \X D |-> IF p[1] \in 1..n THEN Awaits(p[2], s[p[1]]) ELSE p[2]]
<1>1. n \in Nat /\ DOMAIN s = 1..n /\ <<>> \in D
  BY DEF Brackets
<1>2. F \in [Nat \X D -> D]
  BY AwaitsType
<1>3. PICK g \in [SUBSET (1..n) -> D] :
        \A S \in SUBSET (1..n) : g[S] = IF S = {} THEN <<>> ELSE F[<<Max(S), g[S \ {Max(S)}]>>]
  <2> HIDE DEF n, D, F
  <2>1. HasFold(n, D, <<>>, F)
    BY <1>1, <1>2, FoldSubsets
  <2>2. QED
    BY <2>1 DEF HasFold
<1>4. ASSUME NEW S \in SUBSET (1..n), S # {}
      PROVE  g[S] = Awaits(g[S \ {Max(S)}], s[Max(S)])
  <2>1. Max(S) \in 1..n /\ Max(S) \in Nat
    <3> HIDE DEF n, D, F
    <3>1. Max(S) \in 1..n
      BY <1>1, <1>4, MaxIsGreatest
    <3>2. QED
      BY <1>1, <3>1
  <2>2. <<Max(S), g[S \ {Max(S)}]>> \in Nat \X D
    <3> HIDE DEF D
    <3>1. QED
      BY <2>1
  <2>3. F[<<Max(S), g[S \ {Max(S)}]>>] = Awaits(g[S \ {Max(S)}], s[Max(S)])
    BY <2>1, <2>2
  <2> HIDE DEF F, D
  <2>4. QED
    BY <1>3, <1>4, <2>3
<1>5. g[{}] = <<>>
  BY <1>3
<1> HIDE DEF F, D
<1>6. IsAwaited(g, s)
  BY <1>1, <1>3, <1>4, <1>5 DEF IsAwaited
<1>7. QED
  BY <1>6

\* What is awaited by the first k calls of s.
AwaitedTo(s, k) == (CHOOSE g : IsAwaited(g, s))[1..k]

LEMMA AwaitedSteps ==
  ASSUME NEW X, NEW s \in Seq(X)
  PROVE  /\ Awaited(s) = AwaitedTo(s, Len(s)) /\ AwaitedTo(s, 0) = <<>>
         /\ \A k \in 1..Len(s) : AwaitedTo(s, k) = Awaits(AwaitedTo(s, k - 1), s[k])
<1> DEFINE g == CHOOSE x : IsAwaited(x, s)
<1>1. IsAwaited(g, s)
  BY AwaitedExists
<1>2. Len(s) \in Nat /\ DOMAIN s = 1..Len(s) /\ 1..0 = {}
  OBVIOUS
<1>3. Awaited(s) = AwaitedTo(s, Len(s))
  <2>1. Awaited(s) = (CHOOSE x : IsAwaited(x, s))[DOMAIN s]
    BY DEF Awaited, FoldLeft, MapThenFoldSet, IsAwaited
  <2>2. QED
    BY <1>2, <2>1 DEF AwaitedTo
<1>4. \A k \in Nat : AwaitedTo(s, k) = g[1..k]
  BY DEF AwaitedTo
<1> HIDE DEF g
<1>5. g[{}] = <<>>
  BY <1>1 DEF IsAwaited
<1>6. ASSUME NEW k \in 1..Len(s) PROVE g[1..k] = Awaits(g[1..k - 1], s[k])
  <2>1. 1..k \in SUBSET (1..Len(s)) /\ k \in 1..k /\ k \in Nat \ {0}
    BY <1>2
  <2>2. Max(1..k) = k /\ (1..k) \ {k} = 1..k - 1
    BY <2>1, MaxOfInterval
  <2>3. QED
    BY <1>1, <1>2, <2>1, <2>2 DEF IsAwaited
<1>7. \A k \in 1..Len(s) : k \in Nat /\ k - 1 \in Nat
  BY <1>2
<1>8. QED
  BY <1>2, <1>3, <1>4, <1>5, <1>6, <1>7

LEMMA AwaitedIs ==
  ASSUME NEW X, NEW s \in Seq(X), NEW r,
         r[0] = <<>>, \A k \in 1..Len(s) : r[k] = Awaits(r[k - 1], s[k])
  PROVE  Awaited(s) = r[Len(s)]
<1> DEFINE T == {k \in 1..Len(s) : AwaitedTo(s, k) = r[k]}
<1>1. Len(s) \in Nat
  OBVIOUS
<1>2. T \in SUBSET (Nat \ {0})
  OBVIOUS
<1>3. Len(s) > 0 => 1 \in T
  BY <1>1, AwaitedSteps
<1>4. ASSUME NEW k \in T, k + 1 <= Len(s) PROVE k + 1 \in T
  <2>1. k + 1 \in 1..Len(s) /\ (k + 1) - 1 = k /\ AwaitedTo(s, k) = r[k]
    BY <1>1, <1>4
  <2>2. AwaitedTo(s, k + 1) = Awaits(AwaitedTo(s, k), s[k + 1])
    BY <2>1, AwaitedSteps
  <2>3. QED
    BY <2>1, <2>2
<1>5. 1..Len(s) \subseteq T
  <2> HIDE DEF T
  <2>1. QED
    BY <1>1, <1>2, <1>3, <1>4, Counting
<1>6. Len(s) \in 1..Len(s) \/ Len(s) = 0
  BY <1>1
<1>7. QED
  BY <1>5, <1>6, AwaitedSteps

LEMMA AwaitedAppend ==
  ASSUME NEW X, NEW s \in Seq(X), NEW c \in X
  PROVE  Awaited(Append(s, c)) = Awaits(Awaited(s), c)
<1> DEFINE n == Len(s)
           t == Append(s, c)
           r == [k \in 0..n + 1 |-> IF k = n + 1 THEN Awaits(Awaited(s), c) ELSE AwaitedTo(s, k)]
<1>1. /\ n \in Nat /\ t \in Seq(X) /\ Len(t) = n + 1 /\ t[n + 1] = c
      /\ \A k \in 1..n : t[k] = s[k]
  OBVIOUS
<1>2. /\ Awaited(s) = AwaitedTo(s, n) /\ AwaitedTo(s, 0) = <<>>
      /\ \A k \in 1..n : AwaitedTo(s, k) = Awaits(AwaitedTo(s, k - 1), s[k])
  BY AwaitedSteps
<1> HIDE DEF t
<1>3. r[0] = <<>> /\ r[n + 1] = Awaits(Awaited(s), c)
  BY <1>1, <1>2
<1>4. ASSUME NEW k \in 1..Len(t) PROVE r[k] = Awaits(r[k - 1], t[k])
  <2>1. CASE k = n + 1
    <3>1. k - 1 = n /\ n # n + 1 /\ n \in 0..n + 1
      BY <1>1, <2>1
    <3>2. QED
      BY <1>1, <1>2, <1>3, <2>1, <3>1
  <2>2. CASE k # n + 1
    <3>1. k \in 1..n /\ k - 1 \in 0..n + 1 /\ k - 1 # n + 1 /\ k \in 0..n + 1
      BY <1>1, <2>2
    <3>2. QED
      BY <1>1, <1>2, <3>1
  <2>3. QED
    BY <2>1, <2>2
<1> HIDE DEF r
<1>5. Awaited(t) = r[Len(t)]
  BY <1>1, <1>3, <1>4, AwaitedIs
<1>6. QED
  BY <1>1, <1>3, <1>5 DEF t

LEMMA AwaitedNothing == Awaited(<<>>) = <<>>
<1>1. <<>> \in Seq({}) /\ Len(<<>>) = 0
  OBVIOUS
<1>2. QED
  BY <1>1, AwaitedSteps

LEMMA AwaitedType ==
  ASSUME NEW X, NEW s \in Seq(X)
  PROVE  Awaited(s) \in Brackets
<1> DEFINE T == {k \in 1..Len(s) : AwaitedTo(s, k) \in Brackets}
<1>1. Len(s) \in Nat /\ <<>> \in Brackets
  BY DEF Brackets
<1>2. T \in SUBSET (Nat \ {0})
  OBVIOUS
<1>3. ASSUME NEW k \in 1..Len(s), AwaitedTo(s, k - 1) \in Brackets
      PROVE  AwaitedTo(s, k) \in Brackets
  <2>1. s[k] \in X
    BY <1>1
  <2>2. QED
    BY <1>3, <2>1, AwaitedSteps, AwaitsType
<1>4. Len(s) > 0 => 1 \in T
  BY <1>1, <1>3, AwaitedSteps
<1>5. ASSUME NEW k \in T, k + 1 <= Len(s) PROVE k + 1 \in T
  <2>1. k + 1 \in 1..Len(s) /\ (k + 1) - 1 = k /\ AwaitedTo(s, k) \in Brackets
    BY <1>1, <1>5
  <2>2. QED
    BY <1>3, <2>1
<1>6. 1..Len(s) \subseteq T
  <2> HIDE DEF T
  <2>1. QED
    BY <1>1, <1>2, <1>4, <1>5, Counting
<1>7. Len(s) \in 1..Len(s) \/ Len(s) = 0
  BY <1>1
<1>8. QED
  BY <1>1, <1>6, <1>7, AwaitedSteps

-----------------------------------------------------------------------------
(***************************************************************************)
(* What the call on top of the stack knows of the document: how the last   *)
(* symbol has been read, as far as brackets and quotes go.  R is the       *)
(* reading of the document and o the brackets awaited.                     *)
(***************************************************************************)
Plain(R, o) == ~R.quoted /\ ~R.escape /\ R.open = o
Begun(R, o, c) == (R.quoted <=> c = Quote) /\ ~R.escape /\ R.open = Opened(o, c)
Ended(R, o, c) == Plain(R, Opened(o, c))
LabelRead(R) == R.kept # <<>> /\ Last(R.kept) \in {Quote, ":"}

\* A literal of other symbols than these is rejected when it ends, so that
\* brackets and quotes in it do no harm; so is one with a NUL in it, which can
\* only stand behind a backslash or at its beginning.
Plausible == NumberStart \cup {"e", "E", "null", "true", "false"}
Foul(bag) == \E i \in DOMAIN bag : bag[i] \notin Plausible
NulsEscaped(bag) == \A i \in DOMAIN bag : i > 1 /\ bag[i] = "NUL" => bag[i - 1] = Escape

ReadBy(f, R, o) ==
  /\ f.fn = "JParser" => Begun(R, o, f.chr)
  /\ f.fn = "parse_collection" => Plain(R, o)
  /\ f.fn = "Object_ReadMember" => Plain(R, o) /\ LabelRead(R)
  /\ f.fn = "JReadString" =>
       IF f.first = Quote THEN R.quoted /\ (R.escape <=> f.escape) /\ R.open = o
       ELSE f.bag # <<>> /\ NulsEscaped(f.bag) /\ (Foul(f.bag) \/ Plain(R, o))

Opening(c) == c \in {"[", "{"}

\* r is a success: what its caller, on top of st, takes over.
Returns(r, st, R, o, text) ==
  /\ ~Opening(r.end)
  /\ IF r.fn = "JReadString"
     THEN /\ st # <<>>
          /\ IF Last(st).fn = "JParser" /\ Last(st).chr # Quote
             THEN Literal(text[r.str]) \in Types => Ended(R, o, r.end)
             ELSE Ended(R, o, r.end)
          /\ Last(st).fn = "Object_ReadMember" => LabelRead(R) /\ r.end = Quote
     ELSE Ended(R, o, r.end) /\ (r.fn = "parse_collection" => r.end = "NUL")

Told == MessageSet \/ FailedBehindLabel

\* Which call makes which.
MayCall(f, g) ==
  CASE g.fn = "JParser" -> f.fn \in {"parse_collection", "Object_ReadMember"}
    [] g.fn = "parse_collection" -> f.fn = "JParser"
    [] g.fn = "Object_ReadMember" -> f.fn = "parse_collection"
    [] OTHER -> IF f.fn = "JParser" THEN g.first = f.chr
                ELSE f.fn = "Object_ReadMember" /\ g.first = Quote
Calls(st) ==
  /\ st # <<>> => st[1].fn = "JParser"
  /\ \A i \in 2..Len(st) : MayCall(st[i - 1], st[i])

NestInv ==
  /\ Calls(stack)
  /\ phase = "parse" =>
       IF ret.fn = "none" THEN stack # <<>> /\ ReadBy(Last(stack), Reading(doc), Awaited(stack))
       ELSE IF ret.ok THEN Returns(ret, stack, Reading(doc), Awaited(stack), mem.text)
       ELSE Told
  /\ phase = "rejected" => Told
  /\ phase # "parse" /\ phase # "rejected" => Plain(Reading(doc), <<>>)

-----------------------------------------------------------------------------
LEMMA OpenedSame ==
  ASSUME NEW o, NEW c, c \notin {"[", "{", "]", "}"}
  PROVE  Opened(o, c) = o
  BY DEF Opened

LEMMA OpenedClosed ==
  ASSUME NEW o \in Brackets, NEW x \in {"]", "}"}, NEW c \in {"]", "}"}
  PROVE  Opened(<<x>> \o o, c) = o
<1>1. <<x>> \o o # <<>> /\ Tail(<<x>> \o o) = o
  <2> DEFINE S == {"]", "}"}
  <2>1. o \in Seq(S) /\ x \in S
    BY Zenon DEF Brackets
  <2> HIDE DEF S
  <2>2. QED
    BY <2>1, Prepended
<1>2. QED
  BY <1>1 DEF Opened

LEMMA PlainRead ==
  ASSUME NEW X, NEW R \in ReadingStates(X), NEW c \in X, NEW o, Plain(R, o)
  PROVE  /\ Begun(ReadSymbol(R, c), o, c)
         /\ c # Quote => Ended(ReadSymbol(R, c), o, c)
         /\ LabelRead(R) /\ c \in {":", " "} => LabelRead(ReadSymbol(R, c))
         /\ c = Quote => LabelRead(ReadSymbol(R, c))
<1> DEFINE Q == ReadSymbol(R, c)
<1>1. /\ R.quoted = FALSE /\ R.escape = FALSE /\ R.open = o /\ R.kept \in Seq(X)
      /\ R.open \in Brackets
  BY DEF Plain, ReadingStates
<1>2. CASE Meaningless(R.kept, c)
  <2>1. Q = R /\ c \in {" ", ":"}
    BY <1>1, <1>2 DEF ReadSymbol, Meaningless
  <2>2. Opened(o, c) = o
    BY <2>1, OpenedSame
  <2>3. c # Quote
    BY <2>1 DEF Quote
  <2>4. QED
    BY <1>1, <2>1, <2>2, <2>3 DEF Begun, Ended, Plain
<1>3. CASE ~Meaningless(R.kept, c)
  <2>1. Q = [R EXCEPT !.quoted = (c = "quote"), !.kept = Append(@, c), !.open = Opened(@, c)]
    BY <1>1, <1>3 DEF ReadSymbol
  <2>2. /\ Q.quoted = (c = Quote) /\ Q.escape = FALSE /\ Q.open = Opened(o, c)
        /\ Q.kept = Append(R.kept, c)
    BY <1>1, <2>1 DEF ReadingStates, Quote
  <2>3. Q.kept \in Seq(X) /\ Q.kept # <<>> /\ Last(Q.kept) = c
    <3>1. Append(R.kept, c) \in Seq(X) /\ Append(R.kept, c) # <<>>
          /\ Len(Append(R.kept, c)) = Len(R.kept) + 1 /\ Append(R.kept, c)[Len(R.kept) + 1] = c
      BY <1>1, AppendProperties
    <3>2. QED
      BY <2>2, <3>1 DEF Last
  <2>4. c # " "
    BY <1>3 DEF Meaningless
  <2> HIDE DEF Q
  <2>5. Begun(Q, o, c) /\ (c # Quote => Ended(Q, o, c))
    BY <2>2 DEF Begun, Ended, Plain
  <2>6. c \in {":", Quote} => LabelRead(Q)
    BY <2>3 DEF LabelRead
  <2>7. QED
    BY <2>4, <2>5, <2>6 DEF Q
<1>4. QED
  BY <1>2, <1>3

LEMMA QuotedRead ==
  ASSUME NEW X, NEW R \in ReadingStates(X), NEW c \in X, NEW o, R.quoted, R.open = o
  PROVE  LET Q == ReadSymbol(R, c) IN
         /\ R.escape => Q.quoted /\ ~Q.escape /\ Q.open = o
         /\ ~R.escape /\ c # Quote => Q.quoted /\ (Q.escape <=> c = Escape) /\ Q.open = o
         /\ ~R.escape /\ c = Quote => Plain(Q, o) /\ LabelRead(Q)
<1> DEFINE Q == ReadSymbol(R, c)
<1>1. R.quoted = TRUE /\ R.open = o /\ R.kept \in Seq(X)
  BY DEF ReadingStates
<1>2. CASE R.escape
  <2>1. Q = [R EXCEPT !.escape = FALSE, !.kept = Append(@, c)]
    BY <1>2 DEF ReadSymbol
  <2>2. QED
    BY <1>1, <1>2, <2>1 DEF ReadingStates
<1>3. CASE ~R.escape
  <2>1. Q = [R EXCEPT !.escape = (c = "backslash"), !.quoted = (c # "quote"), !.kept = Append(@, c)]
    BY <1>1, <1>3 DEF ReadSymbol
  <2>2. /\ Q.quoted = (c # Quote) /\ Q.escape = (c = Escape) /\ Q.open = o
        /\ Q.kept = Append(R.kept, c)
    BY <1>1, <2>1 DEF ReadingStates, Quote, Escape
  <2>3. Q.kept \in Seq(X) /\ Q.kept # <<>> /\ Last(Q.kept) = c
    <3>1. Append(R.kept, c) \in Seq(X) /\ Append(R.kept, c) # <<>>
          /\ Len(Append(R.kept, c)) = Len(R.kept) + 1 /\ Append(R.kept, c)[Len(R.kept) + 1] = c
      BY <1>1, AppendProperties
    <3>2. QED
      BY <2>2, <3>1 DEF Last
  <2> HIDE DEF Q
  <2>4. c = Quote => Plain(Q, o) /\ LabelRead(Q)
    BY <2>2, <2>3 DEF Plain, LabelRead, Quote, Escape
  <2>5. QED
    BY <1>3, <2>2, <2>4 DEF Q
<1>4. QED
  BY <1>2, <1>3

LEMMA SymbolsApart ==
  /\ {"[", "{", "]", "}", ",", ":", " ", "NUL", Quote, Escape} \cap Plausible = {}
  /\ Quote \notin {"[", "{", "]", "}", ",", ":", " ", "NUL", Escape}
  /\ Escape \notin {"[", "{", "]", "}", ",", ":", " ", "NUL"}
  /\ NumberSymbols \subseteq Plausible
  BY DEF Plausible, NumberStart, Digits, NumberSymbols, Quote, Escape

\* A literal of other symbols than plausible ones is no value.
LEMMA FoulRejected ==
  ASSUME NEW bag \in Texts, bag # <<>>, NulsEscaped(bag), Foul(bag)
  PROVE  Literal(CString(bag)) \notin Types
<1> DEFINE t == CString(bag)
<1>1. t \in Seq(Symbol)
  BY CStringType DEF Texts
<1>2. Len(bag) \in Nat /\ DOMAIN bag = 1..Len(bag) /\ bag \in Seq(Symbol)
  BY DEF Texts
<1>3. t = <<>> \/ \E i \in DOMAIN t : t[i] \notin Plausible
  <2>1. CASE "NUL" \notin ToSet(bag)
    <3>1. t = bag
      BY <2>1 DEF CString
    <3>2. QED
      BY <3>1 DEF Foul
  <2>2. CASE "NUL" \in ToSet(bag)
    <3> DEFINE I == {i \in DOMAIN bag : bag[i] = "NUL"}
               m == Min(I)
    <3>1. I \in SUBSET Nat /\ I # {}
      BY <1>2, <2>2 DEF ToSet
    <3>2. m \in I
      <4> HIDE DEF I
      <4>1. QED
        BY <3>1, MinIsLeast
    <3>3. t = SubSeq(bag, 1, m - 1) /\ m \in 1..Len(bag) /\ bag[m] = "NUL"
      BY <1>2, <2>2, <3>2 DEF CString
    <3> HIDE DEF I, m
    <3>4. CASE m = 1
      BY <1>2, <3>3, <3>4
    <3>5. CASE m > 1
      <4>1. m - 1 \in 1..m - 1 /\ m - 1 \in Nat /\ m - 1 <= Len(bag)
        BY <1>2, <3>3, <3>5
      <4>2. bag[m - 1] = Escape
        BY <1>2, <3>3, <3>5 DEF NulsEscaped
      <4>3. \A x \in 1..m - 1 : bag[x] \in Symbol
        BY <1>2, <3>3
      <4>4. DOMAIN SubSeq(bag, 1, m - 1) = 1..m - 1 /\ SubSeq(bag, 1, m - 1)[m - 1] = bag[m - 1]
        <5>1. Len(SubSeq(bag, 1, m - 1)) = m - 1 /\ SubSeq(bag, 1, m - 1) \in Seq(Symbol)
              /\ \A x \in 1..(m - 1) - 1 + 1 : SubSeq(bag, 1, m - 1)[x] = bag[1 + x - 1]
          BY <1>2, <4>1, <4>3, SubSeqProperties
        <5>2. m - 1 \in 1..(m - 1) - 1 + 1 /\ 1 + (m - 1) - 1 = m - 1
          BY <4>1
        <5>3. QED
          BY <4>1, <5>1, <5>2
      <4>5. QED
        BY <3>3, <4>1, <4>2, <4>4, SymbolsApart
    <3>6. QED
      BY <1>2, <3>3, <3>4, <3>5
  <2>3. QED
    BY <2>1, <2>2
<1> HIDE DEF t
<1>4. ~IsJsonNumber(t)
  <2> SUFFICES ASSUME IsJsonNumber(t) PROVE FALSE
    OBVIOUS
  <2>1. t # <<>> /\ \A x \in DOMAIN t : t[x] \in NumberSymbols
    BY <1>1, NumberMadeOf
  <2>2. QED
    BY <1>3, <2>1, SymbolsApart
<1>5. t \notin {<<"null">>, <<"true">>, <<"false">>}
  <2>1. ASSUME NEW w \in {"null", "true", "false"}, t = <<w>> PROVE FALSE
    <3>1. \A i \in DOMAIN t : t[i] = w
      BY <2>1
    <3>2. t # <<>> /\ w \in Plausible
      BY <2>1 DEF Plausible
    <3>3. QED
      BY <1>3, <3>1, <3>2
  <2>2. QED
    BY <2>1
<1>6. Literal(t) \in {"invalid number", "unquoted values must be keywords or numbers"}
  BY <1>4, <1>5 DEF Literal
<1>7. QED
  BY <1>6 DEF t, Types

-----------------------------------------------------------------------------
LEMMA CallsPush ==
  ASSUME NEW st \in Seq(Frames), Calls(st), NEW f \in Frames,
         IF st = <<>> THEN f.fn = "JParser" ELSE MayCall(Last(st), f)
  PROVE  Calls(Append(st, f))
<1> DEFINE n == Len(st)
           t == Append(st, f)
<1>1. /\ n \in Nat /\ Len(t) = n + 1 /\ t[n + 1] = f /\ \A k \in 1..n : t[k] = st[k]
  OBVIOUS
<1>2. st # <<>> => n >= 1 /\ Last(st) = st[n] /\ st[1].fn = "JParser"
  <2>1. st # <<>> => n \in Nat /\ n > 0 /\ Last(st) = st[n]
    BY FrontLast
  <2>2. st # <<>> => st[1].fn = "JParser"
    BY DEF Calls
  <2> HIDE DEF n
  <2>3. QED
    BY <2>1, <2>2
<1>3. st = <<>> => n = 0
  OBVIOUS
<1>4. \A k \in 2..n : MayCall(st[k - 1], st[k])
  BY DEF Calls
<1> HIDE DEF t, n
<1>5. t[1].fn = "JParser"
  BY <1>1, <1>2, <1>3
<1>6. ASSUME NEW k \in 2..n + 1 PROVE MayCall(t[k - 1], t[k])
  <2>1. CASE k = n + 1
    <3>1. n \in 1..n /\ k - 1 = n /\ st # <<>>
      BY <1>1, <1>3, <2>1
    <3>2. QED
      BY <1>1, <1>2, <2>1, <3>1
  <2>2. CASE k # n + 1
    <3>1. k \in 2..n /\ k \in 1..n /\ k - 1 \in 1..n
      BY <1>1, <2>2
    <3>2. QED
      BY <1>1, <1>4, <3>1
  <2>3. QED
    BY <2>1, <2>2
<1>7. QED
  BY <1>1, <1>5, <1>6 DEF Calls, t

LEMMA CallsPop ==
  ASSUME NEW st \in Seq(Frames), Calls(st), st # <<>>
  PROVE  /\ Front(st) \in Seq(Frames) /\ Calls(Front(st))
         /\ IF Front(st) = <<>> THEN Last(st).fn = "JParser"
            ELSE MayCall(Last(Front(st)), Last(st))
<1> DEFINE n == Len(st)
           t == Front(st)
<1>1. /\ n \in Nat /\ n > 0 /\ t \in Seq(Frames) /\ Len(t) = n - 1
      /\ \A k \in 1..n - 1 : t[k] = st[k]
      /\ Last(st) = st[n]
  BY FrontLast
<1>2. st[1].fn = "JParser" /\ \A k \in 2..n : MayCall(st[k - 1], st[k])
  BY DEF Calls
<1> HIDE DEF t, n
<1>3. Calls(t)
  <2>1. t # <<>> => t[1].fn = "JParser"
    BY <1>1, <1>2
  <2>2. \A k \in 2..Len(t) : k \in 2..n /\ k \in 1..n - 1 /\ k - 1 \in 1..n - 1
    BY <1>1
  <2>3. QED
    BY <1>1, <1>2, <2>1, <2>2 DEF Calls
<1>4. CASE t = <<>>
  <2>1. n = 1
    BY <1>1, <1>4
  <2>2. QED
    BY <1>1, <1>2, <1>3, <1>4, <2>1 DEF t
<1>5. CASE t # <<>>
  <2>1. Len(t) >= 1 /\ Last(t) = t[Len(t)]
    BY <1>1, <1>5, FrontLast
  <2>2. n \in 2..n /\ n - 1 \in 1..n - 1 /\ Last(t) = st[n - 1]
    BY <1>1, <2>1
  <2>3. MayCall(st[n - 1], st[n])
    BY <1>2, <2>2
  <2>4. QED
    BY <1>1, <1>3, <1>5, <2>2, <2>3 DEF t
<1>6. QED
  BY <1>4, <1>5

LEMMA AwaitedPush ==
  ASSUME NEW st \in Seq(Frames), NEW f \in Frames
  PROVE  /\ f.fn # "parse_collection" => Awaited(Append(st, f)) = Awaited(st)
         /\ f.fn = "parse_collection" => Awaited(Append(st, f)) = <<EndChar(f.kind)>> \o Awaited(st)
  BY AwaitedAppend DEF Awaits

LEMMA AwaitedPop ==
  ASSUME NEW st \in Seq(Frames), st # <<>>
  PROVE  /\ Awaited(st) \in Brackets /\ Awaited(Front(st)) \in Brackets
         /\ Last(st).fn # "parse_collection" => Awaited(st) = Awaited(Front(st))
         /\ Last(st).fn = "parse_collection" =>
              Awaited(st) = <<EndChar(Last(st).kind)>> \o Awaited(Front(st))
<1>1. Front(st) \in Seq(Frames) /\ Last(st) \in Frames
  BY FrontLast
<1>2. Append(Front(st), Last(st)) = st
  <2> DEFINE t == Append(Front(st), Last(st))
             n == Len(st)
  <2>1. n \in Nat /\ n > 0 /\ Len(Front(st)) = n - 1 /\ Last(st) = st[n]
        /\ \A i \in 1..n - 1 : Front(st)[i] = st[i]
    BY FrontLast
  <2>2. t \in Seq(Frames) /\ Len(t) = Len(Front(st)) + 1 /\ t[Len(Front(st)) + 1] = Last(st)
        /\ \A i \in 1..Len(Front(st)) : t[i] = Front(st)[i]
    BY <1>1, AppendProperties
  <2> HIDE DEF t, n
  <2>3. Len(t) = n /\ \A i \in 1..n : t[i] = st[i]
    <3>1. Len(t) = n /\ t[n] = st[n] /\ \A i \in 1..n - 1 : t[i] = st[i]
      BY <2>1, <2>2
    <3>2. QED
      BY <2>1, <3>1
  <2>4. t = st
    BY <2>2, <2>3, SeqEqual DEF n
  <2>5. QED
    BY <2>4 DEF t
<1>3. Awaited(st) \in Brackets /\ Awaited(Front(st)) \in Brackets
  BY <1>1, AwaitedType
<1>4. QED
  BY <1>1, <1>2, <1>3, AwaitedPush

\* The innermost call changes, but not its kind.
Alike(f, g) ==
  /\ f.fn = g.fn
  /\ f.fn = "parse_collection" => f.kind = g.kind
  /\ f.fn = "JReadString" => f.first = g.first

LEMMA NestStay ==
  ASSUME NEW st \in Seq(Frames), Calls(st), st # <<>>, NEW f \in Frames, Alike(f, Last(st))
  PROVE  /\ Append(Front(st), f) \in Seq(Frames) /\ Append(Front(st), f) # <<>>
         /\ Last(Append(Front(st), f)) = f
         /\ Calls(Append(Front(st), f)) /\ Awaited(Append(Front(st), f)) = Awaited(st)
<1>1. Front(st) \in Seq(Frames) /\ Last(st) \in Frames
  BY FrontLast
<1>2. /\ Append(Front(st), f) \in Seq(Frames) /\ Append(Front(st), f) # <<>>
      /\ Last(Append(Front(st), f)) = f
  BY <1>1, LastAppended
<1>3. Calls(Front(st))
      /\ IF Front(st) = <<>> THEN Last(st).fn = "JParser" ELSE MayCall(Last(Front(st)), Last(st))
  BY CallsPop
<1>4. Front(st) # <<>> => MayCall(Last(Front(st)), f)
  BY <1>3 DEF Alike, MayCall, Frames
<1>5. Calls(Append(Front(st), f))
  BY <1>1, <1>3, <1>4, CallsPush DEF Alike
<1>6. Awaited(Append(Front(st), f)) = Awaited(st)
  BY <1>1, AwaitedPush, AwaitedPop DEF Alike
<1>7. QED
  BY <1>2, <1>5, <1>6

-----------------------------------------------------------------------------
(***************************************************************************)
(* What a string's bag says of the characters in it.                       *)
(***************************************************************************)
LEMMA BagGrows ==
  ASSUME NEW bag \in Texts, NEW c \in Symbol
  PROVE  /\ Append(bag, c) \in Texts /\ Append(bag, c) # <<>>
         /\ Len(Append(bag, c)) = Len(bag) + 1 /\ Append(bag, c)[Len(bag) + 1] = c
         /\ Foul(bag) \/ c \notin Plausible => Foul(Append(bag, c))
         /\ NulsEscaped(bag) /\ (c = "NUL" /\ bag # <<>> => bag[Len(bag)] = Escape)
              => NulsEscaped(Append(bag, c))
<1> DEFINE t == Append(bag, c)
           n == Len(bag)
<1>1. /\ n \in Nat /\ DOMAIN bag = 1..n /\ (bag # <<>> <=> n >= 1)
      /\ t \in Texts /\ t # <<>> /\ Len(t) = n + 1 /\ DOMAIN t = 1..n + 1 /\ t[n + 1] = c
      /\ \A i \in 1..n : t[i] = bag[i]
  BY DEF Texts
<1> HIDE DEF t, n
<1>2. Foul(bag) \/ c \notin Plausible => Foul(t)
  <2>1. n + 1 \in DOMAIN t /\ \A i \in DOMAIN bag : i \in DOMAIN t
    BY <1>1
  <2>2. QED
    BY <1>1, <2>1 DEF Foul
<1>3. ASSUME NulsEscaped(bag), c = "NUL" /\ bag # <<>> => bag[n] = Escape
      PROVE  NulsEscaped(t)
  <2> SUFFICES ASSUME NEW i \in 1..n + 1, i > 1, t[i] = "NUL" PROVE t[i - 1] = Escape
    BY <1>1 DEF NulsEscaped
  <2>1. CASE i = n + 1
    <3>1. n >= 1 /\ i - 1 = n /\ n \in 1..n
      BY <1>1, <2>1
    <3>2. QED
      BY <1>1, <1>3, <2>1, <3>1
  <2>2. CASE i # n + 1
    <3>1. i \in 1..n /\ i - 1 \in 1..n
      BY <1>1, <2>2
    <3>2. QED
      BY <1>1, <1>3, <3>1 DEF NulsEscaped
  <2>3. QED
    BY <2>1, <2>2
<1>4. QED
  BY <1>1, <1>2, <1>3 DEF t, n

LEMMA AddedAll ==
  ASSUME ~MallocMayFail, NEW t, NEW c, NEW b \in Added(t, c)
  PROVE  b = Append(t, c)
  BY DEF Added

-----------------------------------------------------------------------------
(***************************************************************************)
(* What holds when a call is on top of the stack.                          *)
(***************************************************************************)
LEMMA NestTop ==
  ASSUME ParserInv, NestInv, NEW fn, In(fn)
  PROVE  /\ phase = "parse" /\ stack # <<>> /\ stack \in Seq(Frames) /\ Top = Last(stack)
         /\ Top \in Frames /\ Top.fn = fn /\ Front(stack) \in Seq(Frames)
         /\ Calls(stack) /\ doc \in Seq(Alphabet)
         /\ Reading(doc) \in ReadingStates(Alphabet) /\ Awaited(stack) \in Brackets
         /\ ret = Running => ReadBy(Top, Reading(doc), Awaited(stack))
         /\ ret.fn # "none" /\ ret.ok =>
              Returns(ret, stack, Reading(doc), Awaited(stack), mem.text)
         /\ ret.fn # "none" /\ ~ret.ok => Told
<1>1. phase = "parse" /\ stack # <<>> /\ Top.fn = fn /\ Top = Last(stack)
  BY DEF In, Top
<1>2. stack \in Seq(Frames) /\ Top \in Frames /\ Front(stack) \in Seq(Frames)
  BY <1>1, ParserInvStack
<1>3. doc \in Seq(Alphabet)
  BY DEF ParserInv, Shape
<1>4. Reading(doc) \in ReadingStates(Alphabet)
  BY <1>3, ReadingType
<1>5. Awaited(stack) \in Brackets
  BY <1>2, AwaitedType
<1>6. Running.fn = "none"
  BY DEF Running, Returned
<1>7. QED
  BY <1>1, <1>2, <1>3, <1>4, <1>5, <1>6 DEF NestInv

LEMMA NestReads ==
  ASSUME doc \in Seq(Alphabet), NEW c \in Input, Read(c)
  PROVE  /\ c \in Alphabet => Reading(doc') = ReadSymbol(Reading(doc), c)
         /\ c \in {EOF, ERR} => doc' = doc /\ Reading(doc') = Reading(doc)
         /\ c = ERR => io' = "error"
<1>1. c \in Alphabet => doc' = Append(doc, c)
  BY TextAssumption DEF Read
<1>2. c \in {EOF, ERR} => doc' = doc
  BY TextAssumption DEF Read
<1>3. c = ERR => io' = "error"
  BY TextAssumption DEF Read, EOF, ERR
<1>4. QED
  BY <1>1, <1>2, <1>3, ReadingAppend

LEMMA ToldReported == ASSUME NEW message, message # "none", Report(message) PROVE Told'
  BY DEF Report, Told, MessageSet

LEMMA ToldKept == ASSUME Told, UNCHANGED <<doc, io, pe>> PROVE Told'
  BY DEF Told, MessageSet, FailedBehindLabel

\* The innermost call goes on.
LEMMA StayNest ==
  ASSUME ParserInv, NestInv, NEW fn, In(fn), phase' = phase,
         NEW f \in Frames, Alike(f, Top), Stay(f), ReadBy(f, Reading(doc'), Awaited(stack))
  PROVE  NestInv'
<1>1. /\ stack \in Seq(Frames) /\ Calls(stack) /\ stack # <<>> /\ Top = Last(stack)
      /\ phase' = "parse" /\ phase' # "rejected"
  BY NestTop
<1>2. /\ Append(Front(stack), f) # <<>> /\ Last(Append(Front(stack), f)) = f
      /\ Calls(Append(Front(stack), f)) /\ Awaited(Append(Front(stack), f)) = Awaited(stack)
  BY <1>1, NestStay
<1>3. stack' = Append(Front(stack), f) /\ ret'.fn = "none"
  BY DEF Stay, Running, Returned
<1>4. QED
  BY <1>1, <1>2, <1>3 DEF NestInv

\* Nothing happens to the calls.
LEMMA SkipNest ==
  ASSUME ParserInv, NestInv, NEW fn, Executing(fn), phase' = phase,
         UNCHANGED <<stack, ret>>, ReadBy(Top, Reading(doc'), Awaited(stack))
  PROVE  NestInv'
<1>1. /\ Calls(stack) /\ stack # <<>> /\ Top = Last(stack)
      /\ phase' = "parse" /\ phase' # "rejected" /\ ret = Running
  BY NestTop DEF Executing
<1>2. ret'.fn = "none"
  BY <1>1 DEF Running, Returned
<1>3. QED
  BY <1>1, <1>2 DEF NestInv

\* A call is made.
LEMMA CallNest ==
  ASSUME phase' = "parse", NEW st \in Seq(Frames), Calls(st), st # <<>>,
         NEW f \in Frames, MayCall(Last(st), f), stack' = Append(st, f), ret' = Running,
         ReadBy(f, Reading(doc'), Awaited(Append(st, f)))
  PROVE  NestInv'
<1>1. Calls(Append(st, f)) /\ Append(st, f) # <<>> /\ Last(Append(st, f)) = f
  BY CallsPush, LastAppended
<1>2. ret'.fn = "none"
  BY DEF Running, Returned
<1>3. QED
  BY <1>1, <1>2 DEF NestInv

\* The innermost call returns.
LEMMA ReturnNest ==
  ASSUME ParserInv, NestInv, NEW fn, In(fn), phase' = phase,
         NEW r, Return(r), r.fn # "none",
         IF r.ok THEN Returns(r, Front(stack), Reading(doc'), Awaited(Front(stack)), mem'.text)
         ELSE Told'
  PROVE  NestInv'
<1>1. stack \in Seq(Frames) /\ Calls(stack) /\ stack # <<>> /\ phase' = "parse"
  BY NestTop
<1>2. Calls(Front(stack))
  BY <1>1, CallsPop
<1>3. QED
  BY <1>1, <1>2 DEF NestInv, Return

LEMMA FailNest ==
  ASSUME ParserInv, NestInv, NEW fn, In(fn), phase' = phase,
         NEW g, g # "none", Fail(g), Told'
  PROVE  NestInv'
<1>1. Failed(g).fn # "none" /\ ~Failed(g).ok /\ Return(Failed(g))
  BY DEF Failed, Returned, Fail
<1>2. QED
  BY <1>1, ReturnNest

-----------------------------------------------------------------------------
LEMMA StringFrameAlike ==
  ASSUME NEW f \in Frames, f.fn = "JReadString"
  PROVE  /\ f.bag \in Texts /\ f.first \in Symbol /\ f.escape \in BOOLEAN
         /\ \A e \in BOOLEAN :
              LET g == [f EXCEPT !.escape = e] IN
              /\ g \in Frames /\ Alike(g, f) /\ g.fn = "JReadString" /\ g.first = f.first
              /\ g.bag = f.bag /\ g.escape = e
         /\ \A b \in Texts :
              LET g == [f EXCEPT !.bag = b] IN
              /\ g \in Frames /\ Alike(g, f) /\ g.fn = "JReadString" /\ g.first = f.first
              /\ g.bag = b /\ g.escape = f.escape
         /\ \A b \in Texts, e \in BOOLEAN :
              LET g == [f EXCEPT !.bag = b, !.escape = e] IN
              /\ g \in Frames /\ Alike(g, f) /\ g.fn = "JReadString" /\ g.first = f.first
              /\ g.bag = b /\ g.escape = e
  BY DEF Frames, Texts, Alike

\* The string has been read.
LEMMA StringDoneNest ==
  ASSUME ParserInv, NestInv, Executing("JReadString"), NEW end, StringDone(end), phase' = phase,
         ~Opening(end),
         IF Top.first = Quote
         THEN end = Quote /\ Plain(Reading(doc'), Awaited(stack)) /\ LabelRead(Reading(doc'))
         ELSE Foul(Top.bag) \/ Ended(Reading(doc'), Awaited(stack), end)
  PROVE  NestInv'
<1> DEFINE st == Front(stack)
           R == Reading(doc')
           o == Awaited(stack)
           s == FreeStr(mem)
           r == Returned("JReadString", TRUE, NULL, s, end)
<1>1. In("JReadString") /\ ret = Running
  BY DEF Executing
<1>2. /\ stack # <<>> /\ stack \in Seq(Frames) /\ Top = Last(stack) /\ Top \in Frames
      /\ Top.fn = "JReadString" /\ Calls(stack) /\ ReadBy(Top, Reading(doc), o)
      /\ Top.bag \in Texts
  <2>1. /\ stack # <<>> /\ stack \in Seq(Frames) /\ Top = Last(stack) /\ Top \in Frames
        /\ Top.fn = "JReadString" /\ Calls(stack)
        /\ ReadBy(Top, Reading(doc), Awaited(stack))
    BY <1>1, NestTop
  <2>2. Top.bag \in Texts
    BY <2>1, StringFrameAlike
  <2>3. QED
    BY <2>1, <2>2
<1>3. st # <<>> /\ MayCall(Last(st), Top) /\ Awaited(st) = o
  BY <1>2, CallsPop, AwaitedPop
<1>4. /\ Last(st).fn \in {"JParser", "Object_ReadMember"}
      /\ Last(st).fn = "JParser" => Top.first = Last(st).chr
      /\ Last(st).fn # "JParser" => Top.first = Quote
  BY <1>2, <1>3 DEF MayCall
<1>5. mem'.text[s] = CString(Top.bag) /\ Return(r)
  <2>1. mem \in Memory(Texts)
    BY ParserInvKept DEF Kept
  <2>2. StrLeft(mem) /\ mem' = NewText(mem, s, CString(Top.bag)) /\ Return(r)
    BY DEF StringDone
  <2>3. s \in Str
    BY <2>2, FreeStrIsFree
  <2>4. QED
    BY <2>1, <2>2, <2>3 DEF NewText, Memory
<1>6. r.fn = "JReadString" /\ r.ok /\ r.str = s /\ r.end = end
  BY DEF Returned
<1>7. Top.first = Quote => Ended(R, o, end) /\ LabelRead(R) /\ end = Quote
  <2>1. Opened(o, Quote) = o
    BY OpenedSame, SymbolsApart
  <2>2. QED
    BY <2>1 DEF Ended
<1>8. Top.first # Quote /\ Literal(mem'.text[s]) \in Types => Ended(R, o, end)
  <2>1. Top.first # Quote => Top.bag # <<>> /\ NulsEscaped(Top.bag)
    BY <1>2 DEF ReadBy
  <2>2. Top.first # Quote /\ Foul(Top.bag) => Literal(CString(Top.bag)) \notin Types
    BY <1>2, <2>1, FoulRejected
  <2>3. QED
    BY <1>5, <2>2
<1>9. Returns(r, st, R, o, mem'.text)
  BY <1>3, <1>4, <1>6, <1>7, <1>8 DEF Returns
<1> HIDE DEF r
<1>10. QED
  BY <1>1, <1>3, <1>5, <1>6, <1>9, ReturnNest

LEMMA ReadStringNest ==
  ASSUME ParserInv, NestInv, ~MallocMayFail, NEW c \in Input, ReadString(c)
  PROVE  NestInv'
<1> DEFINE R == Reading(doc)
           Q == Reading(doc')
           o == Awaited(stack)
           f == Top
<1>1. Executing("JReadString") /\ In("JReadString") /\ phase' = phase /\ Read(c)
  BY DEF ReadString, RS_Escaped, RS_Escape, RS_End, RS_Char, RS_NoMore, Frame, Executing
<1>2. /\ f \in Frames /\ f.fn = "JReadString" /\ ReadBy(f, R, o) /\ doc \in Seq(Alphabet)
      /\ R \in ReadingStates(Alphabet) /\ f.bag \in Texts /\ f.escape \in BOOLEAN
      /\ o \in Brackets
  <2>1. /\ Top \in Frames /\ Top.fn = "JReadString" /\ doc \in Seq(Alphabet)
        /\ ReadBy(Top, Reading(doc), Awaited(stack))
        /\ Reading(doc) \in ReadingStates(Alphabet) /\ Awaited(stack) \in Brackets
    BY <1>1, NestTop DEF Executing
  <2>2. Top.bag \in Texts /\ Top.escape \in BOOLEAN
    BY <2>1, StringFrameAlike
  <2>3. QED
    BY <2>1, <2>2
<1>3. /\ f.first = Quote => R.quoted /\ (R.escape <=> f.escape) /\ R.open = o
      /\ f.first # Quote => f.bag # <<>> /\ NulsEscaped(f.bag) /\ (Foul(f.bag) \/ Plain(R, o))
  BY <1>2 DEF ReadBy
<1>4. /\ c \in Alphabet => Q = ReadSymbol(R, c) /\ c \in Symbol
      /\ c \in {EOF, ERR} => Q = R
  BY <1>1, <1>2, NestReads DEF Symbol
<1>5. /\ c \in Alphabet /\ f.first = Quote =>
           /\ f.escape => Q.quoted /\ ~Q.escape /\ Q.open = o
           /\ ~f.escape /\ c # Quote => Q.quoted /\ (Q.escape <=> c = Escape) /\ Q.open = o
           /\ ~f.escape /\ c = Quote => Plain(Q, o) /\ LabelRead(Q)
  BY <1>2, <1>3, <1>4, QuotedRead
<1>6. c \in Alphabet /\ Plain(R, o) /\ c # Quote => Ended(Q, o, c)
  BY <1>2, <1>4, PlainRead
<1>7. Escape \in Symbol
  BY DEF Symbol
<1> HIDE DEF R, Q, o, f
<1>8. CASE RS_Escaped(c)
  <2>1. f.escape /\ c \in Alphabet
    BY <1>8 DEF RS_Escaped, f
  <2>2. PICK b \in Added(f.bag, Escape) : \E b2 \in Added(b, c) :
          Stay([f EXCEPT !.bag = b2, !.escape = FALSE])
    BY <1>8 DEF RS_Escaped, f
  <2>3. PICK b2 \in Added(b, c) : Stay([f EXCEPT !.bag = b2, !.escape = FALSE])
    BY <2>2
  <2>4. b = Append(f.bag, Escape) /\ b2 = Append(b, c)
    BY AddedAll
  <2>5. /\ b \in Texts /\ b # <<>> /\ Foul(b) /\ b[Len(b)] = Escape
        /\ f.first # Quote => NulsEscaped(b)
    <3>1. Escape \notin Plausible /\ Escape # "NUL"
      BY SymbolsApart
    <3>2. QED
      BY <1>2, <1>3, <1>7, <2>4, <3>1, BagGrows
  <2>6. b2 \in Texts /\ b2 # <<>> /\ Foul(b2) /\ (f.first # Quote => NulsEscaped(b2))
    BY <1>4, <2>1, <2>4, <2>5, BagGrows
  <2> DEFINE g == [f EXCEPT !.bag = b2, !.escape = FALSE]
  <2>7. /\ g \in Frames /\ Alike(g, f) /\ g.fn = "JReadString" /\ g.first = f.first
        /\ g.bag = b2 /\ g.escape = FALSE
    BY <1>2, <2>6, StringFrameAlike
  <2> HIDE DEF g
  <2>8. ReadBy(g, Q, o)
    BY <1>5, <2>1, <2>6, <2>7 DEF ReadBy
  <2>9. QED
    BY <1>1, <2>3, <2>7, <2>8, StayNest DEF g, Q, o, f
<1>9. CASE RS_Escape(c)
  <2> DEFINE g == [f EXCEPT !.escape = TRUE]
  <2>1. c = Escape /\ c \in Alphabet /\ ~f.escape /\ Stay(g)
    BY <1>9, TextAssumption DEF RS_Escape, Read, Escape, EOF, ERR, f
  <2>2. /\ g \in Frames /\ Alike(g, f) /\ g.fn = "JReadString" /\ g.first = f.first
        /\ g.bag = f.bag /\ g.escape = TRUE
    BY <1>2, StringFrameAlike
  <2>3. c # Quote /\ Opened(o, c) = o
    BY <2>1, OpenedSame, SymbolsApart
  <2> HIDE DEF g
  <2>4. Plain(R, o) => Plain(Q, o)
    BY <1>6, <2>1, <2>3 DEF Ended
  <2>5. ReadBy(g, Q, o)
    BY <1>3, <1>5, <2>1, <2>2, <2>3, <2>4 DEF ReadBy
  <2>6. QED
    BY <1>1, <2>1, <2>2, <2>5, StayNest DEF Q, o, f
<1>10. CASE RS_End(c)
  <2>1. c \in Alphabet /\ ~f.escape /\ EndCheck(f.first, c) /\ StringDone(c)
    BY <1>10 DEF RS_End, f
  <2>2. CASE f.first = Quote
    <3>1. c = Quote /\ Plain(Q, o) /\ LabelRead(Q)
      BY <1>5, <2>1, <2>2 DEF EndCheck
    <3>2. ~Opening(c)
      BY <3>1, SymbolsApart DEF Opening
    <3>3. QED
      BY <1>1, <2>1, <2>2, <3>1, <3>2, StringDoneNest DEF Q, o, f
  <2>3. CASE f.first # Quote
    <3>1. c \in {" ", ",", "]", "}", "NUL"}
      BY <2>1, <2>3 DEF EndCheck, IsSpace
    <3>2. c # Quote
      BY <3>1, SymbolsApart
    <3>3. Foul(f.bag) \/ Ended(Q, o, c)
      BY <1>3, <1>6, <2>1, <2>3, <3>2
    <3>4. ~Opening(c)
      BY <3>1 DEF Opening
    <3>5. QED
      BY <1>1, <2>1, <2>3, <3>3, <3>4, StringDoneNest DEF Q, o, f
  <2>4. QED
    BY <2>2, <2>3
<1>11. CASE RS_Char(c)
  <2>1. c \in Alphabet /\ c # Escape /\ ~f.escape /\ ~EndCheck(f.first, c)
    BY <1>11 DEF RS_Char, f
  <2>2. PICK b \in Added(f.bag, c) : Stay([f EXCEPT !.bag = b])
    BY <1>11 DEF RS_Char, f
  <2>3. b = Append(f.bag, c)
    BY AddedAll
  <2> DEFINE g == [f EXCEPT !.bag = b]
  <2>4. b \in Texts /\ b # <<>>
    BY <1>2, <1>4, <2>1, <2>3, BagGrows
  <2>5. /\ g \in Frames /\ Alike(g, f) /\ g.fn = "JReadString" /\ g.first = f.first
        /\ g.bag = b /\ g.escape = f.escape
    <3>1. \A t \in Texts :
            LET h == [f EXCEPT !.bag = t] IN
            /\ h \in Frames /\ Alike(h, f) /\ h.fn = "JReadString" /\ h.first = f.first
            /\ h.bag = t /\ h.escape = f.escape
      BY <1>2, StringFrameAlike
    <3>2. QED
      BY <2>4, <3>1
  <2> HIDE DEF g
  <2>6. ReadBy(g, Q, o)
    <3>1. CASE f.first = Quote
      <4>1. c # Quote
        BY <2>1, <3>1 DEF EndCheck
      <4>2. QED
        BY <1>5, <2>1, <2>5, <3>1, <4>1 DEF ReadBy
    <3>2. CASE f.first # Quote
      <4>1. c \notin {" ", ",", "]", "}", "NUL"}
        BY <2>1, <3>2 DEF EndCheck, IsSpace
      <4>2. NulsEscaped(b)
        BY <1>2, <1>3, <1>4, <2>1, <2>3, <3>2, <4>1, BagGrows
      <4>3. Foul(f.bag) \/ c \notin Plausible => Foul(b)
        BY <1>2, <1>4, <2>1, <2>3, BagGrows
      <4>4. c \in Plausible => c # Quote /\ Opened(o, c) = o
        BY OpenedSame, SymbolsApart
      <4>5. Foul(b) \/ Plain(Q, o)
        BY <1>3, <1>6, <2>1, <3>2, <4>3, <4>4 DEF Ended
      <4>6. QED
        BY <2>4, <2>5, <3>2, <4>2, <4>5 DEF ReadBy
    <3>3. QED
      BY <3>1, <3>2
  <2>7. QED
    BY <1>1, <2>2, <2>5, <2>6, StayNest DEF g, Q, o, f
<1>12. CASE RS_NoMore(c)
  <2>1. CASE f.first = Quote
    <3>1. Report("unexpected EOF") /\ Fail("JReadString")
      BY <1>12, <2>1 DEF RS_NoMore, f
    <3>2. Told'
      BY <3>1, ToldReported
    <3>3. QED
      BY <1>1, <3>1, <3>2, FailNest
  <2>2. CASE f.first # Quote
    <3>1. c \in {EOF, ERR} /\ StringDone("NUL")
      BY <1>12, <2>2 DEF RS_NoMore, f
    <3>2. Opened(o, "NUL") = o
      BY OpenedSame
    <3>3. Foul(f.bag) \/ Ended(Q, o, "NUL")
      BY <1>3, <1>4, <2>2, <3>1, <3>2 DEF Ended
    <3>4. ~Opening("NUL")
      BY DEF Opening
    <3>5. QED
      BY <1>1, <2>2, <3>1, <3>3, <3>4, StringDoneNest DEF Q, o, f
  <2>3. QED
    BY <2>1, <2>2
<1>13. QED
  BY <1>8, <1>9, <1>10, <1>11, <1>12 DEF ReadString

-----------------------------------------------------------------------------
(***************************************************************************)
(* The steps of JParser.                                                   *)
(***************************************************************************)
LEMMA ParserSkipNest ==
  ASSUME ParserInv, NestInv, NEW c \in Input, JP_Skip(c)
  PROVE  NestInv'
<1>1. /\ Executing("JParser") /\ In("JParser") /\ phase' = phase /\ Read(c) /\ Top.chr = " "
      /\ ret = Running
  BY DEF JP_Skip, Executing, Frame, IsSpace
<1>2. /\ Top \in Frames /\ Top.fn = "JParser" /\ doc \in Seq(Alphabet)
      /\ ReadBy(Top, Reading(doc), Awaited(stack))
      /\ Reading(doc) \in ReadingStates(Alphabet)
  BY <1>1, NestTop
<1>3. Begun(Reading(doc), Awaited(stack), " ")
  BY <1>1, <1>2 DEF ReadBy
<1>4. CASE c = EOF
  <2>1. Report("unexpected end-of-file") /\ Fail("JParser")
    BY <1>4 DEF JP_Skip
  <2>2. Told'
    BY <2>1, ToldReported
  <2>3. QED
    BY <1>1, <2>1, <2>2, FailNest
<1>5. CASE c # EOF
  <2> DEFINE x == IF c = ERR THEN Top.chr ELSE c
             f == [Top EXCEPT !.chr = x]
  <2>1. x \in Starters
    BY <1>2, <1>5, JParserFrameKept DEF Input, Starters
  <2>2. Stay(f)
    BY <1>5 DEF JP_Skip
  <2>3. Begun(Reading(doc'), Awaited(stack), x)
    <3>1. CASE c = ERR
      BY <1>1, <1>2, <1>3, <3>1, NestReads
    <3>2. CASE c # ERR
      <4>1. c \in Alphabet /\ Reading(doc') = ReadSymbol(Reading(doc), c)
        BY <1>1, <1>2, <1>5, <3>2, NestReads DEF Input
      <4>2. Plain(Reading(doc), Awaited(stack))
        <5>1. Opened(Awaited(stack), " ") = Awaited(stack) /\ " " # Quote
          BY OpenedSame, SymbolsApart
        <5>2. QED
          BY <1>3, <5>1 DEF Begun, Plain
      <4>3. Begun(ReadSymbol(Reading(doc), c), Awaited(stack), c)
        BY <1>2, <4>1, <4>2, PlainRead
      <4>4. QED
        BY <3>2, <4>1, <4>3
    <3>3. QED
      BY <3>1, <3>2
  <2> HIDE DEF x
  <2>4. f \in Frames /\ f.fn = "JParser" /\ f.chr = x
    <3>1. \A chr \in Starters : [Top EXCEPT !.chr = chr] \in Frames
      BY <1>2, JParserFrameKept
    <3>2. QED
      BY <1>2, <2>1, <3>1 DEF Frames
  <2>5. Alike(f, Top)
    BY <1>2, <2>4 DEF Alike
  <2> HIDE DEF f
  <2>6. ReadBy(f, Reading(doc'), Awaited(stack))
    BY <2>3, <2>4 DEF ReadBy
  <2>7. QED
    BY <1>1, <2>2, <2>4, <2>5, <2>6, StayNest
<1>6. QED
  BY <1>4, <1>5

LEMMA BracketKind ==
  ASSUME NEW c \in {"[", "{"}
  PROVE  Kind(c) \in {"array", "object"} /\ \A o : Opened(o, c) = <<EndChar(Kind(c))>> \o o
  BY DEF Kind, EndChar, Opened

LEMMA FirstSymbol ==
  ASSUME NEW c \in Symbol
  PROVE  NulsEscaped(<<c>>) /\ <<c>> # <<>> /\ (c \notin Plausible => Foul(<<c>>))
<1>1. NulsEscaped(<<c>>) /\ <<c>> # <<>>
  BY DEF NulsEscaped
<1>2. c \notin Plausible => Foul(<<c>>)
  BY DEF Foul
<1>3. QED
  BY <1>1, <1>2

\* The first character of a value that is no collection.
LEMMA StringBegunNest ==
  ASSUME NEW R, NEW o, NEW c \in Symbol, c \notin {"[", "{"}, Begun(R, o, c)
  PROVE  ReadBy(StringFrame(c), R, o)
<1>1. /\ StringFrame(c).fn = "JReadString" /\ StringFrame(c).first = c
      /\ StringFrame(c).escape = FALSE /\ StringFrame(c).bag = FirstBag(c)
  BY DEF StringFrame
<1>2. CASE c = Quote
  <2>1. Opened(o, c) = o
    BY <1>2, OpenedSame, SymbolsApart
  <2>2. QED
    BY <1>1, <1>2, <2>1 DEF ReadBy, Begun
<1>3. CASE c # Quote
  <2>1. StringFrame(c).bag = <<c>>
    BY <1>1, <1>3 DEF FirstBag
  <2>2. NulsEscaped(<<c>>) /\ <<c>> # <<>> /\ (c \notin Plausible => Foul(<<c>>))
    BY FirstSymbol
  <2>3. c \in Plausible => Plain(R, o)
    <3>1. c \in Plausible => Opened(o, c) = o
      BY OpenedSame, SymbolsApart
    <3>2. QED
      BY <1>3, <3>1 DEF Plain, Begun
  <2>4. QED
    BY <1>1, <1>3, <2>1, <2>2, <2>3 DEF ReadBy
<1>4. QED
  BY <1>2, <1>3

LEMMA SwitchNest ==
  ASSUME ParserInv, NestInv, ~MallocMayFail, JP_Switch
  PROVE  NestInv'
<1>1. /\ Executing("JParser") /\ In("JParser") /\ phase' = phase /\ doc' = doc /\ Top.chr # " "
      /\ ret = Running
  BY DEF JP_Switch, Executing, Frame, IsSpace, NoRead
<1>2. /\ Top \in Frames /\ Top.fn = "JParser" /\ phase' = "parse"
      /\ stack \in Seq(Frames) /\ stack # <<>> /\ Calls(stack) /\ Top = Last(stack)
      /\ ReadBy(Top, Reading(doc), Awaited(stack))
  BY <1>1, NestTop
<1>3. /\ Begun(Reading(doc'), Awaited(stack), Top.chr)
      /\ Top.chr \in Symbol /\ Top.parent \in Pointer
  BY <1>1, <1>2, JParserFrameKept DEF ReadBy
<1>4. CASE Top.chr \in {"[", "{"}
  <2> DEFINE f == CollectionFrame(Kind(Top.chr), Top.parent, FreeNode(mem))
  <2>1. NodeLeft(mem) /\ stack' = Append(stack, f) /\ ret' = Running
    BY <1>4 DEF JP_Switch, Call
  <2>2. FreeNode(mem) \in Node
    BY <2>1, FreeNodeIsFree
  <2>3. Kind(Top.chr) \in {"array", "object"}
        /\ Opened(Awaited(stack), Top.chr) = <<EndChar(Kind(Top.chr))>> \o Awaited(stack)
    BY <1>4, BracketKind
  <2>4. f \in Frames
    BY <1>3, <2>2, <2>3, FrameTypes
  <2>5. f.fn = "parse_collection" /\ f.kind = Kind(Top.chr)
    BY DEF CollectionFrame
  <2> HIDE DEF f
  <2>6. Awaited(Append(stack, f)) = <<EndChar(Kind(Top.chr))>> \o Awaited(stack)
    BY <1>2, <2>4, <2>5, AwaitedPush
  <2>7. Top.chr # Quote
    BY <1>4, SymbolsApart
  <2>8. Plain(Reading(doc'), Awaited(Append(stack, f)))
    BY <1>3, <2>3, <2>6, <2>7 DEF Begun, Plain
  <2>9. ReadBy(f, Reading(doc'), Awaited(Append(stack, f)))
    BY <2>5, <2>8 DEF ReadBy
  <2>10. MayCall(Last(stack), f)
    BY <1>2, <2>5 DEF MayCall
  <2>11. QED
    BY <1>2, <2>1, <2>4, <2>9, <2>10, CallNest
<1>5. CASE Top.chr \notin {"[", "{"}
  <2> DEFINE f == StringFrame(Top.chr)
  <2>1. stack' = Append(stack, f) /\ ret' = Running
    BY <1>5 DEF JP_Switch, Call
  <2>2. f \in Frames
    BY <1>3, FrameTypes
  <2>3. f.fn = "JReadString" /\ f.first = Top.chr
    BY DEF StringFrame
  <2>4. ReadBy(f, Reading(doc'), Awaited(stack))
    BY <1>3, <1>5, StringBegunNest
  <2> HIDE DEF f
  <2>5. Awaited(Append(stack, f)) = Awaited(stack)
    BY <1>2, <2>2, <2>3, AwaitedPush
  <2>6. MayCall(Last(stack), f)
    BY <1>2, <2>3 DEF MayCall
  <2>7. QED
    BY <1>2, <2>1, <2>2, <2>4, <2>5, <2>6, CallNest
<1>6. QED
  BY <1>4, <1>5

LEMMA AfterCollectionNest ==
  ASSUME ParserInv, NestInv, JP_AfterCollection
  PROVE  NestInv'
<1> DEFINE r == Returned("JParser", ret.ok, ret.node, NULL, "NUL")
<1>1. /\ In("JParser") /\ phase' = phase /\ doc' = doc /\ io' = io /\ pe' = pe
      /\ ret.fn = "parse_collection" /\ Return(r)
  BY DEF JP_AfterCollection, Resuming, Frame, NoRead
<1>2. /\ stack # <<>> /\ stack \in Seq(Frames) /\ Top = Last(stack) /\ Top.fn = "JParser"
      /\ ret.ok => Returns(ret, stack, Reading(doc), Awaited(stack), mem.text)
      /\ ~ret.ok => Told
  BY <1>1, NestTop
<1>3. r.fn = "JParser" /\ (r.ok <=> ret.ok) /\ r.end = "NUL"
  BY DEF Returned
<1>4. Awaited(stack) = Awaited(Front(stack))
  BY <1>2, AwaitedPop
<1> HIDE DEF r
<1>8. ~Opening("NUL")
  BY DEF Opening
<1>5. r.ok => Returns(r, Front(stack), Reading(doc'), Awaited(Front(stack)), mem'.text)
  BY <1>1, <1>2, <1>3, <1>4, <1>8 DEF Returns
<1>6. ~r.ok => Told'
  BY <1>1, <1>2, <1>3, ToldKept
<1>7. QED
  BY <1>1, <1>3, <1>5, <1>6, ReturnNest

LEMMA LiteralNone == ASSUME NEW t, Literal(t) \notin Types PROVE Literal(t) # "none"
  BY DEF Literal, Types

LEMMA AfterStringNest ==
  ASSUME ParserInv, NestInv, ~MallocMayFail, JP_AfterString
  PROVE  NestInv'
<1>1. In("JParser") /\ phase' = phase /\ doc' = doc /\ io' = io /\ ret.fn = "JReadString"
  BY DEF JP_AfterString, JP_NoString, JP_NoNode, JP_Quoted, JP_Unquoted, Resuming, Frame, NoRead
<1>2. /\ stack # <<>> /\ stack \in Seq(Frames) /\ Top = Last(stack) /\ Top.fn = "JParser"
      /\ ret.ok => Returns(ret, stack, Reading(doc), Awaited(stack), mem.text)
      /\ ~ret.ok => Told
  BY <1>1, NestTop
<1>3. Awaited(stack) = Awaited(Front(stack))
  BY <1>2, AwaitedPop
<1>4. ASSUME NEW n, ret.ok, Top.chr = Quote \/ Literal(mem.text[ret.str]) \in Types,
             Return(Returned("JParser", TRUE, n, NULL, ret.end))
      PROVE  NestInv'
  <2> DEFINE r == Returned("JParser", TRUE, n, NULL, ret.end)
  <2>1. r.fn = "JParser" /\ r.ok /\ r.end = ret.end /\ Return(r)
    BY <1>4 DEF Returned
  <2>2. Ended(Reading(doc), Awaited(stack), ret.end) /\ ~Opening(ret.end)
    BY <1>1, <1>2, <1>4 DEF Returns
  <2> HIDE DEF r
  <2>3. Returns(r, Front(stack), Reading(doc'), Awaited(Front(stack)), mem'.text)
    BY <1>1, <1>3, <2>1, <2>2 DEF Returns
  <2>4. QED
    BY <1>1, <2>1, <2>3, ReturnNest
<1>5. CASE JP_NoString
  <2>1. ~ret.ok /\ Fail("JParser") /\ pe' = pe
    BY <1>5 DEF JP_NoString
  <2>2. Told'
    BY <1>1, <1>2, <2>1, ToldKept
  <2>3. QED
    BY <1>1, <2>1, <2>2, FailNest
<1>6. CASE JP_Quoted
  BY <1>4, <1>6 DEF JP_Quoted, HandOver
<1>7. CASE JP_Unquoted
  <2> DEFINE k == Literal(mem.text[ret.str])
  <2>1. CASE k \notin Types
    <3>1. Report(k) /\ Fail("JParser")
      BY <1>7, <2>1 DEF JP_Unquoted
    <3>2. k # "none"
      BY <2>1, LiteralNone
    <3> HIDE DEF k
    <3>3. Told'
      BY <3>1, <3>2, ToldReported
    <3>4. QED
      BY <1>1, <3>1, <3>3, FailNest
  <2>2. CASE k \in Types
    <3>1. ret.ok /\ Return(Returned("JParser", TRUE, FreeNode(mem), NULL, ret.end))
      BY <1>7, <2>2 DEF JP_Unquoted, HandOver
    <3>2. QED
      BY <1>4, <2>2, <3>1
  <2>3. QED
    BY <2>1, <2>2
<1>8. ~JP_NoNode
  BY DEF JP_NoNode
<1>9. QED
  BY <1>5, <1>6, <1>7, <1>8 DEF JP_AfterString

-----------------------------------------------------------------------------
(***************************************************************************)
(* The steps of parse_collection.                                          *)
(***************************************************************************)
\* A collection is complete: its bracket is closed.
LEMMA CompleteNest ==
  ASSUME ParserInv, NestInv, In("parse_collection"), phase' = phase, Complete,
         Plain(Reading(doc'), Awaited(Front(stack)))
  PROVE  NestInv'
<1> DEFINE r == Returned("parse_collection", TRUE, Top.node, NULL, "NUL")
<1>1. r.fn = "parse_collection" /\ r.ok /\ r.end = "NUL" /\ Return(r)
  BY DEF Complete, Returned
<1> HIDE DEF r
<1>2. Opened(Awaited(Front(stack)), "NUL") = Awaited(Front(stack))
  BY OpenedSame
<1>3. ~Opening("NUL")
  BY DEF Opening
<1>4. Returns(r, Front(stack), Reading(doc'), Awaited(Front(stack)), mem'.text)
  BY <1>1, <1>2, <1>3 DEF Returns, Ended
<1>5. QED
  BY <1>1, <1>4, ReturnNest

\* What the collection on top waits for.
LEMMA CollectionAwaits ==
  ASSUME ParserInv, NestInv, In("parse_collection")
  PROVE  /\ Awaited(stack) = <<EndChar(Top.kind)>> \o Awaited(Front(stack))
         /\ Opened(Awaited(stack), EndChar(Top.kind)) = Awaited(Front(stack))
         /\ EndChar(Top.kind) \in {"]", "}"} /\ EndChar(Top.kind) # Quote
<1>1. stack # <<>> /\ stack \in Seq(Frames) /\ Top = Last(stack) /\ Top.fn = "parse_collection"
  BY NestTop
<1>2. /\ Awaited(stack) = <<EndChar(Top.kind)>> \o Awaited(Front(stack))
      /\ Awaited(Front(stack)) \in Brackets
  BY <1>1, AwaitedPop
<1>3. EndChar(Top.kind) \in {"]", "}"}
  BY DEF EndChar
<1>4. Opened(<<EndChar(Top.kind)>> \o Awaited(Front(stack)), EndChar(Top.kind))
        = Awaited(Front(stack))
  BY <1>2, <1>3, OpenedClosed
<1>5. EndChar(Top.kind) # Quote
  BY <1>3, SymbolsApart
<1>6. QED
  BY <1>2, <1>3, <1>4, <1>5

\* The collection goes on.
LEMMA CollectionStayNest ==
  ASSUME ParserInv, NestInv, In("parse_collection"), phase' = phase, NEW b \in BOOLEAN,
         Stay([Top EXCEPT !.needs = b]), Plain(Reading(doc'), Awaited(stack))
  PROVE  NestInv'
<1> DEFINE f == [Top EXCEPT !.needs = b]
<1>1. Top \in Frames /\ Top.fn = "parse_collection"
  BY NestTop
<1>2. f \in Frames /\ f.fn = "parse_collection" /\ f.kind = Top.kind /\ Stay(f)
  <2>1. f \in Frames
    BY <1>1, CollectionFrameKept
  <2>2. f.fn = "parse_collection" /\ f.kind = Top.kind
    BY <1>1 DEF Frames
  <2>3. QED
    BY <2>1, <2>2
<1> HIDE DEF f
<1>3. Alike(f, Top) /\ ReadBy(f, Reading(doc'), Awaited(stack))
  BY <1>1, <1>2 DEF Alike, ReadBy
<1>4. QED
  BY <1>2, <1>3, StayNest

\* The first character of a value, as JParser is called with it.
LEMMA ValueBegunNest ==
  ASSUME NEW R, NEW o, NEW c, NEW p, Begun(R, o, c)
  PROVE  ReadBy(JParserFrame(c, p), R, o) /\ JParserFrame(c, p).fn = "JParser"
<1>1. JParserFrame(c, p).fn = "JParser" /\ JParserFrame(c, p).chr = IF c = "NUL" THEN " " ELSE c
  BY DEF JParserFrame
<1>2. Opened(o, "NUL") = o /\ Opened(o, " ") = o /\ "NUL" # Quote /\ " " # Quote
  BY OpenedSame, SymbolsApart
<1>3. Begun(R, o, JParserFrame(c, p).chr)
  BY <1>1, <1>2 DEF Begun
<1>4. QED
  BY <1>1, <1>3 DEF ReadBy

LEMMA MemberNest ==
  ASSUME ParserInv, NestInv, NEW c \in Input, Executing("parse_collection"), PC_Member(c),
         phase' = phase, Plain(Reading(doc), Awaited(stack))
  PROVE  NestInv'
<1> DEFINE f == [Top EXCEPT !.chr = c]
           st == Append(Front(stack), f)
           o == Awaited(stack)
           Q == Reading(doc')
<1>1. /\ stack \in Seq(Frames) /\ Top \in Frames /\ Top.fn = "parse_collection"
      /\ phase' = "parse" /\ Calls(stack) /\ stack # <<>> /\ Top = Last(stack)
      /\ doc \in Seq(Alphabet) /\ Reading(doc) \in ReadingStates(Alphabet)
  BY NestTop DEF Executing
<1>2. c \in Alphabet /\ c \in Symbol /\ c \in Starters /\ Read(c)
  BY DEF PC_Member, Symbol, Starters
<1>3. Begun(Q, o, c)
  <2>1. Reading(doc') = ReadSymbol(Reading(doc), c)
    BY <1>1, <1>2, NestReads
  <2>2. Begun(ReadSymbol(Reading(doc), c), Awaited(stack), c)
    BY <1>1, <1>2, PlainRead
  <2>3. QED
    BY <2>1, <2>2
<1>4. Top.node \in Node /\ Top.node \in Pointer
  BY <1>1, CollectionFrameKept DEF Pointer
<1>5. f \in Frames /\ f.fn = "parse_collection" /\ Alike(f, Top)
  <2>1. f \in Frames
    BY <1>1, <1>2, CollectionFrameKept
  <2>2. f.fn = "parse_collection" /\ f.kind = Top.kind
    BY <1>1 DEF Frames
  <2> HIDE DEF f
  <2>3. QED
    BY <1>1, <2>1, <2>2 DEF Alike
<1>6. \/ stack' = Append(st, JParserFrame(c, Top.node)) /\ ret' = Running
      \/ /\ c = Quote /\ stack' = st \o <<MemberFrame(Top.node), StringFrame(c)>>
         /\ ret' = Running
      \/ /\ stack' = st /\ ret' = Failed("Object_ReadMember")
         /\ Report("labels must be double-quoted")
  BY DEF PC_Member
<1> HIDE DEF f
<1>7. st \in Seq(Frames) /\ st # <<>> /\ Last(st) = f /\ Calls(st) /\ Awaited(st) = o
  BY <1>1, <1>5, NestStay
<1> HIDE DEF st, o, Q
<1>8. CASE stack' = Append(st, JParserFrame(c, Top.node)) /\ ret' = Running
  <2> DEFINE g == JParserFrame(c, Top.node)
  <2>1. g \in Frames
    BY <1>2, <1>4, FrameTypes
  <2>2. ReadBy(g, Q, o) /\ g.fn = "JParser"
    BY <1>3, ValueBegunNest
  <2> HIDE DEF g
  <2>3. Awaited(Append(st, g)) = o
    BY <1>7, <2>1, <2>2, AwaitedPush
  <2>4. MayCall(Last(st), g)
    BY <1>5, <1>7, <2>2 DEF MayCall
  <2>5. ReadBy(g, Reading(doc'), Awaited(Append(st, g))) /\ stack' = Append(st, g)
    BY <1>8, <2>2, <2>3 DEF Q, g
  <2>6. QED
    BY <1>1, <1>7, <1>8, <2>1, <2>4, <2>5, CallNest
<1>9. CASE c = Quote /\ stack' = st \o <<MemberFrame(Top.node), StringFrame(c)>> /\ ret' = Running
  <2> DEFINE g == MemberFrame(Top.node)
             h == StringFrame(c)
             st2 == Append(st, g)
  <2>1. g \in Frames /\ g.fn = "Object_ReadMember"
    BY <1>4, FrameTypes DEF MemberFrame
  <2>2. h \in Frames /\ h.fn = "JReadString" /\ h.first = c
    BY <1>2, FrameTypes DEF StringFrame
  <2>3. ReadBy(h, Q, o)
    BY <1>2, <1>3, <1>9, SymbolsApart, StringBegunNest
  <2>4. stack' = st \o <<g, h>> /\ ret' = Running
    BY <1>9
  <2> HIDE DEF g, h
  <2>5. st \o <<g, h>> = Append(Append(st, g), h)
    BY <1>7, <2>1, <2>2
  <2>6. Awaited(st2) = o /\ st2 # <<>> /\ st2 \in Seq(Frames) /\ Last(st2) = g
    BY <1>7, <2>1, AwaitedPush, LastAppended
  <2>7. Calls(st2)
    <3>1. MayCall(f, g)
      BY <1>5, <2>1 DEF MayCall
    <3>2. QED
      BY <1>7, <2>1, <3>1, CallsPush
  <2>8. stack' = Append(st2, h)
    BY <2>4, <2>5
  <2> HIDE DEF st2
  <2>9. Awaited(Append(st2, h)) = o
    BY <2>2, <2>6, AwaitedPush
  <2>10. MayCall(Last(st2), h)
    BY <1>9, <2>1, <2>2, <2>6 DEF MayCall
  <2>11. ReadBy(h, Reading(doc'), Awaited(Append(st2, h)))
    BY <2>3, <2>9 DEF Q
  <2>12. QED
    BY <1>1, <2>2, <2>4, <2>6, <2>7, <2>8, <2>10, <2>11, CallNest
<1>10. CASE /\ stack' = st /\ ret' = Failed("Object_ReadMember")
            /\ Report("labels must be double-quoted")
  <2>1. Told'
    BY <1>10, ToldReported
  <2>2. Calls(stack') /\ ret'.fn # "none" /\ ~ret'.ok /\ phase' = "parse" /\ phase' # "rejected"
    BY <1>1, <1>7, <1>10 DEF Failed, Returned
  <2>3. QED
    BY <2>1, <2>2 DEF NestInv
<1>11. QED
  BY <1>6, <1>8, <1>9, <1>10

LEMMA CollectionReadNest ==
  ASSUME ParserInv, NestInv, NEW c \in Input, CollectionRead(c)
  PROVE  NestInv'
<1>1. /\ Executing("parse_collection") /\ In("parse_collection") /\ phase' = phase /\ Read(c)
      /\ ret = Running
  BY DEF CollectionRead, PC_Space, PC_End, PC_Comma, PC_Reject, PC_Member, PC_NoMore,
         Executing, Frame
<1>2. /\ Top \in Frames /\ Top.fn = "parse_collection" /\ doc \in Seq(Alphabet)
      /\ Reading(doc) \in ReadingStates(Alphabet)
      /\ ReadBy(Top, Reading(doc), Awaited(stack))
  BY <1>1, NestTop
<1>3. Plain(Reading(doc), Awaited(stack))
  BY <1>2 DEF ReadBy
<1>4. c \in Alphabet /\ c # Quote => Ended(Reading(doc'), Awaited(stack), c)
  <2>1. c \in Alphabet => Reading(doc') = ReadSymbol(Reading(doc), c)
    BY <1>1, <1>2, NestReads
  <2>2. c \in Alphabet /\ c # Quote => Ended(ReadSymbol(Reading(doc), c), Awaited(stack), c)
    BY <1>2, <1>3, PlainRead
  <2>3. QED
    BY <2>1, <2>2
<1>5. ASSUME c \in {" ", ","} PROVE Plain(Reading(doc'), Awaited(stack))
  <2>1. c \in Alphabet /\ c # Quote
    BY <1>5, SymbolsApart DEF Input, EOF, ERR
  <2>2. Opened(Awaited(stack), c) = Awaited(stack)
    BY <1>5, OpenedSame
  <2>3. QED
    BY <1>4, <2>1, <2>2 DEF Ended
<1>6. ASSUME NEW message, message # "none", Report(message), Abandon PROVE NestInv'
  <2>1. Told' /\ Fail("parse_collection")
    BY <1>6, ToldReported DEF Abandon
  <2>2. QED
    BY <1>1, <2>1, FailNest
<1>7. CASE PC_Space(c)
  <2>1. Plain(Reading(doc'), Awaited(stack)) /\ UNCHANGED <<stack, ret>>
    BY <1>5, <1>7 DEF PC_Space, IsSpace
  <2>2. ReadBy(Top, Reading(doc'), Awaited(stack))
    BY <1>2, <2>1 DEF ReadBy
  <2>3. QED
    BY <1>1, <2>1, <2>2, SkipNest
<1>8. CASE PC_End(c)
  <2>1. c = EndChar(Top.kind) /\ Complete
    BY <1>8 DEF PC_End
  <2>2. c \in {"]", "}"} /\ c # Quote /\ Opened(Awaited(stack), c) = Awaited(Front(stack))
    BY <1>1, <2>1, CollectionAwaits
  <2>3. c \in Alphabet
    BY <2>2 DEF Input, EOF, ERR
  <2>4. Plain(Reading(doc'), Awaited(Front(stack)))
    BY <1>4, <2>2, <2>3 DEF Ended
  <2>5. QED
    BY <1>1, <2>1, <2>4, CompleteNest
<1>9. CASE PC_Comma(c)
  <2>1. c = "," /\ Stay([Top EXCEPT !.needs = TRUE])
    BY <1>9 DEF PC_Comma
  <2>2. Plain(Reading(doc'), Awaited(stack))
    BY <1>5, <2>1
  <2>3. QED
    BY <1>1, <2>1, <2>2, CollectionStayNest
<1>10. CASE PC_Reject(c)
  BY <1>6, <1>10 DEF PC_Reject
<1>11. CASE PC_Member(c)
  BY <1>1, <1>3, <1>11, MemberNest
<1>12. CASE PC_NoMore(c)
  BY <1>6, <1>12 DEF PC_NoMore
<1>13. QED
  BY <1>7, <1>8, <1>9, <1>10, <1>11, <1>12 DEF CollectionRead

LEMMA AfterMemberNest ==
  ASSUME ParserInv, NestInv, PC_AfterMember
  PROVE  NestInv'
<1>1. /\ In("parse_collection") /\ phase' = phase /\ doc' = doc /\ io' = io
      /\ ret.fn \in {"JParser", "Object_ReadMember"}
  BY DEF PC_AfterMember, Frame, NoRead
<1>2. /\ Top \in Frames /\ Top.fn = "parse_collection"
      /\ ret.ok => Returns(ret, stack, Reading(doc), Awaited(stack), mem.text)
      /\ ~ret.ok => Told
  BY <1>1, NestTop
<1>3. ret.ok => Ended(Reading(doc'), Awaited(stack), ret.end)
  BY <1>1, <1>2 DEF Returns
<1>4. ASSUME ret.ok, ret.end \in {",", "NUL", " ", Quote}, NEW b \in BOOLEAN,
             Stay([Top EXCEPT !.needs = b])
      PROVE  NestInv'
  <2>1. ret.end \notin {"[", "{", "]", "}"}
    BY <1>4, SymbolsApart
  <2>2. Opened(Awaited(stack), ret.end) = Awaited(stack)
    BY <2>1, OpenedSame
  <2>3. Plain(Reading(doc'), Awaited(stack))
    BY <1>3, <1>4, <2>2 DEF Ended
  <2>4. QED
    BY <1>1, <1>4, <2>3, CollectionStayNest
<1>5. CASE ~ret.ok /\ Abandon /\ UNCHANGED pe
  <2>1. Told' /\ Fail("parse_collection")
    BY <1>1, <1>2, <1>5, ToldKept DEF Abandon
  <2>2. QED
    BY <1>1, <2>1, FailNest
<1>6. CASE ret.ok /\ ret.end = "," /\ Stay([Top EXCEPT !.needs = TRUE])
  BY <1>4, <1>6
<1>7. CASE ret.ok /\ ret.end = EndChar(Top.kind) /\ Complete
  <2>1. Opened(Awaited(stack), ret.end) = Awaited(Front(stack))
    BY <1>1, <1>7, CollectionAwaits
  <2>2. Plain(Reading(doc'), Awaited(Front(stack)))
    BY <1>3, <1>7, <2>1 DEF Ended
  <2>3. QED
    BY <1>1, <1>7, <2>2, CompleteNest
<1>8. CASE /\ ret.ok /\ ret.end \in {"NUL", " ", Quote}
           /\ Stay([Top EXCEPT !.needs = FALSE])
  BY <1>4, <1>8
<1>9. CASE Report("unexpected member end char") /\ Abandon
  <2>1. Told' /\ Fail("parse_collection")
    BY <1>9, ToldReported DEF Abandon
  <2>2. QED
    BY <1>1, <2>1, FailNest
<1>10. QED
  BY <1>5, <1>6, <1>7, <1>8, <1>9 DEF PC_AfterMember, IsSpace

-----------------------------------------------------------------------------
(***************************************************************************)
(* The steps of Object_ReadMember and of jd_parse_file.                    *)
(***************************************************************************)
LEMMA AfterLabelNest ==
  ASSUME ParserInv, NestInv, OM_AfterLabel
  PROVE  NestInv'
<1> DEFINE f == [Top EXCEPT !.label = ret.str]
<1>1. /\ In("Object_ReadMember") /\ phase' = phase /\ doc' = doc /\ io' = io /\ pe' = pe
      /\ ret.fn = "JReadString"
  BY DEF OM_AfterLabel, Resuming, Frame, NoRead
<1>2. /\ Top \in Frames /\ Top.fn = "Object_ReadMember" /\ Top = Last(stack)
      /\ ret.ok => Returns(ret, stack, Reading(doc), Awaited(stack), mem.text)
      /\ ~ret.ok => Told
  BY <1>1, NestTop
<1>3. CASE ~ret.ok
  <2>1. Fail("Object_ReadMember") /\ Told'
    BY <1>1, <1>2, <1>3, ToldKept DEF OM_AfterLabel
  <2>2. QED
    BY <1>1, <2>1, FailNest
<1>4. CASE ret.ok
  <2>1. ret.str \in Str
    <3>1. Consistent(ret, stack)
      BY <1>1, <1>4 DEF ParserInv, Torn, Failed, Returned
    <3>2. QED
      BY <1>1, <1>4, <3>1 DEF Consistent, Results
  <2>2. f \in Frames /\ f.fn = "Object_ReadMember" /\ Stay(f)
    BY <1>2, <1>4, <2>1, MemberFrameKept DEF OM_AfterLabel
  <2>3. /\ Ended(Reading(doc'), Awaited(stack), Quote) /\ LabelRead(Reading(doc'))
    BY <1>1, <1>2, <1>4 DEF Returns
  <2>4. Opened(Awaited(stack), Quote) = Awaited(stack)
    BY OpenedSame, SymbolsApart
  <2> HIDE DEF f
  <2>5. Alike(f, Top) /\ ReadBy(f, Reading(doc'), Awaited(stack))
    BY <1>2, <2>2, <2>3, <2>4 DEF Alike, ReadBy, Ended
  <2>6. QED
    BY <1>1, <2>2, <2>5, StayNest
<1>5. QED
  BY <1>3, <1>4

LEMMA MemberReadNest ==
  ASSUME ParserInv, NestInv, NEW c \in Input, OM_Read(c)
  PROVE  NestInv'
<1>1. /\ Executing("Object_ReadMember") /\ In("Object_ReadMember") /\ phase' = phase /\ Read(c)
      /\ ret = Running
  BY DEF OM_Read, Executing, Frame
<1>2. /\ Top \in Frames /\ Top.fn = "Object_ReadMember" /\ Top = Last(stack) /\ phase' = "parse"
      /\ stack \in Seq(Frames) /\ stack # <<>> /\ Calls(stack)
      /\ doc \in Seq(Alphabet) /\ Reading(doc) \in ReadingStates(Alphabet)
      /\ ReadBy(Top, Reading(doc), Awaited(stack))
  BY <1>1, NestTop
<1>3. Plain(Reading(doc), Awaited(stack)) /\ LabelRead(Reading(doc))
  BY <1>2 DEF ReadBy
<1>4. c \in Alphabet =>
        /\ Begun(Reading(doc'), Awaited(stack), c)
        /\ c # Quote => Ended(Reading(doc'), Awaited(stack), c)
        /\ c \in {":", " "} => LabelRead(Reading(doc'))
  <2>1. c \in Alphabet => Reading(doc') = ReadSymbol(Reading(doc), c)
    BY <1>1, <1>2, NestReads
  <2>2. c \in Alphabet =>
          /\ Begun(ReadSymbol(Reading(doc), c), Awaited(stack), c)
          /\ c # Quote => Ended(ReadSymbol(Reading(doc), c), Awaited(stack), c)
          /\ c \in {":", " "} => LabelRead(ReadSymbol(Reading(doc), c))
    BY <1>2, <1>3, PlainRead
  <2>3. QED
    BY <2>1, <2>2
<1>5. ASSUME c \in {":", " "} PROVE Plain(Reading(doc'), Awaited(stack)) /\ LabelRead(Reading(doc'))
  <2>1. c \in Alphabet /\ c # Quote
    BY <1>5, SymbolsApart DEF Input, EOF, ERR
  <2>2. Opened(Awaited(stack), c) = Awaited(stack)
    BY <1>5, OpenedSame
  <2>3. QED
    BY <1>4, <1>5, <2>1, <2>2 DEF Ended
<1>6. ASSUME NEW message, message # "none", Report(message), Fail("Object_ReadMember") PROVE NestInv'
  <2>1. Told'
    BY <1>6, ToldReported
  <2>2. QED
    BY <1>1, <1>6, <2>1, FailNest
<1>7. CASE IsSpace(c) /\ UNCHANGED <<stack, ret, mem, pe>>
  <2>1. ReadBy(Top, Reading(doc'), Awaited(stack))
    BY <1>2, <1>5, <1>7 DEF ReadBy, IsSpace
  <2>2. QED
    BY <1>1, <1>7, <2>1, SkipNest
<1>8. CASE c = ":" /\ Stay([Top EXCEPT !.colon = TRUE])
  <2> DEFINE f == [Top EXCEPT !.colon = TRUE]
  <2>1. f \in Frames /\ f.fn = "Object_ReadMember" /\ Stay(f)
    BY <1>2, <1>8, MemberFrameKept DEF Same
  <2> HIDE DEF f
  <2>2. Alike(f, Top) /\ ReadBy(f, Reading(doc'), Awaited(stack))
    BY <1>2, <1>5, <1>8, <2>1 DEF Alike, ReadBy
  <2>3. QED
    BY <1>1, <2>1, <2>2, StayNest
<1>9. CASE c \in Alphabet /\ Call(JParserFrame(c, NULL))
  <2> DEFINE f == JParserFrame(c, NULL)
  <2>1. f \in Frames
    BY <1>9, FrameTypes DEF Starters, Pointer
  <2>2. ReadBy(f, Reading(doc'), Awaited(stack)) /\ f.fn = "JParser"
    BY <1>4, <1>9, ValueBegunNest
  <2>3. stack' = Append(stack, f) /\ ret' = Running
    BY <1>9 DEF Call
  <2> HIDE DEF f
  <2>4. Awaited(Append(stack, f)) = Awaited(stack)
    BY <1>2, <2>1, <2>2, AwaitedPush
  <2>5. MayCall(Last(stack), f)
    BY <1>2, <2>2 DEF MayCall
  <2>6. QED
    BY <1>2, <2>1, <2>2, <2>3, <2>4, <2>5, CallNest
<1>10. CASE Report("colons must follow labels") /\ Fail("Object_ReadMember")
  BY <1>6, <1>10
<1>11. CASE Report("unexpected end-of-file") /\ Fail("Object_ReadMember")
  BY <1>6, <1>11
<1>12. CASE c = ERR /\ Fail("Object_ReadMember")
  <2>1. Reading(doc') = Reading(doc) /\ io' = "error"
    BY <1>1, <1>2, <1>12, NestReads
  <2>2. FailedBehindLabel'
    BY <1>3, <2>1 DEF FailedBehindLabel, LabelRead
  <2>3. Told'
    BY <2>2 DEF Told
  <2>4. QED
    BY <1>1, <1>12, <2>3, FailNest
<1>13. QED
  BY <1>7, <1>8, <1>9, <1>10, <1>11, <1>12 DEF OM_Read

LEMMA AfterValueNest ==
  ASSUME ParserInv, NestInv, ~MallocMayFail, OM_AfterValue
  PROVE  NestInv'
<1>1. /\ In("Object_ReadMember") /\ phase' = phase /\ doc' = doc /\ io' = io /\ pe' = pe
      /\ ret.fn = "JParser"
  BY DEF OM_AfterValue, Resuming, Frame, NoRead
<1>2. /\ stack # <<>> /\ stack \in Seq(Frames) /\ Top = Last(stack)
      /\ Top.fn = "Object_ReadMember"
      /\ ret.ok => Returns(ret, stack, Reading(doc), Awaited(stack), mem.text)
      /\ ~ret.ok => Told
  BY <1>1, NestTop
<1>3. CASE OM_NoValue
  <2>1. Fail("Object_ReadMember") /\ Told'
    BY <1>1, <1>2, <1>3, ToldKept DEF OM_NoValue
  <2>2. QED
    BY <1>1, <2>1, FailNest
<1>4. CASE OM_Property
  <2> DEFINE r == Returned("Object_ReadMember", TRUE, FreeNode(mem), NULL, ret.end)
  <2>1. r.fn = "Object_ReadMember" /\ r.ok /\ r.end = ret.end /\ Return(r) /\ ret.ok
    BY <1>4 DEF OM_Property, Returned
  <2>2. Ended(Reading(doc), Awaited(stack), ret.end) /\ ~Opening(ret.end)
    BY <1>1, <1>2, <2>1 DEF Returns
  <2>3. Awaited(stack) = Awaited(Front(stack))
    BY <1>2, AwaitedPop
  <2> HIDE DEF r
  <2>4. Returns(r, Front(stack), Reading(doc'), Awaited(Front(stack)), mem'.text)
    BY <1>1, <2>1, <2>2, <2>3 DEF Returns
  <2>5. QED
    BY <1>1, <2>1, <2>4, ReturnNest
<1>5. ~OM_NoProperty /\ ~OM_NoLabelNode
  BY DEF OM_NoProperty, OM_NoLabelNode
<1>6. QED
  BY <1>3, <1>4, <1>5 DEF OM_AfterValue

LEMMA FileNest ==
  ASSUME ParserInv, NestInv, PF_AfterJParser \/ CallerDestroys \/ \E c \in Input : PF_Confirm(c)
  PROVE  NestInv'
<1>1. CASE PF_AfterJParser
  <2>1. /\ ret.fn # "none" /\ (~ret.ok => Told) /\ Calls(stack) /\ stack = <<>>
        /\ ret.ok => Returns(ret, stack, Reading(doc), Awaited(stack), mem.text)
    BY <1>1 DEF PF_AfterJParser, NestInv
  <2>2. /\ stack' = stack /\ UNCHANGED <<doc, io, pe>>
        /\ phase' = IF ret.ok THEN "confirm" ELSE "rejected"
    BY <1>1 DEF PF_AfterJParser, NoRead
  <2>3. ~ret.ok => Told'
    BY <2>1, <2>2, ToldKept
  <2>4. ret.ok => Plain(Reading(doc'), <<>>)
    <3>1. ret.ok => ~Opening(ret.end) /\ Ended(Reading(doc), Awaited(stack), ret.end)
      BY <2>1 DEF Returns
    <3>2. ~Opening(ret.end) => Opened(<<>>, ret.end) = <<>>
      BY DEF Opening, Opened
    <3>3. Awaited(stack) = <<>>
      BY <2>1, AwaitedNothing
    <3>4. QED
      BY <2>2, <3>1, <3>2, <3>3 DEF Ended
  <2>5. QED
    BY <2>1, <2>2, <2>3, <2>4 DEF NestInv
<1>2. CASE CallerDestroys
  BY <1>2 DEF CallerDestroys, NestInv, NoRead
<1>3. ASSUME NEW c \in Input, PF_Confirm(c) PROVE NestInv'
  <2>1. phase' = "rejected" => Told'
    <3>1. phase' = "rejected" => Report("forbidden characters following singleton root object")
      BY <1>3 DEF PF_Confirm
    <3>2. QED
      BY <3>1, ToldReported
  <2>2. stack' = stack /\ phase' # "parse" /\ Read(c) /\ phase = "confirm"
        /\ (phase' # "rejected" => c = " " \/ c \in {EOF, ERR})
    BY <1>3 DEF PF_Confirm, IsSpace
  <2>3. Plain(Reading(doc), <<>>) /\ Calls(stack)
    BY <2>2 DEF NestInv
  <2>4. doc \in Seq(Alphabet) /\ Reading(doc) \in ReadingStates(Alphabet)
    BY ReadingType DEF ParserInv, Shape
  <2>5. c \in {EOF, ERR} => Plain(Reading(doc'), <<>>)
    BY <2>2, <2>3, <2>4, NestReads
  <2>6. c = " " => Plain(Reading(doc'), <<>>)
    <3>1. c = " " => c \in Alphabet /\ c # Quote /\ Opened(<<>>, c) = <<>>
      BY OpenedSame, SymbolsApart DEF Input, EOF, ERR
    <3>2. c \in Alphabet => Reading(doc') = ReadSymbol(Reading(doc), c)
      BY <2>2, <2>4, NestReads
    <3>3. c \in Alphabet /\ c # Quote => Ended(ReadSymbol(Reading(doc), c), <<>>, c)
      BY <2>3, <2>4, PlainRead
    <3>4. QED
      BY <3>1, <3>2, <3>3 DEF Ended
  <2>7. QED
    BY <2>1, <2>2, <2>3, <2>5, <2>6 DEF NestInv
<1>4. QED
  BY <1>1, <1>2, <1>3

LEMMA NestInit == Init => NestInv
<1> SUFFICES ASSUME Init PROVE NestInv
  OBVIOUS
<1> DEFINE f == JParserFrame("NUL", NULL)
<1>1. f \in Frames /\ f.fn = "JParser" /\ f.chr = " "
  BY FrameTypes DEF Pointer, JParserFrame
<1>2. stack = <<f>> /\ ret.fn = "none" /\ phase = "parse" /\ doc = <<>>
  BY DEF Init, Running, Returned
<1> HIDE DEF f
<1>3. stack = Append(<<>>, f) /\ <<>> \in Seq(Frames)
  <2>1. f \in Frames /\ stack = <<f>>
    BY <1>1, <1>2
  <2>2. QED
    BY <2>1
<1>4. Calls(stack) /\ stack # <<>> /\ Last(stack) = f
  <2>1. Calls(<<>>)
    BY DEF Calls
  <2>2. QED
    BY <1>1, <1>3, <2>1, CallsPush, LastAppended
<1>5. Awaited(stack) = <<>>
  BY <1>1, <1>3, AwaitedPush, AwaitedNothing
<1>6. ReadBy(f, Reading(doc), Awaited(stack))
  <2>1. Reading(doc) = Unread
    BY <1>2, ReadingNothing
  <2>2. Opened(<<>>, " ") = <<>> /\ " " # Quote
    BY OpenedSame, SymbolsApart
  <2>3. Begun(Unread, <<>>, " ")
    BY <2>2 DEF Begun, Unread
  <2>4. QED
    BY <1>1, <1>5, <2>1, <2>3 DEF ReadBy
<1>7. QED
  BY <1>2, <1>4, <1>6 DEF NestInv

LEMMA NestStep ==
  ASSUME ParserInv, NestInv, ~MallocMayFail, [Next]_vars
  PROVE  NestInv'
<1>1. CASE Step
  <2>1. ASSUME NEW c \in Input, ReadString(c) \/ JP_Skip(c) \/ CollectionRead(c) \/ OM_Read(c)
        PROVE  NestInv'
    BY <2>1, ReadStringNest, ParserSkipNest, CollectionReadNest, MemberReadNest
  <2>2. CASE JP_Switch \/ JP_AfterCollection \/ JP_AfterString
    BY <2>2, SwitchNest, AfterCollectionNest, AfterStringNest
  <2>3. CASE PC_AfterMember \/ OM_AfterLabel \/ OM_AfterValue
    BY <2>3, AfterMemberNest, AfterLabelNest, AfterValueNest
  <2>4. CASE PF_AfterJParser \/ CallerDestroys \/ \E c \in Input : PF_Confirm(c)
    BY <2>4, FileNest
  <2>5. QED
    BY <1>1, <2>1, <2>2, <2>3, <2>4 DEF Step
<1>2. CASE UNCHANGED vars
  BY <1>2 DEF vars, NestInv, Told, MessageSet, FailedBehindLabel
<1>3. QED
  BY <1>1, <1>2 DEF Next, Rest

\* How many calls there are for each bracket that is awaited.
Slack(f) ==
  CASE f.fn = "parse_collection" -> 0 [] f.fn = "Object_ReadMember" -> 1
    [] f.fn = "JParser" -> 2 [] OTHER -> 3
Short(st, k) ==
  /\ AwaitedTo(st, k) \in Brackets
  /\ k + 1 <= 3 * Len(AwaitedTo(st, k)) + Slack(st[k])

LEMMA AwaitsLength ==
  ASSUME NEW o \in Brackets, NEW f
  PROVE  /\ Awaits(o, f) \in Brackets /\ Len(o) \in Nat
         /\ Len(Awaits(o, f)) = Len(o) + IF f.fn = "parse_collection" THEN 1 ELSE 0
<1>1. Awaits(o, f) \in Brackets
  BY AwaitsType
<1>2. Len(<<EndChar(f.kind)>> \o o) = Len(o) + 1 /\ Len(o) \in Nat
  <2> DEFINE S == {"]", "}"}
  <2>1. EndChar(f.kind) \in S
    BY DEF EndChar
  <2>2. o \in Seq(S)
    BY Zenon DEF Brackets
  <2> HIDE DEF S
  <2>3. QED
    BY <2>1, <2>2, Prepended
<1>3. QED
  BY <1>1, <1>2 DEF Awaits

LEMMA FewCalls ==
  ASSUME NEW st \in Seq(Frames), Calls(st), st # <<>>
  PROVE  Len(st) + 1 <= 3 * Len(Awaited(st)) + Slack(Last(st))
<1> DEFINE n == Len(st)
           T == {k \in 1..n : Short(st, k)}
<1>1. n \in Nat /\ n > 0 /\ Last(st) = st[n]
  BY FrontLast
<1>2. \A k \in 1..n : st[k].fn \in {"JParser", "parse_collection", "Object_ReadMember", "JReadString"}
  BY DEF Frames
<1>3. st[1].fn = "JParser" /\ \A k \in 2..n : MayCall(st[k - 1], st[k])
  BY DEF Calls
<1>4. /\ AwaitedTo(st, 0) = <<>> /\ Awaited(st) = AwaitedTo(st, n)
      /\ \A k \in 1..n : AwaitedTo(st, k) = Awaits(AwaitedTo(st, k - 1), st[k])
  BY AwaitedSteps
<1>5. T \in SUBSET (Nat \ {0})
  OBVIOUS
<1> HIDE DEF n
<1>6. 1 \in T
  <2> DEFINE e == <<>>
  <2>1. e \in Brackets /\ Len(e) = 0
    BY DEF Brackets
  <2>2. AwaitedTo(st, 1) = Awaits(e, st[1])
    BY <1>1, <1>4
  <2> HIDE DEF e
  <2>3. AwaitedTo(st, 1) \in Brackets /\ Len(AwaitedTo(st, 1)) = 0
    <3>1. /\ Awaits(e, st[1]) \in Brackets
          /\ Len(Awaits(e, st[1])) = Len(e) + IF st[1].fn = "parse_collection" THEN 1 ELSE 0
      BY <2>1, AwaitsLength
    <3>2. Len(Awaits(e, st[1])) = 0
      BY <1>3, <2>1, <3>1
    <3>3. QED
      BY <2>2, <3>1, <3>2
  <2>4. QED
    BY <1>1, <1>3, <2>3 DEF Short, Slack
<1>7. ASSUME NEW k \in T, k + 1 <= n PROVE k + 1 \in T
  <2>1. /\ k \in 1..n /\ k + 1 \in 1..n /\ k + 1 \in 2..n /\ (k + 1) - 1 = k /\ k \in Nat
        /\ AwaitedTo(st, k) \in Brackets
        /\ k + 1 <= 3 * Len(AwaitedTo(st, k)) + Slack(st[k])
    BY <1>1, <1>7 DEF Short
  <2>2. AwaitedTo(st, k + 1) = Awaits(AwaitedTo(st, k), st[k + 1]) /\ MayCall(st[k], st[k + 1])
    BY <1>3, <1>4, <2>1
  <2>3. /\ AwaitedTo(st, k + 1) \in Brackets /\ Len(AwaitedTo(st, k)) \in Nat
        /\ Len(AwaitedTo(st, k + 1)) = Len(AwaitedTo(st, k))
                                       + IF st[k + 1].fn = "parse_collection" THEN 1 ELSE 0
    BY <2>1, <2>2, AwaitsLength
  <2>4. /\ Slack(st[k]) \in 0..3 /\ Slack(st[k + 1]) \in 0..3
        /\ st[k + 1].fn = "parse_collection" => Slack(st[k]) = 2 /\ Slack(st[k + 1]) = 0
        /\ st[k + 1].fn # "parse_collection" => Slack(st[k + 1]) >= Slack(st[k]) + 1
    <3>1. st[k].fn \in {"JParser", "parse_collection", "Object_ReadMember", "JReadString"}
          /\ st[k + 1].fn \in {"JParser", "parse_collection", "Object_ReadMember", "JReadString"}
      BY <1>2, <2>1
    <3>2. QED
      BY <2>2, <3>1 DEF Slack, MayCall
  <2>5. (k + 1) + 1 <= 3 * Len(AwaitedTo(st, k + 1)) + Slack(st[k + 1])
    BY <2>1, <2>3, <2>4
  <2>6. QED
    BY <2>1, <2>3, <2>5 DEF Short
<1>8. 1..n \subseteq T
  <2> HIDE DEF T
  <2>1. QED
    BY <1>1, <1>5, <1>6, <1>7, Counting
<1>9. n \in T
  BY <1>1, <1>8
<1>10. QED
  BY <1>1, <1>4, <1>9 DEF Short, n

\* While malloc works, the innermost call knows which brackets the document
\* has left open, and a call that fails has said so.
THEOREM NestInvHolds == ~MallocMayFail => (Spec => []NestInv)
<1> SUFFICES ASSUME ~MallocMayFail PROVE Spec => []NestInv
  OBVIOUS
<1>1. ParserInv /\ NestInv /\ [Next]_vars => NestInv'
  BY NestStep
<1>2. QED
  BY <1>1, NestInit, ParserInvHolds, PTL DEF Spec

\* While malloc works, the recursion is as deep as the document is nested, and
\* no deeper (JParser.c:263, 359, 368).
THEOREM StackIsNesting == ~MallocMayFail => (Spec => []StackByNesting)
<1>1. ParserInv /\ NestInv => StackByNesting
  <2> SUFFICES ASSUME ParserInv, NestInv, Executing("parse_collection") PROVE StackByNesting
    BY DEF StackByNesting
  <2>1. In("parse_collection") /\ ret = Running
    BY DEF Executing
  <2>2. /\ stack \in Seq(Frames) /\ stack # <<>> /\ Calls(stack) /\ Top = Last(stack)
        /\ Top.fn = "parse_collection" /\ Awaited(stack) \in Brackets
        /\ ReadBy(Top, Reading(doc), Awaited(stack))
    BY <2>1, NestTop
  <2>3. Reading(doc).open = Awaited(stack)
    BY <2>2 DEF ReadBy, Plain
  <2>4. Len(stack) + 1 <= 3 * Len(Awaited(stack)) + 0
    BY <2>2, FewCalls DEF Slack
  <2>5. Len(stack) \in Nat /\ Len(Awaited(stack)) \in Nat
    BY <2>2, AwaitsLength
  <2>6. QED
    BY <2>3, <2>4, <2>5 DEF StackByNesting
<1>2. SUFFICES ASSUME ~MallocMayFail PROVE Spec => []StackByNesting
  OBVIOUS
<1>3. QED
  BY <1>1, <1>2, NestInvHolds, ParserInvHolds, PTL

\* While malloc works, the caller of a rejected document has the message and
\* the offset of the end of what was read, but for a read error between a
\* label and its value (JParser.c:20-25, 155; jsondom.c:43-44).
THEOREM RejectionsTold == ~MallocMayFail => (Spec => []RejectionReported)
<1>1. NestInv => RejectionReported
  BY DEF NestInv, Told, RejectionReported
<1>2. SUFFICES ASSUME ~MallocMayFail PROVE Spec => []RejectionReported
  OBVIOUS
<1>3. QED
  BY <1>1, <1>2, NestInvHolds, PTL

\* While malloc works, an accepted document has closed every bracket and every
\* quote it opens (JParser.c:304-312, jsondom.c:36-41).
THEOREM AcceptedClosed == ~MallocMayFail => (Spec => []AcceptedIsClosed)
<1>1. NestInv => AcceptedIsClosed
  BY DEF NestInv, Plain, AcceptedIsClosed
<1>2. SUFFICES ASSUME ~MallocMayFail PROVE Spec => []AcceptedIsClosed
  OBVIOUS
<1>3. QED
  BY <1>1, <1>2, NestInvHolds, PTL
=============================================================================
