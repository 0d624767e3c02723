-------------------------- MODULE ParserOwnership --------------------------
(***************************************************************************)
(* Who is in charge of every node and string while JParser.c parses, and   *)
(* the safety properties that say so.                                      *)
(***************************************************************************)
EXTENDS JParser

\* The node and the label that a running call is in charge of.
NodeAt(f) == IF f.fn = "parse_collection" THEN f.node ELSE NULL
LabelAt(f) == IF f.fn = "Object_ReadMember" THEN f.label ELSE NULL

NodesOf(st) == {NodeAt(st[i]) : i \in DOMAIN st} \ {NULL}
LabelsOf(st) == {LabelAt(st[i]) : i \in DOMAIN st} \ {NULL}

\* The node that the last return value, or the caller, is in charge of.
Handed == IF phase \in {"parse", "confirm"} THEN ret.node ELSE tree

Roots == {n \in (NodesOf(stack) \cup {Handed}) \ {NULL} : mem.heap[n].parent = NULL}
Labels == LabelsOf(stack)
Payloads == {mem.payload[n] : n \in mem.live} \ {NULL}

\* Every variable has its type, and what the parser's variables point to is
\* allocated.
TypeOK ==
  /\ mem.heap \in [Node -> Cell] /\ mem.type \in [Node -> Types]
  /\ mem.payload \in [Node -> mem.strs \cup {NULL}]
  /\ mem.live \subseteq Node /\ mem.strs \subseteq Str
  /\ Roots \subseteq mem.live /\ Labels \subseteq mem.strs
  /\ Bounded(doc) /\ pe.loc <= Len(doc) /\ io \in {"open", "end", "error"}
  /\ phase \in {"parse", "confirm", "rejected", "accepted", "released"}
  /\ tree \in mem.live \cup {NULL}

\* No document makes the parser touch freed memory, free a block twice or
\* fail an assertion of jd_Node_adopt (JParser.c:118-134, 295-310, 425-433).
MemorySafe == mem.fault = "none"

\* Whatever malloc refuses, memory is misused only after a property has been
\* freed where it hangs in its object (JParser.c:133-134).
MisuseOnlyWhenTorn == mem.fault = "misuse" => torn # {}

\* The pieces under construction are forests at every step, also while calls
\* fail and unwind (JParser.c:118-125, 295-300, 427-433).
TreeLinked == torn = {} => Linked(mem.heap, mem.live, {})

\* At every point of the parse each unattached tree has one frame, or the
\* return value, in charge of it: whatever way the parse ends, no node is
\* leaked but the value of a member whose property cannot be allocated
\* (JParser.c:307-310, 113-135; jsondom.c:37-48).
NoNodeLost ==
  {n \in mem.live : mem.heap[n].parent = NULL} = Roots \cup (lost \cap Node)

\* Every string block is the payload of one node, a label in waiting, or in
\* the hands of the call that just returned, or lost.
StringsCharged ==
  /\ mem.strs = Payloads \cup Labels \cup ({ret.str} \ {NULL}) \cup (lost \cap Str)
  /\ Payloads \cap (Labels \cup {ret.str} \cup lost) = {}
  /\ Labels \cap ({ret.str} \cup lost) = {} /\ ret.str \notin lost
  /\ \A x, y \in mem.live : mem.payload[x] = mem.payload[y] => x = y \/ mem.payload[x] = NULL

\* A string is lost only as the text of an unquoted value, or, once malloc has
\* failed, as that of a value for which there was no node.
LostForReason ==
  \A s \in lost \cap Str :
    origin[s] = "literal" \/ (origin[s] = "unmade" /\ MallocMayFail)

\* Every string has one owner; lost are the texts of unquoted values and, when
\* malloc fails, of values that got no node, quoted or not, but no other
\* quoted text, no label and no payload (JReadString.c:56-81, JParser.c:124,
\* 162, 379-391).
StringsOwned == StringsCharged /\ LostForReason

\* The message of the innermost call that failed is the one the caller gets:
\* no call on the way out overwrites it (JParser.c:286-310, 136-158).
FirstMessageKept == [][ret.fn # "none" /\ ~ret.ok => pe' = pe]_vars
=============================================================================
