----------------------------- MODULE Accessors -----------------------------
(***************************************************************************)
(* How a client walks a tree and reads its nodes (jsondom.c:62-272).  None *)
(* of these functions changes the tree m.                                  *)
(***************************************************************************)
EXTENDS NodeMemory, Integers, Sequences
LOCAL INSTANCE SequencesExt

\* Slip: two links have changed places in the structure but not in the enum.
LayoutSwapped == <<"parent", "next", "first", "last", "prev">>

\* The links in the order of the structure, which jd_get_relation takes for an
\* array of pointers.
Layout == <<"parent", "next", "first", "prev", "last">>

\* jd_Relation.
JD_PARENT == 0
JD_NEXT == 1
JD_FIRST == 2
JD_PREVIOUS == 3
JD_LAST == 4

jd_get_relation(m, n, relation) ==
  IF n # NULL /\ relation \in 0..JD_LAST THEN m.heap[n][Layout[relation + 1]] ELSE NULL

\* The functions named for one relation.
parent(m, n) == IF n = NULL THEN NULL ELSE m.heap[n].parent
nextSibling(m, n) == IF n = NULL THEN NULL ELSE m.heap[n].next
prevSibling(m, n) == IF n = NULL THEN NULL ELSE m.heap[n].prev
firstChild(m, n) == IF n = NULL THEN NULL ELSE m.heap[n].first
lastChild(m, n) == IF n = NULL THEN NULL ELSE m.heap[n].last

\* jd_Type in the order of its values, and the names indexed by them.
JdTypes ==
  <<"null", "true", "false", "string", "integer", "float", "array", "property", "object">>
TypeNames ==
  <<"null", "true", "false", "string", "integer", "float", "array", "property", "object">>

jd_id_type(m, n) == IF n = NULL THEN -1 ELSE SelectInSeq(JdTypes, LAMBDA t : t = m.type[n]) - 1
jd_id_name(m, n) == IF n = NULL THEN "nonode" ELSE TypeNames[jd_id_type(m, n) + 1]
jd_generic_value(m, n) == IF n = NULL THEN NULL ELSE m.payload[n]

-----------------------------------------------------------------------------
\* The string literals jd_node_value copies from, with their terminator.
Constant(type) ==
  CASE type = "null" -> <<"n", "u", "l", "l", "NUL">>
    [] type = "true" -> <<"t", "r", "u", "e", "NUL">>
    [] type = "false" -> <<"f", "a", "l", "s", "e", "NUL">>
    [] type = "array" -> <<"*", "a", "r", "r", "a", "y", "*", "NUL">>
    [] type = "object" -> <<"*", "o", "b", "j", "e", "c", "t", "*", "NUL">>

\* Slip: the terminators of label and value are not counted.
PropertyLengthShort(label, value) == label - 1 + value - 1 + 1

\* Both lengths count a terminator, and two bytes are added for the colon and
\* another terminator.
PropertyLength(label, value) == label + value + 2

RECURSIVE jd_node_value_length(_, _)
jd_node_value_length(m, n) ==
  LET t == m.type[n] IN
  CASE t \in {"null", "true"} -> 5
    [] t = "false" -> 6
    [] t \in TextTypes -> 1 + Len(m.text[m.payload[n]])
    [] t = "array" -> 8
    [] t = "object" -> 9
    [] t = "property" -> PropertyLength(jd_node_value_length(m, m.heap[n].first),
                                        jd_node_value_length(m, m.heap[n].last))

\* The bytes jd_node_value writes to the buffer, from its beginning; none if
\* the buffer is too short.
RECURSIVE jd_node_value(_, _, _)
jd_node_value(m, n, bufflen) ==
  LET len == jd_node_value_length(m, n)
      t == m.type[n]
      label == m.heap[n].first
  IN IF bufflen < len THEN <<>>
     ELSE CASE t \in TextTypes -> Append(m.text[m.payload[n]], "NUL")
            [] t = "property" ->
                 LET tlen == jd_node_value_length(m, label) - 1
                 IN SubSeq(m.text[m.payload[label]], 1, tlen) \o <<":">>
                    \o jd_node_value(m, m.heap[n].last, len - tlen - 1)
            [] OTHER -> SubSeq(Constant(t), 1, len)
=============================================================================
