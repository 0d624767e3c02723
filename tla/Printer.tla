------------------------------ MODULE Printer ------------------------------
(***************************************************************************)
(* jd_Node_serialize and the printers of jd_Node.c:398-585: the symbols a  *)
(* tree is printed as.  A line break with the indentation behind it is one *)
(* space, Gap; the width of the indentation is kept only as far as it      *)
(* decides what is printed.  A printer whose assertion fails, or that is   *)
(* called through a null pointer, prints Abort.                            *)
(***************************************************************************)
EXTENDS NodeMemory, Integers, Sequences

Gap == " "
Abort == <<"abort">>

\* Any negative indent prints everything on one line.
NoIndent == -1

\* printf of s behind "\n%*c": %*c prints at least one space.
Line(s, indent) == IF indent < 0 THEN s ELSE <<Gap>> \o s

Quoted(t) == <<"quote">> \o t \o <<"quote">>

RECURSIVE PrintNode(_, _, _), PrintChildren(_, _, _)

\* jd_Node_print_null, _true and _false.
PrintKeyword(m, n, indent) == Line(<<m.type[n]>>, indent)

\* jd_Node_print_string, _integer and _float.
PrintText(m, n, indent) ==
  Line(IF m.type[n] = "string" THEN Quoted(m.text[m.payload[n]])
        ELSE m.text[m.payload[n]], indent)

\* Slip: the comma is printed before it is known whether a sibling follows.
PrintChildrenComma(m, c, indent) ==
  IF c = NULL THEN <<>>
  ELSE PrintNode(m, c, indent) \o <<",">> \o PrintChildren(m, m.heap[c].next, indent)

\* The loop over the children from c on, with commas between them.
PrintChildren(m, c, indent) ==
  IF c = NULL THEN <<>>
  ELSE PrintNode(m, c, indent)
       \o (IF m.heap[c].next = NULL THEN <<>>
           ELSE <<",">> \o PrintChildren(m, m.heap[c].next, indent))

\* jd_Node_print_array and jd_Node_print_object.
PrintCollection(m, n, open, close, indent) ==
  Line(<<open>>, indent)
  \o PrintChildren(m, m.heap[n].first, IF indent < 0 THEN indent ELSE indent + 4)
  \o Line(<<close>>, indent)

\* jd_Node_print_property: the asserted shape, the label, and the value, on
\* the same line unless it is a collection.
PrintProperty(m, n, indent) ==
  LET label == m.heap[n].first
      value == m.heap[n].last
  IN IF label = NULL \/ m.type[label] # "string" \/ m.heap[label].next # value THEN Abort
     ELSE Line(Quoted(m.text[m.payload[label]]) \o <<":">>, indent)
          \o PrintNode(m, value,
               IF indent < 0 THEN indent
               ELSE IF m.type[value] \in {"array", "property", "object"} THEN indent + 4
               ELSE NoIndent)

\* A call through jNode_printers, which is indexed by type.
PrintNode(m, n, indent) ==
  LET t == m.type[n] IN
  CASE t \in {"null", "true", "false"} -> PrintKeyword(m, n, indent)
    [] t \in TextTypes -> PrintText(m, n, indent)
    [] t = "array" -> PrintCollection(m, n, "[", "]", indent)
    [] t = "property" -> PrintProperty(m, n, indent)
    [] t = "object" -> PrintCollection(m, n, "{", "}", indent)

\* jd_Node_serialize.
Serialize(m, n, indent) == PrintNode(m, n, indent) \o <<Gap>>

\* jd_serialize: to standard output, whatever file the caller names.
jd_serialize(m, n) == Serialize(m, n, 0)
=============================================================================
