----------------------------- MODULE NodeMemory -----------------------------
(***************************************************************************)
(* The memory the parser works on, as one value, and the calls it makes on *)
(* it, as functions from memory to memory that can be nested in the order  *)
(* the code makes them.  fault tells whether a call has touched or freed a *)
(* block that is not allocated ("misuse") or failed an assertion.          *)
(***************************************************************************)
EXTENDS NodeHeap

\* No block allocated.  text is the content of every string block.
NoMemory == [heap |-> [n \in Node |-> ZeroCell],
             type |-> [n \in Node |-> "null"],
             payload |-> [n \in Node |-> NULL],
             live |-> {}, strs |-> {},
             text |-> [s \in Str |-> <<>>],
             fault |-> "none"]

\* malloc hands out free blocks in a fixed order.
FreeNode(m) == CHOOSE n \in Node : n \notin m.live
FreeStr(m) == CHOOSE s \in Str : s \notin m.strs
NodeLeft(m) == Node \ m.live # {}
StrLeft(m) == Str \ m.strs # {}

\* jd_Node_create without a parent.
NewNode(m, n) ==
  [m EXCEPT !.live = @ \cup {n}, !.heap[n] = ZeroCell,
            !.type[n] = "null", !.payload[n] = NULL]

\* m after a call that is faulty unless ok.
Checked(m, ok) == IF ok THEN m ELSE [m EXCEPT !.fault = "misuse"]

\* jd_Node_adopt at the end of the children; the callers pass no "before".
\* Without a parent there is nothing to do.
AdoptLast(m, a, p) ==
  IF p = NULL THEN m
  ELSE IF a # NULL /\ ~(AdoptTouches(m.heap, a, p, NULL) \subseteq m.live)
  THEN Checked(m, FALSE)
  ELSE IF ~AdoptAsserts(m.heap, a, p, NULL)
  THEN [m EXCEPT !.fault = "assertion"]
  ELSE [m EXCEPT !.heap = Adopt(@, a, p, NULL)]

NewText(m, s, t) == [m EXCEPT !.strs = @ \cup {s}, !.text[s] = t]

FreeText(m, s) ==
  IF s = NULL THEN m
  ELSE Checked([m EXCEPT !.strs = @ \ {s}, !.text[s] = <<>>], s \in m.strs)

\* The setters: discard the payload, then set the type and the new payload.
SetValue(m, n, t, s) ==
  [FreeText(m, m.payload[n]) EXCEPT !.type[n] = t, !.payload[n] = s]

\* jd_Node_destroy: n, what it leads to, and their payloads.
FreeTree(m, n) ==
  IF n = NULL THEN m
  ELSE LET D == Span(m.heap, n)
           P == {m.payload[d] : d \in D} \ {NULL}
           Sound == /\ D \subseteq m.live /\ P \subseteq m.strs
                    /\ VisitsOnce(m.heap, n)
                    /\ \A x, y \in D :
                         m.payload[x] = m.payload[y] => x = y \/ m.payload[x] = NULL
       IN Checked([m EXCEPT
                     !.live = @ \ D, !.heap = FreeNodes(@, D),
                     !.type = [d \in Node |-> IF d \in D THEN "null" ELSE @[d]],
                     !.payload = [d \in Node |-> IF d \in D THEN NULL ELSE @[d]],
                     !.strs = @ \ P,
                     !.text = [s \in Str |-> IF s \in P THEN <<>> ELSE @[s]]],
                  Sound)
=============================================================================
