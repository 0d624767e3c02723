---------------------------- MODULE StringReader ----------------------------
(***************************************************************************)
(* What JReadString promises its callers: the text of one string, however  *)
(* its characters are kept and wherever they come from.  Both JReadString, *)
(* with its bag of leaves, and JParser, with its frames, implement it.     *)
(***************************************************************************)
EXTENDS StringText

VARIABLES state,   \* "idle", "reading", "done", "failed"
          first,   \* the character that began the string
          escape,  \* the last character read was an unescaped backslash
          bag,     \* the characters collected
          string,  \* the text handed over
          end      \* the character that ended it, "NUL" at the end of the file

vars == <<state, first, escape, bag, string, end>>

Idle ==
  /\ state = "idle" /\ first = "NUL" /\ ~escape
  /\ bag = <<>> /\ string = <<>> /\ end = "NUL"

Init == Idle

Reading == state = "reading"
Result == UNCHANGED <<string, end>>

Begin ==
  /\ state = "idle" /\ state' = "reading"
  /\ first' \in Alphabet /\ bag' = FirstBag(first')
  /\ UNCHANGED escape /\ Result

\* The string is handed over; what was collected is gone.
Finish(c) ==
  /\ state' = "done" /\ string' = CString(bag) /\ end' = c
  /\ first' = "NUL" /\ escape' = FALSE /\ bag' = <<>>
Break ==
  /\ state' = "failed"
  /\ first' = "NUL" /\ escape' = FALSE /\ bag' = <<>> /\ Result

Collect(b) == bag' = b /\ UNCHANGED <<state, first>> /\ Result

Escaped ==
  /\ Reading /\ escape /\ escape' = FALSE
  /\ \E c \in Alphabet : \E b \in Added(bag, Escape) : \E b2 \in Added(b, c) : Collect(b2)

BeginEscape == Reading /\ ~escape /\ escape' = TRUE /\ Collect(bag)

Char ==
  /\ Reading /\ ~escape /\ UNCHANGED escape
  /\ \E c \in Alphabet \ {Escape} :
       ~EndCheck(first, c) /\ \E b \in Added(bag, c) : Collect(b)

\* At the first end character the string is complete, unless it cannot be
\* allocated: then reading goes on (and that step is a stutter here).
End == Reading /\ ~escape /\ \E c \in Alphabet : EndCheck(first, c) /\ Finish(c)

\* No more characters: a quoted string is incomplete, a literal complete.
NoMore ==
  /\ Reading
  /\ \/ first = Quote /\ Break
     \/ first # Quote /\ (Finish("NUL") \/ (MallocMayFail /\ Break))

\* The caller has looked at the result.
Dismiss ==
  /\ state \in {"done", "failed"}
  /\ state' = "idle" /\ first' = "NUL" /\ escape' = FALSE
  /\ bag' = <<>> /\ string' = <<>> /\ end' = "NUL"

Next == Begin \/ Escaped \/ BeginEscape \/ Char \/ End \/ NoMore \/ Dismiss
Spec == Init /\ [][Next]_vars
=============================================================================
