---------------------------- MODULE JsonReading ----------------------------
(***************************************************************************)
(* A document read from left to right with no more than its quotes and     *)
(* brackets in mind: inside a string or not, behind an escape or not,      *)
(* which brackets are open, and which symbols carry meaning.               *)
(***************************************************************************)
EXTENDS Naturals, SequencesExt

\* The brackets still to be closed, innermost first, once c is read outside a
\* string.
Opened(open, c) ==
  CASE c = "[" -> <<"]">> \o open
    [] c = "{" -> <<"}">> \o open
    [] c \in {"]", "}"} /\ open # <<>> -> Tail(open)
    [] OTHER -> open

\* Space and all but the first of several colons carry no meaning.
Meaningless(kept, c) == c = " " \/ (c = ":" /\ kept # <<>> /\ Last(kept) = ":")

ReadSymbol(st, c) ==
  IF st.escape THEN [st EXCEPT !.escape = FALSE, !.kept = Append(@, c)]
  ELSE IF st.quoted
  THEN [st EXCEPT !.escape = (c = "backslash"), !.quoted = (c # "quote"), !.kept = Append(@, c)]
  ELSE IF Meaningless(st.kept, c) THEN st
  ELSE [st EXCEPT !.quoted = (c = "quote"), !.kept = Append(@, c), !.open = Opened(@, c)]

Unread == [quoted |-> FALSE, escape |-> FALSE, open |-> <<>>, kept |-> <<>>]
Reading(s) == FoldLeft(ReadSymbol, Unread, s)
=============================================================================
