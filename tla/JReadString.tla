---------------------------- MODULE JReadString ----------------------------
(***************************************************************************)
(* JReadString.c with the CharBag it collects its characters in: one call  *)
(* after another, each for a string that begins with any character and     *)
(* goes on with whatever the file holds.                                   *)
(***************************************************************************)
EXTENDS CharBag

CONSTANTS MaxRaw,       \* bound: the symbols one call reads, the first included
          ReadMayFail   \* whether read() may return -1

ASSUME ReaderAssumption == MaxRaw \in Nat \ {0} /\ ReadMayFail \in BOOLEAN

VARIABLES state,    \* "idle", "reading", "returned"
          handle,   \* the RSHandle, without end_check
          retval,   \* what the last call returned
          bag,      \* cbag
          escape,   \* escape_state
          io,       \* "open", or what further reads return: "end", "error"
          raw,      \* history: the symbols of this call, the first included
          refused   \* history: a malloc of this call has returned NULL

vars == <<state, handle, retval, bag, escape, io, raw, refused>>

EmptyHandle == [first_char |-> "NUL", string |-> NULL, end_signal |-> "NUL"]

Init ==
  /\ state = "idle" /\ handle = EmptyHandle /\ retval = FALSE
  /\ bag = initialize_CharBag /\ escape = FALSE /\ io = "open"
  /\ raw = <<>> /\ refused = FALSE

\* read(fh, &chr, 1).
Read(c) ==
  \/ /\ c \in Alphabet /\ io = "open" /\ Len(raw) < MaxRaw
     /\ raw' = Append(raw, c) /\ UNCHANGED io
  \/ c = EOF /\ io \in {"open", "end"} /\ io' = "end" /\ UNCHANGED raw
  \/ c = ERR /\ ReadMayFail /\ io \in {"open", "error"} /\ io' = "error" /\ UNCHANGED raw

\* Slip: the opening quote is kept with the characters.
BeginKeepsQuote(c) ==
  /\ state = "idle"
  /\ state' = "reading" /\ handle' = [EmptyHandle EXCEPT !.first_char = c]
  /\ \E r \in add_char_to_bag(initialize_CharBag, c) : bag' = r.bag /\ refused' = ~r.ok
  /\ raw' = <<c>> /\ escape' = FALSE /\ io' = "open" /\ retval' = FALSE

\* ReadStringInit and the beginning of JReadString.
Begin(c) ==
  /\ state = "idle"
  /\ state' = "reading" /\ handle' = [EmptyHandle EXCEPT !.first_char = c]
  /\ \E r \in IF c = Quote THEN {[bag |-> initialize_CharBag, ok |-> TRUE]}
              ELSE add_char_to_bag(initialize_CharBag, c) :
       bag' = r.bag /\ refused' = ~r.ok
  /\ raw' = <<c>> /\ escape' = FALSE /\ io' = "open" /\ retval' = FALSE

Reading == state = "reading"
Loop == UNCHANGED <<state, handle, retval>>

\* cleanup: the bag is emptied on every way out.
Return(ok, b) ==
  /\ state' = "returned" /\ retval' = ok
  /\ bag' = char_bag_cleanup(b) /\ UNCHANGED escape

\* The outcomes of char_bag_to_string: the string goes to the handle, or it
\* could not be allocated.
HandOver(r, end) ==
  /\ r.ok /\ handle' = [handle EXCEPT !.string = r.text, !.end_signal = end]
  /\ Return(TRUE, r.bag) /\ UNCHANGED refused
NoString(r) == ~r.ok /\ refused' = TRUE

\* Slip: the backslash of an escape is dropped.
EscapedBare(c) ==
  /\ Reading /\ escape /\ c \in Alphabet /\ Read(c)
  /\ \E r \in add_char_to_bag(bag, c) : bag' = r.bag /\ refused' = (refused \/ ~r.ok)
  /\ escape' = FALSE /\ Loop

Escaped(c) ==
  /\ Reading /\ escape /\ c \in Alphabet /\ Read(c)
  /\ \E r \in add_char_to_bag(bag, Escape) : \E r2 \in add_char_to_bag(r.bag, c) :
       bag' = r2.bag /\ refused' = (refused \/ ~r.ok \/ ~r2.ok)
  /\ escape' = FALSE /\ Loop

BeginEscape(c) ==
  /\ Reading /\ ~escape /\ c = Escape /\ Read(c)
  /\ escape' = TRUE /\ Loop /\ UNCHANGED <<bag, refused>>

\* At the end character.  If the string cannot be allocated the loop goes on.
End(c) ==
  /\ Reading /\ ~escape /\ c \in Alphabet /\ EndCheck(handle.first_char, c) /\ Read(c)
  /\ \E r \in char_bag_to_string(bag) :
       \/ HandOver(r, c)
       \/ NoString(r) /\ bag' = r.bag /\ UNCHANGED escape /\ Loop

Char(c) ==
  /\ Reading /\ ~escape
  /\ c \in Alphabet \ {Escape} /\ ~EndCheck(handle.first_char, c) /\ Read(c)
  /\ \E r \in add_char_to_bag(bag, c) : bag' = r.bag /\ refused' = (refused \/ ~r.ok)
  /\ UNCHANGED escape /\ Loop

\* Slip: a read error is taken for one more round of the loop.
NoMoreSpins(c) ==
  /\ Reading /\ c \in {EOF, ERR} /\ Read(c)
  /\ IF c = ERR THEN UNCHANGED <<bag, escape, refused>> /\ Loop
     ELSE IF handle.first_char = Quote
     THEN Return(FALSE, bag) /\ UNCHANGED <<handle, refused>>
     ELSE \E r \in char_bag_to_string(bag) :
            \/ HandOver(r, "NUL")
            \/ NoString(r) /\ Return(FALSE, r.bag) /\ UNCHANGED handle

\* Behind the loop, at the end of the file or after an error.
NoMore(c) ==
  /\ Reading /\ c \in {EOF, ERR} /\ Read(c)
  /\ IF handle.first_char = Quote
     THEN Return(FALSE, bag) /\ UNCHANGED <<handle, refused>>
     ELSE \E r \in char_bag_to_string(bag) :
            \/ HandOver(r, "NUL")
            \/ NoString(r) /\ Return(FALSE, r.bag) /\ UNCHANGED handle

\* ReadStringDestroy, with or without StealReadString in front of it: the text
\* is the caller's or gone, the handle and the bag go out of scope.
Dismiss ==
  /\ state = "returned" /\ state' = "idle"
  /\ handle' = EmptyHandle /\ retval' = FALSE
  /\ bag' = initialize_CharBag /\ escape' = FALSE /\ io' = "open"
  /\ raw' = <<>> /\ refused' = FALSE

Step == \E c \in Alphabet \cup {EOF, ERR} :
  Escaped(c) \/ BeginEscape(c) \/ End(c) \/ Char(c) \/ NoMore(c)

Next == (\E c \in Alphabet : Begin(c)) \/ Step \/ Dismiss

\* The program runs until the call returns.
Spec == Init /\ [][Next]_vars
FairSpec == Spec /\ WF_vars(Step)
=============================================================================
