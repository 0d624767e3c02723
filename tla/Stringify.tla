----------------------------- MODULE Stringify -----------------------------
(***************************************************************************)
(* Stringify.c: the value of a node of an expected type, copied to the     *)
(* caller's buffer.  A call yields its return value, jn_error, and the     *)
(* bytes it writes, by their offset in the buffer.                         *)
(***************************************************************************)
EXTENDS NodeMemory, Integers, Sequences
LOCAL INSTANCE TLC

Untouched == [i \in {} |-> "NUL"]
Outcome(retval, error, written) == [retval |-> retval, jn_error |-> error, written |-> written]

\* Slip: no room is left for the terminator of a text that is cut.
CopyLengthNoRoom(bufflen, retval) == IF bufflen < retval THEN bufflen ELSE retval

\* copylen.
CopyLength(bufflen, retval) == IF bufflen < retval THEN bufflen - 1 ELSE retval

\* value with its terminator to the buffer, and a terminator behind what was
\* copied; a copy of a single character is left out.
Copy(value, bufflen) ==
  LET bytes == Append(value, "NUL")
      copylen == CopyLength(bufflen, Len(bytes))
  IN (copylen :> "NUL") @@ [i \in IF copylen > 1 THEN 0..copylen - 1 ELSE {} |-> bytes[i + 1]]

\* jd_Node_stringify_generic.
stringify_generic(m, n, bufflen, type, value) ==
  IF n = NULL THEN Outcome(0, "JNE_NULL_NODE", Untouched)
  ELSE IF m.type[n] # type THEN Outcome(0, "JNE_INVALID_TYPE", Untouched)
  ELSE IF value = NULL THEN Outcome(0, "JNE_SUCCESS", Untouched)
  ELSE Outcome(Len(value) + 1, "JNE_SUCCESS",
               IF bufflen > 0 THEN Copy(value, bufflen) ELSE Untouched)

\* jd_Node_stringify_null, _true and _false.
stringify_keyword(m, n, bufflen, type) ==
  stringify_generic(m, n, bufflen, type,
    CASE type = "null" -> <<"n", "u", "l", "l">>
      [] type = "true" -> <<"t", "r", "u", "e">>
      [] type = "false" -> <<"f", "a", "l", "s", "e">>)

\* jd_Node_stringify_string, _integer and _float.  They read the payload in
\* front of the test for a null node.
stringify_text(m, n, bufflen, type) ==
  IF n = NULL THEN Outcome(0, "crash", Untouched)
  ELSE stringify_generic(m, n, bufflen, type,
         IF m.payload[n] = NULL THEN NULL ELSE m.text[m.payload[n]])

\* jd_Node_stringify_property.
stringify_property(m, n, bufflen) == Outcome(0, "unchanged", Untouched)

\* The function for a type that has one.
Stringified(m, n, bufflen, type) ==
  CASE type \in {"null", "true", "false"} -> stringify_keyword(m, n, bufflen, type)
    [] type \in TextTypes -> stringify_text(m, n, bufflen, type)
    [] type = "property" -> stringify_property(m, n, bufflen)
=============================================================================
