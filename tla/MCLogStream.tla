----------------------------- MODULE MCLogStream -----------------------------
(***************************************************************************)
(* LogStream for model checking: three characters, and a "(null)" of two   *)
(* characters, which fits the buffer of four bytes once and not twice.     *)
(***************************************************************************)
EXTENDS LogStream

MCChars    == {"0", "1", "n"}
MCNullText == <<"n", "n">>

=============================================================================
