--------------------------- MODULE MCAsyncLogging ---------------------------
(***************************************************************************)
(* AsyncLogging for TLC: buffers of three bytes and records of one or two, *)
(* so that a buffer holds one or two records and both outcomes of append's *)
(* test occur at every fill level.                                         *)
(***************************************************************************)
EXTENDS AsyncLogging

MCMsgLens == {1, 2}

=============================================================================
