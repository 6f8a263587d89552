------------------------ MODULE MCLengthHeaderCodec ------------------------
(***************************************************************************)
(* LengthHeaderCodec for TLC: bytes of one bit and a header of three, so   *)
(* that the lengths 0 to 2 are legal, 3 is over the limit and 4 wraps to a *)
(* negative number; messages of up to four bytes, all zero or all one, so   *)
(* that a payload can look like the header of an empty message or like an  *)
(* illegal header; every way of cutting the stream into pieces.            *)
(***************************************************************************)
EXTENDS LengthHeaderCodec

MCMsgs == {[i \in 1..n |-> b] : n \in 0..4, b \in 0..1}

=============================================================================
