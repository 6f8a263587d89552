---------------------------- MODULE MCChatServer ----------------------------
(***************************************************************************)
(* ChatServer for TLC: up to three I/O threads, so that two readers hold   *)
(* different generations of the list while the third thread registers a    *)
(* connection; three connections; one address more than there are threads, *)
(* which is more lists than can be alive at once.                          *)
(***************************************************************************)
EXTENDS ChatServer, TLC

MCLists == 1..(Cardinality(Threads) + 1)

\* Connections are interchangeable; the threads are not, the pool hands
\* them out in order.
Symmetry == Permutations(Conns)

=============================================================================
