------------------------------- MODULE LogSink -------------------------------
(***************************************************************************)
(* What the asynchronous logger promises to the threads that log: a queue  *)
(* in front of an append-only file.  Records reach the file in the order   *)
(* they were accepted; under back-pressure a stretch of the queue is       *)
(* thrown away, and then the file says so with a marker.                   *)
(***************************************************************************)
EXTENDS Integers, Sequences

CONSTANT Marker    \* the line that stands for the records thrown away

VARIABLES
    accepted,   \* the number of records accepted; record n is the n-th
    pending,    \* the records accepted and not yet in the file, oldest first
    file        \* the log file

vars == <<accepted, pending, file>>

Init == accepted = 0 /\ pending = <<>> /\ file = <<>>

\* A record is accepted.
Accept ==
    /\ accepted' = accepted + 1
    /\ pending' = Append(pending, accepted')
    /\ UNCHANGED file

\* The oldest k records go to the file.
Write(k) ==
    /\ file' = file \o SubSeq(pending, 1, k)
    /\ pending' = SubSeq(pending, k + 1, Len(pending))
    /\ UNCHANGED accepted

\* Back-pressure: of the oldest k + j records the first k go to the file,
\* after a marker, and the other j are thrown away.
Overflow(k, j) ==
    /\ file' = file \o <<Marker>> \o SubSeq(pending, 1, k)
    /\ pending' = SubSeq(pending, k + j + 1, Len(pending))
    /\ UNCHANGED accepted

Next ==
    \/ Accept
    \/ \E k \in 1..Len(pending) : Write(k)
    \/ \E k \in 0..Len(pending), j \in 1..Len(pending) :
           k + j <= Len(pending) /\ Overflow(k, j)

Spec == Init /\ [][Next]_vars

=============================================================================
