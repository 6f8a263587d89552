-------------------------------- MODULE Gate --------------------------------
(***************************************************************************)
(* What a CountDownLatch promises to the threads that use it, without the  *)
(* count, the mutex and the condition: a gate that is closed until it is   *)
(* opened, stays open, and lets a thread through only when open.           *)
(***************************************************************************)
CONSTANT Threads

VARIABLES
    open,       \* the gate is open
    waiting,    \* the threads that stand in front of it
    passed      \* the threads that have gone through

vars == <<open, waiting, passed>>

Init == open \in BOOLEAN /\ waiting = {} /\ passed = {}

\* A thread comes to the gate.
Arrive(t) ==
    /\ t \notin waiting \cup passed
    /\ waiting' = waiting \cup {t}
    /\ UNCHANGED <<open, passed>>

\* A thread goes through the open gate, from the queue or as it comes.
Pass(t) ==
    /\ open /\ t \notin passed
    /\ passed' = passed \cup {t}
    /\ waiting' = waiting \ {t}
    /\ UNCHANGED open

\* The gate opens, once and for all.
Open == ~open /\ open' = TRUE /\ UNCHANGED <<waiting, passed>>

Next == Open \/ \E t \in Threads : Arrive(t) \/ Pass(t)

\* Nobody is left standing in front of the open gate.
NobodyLeftBehind == \A t \in Threads : (open /\ t \in waiting) ~> (t \in passed)

Spec == Init /\ [][Next]_vars /\ NobodyLeftBehind

=============================================================================
