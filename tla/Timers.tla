------------------------------- MODULE Timers -------------------------------
(***************************************************************************)
(* What a timer queue promises to the code that uses it, without the heap, *)
(* the two sets and the descriptor: timers are armed for a time, fire in   *)
(* rounds when their time has come and not before, and a timer cancelled   *)
(* before or during its round is not armed again.                          *)
(***************************************************************************)
EXTENDS Integers

VARIABLES
    clock,    \* the time
    armed,    \* the timers that wait for their time: <<id, expiration>>
    firing    \* the ids of the round being fired that may be armed again

vars == <<clock, armed, firing>>

Ids(entries) == {e[1] : e \in entries}
Due == {e \in armed : e[2] <= clock}

Init == clock = 0 /\ armed = {} /\ firing = {}

\* A timer is armed under an id that names no other timer.
Add ==
    /\ \E e \in armed' : /\ e[1] \notin Ids(armed) \cup firing
                         /\ armed' = armed \cup {e}
    /\ UNCHANGED <<clock, firing>>

\* A timer is cancelled: an armed one goes; one of the round being fired
\* has run or will run, but is not armed again.
Cancel ==
    /\ \E id \in Ids(armed) \cup firing :
          /\ armed' = {e \in armed : e[1] # id}
          /\ firing' = firing \ {id}
    /\ UNCHANGED clock

\* A round starts: all timers whose time has come, and no others.
Fire ==
    /\ firing = {} /\ Due # {}
    /\ armed' = armed \ Due
    /\ firing' = Ids(Due)
    /\ UNCHANGED clock

\* The round ends: some of its timers are armed again, each once, and the
\* others are gone.
Reset ==
    /\ armed \subseteq armed'
    /\ Ids(armed' \ armed) \subseteq firing
    /\ \A e, f \in armed' \ armed : e[1] = f[1] => e = f
    /\ firing' = {}
    /\ UNCHANGED clock

\* Time passes.
Tick == clock' > clock /\ UNCHANGED <<armed, firing>>

\* The queue is destroyed with what it holds.
Close == armed' = {} /\ firing' = {} /\ UNCHANGED clock

Next == Add \/ Cancel \/ Fire \/ Reset \/ Tick \/ Close

Spec == Init /\ [][Next]_vars

=============================================================================
