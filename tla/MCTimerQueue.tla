---------------------------- MODULE MCTimerQueue ----------------------------
(***************************************************************************)
(* TimerQueue for model checking: two heap addresses, so that a deleted    *)
(* Timer's address is reused while TimerIds of the old timer are still     *)
(* held; one foreign thread beside the loop thread; timers that are due at *)
(* once or one time unit later, one-shot or repeating every unit.          *)
(***************************************************************************)
EXTENDS TimerQueue

MCAddr      == {1, 2}
MCDelays    == {0, 1}
MCIntervals == {0, 1}

=============================================================================
