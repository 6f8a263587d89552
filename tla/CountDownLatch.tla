--------------------------- MODULE CountDownLatch ---------------------------
(***************************************************************************)
(* muduo/base/CountDownLatch.cc: threads wait until other threads have     *)
(* counted the latch down to zero.  Each method holds the mutex from its   *)
(* first line to its last.  countDown is one action for that reason; wait  *)
(* is two, the test of the count and the call of Condition::wait, with the *)
(* mutex held in between: that nobody counts down between the two is what  *)
(* the mutex is there for.                                                 *)
(***************************************************************************)
EXTENDS Integers, FiniteSets

CONSTANTS
    Threads,         \* the threads that use the latch
    Count,           \* the count the latch is constructed with
    MaxCountDowns    \* bound of the model: the number of calls of countDown

VARIABLES
    count,      \* count_
    mutex,      \* mutex_: the threads that hold it
    pc,         \* per thread: "idle", "tested" (the count is above zero),
                \* "blocked" in condition_.wait(), "returned" from wait
    waiting,    \* the threads blocked on condition_ that no notify has woken
    downs       \* the calls of countDown so far

vars == <<count, mutex, pc, waiting, downs>>

NoMutex == TRUE    \* mutation: the method does not take the mutex

\* MutexLockGuard lock(mutex_) can be constructed
MutexFree == mutex = {}

ClosedAboveOne(n) == n > 1    \* mutation: while (count_ > 1)

\* wait's loop test
Closed(n) == n > 0

\* countDown's test of the decremented count
Opens(n) == n = 0

\* mutation: notify(), which wakes one waiter
NotifyOne(ws) == IF ws = {} THEN {} ELSE ws \ {CHOOSE t \in ws : TRUE}

\* condition_.notifyAll(): nobody is left waiting
NotifyAll(ws) == {}

Decremented(n) == n - 1

\* getCount(): the count, read under the mutex
GetCount == count

-----------------------------------------------------------------------------
\* while (count_ > 0), by a thread that has the mutex: it goes on to the
\* call of condition_.wait() with the mutex held, or leaves wait().
Test(t) ==
    /\ pc' = [pc EXCEPT ![t] = IF Closed(count) THEN "tested" ELSE "returned"]
    /\ mutex' = IF Closed(count) THEN {t} ELSE {}
    /\ UNCHANGED <<count, waiting, downs>>

\* wait(): the mutex is taken and the count tested.
Wait(t) == pc[t] = "idle" /\ MutexFree /\ Test(t)

\* condition_.wait(): the mutex is given up and the thread blocks, in one
\* step.
Block(t) ==
    /\ pc[t] = "tested"
    /\ pc' = [pc EXCEPT ![t] = "blocked"]
    /\ waiting' = waiting \cup {t}
    /\ mutex' = {}
    /\ UNCHANGED <<count, downs>>

\* A notified thread gets the mutex back and tests the count again.
Wake(t) == pc[t] = "blocked" /\ t \notin waiting /\ MutexFree /\ Test(t)

\* pthread_cond_wait may return although nobody has notified.
SpuriousWake(t) ==
    /\ pc[t] = "blocked" /\ t \in waiting
    /\ waiting' = waiting \ {t}
    /\ UNCHANGED <<count, mutex, pc, downs>>

\* countDown(): under the mutex the count goes down by one, and the thread
\* that brings it to zero wakes all waiters.
CountDown(t) ==
    /\ pc[t] \in {"idle", "returned"} /\ downs < MaxCountDowns
    /\ MutexFree
    /\ count' = Decremented(count)
    /\ waiting' = IF Opens(count') THEN NotifyAll(waiting) ELSE waiting
    /\ downs' = downs + 1
    /\ UNCHANGED <<mutex, pc>>

Init ==
    /\ count = Count /\ downs = 0 /\ waiting = {} /\ mutex = {}
    /\ pc = [t \in Threads |-> "idle"]

Next ==
    \E t \in Threads :
        Wait(t) \/ Block(t) \/ Wake(t) \/ SpuriousWake(t) \/ CountDown(t)

\* A thread that has been notified runs again; a spurious wake-up may
\* never come.
Spec == Init /\ [][Next]_vars /\ \A t \in Threads : WF_vars(Wake(t))

-----------------------------------------------------------------------------
(* Properties *)

\* The count goes down by one for each countDown, and the mutex is held by
\* one thread at most: the one between its test of the count and its wait.
TypeOK ==
    /\ count = Count - downs /\ downs \in 0..MaxCountDowns
    /\ pc \in [Threads -> {"idle", "tested", "blocked", "returned"}]
    /\ mutex = {t \in Threads : pc[t] = "tested"} /\ Cardinality(mutex) <= 1
    /\ waiting \subseteq {t \in Threads : pc[t] = "blocked"}

\* No wake-up is lost: once the count has reached zero, every thread that
\* is still blocked has its notification.  countDown wakes all waiters, and
\* it cannot run between a waiter's test of the count and the moment the
\* waiter is blocked on the condition, because the waiter holds the mutex
\* from the one to the other.
NoLostWakeup == GetCount <= 0 => waiting = {}

-----------------------------------------------------------------------------
(* The latch is a gate *)

\* The gate is open when the count has reached zero; a thread blocked in
\* wait() stands in front of it, and one that wait() let go has passed.
G == INSTANCE Gate WITH
         open    <- GetCount <= 0,
         waiting <- {t \in Threads : pc[t] \in {"tested", "blocked"}},
         passed  <- {t \in Threads : pc[t] = "returned"}

\* CountDownLatch implements the gate: wait() returns only when the count
\* has reached zero, also after a wake-up no countDown caused; the count
\* never comes back above zero; and every thread blocked in wait() returns
\* once countDown has brought the count to zero.
ImplementsGate == G!Spec

=============================================================================
