----------------------------- MODULE TimerQueue -----------------------------
(***************************************************************************)
(* The timer queue of one event loop (muduo/net/TimerQueue.cc).  Timers    *)
(* are heap objects held by raw pointer in two sets and woken by one       *)
(* kernel timer descriptor.  Other threads post addTimerInLoop and         *)
(* cancelInLoop to the loop thread; timer callbacks, which run on the loop *)
(* thread inside handleRead, add and cancel at once.  Time is counted in   *)
(* units of the 100 microsecond floor of howMuchTimeFromNow; addresses are *)
(* naturals because timers_ orders equal expirations by pointer.           *)
(***************************************************************************)
EXTENDS Integers, Sequences, FiniteSets, SequencesExt

CONSTANTS
    Addr,        \* the addresses operator new may return for a Timer
    Callers,     \* the threads other than the loop thread that use the queue
    Delays,      \* `when' of a new timer, as an offset from the current time
    Intervals,   \* `interval' of a new timer; 0 makes it one-shot
    MaxTimers,   \* bound on Timer::s_numCreated_
    MaxTime,     \* bound on the clock
    MaxPending,  \* bound on the length of EventLoop::pendingFunctors_
    MinArm       \* the floor of howMuchTimeFromNow

ASSUME /\ Addr \subseteq Nat \ {0} /\ IsFiniteSet(Addr)
       /\ Delays \subseteq Nat /\ Intervals \subseteq Nat
       /\ {MaxTimers, MaxTime, MaxPending} \subseteq Nat /\ MinArm \in Nat \ {0}

VARIABLES
    now,                   \* the clock that Timestamp::now() reads
    heap,                  \* heap[a]: the Timer object at address a, or Free
    numCreated,            \* Timer::s_numCreated_
    timers,                \* timers_: set of <<expiration, address>>
    activeTimers,          \* activeTimers_: set of <<address, sequence>>
    cancelingTimers,       \* cancelingTimers_
    callingExpiredTimers,  \* callingExpiredTimers_
    timerfd,               \* the kernel timer behind timerfd_
    pendingFunctors,       \* EventLoop::pendingFunctors_, shared with callers
    wakeupFd,              \* EventLoop::wakeupFd_ has been written and not read
    loopPc,                \* where the loop thread is in EventLoop::loop()
    expired,               \* handleRead's local `expired', as addresses
    nextCb,                \* index in expired of the next callback to run
    readNow,               \* handleRead's local `now'
    functors,              \* doPendingFunctors' local vector
    caller,                \* per caller: where it is inside addTimer
    issued,                \* the TimerIds user code holds
    cancelRan,             \* history: ids for which cancelInLoop has run
    cancelFound            \* history: those that named a timer of the queue

heapVars  == <<heap, numCreated>>
queueVars == <<timers, activeTimers, cancelingTimers, callingExpiredTimers>>
loopVars  == <<loopPc, expired, nextCb, readNow, functors>>
histVars  == <<cancelRan, cancelFound>>
postVars  == <<pendingFunctors, wakeupFd>>
vars == <<now, heapVars, queueVars, timerfd, postVars, loopVars,
          caller, issued, histVars>>

-----------------------------------------------------------------------------
\* A freed heap cell.  No Timer has sequence 0.
Free == [expiration |-> 0, interval |-> 0, sequence |-> 0]

Timer   == [expiration : 0..MaxTime, interval : Intervals, sequence : 1..MaxTimers]
TimerId == Addr \X (0..MaxTimers)
Functor == [op : {"add"}, timer : Addr] \cup [op : {"cancel"}, id : TimerId]

IdOfUnsequenced(a) == <<a, 0>>    \* mutation: the pointer without its sequence

IdOf(a)    == <<a, heap[a].sequence>>      \* ActiveTimer(timer, sequence())
EntryOf(a) == <<heap[a].expiration, a>>    \* Entry(expiration(), timer)
Earliest   == Min({e[1] : e \in timers})   \* timers_.begin()->first

\* std::pair's operator<, the order of timers_
EntryLess(x, y) == x[1] < y[1] \/ (x[1] = y[1] /\ x[2] < y[2])

\* addTime(t, d) of Timestamp.h.  Times past MaxTime are not told apart:
\* what would expire later expires at MaxTime, where the clock stops.
AddTime(t, d) == Min({t + d, MaxTime})

\* The sequence number the Timer constructor takes from s_numCreated_.
NextSequence == numCreated + 1

HowMuchTimeFromNowNoFloor(when) == when - now    \* mutation: no floor

\* The delay handed to timerfd_settime: never less than the floor.
HowMuchTimeFromNow(when) == Max({when - now, MinArm})

\* timerfd_settime with a relative, one-shot it_value.  It forgets
\* expirations not yet read, and a value of zero disarms the descriptor.
ResetTimerfd(expiration) ==
    LET delay == HowMuchTimeFromNow(expiration)
    IN  timerfd' = [armed |-> delay > 0, at |-> now + delay, readable |-> FALSE]

\* readTimerfd: the read that takes the expirations off the descriptor
ReadTimerfd == timerfd' = [timerfd EXCEPT !.readable = FALSE]

\* new Timer(cb, when, interval) at a free address
NewTimer(a, t) ==
    /\ heap[a] = Free /\ numCreated < MaxTimers
    /\ heap' = [heap EXCEPT ![a] = t]
    /\ numCreated' = numCreated + 1

-----------------------------------------------------------------------------
(* The queue's private operations, all on the loop thread *)

\* mutation: an empty queue is not seen as a change of the earliest timer
EarliestChangedNonEmptyOnly(when) == timers # {} /\ when < Earliest

\* insert's result: the new timer expires before every timer in the queue.
EarliestChanged(when) == timers = {} \/ when < Earliest

GetExpiredUpToNext(t) == {e \in timers : e[1] <= t + 1}    \* mutation

\* The timers getExpired moves out: all entries below (now, UINTPTR_MAX).
GetExpired(t) == {e \in timers : e[1] <= t}

\* insert: the Timer t at address a goes into both sets.
Insert(a, t) ==
    /\ timers' = timers \cup {<<t.expiration, a>>}
    /\ activeTimers' = activeTimers \cup {<<a, t.sequence>>}

\* addTimerInLoop: insert, and re-arming when the earliest expiration changed.
AddTimerInLoop(a, t) ==
    /\ Insert(a, t)
    /\ IF EarliestChanged(t.expiration) THEN ResetTimerfd(t.expiration)
                                        ELSE UNCHANGED timerfd
    /\ UNCHANGED <<cancelingTimers, callingExpiredTimers>>

\* mutation: the timer is deleted but its entry stays in timers_
EraseActiveKeepsEntry(id) ==
    /\ heap' = [heap EXCEPT ![id[1]] = Free]
    /\ activeTimers' = activeTimers \ {id}
    /\ UNCHANGED timers

\* cancelInLoop's first branch: the timer leaves both sets and is deleted.
EraseActive(id) ==
    /\ timers' = timers \ {EntryOf(id[1])}
    /\ heap' = [heap EXCEPT ![id[1]] = Free]
    /\ activeTimers' = activeTimers \ {id}

\* mutation: ActiveTimers are compared by their pointer alone
FindByPointer(id) == {x \in activeTimers : x[1] = id[1]}

\* activeTimers_.find(ActiveTimer(timerId.timer_, timerId.sequence_)): the
\* entry with this pointer and this sequence, if there is one.
Find(id) == activeTimers \cap {id}

\* An active timer is erased and deleted; one that is not active is noted as
\* cancelled only while callbacks are being run.  The descriptor is left as
\* it is.  The history records whether the id named a timer the queue held.
CancelInLoop(id) ==
    /\ \/ \E it \in Find(id) : EraseActive(it) /\ UNCHANGED cancelingTimers
       \/ /\ Find(id) = {}
          /\ cancelingTimers' = IF callingExpiredTimers
                                   THEN cancelingTimers \cup {id}
                                   ELSE cancelingTimers
          /\ UNCHANGED <<timers, heap, activeTimers>>
    /\ cancelRan' = cancelRan \cup {id}
    /\ cancelFound' = IF id \in activeTimers \cup {IdOf(a) : a \in ToSet(expired)}
                         THEN cancelFound \cup {id} ELSE cancelFound
    /\ UNCHANGED <<numCreated, callingExpiredTimers, timerfd>>

SurvivesResetIgnoringCancel(a) == heap[a].interval > 0    \* mutation

\* reset's test: the fired timer repeats and was not cancelled meanwhile.
SurvivesReset(a) == heap[a].interval > 0 /\ IdOf(a) \notin cancelingTimers

RestartedFromExpiration(a) ==                               \* mutation
    [heap[a] EXCEPT !.expiration = AddTime(@, heap[a].interval)]

\* Timer::restart(now), with the time handleRead read before the callbacks
Restarted(a) == [heap[a] EXCEPT !.expiration = AddTime(readNow, heap[a].interval)]

\* mutation: fired timers that are not restarted are not deleted
HeapAfterResetNoDelete(keep, gone) ==
    [a \in Addr |-> IF a \in keep THEN Restarted(a) ELSE heap[a]]

\* The heap after reset: the survivors restarted, the others deleted.
HeapAfterReset(keep, gone) ==
    [a \in Addr |-> IF a \in keep THEN Restarted(a)
                    ELSE IF a \in gone THEN Free ELSE heap[a]]

-----------------------------------------------------------------------------
(* Calls from other threads *)

\* mutation: the functor is queued and nobody wakes the loop
QueueInLoopNoWakeup(f) ==
    pendingFunctors' = Append(pendingFunctors, f) /\ UNCHANGED wakeupFd

\* EventLoop::queueInLoop from a thread that is not the loop's: the functor
\* goes to the queue and wakeup() writes to the descriptor.  (The two are
\* one step: the loop takes a functor queued before its swap in any case.)
QueueInLoop(f) ==
    pendingFunctors' = Append(pendingFunctors, f) /\ wakeupFd' = TRUE

\* addTimer, first half: new Timer, then runInLoop, which from a foreign
\* thread queues the functor.
AddTimer(c, a, d, iv) ==
    /\ caller[c].pc = "idle" /\ loopPc # "destroyed"
    /\ Len(pendingFunctors) < MaxPending
    /\ NewTimer(a, [expiration |-> AddTime(now, d), interval |-> iv,
                    sequence |-> NextSequence])
    /\ QueueInLoop([op |-> "add", timer |-> a])
    /\ caller' = [caller EXCEPT ![c] = [pc |-> "return", timer |-> a,
                                        sequence |-> NextSequence]]
    /\ UNCHANGED <<now, queueVars, timerfd, loopVars, issued, histVars>>

\* What timer->sequence() can yield: the field of whatever Timer lives at
\* the address, or, read from freed memory, any sequence ever written.
SequenceRead(a) == IF heap[a] # Free THEN {heap[a].sequence} ELSE 1..numCreated

\* addTimer, second half: return TimerId(timer, timer->sequence()).  The
\* Timer already belongs to the loop thread when its sequence is read.
AddTimerReturn(c) ==
    /\ caller[c].pc = "return"
    /\ \E s \in SequenceRead(caller[c].timer) :
          issued' = issued \cup {<<caller[c].timer, s>>}
    /\ caller' = [caller EXCEPT ![c] = [pc |-> "idle", timer |-> 0, sequence |-> 0]]
    /\ UNCHANGED <<now, heapVars, queueVars, timerfd, postVars,
                   loopVars, histVars>>

\* cancel from a foreign thread: runInLoop queues cancelInLoop(timerId).
Cancel(c, id) ==
    /\ caller[c].pc = "idle" /\ loopPc # "destroyed"
    /\ Len(pendingFunctors) < MaxPending
    /\ QueueInLoop([op |-> "cancel", id |-> id])
    /\ UNCHANGED <<now, heapVars, queueVars, timerfd, loopVars, caller,
                   issued, histVars>>

-----------------------------------------------------------------------------
(* The loop thread: poll, handleRead with its callbacks, pending functors *)

\* poll returns with the timer channel readable and handleRead starts: it
\* reads the clock and the descriptor, moves the expired timers out of both
\* sets, and forgets the cancellations of the previous round.  (The wake-up
\* channel, if it is readable as well, is read in the same round.)
HandleReadBegin ==
    /\ loopPc = "poll" /\ timerfd.readable
    /\ LET out == GetExpired(now)
           inOrder == SetToSortSeq(out, EntryLess)
       IN /\ expired' = [i \in 1..Cardinality(out) |-> inOrder[i][2]]
          /\ timers' = timers \ out
          /\ activeTimers' = activeTimers \ {IdOf(e[2]) : e \in out}
    /\ readNow' = now
    /\ ReadTimerfd
    /\ callingExpiredTimers' = TRUE
    /\ cancelingTimers' = {}
    /\ nextCb' = 1
    /\ loopPc' = "callbacks"
    /\ wakeupFd' = FALSE
    /\ UNCHANGED <<now, heapVars, pendingFunctors, functors, caller, issued,
                   histVars>>

\* The callback adds a timer: new Timer, addTimerInLoop at once, and the
\* TimerId goes back to the callback.
CallbackAdds(a, d, iv) ==
    LET t == [expiration |-> AddTime(now, d), interval |-> iv, sequence |-> NextSequence]
    IN  /\ NewTimer(a, t)
        /\ AddTimerInLoop(a, t)
        /\ issued' = issued \cup {<<a, t.sequence>>}
        /\ UNCHANGED histVars

\* The callback of the next expired timer runs: it leaves the queue alone,
\* cancels a timer (on the loop thread runInLoop calls cancelInLoop at
\* once), or adds one.
RunCallback ==
    /\ loopPc = "callbacks" /\ nextCb <= Len(expired)
    /\ \/ UNCHANGED <<heapVars, queueVars, timerfd, issued, histVars>>
       \/ \E id \in issued : CancelInLoop(id) /\ UNCHANGED issued
       \/ \E a \in Addr, d \in Delays, iv \in Intervals : CallbackAdds(a, d, iv)
    /\ nextCb' = nextCb + 1
    /\ UNCHANGED <<now, postVars, loopPc, expired, readNow, functors, caller>>

\* All callbacks have run: handleRead clears the flag and calls reset, which
\* restarts and re-inserts the repeating timers that were not cancelled,
\* deletes the others, and arms the descriptor for the earliest timer left.
HandleReadReset ==
    /\ loopPc = "callbacks" /\ nextCb > Len(expired)
    /\ callingExpiredTimers' = FALSE
    /\ LET gone == ToSet(expired)
           keep == {a \in gone : SurvivesReset(a)}
       IN /\ heap' = HeapAfterReset(keep, gone)
          /\ timers' = timers \cup {<<heap'[a].expiration, a>> : a \in keep}
          /\ activeTimers' = activeTimers \cup {IdOf(a) : a \in keep}
    /\ IF timers' # {} THEN ResetTimerfd(Min({e[1] : e \in timers'}))
                       ELSE UNCHANGED timerfd
    /\ expired' = <<>> /\ nextCb' = 1 /\ readNow' = 0
    /\ loopPc' = "pending"
    /\ UNCHANGED <<now, numCreated, cancelingTimers, postVars, functors,
                   caller, issued, histVars>>

\* doPendingFunctors swaps the shared queue into its local vector.
Swap ==
    /\ functors' = pendingFunctors
    /\ pendingFunctors' = <<>>
    /\ loopPc' = "functors"
    /\ UNCHANGED <<now, heapVars, queueVars, timerfd, expired, nextCb, readNow,
                   caller, issued, histVars>>

\* The timer channel has been handled: the functors are next.
DoPendingFunctors == loopPc = "pending" /\ Swap /\ UNCHANGED wakeupFd

\* poll returns for the wake-up channel alone: EventLoop::handleRead reads
\* the descriptor, and the functors are next.
HandleWakeup ==
    /\ loopPc = "poll" /\ ~timerfd.readable /\ wakeupFd
    /\ wakeupFd' = FALSE
    /\ Swap

\* poll returns with neither channel readable: its timeout has run out, or
\* a channel of somebody else was active.
PollReturns ==
    /\ loopPc = "poll" /\ ~timerfd.readable /\ ~wakeupFd
    /\ Swap /\ UNCHANGED wakeupFd

\* The next functor runs: a queued addTimerInLoop or cancelInLoop.
RunFunctor ==
    /\ loopPc = "functors" /\ functors # <<>>
    /\ LET f == Head(functors)
       IN \/ /\ f.op = "add"
             /\ AddTimerInLoop(f.timer, heap[f.timer])
             /\ UNCHANGED <<heapVars, histVars>>
          \/ /\ f.op = "cancel"
             /\ CancelInLoop(f.id)
    /\ functors' = Tail(functors)
    /\ UNCHANGED <<now, postVars, loopPc, expired, nextCb, readNow,
                   caller, issued>>

\* The local vector is drained and the loop polls again.
FunctorsDone ==
    /\ loopPc = "functors" /\ functors = <<>>
    /\ loopPc' = "poll"
    /\ UNCHANGED <<now, heapVars, queueVars, timerfd, postVars, expired,
                   nextCb, readNow, functors, caller, issued, histVars>>

\* Time passes; an armed descriptor whose time has come becomes readable and,
\* being one-shot, is disarmed.  The clock stops counting at MaxTime: later
\* ticks stand for any stretch of time, long enough for the descriptor.
Tick ==
    /\ loopPc # "destroyed"
    /\ now' = Min({now + 1, MaxTime})
    /\ timerfd' = IF timerfd.armed /\ (timerfd.at <= now + 1 \/ now = MaxTime)
                     THEN [armed |-> FALSE, at |-> 0, readable |-> TRUE]
                     ELSE timerfd
    /\ UNCHANGED <<heapVars, queueVars, postVars, loopVars, caller,
                   issued, histVars>>

\* The heap after the destructor's loop over timers_.
HeapAfterDestructor ==
    [a \in Addr |-> IF a \in {e[2] : e \in timers} THEN Free ELSE heap[a]]

\* ~TimerQueue, from the destructor of the EventLoop: loop() has returned and
\* no thread is inside addTimer.  The descriptor is closed, the timers in
\* timers_ are deleted and the members go.  Functors still queued are never
\* run: they stay where they are, with the timers they point to.
Destructor ==
    /\ loopPc = "poll"
    /\ \A c \in Callers : caller[c].pc = "idle"
    /\ heap' = HeapAfterDestructor
    /\ timers' = {} /\ activeTimers' = {} /\ cancelingTimers' = {}
    /\ timerfd' = [armed |-> FALSE, at |-> 0, readable |-> FALSE]
    /\ loopPc' = "destroyed"
    /\ UNCHANGED <<now, numCreated, callingExpiredTimers, postVars,
                   expired, nextCb, readNow, functors, caller, issued, histVars>>

-----------------------------------------------------------------------------
Init ==
    /\ now = 0 /\ numCreated = 0 /\ readNow = 0 /\ nextCb = 1
    /\ heap = [a \in Addr |-> Free]
    /\ timers = {} /\ activeTimers = {} /\ cancelingTimers = {}
    /\ callingExpiredTimers = FALSE
    /\ timerfd = [armed |-> FALSE, at |-> 0, readable |-> FALSE]
    /\ pendingFunctors = <<>> /\ wakeupFd = FALSE
    /\ functors = <<>> /\ expired = <<>>
    /\ loopPc = "poll"
    /\ caller = [c \in Callers |-> [pc |-> "idle", timer |-> 0, sequence |-> 0]]
    /\ issued = {} /\ cancelRan = {} /\ cancelFound = {}

CallerStep ==
    \E c \in Callers :
        \/ \E a \in Addr, d \in Delays, iv \in Intervals : AddTimer(c, a, d, iv)
        \/ AddTimerReturn(c)
        \/ \E id \in issued : Cancel(c, id)

LoopStep ==
    \/ HandleReadBegin \/ RunCallback \/ HandleReadReset
    \/ DoPendingFunctors \/ HandleWakeup \/ RunFunctor \/ FunctorsDone

Next == CallerStep \/ LoopStep \/ PollReturns \/ Tick \/ Destructor

\* The loop thread keeps running and time keeps passing; the threads that
\* call addTimer and cancel need not do anything.  The loop is not owed a
\* return from a poll in which nothing is readable: what is posted to it has
\* to wake it.
Fairness == WF_vars(LoopStep) /\ WF_vars(Tick)

Spec == Init /\ [][Next]_vars /\ Fairness

-----------------------------------------------------------------------------
(* Properties *)

\* The variables have the shapes the code gives them; in particular every
\* Timer on the heap has a sequence number taken from the counter after the
\* increment, so that no live timer has the sequence 0 of a freed cell.
TypeOK ==
    /\ now \in 0..MaxTime /\ readNow \in 0..MaxTime
    /\ heap \in [Addr -> Timer \cup {Free}]
    /\ numCreated \in 0..MaxTimers
    /\ timers \subseteq (0..MaxTime) \X Addr
    /\ activeTimers \subseteq Addr \X (1..MaxTimers)
    /\ cancelingTimers \subseteq TimerId
    /\ callingExpiredTimers \in BOOLEAN
    /\ timerfd \in [armed : BOOLEAN, at : Nat, readable : BOOLEAN]
    /\ pendingFunctors \in Seq(Functor) /\ functors \in Seq(Functor)
    /\ wakeupFd \in BOOLEAN
    /\ loopPc \in {"poll", "callbacks", "pending", "functors", "destroyed"}
    /\ expired \in Seq(Addr) /\ nextCb \in 1..(Len(expired) + 1)
    /\ caller \in [Callers -> [pc : {"idle", "return"}, timer : Addr \cup {0},
                               sequence : 0..MaxTimers]]
    /\ issued \subseteq TimerId
    /\ cancelRan \subseteq TimerId /\ cancelFound \subseteq cancelRan

\* timers_ and activeTimers_ hold the same timers, and every pointer in them
\* is a live Timer whose fields are the ones the entry was filed under: the
\* asserts of cancelInLoop, getExpired and insert on the sizes of the two
\* sets, and the dereferences in cancelInLoop and getExpired, rest on it.
SetsMirrorHeap ==
    /\ \A e \in timers : heap[e[2]] # Free /\ EntryOf(e[2]) = e
    /\ \A id \in activeTimers : heap[id[1]] # Free /\ IdOf(id[1]) = id
    /\ {e[2] : e \in timers} = {id[1] : id \in activeTimers}
    /\ Cardinality(timers) = Cardinality(activeTimers)

\* Outside handleRead, a queue that holds timers has its descriptor readable
\* or armed no later than the earliest expiration (or than the floor allows):
\* addTimerInLoop and reset re-arm whenever the earliest timer changes, so no
\* timer waits for a wake-up that will not come.  (It may be armed earlier:
\* cancelInLoop erases the earliest timer without re-arming.)
TimerfdCoversEarliest ==
    (loopPc # "callbacks" /\ timers # {}) =>
        \/ timerfd.readable
        \/ timerfd.armed /\ timerfd.at <= Max({Earliest, now + MinArm})

\* A cancel that found its timer is final: the timer is in neither set again,
\* also when cancelInLoop ran from a callback while the timer was among the
\* expired ones and reset had still to decide on restarting it.
CancelIsFinal == \A id \in cancelFound : id \notin activeTimers

\* A TimerId names one timer for ever.  Addresses come back from operator new
\* while ids of the timers that lived there are still held, and a timer
\* leaves activeTimers_ in three ways only: getExpired takes it, the queue is
\* destroyed, or cancelInLoop runs for its own id.  A cancel with the id of
\* a timer long deleted must not find the timer that lives at its address.
CancelHitsItsOwnTimer ==
    [][\A it \in activeTimers \ activeTimers' :
          \/ it \in cancelRan'
          \/ loopPc = "poll" /\ loopPc' \in {"callbacks", "destroyed"}]_vars

\* Every Timer on the heap is owned: by the two sets, by the batch handleRead
\* is firing, or by an addTimerInLoop functor that has not run.  reset,
\* cancelInLoop and the destructor delete every timer they drop.
NoTimerLeaks ==
    \A a \in Addr : heap[a] # Free =>
        \/ IdOf(a) \in activeTimers
        \/ a \in ToSet(expired)
        \/ [op |-> "add", timer |-> a] \in ToSet(pendingFunctors \o functors)

\* A timer whose time has come leaves the queue, fired or cancelled: the
\* descriptor was armed for it, the loop wakes up, and handleRead takes it.
DueTimerFires ==
    \A e \in (0..MaxTime) \X Addr :
        (e \in timers /\ e[1] <= now) ~> (e \notin timers)

\* What another thread posts is taken by the loop without waiting for poll's
\* timeout: queueInLoop wakes a loop that sleeps in poll, and a wake-up read
\* in one round is never the wake-up of a functor queued after that round's
\* swap.  (Functors left in the queue of a loop that has ended never run.)
QueuedFunctorRuns ==
    (pendingFunctors # <<>>) ~> (pendingFunctors = <<>> \/ loopPc = "destroyed")

-----------------------------------------------------------------------------
(* The queue is a set of armed timers *)

\* A timer is armed while timers_ holds it, under the id addTimer returns
\* for it; the round being fired is handleRead's vector, without the timers
\* cancelInLoop has noted in cancelingTimers_.
T == INSTANCE Timers WITH
         clock  <- now,
         armed  <- {<<IdOf(e[2]), e[1]>> : e \in timers},
         firing <- {IdOf(a) : a \in ToSet(expired)} \ cancelingTimers

\* TimerQueue implements the timers: getExpired takes the timers whose time
\* has come, all of them and no others; reset arms again only timers of
\* its round that no callback has cancelled; and a new timer gets an id
\* that names no timer of the queue, also at an address used before.  (Which
\* timer a cancel removes is not visible to Timers: CancelHitsItsOwnTimer.)
ImplementsTimers == T!Spec

-----------------------------------------------------------------------------
(* What the specification and the comments say, and the code does not do *)

\* addTimer "must be thread safe": the Timer whose sequence it reads for the
\* TimerId is still the one it created.  The loop thread may have fired and
\* deleted it in between.
AddTimerReadsItsTimer ==
    \A c \in Callers : caller[c].pc = "return" =>
        heap[caller[c].timer].sequence = caller[c].sequence

\* "Timers may be cancelled at any time": once cancelInLoop has run for an
\* id that addTimer returned, that timer is not in the queue.  A cancel run
\* by a callback overtakes the addTimerInLoop functor still in the queue.
CancelledIsNotActive == \A id \in cancelRan : id \notin activeTimers

=============================================================================
