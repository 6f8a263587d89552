--------------------------- MODULE IdleConnection ---------------------------
(***************************************************************************)
(* The echo server of examples/idleconnection/echo.cc, which shuts down    *)
(* the connections that have been silent for idleSeconds.  A ring of       *)
(* buckets holds shared pointers to one Entry per connection; a message    *)
(* puts the entry into the last bucket, a timer drops the first bucket     *)
(* every second, and the destructor of an entry that no bucket holds any   *)
(* more shuts its connection down.                                         *)
(*                                                                         *)
(* The server has one loop.  Its timer is a repeating timer of the loop's  *)
(* TimerQueue, so that onTimer runs when handleRead of the queue calls it; *)
(* the handlers of the connections run between poll and the pending        *)
(* functors, and connectDestroyed is a pending functor.  Each callback is  *)
(* one action: the operation of TcpConnection that calls back, together    *)
(* with what the callback does.  An entry is named by its connection, and  *)
(* a connection comes up once.                                             *)
(***************************************************************************)
EXTENDS TcpConnection, Sequences, FiniteSets, FiniteSetsExt

CONSTANTS
    IdleSeconds,    \* idleSeconds, the number of buckets
    Period,         \* the second of runEvery(1.0), in units of the clock
    MaxTime         \* bound on the clock

ASSUME IdleSeconds \in Nat \ {0} /\ Period \in Nat \ {0}

VARIABLES
    connectionBuckets,  \* connectionBuckets_: the entries in each bucket
    idle,               \* history: timer ticks since the connection last spoke
    spokeAt,            \* history: the clock when its entry last went into the ring
    now, heap, numCreated, timers, activeTimers, callingExpiredTimers, timerfd,
    loopPc, expired, nextCb, readNow    \* the loop and its timer queue

wheelVars == <<connectionBuckets, conn, idle, spokeAt>>
loopVars == <<now, heap, numCreated, timers, activeTimers, callingExpiredTimers,
              timerfd, loopPc, expired, nextCb, readNow>>
vars == <<wheelVars, loopVars>>

\* The timer queue of the loop: it holds the one timer of the server, no
\* other thread uses it, so that nobody writes to the wake-up descriptor,
\* nobody keeps the TimerId runEvery returns, and nothing but
\* connectDestroyed is ever queued for the loop.
TQ == INSTANCE TimerQueue WITH
          Addr <- {1}, Callers <- {}, Delays <- {Period}, Intervals <- {Period},
          MaxTimers <- 1, MaxPending <- 0, MinArm <- 1,
          cancelingTimers <- {}, pendingFunctors <- <<>>, wakeupFd <- ~TRUE,
          functors <- <<>>, caller <- <<>>, issued <- {}, cancelRan <- {},
          cancelFound <- {}

\* The entries some bucket holds: those with a use count above zero, for
\* which weakEntry.lock() yields a pointer.
Alive(buckets) == UNION {buckets[i] : i \in DOMAIN buckets}

InsertIntoFront(buckets, c) == [buckets EXCEPT ![1] = @ \cup {c}]    \* mutation

\* connectionBuckets_.back().insert(entry)
InsertIntoBack(buckets, c) == [buckets EXCEPT ![IdleSeconds] = @ \cup {c}]

PushBackKeepsAll(buckets) == Append(buckets, {})    \* mutation

\* push_back(Bucket()) on a full circular buffer: the first bucket goes.
PushBack(buckets) == Append(Tail(buckets), {})

-----------------------------------------------------------------------------
\* onConnection for a connection that came up: a new Entry goes into the
\* last bucket and a weak pointer to it into the connection's context.
OnConnectionUp(c) ==
    /\ ConnectEstablished(c, [r \in Connection |-> setContext(r, TRUE)])
    /\ connected(conn'[c])
    /\ connectionBuckets' = InsertIntoBack(connectionBuckets, c)
    /\ idle' = [idle EXCEPT ![c] = 0]
    /\ spokeAt' = [spokeAt EXCEPT ![c] = now]

\* onConnection for a connection that went down: nothing but a log line;
\* the entry stays where it is.
OnConnectionDown(c) ==
    /\ HandleClose(c, [r \in Connection |-> r])
    /\ ~connected(conn'[c])
    /\ spokeAt' = [spokeAt EXCEPT ![c] = 0]
    /\ UNCHANGED <<connectionBuckets, idle>>

\* onMessage: the bytes are echoed, and the entry, if it still exists,
\* goes into the last bucket.  A connection that was shut down still reads.
OnMessage(c) ==
    /\ conn[c].outputBuffer_ < MaxOutput
    /\ \E whole \in BOOLEAN : HandleRead(c, [r \in Connection |-> Send(r, whole)])
    /\ \/ /\ c \in Alive(connectionBuckets)
          /\ connectionBuckets' = InsertIntoBack(connectionBuckets, c)
          /\ idle' = [idle EXCEPT ![c] = 0]
          /\ spokeAt' = [spokeAt EXCEPT ![c] = now]
       \/ /\ c \notin Alive(connectionBuckets)
          /\ UNCHANGED <<connectionBuckets, idle, spokeAt>>

\* ~Entry (echo.h) of the entries that have lost their last bucket: each
\* locks its weak pointer and calls shutdown() on a connection that still
\* exists.
DestroyEntries(entries) == Shutdown(entries)

\* onTimer: the first bucket is dropped, and with it the entries it was the
\* last to hold.
OnTimer ==
    /\ connectionBuckets' = PushBack(connectionBuckets)
    /\ DestroyEntries(Alive(connectionBuckets) \ Alive(connectionBuckets'))
    /\ idle' = [c \in Conns |-> Min({idle[c] + 1, IdleSeconds})]
    /\ spokeAt' = [c \in Conns |-> IF connected(conn'[c]) THEN spokeAt[c] ELSE 0]

-----------------------------------------------------------------------------
(* The loop *)

\* loop->runEvery(1.0, onTimer) in the constructor, which runs on the loop
\* thread: the Timer is made and addTimerInLoop is called at once.
RunEvery ==
    LET t == [expiration |-> TQ!AddTime(now, Period), interval |-> Period,
              sequence |-> TQ!NextSequence]
    IN  /\ TQ!NewTimer(1, t)
        /\ TQ!AddTimerInLoop(1, t)
        /\ UNCHANGED <<wheelVars, now, loopPc, expired, nextCb, readNow>>

\* The channel of a connection, or of the acceptor for it, is active: the
\* loop, which runs once the server is constructed, calls its handler after
\* poll, before or after the timer's.
Dispatch(c) ==
    /\ numCreated = 1 /\ loopPc \in {"poll", "pending"}
    /\ \/ OnConnectionUp(c) \/ OnConnectionDown(c) \/ OnMessage(c)
       \/ HandleWrite(c) /\ UNCHANGED <<connectionBuckets, idle, spokeAt>>
    /\ UNCHANGED loopVars

\* handleRead of the timer queue calls the callback of the expired timer.
TimerCallback == TQ!RunCallback /\ OnTimer

\* The functor the server queued when the connection closed.
DestroyConnection(c) ==
    /\ loopPc = "functors"
    /\ ConnectDestroyed(c)
    /\ UNCHANGED <<connectionBuckets, idle, spokeAt, loopVars>>

\* The queue's own steps of the loop; the functors are done when no
\* closed connection is left to destroy.
LoopStep ==
    /\ numCreated = 1
    /\ \/ TQ!HandleReadBegin \/ TQ!HandleReadReset
           \/ TQ!DoPendingFunctors \/ TQ!PollReturns
       \/ TQ!FunctorsDone /\ \A c \in Conns : ~ENABLED ConnectDestroyed(c)
    /\ UNCHANGED wheelVars

\* The constructor: idleSeconds empty buckets, in a loop that is new.
Init ==
    /\ connectionBuckets = [i \in 1..IdleSeconds |-> {}]
    /\ Accepted
    /\ idle = [c \in Conns |-> 0] /\ spokeAt = [c \in Conns |-> 0]
    /\ TQ!Init

\* What the loop thread does whatever the peers do: the constructor, and
\* then the loop.
LoopThread ==
    RunEvery \/ TimerCallback \/ LoopStep \/ \E c \in Conns : DestroyConnection(c)

\* Time passes.
Clock == numCreated = 1 /\ TQ!Tick /\ UNCHANGED wheelVars

Next == LoopThread \/ Clock \/ \E c \in Conns : Dispatch(c)

\* The loop thread keeps running and time keeps passing; the peers need
\* not do anything.
Fairness == WF_vars(LoopThread) /\ WF_vars(Clock)

Spec == Init /\ [][Next]_vars /\ Fairness

-----------------------------------------------------------------------------
(* Properties *)

\* The ring keeps its size.
TypeOK ==
    /\ connectionBuckets \in [1..IdleSeconds -> SUBSET Conns]
    /\ conn \in [Conns -> Connection]
    /\ idle \in [Conns -> 0..IdleSeconds]
    /\ spokeAt \in [Conns -> 0..MaxTime]

\* The position of an entry in the ring is the time the connection has been
\* silent: a connection that is up has spoken less than idleSeconds ticks
\* ago and the last bucket that holds its entry is that many places from
\* the end, so that onTimer shuts it down at the tick that makes it
\* idleSeconds, and not before; a connection the ring has shut down has no
\* entry, and a message from it does not bring it back.
WheelTracksIdleness ==
    \A c \in Conns :
        /\ connected(conn[c]) =>
              /\ idle[c] < IdleSeconds
              /\ Max({i \in 1..IdleSeconds : c \in connectionBuckets[i]})
                    = IdleSeconds - idle[c]
        /\ conn[c].state_ \in {"kConnecting", "kDisconnecting"} =>
              c \notin Alive(connectionBuckets)

\* The entry of a connection that is gone leaves the ring: onConnection
\* does not remove it, the timer does.
DeadEntriesLeave ==
    \A c \in Conns :
        disconnected(conn[c]) ~> c \notin Alive(connectionBuckets)

\* The asserts of onConnection and onMessage: a connection that can call
\* back has the weak pointer to its entry in its context.
ContextIsSet ==
    \A c \in Conns : isReading(conn[c]) \/ disconnected(conn[c]) => getContext(conn[c])

\* The shutdown of an idle connection loses no echo: the writing half of
\* the socket is shut only when the output buffer is empty, also when the
\* ring drops the entry while echoes are still queued, and until then the
\* channel watches for room exactly while something is queued.
HalfCloseAfterDrain ==
    \A c \in Conns :
        /\ conn[c].shutWr => conn[c].outputBuffer_ = 0
        /\ ~disconnected(conn[c]) => (conn[c].writing <=> conn[c].outputBuffer_ > 0)

\* The ring shuts down no connection that has spoken less than
\* idleSeconds - 1 seconds ago, by the clock the loop reads: the turns of
\* the ring are a second apart also when the loop is late for the timer
\* and the queue arms the descriptor for the floor and not for a second.
\* (The clock has stopped counting at MaxTime.)
SilentBeforeShutdown ==
    [][\A c \in Conns :
          (loopPc = "callbacks" /\ connected(conn[c]) /\ ~connected(conn'[c])
              /\ readNow < MaxTime)
            => readNow >= spokeAt[c] + (IdleSeconds - 1) * Period]_vars

\* A connection changes its state as the table of the specification allows:
\* the shutdown by an entry that outlived its connection does not bring a
\* closed connection back, and a second one changes nothing.
TransitionsFollowTable ==
    [][\A c \in Conns :
          conn[c].state_ # conn'[c].state_ => <<conn[c].state_, conn'[c].state_>> \in Table]_vars

=============================================================================
