# muduo: a model-checking project

TLA+ models of the concurrent core of muduo, a reactor-style C++ network
library ("one event loop per thread"), checked with TLC.  Every module is
translated from the source files under `src/`; where a module needs the
behaviour of a class whose implementation is not among those files (EventLoop,
Timer, Thread, Condition, Buffer, TcpServer, and the `.cc` files of
TcpConnection, EventLoopThread and EventLoopThreadPool), that behaviour is
taken from `spec.md` and the definition is marked `spec_modelled` in
`PROJECT.json`.  `PROJECT.json` is the index: components, runs, the source
lines behind every definition, the mutation of the code each property is
sensitive to, the findings and the hazards.

## 1. The system

| Part | Source | State | Operations | Talks to |
|---|---|---|---|---|
| TimerQueue | `muduo/net/TimerQueue.{h,cc}` | `timers_` (by expiration), `activeTimers_` (by address), `cancelingTimers_`, `callingExpiredTimers_`, the timer descriptor | `addTimer`, `cancel` (any thread); `addTimerInLoop`, `cancelInLoop`, `handleRead`, `getExpired`, `reset`, `insert` (loop thread); destructor | EventLoop (`runInLoop`, pending functors), Timer, kernel timerfd |
| AsyncLogging | `muduo/base/AsyncLogging.{h,cc}` | `currentBuffer_`, `nextBuffer_`, `buffers_`, `running_`, `latch_`, mutex and condition; the back end's `newBuffer1`, `newBuffer2`, `buffersToWrite` | `append` (front ends), `threadFunc` (back end), `start`, `stop` | FixedBuffer, CountDownLatch, LogFile |
| FixedBuffer, LogStream | `muduo/base/LogStream.h` | `data_`, `cur_` | `append`, `avail`, `length`, `reset`; the `operator<<` family, `resetBuffer` | AsyncLogging, Logger |
| CountDownLatch | `muduo/base/CountDownLatch.cc` | `count_`, mutex, condition | `wait`, `countDown`, `getCount` | AsyncLogging, EventLoopThread, ThreadPool |
| Chat server | `examples/asio/chat/server_threaded_efficient.cc` | `connections_` (copy-on-write shared list), mutex | `setThreadNum`, `start`, `onConnection`, `onStringMessage`, `getConnectionList` | TcpServer, EventLoopThreadPool, codec |
| LengthHeaderCodec | `examples/asio/chat/codec.h` | none of its own (works on the connection's input buffer) | `onMessage`, `send` | TcpConnection, Buffer |
| Idle-connection echo | `examples/idleconnection/echo.cc` | `connectionBuckets_` (ring of sets of shared entries), weak entries in the connections | `onConnection`, `onMessage`, `onTimer`, `~Entry` | TcpConnection, TimerQueue |
| TcpConnection | `muduo/net/TcpConnection.h` | `state_` (four states), channel, input and output buffers, context, callbacks | `send`, `shutdown`, `forceClose`, `connectEstablished`, `connectDestroyed`, `handleRead/Write/Close/Error` | EventLoop, TcpServer, the servers' callbacks |
| EventLoopThread, EventLoopThreadPool | `muduo/net/EventLoopThread.h`, `EventLoopThreadPool.h` | `loop_`, `exiting_`, mutex and condition; `started_`, `numThreads_`, `next_`, `loops_` | `startLoop`, `threadFunc`; `setThreadNum`, `start`, `getNextLoop`, `getLoopForHash` | EventLoop, Thread, TcpServer |
| ThreadLocal | `muduo/base/ThreadLocal.h` | a pthread key, the object of each thread | constructor, `value`, `destructor`, destructor of the class | pthread |
| CurrentThread | `muduo/base/CurrentThread.{h,cc}` | `t_cachedTid` and the other `__thread` caches | `tid`, `cacheTid`, `stackTrace` | Thread, the kernel |
| EventLoop | no file; `spec.md` | pending functors, phase flags, wakeup descriptor | `loop`, `runInLoop`, `queueInLoop`, `quit`, `doPendingFunctors` | Poller, Channel, TimerQueue |
| Acceptor | `muduo/net/Acceptor.h` | listen socket, channel, `listenning_`, `idleFd_` | `listen`, `handleRead` | EventLoop, TcpServer |
| LogFile | `muduo/base/LogFile.h` | `count_`, `startOfPeriod_`, `lastRoll_`, `lastFlush_`, file | `append`, `flush`, `rollFile` | AsyncLogging |
| HttpContext | `muduo/net/http/HttpContext.h` | `state_`, `request_` | `parseRequest`, `gotAll`, `reset` | Buffer |
| Timestamp | `muduo/base/Timestamp.cc` | a number of microseconds | `now`, `toString`, `toFormattedString` | everything |
| Inspector | `muduo/net/inspect/Inspector.h` | a command table under a mutex | `add`, `remove`, `onRequest` | HttpServer |

How the parts interact.  An EventLoop runs on one thread: it polls, dispatches
the ready channels (the timer channel calls `TimerQueue::handleRead`), then
runs the functors other threads have queued.  Everything that belongs to a
loop is touched by that loop's thread only; other threads reach it through
`runInLoop`, which runs the functor at once on the loop thread and queues it
otherwise.  A TcpServer accepts on its base loop and gives each connection to
a loop of its EventLoopThreadPool, in turn; the connection's callbacks run on
that loop from then on.  The logging back end is a thread of its own that
exchanges whole buffers with the threads that log; each log line is put
together in a LogStream first.  The example servers are callbacks a TcpServer
runs on its I/O loops: the chat server shares one list among all loops, the
echo server lives on one loop together with its timer.

### What is hard in it

* **TimerQueue.**  `addTimer` and `cancel` come from any thread and from timer
  callbacks.  From a callback they take effect at once, in the middle of
  `handleRead`, when the expired timers are in neither set; from another thread
  they wait in the functor queue.  Timers are raw pointers, freed addresses are
  reused, and a `TimerId` outlives its timer.  One descriptor must always be
  armed for the earliest timer.
* **AsyncLogging.**  Front ends and the back end exchange buffers by moving
  them: a moved-from buffer must never be written to, the back end must come
  back to the loop with two empty buffers, and no record may be lost or
  written twice except where the code drops on purpose.  `stop` races with
  records still in the buffers.
* **CountDownLatch.**  A waiter must not miss the last `countDown`, and the
  count can go below zero.
* **Chat server and the pool.**  Readers take the shared list without
  copying; a writer copies it only when a reader still holds it.  The loops
  the callbacks run on exist only after `start` has waited for every thread to
  publish the loop it built, and connections are dealt to them in turn.
* **LengthHeaderCodec.**  The byte stream arrives cut anywhere; the length is
  a signed 32-bit number in network order with a limit next to it.
* **Idle-connection echo and TcpConnection.**  A connection's entry sits in
  several buckets of the ring; the entry's destructor shuts the connection
  down when the last bucket that holds it is dropped, which may be while
  echoes are still in the output buffer or after the peer has closed.
  The ring counts turns, not seconds: a turn is a round of the loop's timer
  queue, and the loop may be late for it.
* **FixedBuffer.**  `append` leaves out what does not fit, without a sign.
* **ThreadLocal, CurrentThread.**  Data per thread must not outlive its
  thread nor pass to the next one: thread ids and addresses are reused.

## 2. Plan

Most important first.  Items 1 to 6 and 9 are done, 7 and 8 in part, as the
text says.

1. `TimerQueue`: the queue with the loop thread, foreign threads, the kernel
   timer and the clock.
2. `AsyncLogging` with its buffers and its latch: buffer exchange between
   front ends and back end, start and stop.
3. `ChatServer`, `LengthHeaderCodec`, `IdleConnection`: the three example
   programs whose whole logic is in the source files.
4. `CountDownLatch` with several waiters.
5. `LogStream` over `FixedBuffer`.
6. Abstract specifications and refinements: the timer queue as a set of armed
   timers that fire in rounds (`Timers`), the logger as a queue in front of a
   file that may lose a marked stretch of records (`LogSink`), the latch as a
   gate that opens once (`Gate`).
7. Compositions.  Done: `IdleConnection` over `TcpConnection` (the server's
   callbacks are what the connection calls), `ChatServer` over
   `EventLoopThreadPool` (the loops that run the callbacks are the pool's),
   `ThreadLocal` with `CurrentThread` over the same threads, `IdleConnection`
   on the loop of `TimerQueue` (`onTimer` is the callback of a repeating
   timer of the queue, the handlers of the connections and
   `connectDestroyed` run where a turn of the loop runs them).  Left: the
   chat server's broadcast through the codec to a receiving codec; a front
   end that builds its line in a `LogStream` and hands it to
   `AsyncLogging::append`.
8. From headers and the specification.  Done: TcpConnection's state machine
   as the echo server uses it, EventLoopThread's hand-over of the loop
   pointer, the pool's round-robin.  Left: `forceClose`, `startRead` and
   `stopRead` and the high-water mark of TcpConnection, which no program of
   the repository calls.
9. The wake-up of the loop by `queueInLoop`, with the liveness of what is
   posted to the loop.  Done, in `TimerQueue`.
10. `Timestamp` arithmetic.  Dropped: see "Not modelled".

## 3. Modules

Mutations of the code, used to show that a property depends on the code, are
defined next to the definition they replace and are marked `mutation`.

| Module | Models | Used by |
|---|---|---|
| `TimerQueue` | `TimerQueue.{h,cc}` with the functor queue of its loop | `MCTimerQueue`, `IdleConnection` (`TQ == INSTANCE ...`) |
| `Timers` | what a timer queue promises | `TimerQueue` (`ImplementsTimers`) |
| `AsyncLogging` | `AsyncLogging.{h,cc}`, `FixedBuffer` as the logger uses it | `MCAsyncLogging` |
| `LogSink` | what the logger promises | `AsyncLogging` (`ImplementsLogSink`) |
| `CountDownLatch` | `CountDownLatch.cc` | its own cfg |
| `Gate` | what a latch promises | `CountDownLatch` (`ImplementsGate`) |
| `ChatServer` | `server_threaded_efficient.cc` | `MCChatServer` |
| `EventLoopThreadPool` | `EventLoopThreadPool.h`, `EventLoopThread.h` | `ChatServer` (`Pool == INSTANCE ...`) |
| `LengthHeaderCodec` | `codec.h` | `MCLengthHeaderCodec` |
| `TcpConnection` | `TcpConnection.h` | `IdleConnection` (`EXTENDS`) |
| `IdleConnection` | `echo.cc` on its loop | its own cfg |
| `LogStream` | `LogStream.h` | `MCLogStream` |
| `ThreadLocal` | `ThreadLocal.h` | `MCPerThread` (`TL`) |
| `CurrentThread` | `CurrentThread.{h,cc}` | `MCPerThread` (`CT`) |

### TimerQueue.tla

State: one variable per member of `TimerQueue` (`timers`, `activeTimers`,
`cancelingTimers`, `callingExpiredTimers`), the heap of `Timer` objects by
address (`heap`, with `Free` for a freed cell), `Timer::s_numCreated_`
(`numCreated`), the kernel timer (`timerfd`: armed, expiration, readable), the
clock (`now`), the loop's functor queue and the descriptor that wakes the
loop for it (`pendingFunctors`, `wakeupFd`) and the local
state of the two kinds of thread (`loopPc`, `expired`, `nextCb`, `readNow`,
`functors` for the loop thread; `caller` for the others).  `issued` is the set
of `TimerId`s user code holds.  `cancelRan` and `cancelFound` are history
variables used by the properties only.

| Action | Code |
|---|---|
| `AddTimer(c, a, d, iv)` | `addTimer` up to `runInLoop`: `new Timer`, functor queued (`QueueInLoop`: the queue grows and `wakeup` writes to the descriptor) |
| `AddTimerReturn(c)` | `addTimer`'s `return TimerId(timer, timer->sequence())` |
| `Cancel(c, id)` | `cancel` from a foreign thread |
| `HandleReadBegin` | `handleRead` up to the callbacks: `readTimerfd` (`ReadTimerfd`), `getExpired`, flag set, `cancelingTimers_` cleared |
| `RunCallback` | one `it.second->run()`; the callback does nothing, cancels (`CancelInLoop` at once) or adds (`CallbackAdds`) |
| `HandleReadReset` | flag cleared and `reset`: restart or delete each fired timer, re-arm |
| `DoPendingFunctors`, `RunFunctor`, `FunctorsDone` | the loop's functor phase after the timer's handler: the swap of the queue (`Swap`), then `RunFunctor` runs `AddTimerInLoop` or `CancelInLoop` |
| `HandleWakeup` | `poll` returns for the wake-up descriptor alone: the loop's `handleRead` reads it, then the swap |
| `PollReturns` | `poll` returns with neither descriptor readable (its timeout, a channel of somebody else), then the swap |
| `Tick` | time passes, the kernel timer expires (the kernel's part, no line of the source) |
| `Destructor` | `~TimerQueue` |

`addTimer` is two actions because another thread can run between its two
steps, and the second step reads memory the loop thread may have freed:
`SequenceRead` makes that read a choice among the values the memory can hold.
`handleRead` is three kinds of step because callbacks are user code that
re-enters the queue.  `Insert` is `insert` with its two sets;
`HowMuchTimeFromNow` keeps the floor of 100 microseconds as `MinArm`.

The clock counts to `MaxTime` and stops there, and `AddTime`, the `addTime`
of the expirations, stops with it: the times from `MaxTime` on are one time.
A further `Tick` stands for any stretch of time and makes an armed descriptor
readable, and a timer that would expire later expires at `MaxTime`, so that a
repeating timer goes on firing for ever and the liveness properties speak of
every timer.  Properties that compare times leave the last value out.

`Timers.tla` is the abstract queue: `armed` (pairs of id and expiration),
`firing` (the ids of the round under way that may be armed again) and the
`clock`, with the steps `Add`, `Cancel`, `Fire`, `Reset`, `Tick`, `Close`.
`TimerQueue` implements it under

    clock  <- now
    armed  <- {<<IdOf(e[2]), e[1]>> : e \in timers}
    firing <- {IdOf(a) : a \in ToSet(expired)} \ cancelingTimers

so a step of the loop's functor queue, of a foreign thread or of the kernel
timer is a step of `Timers` or leaves its three variables alone.  `Cancel`
of `Timers` does not say which timer it takes, so that the refinement cannot
tell a cancel that removes the wrong timer; `CancelHitsItsOwnTimer` states
that of the queue itself.

### AsyncLogging.tla

State: `currentBuffer`, `nextBuffer`, `buffers` (the members the mutex
guards), the back end's locals `newBuffer1`, `newBuffer2`, `buffersToWrite`,
the control state (`running`, the latch count, where `start` and `stop` are),
the back end's place in `threadFunc` (`backend`), a pending `notify`
(`signalled`) and the destination file `output`, a sequence of record numbers
and `Marker`s.  A buffer is its records and the bytes used; a record is its
number, so that order and loss are visible.  `Null` is a moved-from
`unique_ptr`.

| Action | Code |
|---|---|
| `FrontendAppend(len)` | `append`: the whole critical section, with the promotion of `nextBuffer_` or the allocation, and the notify |
| `Start`, `StartReturns` | `start`: `running_ = true`, thread started; the return from `latch_.wait()` |
| `Stop`, `Joined` | `stop`: `running_ = false`, notify; the return from `join`.  The destructor calls `stop` when `running_` is set and is the same step |
| `ThreadEntry` | `threadFunc` up to the loop: assert, `latch_.countDown()`, the two spares |
| `LoopTest` | `while (running_)` with the asserts on the spares |
| `LockOrWait`, `Wake` | the critical section of the back end: with nothing queued it waits (timed) and `Wake` does the exchange; otherwise `LockOrWait` does |
| `WriteAndReplenish` | outside the mutex: the drop above the threshold with its marker, the writes, the refill of the spares from the written buffers, `clear`, `flush` |

A critical section is one action because the mutex makes it one.  The write
phase is one action because it touches only what the back end owns.

`LogSink.tla` is the abstract logger: the number of records `accepted`, the
queue `pending`, the `file`; `Accept`, `Write(k)` and `Overflow(k, j)`, which
writes a marker, `k` records, and throws `j` away.  The mapping is

    accepted <- numAppended
    pending  <- Unwritten     \* the records of buffersToWrite, buffers_, currentBuffer_
    file     <- output

### CountDownLatch.tla

State: `count`, the holder of `mutex_` (`mutex`), per thread `pc` (`"idle"`,
`"tested"`, `"blocked"`, `"returned"`), the threads blocked in
`condition_.wait()` and not yet notified (`waiting`); `downs` counts the
calls of `countDown`.

| Action | Code |
|---|---|
| `Wait(t)` | `wait`: the mutex is taken and the count tested (`Test`): return if it is not positive, else go on with the mutex held |
| `Block(t)` | `condition_.wait()`: the mutex is given up and the thread blocks, in one step |
| `Wake(t)` | a notified thread re-acquires the mutex and tests again |
| `SpuriousWake(t)` | `pthread_cond_wait` returns without a notification |
| `CountDown(t)` | `countDown`: under the mutex, decrement, `notifyAll` if the count is exactly zero |

`wait` is two steps so that the model can tell what the mutex does: a waiter
that has seen a count above zero is not yet blocked, and only the mutex it
holds keeps `countDown` from notifying in between.  Without the guard
`MutexFree` both `TypeOK` and `NoLostWakeup` fail.

`Gate.tla` is the abstract latch: `open`, the threads `waiting` and those
that have `passed`; its specification includes that nobody is left standing
in front of the open gate.  The mapping is

    open    <- GetCount <= 0
    waiting <- {t \in Threads : pc[t] \in {"tested", "blocked"}}
    passed  <- {t \in Threads : pc[t] = "returned"}

### EventLoopThreadPool.tla and ChatServer.tla

`EventLoopThreadPool` has the members of the pool (`numThreads`, `started`,
`next`, `loops`) and of its threads (`loop_` of each; `starting` says that the
base thread is inside `startLoop`, waiting).  A loop is named by its thread,
the base loop is 0.

| Action | Code |
|---|---|
| `SetThreadNum(n)` | `setThreadNum` |
| `Start` | `start()`: `started_ = true` |
| `StartLoop` | `start()` makes the next EventLoopThread and calls `startLoop`, which starts the thread and waits |
| `ThreadFunc(w)` | `threadFunc`: the loop is built, `loop_` is set under the mutex, the condition notified |
| `StartLoopReturns` | `while (loop_ == NULL) cond_.wait()` ends; `loops_.push_back` |
| `GetNextLoop(l)` | `getNextLoop`: the base loop if there is no other, else `loops_[next_]` and `next_` advanced modulo the size |

The module has no `Next` of its own: `ChatServer` instantiates it and joins
its actions with what the server does with them.

`ChatServer` state: the pool's variables; `ioLoop`, the loop each connection
was given; `mutex`, `connections` (the `shared_ptr` member, an address),
`list` (the `ConnectionList` at each address), per loop thread the place in
its callback (`pc`), the connection of the callback (`arg`), the local pointer
of `onStringMessage` (`held`) and the connections its loop has sent to
(`sent`); `connected` is `conn->connected()`.  The use count of a list is
computed from the pointers to it (`UseCount`).  `snapshot` and `owned` (the
loops that got a connection in the round of the round-robin under way) are
history variables.

| Action | Code |
|---|---|
| `SetThreadNum(n)` | `main` and `ChatServer::setThreadNum`: `atoi(argv[2])` handed to the pool, once, before `start` |
| `Start` | `ChatServer::start`: one step of the pool's start-up |
| `NewConnection(c)` | TcpServer takes a loop from `getNextLoop` for a new connection |
| `ConnectionChanges(t, c)` | the connection has come up or gone down (`StateChanges`, which is TcpConnection's) and its loop calls `onConnection` |
| `LockAndCopy(t)` | `onConnection`: lock, `unique()` test, `reset(new ConnectionList(*connections_))` |
| `InsertOrErase(t)` | `onConnection`: assert, `insert` or `erase`, unlock |
| `GetConnectionList(t, c)` | `onStringMessage` entering `getConnectionList`: the pointer copied under the mutex |
| `SendToNext(t)` | one round of the `for` loop |
| `Release(t)` | the local pointer goes out of scope; the last owner deletes the list |

`onConnection` is two actions to let `WriterIsAlone` look at the state between
the copy and the change; the mutex is held across both.  The callbacks of a
connection run on the loop it was given (`ioLoop[c] = t`), so those of one
connection never overlap.  After the down edge's callback the connection's
name stands for a new connection, which is given a loop anew.

### LengthHeaderCodec.tla

State: `wire` (bytes sent and not yet read), `buf` (the readable bytes of the
receiver's input buffer), `delivered` (what `messageCallback_` got),
`shutdown`; `sent` is a history variable.  A byte is a digit below `Base` and
the header has `HeaderLen` digits, so that the real widths (256, 4) shrink
without changing the arithmetic: `HostToNetwork32` wraps modulo
`Base^HeaderLen` and writes the most significant digit first,
`NetworkToHost32` reads it back as a signed number.

| Action | Code |
|---|---|
| `Send(m)` | `send`: header prepended, frame handed to the connection |
| `Receive(n)` | the connection reads `n` bytes and calls `onMessage`, whose `while` loop is the recursive operator `OnMessage` (header test, illegal length and `shutdown`, complete message and callback, incomplete message) |

### TcpConnection.tla and IdleConnection.tla

`TcpConnection` is a record per connection (`conn[c]`): `state_`, `reading_`,
the channel's interest in writing and whether the loop has the channel,
whether the writing half of the socket is shut, the number of messages in
`outputBuffer_` and whether `context_` is set.  The states and the inline
accessors are the header's; the operations are those of section 4.8 of the
specification.  The callbacks of the user are arguments of the actions that
call them, functions from the record to the record the callback leaves.

| Action | Code |
|---|---|
| `ConnectEstablished(c, cb)` | `connectEstablished`: state, `enableReading`, `connectionCallback_` |
| `HandleRead(c, cb)` | `handleRead` with data: `messageCallback_` |
| `HandleClose(c, cb)` | `handleRead` with nothing to read, `handleClose`: `disableAll`, `connectionCallback_` |
| `HandleWrite(c)` | `handleWrite`: a message written; with the buffer empty, writing disabled and a pending shutdown done |
| `Shutdown(cs)` | `shutdown` and `shutdownInLoop` for each connection of `cs`: the socket is shut only if the channel is not writing |
| `ConnectDestroyed(c)` | `connectDestroyed`: the channel leaves the loop |

`Accepted` is the state TcpServer leaves new connections in (`kConnecting`,
the channel not yet in the loop).  `Send(r, whole)` is `send` with
`sendInLoop`: it has an effect on a connected connection only, writes at once
when nothing is queued and the socket takes the whole message (`whole`), and
queues the message otherwise.

`IdleConnection` extends it with `connectionBuckets` (a sequence of
`IdleSeconds` sets of connections: a connection in a bucket is a `shared_ptr`
to its entry there) and with the loop the server runs on, an instance of
`TimerQueue` with one timer, no foreign thread and no functor of the queue's
own (`TQ`).  `idle` and `spokeAt` are history variables, the turns of the
ring and the clock at the connection's last message.  The weak pointer in the
connection's context yields the entry exactly while some bucket holds it
(`Alive`).

| Action | Code |
|---|---|
| `OnConnectionUp(c)` | `connectEstablished` calling `onConnection`, connected branch: new entry into the last bucket, weak pointer into the context |
| `OnConnectionDown(c)` | `handleClose` calling `onConnection`, other branch: nothing but the assert and logging; the entry stays |
| `OnMessage(c)` | `handleRead` calling `onMessage`: echo, `weakEntry.lock()`, insert into the last bucket if the entry is alive |
| `OnTimer` | `onTimer`: `push_back(Bucket())` drops the first bucket (`DestroyEntries` is `~Entry`, of a header that is not among the files); an entry that loses its last owner is destroyed and its destructor calls `shutdown` on a connection that still exists |
| `RunEvery` | `loop->runEvery(1.0, ...)` of the constructor: `NewTimer` and `AddTimerInLoop` of the queue, with `Period` for the second |
| `Dispatch(c)` | the loop calls the handler of a connection's channel, after `poll` and before or after the timer's: one of the three callbacks above, or `HandleWrite` |
| `TimerCallback` | `RunCallback` of the queue, and `OnTimer` is what it runs |
| `DestroyConnection(c)` | the functor TcpServer queued at the close: `ConnectDestroyed`, in the functor phase |
| `LoopStep` | the queue's steps of a turn of the loop: `HandleReadBegin`, `HandleReadReset`, `DoPendingFunctors`, `PollReturns`, `FunctorsDone` once no closed connection is left to destroy |
| `Clock` | `Tick` of the queue |

### LogStream.tla

State: `data`, the readable part of the `FixedBuffer`; `streamed` is a history
variable.  `Stream(text)` is `buffer_.append` as every operator of the header
calls it; the operators differ in the text they hand over (`OfBool`, `OfChar`,
`OfCString` with `"(null)"` for a null pointer, `OfBuffer`).  `ResetBuffer` is
`resetBuffer`.  `BufAppend` is `FixedBuffer::append` with its test `Fits`
(`avail() > len`): a text that does not fit is left out as a whole.  The
comment above the test asks for something else, and the one run of this
module shows the difference (`LineIsCutAtItsEnd`, under Findings).  The same
test, with the same boundary, guards the buffers of `AsyncLogging`, whose
run exercises a record that fills a buffer exactly.

### ThreadLocal.tla, CurrentThread.tla, MCPerThread.tla

`ThreadLocal`: the threads that run (`alive`), the key (`pkey`), the value of
the key in each thread (`specific`), the allocated objects (`heap`);
`orphans` is a history variable.  `Constructor`, `Destructor` (the key is
deleted, no object is), `Value(t)` (the object is made at the first call),
`Start(t)`, `Exit(t)` (pthread calls `destructor` with the thread's object).

`CurrentThread`: the id the kernel gave each thread (`kernelTid`, from a
small set so that ids are reused), `t_cachedTid`, what `tid()` last returned,
and the last call of `stackTrace` (`call`).  `Tid(t)` is `tid` with
`cacheTid`; `ThreadStarts`, `ThreadExits`; `StackTraceBegins` and
`StackTraceLoop` are `stackTrace` frame by frame, with `Appended` for the
search of the parenthesis and the plus sign around the symbol and its
replacement by the demangled name.  A line is a short sequence of characters,
because the property is about where the symbol is found.

`MCPerThread` runs both over the same threads: a thread that starts or exits
does so for both.

## 4. Runs

| Run | Module, cfg | Checks | Result |
|---|---|---|---|
| `timerqueue_safety` | `MCTimerQueue`, `MCTimerQueue.cfg` | `TypeOK`, `SetsMirrorHeap`, `TimerfdCoversEarliest`, `CancelIsFinal`, `NoTimerLeaks`, `ImplementsTimers`, `CancelHitsItsOwnTimer` | holds, 1,226,563 states |
| `timerqueue_liveness` | `MCTimerQueue`, `MCTimerQueueLive.cfg` | `DueTimerFires`, `QueuedFunctorRuns` | holds, 39,765 states |
| `timerqueue_addtimer_race` | `MCTimerQueue`, `MCTimerQueue_AddTimerReadsItsTimer.cfg` | `AddTimerReadsItsTimer` | violated |
| `timerqueue_cancel_overtakes_add` | `MCTimerQueue`, `MCTimerQueue_CancelledIsNotActive.cfg` | `CancelledIsNotActive` | violated |
| `asynclogging` | `MCAsyncLogging`, `MCAsyncLogging.cfg` | `TypeOK`, `BackendAssertsHold`, `RecordsAccountedFor`, `RecordLeavesMemory`, `ImplementsLogSink` | holds, 57,518 states |
| `asynclogging_stop` | `MCAsyncLogging`, `MCAsyncLogging_StopLosesNothing.cfg` | `StopLosesNothing` | violated |
| `chatserver_safety` | `MCChatServer`, `MCChatServer.cfg` | `TypeOK`, `WriterIsAlone`, `ReadersSeeFrozenList`, `ListIsMembership`, `LoopsArePublished`, `RoundRobinIsEven` | holds, 446,481 states |
| `codec_framing` | `MCLengthHeaderCodec`, `MCLengthHeaderCodec.cfg` | `TypeOK`, `DeliveredIsFraming`, `RoundTrip`, `InputBoundedWhileOpen`, `ShutdownIsFinal` | holds, 13,134 states |
| `idleconnection` | `IdleConnection`, `IdleConnection.cfg` | `TypeOK`, `WheelTracksIdleness`, `ContextIsSet`, `HalfCloseAfterDrain`, `DeadEntriesLeave`, `TransitionsFollowTable`, `SilentBeforeShutdown` | holds, 159,950 states |
| `countdownlatch` | `CountDownLatch`, `CountDownLatch.cfg` | `TypeOK`, `NoLostWakeup`, `ImplementsGate` | holds, 538 states |
| `logstream_partial_append` | `MCLogStream`, `MCLogStream_LineIsCutAtItsEnd.cfg` | `LineIsCutAtItsEnd` | violated |
| `perthread` | `MCPerThread`, `MCPerThread.cfg` | `TypeOK`, `ObjectsDieWithTheirThread`, `TidIsOwn`, `TraceShowsEveryFrame` | holds, 289,350 states |

What the passing runs show.

* **TimerQueue.**  The two sets describe the same timers as the heap at every
  point outside `handleRead` (`SetsMirrorHeap`); a queue that holds timers has
  its descriptor readable or armed no later than its earliest timer, or the
  floor of the arming delay (`TimerfdCoversEarliest`); a cancel that found its
  timer is final, also for a repeating timer cancelled from its own callback
  (`CancelIsFinal`); every `Timer` is in the queue, in flight, or freed
  (`NoTimerLeaks`); a timer whose time has come leaves the queue
  (`DueTimerFires`).  Every behaviour of the queue is a behaviour of `Timers`
  (`ImplementsTimers`): no timer fires before its time, a round holds all the
  timers that are due, a timer is armed again at most once per round and
  never after a cancel that found it.  A timer leaves `activeTimers_` only
  when it expires, when the queue is destroyed or when `cancelInLoop` runs
  for its own id (`CancelHitsItsOwnTimer`): the third timer of the run lives
  at the address of a deleted one whose `TimerId` is still held and
  cancelled, and `find` compares the sequence as well as the pointer.  The
  descriptor can be armed *earlier*
  than the earliest timer: `cancelInLoop` erases without re-arming, the loop
  wakes once with nothing to fire and re-arms then.  What another thread
  queues for the loop is taken from the queue although no return of a `poll`
  in which nothing is readable is assumed (`QueuedFunctorRuns`): the write
  to the wake-up descriptor ends the `poll`, and a read of the descriptor
  always comes before the swap that takes what was queued with that write.
  Without the write a functor waits for the next timer or for ever.
* **AsyncLogging.**  The asserts of `threadFunc` hold; every record is in
  exactly one of the buffers, the file, or the set dropped at a marker; while
  logging runs every record leaves memory.  Every behaviour is a behaviour of
  `LogSink` (`ImplementsLogSink`): the file grows at its end only, in the
  order of `append`, and a gap in it has a marker in front.
* **ChatServer.**  A list is changed only while `connections_` is its single
  owner, so a reader's loop walks a set nobody touches; `connections_` holds
  exactly the connections that are up once their `onConnection` has returned.
  No connection is given a loop before `start` has returned, the loops given
  are loops their threads have published, and the base loop is used exactly
  when no thread was asked for (`LoopsArePublished`); within a round of the
  round-robin the loops that have got a connection are the first `next_`
  ones (`RoundRobinIsEven`).
* **LengthHeaderCodec.**  Whatever the cuts of the stream, the receiver's
  deliveries and buffer are the frames sent; legal messages come out as they
  went in; less than one frame waits in the buffer; after an illegal length
  nothing is delivered any more.
* **IdleConnection.**  The last bucket that holds the entry of a live
  connection is as many places from the end of the ring as the connection has
  been silent for ticks, so the connection is shut down by the tick that
  completes `IdleSeconds` and by no earlier one; a connection the ring has
  shut down has no entry and a late message does not bring it back
  (`WheelTracksIdleness`).  The asserts on the context hold (`ContextIsSet`);
  the socket is shut for writing only with the output buffer empty, also when
  the entry is dropped while echoes are queued (`HalfCloseAfterDrain`); the
  shutdown by an entry that outlived its connection changes nothing
  (`TransitionsFollowTable`).  With the timer in the loop's queue the turns
  of the ring keep their distance: no connection is shut down by a round of
  the queue that reads the clock less than `IdleSeconds - 1` periods after
  the connection's last message, also when the loop was late for the round
  before, because `restart` counts from the time the round read
  (`SilentBeforeShutdown`); and the entries of closed connections leave the
  ring because the queue arms its descriptor after every round, with the
  floor of the delay when the next round is already due (`DeadEntriesLeave`).
* **CountDownLatch.**  The mutex is held by the one thread that is between
  its test and its wait (`TypeOK`), and no thread is blocked unnotified once
  the count is at or below zero (`NoLostWakeup`).  Every behaviour is a behaviour of `Gate`
  (`ImplementsGate`): `wait` returns only when the gate is open, the gate
  never closes again, also when `countDown` is called more often than the
  count, and every thread blocked in front of the open gate returns.
* **ThreadLocal, CurrentThread.**  While the key exists the allocated objects
  are the values of the running threads, one thread each; after
  `~ThreadLocal` the objects of the threads that were running then stay
  allocated for ever, and nothing else does (`ObjectsDieWithTheirThread`).
  `tid()` returns the id of the calling thread, also when the kernel gives
  the id of a thread that has exited to a new one (`TidIsOwn`).
  `stackTrace` returns a line per frame with the symbol, and nothing else,
  replaced by its readable name, also for paths with a plus sign or a
  parenthesis in front of the symbol (`TraceShowsEveryFrame`).

### Findings

* `AddTimerReadsItsTimer` (`TimerQueue.cc:126`).  `addTimer` reads
  `timer->sequence()` after `runInLoop` has queued `addTimerInLoop`.  The loop
  thread can insert, fire and delete a one-shot timer before the read.
* `CancelledIsNotActive` (`TimerQueue.cc:161`).  A cancel made in a timer
  callback runs at once and overtakes the queued `addTimerInLoop` of the timer
  it names; it finds nothing, and the timer fires later.
* `StopLosesNothing` (`AsyncLogging.h:49`).  `stop` ends the back end at its
  next loop test; records in `currentBuffer_` and `buffers_` are never
  written, and no marker says so.
* `LineIsCutAtItsEnd` (`LogStream.h:42`).  The comment in
  `FixedBuffer::append` reads `FIXME: append partially`: of a text too long
  for what is left, the beginning should be kept.  The code drops the whole
  text and copies a shorter one that follows, so that the buffer is not the
  beginning of what was streamed: with a buffer of 4, the texts `0`, `000`
  and `1` leave `01`.  A log line can miss a piece in its middle with
  nothing to show it.

What the passing runs state with a restriction the code forces:

* the input buffer of the codec is bounded only until `shutdown()`: the bad
  header is never retrieved and the connection keeps reading (`codec.h:39`);
* the timer descriptor covers the earliest timer without being equal to it;
* `~ThreadLocal` deletes the key and none of the objects: those of threads
  still running are never freed (`ThreadLocal.h:30`);
* `codec.h:33` reads the header through an `int32_t` pointer at whatever
  address the reader index has.  The models keep no addresses, so this is
  listed as a hazard without a property.

## 5. Bounds

| Run | Constants | Why they are enough |
|---|---|---|
| `timerqueue_safety` | 3 timers (`MaxTimers`), 2 heap addresses, clock `0..3`, one foreign thread, delays `{0, 1}`, intervals `{0, 1}`, one pending functor per kind (`MaxPending`), `MinArm = 1` | the third timer reuses a freed address while a `TimerId` of the first is still held; one repeating and one one-shot timer expire together; a cancel and an add are queued at once |
| `timerqueue_liveness` | 2 timers, clock `0..2` | a repeating timer restarts before the clock stops and goes on firing after it; a functor is queued while the loop sleeps in `poll` with no timer armed, and while it reads the descriptor for an earlier one; liveness checking is slower than safety |
| `asynclogging` | `Cap = 3`, records of 1 or 2 bytes, `DropThreshold = 2` (25 in the code), `MaxAppends = 7` | a record that exactly fills a buffer; both spares used up and an allocation; three full buffers queued, which crosses the threshold |
| `chatserver_safety` | `MaxThreads = 3` (the base loop and up to 3 I/O loops), 3 connections, one list address more than loops | a pool of none, one, two and three threads; with three, a round of the round-robin and the start of the next; two readers on different lists while a third loop writes; a list per reader and one for `connections_` is the most that can be alive |
| `codec_framing` | `Base = 2`, `HeaderLen = 3` (lengths `-4..3`), `MaxLen = 2`, messages of 0 to 4 equal bytes, 3 sends | messages at, above and far above the limit (length 4 wraps to a negative header); payloads of ones look like headers; three frames give cuts inside the first, between and inside later ones |
| `idleconnection` | 2 connections, 2 buckets, `Period = 2`, clock `0..6`, `MaxOutput = 2` | an entry in both buckets, in one, and expired, at different times for the two connections; a message in the first and in the second half of a period; rounds of the timer on time (2 and 4) and late (3 and 5), with a shutdown before the clock stops in both; a shutdown with two, one and no echo queued; a peer that closes before, during and after the shutdown |
| `countdownlatch` | 4 threads, count 2, 3 calls of `countDown` | two threads blocked when the count reaches zero, a third between its test and its wait while a fourth wants to count down; one call more than the count |
| `logstream_partial_append` | buffer of 4, 3 characters, texts of up to 2 characters, or of up to 3 from another buffer (`"(null)"` is 2), 3 texts between resets | a text that does not fit into what is left, followed by one that does |
| `perthread` | 2 threads, 2 object addresses, 2 thread ids, stacks of up to 2 frames of 10 kinds | a thread that exits and one that starts with its id and with the address of its object; the key deleted with none, one and two objects alive; frames with a mangled and a plain symbol, with an offset only, with empty and without parentheses, after a path with a plus sign or a parenthesis |

Every counter that could grow without end has its bound in a guard:
`MaxTimers`, `MaxTime`, `MaxPending` (TimerQueue), `MaxAppends`
(AsyncLogging), `MaxSent` (codec), `MaxCountDowns` (latch), `MaxPieces`
(LogStream), `MaxOutput` (TcpConnection), `MaxFrames` (CurrentThread);
`next_` of the pool is bounded by the code itself.  Runs whose behaviours end
(all calls made, time at its bound) are checked without the deadlock test;
the chat server, the echo server and the per-thread data never stop and are
checked with it.

Symmetry is used where values are interchangeable and only invariants are
checked: the connections of `MCChatServer`.  Its loops are not
interchangeable, the pool hands them out in order.

Choices of the models where the sources and the specification are silent:
`send` on a connection that is not connected has no effect; `atoi(argv[2])`
is a number from 0 to `MaxThreads`; the path of a binary in a stack trace
does not hold a parenthesis followed by a plus sign.

## 6. Fairness

| Module | Fairness | Why the code justifies it |
|---|---|---|
| TimerQueue | weak fairness of the loop thread's steps and of `Tick`; none of `PollReturns` | the loop thread is a thread of its own that blocks only in `poll`, which a readable descriptor ends; time passes.  A `poll` in which nothing is readable may last as long as its timeout, and no property may rest on its return |
| AsyncLogging | weak fairness of the back end's steps | the back end is a thread of its own and its wait is timed (`waitForSeconds(flushInterval_)`), so it needs no notify to go on |
| IdleConnection | weak fairness of the loop thread's own steps (`LoopThread`: the constructor, the queue's steps of a turn, the timer's callback, the queued `connectDestroyed`) and of `Clock` | as for TimerQueue, with `PollReturns` among the fair steps: the functor of a closed connection is queued by the loop thread itself, which is past `poll` when it does so; the handlers of the connections are left out, since a peer need not send, close or read |
| CountDownLatch | weak fairness of `Wake(t)` | a notified thread is runnable and gets the mutex, which is held for a few instructions only; once the count is at zero no thread holds it between test and wait, so that nothing is assumed of the threads that hold it |
| ChatServer with the pool, LengthHeaderCodec, LogStream, ThreadLocal, CurrentThread | none | no liveness property is stated: a pthread mutex promises a waiting thread nothing, the peer of a connection need not send, and a thread need not call |

## 7. Not modelled

* EventLoop, Timer, Channel, Poller, Buffer, TcpServer, Thread, Condition: no
  source among the files.  What the modules need of them is modelled from
  the specification inside the module that needs it: the order of a turn of
  the loop and the functor queue in `TimerQueue`, the interest set of a
  channel and the fill of the output buffer in `TcpConnection`, the path from
  the close of a connection to `connectDestroyed` in `IdleConnection`.
  `quit` of the loop, its flag `callingPendingFunctors_` (no functor of these
  programs queues a functor), the check of the calling thread, the pollers
  and the storage of Buffer are not modelled.
* Acceptor: a header; `listen` and `handleRead` are `accept` on a socket, and
  the spare descriptor for a full descriptor table is closed, used and
  reopened within one call, which no other thread can see.
* LogFile: a header; rolling and flushing by time and size is file I/O.
  `output` of `AsyncLogging` stands for the file as the sequence of what
  `append` was given.
* HttpContext, Inspector: headers; `parseRequest` and the handlers of the
  commands are not among the files, and the specification does not describe
  them.
* Timestamp: `toString` and `toFormattedString` format a number, `now` reads
  the clock, which is `now` of `TimerQueue`.  The split into seconds and
  microseconds rounds towards zero, which differs from the floor only for
  times before 1970, and no clock of these programs gives one.
* LogStream's operators for numbers and pointers and the constructor of
  `Fmt`: declared in the header, defined elsewhere; they are conversions to
  text.
* TcpConnection's `forceClose`, `forceCloseWithDelay`, `startRead`,
  `stopRead`, `setTcpNoDelay` and the high-water mark: no program of the
  repository calls them; item 8 of the plan.
* EventLoopThread's destructor (`exiting_`, `quit`, `join`) and the pool's
  `getLoopForHash` and `getAllLoops`: the example servers never stop their
  pool, and the two functions only read `loops_`.
* `ThreadPool_test.cc`: a test of ThreadPool, whose implementation is not
  among the files and which the specification does not describe; its use of
  the latch (one thread counts down, another waits) is among the behaviours
  of `CountDownLatch.cfg`.
* `dumpConnectionBuckets` and every `LOG_*` line: output only.
