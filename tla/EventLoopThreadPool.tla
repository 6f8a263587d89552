------------------------- MODULE EventLoopThreadPool -------------------------
(***************************************************************************)
(* The pool of I/O threads of a TcpServer (muduo/net/EventLoopThreadPool.h *)
(* and EventLoopThread.h).  The headers give the members and the inline    *)
(* functions; start, startLoop, threadFunc and getNextLoop are modelled    *)
(* from section 4.6 of the specification.                                  *)
(*                                                                         *)
(* The thread that owns the base loop starts the pool: one EventLoopThread *)
(* after the other, each time waiting until the new thread has published   *)
(* the EventLoop it built on its stack.  A loop is named by its thread:    *)
(* the base loop is 0, the loop of the i-th EventLoopThread is i.          *)
(***************************************************************************)
EXTENDS Integers, Sequences

CONSTANTS
    MaxThreads,     \* bound: the largest number of threads that is asked for
    Null            \* a pointer to nothing

VARIABLES
    numThreads,     \* numThreads_
    started,        \* started_
    next,           \* next_
    loops,          \* loops_
    loop_,          \* EventLoopThread::loop_ of each thread of threads_
    starting        \* the base thread is in startLoop(), waiting

poolVars   == <<numThreads, started, next, loops>>    \* EventLoopThreadPool
threadVars == <<loop_, starting>>                     \* the EventLoopThreads

BaseLoop == 0                \* baseLoop_
Workers  == 1..MaxThreads    \* the threads threads_ can hold

\* The members of the two classes.
Members ==
    /\ numThreads \in 0..MaxThreads /\ started \in BOOLEAN /\ starting \in BOOLEAN
    /\ loops \in Seq(Workers \cup {Null}) /\ next \in 0..MaxThreads
    /\ loop_ \in [Workers -> Workers \cup {Null}]

\* The EventLoopThread start() is busy with: the one after those whose loop
\* is in loops_.
Starting == Len(loops) + 1

PublishedOrWoken(w) == TRUE    \* mutation: `if' for `while' around the wait

\* startLoop's wait ends: while (loop_ == NULL) cond_.wait()
Published(w) == loop_[w] # Null

\* start() has returned: every thread that was asked for has its loop in
\* loops_.
Started == started /\ ~starting /\ Len(loops) = numThreads

NextAfterStuck == next         \* mutation: next_ is not advanced

\* next_ after getNextLoop: the index modulo the number of loops
NextAfter == IF loops = <<>> THEN next ELSE (next + 1) % Len(loops)

\* What getNextLoop returns: the loops in turn, or the base loop if there
\* is no other
NextLoop == IF loops = <<>> THEN BaseLoop ELSE loops[next + 1]

-----------------------------------------------------------------------------
\* setThreadNum
SetThreadNum(n) ==
    /\ numThreads' = n
    /\ UNCHANGED <<started, next, loops, threadVars>>

\* start(), up to the first thread
Start ==
    /\ ~started
    /\ started' = TRUE
    /\ UNCHANGED <<numThreads, next, loops, threadVars>>

\* start() creates the next EventLoopThread and calls its startLoop(), which
\* starts the thread and waits.
StartLoop ==
    /\ started /\ ~starting
    /\ Len(loops) < numThreads
    /\ starting' = TRUE
    /\ UNCHANGED <<poolVars, loop_>>

\* threadFunc of the new thread: it builds its EventLoop, publishes the
\* pointer under the mutex, notifies, and enters loop().
ThreadFunc(w) ==
    /\ starting /\ w = Starting
    /\ loop_[w] = Null
    /\ loop_' = [loop_ EXCEPT ![w] = w]
    /\ UNCHANGED <<poolVars, starting>>

\* startLoop() returns the pointer it finds, and start() keeps it.
StartLoopReturns ==
    /\ starting
    /\ Published(Starting)
    /\ loops' = Append(loops, loop_[Starting])
    /\ starting' = FALSE
    /\ UNCHANGED <<numThreads, started, next, loop_>>

\* getNextLoop returns l.
GetNextLoop(l) ==
    /\ Started
    /\ l = NextLoop
    /\ next' = NextAfter
    /\ UNCHANGED <<numThreads, started, loops, threadVars>>

\* The constructor: no thread, nothing started.
Constructed ==
    /\ numThreads = 0 /\ started = FALSE /\ next = 0
    /\ loops = <<>> /\ loop_ = [w \in Workers |-> Null]
    /\ starting = FALSE

=============================================================================
