---------------------------- MODULE AsyncLogging ----------------------------
(***************************************************************************)
(* The double-buffered log sink (muduo/base/AsyncLogging.{h,cc}).  Front   *)
(* ends append records to currentBuffer_ under the mutex; full buffers     *)
(* queue up in buffers_.  The back end thread takes everything, hands back *)
(* empty buffers, and writes outside the mutex.  A critical section is one *)
(* action; the back end's wait, which gives the mutex up, splits its       *)
(* section in two.  A record is a number, in the order of the appends; a   *)
(* buffer is the records it holds and the bytes they take.                 *)
(***************************************************************************)
EXTENDS Integers, Sequences, FiniteSets, SequencesExt

CONSTANTS
    Cap,            \* kLargeBuffer, the size of a buffer
    MsgLens,        \* the lengths a record may have
    DropThreshold,  \* 25: more buffers than this in one round are dropped
    MaxAppends,     \* bound on the number of records appended
    Null            \* a unique_ptr that points to nothing

ASSUME /\ Cap \in Nat /\ MaxAppends \in Nat
       /\ MsgLens \subseteq 1..(Cap - 1)     \* a record fits an empty buffer
       /\ DropThreshold \in Nat /\ DropThreshold >= 2

VARIABLES
    running,         \* running_
    latchCount,      \* latch_.count_
    ctl,             \* the thread that calls start() and stop()
    backend,         \* where the back end is in threadFunc
    signalled,       \* the back end waits and cond_ has been notified
    currentBuffer,   \* currentBuffer_
    nextBuffer,      \* nextBuffer_
    buffers,         \* buffers_
    newBuffer1,      \* threadFunc's locals
    newBuffer2,
    buffersToWrite,
    output,          \* what LogFile::append has been given, in order
    numAppended,     \* the number of append calls so far
    dropped,         \* history: records in buffers the back end discarded
    stopMark         \* history: numAppended when stop() was called

frontVars == <<currentBuffer, nextBuffer, buffers>>
backVars  == <<newBuffer1, newBuffer2, buffersToWrite, output, dropped>>
ctlVars   == <<running, latchCount, ctl, stopMark>>
vars == <<ctlVars, backend, signalled, frontVars, backVars, numAppended>>

Ids    == 1..MaxAppends
Marker == 0                  \* the "Dropped log messages" line
Buffer == [recs : Seq(Ids), used : 0..Cap]

-----------------------------------------------------------------------------
(* FixedBuffer (LogStream.h) *)

EmptyBuffer == [recs |-> <<>>, used |-> 0]    \* new Buffer; reset()
Avail(b)    == Cap - b.used

\* FixedBuffer::append: a record that does not fit is left out, silently.
\* (Through a null pointer nothing is appended either.)
BufAppend(b, r, len) ==
    IF b # Null /\ Avail(b) > len
        THEN [recs |-> Append(b.recs, r), used |-> b.used + len]
        ELSE b

\* FixedBuffer::reset, on a buffer taken back from buffersToWrite
Reset(b) == EmptyBuffer

-----------------------------------------------------------------------------
(* Front end *)

HasRoomOrJustFits(len) == Avail(currentBuffer) >= len    \* mutation

\* append's test on the current buffer
HasRoom(len) == Avail(currentBuffer) > len

PromotedNoAlloc == nextBuffer    \* mutation: no new Buffer when the spare is gone

\* The buffer that becomes current when the current one is full
Promoted == IF nextBuffer # Null THEN nextBuffer ELSE EmptyBuffer

\* cond_.notify(): wakes the back end if it waits, and is lost otherwise.
Notified == signalled \/ backend = "waiting"

\* append: into the current buffer if the record fits; otherwise the current
\* buffer is queued, the spare (or a new buffer) becomes current, the record
\* goes there and the back end is notified.
FrontendAppend(len) ==
    /\ numAppended < MaxAppends
    /\ numAppended' = numAppended + 1
    /\ \/ /\ HasRoom(len)
          /\ currentBuffer' = BufAppend(currentBuffer, numAppended', len)
          /\ UNCHANGED <<nextBuffer, buffers, signalled>>
       \/ /\ ~HasRoom(len)
          /\ buffers' = Append(buffers, currentBuffer)
          /\ currentBuffer' = BufAppend(Promoted, numAppended', len)
          /\ nextBuffer' = Null
          /\ signalled' = Notified
    /\ UNCHANGED <<ctlVars, backend, backVars>>

-----------------------------------------------------------------------------
(* start and stop, with the latch (CountDownLatch.cc) *)

\* latch_.wait() of start() returns: the count is not above zero
LatchOpen == ~(latchCount > 0)

\* start(), up to the wait: running_ is set and the thread started.
Start ==
    /\ ctl = "init"
    /\ running' = TRUE
    /\ backend' = "entry"
    /\ ctl' = "starting"
    /\ UNCHANGED <<latchCount, stopMark, signalled, frontVars, backVars, numAppended>>

\* start() returns once the back end has counted the latch down.
StartReturns ==
    /\ ctl = "starting" /\ LatchOpen
    /\ ctl' = "started"
    /\ UNCHANGED <<running, latchCount, stopMark, backend, signalled, frontVars,
                   backVars, numAppended>>

\* stop(), up to the join (also what the destructor does when running_).
Stop ==
    /\ ctl = "started"
    /\ running' = FALSE
    /\ signalled' = Notified
    /\ ctl' = "joining"
    /\ stopMark' = numAppended
    /\ UNCHANGED <<latchCount, backend, frontVars, backVars, numAppended>>

\* thread_.join() returns when threadFunc has.
Joined ==
    /\ ctl = "joining" /\ backend = "done"
    /\ ctl' = "stopped"
    /\ UNCHANGED <<running, latchCount, stopMark, backend, signalled, frontVars,
                   backVars, numAppended>>

-----------------------------------------------------------------------------
(* Back end: threadFunc.  A failed assert stops the thread where it is. *)

\* The thread starts: assert(running_), the latch, the two spare buffers.
ThreadEntry ==
    /\ backend = "entry"
    /\ running
    /\ latchCount' = latchCount - 1
    /\ newBuffer1' = EmptyBuffer /\ newBuffer2' = EmptyBuffer
    /\ backend' = "loop"
    /\ UNCHANGED <<running, ctl, stopMark, signalled, frontVars, buffersToWrite,
                   output, dropped, numAppended>>

\* The three asserts at the top of the loop
SparesReady ==
    /\ newBuffer1 = EmptyBuffer /\ newBuffer2 = EmptyBuffer
    /\ buffersToWrite = <<>>

\* while (running_): another round, or the final flush and the end.
LoopTest ==
    /\ backend = "loop"
    /\ SparesReady
    /\ backend' = IF running THEN "lock" ELSE "done"
    /\ UNCHANGED <<ctlVars, signalled, frontVars, backVars, numAppended>>

QueuedWithCurrentFirst == <<currentBuffer>> \o buffers    \* mutation

\* buffers_ after push_back(std::move(currentBuffer_))
QueuedWithCurrent == Append(buffers, currentBuffer)

SpareForNextAlways == TRUE    \* mutation: nextBuffer_ is overwritten

\* The back end gives its second spare only when nextBuffer_ is gone.
SpareForNext == nextBuffer = Null

\* The exchange under the mutex: everything queued and the current buffer go
\* to buffersToWrite; the spares replace what the front ends have used up.
Exchange ==
    /\ buffersToWrite' = QueuedWithCurrent
    /\ buffers' = buffersToWrite
    /\ currentBuffer' = newBuffer1
    /\ newBuffer1' = Null
    /\ IF SpareForNext THEN nextBuffer' = newBuffer2 /\ newBuffer2' = Null
                       ELSE UNCHANGED <<nextBuffer, newBuffer2>>
    /\ signalled' = FALSE
    /\ backend' = "write"
    /\ UNCHANGED <<ctlVars, output, dropped, numAppended>>

\* The back end takes the mutex: with nothing queued it waits, and the mutex
\* is free again; otherwise it exchanges at once.
LockOrWait ==
    /\ backend = "lock"
    /\ \/ /\ buffers = <<>>
          /\ backend' = "waiting"
          /\ UNCHANGED <<ctlVars, signalled, frontVars, backVars, numAppended>>
       \/ /\ buffers # <<>>
          /\ Exchange

TimedOutNever == FALSE    \* mutation: cond_.wait() in place of the timed wait

\* waitForSeconds(flushInterval_) can return at any time without a notify.
TimedOut == TRUE

\* The wait returns, notified or timed out, and the exchange follows whatever
\* buffers_ holds: the wait is not in a loop over a condition.
Wake ==
    /\ backend = "waiting"
    /\ signalled \/ TimedOut
    /\ Exchange

\* The records of a sequence of buffers, in order
Records(bs) == FlattenSeq([i \in 1..Len(bs) |-> bs[i].recs])

\* What resize(2) leaves of buffersToWrite
Resized == SubSeq(buffersToWrite, 1, Min({2, Len(buffersToWrite)}))

\* The asserts before the two pop_back: a buffer is there to be taken back
\* for each spare that was given away.
CanReplenish ==
    /\ newBuffer1 = Null => Len(Resized) >= 1
    /\ newBuffer2 = Null => Len(Resized) >= (IF newBuffer1 = Null THEN 2 ELSE 1)

\* Outside the mutex: with more than DropThreshold buffers all but the first
\* two are discarded and a marker is written; the rest is written; of at most
\* two buffers kept, the last ones are reset and become the missing spares.
WriteAndReplenish ==
    /\ backend = "write"
    /\ CanReplenish
    /\ LET over == Len(buffersToWrite) > DropThreshold
           kept == IF over THEN SubSeq(buffersToWrite, 1, 2) ELSE buffersToWrite
           rest == IF newBuffer1 = Null THEN Front(Resized) ELSE Resized
       IN /\ output' = output \o (IF over THEN <<Marker>> ELSE <<>>) \o Records(kept)
          /\ dropped' = dropped \cup (ToSet(Records(buffersToWrite)) \ ToSet(Records(kept)))
          /\ newBuffer1' = IF newBuffer1 = Null THEN Reset(Last(Resized)) ELSE newBuffer1
          /\ newBuffer2' = IF newBuffer2 = Null THEN Reset(Last(rest)) ELSE newBuffer2
    /\ buffersToWrite' = <<>>
    /\ backend' = "loop"
    /\ UNCHANGED <<ctlVars, signalled, frontVars, numAppended>>

-----------------------------------------------------------------------------
Init ==
    /\ running = FALSE /\ latchCount = 1 /\ ctl = "init" /\ stopMark = 0
    /\ backend = "unstarted" /\ signalled = FALSE
    /\ currentBuffer = EmptyBuffer /\ nextBuffer = EmptyBuffer /\ buffers = <<>>
    /\ newBuffer1 = Null /\ newBuffer2 = Null /\ buffersToWrite = <<>>
    /\ output = <<>> /\ dropped = {} /\ numAppended = 0

BackendStep == ThreadEntry \/ LoopTest \/ LockOrWait \/ Wake \/ WriteAndReplenish

ControlStep == Start \/ StartReturns \/ Stop \/ Joined

Next == (\E len \in MsgLens : FrontendAppend(len)) \/ ControlStep \/ BackendStep

\* The back end thread is scheduled as long as it can run; its wait is timed.
Fairness == WF_vars(BackendStep)

Spec == Init /\ [][Next]_vars /\ Fairness

-----------------------------------------------------------------------------
(* Properties *)

Written == ToSet(output) \ {Marker}

\* The records still in memory, oldest first
Unwritten == Records(buffersToWrite \o buffers \o <<currentBuffer>>)

\* The shapes of the variables.  currentBuffer_ points to a buffer whenever
\* the mutex is free: append dereferences it without a test.
TypeOK ==
    /\ running \in BOOLEAN /\ signalled \in BOOLEAN
    /\ latchCount \in 0..1 /\ stopMark \in 0..MaxAppends
    /\ ctl \in {"init", "starting", "started", "joining", "stopped"}
    /\ backend \in {"unstarted", "entry", "loop", "lock", "waiting", "write", "done"}
    /\ currentBuffer \in Buffer
    /\ nextBuffer \in Buffer \cup {Null}
    /\ buffers \in Seq(Buffer) /\ buffersToWrite \in Seq(Buffer)
    /\ newBuffer1 \in Buffer \cup {Null} /\ newBuffer2 \in Buffer \cup {Null}
    /\ output \in Seq(Ids \cup {Marker})
    /\ numAppended \in 0..MaxAppends /\ dropped \subseteq Ids

\* The asserts of threadFunc hold when control reaches them: running_ at the
\* start of the thread (start() waits for the latch before stop() can run),
\* two empty spares and an empty vector at the top of every round, and a
\* buffer to take back for each spare that was given away.
BackendAssertsHold ==
    /\ backend = "entry" => running
    /\ backend = "loop" => SparesReady
    /\ backend = "write" => CanReplenish

\* No record is lost or doubled on the way: the records written followed by
\* those still in the buffers are in the order of the appends, and together
\* with the ones discarded at a marker they are all the records appended.
\* The buffers that wait as spares hold nothing.
RecordsAccountedFor ==
    LET kept == SelectSeq(output, LAMBDA e : e # Marker) \o Unwritten
    IN  /\ \A i \in 1..(Len(kept) - 1) : kept[i] < kept[i + 1]
        /\ ToSet(kept) \cup dropped = 1..numAppended
        /\ ToSet(kept) \cap dropped = {}
        /\ nextBuffer \in {Null, EmptyBuffer}

\* While logging runs, every record appended is written or discarded at a
\* marker: the back end comes round at least every flush interval.
RecordLeavesMemory ==
    \A r \in Ids :
        (r <= numAppended /\ ctl = "started")
            ~> (r \in Written \cup dropped \/ ctl # "started")

-----------------------------------------------------------------------------
(* The logger is a queue in front of a file *)

\* The queue is what the buffers hold, from the batch the back end is
\* writing to the current buffer; the file is what LogFile has been given.
Sink == INSTANCE LogSink WITH
            accepted <- numAppended,
            pending  <- Unwritten,
            file     <- output

\* AsyncLogging implements the sink: append puts its record behind all
\* others, whichever buffer it goes to; the exchange of buffers under the
\* mutex moves no record; the back end writes the oldest records first and
\* nothing twice; and records leave the memory unwritten only in a round
\* that writes the marker.
ImplementsLogSink == Sink!Spec

-----------------------------------------------------------------------------
(* What the specification says, and the code does not do *)

\* Records are lost only under back-pressure, with a marker: when the back
\* end has ended, every record appended before stop() was called has been
\* written or discarded at a marker.  stop() lets the back end end without a
\* last exchange.
StopLosesNothing ==
    backend = "done" => 1..stopMark \subseteq Written \cup dropped

=============================================================================
