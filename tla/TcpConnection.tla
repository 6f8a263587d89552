---------------------------- MODULE TcpConnection ----------------------------
(***************************************************************************)
(* The connections of muduo/net/TcpConnection.h.  The header gives the     *)
(* members, the states and the inline accessors; the operations declared   *)
(* there (connectEstablished, send, shutdown, the handlers of the channel, *)
(* connectDestroyed) are modelled from section 4.8 of the specification.   *)
(*                                                                         *)
(* Every operation runs on the thread of the connection's loop, so each is *)
(* one step.  An operation is given twice: as an operator on the record of *)
(* one connection, and as the action that applies it; a server composes    *)
(* the actions with what its callbacks do.  The output buffer is the       *)
(* number of messages in it, and what the peer does (it sends, it closes,  *)
(* it takes bytes) is the choice of which handler runs.                    *)
(*                                                                         *)
(* Not here: startRead, stopRead, forceClose and the high-water mark,      *)
(* which no server of this repository uses.                                *)
(***************************************************************************)
EXTENDS Integers

CONSTANTS
    Conns,      \* the connections
    MaxOutput   \* bound: messages the output buffer holds at most

VARIABLE conn   \* the TcpConnection objects

StateE == {"kDisconnected", "kConnecting", "kConnected", "kDisconnecting"}

\* The members.  channel_ is its two interests and whether the loop has it,
\* socket_ whether its writing half is shut, context_ whether it is set.
Connection ==
    [state_ : StateE, reading_ : BOOLEAN, writing : BOOLEAN, registered : BOOLEAN,
     shutWr : BOOLEAN, outputBuffer_ : 0..MaxOutput, context_ : BOOLEAN]

\* The transitions of the table in section 4.8.
Table ==
    {<<"kConnecting", "kConnected">>, <<"kConnected", "kDisconnecting">>,
     <<"kConnected", "kDisconnected">>, <<"kDisconnecting", "kDisconnected">>}

connected(r)    == r.state_ = "kConnected"
disconnected(r) == r.state_ = "kDisconnected"
isReading(r)    == r.reading_
getContext(r)   == r.context_

setContextLater(r, x) == r                                   \* mutation
setContext(r, x) == [r EXCEPT !.context_ = x]

setState(r, s) == [r EXCEPT !.state_ = s]

-----------------------------------------------------------------------------
(* The operations, on the record of one connection *)

\* The constructor: the state is kConnecting and the channel is not yet in
\* the loop.
New ==
    [state_ |-> "kConnecting", reading_ |-> FALSE, writing |-> FALSE,
     registered |-> FALSE, shutWr |-> FALSE, outputBuffer_ |-> 0, context_ |-> FALSE]

\* connectEstablished: the channel enables reading.
Established(r) ==
    [setState(r, "kConnected") EXCEPT !.reading_ = TRUE, !.registered = TRUE]

\* sendInLoop: with nothing queued the message is written directly, and
\* `whole` says the socket took all of it; what is left goes behind the
\* output buffer, and the channel watches for room.
SendInLoop(r, whole) ==
    IF ~r.writing /\ r.outputBuffer_ = 0 /\ whole
        THEN r
        ELSE [r EXCEPT !.outputBuffer_ = @ + 1, !.writing = TRUE]

ShutdownAtOnce(r) ==                                         \* mutation
    IF connected(r) THEN [setState(r, "kDisconnecting") EXCEPT !.shutWr = TRUE] ELSE r

ShutdownInAnyState(r) ==                                     \* mutation
    [setState(r, "kDisconnecting") EXCEPT !.shutWr = ~r.writing]

\* send: the specification gives it no effect on a connection that is not
\* up.
Send(r, whole) == IF connected(r) THEN SendInLoop(r, whole) ELSE r

\* shutdown: a connection that is up is marked kDisconnecting, and the
\* writing half is shut at once unless output is still being written.
ShutdownInLoop(r) ==
    IF connected(r)
        THEN [setState(r, "kDisconnecting") EXCEPT !.shutWr = ~r.writing]
        ELSE r

\* handleWrite takes `k` messages from the output buffer.  When it is empty
\* the channel stops watching, and a pending shutdown is carried out.
Drained(r, k) ==
    LET left == r.outputBuffer_ - k
    IN  [r EXCEPT !.outputBuffer_ = left,
                  !.writing = left > 0,
                  !.shutWr = @ \/ (left = 0 /\ r.state_ = "kDisconnecting")]

\* handleClose: kDisconnected, and the channel watches nothing.
Closed(r) ==
    [setState(r, "kDisconnected") EXCEPT !.reading_ = FALSE, !.writing = FALSE]

-----------------------------------------------------------------------------
(* The actions *)

\* The callbacks of the user are functions on Connection: what the callback
\* does to the connection it is given.
ConnectEstablished(c, connectionCallback) ==
    /\ conn[c].state_ = "kConnecting"
    /\ conn' = [conn EXCEPT ![c] = connectionCallback[Established(@)]]

\* handleRead with bytes: the message callback.
HandleRead(c, messageCallback) ==
    /\ isReading(conn[c])
    /\ conn' = [conn EXCEPT ![c] = messageCallback[@]]

\* handleRead with no bytes or an error: handleClose, which tells the user
\* and then the server.
HandleClose(c, connectionCallback) ==
    /\ isReading(conn[c])
    /\ conn' = [conn EXCEPT ![c] = connectionCallback[Closed(@)]]

HandleWrite(c) ==
    /\ conn[c].writing
    /\ \E k \in 1..conn[c].outputBuffer_ :
          conn' = [conn EXCEPT ![c] = Drained(@, k)]

\* shutdown of every connection of `cs`, from one callback.
Shutdown(cs) ==
    conn' = [c \in Conns |-> IF c \in cs THEN ShutdownInLoop(conn[c]) ELSE conn[c]]

\* connectDestroyed, which the server schedules from the close callback:
\* the channel leaves the loop.
ConnectDestroyed(c) ==
    /\ disconnected(conn[c])
    /\ conn[c].registered
    /\ conn' = [conn EXCEPT ![c].registered = FALSE]

\* The connections the server has accepted.
Accepted == conn = [c \in Conns |-> New]

=============================================================================
