------------------------- MODULE LengthHeaderCodec -------------------------
(***************************************************************************)
(* The framing codec of examples/asio/chat/codec.h over one direction of a *)
(* connection: `send' puts a length header before each message, the bytes  *)
(* reach the peer in pieces of any size, and `onMessage' cuts the input    *)
(* buffer into messages again.                                             *)
(*                                                                         *)
(* A byte is a digit below Base and the header has HeaderLen of them, most *)
(* significant first; the header is a signed number of that width, as the  *)
(* int32_t of the code is.                                                 *)
(***************************************************************************)
EXTENDS Integers, Sequences, SequencesExt

CONSTANTS
    Base,         \* the number of values of a byte (256)
    HeaderLen,    \* kHeaderLen (4)
    MaxLen,       \* the longest message onMessage accepts (65536)
    Msgs,         \* the messages handed to send
    MaxSent       \* bound of the model: the number of calls of send

ASSUME /\ Base \in Nat \ {0, 1} /\ HeaderLen \in Nat \ {0}
       /\ MaxLen \in 0..(Base^HeaderLen \div 2 - 1)

VARIABLES
    sent,         \* history: the messages handed to send, in order
    wire,         \* the bytes sent and not yet read by the peer
    buf,          \* the readable bytes of the peer's input buffer
    delivered,    \* the messages passed to messageCallback_
    shutdown      \* conn->shutdown() has been called

recvVars == <<buf, delivered, shutdown>>
vars == <<sent, wire, recvVars>>

Byte    == 0..(Base - 1)
Modulus == Base^HeaderLen

-----------------------------------------------------------------------------
(* The conversions *)

\* mutation: the length is stored as the host has it, least significant first
HostToNetwork32NoSwap(len) ==
    [i \in 1..HeaderLen |-> ((len % Modulus) \div Base^(i - 1)) % Base]

\* static_cast<int32_t>, which wraps, and hostToNetwork32: big-endian digits
HostToNetwork32(len) ==
    [i \in 1..HeaderLen |-> ((len % Modulus) \div Base^(HeaderLen - i)) % Base]

NetworkToHost32NoSwap(bytes) ==    \* mutation: read least significant first
    LET v == FoldRight(LAMBDA d, acc : acc * Base + d, bytes, 0)
    IN  IF v < Modulus \div 2 THEN v ELSE v - Modulus

\* networkToHost32 into an int32_t: the upper half of the values is negative
NetworkToHost32(bytes) ==
    LET v == FoldLeft(LAMBDA acc, d : acc * Base + d, 0, bytes)
    IN  IF v < Modulus \div 2 THEN v ELSE v - Modulus

\* What send hands to the connection: the header prepended to the message.
Frame(m) == HostToNetwork32(Len(m)) \o m

-----------------------------------------------------------------------------
(* onMessage's loop over the input buffer, a state s of the receiver *)

HasHeader(b) == Len(b) >= HeaderLen
Length(b)    == NetworkToHost32(SubSeq(b, 1, HeaderLen))

IllegalAboveLimit(len) == len > MaxLen + 1 \/ len < 0    \* mutation

Illegal(len) == len > MaxLen \/ len < 0

CompleteAndMore(b) == Len(b) > Length(b) + HeaderLen     \* mutation
Complete(b)        == Len(b) >= Length(b) + HeaderLen

\* Buffer::retrieve(n): the first n readable bytes are gone.
Retrieve(s, n) == [s EXCEPT !.buf = SubSeq(@, n + 1, Len(@))]

\* mutation: the header is taken out of the buffer before its test
RejectedHeaderConsumed(s) == [Retrieve(s, HeaderLen) EXCEPT !.shutdown = TRUE]

\* The length is illegal: shutdown and out of the loop, the buffer as it was.
Rejected(s) == [s EXCEPT !.shutdown = TRUE]

\* A whole message is there: header out, callback, payload out.
Decoded(s) ==
    LET body == Retrieve(s, HeaderLen)
        len  == Length(s.buf)
    IN  Retrieve([body EXCEPT !.delivered = Append(@, SubSeq(body.buf, 1, len))], len)

RECURSIVE OnMessage(_)
OnMessage(s) ==
    CASE ~HasHeader(s.buf)       -> s
      [] HasHeader(s.buf) /\ Illegal(Length(s.buf))  -> Rejected(s)
      [] HasHeader(s.buf) /\ ~Illegal(Length(s.buf)) /\ Complete(s.buf)
                                 -> OnMessage(Decoded(s))
      [] OTHER                   -> s

-----------------------------------------------------------------------------
\* send(conn, message): the frame goes to the connection.
Send(m) ==
    /\ Len(sent) < MaxSent
    /\ sent' = Append(sent, m)
    /\ wire' = wire \o Frame(m)
    /\ UNCHANGED recvVars

\* The peer's connection reads n bytes into its input buffer and calls
\* onMessage, which runs its loop to the end.
Receive(n) ==
    LET s == OnMessage([buf |-> buf \o SubSeq(wire, 1, n),
                        delivered |-> delivered, shutdown |-> shutdown])
    IN  /\ wire' = SubSeq(wire, n + 1, Len(wire))
        /\ buf' = s.buf
        /\ delivered' = s.delivered /\ shutdown' = s.shutdown
        /\ UNCHANGED sent

Init ==
    /\ sent = <<>> /\ wire = <<>> /\ buf = <<>> /\ delivered = <<>>
    /\ shutdown = FALSE

Next ==
    \/ \E m \in Msgs : Send(m)
    \/ \E n \in 1..Len(wire) : Receive(n)

Spec == Init /\ [][Next]_vars

-----------------------------------------------------------------------------
(* Properties *)

\* The bytes the peer has read so far.
Received == SubSeq(FlattenSeq([i \in DOMAIN sent |-> Frame(sent[i])]),
                   1, Len(FlattenSeq([i \in DOMAIN sent |-> Frame(sent[i])])) - Len(wire))

\* No message longer than the limit is ever passed to the callback.
TypeOK ==
    /\ sent \in Seq(Msgs)
    /\ wire \in Seq(Byte) /\ buf \in Seq(Byte)
    /\ delivered \in Seq(Seq(Byte)) /\ \A i \in DOMAIN delivered : Len(delivered[i]) <= MaxLen
    /\ shutdown \in BOOLEAN

\* onMessage cuts the stream where send joined it, whatever the pieces the
\* stream arrives in: the bytes read are the frames of the messages
\* delivered followed by the buffer, the buffer does not begin with the
\* frame of a legal message, and shutdown was called exactly if it begins
\* with a header no legal message has.
DeliveredIsFraming ==
    /\ Received = FlattenSeq([i \in DOMAIN delivered |-> Frame(delivered[i])]) \o buf
    /\ \A m \in Msgs : Len(m) <= MaxLen => ~IsPrefix(Frame(m), buf)
    /\ shutdown <=> /\ Len(buf) >= HeaderLen
                    /\ \A n \in 0..MaxLen : ~IsPrefix(HostToNetwork32(n), buf)

\* decode(encode(m)) = m: the messages come out in the order they went in,
\* and all of them once everything has arrived, if none was over the limit.
RoundTrip ==
    /\ IsPrefix(delivered, sent)
    /\ (wire = <<>> /\ \A i \in DOMAIN sent : Len(sent[i]) <= MaxLen) => delivered = sent

\* After an illegal length nothing more is delivered, although the
\* connection keeps reading: onMessage leaves the bad header at the front
\* of the buffer and stops at it every time it is called.
ShutdownIsFinal == [][shutdown => delivered' = delivered]_vars

\* The length limit bounds what a peer can make the server hold: until
\* onMessage has met an illegal length, the input buffer has less than one
\* frame of the longest message in it between two reads.  (After shutdown()
\* the bad header stays and the buffer keeps whatever is read.)
InputBoundedWhileOpen == ~shutdown => Len(buf) < HeaderLen + MaxLen

=============================================================================
