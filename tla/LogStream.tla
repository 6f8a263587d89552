------------------------------ MODULE LogStream ------------------------------
(***************************************************************************)
(* The stream a log line is put together in (muduo/base/LogStream.h): a    *)
(* FixedBuffer of SIZE bytes and the operators that append to it.  What is *)
(* streamed is a text, a sequence of characters; how a number comes to be  *)
(* a text is not part of this module.                                      *)
(***************************************************************************)
EXTENDS Integers, Sequences, SequencesExt

CONSTANTS
    Size,        \* SIZE of the FixedBuffer (kSmallBuffer)
    Chars,       \* the characters
    Zero, One,   \* the characters of a bool
    NullText,    \* the text "(null)"
    Null,        \* a null pointer
    MaxLen,      \* bound of the model: the longest text handed over
    MaxPieces    \* bound of the model: texts streamed between two resets

ASSUME /\ Size \in Nat \ {0} /\ MaxLen \in Nat /\ MaxPieces \in Nat
       /\ {Zero, One} \subseteq Chars /\ NullText \in Seq(Chars)

VARIABLES
    data,        \* data_[0 .. cur_ - data_), the bytes length() counts
    streamed     \* history: the texts streamed since the last reset

vars == <<data, streamed>>

Strings == BoundedSeq(Chars, MaxLen)
Buffers == BoundedSeq(Chars, Size - 1)    \* what another FixedBuffer can hold

-----------------------------------------------------------------------------
(* FixedBuffer *)

Length(d) == Len(d)              \* cur_ - data_
Avail(d)  == Size - Length(d)    \* end() - cur_

\* The test of append: the last byte of data_ is never used.
Fits(d, len) == Avail(d) > len

\* append: the text is copied if it fits, and left out without a word if not
BufAppend(d, buf) == IF Fits(d, Len(buf)) THEN d \o buf ELSE d

-----------------------------------------------------------------------------
(* The texts of LogStream's operators *)

OfBool(v)      == IF v THEN <<One>> ELSE <<Zero>>
OfChar(v)      == <<v>>
OfCString(str) == IF str # Null THEN str ELSE NullText
OfBuffer(v)    == v    \* toStringPiece()

\* buffer_.append(...) of an operator
Stream(text) ==
    /\ Len(streamed) < MaxPieces
    /\ data' = BufAppend(data, text)
    /\ streamed' = Append(streamed, text)

\* resetBuffer()
ResetBuffer ==
    /\ data' = <<>>
    /\ streamed' = <<>>

Init == data = <<>> /\ streamed = <<>>

Next ==
    \/ \E v \in BOOLEAN : Stream(OfBool(v))
    \/ \E v \in Chars : Stream(OfChar(v))
    \/ \E str \in Strings \cup {Null} : Stream(OfCString(str))
    \/ \E v \in Strings : Stream(v)    \* string, StringPiece, Fmt and append()
    \/ \E v \in Buffers : Stream(OfBuffer(v))
    \/ ResetBuffer

Spec == Init /\ [][Next]_vars

-----------------------------------------------------------------------------
(* What the source asks for, and the code does not do *)

\* "FIXME: append partially" (FixedBuffer::append): of a text that does not
\* fit, the part that fits is to be kept, so that a line too long for the
\* buffer is cut at its end and the buffer is the beginning of what was
\* streamed.  append leaves the whole text out and takes a shorter one that
\* comes after it: the line has a hole where nothing shows it.
LineIsCutAtItsEnd == IsPrefix(data, FlattenSeq(streamed))

=============================================================================
