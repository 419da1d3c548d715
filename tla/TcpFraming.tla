----------------------------- MODULE TcpFraming -----------------------------
(***************************************************************************)
(* The receive side of the order-entry TCP connection: the reader thread  *)
(* of TcpClient (tcp_client.cpp) looping readFromSocket and processBuffer *)
(* over TcpSocket::read (tcp_socket.hpp), with the fixed m_buffer and its  *)
(* leftover compaction.  The exchange writes whole SoupBinTCP frames; the *)
(* kernel hands them to read() in chunks of any size.                     *)
(*                                                                         *)
(* A byte of the stream is [f |-> frame, i |-> position in the frame];    *)
(* positions 1 and 2 are the big-endian packet-length field.  handleMessage*)
(* is recorded by the frame its first byte belongs to (0 if the first     *)
(* byte is not a length field), which is what the dispatcher acts on.     *)
(***************************************************************************)
EXTENDS Naturals, Sequences, SequencesExt

CONSTANTS
  BufSize,    \* BUFFER_SIZE of m_buffer (4096 in the code)
  Lengths,    \* packet-length fields the exchange may declare
  MaxFrames   \* how many frames the exchange writes at most

ASSUME BufSize \in Nat \ {0} /\ Lengths \subseteq Nat

VARIABLES
  sent,       \* declared length of every frame the exchange has written
  closed,     \* the exchange has closed its end
  readPos,    \* bytes of the stream read() has returned so far
  buf,        \* m_buffer[0 .. m_dataSize - 1]
  handled,    \* frames passed to handleMessage, in order
  reader      \* the reader thread: about to "read", to "process", or "ended"

vars == <<sent, closed, readPos, buf, handled, reader>>

Byte == [f : 1..MaxFrames, i : Nat \ {0}]

\* The bytes the exchange has written: each frame is its 2-byte length
\* field followed by as many bytes as the field declares.
Stream ==
  FlattenSeq([k \in 1..Len(sent) |-> [j \in 1..(2 + sent[k]) |-> [f |-> k, i |-> j]]])

Avail == Len(Stream) - readPos

Space == BufSize - Len(buf)

\* be16toh of the two bytes at the front: the declared length when they
\* are a length field.  Payload bytes are opaque; they are read as 0.
LengthField(b) == IF b[1].i = 1 THEN sent[b[1].f] ELSE 0

FrameId(b) == IF b[1].i = 1 THEN b[1].f ELSE 0

\* Mutant: the completeness test forgets the 2-byte length field.
RECURSIVE ProcessLoopNoHeader(_, _)
ProcessLoopNoHeader(b, ids) ==
  IF Len(b) >= 2 /\ Len(b) >= LengthField(b)
  THEN ProcessLoopNoHeader(SubSeq(b, 3 + LengthField(b), Len(b)), Append(ids, FrameId(b)))
  ELSE <<b, ids>>

\* The while loop of processBuffer: hand every complete frame at the
\* front to handleMessage and keep the rest, moved to the front.
RECURSIVE ProcessLoop(_, _)
ProcessLoop(b, ids) ==
  IF Len(b) >= 2 /\ Len(b) >= 2 + LengthField(b)
  THEN ProcessLoop(SubSeq(b, 3 + LengthField(b), Len(b)), Append(ids, FrameId(b)))
  ELSE <<b, ids>>

ProcessBuffer(b) == ProcessLoop(b, <<>>)

Init ==
  /\ sent = <<>>
  /\ closed = FALSE
  /\ readPos = 0
  /\ buf = <<>>
  /\ handled = <<>>
  /\ reader = "read"

-----------------------------------------------------------------------------
(* The exchange side: whole frames written in order, then a close.        *)

ExchangeWrite(len) ==
  /\ ~closed
  /\ Len(sent) < MaxFrames
  /\ sent' = Append(sent, len)
  /\ UNCHANGED <<closed, readPos, buf, handled, reader>>

ExchangeClose ==
  /\ ~closed
  /\ closed' = TRUE
  /\ UNCHANGED <<sent, readPos, buf, handled, reader>>

-----------------------------------------------------------------------------
(* One iteration of startRead: readFromSocket, then processBuffer.       *)
(* read() asks for the free space of the buffer; it blocks while nothing  *)
(* is available, returns 0 at the end of the stream and, asked for 0      *)
(* bytes, returns 0 at once.                                              *)

ReadFromSocket(n) ==
  /\ reader = "read"
  /\ n <= Avail
  /\ buf' = buf \o SubSeq(Stream, readPos + 1, readPos + n)
  /\ readPos' = readPos + n
  /\ reader' = "process"
  /\ UNCHANGED <<sent, closed, handled>>

\* Mutant: any read that finds nothing at hand ends the thread.
ReadReturnsZeroWhenIdle ==
  /\ reader = "read"
  /\ Space = 0 \/ Avail = 0
  /\ reader' = "ended"
  /\ UNCHANGED <<sent, closed, readPos, buf, handled>>

ReadReturnsZero ==
  /\ reader = "read"
  /\ Space = 0 \/ (Avail = 0 /\ closed)
  /\ reader' = "ended"
  /\ UNCHANGED <<sent, closed, readPos, buf, handled>>

ProcessBufferStep ==
  /\ reader = "process"
  /\ LET r == ProcessBuffer(buf)
     IN /\ buf' = r[1]
        /\ handled' = handled \o r[2]
  /\ reader' = "read"
  /\ UNCHANGED <<sent, closed, readPos>>

\* Mutant: read() asked for the whole buffer, not what follows m_dataSize.
ReaderStepWholeBuffer ==
  (\E n \in 1..BufSize : ReadFromSocket(n)) \/ ReadReturnsZero \/ ProcessBufferStep

ReaderStep == (\E n \in 1..Space : ReadFromSocket(n)) \/ ReadReturnsZero \/ ProcessBufferStep

Next ==
  \/ \E len \in Lengths : ExchangeWrite(len)
  \/ ExchangeClose
  \/ ReaderStep

\* The reader thread is never starved: it only waits inside read().
Spec == Init /\ [][Next]_vars /\ WF_vars(ReaderStep)

-----------------------------------------------------------------------------
FramingTypeOK ==
  /\ sent \in Seq(Lengths) /\ Len(sent) <= MaxFrames
  /\ closed \in BOOLEAN
  /\ readPos \in 0..Len(Stream)
  /\ buf \in Seq(Byte) /\ Len(buf) <= BufSize
  /\ handled \in Seq(0..MaxFrames)
  /\ reader \in {"read", "process", "ended"}

Abstract == INSTANCE FrameChannel WITH got <- handled

\* processBuffer hands the dispatcher exactly the frames the exchange
\* wrote, whole, in order and each once, however read() splits the
\* stream: the pump implements FrameChannel's safety.
FrameChannelRefined == Abstract!SafeSpec

\* Every frame the exchange writes eventually reaches handleMessage: the
\* reader thread does not stop while a frame is still to come.
EveryFrameHandled ==
  \A k \in 1..MaxFrames : (Len(sent) >= k) ~> (Len(handled) >= k)

=============================================================================
