------------------------------ MODULE PSCSend ------------------------------
(***************************************************************************)
(* The sending half of class PSC (coreApp/src/psc.cpp): device support     *)
(* queues messages in sendbuf, a "PSC Ctrl Send All" record flushes sendbuf*)
(* to the bufferevent's output buffer, and libevent writes that to the     *)
(* socket.  sendbuf and the queued flags belong to the PSC and outlive a   *)
(* connection; the output buffer does not.                                 *)
(*                                                                         *)
(* A buffer is a sequence of pieces: a header or a body, with the serial   *)
(* number n of the call that added it.  An operation runs with             *)
(* PSCBase::lock held and is one step; write_so(), which only means to     *)
(* take the lock, is left out.                                             *)
(*                                                                         *)
(* uses tells, from the start, what may happen at this site: "send", its   *)
(* database has "PSC Ctrl Send" longout records; "nomem", memory may run   *)
(* out in flushSend().                                                     *)
(***************************************************************************)
EXTENDS Naturals, Sequences, SequencesExt, FiniteSets

CONSTANTS
  Block,            \* IDs of the send blocks
  BodyLen,          \* BodyLen[b]: size of the message body block b sends
  HEADER_SIZE,
  PSCMaxSendBuffer,
  MaxCalls,         \* bound: messages queued
  MaxConn           \* bound: connections made

ASSUME PSCSendAssumption ==
  /\ BodyLen \in [Block -> Nat]
  /\ HEADER_SIZE \in Nat \ {0}
  /\ PSCMaxSendBuffer \in Nat
  /\ MaxCalls \in Nat /\ MaxConn \in Nat

VARIABLES
  uses,
  connected,  \* PSCBase::connected
  sendbuf,    \* PSC::sendbuf
  queued,     \* queued[b]: Block::queued
  count,      \* count[b]: Block::count
  output,     \* the bufferevent's output buffer
  wire,       \* what the device has received on this connection
  calls,      \* calls of queueSend() that appended something
  conns       \* connections made

vars == <<uses, connected, sendbuf, queued, count, output, wire, calls, conns>>

PieceLen(p) == IF p.kind = "head" THEN HEADER_SIZE ELSE BodyLen[p.blk]
\* The length of a buffer: a byte is its piece's place and its place in that.
Bytes(buf) == Cardinality(UNION {{i} \X (1..PieceLen(buf[i])) : i \in 1..Len(buf)})
Piece(kind, b) == [kind |-> kind, blk |-> b, n |-> calls + 1]

----------------------------------------------------------------------------
Init ==
  /\ uses \in SUBSET {"send", "nomem"}
  /\ connected = FALSE
  /\ sendbuf = <<>>
  /\ queued = [b \in Block |-> FALSE]
  /\ count = [b \in Block |-> 0]
  /\ output = <<>> /\ wire = <<>>
  /\ calls = 0 /\ conns = 0

\* eventcb(BEV_EVENT_CONNECTED).
eventcb_connected ==
  /\ ~connected
  /\ conns < MaxConn
  /\ connected' = TRUE
  /\ conns' = conns + 1
  /\ UNCHANGED <<uses, sendbuf, queued, count, output, wire, calls>>

\* start_reconnect() frees the bufferevent and the output buffer with it.
start_reconnect ==
  /\ connected
  /\ connected' = FALSE
  /\ output' = <<>> /\ wire' = <<>>
  /\ UNCHANGED <<uses, sendbuf, queued, count, calls, conns>>

\* What queueSend() does after queueHeader(): the body, the flag, the counter.
queueBody(b, head) ==
  /\ sendbuf' = sendbuf \o head \o <<Piece("body", b)>>
  /\ queued' = [queued EXCEPT ![b] = TRUE]
  /\ count' = [count EXCEPT ![b] = @ + 1]
  /\ calls' = calls + 1
  /\ UNCHANGED <<uses, connected, output, wire, conns>>

\* Mutant: the size of the buffer is not checked.
refuses_QueuedOnly(b) == queued[b]

\* queueHeader() throws: the block is already queued, or the buffer is full.
refuses(b) == queued[b] \/ (PSCMaxSendBuffer > 0 /\ Bytes(sendbuf) >= PSCMaxSendBuffer)

\* Mutant: the header goes in before the checks that may throw.
queueSend_HeaderFirst(b) ==
  /\ connected
  /\ calls < MaxCalls
  /\ \/ ~refuses(b) /\ queueBody(b, <<Piece("head", b)>>)
     \/ /\ refuses(b)
        /\ sendbuf' = Append(sendbuf, Piece("head", b))
        /\ calls' = calls + 1
        /\ UNCHANGED <<uses, connected, queued, count, output, wire, conns>>

\* queueSend() from waveform and "PSC Single" records, which check
\* isConnected() first.  When queueHeader() throws nothing is changed.
queueSend(b) ==
  /\ connected
  /\ calls < MaxCalls
  /\ ~refuses(b)
  /\ queueBody(b, <<Piece("head", b)>>)

\* PSCBase::send() from write_lo_send_block(), which does not check: without a
\* connection queueHeader() returns at once and queueSend() goes on.
send(b) ==
  /\ "send" \in uses
  /\ calls < MaxCalls
  /\ \/ connected /\ ~refuses(b) /\ queueBody(b, <<Piece("head", b)>>)
     \/ ~connected /\ queueBody(b, <<>>)

\* The output buffer still holds more than it should: flushSend() throws.
outputFull == PSCMaxSendBuffer > 0 /\ Bytes(output) >= PSCMaxSendBuffer

\* Mutant: the flags are not cleared.
flushSend_KeepsQueued ==
  /\ connected /\ ~outputFull
  /\ output' = output \o sendbuf
  /\ sendbuf' = <<>>
  /\ UNCHANGED <<uses, connected, queued, count, wire, calls, conns>>

\* Mutant: what was flushed stays in the send buffer.
flushSend_Copies ==
  /\ connected /\ ~outputFull
  /\ output' = output \o sendbuf
  /\ queued' = [b \in Block |-> FALSE]
  /\ UNCHANGED <<uses, connected, sendbuf, count, wire, calls, conns>>

\* flushSend() from write_bo_send_changed(), which checks isConnected().
flushSend ==
  /\ connected /\ ~outputFull
  /\ output' = output \o sendbuf
  /\ sendbuf' = <<>>
  /\ queued' = [b \in Block |-> FALSE]
  /\ UNCHANGED <<uses, connected, count, wire, calls, conns>>

\* flushSend() when evbuffer_add_buffer() fails: sendbuf is dropped, and the
\* exception leaves the flags as they are.
flushSend_fails ==
  /\ "nomem" \in uses
  /\ connected /\ ~outputFull
  /\ sendbuf' = <<>>
  /\ UNCHANGED <<uses, connected, queued, count, output, wire, calls, conns>>

\* libevent writes the oldest piece to the socket.
SocketWrite ==
  /\ connected
  /\ output # <<>>
  /\ wire' = Append(wire, Head(output))
  /\ output' = Tail(output)
  /\ UNCHANGED <<uses, connected, sendbuf, queued, count, calls, conns>>

Next ==
  \/ eventcb_connected \/ start_reconnect
  \/ \E b \in Block : queueSend(b) \/ send(b)
  \/ flushSend \/ flushSend_fails \/ SocketWrite

Spec == Init /\ [][Next]_vars

----------------------------------------------------------------------------
Pieces == [kind : {"head", "body"}, blk : Block, n : Nat]

\* Types of the variables; a block counts no more messages than were queued.
TypeOK ==
  /\ uses \in SUBSET {"send", "nomem"}
  /\ connected \in BOOLEAN
  /\ sendbuf \in Seq(Pieces) /\ output \in Seq(Pieces) /\ wire \in Seq(Pieces)
  /\ queued \in [Block -> BOOLEAN]
  /\ count \in [Block -> 0..calls]
  /\ calls \in Nat /\ conns \in Nat

\* Everything the device of this connection will have received in the end.
stream == wire \o output \o sendbuf

\* processing.rst: the common buffer "collects a number of complete messages".
\* The device sees each header followed by the body it announces.
AlwaysFramed ==
  \A i \in 1..Len(stream) :
    IF stream[i].kind = "head"
    THEN /\ i < Len(stream)
         /\ stream[i + 1] = [stream[i] EXCEPT !.kind = "body"]
    ELSE i > 1 /\ stream[i - 1] = [stream[i] EXCEPT !.kind = "head"]

\* The same of the senders that ask isConnected() before they queue a message,
\* across reconnections, refused messages and failed flushes.
WellFramed == "send" \notin uses => AlwaysFramed

\* Nothing is sent twice or out of order, whatever the reconnections.
InOrderOnce ==
  \A i, j \in 1..Len(stream) :
    i < j => \/ stream[i].n < stream[j].n
             \/ stream[i].n = stream[j].n /\ stream[i].kind = "head" /\ stream[j].kind = "body"

\* Block::queued tells which blocks have a message in sendbuf: were a flag
\* missing, a block could be queued twice, and were one left set with no message
\* (as a flush that fails does), the block would be refused until the next flush.
Pending(b) == \E i \in 1..Len(sendbuf) : sendbuf[i].blk = b
QueuedIsPending ==
  \A b \in Block : /\ Pending(b) => queued[b]
                   /\ queued[b] /\ "nomem" \notin uses => Pending(b)

\* README: PSCMaxSendBuffer is the "Max send buffer size".  The check is made
\* before a message is added, so the buffer exceeds it by one message at most;
\* "PSC Ctrl Send" records escape the check while there is no connection.
SendBufferBounded ==
  sendbuf # <<>> /\ PSCMaxSendBuffer > 0 /\ "send" \notin uses =>
    Bytes(sendbuf) < PSCMaxSendBuffer + HEADER_SIZE + BodyLen[Last(sendbuf).blk]
=============================================================================
