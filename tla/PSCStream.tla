----------------------------- MODULE PSCStream -----------------------------
(***************************************************************************)
(* The receiving half of class PSC (coreApp/src/psc.cpp): how the byte     *)
(* stream of a TCP connection is cut into messages.  libevent reads the    *)
(* socket into the bufferevent's input buffer until its high watermark and *)
(* calls recvdata() once the low watermark is reached; recvdata() removes  *)
(* a header or a body at a time.                                           *)
(*                                                                         *)
(* A byte on the wire is [m, k]: the k-th byte of message m.  The loop of  *)
(* recvdata() is one action per turn; the event loop reads no socket while *)
(* it runs and PSCBase::lock keeps forceReConnect() out, so the device is  *)
(* the only one that acts between two turns.                               *)
(***************************************************************************)
EXTENDS Naturals, Sequences, FiniteSets

CONSTANTS
  Msg,              \* messages: [id, len, magic]
  Blocks,           \* registered receive blocks (recv_blocks)
  None,             \* a null block pointer
  HEADER_SIZE,
  min_max_buf_size,
  MaxEmit,          \* bound: messages the device sends
  MaxConn           \* bound: connections made

ASSUME PSCStreamAssumption ==
  /\ \A m \in Msg : m.id \in Nat /\ m.len \in Nat /\ m.magic \in BOOLEAN
  /\ None \notin Blocks
  /\ HEADER_SIZE \in Nat \ {0}
  /\ min_max_buf_size \in Nat /\ min_max_buf_size > HEADER_SIZE
  /\ MaxEmit \in Nat /\ MaxConn \in Nat

VARIABLES
  session,    \* "none", "connecting", "up": PSC::session and PSC::connected
  net,        \* bytes the device has written and the socket not yet read
  closed,     \* the device has closed its end
  inbuf,      \* the bufferevent's input buffer
  low, high,  \* its read watermarks
  inRecv,     \* recvdata() is running
  have_head, header, bodylen, bodyblock, expect,   \* members of PSC
  data,       \* data[b]: bytes of Block::data
  count,      \* count[b]: Block::count; Block::rxtime is set with it
  scans,      \* scans[b]: calls of Block::requestScan()
  ukncount,   \* PSCBase::ukncount
  emitted, conns

dev == <<net, closed, emitted>>
decoder == <<have_head, header, bodylen, bodyblock, expect>>
stats == <<count, ukncount>>
vars == <<session, dev, inbuf, low, high, inRecv, decoder, data, stats, scans, conns>>

\* The bytes of message m, and the part of them recvdata() stores.
Encode(m) == [k \in 1..(HEADER_SIZE + m.len) |-> [m |-> m, k |-> k]]
Body(m) == SubSeq(Encode(m), HEADER_SIZE + 1, HEADER_SIZE + m.len)

----------------------------------------------------------------------------
Init ==
  /\ session = "none"
  /\ net = <<>> /\ closed = FALSE /\ inbuf = <<>>
  /\ low = 0 /\ high = 0
  /\ inRecv = FALSE
  /\ have_head = FALSE /\ header = 0 /\ bodylen = 0
  /\ bodyblock = None /\ expect = HEADER_SIZE
  /\ data = [b \in Blocks |-> <<>>]
  /\ count = [b \in Blocks |-> 0]
  /\ scans = [b \in Blocks |-> 0]
  /\ ukncount = 0
  /\ emitted = 0 /\ conns = 0

\* The device writes one more message.
Emit(m) ==
  /\ session = "up" /\ ~closed
  /\ emitted < MaxEmit
  /\ net' = net \o Encode(m)
  /\ emitted' = emitted + 1
  /\ UNCHANGED <<session, closed, inbuf, low, high, inRecv, decoder, data, stats, scans, conns>>

\* The device closes; the end of what it wrote may never leave it.
Close ==
  /\ session = "up" /\ ~closed
  /\ closed' = TRUE
  /\ \E n \in 0..Len(net) : net' = SubSeq(net, 1, n)
  /\ UNCHANGED <<session, emitted, inbuf, low, high, inRecv, decoder, data, stats, scans, conns>>

\* libevent reads n bytes of the socket, not past the high watermark.
SocketRead(n) ==
  /\ session = "up" /\ ~inRecv
  /\ Len(inbuf) + n <= high
  /\ inbuf' = inbuf \o SubSeq(net, 1, n)
  /\ net' = SubSeq(net, n + 1, Len(net))
  /\ UNCHANGED <<session, closed, emitted, low, high, inRecv, decoder, data, stats, scans, conns>>

\* Mutant: the decoder is left as the last connection left it.
connect_KeepsDecoder ==
  /\ session = "none"
  /\ conns < MaxConn
  /\ conns' = conns + 1
  /\ low' = expect /\ high' = min_max_buf_size
  /\ session' = "connecting"
  /\ UNCHANGED <<dev, inbuf, inRecv, decoder, data, stats, scans>>

\* PSC::connect(): a fresh bufferevent and a fresh decoder.
connect ==
  /\ session = "none"
  /\ conns < MaxConn
  /\ conns' = conns + 1
  /\ have_head' = FALSE /\ header' = 0 /\ bodylen' = 0
  /\ bodyblock' = None /\ expect' = HEADER_SIZE
  /\ low' = HEADER_SIZE /\ high' = min_max_buf_size
  /\ session' = "connecting"
  /\ UNCHANGED <<dev, inbuf, inRecv, data, stats, scans>>

\* eventcb(BEV_EVENT_CONNECTED): reading is enabled.
eventcb_connected ==
  /\ session = "connecting"
  /\ session' = "up"
  /\ UNCHANGED <<dev, inbuf, low, high, inRecv, decoder, data, stats, scans, conns>>

\* PSC::start_reconnect(): the bufferevent goes, with what it had buffered.
start_reconnect ==
  /\ session' = "none"
  /\ inbuf' = <<>> /\ net' = <<>> /\ closed' = FALSE
  /\ UNCHANGED <<emitted, low, high, data, scans, conns>>

\* eventcb(BEV_EVENT_EOF): libevent reports the end of the stream after the
\* read callback that the last bytes were worth.
eventcb_eof ==
  /\ session = "up" /\ ~inRecv
  /\ closed /\ net = <<>> /\ Len(inbuf) < low
  /\ start_reconnect
  /\ UNCHANGED <<inRecv, decoder, stats>>

\* eventcb() with an error or a timeout, and forceReConnect(): at any moment.
eventcb_error ==
  /\ session # "none" /\ ~inRecv
  /\ start_reconnect
  /\ UNCHANGED <<inRecv, decoder, stats>>

\* The read callback: bev_datacb() calls recvdata().
recvdata ==
  /\ session = "up" /\ ~inRecv
  /\ Len(inbuf) >= low
  /\ inRecv' = TRUE
  /\ UNCHANGED <<session, dev, inbuf, low, high, decoder, data, stats, scans, conns>>

\* A turn of the loop that finds a header (psc.cpp: "decode header") ...
decodeHeader ==
  /\ inRecv /\ Len(inbuf) >= expect /\ ~have_head
  /\ LET h == inbuf[1].m IN
       /\ inbuf[1].k = 1 /\ h.magic
       /\ header' = h.id
       /\ bodylen' = h.len
       /\ count' = [b \in Blocks |-> IF b = h.id THEN count[b] + 1 ELSE count[b]]
       /\ ukncount' = IF h.id \in Blocks THEN ukncount ELSE ukncount + 1
       /\ bodyblock' = IF h.id \in Blocks /\ h.len > 0 THEN h.id ELSE None
       /\ have_head' = (h.len > 0)
       /\ expect' = IF h.len > 0 THEN h.len ELSE HEADER_SIZE
  /\ inbuf' = SubSeq(inbuf, HEADER_SIZE + 1, Len(inbuf))
  /\ UNCHANGED <<session, dev, low, high, inRecv, data, scans, conns>>

\* ... or one without the magic bytes: a framing error, and recvdata() returns.
framingError ==
  /\ inRecv /\ Len(inbuf) >= expect /\ ~have_head
  /\ ~(inbuf[1].k = 1 /\ inbuf[1].m.magic)
  /\ start_reconnect
  /\ inRecv' = FALSE
  /\ UNCHANGED <<decoder, stats>>

\* Mutant: all that is buffered is stored, not the body's length of it.
decodeBody_StoresAll ==
  /\ inRecv /\ Len(inbuf) >= expect /\ have_head
  /\ data' = [b \in Blocks |-> IF b = bodyblock THEN inbuf ELSE data[b]]
  /\ scans' = [b \in Blocks |-> IF b = bodyblock THEN scans[b] + 1 ELSE scans[b]]
  /\ inbuf' = SubSeq(inbuf, bodylen + 1, Len(inbuf))
  /\ have_head' = FALSE /\ bodyblock' = None /\ expect' = HEADER_SIZE
  /\ UNCHANGED <<session, dev, low, high, inRecv, header, bodylen, stats, conns>>

\* A turn that finds a body: it is stored and a scan requested, or drained.
decodeBody ==
  /\ inRecv /\ Len(inbuf) >= expect /\ have_head
  /\ data' = [b \in Blocks |-> IF b = bodyblock THEN SubSeq(inbuf, 1, bodylen) ELSE data[b]]
  /\ scans' = [b \in Blocks |-> IF b = bodyblock THEN scans[b] + 1 ELSE scans[b]]
  /\ inbuf' = SubSeq(inbuf, bodylen + 1, Len(inbuf))
  /\ have_head' = FALSE /\ bodyblock' = None /\ expect' = HEADER_SIZE
  /\ UNCHANGED <<session, dev, low, high, inRecv, header, bodylen, stats, conns>>

\* The end of recvdata(): the watermarks are set for what comes next.
recvdone ==
  /\ inRecv /\ Len(inbuf) < expect
  /\ inRecv' = FALSE
  /\ low' = expect
  /\ high' = IF expect >= min_max_buf_size THEN expect + 1 ELSE min_max_buf_size
  /\ UNCHANGED <<session, dev, inbuf, decoder, data, stats, scans, conns>>

EventLoop ==
  \/ \E n \in 1..Len(net) : SocketRead(n)
  \/ recvdata
  \/ decodeHeader \/ framingError \/ decodeBody \/ recvdone

Next ==
  \/ \E m \in Msg : Emit(m)
  \/ Close
  \/ connect \/ eventcb_connected \/ eventcb_eof \/ eventcb_error
  \/ EventLoop

Spec == Init /\ [][Next]_vars

\* The event loop keeps turning, and TCP delivers while the connection lasts.
FairSpec == Spec /\ WF_vars(EventLoop)

----------------------------------------------------------------------------
\* Types, and the ranges of the decoder's members.
TypeOK ==
  /\ session \in {"none", "connecting", "up"}
  /\ net \in Seq([m : Msg, k : Nat])
  /\ inbuf \in Seq([m : Msg, k : Nat])
  /\ closed \in BOOLEAN /\ inRecv \in BOOLEAN /\ have_head \in BOOLEAN
  /\ low \in Nat /\ high \in Nat
  /\ header \in Nat /\ bodylen \in Nat
  /\ expect \in Nat \ {0}
  /\ bodyblock \in Blocks \cup {None}
  /\ data \in [Blocks -> Seq([m : Msg, k : Nat])]
  /\ count \in [Blocks -> Nat] /\ scans \in [Blocks -> Nat]
  /\ ukncount \in Nat /\ emitted \in Nat /\ conns \in Nat

\* The decoder and the stream agree on where a message starts: recvdata()
\* looks for a header only at the first byte of a message, takes for a body
\* exactly the body announced, and so raises a framing error only when the
\* device really sent something else.
DecoderAligned ==
  session = "up" /\ inbuf \o net # <<>> =>
    LET first == Head(inbuf \o net) IN
    IF have_head
    THEN first.k = HEADER_SIZE + 1 /\ first.m.len = bodylen /\ expect = bodylen
         /\ (bodyblock # None => first.m.id = bodyblock)
    ELSE first.k = 1 /\ expect = HEADER_SIZE

\* The places in a stream of bytes where a message ends, and the messages that
\* end in it, in their order: the n-th is the one of the n-th end.
Ends(s) == {i \in 1..Len(s) : s[i].k = HEADER_SIZE + s[i].m.len}
Rank(E, e) == Cardinality({i \in E : i <= e})
Nth(E, n) == CHOOSE e \in E : Rank(E, e) = n
Messages(s) == [n \in 1..Cardinality(Ends(s)) |-> s[Nth(Ends(s), n)].m]

\* The messages whose last byte is still unread.
Unread == Messages(inbuf \o net)

\* The message a block holds; Msg does not contain None, so a block with a
\* torn or mixed body maps to no message at all.
Held(b) ==
  IF data[b] = <<>> THEN None
  ELSE IF data[b] = Body(data[b][1].m) THEN data[b][1].m ELSE [torn |-> data[b]]

Abs == INSTANCE MsgStream WITH
         Promised <- {m \in Msg : m.len > 0}, up <- (session = "up"), closed <- closed, chan <- Unread,
         data <- [b \in Blocks |-> Held(b)], scans <- scans, Empty <- None

\* The decoder implements MsgStream, with its fairness, for messages that have a
\* body: whatever the pieces the bytes arrive in, it handles the device's messages
\* whole, once and in order, never across two connections, and every one of them
\* while it is connected; each one with a body is stored and has its block scanned.
\* Of a message without a body only the order is promised: it is counted with its
\* header and its block not scanned, where processing.rst says that records are
\* processed "each time a new message with that ID is received".
DeliversEverything == Abs!FairSpec
=============================================================================
