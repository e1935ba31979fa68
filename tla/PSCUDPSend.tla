----------------------------- MODULE PSCUDPSend -----------------------------
(***************************************************************************)
(* The sending half of class PSCUDP (coreApp/src/pscudp.cpp).  Records     *)
(* append packets to sendbuf; "PSC Ctrl Send All" moves them to txbuf and  *)
(* adds the event evt_tx; when the socket is writable the event loop calls *)
(* senddata(), which hands the packets to sendto() and keeps their buffers *)
(* in a free list, readybuf, for the packets to come.                      *)
(*                                                                         *)
(* A packet is its block and the serial number n of the call that queued   *)
(* it.  Everything runs with PSCBase::lock held.  The loop of senddata()   *)
(* is one action per call of sendto(); no other action is possible while   *)
(* sending.                                                                *)
(*                                                                         *)
(* uses tells, from the start, what may happen at this site: "send", its   *)
(* database has "PSC Ctrl Send" longout records; "nomem", event_add() may  *)
(* fail.                                                                   *)
(***************************************************************************)
EXTENDS PSCUDP

CONSTANTS
  Block,     \* IDs of the send blocks
  Limit,     \* 64u, the limit of each of the three lists
  MaxCalls   \* bound: packets queued

ASSUME PSCUDPSendAssumption ==
  /\ Limit \in Nat \ {0}
  /\ MaxCalls \in Nat /\ MaxErr \in Nat

VARIABLES
  uses,
  sendbuf,    \* packets pending flush
  txbuf,      \* packets ready to sendto()
  readybuf,   \* number of buffers in the free list
  queued,     \* queued[b]: Block::queued
  count,      \* count[b]: Block::count
  armed,      \* evt_tx is pending
  sending,    \* senddata() is running
  sent,       \* packets sendto() has taken, oldest first
  calls       \* packets queued so far

lists == <<sendbuf, txbuf, readybuf>>
sendvars == <<uses, connected, lists, queued, count, armed, sending, conncount, sent, calls>>

----------------------------------------------------------------------------
SendInit ==
  /\ uses \in SUBSET {"send", "nomem"}
  /\ connected = FALSE
  /\ sendbuf = <<>> /\ txbuf = <<>> /\ readybuf = 0
  /\ queued = [b \in Block |-> FALSE]
  /\ count = [b \in Block |-> 0]
  /\ armed = FALSE /\ sending = FALSE
  /\ conncount = 0
  /\ sent = <<>> /\ calls = 0

connectTx ==
  /\ connect
  /\ UNCHANGED <<uses, lists, queued, count, armed, sending, sent, calls>>

\* The fate of evt_tx after event_add(): pending, or as before if that fails.
AfterAdd(was) == {TRUE} \cup (IF "nomem" \in uses THEN {was} ELSE {})

\* queueHeader() does not throw.
hasRoom == Len(sendbuf) < Limit

\* queueSend() with queueHeader(): a buffer of the free list, or a new one.  When
\* the limit is reached queueHeader() throws and nothing changes.  Records check
\* isConnected() first, except for PSCBase::send() from write_lo_send_block().
queueSend(b) ==
  /\ ~sending
  /\ connected \/ "send" \in uses
  /\ calls < MaxCalls
  /\ hasRoom
  /\ sendbuf' = Append(sendbuf, [blk |-> b, n |-> calls + 1])
  /\ readybuf' = IF readybuf = 0 THEN 0 ELSE readybuf - 1
  /\ queued' = [queued EXCEPT ![b] = TRUE]
  /\ count' = [count EXCEPT ![b] = @ + 1]
  /\ calls' = calls + 1
  /\ UNCHANGED <<uses, connected, txbuf, armed, sending, conncount, sent>>

\* Mutant: the packets are spliced in before those that wait.
flushSend_InFront ==
  /\ ~sending /\ connected
  /\ Len(txbuf) < Limit
  /\ txbuf' = sendbuf \o txbuf
  /\ sendbuf' = <<>>
  /\ queued' = [b \in Block |-> FALSE]
  /\ armed' \in AfterAdd(armed)
  /\ UNCHANGED <<uses, connected, readybuf, count, sending, conncount, sent, calls>>

\* flushSend() from write_bo_send_changed().  With txbuf at the limit it throws
\* and nothing changes; when event_add() fails it throws after the rest.
flushSend ==
  /\ ~sending /\ connected
  /\ Len(txbuf) < Limit
  /\ txbuf' = txbuf \o sendbuf
  /\ sendbuf' = <<>>
  /\ queued' = [b \in Block |-> FALSE]
  /\ armed' \in AfterAdd(armed)
  /\ UNCHANGED <<uses, connected, readybuf, count, sending, conncount, sent, calls>>

\* senddata(EV_WRITE) begins; evt_tx is not persistent.
senddata ==
  /\ armed /\ ~sending
  /\ armed' = FALSE
  /\ sending' = TRUE
  /\ UNCHANGED <<uses, connected, lists, queued, count, conncount, sent, calls>>

\* Mutant: the event is not added again.
tryAgain_Forgets == armed' = FALSE

\* The end of senddata(): the event is added again for what is left.
tryAgain == armed' \in IF txbuf = <<>> THEN {FALSE} ELSE AfterAdd(FALSE)

\* senddata(EV_TIMEOUT): nothing is sent.
senddata_timeout ==
  /\ armed /\ ~sending
  /\ tryAgain
  /\ UNCHANGED <<uses, connected, lists, queued, count, sending, conncount, sent, calls>>

\* Mutant: with a full free list neither list loses a buffer.
recycle_KeepsBoth ==
  IF readybuf < Limit
  THEN txbuf' = Tail(txbuf) /\ readybuf' = readybuf + 1
  ELSE UNCHANGED <<txbuf, readybuf>>

\* What senddata() does with the buffer of a packet that was sent: it goes to
\* the free list; when that is full it is the free list that loses a buffer.
recycle ==
  IF readybuf < Limit
  THEN txbuf' = Tail(txbuf) /\ readybuf' = readybuf + 1
  ELSE UNCHANGED txbuf /\ readybuf' = readybuf - 1

\* sendto() takes the packet, or part of it, which is counted as an error.
sendto ==
  /\ sending /\ txbuf # <<>>
  /\ sent' = Append(sent, Head(txbuf))
  /\ recycle
  /\ conncount' \in {conncount} \cup (IF conncount < MaxErr THEN {conncount + 1} ELSE {})
  /\ UNCHANGED <<uses, connected, sendbuf, queued, count, armed, sending, calls>>

\* sendto() does not: EAGAIN, or an error, which is counted.
sendto_fails ==
  /\ sending /\ txbuf # <<>>
  /\ sending' = FALSE
  /\ tryAgain
  /\ conncount' \in {conncount} \cup (IF conncount < MaxErr THEN {conncount + 1} ELSE {})
  /\ UNCHANGED <<uses, connected, lists, queued, count, sent, calls>>

\* The loop of senddata() has sent everything.
senddata_done ==
  /\ sending /\ txbuf = <<>>
  /\ sending' = FALSE
  /\ tryAgain
  /\ UNCHANGED <<uses, connected, lists, queued, count, conncount, sent, calls>>

EventLoop == senddata \/ sendto \/ sendto_fails \/ senddata_done

SendNext ==
  \/ connectTx
  \/ \E b \in Block : queueSend(b)
  \/ flushSend
  \/ EventLoop \/ senddata_timeout

SendSpec == SendInit /\ [][SendNext]_sendvars

\* The event loop keeps turning, and a socket that is tried again and again
\* takes a packet some time.
FairSendSpec == SendSpec /\ WF_sendvars(EventLoop) /\ WF_sendvars(senddata) /\ SF_sendvars(sendto)

----------------------------------------------------------------------------
Packet == [blk : Block, n : Nat]

\* Types.
SendTypeOK ==
  /\ uses \in SUBSET {"send", "nomem"}
  /\ connected \in BOOLEAN /\ armed \in BOOLEAN /\ sending \in BOOLEAN
  /\ sendbuf \in Seq(Packet) /\ txbuf \in Seq(Packet) /\ sent \in Seq(Packet)
  /\ readybuf \in Nat
  /\ queued \in [Block -> BOOLEAN] /\ count \in [Block -> Nat]
  /\ conncount \in Nat /\ calls \in Nat

\* Packets are sent in the order they were queued and none is left out, however
\* queueing, flushing, errors and retries interleave: what was sent, what waits
\* for the socket and what waits for a flush are all the packets in order, the
\* packet at the head of txbuf being the only one that may come twice.
InOrderNoGap ==
  LET all == sent \o txbuf \o sendbuf IN
  /\ all # <<>> => all[1].n = 1 /\ all[Len(all)].n = calls
  /\ \A i \in 1..(Len(all) - 1) : all[i + 1].n \in {all[i].n, all[i].n + 1}

\* The full free list makes senddata() repeat a packet once at most: the list
\* has room again when the packet's turn comes back.
AtMostTwice ==
  \A i \in 1..Len(sent) : i > 2 => sent[i].n # sent[i - 2].n

\* Every flushed packet is sent, through timeouts and failing sendto().
AllSent ==
  \A c \in 1..MaxCalls :
    ("nomem" \notin uses /\ \E i \in 1..Len(txbuf) : txbuf[i].n = c)
      ~> (\E i \in 1..Len(sent) : sent[i].n = c)
=============================================================================
