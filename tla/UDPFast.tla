------------------------------ MODULE UDPFast ------------------------------
(***************************************************************************)
(* The buffer pool and the two workers of class UDPFast                    *)
(* (udpApp/src/udpdrv.cpp) with the device support that touches the pool   *)
(* (udpApp/src/devudp.cpp).                                                *)
(*                                                                         *)
(* A fixed set of packet buffers circulates: vpool (free), msgs (given to  *)
(* recvmmsg()), pending (received), inprog (being stored), shortBuf (kept  *)
(* for inspection) and back.  rxfn() and cachefn() wake each other through *)
(* two epicsEvents, which remember one signal: pendingReady and vpoolStall.*)
(* A stretch of code that keeps rxLock is one step; rxfn() drops rxLock    *)
(* around recvmmsg() and around its wait only, so that storing a batch and *)
(* testing whether the pool is empty happen in the same step.              *)
(***************************************************************************)
EXTENDS Integers, FiniteSets, FiniteSetsExt

CONSTANTS
  Buf,         \* the packet buffers (vpoolTotal of them)
  Sites        \* how the driver may be set up, see site

ASSUME UDPFastAssumption ==
  Sites \subseteq [batchSize : Nat \ {0}, Nelm : Nat, clears : BOOLEAN]

VARIABLES
  running,
  vpool, msgs, pending, inprog, shortBuf,  \* where the buffers are
  temp,          \* buffers devudp_clear_shortbuf() has taken
  shortLimit,
  pendingReady, vpoolStall,                \* epicsEvents
  notifycache, unstall,                    \* flags of rxfn() and cachefn()
  rx,            \* rxfn(): "start", "unlocked", "recv", "stalled", "woken", "done"
  cache,         \* cachefn(): "return", "signal", "check", "wait", "woken",
                 \* "store", "done"
  stopping,      \* stop(): "no", "signal1", "signal2", "join"
  site           \* fixed from the start: how many packets are asked of recvmmsg()
                 \* at a time, NELM of the short buffer record (0: there is none),
                 \* and whether the database has a record that clears it

bufs == <<vpool, msgs, pending, inprog, shortBuf, temp>>
events == <<pendingReady, vpoolStall>>
vars == <<site, running, bufs, shortLimit, events, notifycache, unstall, rx, cache, stopping>>

----------------------------------------------------------------------------
Init ==
  /\ site \in Sites
  /\ running = TRUE
  /\ vpool = Buf
  /\ msgs = {} /\ pending = {} /\ inprog = {} /\ shortBuf = {} /\ temp = {}
  /\ shortLimit = 0
  /\ pendingReady = FALSE /\ vpoolStall = FALSE
  /\ notifycache = FALSE /\ unstall = FALSE
  /\ rx = "start" /\ cache = "return"
  /\ stopping = "no"

\* The top of rxfn()'s loop, with the buffers left over in msgs: end, stall, or
\* give recvmmsg() as many buffers as there are.
rxTop(leftover) ==
  \/ ~running /\ rx' = "done" /\ msgs' = leftover /\ UNCHANGED vpool
  \/ running /\ vpool = {} /\ rx' = "stalled" /\ msgs' = leftover /\ UNCHANGED vpool
  \/ /\ running /\ vpool # {}
     /\ \E assigned \in SUBSET vpool :
          /\ Cardinality(assigned) =
               Min({site.batchSize - Cardinality(leftover), Cardinality(vpool)})
          /\ msgs' = leftover \cup assigned
          /\ vpool' = vpool \ assigned
     /\ rx' = "unlocked"

\* rxfn() enters its loop, or comes back to it from a stall.
rxEnter ==
  /\ rx \in {"start", "woken"}
  /\ rxTop(msgs)
  /\ UNCHANGED <<site, running, pending, inprog, shortBuf, temp, shortLimit, events,
                 notifycache, unstall, cache, stopping>>

\* With rxLock released, the signal that was put off.
rxNotify ==
  /\ rx = "unlocked"
  /\ rx' = "recv"
  /\ pendingReady' = (pendingReady \/ notifycache)
  /\ notifycache' = FALSE
  /\ UNCHANGED <<site, running, bufs, shortLimit, vpoolStall, unstall, cache, stopping>>

\* Mutant: the buffer of an accepted packet is not swapped out of msgs.
rxBatch_KeepsBuffer ==
  /\ rx = "recv"
  /\ \E good \in SUBSET msgs :
       /\ pending' = pending \cup good
       /\ notifycache' = (notifycache \/ (pending = {} /\ good # {}))
       /\ rxTop(msgs)
  /\ UNCHANGED <<site, running, inprog, shortBuf, temp, shortLimit, events,
                 unstall, cache, stopping>>

\* Mutant: the cache worker is notified only of a second packet.
rxBatch_NotifiesLate ==
  /\ rx = "recv"
  /\ \E good \in SUBSET msgs :
       /\ pending' = pending \cup good
       /\ notifycache' = (notifycache \/ (pending # {} /\ good # {}))
       /\ rxTop(msgs \ good)
  /\ UNCHANGED <<site, running, inprog, shortBuf, temp, shortLimit, events,
                 unstall, cache, stopping>>

\* recvmmsg() returns with packets, of which some are good, or none (timeout);
\* the good ones are queued and the loop goes round.
rxBatch ==
  /\ rx = "recv"
  /\ \E good \in SUBSET msgs :
       /\ pending' = pending \cup good
       /\ notifycache' = (notifycache \/ (pending = {} /\ good # {}))
       /\ rxTop(msgs \ good)
  /\ UNCHANGED <<site, running, inprog, shortBuf, temp, shortLimit, events,
                 unstall, cache, stopping>>

\* vpoolStall.wait() returns.
rxWake ==
  /\ rx = "stalled" /\ vpoolStall
  /\ vpoolStall' = FALSE
  /\ rx' = "woken"
  /\ UNCHANGED <<site, running, bufs, shortLimit, pendingReady, notifycache, unstall, cache, stopping>>

\* Mutant: whether the receiver is stalled is tested after the return.
cacheReturn_TestsLate ==
  /\ cache = "return"
  /\ vpool' = vpool \cup inprog
  /\ unstall' = (vpool' = {})
  /\ inprog' = {}
  /\ cache' = "signal"
  /\ UNCHANGED <<site, running, msgs, pending, shortBuf, temp, shortLimit, events,
                 notifycache, rx, stopping>>

\* cachefn() returns the buffers it has consumed.
cacheReturn ==
  /\ cache = "return"
  /\ unstall' = (inprog # {} /\ vpool = {})
  /\ vpool' = vpool \cup inprog
  /\ inprog' = {}
  /\ cache' = "signal"
  /\ UNCHANGED <<site, running, msgs, pending, shortBuf, temp, shortLimit, events,
                 notifycache, rx, stopping>>

\* It wakes the receiver if the pool was empty,
cacheSignal ==
  /\ cache = "signal"
  /\ vpoolStall' = (vpoolStall \/ unstall)
  /\ unstall' = FALSE
  /\ cache' = "check"
  /\ UNCHANGED <<site, running, bufs, shortLimit, pendingReady, notifycache, rx, stopping>>

\* Mutant: cachefn() does not look at running.
cacheCheck_Never ==
  /\ cache = "check"
  /\ cache' = "wait"
  /\ UNCHANGED <<site, running, bufs, shortLimit, events, notifycache, unstall, rx, stopping>>

\* ends if it is told to,
cacheCheck ==
  /\ cache = "check"
  /\ cache' = IF running THEN "wait" ELSE "done"
  /\ UNCHANGED <<site, running, bufs, shortLimit, events, notifycache, unstall, rx, stopping>>

\* waits on pendingReady,
cacheWake ==
  /\ cache = "wait" /\ pendingReady
  /\ pendingReady' = FALSE
  /\ cache' = "woken"
  /\ UNCHANGED <<site, running, bufs, shortLimit, vpoolStall, notifycache, unstall, rx, stopping>>

\* takes all that is pending,
cacheGrab ==
  /\ cache = "woken"
  /\ inprog' = pending
  /\ pending' = inprog
  /\ cache' = IF pending = {} THEN "return" ELSE "store"
  /\ UNCHANGED <<site, running, vpool, msgs, shortBuf, temp, shortLimit, events,
                 notifycache, unstall, rx, stopping>>

\* stores the packets, and keeps some in the short buffer while there is room.
cacheStore ==
  /\ cache = "store"
  /\ \E moved \in SUBSET inprog :
       /\ Cardinality(moved) = Min({Cardinality(inprog), shortLimit - Cardinality(shortBuf)})
       /\ shortBuf' = shortBuf \cup moved
       /\ inprog' = inprog \ moved
  /\ cache' = "return"
  /\ UNCHANGED <<site, running, vpool, msgs, pending, temp, shortLimit, events,
                 notifycache, unstall, rx, stopping>>

----------------------------------------------------------------------------
\* devudp_read_shortbuf() expands the limit.
read_shortbuf ==
  /\ shortLimit < site.Nelm
  /\ shortLimit' = site.Nelm
  /\ UNCHANGED <<site, running, bufs, events, notifycache, unstall, rx, cache, stopping>>

\* devudp_clear_shortbuf(): takes the buffers with shortLock held ...
clear_shortbuf_take ==
  /\ site.clears
  /\ temp = {} /\ shortBuf # {}
  /\ temp' = shortBuf
  /\ shortBuf' = {}
  /\ UNCHANGED <<site, running, vpool, msgs, pending, inprog, shortLimit, events,
                 notifycache, unstall, rx, cache, stopping>>

\* ... and returns them to the pool with rxLock held.
clear_shortbuf_return ==
  /\ temp # {}
  /\ vpool' = vpool \cup temp
  /\ temp' = {}
  /\ UNCHANGED <<site, running, msgs, pending, inprog, shortBuf, shortLimit, events,
                 notifycache, unstall, rx, cache, stopping>>

\* devudp_reopen() and devudp_set_record() wake the cache worker.
reopen_signal ==
  /\ ~pendingReady
  /\ pendingReady' = TRUE
  /\ UNCHANGED <<site, running, bufs, shortLimit, vpoolStall, notifycache, unstall, rx, cache, stopping>>

\* UDPFast::stop(): clears running and wakes recvmmsg() (which would time out
\* after a second anyway); then the two signals; then it waits for the workers.
stop ==
  /\ stopping = "no"
  /\ running' = FALSE
  /\ stopping' = "signal1"
  /\ UNCHANGED <<site, bufs, shortLimit, events, notifycache, unstall, rx, cache>>

stopSignalRx ==
  /\ stopping = "signal1"
  /\ vpoolStall' = TRUE
  /\ stopping' = "signal2"
  /\ UNCHANGED <<site, running, bufs, shortLimit, pendingReady, notifycache, unstall, rx, cache>>

stopSignalCache ==
  /\ stopping = "signal2"
  /\ pendingReady' = TRUE
  /\ stopping' = "join"
  /\ UNCHANGED <<site, running, bufs, shortLimit, vpoolStall, notifycache, unstall, rx, cache>>

rxfn == rxEnter \/ rxNotify \/ rxBatch \/ rxWake
cachefn == cacheReturn \/ cacheSignal \/ cacheCheck \/ cacheWake \/ cacheGrab \/ cacheStore
Support == read_shortbuf \/ clear_shortbuf_take \/ clear_shortbuf_return \/ reopen_signal
Stop == stop \/ stopSignalRx \/ stopSignalCache

Next == rxfn \/ cachefn \/ Support \/ Stop

Spec == Init /\ [][Next]_vars

\* The workers run; a record that has taken buffers returns them; stop(), once
\* called, goes on.  Nobody need ever call stop() or touch the records.
FairSpec ==
  /\ Spec
  /\ WF_vars(rxfn)
  /\ WF_vars(cachefn)
  /\ WF_vars(clear_shortbuf_return)
  /\ WF_vars(stopSignalRx) /\ WF_vars(stopSignalCache)

----------------------------------------------------------------------------
\* Types of the variables.
TypeOK ==
  /\ site \in Sites
  /\ running \in BOOLEAN
  /\ vpool \in SUBSET Buf /\ msgs \in SUBSET Buf /\ pending \in SUBSET Buf
  /\ inprog \in SUBSET Buf /\ shortBuf \in SUBSET Buf /\ temp \in SUBSET Buf
  /\ shortLimit \in {0, site.Nelm}
  /\ pendingReady \in BOOLEAN /\ vpoolStall \in BOOLEAN
  /\ notifycache \in BOOLEAN /\ unstall \in BOOLEAN
  /\ rx \in {"start", "unlocked", "recv", "stalled", "woken", "done"}
  /\ cache \in {"return", "signal", "check", "wait", "woken", "store", "done"}
  /\ stopping \in {"no", "signal1", "signal2", "join"}

\* No buffer is lost or in two places: the statistics of devudp.cpp, which add
\* up to vpoolTotal, are right, and no packet is overwritten while in use.
Disjoint ==
  /\ vpool \cap (msgs \cup pending \cup inprog \cup shortBuf \cup temp) = {}
  /\ msgs \cap (pending \cup inprog \cup shortBuf \cup temp) = {}
  /\ pending \cap (inprog \cup shortBuf \cup temp) = {}
  /\ inprog \cap (shortBuf \cup temp) = {}
  /\ shortBuf \cap temp = {}
BuffersConserved ==
  Disjoint /\ vpool \cup msgs \cup pending \cup inprog \cup shortBuf \cup temp = Buf

\* inprog holds packets only from the grab to the return, so that the swap with
\* pending never puts consumed packets back in the queue.
InprogOnlyWhileStoring == inprog # {} => cache \in {"store", "return"}

\* Packets that wait have somebody who knows: the event is set, the receiver
\* will set it when it next releases rxLock for recvmmsg(), or the cache worker
\* is on its way.  Signalling only when pending was empty loses no wakeup.  (A
\* stall releases rxLock too, without the signal: PacketsTaken.)
NoLostWakeup ==
  pending # {} => notifycache \/ pendingReady \/ cache = "woken" \/ ~running

\* There are buffers besides those that recvmmsg() may hold for the next packets
\* and the short buffer may keep.
Roomy == Cardinality(Buf) > site.batchSize + site.Nelm

\* stop() returns: both workers end.
Terminates == (stopping # "no") ~> (rx = "done" /\ cache = "done")

\* udpfast.rst: without free buffers "the driver will stop calling recvmmsg()
\* and wait for buffers to become available. eg. when some writev() has
\* completed."  Every stall ends, where the pool is roomy and no record clears
\* the short buffer.  In a smaller pool recvmmsg() and the short buffer may keep
\* every buffer between them, and nobody is left to signal; clearing returns
\* buffers without a signal, and a receiver may stay stalled with free buffers.
StallEnds == (Roomy /\ ~site.clears /\ rx = "stalled") ~> (rx # "stalled")

\* Packets received are taken by the cache worker, all at once, while it runs, on
\* the same two conditions: a receiver stalled for ever may still owe the cache
\* worker its signal.
PacketsTaken ==
  (Roomy /\ ~site.clears /\ pending # {}) ~> (pending = {} \/ ~running)
=============================================================================
