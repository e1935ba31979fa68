-------------------------- MODULE PSCSessionProofs --------------------------
(***************************************************************************)
(* Proofs about PSCSession for any number of threads and records.          *)
(*                                                                         *)
(* The assertions of psc.cpp relate connected, session and timer_active,   *)
(* but what keeps them true is where the event loop is: a timer callback   *)
(* that has been called, or a "connected" callback not yet delivered,      *)
(* excludes everything that would change the session under it.  Live says  *)
(* so; it holds until stopinloop() has run, and Over from then on.         *)
(***************************************************************************)
EXTENDS PSCSession, TLAPS

\* Before startAll().
NotStarted ==
  phase = "init" => /\ ~session /\ ~connected /\ ~timer_active
                    /\ bev = "none" /\ pend = {}
                    /\ loop = "idle" /\ callback = "none" /\ crashed = "no"

\* From startAll() until stopinloop() has run.
Live ==
  phase = "running" \/ callback = "stop" =>
    /\ connected => bev = "open"
    /\ ~(session /\ timer_active)
    /\ session <=> bev # "none"
    /\ bev = "none" => pend = {}
    /\ "conn" \in pend => ~connected /\ bev = "open"
    /\ callback = "conn" /\ loop = "called" =>
         ~connected /\ bev = "open" /\ "conn" \notin pend
    /\ callback = "timer" => ~connected /\ ~session /\ timer_active
    /\ loop = "proc" => connected
    /\ session \/ timer_active \/ nomem

\* Once stopinloop() has run.
Over ==
  phase \in {"stopping", "stopped"} /\ callback # "stop" =>
    ~session /\ ~timer_active /\ callback # "timer" /\ loop # "proc"

\* Where the event loop is.
LoopState ==
  /\ loop = "idle" <=> callback = "none"
  /\ callback = "stop" => phase = "stopping" /\ loop = "called"
  /\ callback = "timer" => loop = "called"

IInv == TypeOK /\ NotStarted /\ Live /\ Over /\ LoopState

\* What the operations that assign the flags leave in them.
LEMMA InitFlags ==
  Init => /\ session \in BOOLEAN /\ ~session
          /\ connected \in BOOLEAN /\ ~connected
          /\ timer_active \in BOOLEAN /\ ~timer_active
          /\ nomem \in BOOLEAN /\ ~nomem
  BY Zenon DEF Init

LEMMA ReconnectFlags ==
  start_reconnect => /\ session' \in BOOLEAN /\ ~session'
                     /\ connected' \in BOOLEAN /\ ~connected'
                     /\ timer_active' \in BOOLEAN /\ timer_active'
                     /\ bev' = "none" /\ pend' = {}
  BY Zenon DEF start_reconnect

LEMMA ConnectFlags ==
  ASSUME nomem \in BOOLEAN, connect
  PROVE  /\ session' \in BOOLEAN /\ timer_active' \in BOOLEAN /\ nomem' \in BOOLEAN
         /\ ~(session' /\ timer_active')
         /\ session' \/ timer_active' \/ nomem'
         /\ nomem => nomem'
         /\ bev' = IF session' THEN "connecting" ELSE "none"
         /\ pend' = {}
<1>1. CASE session' = TRUE /\ timer_active' = FALSE /\ bev' = "connecting" /\ UNCHANGED nomem
  BY <1>1, Zenon DEF connect
<1>2. CASE session' = FALSE /\ timer_active' = TRUE /\ bev' = "none" /\ UNCHANGED nomem
  BY <1>2, Zenon DEF connect
<1>3. CASE session' = FALSE /\ timer_active' = FALSE /\ bev' = "none" /\ nomem' = TRUE
  BY <1>3, Zenon DEF connect
<1> QED
  BY <1>1, <1>2, <1>3, Zenon DEF connect

\* The counter connect() keeps for KeepsTrying stays 0 or 1.
LEMMA ConnectTries == TypeOK /\ connect => tries' \in {0, 1}
  BY DEF TypeOK, connect

\* The constructor establishes the invariant.
LEMMA InitIInv == Init => IInv
  BY InitFlags, PSCSessionAssumption
     DEF Init, IInv, TypeOK, NotStarted, Live, Over, LoopState

\* Every step of the network, of a record's thread, of startAll() and of stop()
\* preserves the invariant.
LEMMA OthersIInv ==
  ASSUME IInv, \/ startAll \/ stop \/ Network
               \/ \E t \in Thread : RecProcess(t) \/ \E r \in Rec : RecLock(t, r)
  PROVE  IInv'
<1> USE DEF IInv, TypeOK, NotStarted, Live, Over, LoopState
<1>1. CASE startAll
  BY <1>1, ConnectFlags, ConnectTries DEF startAll
<1>2. CASE stop
  BY <1>2 DEF stop, Called
<1>3. CASE NetConnected
  BY <1>3 DEF NetConnected
<1>4. CASE NetData
  BY <1>4 DEF NetData
<1>5. CASE NetError
  BY <1>5 DEF NetError
<1>6. ASSUME NEW t \in Thread, RecProcess(t) PROVE IInv'
  <2>1. holds' \in [Thread -> Rec \cup {NoRec}]
    BY <1>6 DEF RecProcess
  <2>2. CASE forceReConnect
    BY <1>6, <2>1, <2>2, ReconnectFlags DEF RecProcess, forceReConnect, lockFree
  <2>3. CASE nullSession
    BY <1>6, <2>1, <2>3 DEF RecProcess, nullSession
  <2>4. CASE otherSupport
    BY <1>6, <2>1, <2>4 DEF RecProcess, otherSupport
  <2> QED
    BY <1>6, <2>2, <2>3, <2>4 DEF RecProcess
<1>7. ASSUME NEW t \in Thread, NEW r \in Rec, RecLock(t, r) PROVE IInv'
  <2>1. holds' \in [Thread -> Rec \cup {NoRec}]
    BY <1>7 DEF RecLock
  <2> QED
    BY <1>7, <2>1 DEF RecLock
<1> QED
  BY <1>1, <1>2, <1>3, <1>4, <1>5, <1>6, <1>7 DEF Network

\* Every step of the event loop preserves the invariant.
LEMMA EventLoopIInv == IInv /\ EventLoop => IInv'
<1> SUFFICES ASSUME IInv, EventLoop PROVE IInv'
  OBVIOUS
<1> USE PSCSessionAssumption DEF IInv, TypeOK, NotStarted, Live, Over, LoopState
<1>1. ASSUME NEW cb \in {"conn", "read", "err"}, CallBufferevent(cb) PROVE IInv'
  BY <1>1 DEF CallBufferevent, Called
<1>2. CASE CallReconnect
  BY <1>2 DEF CallReconnect, Called
<1>3. CASE bev_nullSession
  BY <1>3 DEF bev_nullSession, Returned
<1>4. CASE eventcb_connected
  <2>1. connected' \in BOOLEAN /\ connected'
    BY <1>4, Zenon DEF eventcb_connected
  <2>2. /\ loop = "called" /\ callback = "conn" /\ session
        /\ loop' = "proc" /\ next' = 1
        /\ UNCHANGED <<uses, nomem, phase, session, timer_active, bev, pend, callback,
                       holds, tries, crashed>>
    BY <1>4 DEF eventcb_connected
  <2>3. TypeOK'
    BY <2>1, <2>2
  <2>4. NotStarted' /\ Over' /\ LoopState'
    BY <2>1, <2>2
  <2>5. Live'
    BY <2>1, <2>2
  <2> QED
    BY <2>3, <2>4, <2>5
<1>5. CASE eventcb_process
  BY <1>5 DEF eventcb_process
<1>6. CASE eventcb_processed
  BY <1>6 DEF eventcb_processed, Returned
<1>7. CASE eventcb_error
  BY <1>7, ReconnectFlags DEF eventcb_error, Returned
<1>8. CASE recvdata
  <2>1. CASE start_reconnect
    BY <1>8, <2>1, ReconnectFlags DEF recvdata, Returned
  <2>2. CASE UNCHANGED <<session, connected, timer_active, bev, pend>>
    BY <1>8, <2>2 DEF recvdata, Returned
  <2> QED
    BY <1>8, <2>1, <2>2 DEF recvdata
<1>9. CASE reconnect
  BY <1>9, ConnectFlags, ConnectTries DEF reconnect, Returned
<1>10. CASE stopinloop
  <2>1. session' \in BOOLEAN /\ ~session' /\ timer_active' \in BOOLEAN /\ ~timer_active'
    BY <1>10, Zenon DEF stopinloop
  <2> QED
    BY <1>10, <2>1 DEF stopinloop, Returned
<1>11. CASE loopexit
  BY <1>11 DEF loopexit
<1> QED
  BY <1>1, <1>2, <1>3, <1>4, <1>5, <1>6, <1>7, <1>8, <1>9, <1>10, <1>11 DEF EventLoop

\* IInv is an invariant.
LEMMA SpecIInv == Spec => []IInv
<1>1. IInv /\ UNCHANGED vars => IInv'
  BY DEF IInv, vars, TypeOK, NotStarted, Live, Over, LoopState
<1> QED
  BY <1>1, InitIInv, OthersIInv, EventLoopIInv, PTL DEF Spec, Next

\* The variables keep their types.
THEOREM SpecTypeOK == Spec => []TypeOK
  BY SpecIInv, PTL DEF IInv

\* Whoever calls start_reconnect() because the PSC is connected finds its
\* assertion true.
THEOREM SpecConnectedHasSession == Spec => []ConnectedHasSession
<1>1. IInv => ConnectedHasSession
  BY DEF IInv, TypeOK, Live, ConnectedHasSession
<1> QED
  BY <1>1, SpecIInv, PTL

\* The assertions of reconnect() and connect() hold when the timer fires.
THEOREM SpecTimerFindsNoSession == Spec => []TimerFindsNoSession
<1>1. IInv => TimerFindsNoSession
  BY DEF IInv, TypeOK, NotStarted, Live, Over, LoopState, TimerFindsNoSession
<1> QED
  BY <1>1, SpecIInv, PTL

\* The race that the TODO in stopinloop() fears does not exist: after shutdown
\* there is no session and no timer.
THEOREM SpecStoppedForGood == Spec => []StoppedForGood
<1>1. IInv => StoppedForGood
  BY DEF IInv, TypeOK, Over, LoopState, StoppedForGood
<1> QED
  BY <1>1, SpecIInv, PTL

\* The driver never gives up: from startAll() until stop() it has a session or
\* an armed timer, and not both, unless there was no memory for a session.
THEOREM SpecAlwaysOneWayForward == Spec => []AlwaysOneWayForward
<1>1. IInv => AlwaysOneWayForward
  BY DEF IInv, TypeOK, Live, AlwaysOneWayForward
<1> QED
  BY <1>1, SpecIInv, PTL
\* Records find a session while the driver runs: the assertion of
\* start_reconnect() holds in forceReConnect(), and flushSend() has a
\* bufferevent to lock.
THEOREM SpecRecordFindsSession == Spec => []RecordFindsSession
<1>1. Init => RecordFindsSession
  BY DEF Init, RecordFindsSession
<1>2. IInv /\ RecordFindsSession /\ [Next]_vars => RecordFindsSession'
  <2> SUFFICES ASSUME IInv, RecordFindsSession, [Next]_vars PROVE RecordFindsSession'
    OBVIOUS
  <2> USE DEF RecordFindsSession
  <2>1. CASE startAll \/ stop \/ Network
    BY <2>1 DEF startAll, stop, Called, Network, NetConnected, NetData, NetError, IInv, NotStarted
  <2>2. CASE EventLoop
    BY <2>2 DEF EventLoop, CallBufferevent, CallReconnect, bev_nullSession,
       eventcb_connected, eventcb_process, eventcb_processed, eventcb_error,
       recvdata, reconnect, stopinloop, loopexit
  <2>3. ASSUME NEW t \in Thread, RecProcess(t) PROVE RecordFindsSession'
    <3>1. CASE nullSession
      BY <2>3, <3>1 DEF RecProcess, nullSession, IInv, TypeOK, Live
    <3>2. CASE forceReConnect \/ otherSupport
      BY <2>3, <3>2 DEF RecProcess, forceReConnect, otherSupport
    <3> QED
      BY <2>3, <3>1, <3>2 DEF RecProcess
  <2>4. ASSUME NEW t \in Thread, NEW r \in Rec, RecLock(t, r) PROVE RecordFindsSession'
    BY <2>4 DEF RecLock
  <2>5. CASE UNCHANGED vars
    BY <2>5 DEF vars
  <2> QED
    BY <2>1, <2>2, <2>3, <2>4, <2>5 DEF Next
<1> QED
  BY <1>1, <1>2, SpecIInv, PTL DEF Spec
\* Between the moment libevent picks a callback and the moment it has the lock
\* only a record can take its session away.
CalledWithSession ==
  phase = "running" /\ "force" \notin uses /\ loop = "called"
    /\ callback \in {"conn", "read", "err"} => session

\* Callbacks find their session, in a database that forces no reconnection and
\* until the IOC exits: the assertion of recvdata() holds there.
THEOREM SpecCallbackFindsSession == Spec => []CallbackFindsSession
<1>1. Init => CalledWithSession /\ CallbackFindsSession
  BY DEF Init, CalledWithSession, CallbackFindsSession
<1>2. IInv /\ CalledWithSession /\ CallbackFindsSession /\ [Next]_vars
        => CalledWithSession' /\ CallbackFindsSession'
  <2> SUFFICES ASSUME IInv, CalledWithSession, CallbackFindsSession, [Next]_vars
               PROVE  CalledWithSession' /\ CallbackFindsSession'
    OBVIOUS
  <2> USE DEF CalledWithSession, CallbackFindsSession
  <2>1. CASE startAll
    BY <2>1 DEF startAll, IInv, NotStarted
  <2>2. CASE stop
    BY <2>2 DEF stop, Called
  <2>3. CASE Network
    BY <2>3 DEF Network, NetConnected, NetData, NetError
  <2>4. CASE EventLoop
    <3>1. ASSUME NEW cb \in {"conn", "read", "err"}, CallBufferevent(cb)
          PROVE  CalledWithSession' /\ CallbackFindsSession'
      BY <3>1 DEF CallBufferevent, Called, IInv, TypeOK, Live
    <3>2. CASE CallReconnect
      BY <3>2 DEF CallReconnect, Called
    <3>3. CASE bev_nullSession
      BY <3>3 DEF bev_nullSession, Returned
    <3>4. CASE eventcb_connected \/ eventcb_process
      BY <3>4 DEF eventcb_connected, eventcb_process
    <3>5. CASE eventcb_processed \/ eventcb_error \/ recvdata
      BY <3>5 DEF eventcb_processed, eventcb_error, recvdata, Returned
    <3>6. CASE reconnect \/ stopinloop
      BY <3>6 DEF reconnect, stopinloop, Returned
    <3>7. CASE loopexit
      BY <3>7 DEF loopexit
    <3> QED
      BY <2>4, <3>1, <3>2, <3>3, <3>4, <3>5, <3>6, <3>7 DEF EventLoop
  <2>5. ASSUME NEW t \in Thread, RecProcess(t)
        PROVE  CalledWithSession' /\ CallbackFindsSession'
    BY <2>5 DEF RecProcess, forceReConnect, nullSession, otherSupport
  <2>6. ASSUME NEW t \in Thread, NEW r \in Rec, RecLock(t, r)
        PROVE  CalledWithSession' /\ CallbackFindsSession'
    BY <2>6 DEF RecLock
  <2>7. CASE UNCHANGED vars
    BY <2>7 DEF vars
  <2> QED
    BY <2>1, <2>2, <2>3, <2>4, <2>5, <2>6, <2>7 DEF Next
<1> QED
  BY <1>1, <1>2, SpecIInv, PTL DEF Spec
=============================================================================
