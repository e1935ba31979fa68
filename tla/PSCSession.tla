----------------------------- MODULE PSCSession -----------------------------
(***************************************************************************)
(* The life of a PSC's TCP session (coreApp/src/psc.cpp, pscwrap.cpp) and  *)
(* the threads that act on it: the event loop, which runs the callbacks of *)
(* the bufferevent and of the reconnect timer; the threads that process    *)
(* records, which take the record's lock and then PSCBase::lock; and the   *)
(* shutdown.                                                               *)
(*                                                                         *)
(* BEV_OPT_DEFER_CALLBACKS and BEV_OPT_UNLOCK_CALLBACKS: the event loop    *)
(* picks the next callback with the bufferevent locked, unlocks it, and    *)
(* only then does bev_eventcb() or bev_datacb() take PSCBase::lock.  That  *)
(* is two steps here.  A handler runs with the lock held and is one step,  *)
(* but for eventcb(BEV_EVENT_CONNECTED), which waits for record locks.     *)
(*                                                                         *)
(* What a site makes of the driver is fixed from the start, in uses:       *)
(* "force", its database has a "PSC Ctrl ForceReConn" record; "shared",    *)
(* records with info SYNC=ProcOnConn are processed by others too; "stops", *)
(* the IOC may exit.                                                       *)
(***************************************************************************)
EXTENDS Naturals, Sequences

CONSTANTS
  Thread,         \* threads that process records
  Rec,            \* records they process
  ProcOnConnect,  \* PSCBase::procOnConnect: records with info SYNC=ProcOnConn
  NoRec

ASSUME PSCSessionAssumption ==
  /\ NoRec \notin Rec
  /\ Len(ProcOnConnect) \in Nat

Feature == {"force", "shared", "stops"}

VARIABLES
  uses,
  phase,         \* "init", "running", "stopping" (stop() called), "stopped"
  session,       \* PSCEventBase::session # NULL
  connected,     \* PSCBase::connected
  timer_active,  \* PSC::timer_active
  bev,           \* the bufferevent: "none", "connecting", "open"
  pend,          \* its deferred callbacks: "conn", "read", "err"
  loop,          \* the event loop: "idle", "called" (lock not yet taken),
                 \* "proc" (in eventcb, with the lock, at procOnConnect[next])
  callback,      \* the callback it is in
  next,
  holds,         \* holds[t]: record thread t has locked, waiting for the lock
  tries,         \* parity of the calls of connect()
  nomem,         \* bufferevent_socket_new() has failed
  crashed        \* who found session NULL: "no" one, a "callback", a "record"

vars == <<uses, nomem, phase, session, connected, timer_active, bev, pend, loop, callback,
          next, holds, tries, crashed>>

\* PSCBase::lock: record operations are one step, only the event loop keeps it.
lockFree == loop # "proc"

----------------------------------------------------------------------------
Init ==
  /\ uses \in SUBSET Feature
  /\ nomem = FALSE
  /\ phase = "init"
  /\ session = FALSE /\ connected = FALSE /\ timer_active = FALSE
  /\ bev = "none" /\ pend = {}
  /\ loop = "idle" /\ callback = "none" /\ next = 0
  /\ holds = [t \in Thread |-> NoRec]
  /\ tries = 0
  /\ crashed = "no"

\* PSC::connect(), with session NULL and no timer: the connection is under
\* way, could not be started (try again later), or there is no memory.
connect ==
  /\ tries' = 1 - tries
  /\ pend' = {}
  /\ \/ session' = TRUE /\ timer_active' = FALSE /\ bev' = "connecting" /\ UNCHANGED nomem
     \/ session' = FALSE /\ timer_active' = TRUE /\ bev' = "none" /\ UNCHANGED nomem
     \/ session' = FALSE /\ timer_active' = FALSE /\ bev' = "none" /\ nomem' = TRUE

\* Mutant: the timer is not armed.
start_reconnect_NoTimer ==
  /\ session' = FALSE
  /\ connected' = FALSE
  /\ bev' = "none" /\ pend' = {}
  /\ UNCHANGED timer_active

\* Mutant: connected is left set.
start_reconnect_StaysConnected ==
  /\ session' = FALSE
  /\ timer_active' = TRUE
  /\ bev' = "none" /\ pend' = {}
  /\ UNCHANGED connected

\* Mutant: the bufferevent is forgotten, not freed.
start_reconnect_NoFree ==
  /\ session' = FALSE
  /\ connected' = FALSE
  /\ timer_active' = TRUE
  /\ UNCHANGED <<bev, pend>>

\* PSC::start_reconnect(): bufferevent_free() clears the callbacks that have
\* not been picked yet.
start_reconnect ==
  /\ session' = FALSE
  /\ connected' = FALSE
  /\ timer_active' = TRUE
  /\ bev' = "none" /\ pend' = {}

\* PSCBase::startAll(), once the IOC is running.
startAll ==
  /\ phase = "init"
  /\ phase' = "running"
  /\ connect
  /\ UNCHANGED <<uses, connected, loop, callback, next, holds, crashed>>

----------------------------------------------------------------------------
\* The network (external): the connection opens, data arrives, and at any
\* moment an error, a timeout or the end of the stream.
NetConnected ==
  /\ bev = "connecting"
  /\ bev' = "open"
  /\ pend' = pend \cup {"conn"}
  /\ UNCHANGED <<uses, nomem, phase, session, connected, timer_active, loop,
                 callback, next, holds, tries, crashed>>

NetData ==
  /\ bev = "open" /\ connected
  /\ "read" \notin pend
  /\ pend' = pend \cup {"read"}
  /\ UNCHANGED <<uses, nomem, phase, session, connected, timer_active, bev, loop,
                 callback, next, holds, tries, crashed>>

NetError ==
  /\ bev # "none"
  /\ "err" \notin pend
  /\ pend' = pend \cup {"err"}
  /\ UNCHANGED <<uses, nomem, phase, session, connected, timer_active, bev, loop,
                 callback, next, holds, tries, crashed>>

----------------------------------------------------------------------------
\* The event loop.  It is inside callback cb, without PSCBase::lock.
Called(cb) ==
  /\ phase # "stopped" /\ crashed = "no"
  /\ loop = "idle"
  /\ loop' = "called" /\ callback' = cb

\* libevent picks a deferred callback: connected first, then data, then errors.
CallBufferevent(cb) ==
  /\ cb \in pend
  /\ cb = "read" => "conn" \notin pend
  /\ cb = "err" => pend = {"err"}
  /\ Called(cb)
  /\ pend' = pend \ {cb}
  /\ UNCHANGED <<uses, nomem, phase, session, connected, timer_active, bev, next,
                 holds, tries, crashed>>

\* The reconnect timer expires.
CallReconnect ==
  /\ timer_active
  /\ Called("timer")
  /\ UNCHANGED <<uses, nomem, phase, session, connected, timer_active, bev, pend,
                 next, holds, tries, crashed>>

\* Back in the event loop, the lock released.
Returned == loop' = "idle" /\ callback' = "none" /\ next' = 0

\* bev_eventcb() and bev_datacb() lock psc->session, which must not be NULL.
bev_nullSession ==
  /\ loop = "called" /\ callback \in {"conn", "read", "err"}
  /\ ~session
  /\ crashed' = "callback"
  /\ Returned
  /\ UNCHANGED <<uses, nomem, phase, session, connected, timer_active, bev, pend,
                 holds, tries>>

\* eventcb(BEV_EVENT_CONNECTED): from here on the lock is held.
eventcb_connected ==
  /\ loop = "called" /\ callback = "conn"
  /\ session
  /\ connected' = TRUE
  /\ loop' = "proc" /\ next' = 1
  /\ UNCHANGED <<uses, nomem, phase, session, timer_active, bev, pend, callback,
                 holds, tries, crashed>>

\* It processes the next record of procOnConnect: dbScanLock() waits until no
\* other thread has that record locked.
eventcb_process ==
  /\ loop = "proc"
  /\ next <= Len(ProcOnConnect)
  /\ \A t \in Thread : holds[t] # ProcOnConnect[next]
  /\ next' = next + 1
  /\ UNCHANGED <<uses, nomem, phase, session, connected, timer_active, bev, pend,
                 loop, callback, holds, tries, crashed>>

\* And when all are processed the callback returns.
eventcb_processed ==
  /\ loop = "proc"
  /\ next > Len(ProcOnConnect)
  /\ Returned
  /\ UNCHANGED <<uses, nomem, phase, session, connected, timer_active, bev, pend,
                 holds, tries, crashed>>

\* eventcb(BEV_EVENT_ERROR, _EOF, _TIMEOUT).
eventcb_error ==
  /\ loop = "called" /\ callback = "err"
  /\ session
  /\ start_reconnect
  /\ Returned
  /\ UNCHANGED <<uses, nomem, phase, holds, tries, crashed>>

\* recvdata(): messages are taken from the buffer, or a framing error.
recvdata ==
  /\ loop = "called" /\ callback = "read"
  /\ session
  /\ \/ start_reconnect
     \/ UNCHANGED <<session, connected, timer_active, bev, pend>>
  /\ Returned
  /\ UNCHANGED <<uses, nomem, phase, holds, tries, crashed>>

\* Mutant: reconnect() leaves while the timer counts as active.
reconnect_Leaves ==
  /\ loop = "called" /\ callback = "timer"
  /\ IF timer_active THEN UNCHANGED <<session, timer_active, bev, pend, tries, nomem>> ELSE connect
  /\ Returned
  /\ UNCHANGED <<uses, phase, connected, holds, crashed>>

\* bev_reconnect() calls reconnect().
reconnect ==
  /\ loop = "called" /\ callback = "timer"
  /\ connect
  /\ Returned
  /\ UNCHANGED <<uses, phase, connected, holds, crashed>>

\* PSCEventBase::stop() has psc_real_exit() called in the loop ...
stop ==
  /\ "stops" \in uses
  /\ phase = "running"
  /\ Called("stop")
  /\ phase' = "stopping"
  /\ UNCHANGED <<uses, nomem, session, connected, timer_active, bev, pend, next,
                 holds, tries, crashed>>

\* Mutant: the timer is not deleted.
stopinloop_KeepsTimer ==
  /\ loop = "called" /\ callback = "stop"
  /\ session' = FALSE
  /\ bev' = IF connected THEN "none" ELSE bev
  /\ pend' = IF connected THEN {} ELSE pend
  /\ Returned
  /\ UNCHANGED <<uses, nomem, phase, connected, timer_active, holds, tries, crashed>>

\* ... which calls stopinloop(): the bufferevent is freed if connected, the
\* timer deleted.
stopinloop ==
  /\ loop = "called" /\ callback = "stop"
  /\ session' = FALSE
  /\ bev' = IF connected THEN "none" ELSE bev
  /\ pend' = IF connected THEN {} ELSE pend
  /\ timer_active' = FALSE
  /\ Returned
  /\ UNCHANGED <<uses, nomem, phase, connected, holds, tries, crashed>>

\* EventBase::stop(): the loop exits after the callbacks that are ready.
loopexit ==
  /\ phase = "stopping" /\ loop = "idle"
  /\ phase' = "stopped"
  /\ UNCHANGED <<uses, nomem, session, connected, timer_active, bev, pend, loop,
                 callback, next, holds, tries, crashed>>

----------------------------------------------------------------------------
\* dbScanLock() by a thread that processes record r.
RecLock(t, r) ==
  /\ phase \in {"running", "stopping"} /\ crashed = "no"
  /\ holds[t] = NoRec
  /\ "shared" \in uses \/ \A i \in 1..Len(ProcOnConnect) : ProcOnConnect[i] # r
  /\ \A u \in Thread : holds[u] # r
  /\ holds' = [holds EXCEPT ![t] = r]
  /\ UNCHANGED <<uses, nomem, phase, session, connected, timer_active, bev, pend,
                 loop, callback, next, tries, crashed>>

\* The device support: forceReConnect() ...
forceReConnect ==
  /\ "force" \in uses
  /\ connected /\ session
  /\ start_reconnect
  /\ UNCHANGED crashed

\* ... which asserts session, as flushSend() locks it, when connected is set ...
nullSession ==
  /\ connected /\ ~session
  /\ crashed' = "record"
  /\ UNCHANGED <<session, connected, timer_active, bev, pend>>

\* ... or what leaves the session alone.
otherSupport == UNCHANGED <<session, connected, timer_active, bev, pend, crashed>>

\* Thread t runs the device support, with the lock, and unlocks the record.
RecProcess(t) ==
  /\ holds[t] # NoRec
  /\ lockFree
  /\ forceReConnect \/ nullSession \/ otherSupport
  /\ holds' = [holds EXCEPT ![t] = NoRec]
  /\ UNCHANGED <<uses, nomem, phase, loop, callback, next, tries>>

Network == NetConnected \/ NetData \/ NetError

EventLoop ==
  \/ \E cb \in {"conn", "read", "err"} : CallBufferevent(cb)
  \/ CallReconnect
  \/ bev_nullSession
  \/ eventcb_connected \/ eventcb_process \/ eventcb_processed \/ eventcb_error
  \/ recvdata \/ reconnect
  \/ stopinloop \/ loopexit

Next ==
  \/ startAll \/ stop
  \/ Network
  \/ EventLoop
  \/ \E t \in Thread : RecProcess(t) \/ \E r \in Rec : RecLock(t, r)

Spec == Init /\ [][Next]_vars

\* The event loop's thread runs, and so does one that is processing a record.
FairSpec ==
  /\ Spec
  /\ WF_vars(startAll)
  /\ WF_vars(EventLoop)
  /\ \A t \in Thread : WF_vars(RecProcess(t))

----------------------------------------------------------------------------
\* Types of the variables.
TypeOK ==
  /\ uses \in SUBSET Feature
  /\ nomem \in BOOLEAN
  /\ phase \in {"init", "running", "stopping", "stopped"}
  /\ session \in BOOLEAN /\ connected \in BOOLEAN /\ timer_active \in BOOLEAN
  /\ bev \in {"none", "connecting", "open"}
  /\ pend \in SUBSET {"conn", "read", "err"}
  /\ loop \in {"idle", "called", "proc"}
  /\ callback \in {"none", "conn", "read", "err", "timer", "stop"}
  /\ next \in 0..(Len(ProcOnConnect) + 1)
  /\ holds \in [Thread -> Rec \cup {NoRec}]
  /\ tries \in {0, 1}
  /\ crashed \in {"no", "callback", "record"}

\* The driver never gives up and never does two things at once: while it runs
\* it has a session or a pending retry, not both, unless there was no memory
\* for a session.  This is the assertion assert(session || timer_active) of
\* reconnect(), kept at every later moment.
AlwaysOneWayForward == phase = "running" /\ ~nomem => session # timer_active

\* assert(session && !timer_active) in start_reconnect(), whoever calls it
\* while connected, and assert(session) in stopinloop().
ConnectedHasSession ==
  connected /\ phase = "running" => session /\ bev = "open" /\ ~timer_active

\* assert(!connected) and assert(!session) in reconnect(), and assert(!session),
\* assert(!timer_active) in connect(), when the timer's callback is called.
TimerFindsNoSession ==
  loop = "called" /\ callback = "timer" => ~connected /\ ~session /\ timer_active

\* After shutdown nothing revives the driver (stopinloop() has a TODO on a race
\* of the timer with its deletion): no timer and no session remain.
StoppedForGood == phase = "stopped" => ~session /\ ~timer_active

\* assert(connected && session) in recvdata() and assert(session) in
\* start_reconnect(): a callback finds the session it was called for, as long
\* as no record forces a reconnection and the IOC does not exit.
CallbackFindsSession == crashed = "callback" => "force" \in uses \/ phase # "running"

\* assert(session && !timer_active) in start_reconnect() called by a record's
\* forceReConnect(), and flushSend(): connected promises a session, until the
\* IOC exits.
RecordFindsSession == crashed = "record" => phase # "running"

\* pscwrap.cpp on its callbacks: "to avoid issues with lock order ... we re-lock
\* in the correct order."  The event loop never waits for a record whose holder
\* waits for the PSC's lock.
NoLockCycle ==
  ~ /\ loop = "proc" /\ next <= Len(ProcOnConnect)
    /\ \E t \in Thread : holds[t] = ProcOnConnect[next]

\* While it is not connected the driver tries again and again.
KeepsTrying ==
  \A k \in {0, 1} :
    (phase = "running" /\ timer_active /\ tries = k)
      ~> (tries # k \/ phase # "running" \/ crashed # "no")
=============================================================================
