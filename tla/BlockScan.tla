----------------------------- MODULE BlockScan -----------------------------
(***************************************************************************)
(* "I/O Intr" scanning of one receive Block (coreApp/src/pscbase.cpp,      *)
(* struct Block).  A message body that arrives is stored in block->data    *)
(* and requestScan() asks EPICS to process the records attached to the     *)
(* block.  EPICS keeps one scan list per callback priority and processes   *)
(* each on a thread of its own, so several passes run at once, and messages*)
(* go on arriving while they run.  Block::scanBusy remembers which         *)
(* priorities are still working, Block::scanQueued that another pass is    *)
(* owed; Block::scanned() is called by EPICS at the end of a pass.         *)
(*                                                                         *)
(* requestScan(), scanned() and a record's read of block->data all run     *)
(* with PSCBase::lock held, so each is one atomic step.                    *)
(***************************************************************************)
EXTENDS Naturals, FiniteSets

CONSTANTS
  Prio,        \* callback priorities (three in EPICS: low, medium, high)
  Rec,         \* records whose SCAN is "I/O Intr" on this block
  PrioOf,      \* PrioOf[r]: the PRIO field of record r
  QueueFills,  \* TRUE: callbackRequest() may find its ring buffer full
  MaxMsg       \* bound: number of messages received

ASSUME BlockScanAssumption ==
  /\ PrioOf \in [Rec -> Prio]
  /\ QueueFills \in BOOLEAN
  /\ MaxMsg \in Nat

VARIABLES
  data,       \* Block::data, as the serial number of the message it holds
  scanBusy,   \* Block::scanBusy, the bit mask as a set of priorities
  scanQueued, \* Block::scanQueued
  scanCount,  \* Block::scanCount
  scanOflow,  \* Block::scanOflow
  cb,         \* cb[p]: EPICS's callback for the scan list of priority p
  todo,       \* todo[p]: records the running pass of p has still to process
  seen,       \* seen[r]: serial number of the message record r read last
  missed      \* priorities whose callback could not be queued last time

vars == <<data, scanBusy, scanQueued, scanCount, scanOflow, cb, todo, seen, missed>>

\* The scan list of priority p.
ScanList(p) == {r \in Rec : PrioOf[r] = p}

\* Priorities with a non-empty scan list: the others get no callback.
Attached == {PrioOf[r] : r \in Rec}

----------------------------------------------------------------------------
Init ==
  /\ data = 0
  /\ scanBusy = {}
  /\ scanQueued = FALSE
  /\ scanCount = 0
  /\ scanOflow = 0
  /\ cb = [p \in Prio |-> "idle"]
  /\ todo = [p \in Prio |-> {}]
  /\ seen = [r \in Rec |-> 0]
  /\ missed = {}

\* EPICS scanIoRequest(): queue a callback for each priority whose list is
\* not empty and return the mask of those that were queued.
scanIoRequest(idle) ==
  \E queued \in SUBSET Attached :
    /\ QueueFills \/ queued = Attached
    /\ scanBusy' = queued
    /\ cb' = [p \in Prio |-> IF p \in queued THEN "queued" ELSE idle[p]]
    /\ missed' = Attached \ queued

\* Block::requestScan(), called with no pass in progress ...
requestScanNow(idle) ==
  /\ scanIoRequest(idle)
  /\ scanCount' = scanCount + 1

\* Mutant: a request that comes too early is counted and forgotten.
requestScanLater_Forgets ==
  /\ scanOflow' = scanOflow + 1
  /\ UNCHANGED <<scanBusy, scanQueued, scanCount, cb, missed>>

\* ... and while a previous pass is in progress.
requestScanLater ==
  /\ scanQueued' = TRUE
  /\ scanOflow' = scanOflow + 1
  /\ UNCHANGED <<scanBusy, scanCount, cb, missed>>

\* The receiving thread stores a new body and requests a scan.
Receive ==
  /\ data < MaxMsg
  /\ data' = data + 1
  /\ IF scanBusy # {}
     THEN requestScanLater
     ELSE requestScanNow(cb) /\ UNCHANGED <<scanQueued, scanOflow>>
  /\ UNCHANGED <<todo, seen>>

\* A callback thread takes the queued callback and starts on the scan list.
CallbackStart(p) ==
  /\ cb[p] = "queued"
  /\ cb' = [cb EXCEPT ![p] = "scanning"]
  /\ todo' = [todo EXCEPT ![p] = ScanList(p)]
  /\ UNCHANGED <<data, scanBusy, scanQueued, scanCount, scanOflow, seen, missed>>

\* The pass processes one record, whose device support copies block->data
\* with the lock held.
ProcessRecord(p, r) ==
  /\ cb[p] = "scanning"
  /\ r \in todo[p]
  /\ seen' = [seen EXCEPT ![r] = data]
  /\ todo' = [todo EXCEPT ![p] = @ \ {r}]
  /\ UNCHANGED <<data, scanBusy, scanQueued, scanCount, scanOflow, cb, missed>>

\* Mutant: every bit of scanBusy is cleared, not only p's.
scanned_ClearsAll(p) ==
  /\ cb[p] = "scanning"
  /\ todo[p] = {}
  /\ scanBusy' = {}
  /\ cb' = [cb EXCEPT ![p] = "idle"]
  /\ UNCHANGED <<data, scanQueued, scanCount, scanOflow, todo, seen, missed>>

\* Mutant: the owed scan is requested before the other priorities are done.
scanned_Impatient(p) ==
  /\ cb[p] = "scanning"
  /\ todo[p] = {}
  /\ IF scanQueued
     THEN /\ scanQueued' = FALSE
          /\ requestScanNow([cb EXCEPT ![p] = "idle"])
     ELSE /\ scanBusy' = scanBusy \ {p}
          /\ cb' = [cb EXCEPT ![p] = "idle"]
          /\ UNCHANGED <<scanQueued, scanCount, missed>>
  /\ UNCHANGED <<data, scanOflow, todo, seen>>

\* Block::scanned(): the pass of priority p is over.  When it was the last
\* one and a message arrived meanwhile, the next scan is requested at once
\* (requestScan() then finds scanBusy clear).
scanned(p) ==
  /\ cb[p] = "scanning"
  /\ todo[p] = {}
  /\ IF scanBusy \ {p} = {} /\ scanQueued
     THEN /\ scanQueued' = FALSE
          /\ requestScanNow([cb EXCEPT ![p] = "idle"])
     ELSE /\ scanBusy' = scanBusy \ {p}
          /\ cb' = [cb EXCEPT ![p] = "idle"]
          /\ UNCHANGED <<scanQueued, scanCount, missed>>
  /\ UNCHANGED <<data, scanOflow, todo, seen>>

Callback(p) ==
  \/ CallbackStart(p)
  \/ \E r \in Rec : ProcessRecord(p, r)
  \/ scanned(p)

Next ==
  \/ Receive
  \/ \E p \in Prio : Callback(p)

Spec == Init /\ [][Next]_vars

\* EPICS's callback threads run whatever is queued.
FairSpec == Spec /\ \A p \in Prio : WF_vars(Callback(p))

----------------------------------------------------------------------------
\* Types of the variables; scanBusy is the mask of Block::scanBusy.
TypeOK ==
  /\ data \in Nat
  /\ scanBusy \in SUBSET Prio
  /\ scanQueued \in BOOLEAN
  /\ scanCount \in Nat
  /\ scanOflow \in Nat
  /\ cb \in [Prio -> {"idle", "queued", "scanning"}]
  /\ todo \in [Prio -> SUBSET Rec]
  /\ seen \in [Rec -> Nat]
  /\ missed \in SUBSET Prio

\* assert(self->scanBusy & (1<<prio)) in scanned() never fires, and no bit of
\* scanBusy is left set without a callback that will clear it (a stray bit
\* would turn every later requestScan() into an overflow for ever).
BusyMatchesCallbacks == \A p \in Prio : p \in scanBusy <=> cb[p] # "idle"

\* A scan is owed only while one is running, so scanned() will pay it.
OwedOnlyWhileBusy == scanQueued => scanBusy # {}

\* No update is lost by coalescing: once the block is quiet every record has
\* read the newest message, unless EPICS itself refused its callback.
QuietMeansFresh ==
  scanBusy = {} => \A r \in Rec : PrioOf[r] \in missed \/ seen[r] = data

\* Records are never processed more often than messages arrive: every pass,
\* the ones scanned() starts included, answers a message of its own, and
\* every message was either answered by a pass or counted as an overflow.
PassesBoundedByMessages ==
  /\ scanCount + (IF scanQueued THEN 1 ELSE 0) <= data
  /\ data <= scanCount + scanOflow

\* Passes do not overlap: a pass is requested only when every callback of the
\* one before has run, so that no record is processed by two passes at once.
OnePassAtATime ==
  [][scanCount' # scanCount =>
       \A p \in Prio : cb[p] # "idle" => cb[p] = "scanning" /\ scanBusy = {p} /\ todo[p] = {}]_vars

\* The inductive strengthening of QuietMeansFresh: a record that has not read
\* the newest message is still going to, in this pass or in the one owed.
FreshOrScheduled ==
  \A r \in Rec :
    \/ seen[r] = data
    \/ scanQueued
    \/ PrioOf[r] \in missed
    \/ cb[PrioOf[r]] = "queued"
    \/ cb[PrioOf[r]] = "scanning" /\ r \in todo[PrioOf[r]]

\* Every message, or a newer one, is eventually read by every record, unless
\* EPICS refused the record's callback.
EventuallyRead ==
  \A r \in Rec, n \in 1..MaxMsg :
    (data = n) ~> (seen[r] >= n \/ PrioOf[r] \in missed)
=============================================================================
