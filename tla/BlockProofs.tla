---------------------------- MODULE BlockProofs ----------------------------
(***************************************************************************)
(* Proofs about the blocks of a PSC: their I/O Intr scanning (BlockScan)   *)
(* for every set of priorities and records and any number of messages, and *)
(* the device support on them (RegBlock) for every size, offset and step,  *)
(* however the messages lie in memory.                                     *)
(*                                                                         *)
(* QuietMeansFresh is not inductive: that scanBusy is empty at the end of  *)
(* a pass says nothing of the messages that came during the pass.  What is *)
(* carried through is FreshOrScheduled, which names for every record that  *)
(* is behind the mechanism that will still serve it, together with the     *)
(* agreement of scanBusy with EPICS's callbacks.                           *)
(*                                                                         *)
(* That RegBlock implements FlatBlock rests on what the operations of      *)
(* dbuffer compute, by induction over the turns of their loops: copy()     *)
(* passes the next bytes of the whole (CopyIs), from which follow copyin() *)
(* (CopyInIs), copyout_shape() (ShapedIs) and the waveform (WaveIs).       *)
(* SettingsKept needs that a setting is in the block whole (Kept).         *)
(***************************************************************************)
EXTENDS BlockScan, RegBlock, WellFoundedInduction, TLAPS

----------------------------------------------------------------------------
\* I/O Intr scanning

\* The inductive invariant.
IInv ==
  /\ TypeOK
  /\ BusyMatchesCallbacks
  /\ OwedOnlyWhileBusy
  /\ FreshOrScheduled
  /\ PassesBoundedByMessages

\* The constructor Block::Block() establishes the invariant.
LEMMA InitIInv == Init => IInv
<1> SUFFICES ASSUME Init PROVE IInv
  OBVIOUS
<1> USE BlockScanAssumption DEF Init
<1>1. TypeOK
  BY DEF TypeOK
<1>2. BusyMatchesCallbacks /\ OwedOnlyWhileBusy
  BY DEF BusyMatchesCallbacks, OwedOnlyWhileBusy
<1>3. FreshOrScheduled
  BY DEF FreshOrScheduled
<1>4. PassesBoundedByMessages
  BY DEF PassesBoundedByMessages
<1> QED
  BY <1>1, <1>2, <1>3, <1>4 DEF IInv

\* What requestScan() leaves behind when no pass is in progress, given the
\* state of the callbacks once the finished ones are idle: every attached
\* priority has its callback queued, or was refused one.
LEMMA RequestScanNow ==
  ASSUME TypeOK,
         NEW idle \in [Prio -> {"idle", "queued", "scanning"}],
         \A p \in Prio : idle[p] = "idle",
         requestScanNow(idle)
  PROVE  /\ scanBusy' \in SUBSET Prio
         /\ scanCount' = scanCount + 1
         /\ cb' \in [Prio -> {"idle", "queued", "scanning"}]
         /\ missed' \in SUBSET Prio
         /\ \A p \in Prio : p \in scanBusy' <=> cb'[p] # "idle"
         /\ \A r \in Rec : PrioOf[r] \in missed' \/ cb'[PrioOf[r]] = "queued"
  BY BlockScanAssumption DEF requestScanNow, scanIoRequest, Attached, TypeOK

\* Receive preserves the invariant.
LEMMA ReceiveIInv == IInv /\ Receive => IInv'
<1> SUFFICES ASSUME IInv, Receive PROVE IInv'
  OBVIOUS
<1> USE BlockScanAssumption DEF IInv
<1>1. CASE scanBusy # {}
  <2>1. requestScanLater /\ data' = data + 1 /\ UNCHANGED <<todo, seen>>
    BY <1>1 DEF Receive
  <2> QED
    BY <1>1, <2>1 DEF requestScanLater, TypeOK, BusyMatchesCallbacks,
       OwedOnlyWhileBusy, FreshOrScheduled, PassesBoundedByMessages
<1>2. CASE scanBusy = {}
  <2>1. /\ requestScanNow(cb)
        /\ data' = data + 1
        /\ UNCHANGED <<scanQueued, scanOflow, todo, seen>>
    BY <1>2 DEF Receive
  <2>2. \A p \in Prio : cb[p] = "idle"
    BY <1>2 DEF BusyMatchesCallbacks
  <2>3. /\ scanBusy' \in SUBSET Prio
        /\ scanCount' = scanCount + 1
        /\ cb' \in [Prio -> {"idle", "queued", "scanning"}]
        /\ missed' \in SUBSET Prio
        /\ \A p \in Prio : p \in scanBusy' <=> cb'[p] # "idle"
        /\ \A r \in Rec : PrioOf[r] \in missed' \/ cb'[PrioOf[r]] = "queued"
    BY <2>1, <2>2, RequestScanNow DEF TypeOK
  <2>4. scanQueued = FALSE /\ scanQueued' = FALSE
    BY <1>2, <2>1 DEF OwedOnlyWhileBusy, TypeOK
  <2>5. TypeOK'
    BY <2>1, <2>3, <2>4 DEF TypeOK
  <2>6. BusyMatchesCallbacks' /\ OwedOnlyWhileBusy' /\ FreshOrScheduled'
    BY <2>3, <2>4 DEF BusyMatchesCallbacks, OwedOnlyWhileBusy, FreshOrScheduled
  <2>7. PassesBoundedByMessages'
    BY <2>1, <2>3, <2>4 DEF PassesBoundedByMessages, TypeOK
  <2> QED
    BY <2>5, <2>6, <2>7
<1> QED
  BY <1>1, <1>2

\* scanned() preserves the invariant.
LEMMA ScannedIInv ==
  ASSUME IInv, NEW p \in Prio, scanned(p)
  PROVE  IInv'
<1> USE BlockScanAssumption DEF IInv
<1> DEFINE idle == [cb EXCEPT ![p] = "idle"]
<1>0. /\ cb[p] = "scanning" /\ todo[p] = {}
      /\ UNCHANGED <<data, scanOflow, todo, seen>>
  BY DEF scanned
<1>1. CASE scanBusy \ {p} = {} /\ scanQueued
  <2>1. scanQueued' = FALSE /\ requestScanNow(idle)
    BY <1>1 DEF scanned
  <2>2. /\ idle \in [Prio -> {"idle", "queued", "scanning"}]
        /\ \A q \in Prio : idle[q] = "idle"
    BY <1>1 DEF BusyMatchesCallbacks, TypeOK
  <2>3. /\ scanBusy' \in SUBSET Prio
        /\ scanCount' = scanCount + 1
        /\ cb' \in [Prio -> {"idle", "queued", "scanning"}]
        /\ missed' \in SUBSET Prio
        /\ \A q \in Prio : q \in scanBusy' <=> cb'[q] # "idle"
        /\ \A r \in Rec : PrioOf[r] \in missed' \/ cb'[PrioOf[r]] = "queued"
    <3> HIDE DEF idle
    <3> QED
      BY <2>1, <2>2, RequestScanNow
  <2>4. scanCount' \in Nat /\ scanQueued' = FALSE
    <3>1. scanCount' \in Nat
      BY <2>3 DEF TypeOK
    <3> QED
      BY <3>1, <2>1
  <2>5. TypeOK'
    BY <1>0, <2>3, <2>4 DEF TypeOK
  <2>6. BusyMatchesCallbacks' /\ OwedOnlyWhileBusy' /\ FreshOrScheduled'
    BY <2>3, <2>4 DEF BusyMatchesCallbacks, OwedOnlyWhileBusy, FreshOrScheduled
  <2>7. PassesBoundedByMessages'
    BY <1>0, <1>1, <2>3, <2>4 DEF PassesBoundedByMessages, TypeOK
  <2> QED
    BY <2>5, <2>6, <2>7
<1>2. CASE ~(scanBusy \ {p} = {} /\ scanQueued)
  <2>1. /\ scanBusy' = scanBusy \ {p}
        /\ cb' = idle
        /\ UNCHANGED <<scanQueued, scanCount, missed>>
    BY <1>2 DEF scanned
  <2>2. TypeOK' /\ BusyMatchesCallbacks'
    BY <1>0, <2>1 DEF TypeOK, BusyMatchesCallbacks
  <2>3. OwedOnlyWhileBusy'
    BY <1>2, <2>1 DEF OwedOnlyWhileBusy
  <2>4. FreshOrScheduled'
    BY <1>0, <2>1 DEF FreshOrScheduled, TypeOK
  <2>5. PassesBoundedByMessages'
    BY <1>0, <2>1 DEF PassesBoundedByMessages
  <2> QED
    BY <2>2, <2>3, <2>4, <2>5
<1> QED
  BY <1>1, <1>2

\* Every step preserves the invariant.
LEMMA NextIInv == IInv /\ [Next]_vars => IInv'
<1> SUFFICES ASSUME IInv, [Next]_vars PROVE IInv'
  OBVIOUS
<1> USE BlockScanAssumption DEF IInv
<1>1. CASE Receive
  BY <1>1, ReceiveIInv
<1>2. ASSUME NEW p \in Prio, CallbackStart(p) PROVE IInv'
  BY <1>2 DEF CallbackStart, ScanList, TypeOK, BusyMatchesCallbacks,
     OwedOnlyWhileBusy, FreshOrScheduled, PassesBoundedByMessages
<1>3. ASSUME NEW p \in Prio, NEW r \in Rec, ProcessRecord(p, r) PROVE IInv'
  BY <1>3 DEF ProcessRecord, TypeOK, BusyMatchesCallbacks,
     OwedOnlyWhileBusy, FreshOrScheduled, PassesBoundedByMessages
<1>4. ASSUME NEW p \in Prio, scanned(p) PROVE IInv'
  BY <1>4, ScannedIInv
<1>5. CASE UNCHANGED vars
  BY <1>5 DEF vars, TypeOK, BusyMatchesCallbacks, OwedOnlyWhileBusy,
     FreshOrScheduled, PassesBoundedByMessages
<1> QED
  BY <1>1, <1>2, <1>3, <1>4, <1>5 DEF Next, Callback

\* IInv is an invariant of the block's scanning.
LEMMA SpecIInv == Spec => []IInv
  BY InitIInv, NextIInv, PTL DEF Spec

\* The variables keep their types.
THEOREM SpecTypeOK == Spec => []TypeOK
  BY SpecIInv, PTL DEF IInv

\* The assertion in scanned() holds, and scanBusy never holds a bit that no
\* callback will clear: requestScan() cannot be shut out for ever.
THEOREM SpecBusyMatchesCallbacks == Spec => []BusyMatchesCallbacks
  BY SpecIInv, PTL DEF IInv

\* Coalescing the requests that arrive during a pass loses no update: when the
\* block is quiet, every record whose callback EPICS accepted has read the
\* newest message.
THEOREM SpecQuietMeansFresh == Spec => []QuietMeansFresh
<1>1. IInv => QuietMeansFresh
  BY BlockScanAssumption DEF IInv, TypeOK, BusyMatchesCallbacks,
     OwedOnlyWhileBusy, FreshOrScheduled, QuietMeansFresh
<1> QED
  BY <1>1, SpecIInv, PTL

\* Records are processed at most once per message, and every message is
\* accounted for by a pass or by the overflow counter.
THEOREM SpecPassesBounded == Spec => []PassesBoundedByMessages
  BY SpecIInv, PTL DEF IInv

\* A pass is requested only when the one before is over.
THEOREM SpecOnePassAtATime == Spec => OnePassAtATime
<1> DEFINE A == scanCount' # scanCount =>
                  \A p \in Prio : cb[p] # "idle" =>
                     cb[p] = "scanning" /\ scanBusy = {p} /\ todo[p] = {}
<1>1. IInv /\ [Next]_vars => [A]_vars
  <2> SUFFICES ASSUME IInv, Next, scanCount' # scanCount PROVE A
    OBVIOUS
  <2> USE DEF IInv
  <2>1. CASE Receive
    <3>1. scanBusy = {}
      BY <2>1 DEF Receive, requestScanLater
    <3> QED
      BY <3>1 DEF BusyMatchesCallbacks
  <2>2. ASSUME NEW q \in Prio, scanned(q) PROVE A
    <3>1. cb[q] = "scanning" /\ todo[q] = {} /\ scanBusy \ {q} = {}
      BY <2>2 DEF scanned
    <3> QED
      BY <3>1 DEF BusyMatchesCallbacks
  <2> QED
    BY <2>1, <2>2 DEF Next, Callback, CallbackStart, ProcessRecord
<1> QED
  BY <1>1, SpecIInv, PTL DEF Spec, OnePassAtATime

----------------------------------------------------------------------------
\* Induction and arithmetic

\* A set of numbers has a least one.
LEMMA LeastNat ==
  ASSUME NEW S, S \subseteq Nat, S # {}
  PROVE  \E x \in S : \A y \in S : x <= y
<1>1. \E x \in S : \A y \in S : ~(<<y, x>> \in OpToRel(<, Nat))
  BY NatLessThanWellFounded, WFMin, Zenon
<1>2. \A x, y \in S : y < x => <<y, x>> \in OpToRel(<, Nat)
  BY DEF OpToRel
<1>3. \E x \in S : \A y \in S : ~(y < x)
  BY <1>1, <1>2, Zenon
<1> QED
  BY <1>3

\* Induction: a set of numbers with 0 and the successor of each has them all.
LEMMA AllNat ==
  ASSUME NEW B, B \subseteq Nat, 0 \in B, \A d \in B : d + 1 \in B
  PROVE  \A n \in Nat : n \in B
<1> SUFFICES ASSUME NEW n \in Nat, n \notin B PROVE FALSE
  OBVIOUS
<1> DEFINE C == Nat \ B
<1>1. PICK d \in C : \A e \in C : d <= e
  BY LeastNat
<1>2. d \in Nat /\ d # 0 /\ d - 1 \in Nat /\ (d - 1) + 1 = d /\ ~(d <= d - 1)
  OBVIOUS
<1>3. d - 1 \in B
  BY <1>1, <1>2
<1> QED
  BY <1>2, <1>3

\* Min of two numbers, as actual in copyout_shape() and len in read_si() are.
LEMMA MinIs ==
  ASSUME NEW a \in Nat, NEW b \in Nat
  PROVE  Min({a, b}) = IF a <= b THEN a ELSE b
<1> DEFINE m == IF a <= b THEN a ELSE b
<1>1. m \in {a, b} /\ \A y \in {a, b} : m <= y
  OBVIOUS
<1>2. \A x \in {a, b} : (\A y \in {a, b} : x <= y) => x = m
  OBVIOUS
<1> HIDE DEF m
<1>3. Min({a, b}) \in {a, b} /\ \A y \in {a, b} : Min({a, b}) <= y
  BY <1>1 DEF Min
<1> QED
  BY <1>2, <1>3 DEF m

----------------------------------------------------------------------------
\* The recursive functions of the model, unfolded

\* FlattenSeq() is a recursive function.  A function that satisfies its recursion
\* exists: one that does so up to d, for every d, by induction.
FlatTurn(S, g) == [i \in 1..Len(S) |-> IF i = 1 THEN S[i] ELSE g[i-1] \o S[i]]

\* There is a function that satisfies the recursion of FlattenSeq().
LEMMA FlatExists ==
  ASSUME NEW S, Len(S) \in Nat
  PROVE  \E g : g = FlatTurn(S, g)
<1> DEFINE B == {d \in Nat : \E g : \A i \in 1..Len(S) : i <= d => g[i] = FlatTurn(S, g)[i]}
<1>1. 0 \in B
  <2>1. \A g : \A i \in 1..Len(S) : i <= 0 => FlatTurn(S, g)[i] = FlatTurn(S, FlatTurn(S, g))[i]
    BY DEF FlatTurn
  <2> QED
    BY <2>1, Zenon
<1>2. ASSUME NEW d \in B PROVE d + 1 \in B
  <2>1. d \in Nat /\ d + 1 \in Nat
    OBVIOUS
  <2>2. PICK g : \A i \in 1..Len(S) : i <= d => g[i] = FlatTurn(S, g)[i]
    OBVIOUS
  <2>3. \A i \in 1..Len(S) : i <= d + 1 => FlatTurn(S, g)[i] = FlatTurn(S, FlatTurn(S, g))[i]
    BY <2>1, <2>2 DEF FlatTurn
  <2> QED
    BY <2>1, <2>3, Zenon
<1> HIDE DEF B
<1>3. Len(S) \in B
  BY <1>1, <1>2, AllNat DEF B
<1>4. PICK g : \A i \in 1..Len(S) : i <= Len(S) => g[i] = FlatTurn(S, g)[i]
  BY <1>3 DEF B
<1> DEFINE h == FlatTurn(S, g)
<1>5. \A i \in 1..Len(S) : i # 1 => g[i-1] = h[i-1]
  BY <1>4
<1> HIDE DEF h
<1>6. FlatTurn(S, g) = FlatTurn(S, h)
  BY <1>5, Zenon DEF FlatTurn
<1> QED
  BY <1>6 DEF h

\* What the recursion says of such a function.
FlatSteps(S, g) == g[1] = S[1] /\ \A m \in 1..Len(S) : m # 1 => g[m] = g[m - 1] \o S[m]

\* FlattenSeq() of some pieces is the last value of such a function.
LEMMA FlattenIs ==
  ASSUME NEW S, Len(S) \in Nat, Len(S) # 0
  PROVE  \E g : FlattenSeq(S) = g[Len(S)] /\ FlatSteps(S, g)
<1> DEFINE f == CHOOSE g : g = FlatTurn(S, g)
<1>1. f = FlatTurn(S, f)
  BY FlatExists, Zenon
<1>2. FlattenSeq(S) = f[Len(S)]
  BY Zenon DEF FlattenSeq, FlatTurn
<1> HIDE DEF f
<1> DEFINE h == FlatTurn(S, f)
<1>3. \A m \in 1..Len(S) : h[m] = IF m = 1 THEN S[m] ELSE f[m - 1] \o S[m]
  BY DEF FlatTurn
<1> HIDE DEF h
<1>4. f = h
  BY <1>1, Zenon DEF h
<1>5. 1 \in 1..Len(S)
  OBVIOUS
<1>6. \A m \in 1..Len(S) : f[m] = IF m = 1 THEN S[m] ELSE f[m - 1] \o S[m]
  BY <1>3, <1>4, Zenon
<1>7. FlatSteps(S, f)
  BY <1>5, <1>6, Zenon DEF FlatSteps
<1> QED
  BY <1>2, <1>7, Zenon

\* The same for the loop of copy().
CopyTurn(S, ptr, count, g) ==
  [t \in 0..Len(S) |->
        IF t = 0 THEN [stride |-> ptr.stride, off |-> ptr.off, n |-> count, passed |-> <<>>]
        ELSE turn(S, g[t - 1])]

\* copy() is the state of its loop after as many turns as there are pieces.
LEMMA CopyIsLoop ==
  ASSUME NEW S, NEW ptr, NEW count
  PROVE  copy(S, ptr, count) = (CHOOSE g : g = CopyTurn(S, ptr, count, g))[Len(S)]
  BY Zenon DEF copy, CopyTurn

\* There is a function that satisfies the recursion of copy().
LEMMA CopyExists ==
  ASSUME NEW S, NEW ptr, NEW count, Len(S) \in Nat
  PROVE  \E g : g = CopyTurn(S, ptr, count, g)
<1> DEFINE B == {d \in Nat : \E g : \A i \in 0..Len(S) : i <= d => g[i] = CopyTurn(S, ptr, count, g)[i]}
<1>1. 0 \in B
  <2>1. \A g : \A i \in 0..Len(S) : i <= 0 =>
          CopyTurn(S, ptr, count, g)[i] = CopyTurn(S, ptr, count, CopyTurn(S, ptr, count, g))[i]
    BY DEF CopyTurn
  <2> QED
    BY <2>1, Zenon
<1>2. ASSUME NEW d \in B PROVE d + 1 \in B
  <2>1. d \in Nat /\ d + 1 \in Nat
    OBVIOUS
  <2>2. PICK g : \A i \in 0..Len(S) : i <= d => g[i] = CopyTurn(S, ptr, count, g)[i]
    OBVIOUS
  <2>3. \A i \in 0..Len(S) :
          i <= d + 1 => CopyTurn(S, ptr, count, g)[i] = CopyTurn(S, ptr, count, CopyTurn(S, ptr, count, g))[i]
    BY <2>1, <2>2 DEF CopyTurn
  <2> QED
    BY <2>1, <2>3, Zenon
<1> HIDE DEF B
<1>3. Len(S) \in B
  BY <1>1, <1>2, AllNat DEF B
<1>4. PICK g : \A i \in 0..Len(S) : i <= Len(S) => g[i] = CopyTurn(S, ptr, count, g)[i]
  BY <1>3 DEF B
<1> DEFINE h == CopyTurn(S, ptr, count, g)
<1>5. \A i \in 0..Len(S) : i # 0 => g[i - 1] = h[i - 1]
  BY <1>4
<1> HIDE DEF h
<1>6. CopyTurn(S, ptr, count, g) = CopyTurn(S, ptr, count, h)
  BY <1>5, Zenon DEF CopyTurn
<1> QED
  BY <1>6 DEF h

\* The same for the stride_ptr that copyout_shape() moves from element to element.
ShapeTurn(S, offset, esize, eskip, actual, g) ==
  [e \in 1..actual |-> IF e = 1 THEN copy(S, start, offset)
             ELSE copy(S, copy(S, g[e - 1], esize), eskip)]
\* Where copyout_shape() finds each element.
ShapePtr(S, offset, esize, eskip, actual) == CHOOSE g : g = ShapeTurn(S, offset, esize, eskip, actual, g)

\* That function satisfies its recursion.
LEMMA ShapeExists ==
  ASSUME NEW S, NEW offset, NEW esize, NEW eskip, NEW actual \in Nat
  PROVE  ShapePtr(S, offset, esize, eskip, actual) =
           ShapeTurn(S, offset, esize, eskip, actual, ShapePtr(S, offset, esize, eskip, actual))
<1> DEFINE B == {d \in Nat : \E g : \A i \in 1..actual : i <= d =>
                          g[i] = ShapeTurn(S, offset, esize, eskip, actual, g)[i]}
<1>1. 0 \in B
  <2>1. \A g : \A i \in 1..actual : i <= 0 =>
          ShapeTurn(S, offset, esize, eskip, actual, g)[i]
            = ShapeTurn(S, offset, esize, eskip, actual, ShapeTurn(S, offset, esize, eskip, actual, g))[i]
    BY DEF ShapeTurn
  <2> QED
    BY <2>1, Zenon
<1>2. ASSUME NEW d \in B PROVE d + 1 \in B
  <2>1. d \in Nat /\ d + 1 \in Nat
    OBVIOUS
  <2>2. PICK g : \A i \in 1..actual : i <= d => g[i] = ShapeTurn(S, offset, esize, eskip, actual, g)[i]
    OBVIOUS
  <2>3. \A i \in 1..actual :
          i <= d + 1 => ShapeTurn(S, offset, esize, eskip, actual, g)[i]
                          = ShapeTurn(S, offset, esize, eskip, actual, ShapeTurn(S, offset, esize, eskip, actual, g))[i]
    BY <2>1, <2>2 DEF ShapeTurn
  <2> QED
    BY <2>1, <2>3, Zenon
<1> HIDE DEF B
<1>3. actual \in B
  BY <1>1, <1>2, AllNat DEF B
<1>4. PICK g : \A i \in 1..actual : i <= actual => g[i] = ShapeTurn(S, offset, esize, eskip, actual, g)[i]
  BY <1>3 DEF B
<1> DEFINE h == ShapeTurn(S, offset, esize, eskip, actual, g)
<1>5. \A i \in 1..actual : i # 1 => g[i - 1] = h[i - 1]
  BY <1>4
<1> HIDE DEF h
<1>6. ShapeTurn(S, offset, esize, eskip, actual, g) = ShapeTurn(S, offset, esize, eskip, actual, h)
  BY <1>5, Zenon DEF ShapeTurn
<1>7. \E f : f = ShapeTurn(S, offset, esize, eskip, actual, f)
  BY <1>6 DEF h
<1> QED
  BY <1>7, Zenon DEF ShapePtr

\* copyout_shape() in terms of it.
LEMMA ShapeIs ==
  ASSUME NEW S, NEW offset, NEW esize, NEW eskip, NEW ecount
  PROVE  copyout_shape(S, offset, esize, eskip, ecount) =
    IF ecount = 0 \/ offset >= size(S) THEN <<>>
  ELSE LET actual == Min({(size(S) - offset + eskip) \div (esize + eskip), ecount})
           ptr == ShapePtr(S, offset, esize, eskip, actual) IN
         [e \in 1..actual |-> out(S, copy(S, ptr[e], esize).passed)]
  BY Zenon DEF copyout_shape, ShapeTurn, ShapePtr

\* The same for the loop of read_wf_real(), which runs from the last element down.
ExpandTurn(mem, nelem, g) ==
  [i \in 1..nelem + 1 |-> IF i > nelem THEN mem
        ELSE put(g[i + 1], (i - 1) * DblSize, Flat!double(Reverse(SubSeq(g[i + 1], (i - 1) * WfSize + 1, i * WfSize))))]
\* There is a function that satisfies the recursion of expand.
LEMMA ExpandExists ==
  ASSUME NEW mem, NEW nelem \in Nat
  PROVE  \E g : g = ExpandTurn(mem, nelem, g)
<1> DEFINE B == {d \in Nat : \E g : \A i \in 1..nelem + 1 : (nelem + 1 - i) <= d =>
                          g[i] = ExpandTurn(mem, nelem, g)[i]}
<1>1. 0 \in B
  <2>1. \A g : \A i \in 1..nelem + 1 : (nelem + 1 - i) <= 0 =>
          ExpandTurn(mem, nelem, g)[i] = ExpandTurn(mem, nelem, ExpandTurn(mem, nelem, g))[i]
    BY DEF ExpandTurn
  <2> QED
    BY <2>1, Zenon
<1>2. ASSUME NEW d \in B PROVE d + 1 \in B
  <2>1. d \in Nat /\ d + 1 \in Nat
    OBVIOUS
  <2>2. PICK g : \A i \in 1..nelem + 1 : (nelem + 1 - i) <= d => g[i] = ExpandTurn(mem, nelem, g)[i]
    OBVIOUS
  <2>3. \A i \in 1..nelem + 1 : (nelem + 1 - i) <= d + 1 =>
          ExpandTurn(mem, nelem, g)[i] = ExpandTurn(mem, nelem, ExpandTurn(mem, nelem, g))[i]
    BY <2>1, <2>2 DEF ExpandTurn
  <2> QED
    BY <2>1, <2>3, Zenon
<1> HIDE DEF B
<1>3. nelem + 1 \in B
  BY <1>1, <1>2, AllNat DEF B
<1>4. PICK g : \A i \in 1..nelem + 1 : (nelem + 1 - i) <= nelem + 1 => g[i] = ExpandTurn(mem, nelem, g)[i]
  BY <1>3 DEF B
<1> DEFINE h == ExpandTurn(mem, nelem, g)
<1>5. \A i \in 1..nelem + 1 : ~(i > nelem) => g[i + 1] = h[i + 1]
  BY <1>4
<1> HIDE DEF h
<1>6. ExpandTurn(mem, nelem, g) = ExpandTurn(mem, nelem, h)
  BY <1>5, Zenon DEF ExpandTurn
<1> QED
  BY <1>6 DEF h

\* expand is the value of such a function at the first element.
LEMMA ExpandIs ==
  ASSUME NEW mem, NEW nelem
  PROVE  expand(mem, nelem) = (CHOOSE g : g = ExpandTurn(mem, nelem, g))[1]
  BY Zenon DEF expand, ExpandTurn

\* The same for Pieces.  The first n bytes, the last piece being one of any length.
Cuts(bytes, g, n) == UNION {{Append(S, SubSeq(bytes, m + 1, n)) : S \in g[m]} : m \in 0..n - 1}

\* The recursion of Pieces.
PieceTurn(bytes, g) ==
  [n \in 0..Len(bytes) |-> IF n = 0 THEN {<<>>}
        ELSE Cuts(bytes, g, n)]
\* x is one of the ways to cut the first n bytes.
IsCut(bytes, g, n, x) == \E m \in 0..n - 1 : \E S \in g[m] : x = Append(S, SubSeq(bytes, m + 1, n))

\* Cuts are those ways.
LEMMA CutsAre ==
  ASSUME NEW bytes, NEW n, NEW g, NEW x
  PROVE  x \in Cuts(bytes, g, n) <=> IsCut(bytes, g, n, x)
<1> DEFINE E(m) == {Append(S, SubSeq(bytes, m + 1, n)) : S \in g[m]}
<1>1. Cuts(bytes, g, n) = UNION {E(m) : m \in 0..n - 1}
  BY Zenon DEF Cuts
<1>2. \A m : x \in E(m) <=> \E S \in g[m] : x = Append(S, SubSeq(bytes, m + 1, n))
  OBVIOUS
<1> HIDE DEF E
<1>3. x \in UNION {E(m) : m \in 0..n - 1} <=> \E m \in 0..n - 1 : x \in E(m)
  OBVIOUS
<1> QED
  BY <1>1, <1>2, <1>3, Zenon DEF IsCut

\* The cuts of n bytes depend on the cuts of fewer only.
LEMMA PieceSame ==
  ASSUME NEW bytes, NEW n \in Nat, NEW g, NEW h, \A m \in 0..n - 1 : g[m] = h[m]
  PROVE  Cuts(bytes, g, n) = Cuts(bytes, h, n)
<1>1. ASSUME NEW x PROVE x \in Cuts(bytes, g, n) <=> x \in Cuts(bytes, h, n)
  <2>1. IsCut(bytes, g, n, x) <=> IsCut(bytes, h, n, x)
    BY Zenon DEF IsCut
  <2> QED
    BY <2>1, CutsAre
<1> QED
  BY <1>1, Zenon

\* There is a function that satisfies the recursion of Pieces.
LEMMA PieceExists ==
  ASSUME NEW bytes, Len(bytes) \in Nat
  PROVE  \E g : g = PieceTurn(bytes, g)
<1> DEFINE B == {d \in Nat : \E g : \A i \in 0..Len(bytes) : i <= d => g[i] = PieceTurn(bytes, g)[i]}
<1>1. 0 \in B
  <2>1. \A g : \A i \in 0..Len(bytes) : i <= 0 => PieceTurn(bytes, g)[i] = PieceTurn(bytes, PieceTurn(bytes, g))[i]
    BY DEF PieceTurn
  <2> QED
    BY <2>1, Zenon
<1>2. ASSUME NEW d \in B PROVE d + 1 \in B
  <2>1. d \in Nat /\ d + 1 \in Nat
    OBVIOUS
  <2>2. PICK g : \A i \in 0..Len(bytes) : i <= d => g[i] = PieceTurn(bytes, g)[i]
    OBVIOUS
  <2> DEFINE h == PieceTurn(bytes, g)
  <2>3. \A i \in 0..Len(bytes) : i <= d + 1 => \A m \in 0..i - 1 : g[m] = h[m]
    BY <2>1, <2>2
  <2> HIDE DEF h
  <2>4. ASSUME NEW i \in 0..Len(bytes), i <= d + 1
        PROVE  PieceTurn(bytes, g)[i] = PieceTurn(bytes, h)[i]
    <3>1. \A m \in 0..i - 1 : g[m] = h[m]
      BY <2>3, <2>4
    <3>2. Cuts(bytes, g, i) = Cuts(bytes, h, i)
      BY <3>1, PieceSame
    <3> QED
      BY <3>2, Zenon DEF PieceTurn
  <2> QED
    BY <2>1, <2>4, Zenon DEF h
<1> HIDE DEF B
<1>3. Len(bytes) \in B
  BY <1>1, <1>2, AllNat DEF B
<1>4. PICK g : \A i \in 0..Len(bytes) : i <= Len(bytes) => g[i] = PieceTurn(bytes, g)[i]
  BY <1>3 DEF B
<1> DEFINE h == PieceTurn(bytes, g)
<1>5. \A i \in 0..Len(bytes) : \A m \in 0..i - 1 : g[m] = h[m]
  BY <1>4
<1> HIDE DEF h
<1>6. \A i \in 0..Len(bytes) :
        Cuts(bytes, g, i) = Cuts(bytes, h, i)
  BY <1>5, PieceSame
<1>7. PieceTurn(bytes, g) = PieceTurn(bytes, h)
  BY <1>6, Zenon DEF PieceTurn
<1> QED
  BY <1>7 DEF h

\* Pieces are the last value of such a function.
LEMMA PiecesIs ==
  ASSUME NEW bytes
  PROVE  Pieces(bytes) = (CHOOSE g : g = PieceTurn(bytes, g))[Len(bytes)]
  BY Zenon DEF Pieces, PieceTurn, Cuts

----------------------------------------------------------------------------
\* Where the pieces of S begin.
Begins(S, beg) ==
  /\ beg \in [1..Len(S) + 1 -> Nat]
  /\ beg[1] = 0
  /\ \A k \in 1..Len(S) : beg[k + 1] = beg[k] + Len(S[k])

\* u is s followed by t.
Join(V, s, t, u) ==
  /\ u \in Seq(V) /\ Len(s) \in Nat /\ Len(t) \in Nat
  /\ Len(u) = Len(s) + Len(t)
  /\ \A i \in 1..Len(s) : u[i] = s[i]
  /\ \A i \in 1..Len(t) : u[Len(s) + i] = t[i]

\* What concatenation does.
LEMMA Joined ==
  ASSUME NEW V, NEW s \in Seq(V), NEW t \in Seq(V)
  PROVE  Join(V, s, t, s \o t)
  BY DEF Join

\* Sequences have a length, and elements of their type.
LEMMA SeqElt ==
  ASSUME NEW V, NEW s \in Seq(V)
  PROVE  Len(s) \in Nat /\ \A i \in 1..Len(s) : s[i] \in V
  OBVIOUS

\* Equal sequences.
LEMMA SeqEqual ==
  ASSUME NEW V, NEW s \in Seq(V), NEW t \in Seq(V), Len(s) = Len(t),
         \A i \in 1..Len(s) : s[i] = t[i]
  PROVE  s = t
  OBVIOUS

\* The first m pieces put together.
Flat1(S, beg, g, m) ==
  /\ Len(g[m]) = beg[m + 1]
  /\ \A k \in 1..m : \A i \in 1..Len(S[k]) :
       beg[k] + i \in 1..beg[m + 1] /\ g[m][beg[k] + i] = S[k][i]

\* Byte i of piece k is byte beg[k] + i of the whole, and the whole ends with the pieces.
LEMMA FlattenAt ==
  ASSUME NEW V, NEW S \in Seq(Seq(V)), NEW beg, Begins(S, beg)
  PROVE  /\ FlattenSeq(S) \in Seq(V) /\ Len(FlattenSeq(S)) = beg[Len(S) + 1]
         /\ \A k \in 1..Len(S) : \A i \in 1..Len(S[k]) :
              beg[k] + i \in 1..beg[Len(S) + 1] /\ FlattenSeq(S)[beg[k] + i] = S[k][i]
<1>1. Len(S) \in Nat /\ \A k \in 1..Len(S) : S[k] \in Seq(V) /\ Len(S[k]) \in Nat
  BY SeqElt
<1>2. CASE Len(S) = 0
  <2>1. S = <<>> /\ FlattenSeq(S) = S
    BY <1>2 DEF FlattenSeq
  <2>2. beg[Len(S) + 1] = 0 /\ ~\E k \in 1..Len(S) : TRUE
    BY <1>2 DEF Begins
  <2>3. <<>> \in Seq(V) /\ Len(<<>>) = 0
    OBVIOUS
  <2>4. FlattenSeq(S) \in Seq(V) /\ Len(FlattenSeq(S)) = 0
    BY <2>1, <2>3, Zenon
  <2> QED
    BY <2>2, <2>4
<1>3. CASE Len(S) # 0
  <2>1. PICK g : FlattenSeq(S) = g[Len(S)] /\ FlatSteps(S, g)
    BY <1>1, <1>3, FlattenIs
  <2>2. g[1] = S[1] /\ \A m \in 1..Len(S) : m # 1 => g[m] = g[m - 1] \o S[m]
    BY <2>1 DEF FlatSteps
  <2>3. \A m \in 1..Len(S) + 1 : beg[m] \in Nat
    BY DEF Begins
  <2> DEFINE B == {d \in Nat : d + 1 <= Len(S) => g[d + 1] \in Seq(V) /\ Flat1(S, beg, g, d + 1)}
  <2>4. 0 \in B
    <3>1. 1 \in 1..Len(S) /\ beg[1] = 0 /\ beg[2] = Len(S[1])
      BY <1>1, <1>3 DEF Begins
    <3> QED
      BY <2>2, <3>1, <1>1 DEF Flat1
  <2>5. ASSUME NEW d \in B PROVE d + 1 \in B
    <3> DEFINE m == d + 1
    <3>1. d \in Nat /\ m \in Nat /\ d + 1 + 1 = m + 1
      OBVIOUS
    <3>2. SUFFICES ASSUME m + 1 <= Len(S) PROVE g[m + 1] \in Seq(V) /\ Flat1(S, beg, g, m + 1)
      BY <3>1
    <3>3. g[m] \in Seq(V) /\ Flat1(S, beg, g, m)
      BY <3>1, <3>2, <1>1
    <3>4. m \in 1..Len(S) /\ m + 1 \in 1..Len(S) /\ m + 1 # 1 /\ (m + 1) - 1 = m
      BY <3>1, <3>2, <1>1
    <3> HIDE DEF m
    <3>5. g[m + 1] = g[m] \o S[m + 1]
      BY <3>4, <2>2
    <3>6. beg[(m + 1) + 1] = beg[m + 1] + Len(S[m + 1]) /\ beg[m + 1] \in Nat /\ beg[(m + 1) + 1] \in Nat
      BY <3>4, <2>3, <1>1 DEF Begins
    <3>7. S[m + 1] \in Seq(V) /\ Len(g[m]) = beg[m + 1]
      BY <3>3, <3>4, <1>1 DEF Flat1
    <3>8. /\ g[m + 1] \in Seq(V) /\ Len(g[m + 1]) = beg[(m + 1) + 1]
          /\ \A i \in 1..beg[m + 1] : g[m + 1][i] = g[m][i]
          /\ \A i \in 1..Len(S[m + 1]) : g[m + 1][beg[m + 1] + i] = S[m + 1][i]
      <4>1. Join(V, g[m], S[m + 1], g[m + 1])
        BY <3>3, <3>5, <3>7, Joined
      <4> QED
        BY <4>1, <3>6, <3>7 DEF Join
    <3>9. ASSUME NEW k \in 1..m + 1, NEW i \in 1..Len(S[k])
          PROVE  beg[k] + i \in 1..beg[(m + 1) + 1] /\ g[m + 1][beg[k] + i] = S[k][i]
      <4>1. CASE k = m + 1
        BY <4>1, <3>6, <3>8, <3>4, <1>1, SMTT(30)
      <4>2. CASE k # m + 1
        <5>1. k \in 1..m
          BY <4>2, <3>1, <3>4
        <5>2. beg[k] + i \in 1..beg[m + 1] /\ g[m][beg[k] + i] = S[k][i]
          BY <5>1, <3>3 DEF Flat1
        <5>3. g[m + 1][beg[k] + i] = S[k][i]
          BY <5>2, <3>8
        <5>4. Len(S[m + 1]) \in Nat
          BY <3>4, <1>1
        <5>5. beg[k] + i \in 1..beg[(m + 1) + 1]
          <6>1. \A b, c \in Nat : \A j \in 1..b : j \in 1..b + c
            OBVIOUS
          <6> QED
            BY <6>1, <5>2, <5>4, <3>6, Zenon
        <5> QED
          BY <5>3, <5>5
      <4> QED
        BY <4>1, <4>2
    <3> QED
      BY <3>8, <3>9 DEF Flat1
  <2> HIDE DEF B
  <2>6. Len(S) - 1 \in Nat /\ (Len(S) - 1) + 1 = Len(S)
    BY <1>1, <1>3
  <2>7. Len(S) - 1 \in B
    BY <2>4, <2>5, <2>6, AllNat DEF B
  <2>8. FlattenSeq(S) \in Seq(V) /\ Flat1(S, beg, g, Len(S))
    BY <2>1, <2>6, <2>7 DEF B
  <2> QED
    BY <2>1, <2>8 DEF Flat1
<1> QED
  BY <1>2, <1>3

\* F is the pieces S laid end to end, piece k from beg[k] on.
Flattens(V, S, beg, F) ==
  /\ F \in Seq(V) /\ Len(F) = beg[Len(S) + 1]
  /\ \A k \in 1..Len(S) : \A i \in 1..Len(S[k]) : F[beg[k] + i] = S[k][i]

\* FlattenAt, as one fact about the whole.
LEMMA FlattenWhole ==
  ASSUME NEW V, NEW S \in Seq(Seq(V)), NEW beg, Begins(S, beg)
  PROVE  Flattens(V, S, beg, FlattenSeq(S))
  BY FlattenAt DEF Flattens

\* The pieces of any dbuffer begin somewhere.
LEMMA BeginsExists ==
  ASSUME NEW V, NEW S \in Seq(Seq(V))
  PROVE  \E beg : Begins(S, beg)
<1>1. Len(S) \in Nat /\ \A k \in 1..Len(S) : S[k] \in Seq(V) /\ Len(S[k]) \in Nat
  BY SeqElt
<1>2. CASE Len(S) = 0
  <2>1. Begins(S, [k \in 1..Len(S) + 1 |-> 0])
    BY <1>2 DEF Begins
  <2> QED
    BY <2>1
<1>3. CASE Len(S) # 0
  <2>1. PICK g : FlattenSeq(S) = g[Len(S)] /\ FlatSteps(S, g)
    BY <1>1, <1>3, FlattenIs
  <2>2. g[1] = S[1] /\ \A m \in 1..Len(S) : m # 1 => g[m] = g[m - 1] \o S[m]
    BY <2>1 DEF FlatSteps
  <2> DEFINE B == {d \in Nat : d + 1 <= Len(S) => g[d + 1] \in Seq(V)}
  <2>3. 0 \in B
    BY <2>2, <1>1
  <2>4. ASSUME NEW d \in B PROVE d + 1 \in B
    <3>1. d \in Nat /\ d + 1 \in Nat
      OBVIOUS
    <3>2. SUFFICES ASSUME (d + 1) + 1 <= Len(S) PROVE g[(d + 1) + 1] \in Seq(V)
      BY <3>1
    <3>3. g[d + 1] \in Seq(V) /\ (d + 1) + 1 \in 1..Len(S) /\ (d + 1) + 1 # 1 /\ ((d + 1) + 1) - 1 = d + 1
      BY <3>1, <3>2, <1>1
    <3>4. g[(d + 1) + 1] = g[d + 1] \o S[(d + 1) + 1]
      BY <3>3, <2>2
    <3>5. Join(V, g[d + 1], S[(d + 1) + 1], g[(d + 1) + 1])
      BY <3>3, <3>4, <1>1, Joined
    <3> QED
      BY <3>5 DEF Join
  <2> HIDE DEF B
  <2>5. ASSUME NEW m \in 1..Len(S) PROVE g[m] \in Seq(V)
    <3>1. m - 1 \in Nat /\ (m - 1) + 1 = m /\ m <= Len(S)
      BY <1>1
    <3>2. m - 1 \in B
      BY <2>3, <2>4, <3>1, AllNat DEF B
    <3> QED
      BY <3>1, <3>2 DEF B
  <2> DEFINE beg == [k \in 1..Len(S) + 1 |-> IF k = 1 THEN 0 ELSE Len(g[k - 1])]
  <2>6. beg[1] = 0 /\ \A k \in 1..Len(S) : beg[k + 1] = Len(g[k])
    BY <1>1
  <2>7. ASSUME NEW k \in 1..Len(S) + 1 PROVE beg[k] \in Nat
    BY <2>5, <1>1
  <2>8. beg \in [1..Len(S) + 1 -> Nat]
    BY <2>7
  <2> HIDE DEF beg
  <2>9. ASSUME NEW k \in 1..Len(S) PROVE beg[k + 1] = beg[k] + Len(S[k])
    <3>1. CASE k = 1
      BY <3>1, <2>2, <2>6, <1>1
    <3>2. CASE k # 1
      <4>1. k - 1 \in 1..Len(S) /\ (k - 1) + 1 = k
        BY <3>2, <1>1
      <4>2. g[k] = g[k - 1] \o S[k] /\ g[k - 1] \in Seq(V) /\ S[k] \in Seq(V)
        BY <4>1, <3>2, <2>2, <2>5, <1>1
      <4>3. Len(g[k]) = Len(g[k - 1]) + Len(S[k])
        BY <4>2
      <4>4. beg[k + 1] = Len(g[k]) /\ beg[k] = Len(g[k - 1])
        BY <4>1, <2>6
      <4> QED
        BY <4>3, <4>4
    <3> QED
      BY <3>1, <3>2
  <2> QED
    BY <2>6, <2>8, <2>9 DEF Begins
<1> QED
  BY <1>2, <1>3

\* Every place of the whole is in a piece.
Lies(S, beg, p) == \E k \in 1..Len(S) : \E i \in 1..Len(S[k]) : p = beg[k] + i

\* Every byte of the whole is in some piece.
LEMMA Locate ==
  ASSUME NEW V, NEW S \in Seq(Seq(V)), NEW beg, Begins(S, beg), NEW p \in 1..beg[Len(S) + 1]
  PROVE  Lies(S, beg, p)
<1>1. Len(S) \in Nat /\ \A k \in 1..Len(S) : S[k] \in Seq(V) /\ Len(S[k]) \in Nat
  BY SeqElt
<1>2. \A k \in 1..Len(S) + 1 : beg[k] \in Nat
  BY DEF Begins
<1>3. beg[1] = 0 /\ p \in Nat /\ Len(S) # 0
  BY <1>1, <1>2 DEF Begins
<1> DEFINE B == {k \in 1..Len(S) : p <= beg[k + 1]}
<1>4. Len(S) \in B
  BY <1>1, <1>2, <1>3
<1>5. PICK k \in B : \A l \in B : k <= l
  <2>1. B \subseteq Nat
    BY <1>1
  <2>2. B # {}
    BY <1>4
  <2> HIDE DEF B
  <2> QED
    BY <2>1, <2>2, LeastNat
<1>6. k \in 1..Len(S) /\ p <= beg[k + 1] /\ k \in Nat
  BY <1>1
<1>7. p > beg[k]
  <2>1. CASE k = 1
    BY <2>1, <1>3
  <2>2. CASE k # 1
    <3>1. k - 1 \in 1..Len(S) /\ (k - 1) + 1 = k /\ ~(k <= k - 1) /\ k \in 1..Len(S) + 1
      BY <1>1, <1>6, <2>2
    <3>2. k - 1 \notin B
      BY <1>5, <3>1
    <3>3. ~(p <= beg[k])
      BY <3>1, <3>2
    <3> QED
      BY <3>1, <3>3, <1>2, <1>3
  <2> QED
    BY <2>1, <2>2
<1>8. beg[k + 1] = beg[k] + Len(S[k]) /\ beg[k] \in Nat /\ Len(S[k]) \in Nat
  BY <1>1, <1>2, <1>6 DEF Begins
<1>9. p - beg[k] \in 1..Len(S[k]) /\ p = beg[k] + (p - beg[k])
  <2>1. \A b, c, q \in Nat : q > b /\ q <= b + c => q - b \in 1..c /\ q = b + (q - b)
    OBVIOUS
  <2>2. p \in Nat
    BY <1>3
  <2>3. p <= beg[k] + Len(S[k])
    BY <1>6, <1>8, Zenon
  <2> QED
    BY <2>1, <2>2, <2>3, <1>7, <1>8, Zenon
<1> QED
  BY <1>6, <1>9 DEF Lies

\* Later pieces do not begin before earlier ones.
LEMMA BegMono ==
  ASSUME NEW V, NEW S \in Seq(Seq(V)), NEW beg, Begins(S, beg)
  PROVE  \A k, l \in 1..Len(S) + 1 : k <= l => beg[k] <= beg[l]
<1>1. Len(S) \in Nat /\ \A k \in 1..Len(S) : Len(S[k]) \in Nat
  BY SeqElt
<1>2. \A k \in 1..Len(S) + 1 : beg[k] \in Nat
  BY DEF Begins
<1> DEFINE B == {d \in Nat : \A k \in 1..Len(S) + 1 : k + d <= Len(S) + 1 => beg[k] <= beg[k + d]}
<1>3. 0 \in B
  BY <1>1, <1>2
<1>4. ASSUME NEW d \in B PROVE d + 1 \in B
  <2>1. SUFFICES ASSUME NEW k \in 1..Len(S) + 1, k + (d + 1) <= Len(S) + 1 PROVE beg[k] <= beg[k + (d + 1)]
    OBVIOUS
  <2>2. PICK m : m = k + d
    OBVIOUS
  <2>3. m \in 1..Len(S) /\ m + 1 = k + (d + 1) /\ k + d <= Len(S) + 1 /\ m + 1 \in 1..Len(S) + 1 /\ m \in 1..Len(S) + 1
    BY <1>1, <2>1, <2>2
  <2>4. beg[k] <= beg[m] /\ beg[m + 1] = beg[m] + Len(S[m])
    BY <2>2, <2>3 DEF Begins
  <2>5. beg[k] <= beg[m + 1]
    <3>1. \A a, b, c \in Nat : a <= b => a <= b + c
      OBVIOUS
    <3>2. beg[k] \in Nat /\ beg[m] \in Nat /\ Len(S[m]) \in Nat
      BY <1>1, <1>2, <2>3, Zenon
    <3> QED
      BY <3>1, <3>2, <2>4, Zenon
  <2> QED
    BY <2>3, <2>5
<1> HIDE DEF B
<1>5. ASSUME NEW k \in 1..Len(S) + 1, NEW l \in 1..Len(S) + 1, k <= l PROVE beg[k] <= beg[l]
  <2>1. l - k \in Nat /\ k + (l - k) = l /\ k + (l - k) <= Len(S) + 1
    BY <1>1, <1>5
  <2>2. l - k \in B
    BY <2>1, <1>3, <1>4, AllNat DEF B
  <2> QED
    BY <2>1, <2>2 DEF B
<1> QED
  BY <1>5

\* No piece begins after the end.
LEMMA BegBound ==
  ASSUME NEW V, NEW S \in Seq(Seq(V)), NEW beg, Begins(S, beg)
  PROVE  \A k \in 1..Len(S) + 1 : beg[k] \in Nat /\ beg[k] <= beg[Len(S) + 1]
<1>1. Len(S) \in Nat
  BY SeqElt
<1>2. \A k \in 1..Len(S) + 1 : beg[k] \in Nat /\ k <= Len(S) + 1 /\ Len(S) + 1 \in 1..Len(S) + 1
  BY <1>1 DEF Begins
<1> QED
  BY <1>2, BegMono

----------------------------------------------------------------------------
\* A stride_ptr is at byte p, having passed p bytes of the whole.
At(S, beg, ptr, p) ==
  /\ ptr.stride \in 1..Len(S) + 1 /\ ptr.off \in Nat /\ p = beg[ptr.stride] + ptr.off
  /\ ptr.stride <= Len(S) => ptr.off <= Len(S[ptr.stride])
  /\ ptr.stride = Len(S) + 1 => ptr.off = 0

\* Byte q of the whole is at place x: a piece, and a place in it.
Place(S, beg, x, q) == \E k \in 1..Len(S) : \E j \in 1..Len(S[k]) : x = <<k, j>> /\ q = beg[k] + j

\* The places passed are those after p, in order.
Passed(S, beg, passed, p) ==
  /\ passed \in Seq(Nat \X Nat)
  /\ \A i \in 1..Len(passed) : Place(S, beg, passed[i], p + i)

\* A stride_ptr is never past the end.
LEMMA AtBound ==
  ASSUME NEW V, NEW S \in Seq(Seq(V)), NEW beg, Begins(S, beg), NEW ptr, NEW p, At(S, beg, ptr, p)
  PROVE  p \in Nat /\ p <= beg[Len(S) + 1]
<1>1. Len(S) \in Nat /\ \A k \in 1..Len(S) : Len(S[k]) \in Nat
  BY SeqElt
<1>2. \A k \in 1..Len(S) + 1 : beg[k] \in Nat /\ beg[k] <= beg[Len(S) + 1]
  BY BegBound
<1> DEFINE k == ptr.stride
           off == ptr.off
<1>3. /\ k \in 1..Len(S) + 1 /\ off \in Nat /\ p = beg[k] + off
      /\ k <= Len(S) => off <= Len(S[k])
      /\ k = Len(S) + 1 => off = 0
  BY DEF At
<1> HIDE DEF k, off
<1>4. CASE k <= Len(S)
  <2>1. k \in 1..Len(S) /\ k + 1 \in 1..Len(S) + 1
    BY <1>1, <1>3, <1>4
  <2>2. beg[k + 1] = beg[k] + Len(S[k]) /\ Len(S[k]) \in Nat
    BY <2>1, <1>1 DEF Begins
  <2>3. beg[k] \in Nat /\ beg[k + 1] \in Nat /\ beg[k + 1] <= beg[Len(S) + 1]
    BY <1>2, <1>3, <2>1
  <2>4. beg[Len(S) + 1] \in Nat
    BY <1>1, <1>2
  <2>5. PICK c \in Nat : c = beg[k]
    BY <2>3
  <2>6. PICK l \in Nat : l = Len(S[k])
    BY <2>2
  <2>7. PICK e \in Nat : e = beg[Len(S) + 1]
    BY <2>4
  <2>8. p = c + off /\ off <= l /\ c + l <= e
    BY <1>3, <1>4, <2>2, <2>3, <2>5, <2>6, <2>7, Zenon
  <2>9. p \in Nat /\ p <= e
    BY <1>3, <2>8
  <2> QED
    BY <2>7, <2>9, Zenon
<1>5. CASE ~(k <= Len(S))
  <2>1. k = Len(S) + 1
    BY <1>1, <1>3, <1>5
  <2>2. beg[Len(S) + 1] \in Nat
    BY <1>1, <1>2
  <2> QED
    BY <2>1, <2>2, <1>3
<1> QED
  BY <1>4, <1>5

\* The state of copy()'s loop after t turns, begun at p for count bytes.
Walking(S, beg, p, count, t, s) ==
  /\ At(S, beg, s, p + Len(s.passed))
  /\ Passed(S, beg, s.passed, p)
  /\ s.n \in Nat /\ s.n + Len(s.passed) = count
  /\ s.n = 0 \/ s.stride > Len(S) \/ s.stride > t

\* The arithmetic of PassedOn.
LEMMA Shift ==
  ASSUME NEW i \in Nat, NEW l \in Nat, NEW n \in Nat, NEW off \in Nat, NEW m \in Nat,
         NEW p \in Nat, NEW b \in Nat, ~(i <= l), i <= l + n, off + n <= m, p + l = b + off
  PROVE  i - l \in 1..n /\ i = l + (i - l) /\ off + (i - l) \in 1..m /\ p + i = b + (off + (i - l))
  OBVIOUS

\* Having passed a from p on, the loop stands in piece k, where n bytes are left.
Ready(S, beg, p, a, k, off, n) ==
  /\ p \in Nat /\ Passed(S, beg, a, p)
  /\ k \in 1..Len(S) /\ off \in Nat /\ n \in Nat /\ off + n <= Len(S[k])
  /\ Len(S) \in Nat /\ Len(S[k]) \in Nat /\ beg[k] \in Nat
  /\ p + Len(a) = beg[k] + off

\* Those n bytes of piece k are passed next.
LEMMA PassedOn ==
  ASSUME NEW S, NEW beg, NEW p, NEW a, NEW k, NEW off, NEW n, Ready(S, beg, p, a, k, off, n)
  PROVE  /\ Passed(S, beg, a \o passing(k, off, n), p)
         /\ Len(a \o passing(k, off, n)) = Len(a) + n
<1>0. /\ p \in Nat /\ Passed(S, beg, a, p)
      /\ k \in 1..Len(S) /\ off \in Nat /\ n \in Nat /\ off + n <= Len(S[k])
      /\ Len(S) \in Nat /\ Len(S[k]) \in Nat /\ beg[k] \in Nat
      /\ p + Len(a) = beg[k] + off
  BY DEF Ready
<1> DEFINE b == passing(k, off, n)
           u == a \o b
<1>1. b \in Seq(Nat \X Nat) /\ Len(b) = n /\ \A i \in 1..n : b[i] = <<k, off + i>>
  BY <1>0, SeqElt DEF passing
<1>2. Join(Nat \X Nat, a, b, u)
  BY <1>0, <1>1, Joined DEF Passed
<1> HIDE DEF b, u
<1>3. Len(a) \in Nat /\ Len(u) = Len(a) + n /\ u \in Seq(Nat \X Nat)
  BY <1>1, <1>2 DEF Join
<1>4. ASSUME NEW i \in 1..Len(u) PROVE Place(S, beg, u[i], p + i)
  <2>1. CASE i <= Len(a)
    <3>1. i \in 1..Len(a)
      BY <2>1, <1>3
    <3>2. u[i] = a[i]
      BY <3>1, <1>2 DEF Join
    <3> QED
      BY <1>0, <3>1, <3>2 DEF Passed
  <2>2. CASE ~(i <= Len(a))
    <3> DEFINE j == i - Len(a)
    <3>0. i \in Nat /\ i <= Len(a) + n
      BY <1>0, <1>3
    <3>1. /\ j \in 1..n /\ i = Len(a) + j /\ off + j \in 1..Len(S[k])
          /\ p + i = beg[k] + (off + j)
      <4>1. PICK l \in Nat : l = Len(a)
        BY <1>3
      <4>2. PICK m \in Nat : m = Len(S[k])
        BY <1>0
      <4>3. PICK c \in Nat : c = beg[k]
        BY <1>0
      <4>4. ~(i <= l) /\ i <= l + n
        BY <2>2, <3>0, <4>1, Zenon
      <4>5. off + n <= m /\ p + l = c + off
        BY <1>0, <4>1, <4>2, <4>3, Zenon
      <4>6. i - l \in 1..n /\ i = l + (i - l) /\ off + (i - l) \in 1..m /\ p + i = c + (off + (i - l))
        BY <1>0, <3>0, <4>4, <4>5, Shift
      <4> QED
        BY <4>1, <4>2, <4>3, <4>6, Zenon
    <3>2. u[i] = <<k, off + j>>
      BY <3>1, <1>1, <1>2 DEF Join
    <3> HIDE DEF j
    <3> QED
      BY <1>0, <3>1, <3>2 DEF Place
  <2> QED
    BY <2>1, <2>2
<1> QED
  BY <1>3, <1>4 DEF Passed, u, b

\* A turn of the loop keeps it walking.
LEMMA TurnStep ==
  ASSUME NEW V, NEW S \in Seq(Seq(V)), NEW beg, Begins(S, beg), NEW p \in Nat, NEW count \in Nat,
         NEW t \in Nat, NEW s, Walking(S, beg, p, count, t, s)
  PROVE  Walking(S, beg, p, count, t + 1, turn(S, s))
<1>1. Len(S) \in Nat /\ \A k \in 1..Len(S) : Len(S[k]) \in Nat
  BY SeqElt
<1>2. \A k \in 1..Len(S) + 1 : beg[k] \in Nat
  BY DEF Begins
<1>3. CASE s.n = 0 \/ s.stride > Len(S)
  <2>1. turn(S, s) = s
    BY <1>3, Zenon DEF turn
  <2>2. Walking(S, beg, p, count, t + 1, s)
    BY <1>3 DEF Walking
  <2> QED
    BY <2>1, <2>2, Zenon
<1>4. CASE ~(s.n = 0 \/ s.stride > Len(S))
  <2>1. PICK k : k = s.stride
    OBVIOUS
  <2>2. PICK off : off = s.off
    OBVIOUS
  <2>3. PICK n : n = s.n
    OBVIOUS
  <2>4. PICK a : a = s.passed
    OBVIOUS
  <2>5. k \in 1..Len(S) + 1 /\ off \in Nat /\ p + Len(a) = beg[k] + off /\ (k <= Len(S) => off <= Len(S[k]))
    BY <2>1, <2>2, <2>4, Zenon DEF Walking, At
  <2>6. n \in Nat /\ n + Len(a) = count /\ Passed(S, beg, a, p) /\ k > t /\ n # 0 /\ ~(k > Len(S))
    BY <1>4, <2>1, <2>3, <2>4, Zenon DEF Walking
  <2>7. k \in 1..Len(S)
    BY <1>1, <2>5, <2>6
  <2>8. /\ Len(S[k]) \in Nat /\ off <= Len(S[k]) /\ beg[k] \in Nat /\ beg[k + 1] = beg[k] + Len(S[k])
        /\ k + 1 \in 1..Len(S) + 1 /\ k \in Nat
    <3>1. Len(S[k]) \in Nat /\ beg[k + 1] = beg[k] + Len(S[k])
      BY <1>1, <2>7 DEF Begins
    <3>2. k <= Len(S) /\ k + 1 \in 1..Len(S) + 1 /\ k \in Nat /\ k \in 1..Len(S) + 1
      BY <1>1, <2>7
    <3> QED
      BY <3>1, <3>2, <2>5, <1>2
  <2>9. Len(a) \in Nat
    BY <2>6 DEF Passed
  <2>10. PICK avail : avail = Len(S[k]) - off
    OBVIOUS
  <2>11. avail \in Nat /\ off + avail = Len(S[k])
    BY <2>5, <2>8, <2>10
  <2>12. CASE n >= avail
    <3> DEFINE u == a \o passing(k, off, avail)
               r == [stride |-> k + 1, off |-> 0, n |-> n - avail, passed |-> u]
    <3>1. turn(S, s) = r
      BY <1>4, <2>1, <2>2, <2>3, <2>4, <2>10, <2>12, Zenon DEF turn
    <3>2. Passed(S, beg, u, p) /\ Len(u) = Len(a) + avail
      <4>1. off + avail <= Len(S[k])
        BY <2>11, <2>8
      <4>2. Ready(S, beg, p, a, k, off, avail)
        BY <4>1, <2>5, <2>6, <2>7, <2>8, <2>11, <1>1 DEF Ready
      <4> QED
        BY <4>2, PassedOn
    <3> HIDE DEF u
    <3>3. r.stride = k + 1 /\ r.off = 0 /\ r.n = n - avail /\ r.passed = u
      OBVIOUS
    <3>4. p + Len(u) = beg[k + 1] + 0
      <4>1. p + Len(a) = beg[k] + off
        BY <2>5
      <4>2. p + (Len(a) + avail) = (beg[k] + off) + avail
        BY <4>1, <2>9, <2>11, <2>8, <2>5
      <4>3. (beg[k] + off) + avail = beg[k] + Len(S[k])
        <5>1. PICK b \in Nat : b = beg[k]
          BY <2>8, Zenon
        <5>2. PICK l \in Nat : l = Len(S[k])
          BY <2>8, Zenon
        <5>3. off \in Nat /\ avail \in Nat /\ off + avail = l
          BY <5>2, <2>5, <2>11, Zenon
        <5>4. (b + off) + avail = b + l
          BY <5>3
        <5> QED
          BY <5>1, <5>2, <5>4, Zenon
      <4>4. beg[k + 1] \in Nat
        BY <1>2, <2>8
      <4> QED
        BY <4>2, <4>3, <4>4, <3>2, <2>8
    <3>5. n - avail \in Nat /\ (n - avail) + (Len(a) + avail) = count /\ k + 1 > t + 1
      <4>1. PICK l \in Nat : l = Len(a)
        BY <2>9
      <4>2. n + l = count
        BY <2>6, <4>1, Zenon
      <4>3. n - avail \in Nat /\ (n - avail) + (l + avail) = count /\ k + 1 > t + 1
        BY <4>2, <2>6, <2>8, <2>11, <2>12
      <4> QED
        BY <4>1, <4>3, Zenon
    <3>6. k + 1 <= Len(S) => 0 <= Len(S[k + 1])
      BY <1>1, <2>8
    <3> HIDE DEF r
    <3>7. At(S, beg, r, p + Len(r.passed))
      <4>1. 0 \in Nat
        OBVIOUS
      <4> QED
        BY <4>1, <3>3, <3>4, <3>6, <2>8, Zenon DEF At
    <3>8. r.n \in Nat /\ r.n + Len(r.passed) = count
      BY <3>2, <3>3, <3>5
    <3> QED
      BY <3>1, <3>2, <3>3, <3>5, <3>7, <3>8, Zenon DEF Walking
  <2>13. CASE ~(n >= avail)
    <3> DEFINE u == a \o passing(k, off, n)
               r == [stride |-> k, off |-> off + n, n |-> 0, passed |-> u]
    <3>1. turn(S, s) = r
      BY <1>4, <2>1, <2>2, <2>3, <2>4, <2>10, <2>13, Zenon DEF turn
    <3>0. off + n <= Len(S[k])
      BY <2>11, <2>13, <2>8, <2>6, <2>5
    <3>2. Passed(S, beg, u, p) /\ Len(u) = Len(a) + n
      <4>1. Ready(S, beg, p, a, k, off, n)
        BY <3>0, <2>5, <2>6, <2>7, <2>8, <1>1 DEF Ready
      <4> QED
        BY <4>1, PassedOn
    <3> HIDE DEF u
    <3>3. r.stride = k /\ r.off = off + n /\ r.n = 0 /\ r.passed = u
      OBVIOUS
    <3>4. p + Len(u) = beg[k] + (off + n)
      <4>1. PICK l \in Nat : l = Len(a)
        BY <2>9
      <4>2. p + l = beg[k] + off
        BY <2>5, <4>1, Zenon
      <4>4. PICK c \in Nat : c = beg[k]
        BY <2>8
      <4>5. p + l = c + off
        BY <4>2, <4>4, Zenon
      <4>6. p + (l + n) = c + (off + n)
        BY <4>5, <2>5, <2>6
      <4>3. p + (l + n) = beg[k] + (off + n)
        BY <4>4, <4>6, Zenon
      <4> QED
        BY <4>1, <4>3, <3>2, Zenon
    <3>5. off + n \in Nat /\ 0 + (Len(a) + n) = count /\ k # Len(S) + 1
      BY <2>5, <2>6, <2>9, <2>7, <1>1
    <3> HIDE DEF r
    <3>7. At(S, beg, r, p + Len(r.passed))
      BY <3>0, <3>3, <3>4, <3>5, <2>5, Zenon DEF At
    <3>8. r.n \in Nat /\ r.n + Len(r.passed) = count
      BY <3>2, <3>3, <3>5
    <3> QED
      BY <3>1, <3>2, <3>3, <3>7, <3>8, Zenon DEF Walking
  <2> QED
    BY <2>12, <2>13
<1> QED
  BY <1>3, <1>4

\* What copy() of count bytes from byte p on comes to.
Copied(S, beg, p, count, c) ==
  /\ Passed(S, beg, c.passed, p)
  /\ At(S, beg, c, p + Len(c.passed))
  /\ Len(c.passed) = IF p + count <= beg[Len(S) + 1] THEN count ELSE beg[Len(S) + 1] - p

\* copy() passes the next count bytes, or all that there are.
LEMMA CopyIs ==
  ASSUME NEW V, NEW S \in Seq(Seq(V)), NEW beg, Begins(S, beg), NEW p \in Nat, NEW count \in Nat,
         NEW ptr, At(S, beg, ptr, p)
  PROVE  Copied(S, beg, p, count, copy(S, ptr, count))
<1>1. Len(S) \in Nat
  BY SeqElt
<1> DEFINE g == CHOOSE h : h = CopyTurn(S, ptr, count, h)
<1>2. g = CopyTurn(S, ptr, count, g)
  BY <1>1, CopyExists, Zenon
<1>3. copy(S, ptr, count) = g[Len(S)]
  BY CopyIsLoop
<1> HIDE DEF g
<1> DEFINE z == [stride |-> ptr.stride, off |-> ptr.off, n |-> count, passed |-> <<>>]
           h == CopyTurn(S, ptr, count, g)
<1>4. h[0] = z /\ \A t \in 1..Len(S) : h[t] = turn(S, g[t - 1])
  BY <1>1 DEF CopyTurn
<1> HIDE DEF h
<1>5. g[0] = z /\ \A t \in 1..Len(S) : g[t] = turn(S, g[t - 1])
  BY <1>2, <1>4, Zenon DEF h
<1> DEFINE B == {t \in Nat : t <= Len(S) => Walking(S, beg, p, count, t, g[t])}
<1>6. 0 \in B
  <2>1. z.stride = ptr.stride /\ z.off = ptr.off /\ z.n = count /\ z.passed = <<>>
    OBVIOUS
  <2> HIDE DEF z
  <2>2. Len(z.passed) = 0 /\ p + Len(z.passed) = p
    BY <2>1
  <2>3. At(S, beg, z, p + Len(z.passed))
    BY <2>1, <2>2, Zenon DEF At
  <2>4. Passed(S, beg, z.passed, p)
    BY <2>1, <2>2 DEF Passed
  <2>5. z.n \in Nat /\ z.n + Len(z.passed) = count
    BY <2>1, <2>2
  <2>6. z.stride > 0
    BY <2>1, <1>1 DEF At
  <2>7. Walking(S, beg, p, count, 0, z)
    BY <2>3, <2>4, <2>5, <2>6, Zenon DEF Walking
  <2> QED
    BY <2>7, <1>5
<1>7. ASSUME NEW t \in B PROVE t + 1 \in B
  <2>1. t \in Nat /\ t + 1 \in Nat
    OBVIOUS
  <2>2. SUFFICES ASSUME t + 1 <= Len(S) PROVE Walking(S, beg, p, count, t + 1, g[t + 1])
    BY <2>1
  <2>3. Walking(S, beg, p, count, t, g[t]) /\ t + 1 \in 1..Len(S) /\ (t + 1) - 1 = t
    BY <2>1, <2>2, <1>1
  <2>4. g[t + 1] = turn(S, g[t])
    BY <2>3, <1>5
  <2>5. Walking(S, beg, p, count, t + 1, turn(S, g[t]))
    BY <2>1, <2>3, TurnStep
  <2> QED
    BY <2>4, <2>5, Zenon
<1> HIDE DEF B, z
<1>8. Len(S) \in B
  BY <1>1, <1>6, <1>7, AllNat DEF B
<1> DEFINE c == g[Len(S)]
<1>9. Walking(S, beg, p, count, Len(S), c)
  BY <1>1, <1>8 DEF B
<1> HIDE DEF c
<1>10. /\ At(S, beg, c, p + Len(c.passed)) /\ Passed(S, beg, c.passed, p)
       /\ c.n \in Nat /\ c.n + Len(c.passed) = count
       /\ c.n = 0 \/ c.stride > Len(S)
  BY <1>9, Zenon DEF Walking
<1>11. Len(c.passed) \in Nat
  BY <1>10 DEF Passed
<1>12. p + Len(c.passed) <= beg[Len(S) + 1]
  BY <1>10, AtBound
<1>13. beg[Len(S) + 1] \in Nat
  BY <1>1 DEF Begins
<1>14. c.n = 0 \/ p + Len(c.passed) = beg[Len(S) + 1]
  <2>1. ASSUME c.stride > Len(S) PROVE p + Len(c.passed) = beg[Len(S) + 1]
    <3>1. PICK k : k = c.stride
      OBVIOUS
    <3>2. k \in 1..Len(S) + 1 /\ (k = Len(S) + 1 => c.off = 0) /\ p + Len(c.passed) = beg[k] + c.off
      BY <3>1, <1>10, Zenon DEF At
    <3>3. k = Len(S) + 1
      BY <2>1, <3>1, <3>2, <1>1
    <3> QED
      BY <3>2, <3>3, <1>13
  <2> QED
    BY <2>1, <1>10
<1>15. Len(c.passed) = IF p + count <= beg[Len(S) + 1] THEN count ELSE beg[Len(S) + 1] - p
  <2>1. PICK l \in Nat : l = Len(c.passed)
    BY <1>11
  <2>2. PICK n \in Nat : n = c.n
    BY <1>10
  <2>3. PICK e \in Nat : e = beg[Len(S) + 1]
    BY <1>13
  <2>4. n + l = count /\ p + l <= e /\ (n = 0 \/ p + l = e)
    BY <1>10, <1>12, <1>14, <2>1, <2>2, <2>3, Zenon
  <2>5. l = IF p + count <= e THEN count ELSE e - p
    BY <2>4
  <2> QED
    BY <2>1, <2>3, <2>5, Zenon
<1>16. Copied(S, beg, p, count, c)
  BY <1>10, <1>15, Zenon DEF Copied
<1> QED
  BY <1>3, <1>16, Zenon DEF c

----------------------------------------------------------------------------

\* A place of the whole is in one piece only.
LEMMA PlaceOnce ==
  ASSUME NEW V, NEW S \in Seq(Seq(V)), NEW beg, Begins(S, beg),
         NEW k \in 1..Len(S), NEW i \in 1..Len(S[k]), NEW l \in 1..Len(S), NEW j \in 1..Len(S[l]),
         beg[k] + i = beg[l] + j
  PROVE  k = l /\ i = j
<1>1. Len(S) \in Nat /\ \A m \in 1..Len(S) : Len(S[m]) \in Nat
  BY SeqElt
<1>2. \A m \in 1..Len(S) + 1 : beg[m] \in Nat
  BY DEF Begins
<1>3. /\ beg[k + 1] = beg[k] + Len(S[k]) /\ beg[l + 1] = beg[l] + Len(S[l])
      /\ Len(S[k]) \in Nat /\ Len(S[l]) \in Nat
  BY <1>1 DEF Begins
<1>4. k + 1 \in 1..Len(S) + 1 /\ l + 1 \in 1..Len(S) + 1 /\ k \in 1..Len(S) + 1 /\ l \in 1..Len(S) + 1
  BY <1>1
<1>5. beg[k] \in Nat /\ beg[l] \in Nat /\ i \in Nat /\ j \in Nat
  BY <1>2, <1>3, <1>4
<1>6. PICK ck \in Nat : ck = beg[k]
  BY <1>5
<1>7. PICK cl \in Nat : cl = beg[l]
  BY <1>5
<1>8. PICK sk \in Nat : sk = Len(S[k])
  BY <1>3
<1>9. PICK sl \in Nat : sl = Len(S[l])
  BY <1>3
<1>10. ck + i = cl + j /\ i \in 1..sk /\ j \in 1..sl
  BY <1>6, <1>7, <1>8, <1>9, Zenon
<1>11. ~(ck + sk <= cl) /\ ~(cl + sl <= ck)
  BY <1>10
<1>12. ~(k + 1 <= l)
  <2>1. k + 1 <= l => beg[k + 1] <= beg[l]
    BY <1>4, BegMono
  <2> QED
    BY <2>1, <1>3, <1>6, <1>7, <1>8, <1>11, Zenon
<1>13. ~(l + 1 <= k)
  <2>1. l + 1 <= k => beg[l + 1] <= beg[k]
    BY <1>4, BegMono
  <2> QED
    BY <2>1, <1>3, <1>6, <1>7, <1>9, <1>11, Zenon
<1>14. k = l
  BY <1>1, <1>12, <1>13
<1> QED
  BY <1>5, <1>14

\* dbuffer::size() is where the last piece ends.
LEMMA SizeIs ==
  ASSUME NEW V, NEW S \in Seq(Seq(V)), NEW beg, Begins(S, beg)
  PROVE  size(S) = beg[Len(S) + 1] /\ size(S) \in Nat
  BY FlattenAt, SeqElt DEF size

\* A new stride_ptr is at byte 0.
LEMMA StartAt ==
  ASSUME NEW V, NEW S \in Seq(Seq(V)), NEW beg, Begins(S, beg)
  PROVE  At(S, beg, start, 0)
<1>1. Len(S) \in Nat /\ \A m \in 1..Len(S) : Len(S[m]) \in Nat
  BY SeqElt
<1>2. start.stride = 1 /\ start.off = 0
  BY DEF start
<1>3. 1 \in 1..Len(S) + 1 /\ 0 \in Nat /\ 0 = beg[1] + 0 /\ (1 <= Len(S) => 0 <= Len(S[1]))
  BY <1>1 DEF Begins
<1> QED
  BY <1>2, <1>3, Zenon DEF At

\* The bytes at the places passed.
LEMMA OutIs ==
  ASSUME NEW V, NEW S \in Seq(Seq(V)), NEW beg, Begins(S, beg), NEW p \in Nat,
         NEW passed, Passed(S, beg, passed, p)
  PROVE  /\ out(S, passed) \in Seq(V) /\ Len(out(S, passed)) = Len(passed)
         /\ \A i \in 1..Len(passed) : p + i \in 1..size(S) /\ out(S, passed)[i] = FlattenSeq(S)[p + i]
<1>1. Len(passed) \in Nat
  BY DEF Passed
<1>2. ASSUME NEW i \in 1..Len(passed)
      PROVE  /\ S[passed[i][1]][passed[i][2]] \in V /\ p + i \in 1..size(S)
             /\ S[passed[i][1]][passed[i][2]] = FlattenSeq(S)[p + i]
  <2>0. PICK k \in 1..Len(S) : \E j \in 1..Len(S[k]) : passed[i] = <<k, j>> /\ p + i = beg[k] + j
    BY DEF Passed, Place
  <2>1. PICK j \in 1..Len(S[k]) : passed[i] = <<k, j>> /\ p + i = beg[k] + j
    BY <2>0
  <2>2. passed[i][1] = k /\ passed[i][2] = j
    BY <2>1
  <2>3. S[k] \in Seq(V) /\ S[k][j] \in V
    BY SeqElt
  <2>4. beg[k] + j \in 1..beg[Len(S) + 1] /\ FlattenSeq(S)[beg[k] + j] = S[k][j]
    BY FlattenAt
  <2>5. p + i \in 1..size(S) /\ FlattenSeq(S)[p + i] = S[k][j]
    BY <2>1, <2>4, SizeIs
  <2> QED
    BY <2>2, <2>3, <2>5
<1>3. out(S, passed) = [i \in 1..Len(passed) |-> S[passed[i][1]][passed[i][2]]]
  BY DEF out
<1> QED
  BY <1>1, <1>2, <1>3

\* Two copy() in a row: skip offset bytes, then pass over count.
LEMMA CopyAt ==
  ASSUME NEW V, NEW S \in Seq(Seq(V)), NEW beg, Begins(S, beg), NEW offset \in Nat, NEW count \in Nat,
         offset <= size(S)
  PROVE  Copied(S, beg, offset, count, copy(S, copy(S, start, offset), count))
<1> DEFINE c == copy(S, start, offset)
<1>1. Copied(S, beg, 0, offset, c)
  BY StartAt, CopyIs
<1> HIDE DEF c
<1>2. size(S) = beg[Len(S) + 1] /\ size(S) \in Nat
  BY SizeIs
<1>3. Len(c.passed) = offset
  BY <1>1, <1>2 DEF Copied
<1>4. At(S, beg, c, offset)
  BY <1>1, <1>3 DEF Copied
<1>5. Copied(S, beg, offset, count, copy(S, c, count))
  BY <1>4, CopyIs
<1> QED
  BY <1>5 DEF c

\* What copyin() leaves, byte by byte.
CopiedIn(F, bytes, offset, G) ==
  /\ Len(G) = Len(F)
  /\ \A q \in 1..Len(F) : G[q] = IF q \in offset + 1 .. offset + Len(bytes) THEN bytes[q - offset] ELSE F[q]

\* copyin() replaces the bytes from offset on, as far as the block goes, no others,
\* and says whether it had room for all.
LEMMA CopyInIs ==
  ASSUME NEW V, NEW S \in Seq(Seq(V)), NEW bytes \in Seq(V), NEW offset \in Nat, offset <= size(S)
  PROVE  /\ copyin(S, bytes, offset).ok <=> offset + Len(bytes) <= size(S)
         /\ copyin(S, bytes, offset).strides \in Seq(Seq(V))
         /\ CopiedIn(FlattenSeq(S), bytes, offset, FlattenSeq(copyin(S, bytes, offset).strides))
<1>1. Len(S) \in Nat /\ Len(bytes) \in Nat /\ \A m \in 1..Len(S) : S[m] \in Seq(V) /\ Len(S[m]) \in Nat
  BY SeqElt
<1>2. PICK beg : Begins(S, beg)
  BY BeginsExists
<1>3. size(S) = beg[Len(S) + 1] /\ size(S) \in Nat /\ size(S) = Len(FlattenSeq(S))
  BY <1>2, SizeIs DEF size
<1> DEFINE c == copy(S, copy(S, start, offset), Len(bytes))
           passed == c.passed
           stores(k, i) == {n \in DOMAIN passed : passed[n] = <<k, i>>}
           T == [k \in DOMAIN S |-> [i \in DOMAIN S[k] |->
                  IF stores(k, i) = {} THEN S[k][i] ELSE bytes[CHOOSE n \in stores(k, i) : TRUE]]]
<1>4. copyin(S, bytes, offset) = [ok |-> Len(passed) = Len(bytes), strides |-> T]
  BY Zenon DEF copyin
<1>5. Copied(S, beg, offset, Len(bytes), c)
  BY <1>1, <1>2, CopyAt
<1> HIDE DEF c
<1>6. Passed(S, beg, passed, offset)
  BY <1>5 DEF Copied
<1>7. Len(passed) = IF offset + Len(bytes) <= size(S) THEN Len(bytes) ELSE size(S) - offset
  BY <1>3, <1>5 DEF Copied
<1> HIDE DEF passed
<1>8. Len(passed) \in Nat /\ DOMAIN passed = 1..Len(passed) /\ Len(passed) <= Len(bytes)
      /\ (Len(passed) = Len(bytes) <=> offset + Len(bytes) <= size(S))
  <2>1. Len(passed) \in Nat /\ DOMAIN passed = 1..Len(passed)
    BY <1>6 DEF Passed
  <2> QED
    BY <2>1, <1>1, <1>3, <1>7
\* Which byte is stored at a place.
<1>9. ASSUME NEW k \in 1..Len(S), NEW i \in 1..Len(S[k]), NEW n \in stores(k, i)
      PROVE  n \in 1..Len(passed) /\ offset + n = beg[k] + i
  <2>1. n \in 1..Len(passed) /\ passed[n] = <<k, i>>
    BY <1>8
  <2>2. PICK l \in 1..Len(S) : \E j \in 1..Len(S[l]) : passed[n] = <<l, j>> /\ offset + n = beg[l] + j
    BY <2>1, <1>6 DEF Passed, Place
  <2>3. PICK j \in 1..Len(S[l]) : passed[n] = <<l, j>> /\ offset + n = beg[l] + j
    BY <2>2
  <2>4. l = k /\ j = i
    BY <2>1, <2>3
  <2> QED
    BY <2>1, <2>3, <2>4
<1>10. ASSUME NEW k \in 1..Len(S), NEW i \in 1..Len(S[k]), NEW n \in 1..Len(passed), offset + n = beg[k] + i
       PROVE  n \in stores(k, i)
  <2>2. PICK l \in 1..Len(S) : \E j \in 1..Len(S[l]) : passed[n] = <<l, j>> /\ offset + n = beg[l] + j
    BY <1>6 DEF Passed, Place
  <2>3. PICK j \in 1..Len(S[l]) : passed[n] = <<l, j>> /\ offset + n = beg[l] + j
    BY <2>2
  <2>4. beg[k] + i = beg[l] + j
    BY <1>10, <2>3
  <2>5. k = l /\ i = j
    BY <2>4, <1>2, PlaceOnce
  <2>6. passed[n] = <<k, i>>
    BY <2>3, <2>5
  <2> QED
    BY <2>6, <1>8
<1> HIDE DEF stores
<1> DEFINE X(k, i) == IF stores(k, i) = {} THEN S[k][i] ELSE bytes[CHOOSE n \in stores(k, i) : TRUE]
<1>11. ASSUME NEW k \in 1..Len(S), NEW i \in 1..Len(S[k])
       PROVE  X(k, i) \in V /\ X(k, i) = IF beg[k] + i \in offset + 1 .. offset + Len(bytes)
                                         THEN bytes[(beg[k] + i) - offset] ELSE S[k][i]
  <2>0. beg[k] \in Nat /\ beg[k] + i \in 1..size(S)
    <3>1. beg[k] + i \in 1..beg[Len(S) + 1]
      BY <1>2, FlattenAt
    <3>2. k \in 1..Len(S) + 1
      BY <1>1
    <3>3. beg[k] \in Nat
      BY <3>2, <1>2 DEF Begins
    <3> QED
      BY <3>1, <3>3, <1>3
  <2>1. PICK q : q = beg[k] + i
    OBVIOUS
  <2>2. q \in Nat /\ q <= size(S)
    BY <2>0, <2>1, <1>3
  <2>3. CASE q \in offset + 1 .. offset + Len(bytes)
    <3>1. q - offset \in 1..Len(passed) /\ offset + (q - offset) = q /\ q - offset \in 1..Len(bytes)
      BY <2>2, <2>3, <1>1, <1>3, <1>7, <1>8
    <3>2. q - offset \in stores(k, i)
      BY <3>1, <2>1, <1>10
    <3>3. PICK m : m = CHOOSE n \in stores(k, i) : TRUE
      OBVIOUS
    <3>4. m \in stores(k, i)
      BY <3>2, <3>3
    <3>5. m \in 1..Len(passed) /\ offset + m = q
      BY <3>4, <1>9, <2>1
    <3>6. m = q - offset
      BY <3>5, <2>2, <1>8
    <3>7. bytes[m] \in V /\ stores(k, i) # {} /\ bytes[m] = bytes[q - offset]
      BY <3>1, <3>2, <3>6, SeqElt
    <3> QED
      BY <3>3, <3>7, <2>1, <2>3, Zenon
  <2>4. CASE ~(q \in offset + 1 .. offset + Len(bytes))
    <3>1. ASSUME NEW n \in stores(k, i) PROVE FALSE
      <4>1. n \in 1..Len(passed) /\ offset + n = q
        BY <1>9, <2>1
      <4> QED
        BY <4>1, <2>2, <2>4, <1>1, <1>8
    <3>2. stores(k, i) = {}
      BY <3>1, Zenon
    <3>3. S[k][i] \in V
      BY <1>1, SeqElt
    <3> QED
      BY <3>2, <3>3, <2>1, <2>4, Zenon
  <2> QED
    BY <2>3, <2>4
<1>12. DOMAIN S = 1..Len(S) /\ \A k \in 1..Len(S) : DOMAIN S[k] = 1..Len(S[k])
  BY <1>1
<1>13. /\ T = [k \in 1..Len(S) |-> [i \in 1..Len(S[k]) |-> X(k, i)]]
  BY <1>12, Zenon
<1> HIDE DEF T, X
<1>15. \A k \in 1..Len(S) : T[k] = [i \in 1..Len(S[k]) |-> X(k, i)]
  BY <1>13
<1>16. ASSUME NEW k \in 1..Len(S)
       PROVE  T[k] \in Seq(V) /\ Len(T[k]) = Len(S[k]) /\ \A i \in 1..Len(S[k]) : T[k][i] = X(k, i)
  <2>1. T[k] = [i \in 1..Len(S[k]) |-> X(k, i)] /\ Len(S[k]) \in Nat
    BY <1>15, <1>1
  <2>2. \A i \in 1..Len(S[k]) : X(k, i) \in V
    BY <1>11
  <2> QED
    BY <2>1, <2>2
<1>17. T \in Seq(Seq(V)) /\ Len(T) = Len(S)
  BY <1>1, <1>13, <1>16
<1>18. Begins(T, beg)
  BY <1>2, <1>16, <1>17 DEF Begins
<1>19. Len(FlattenSeq(T)) = Len(FlattenSeq(S))
  BY <1>3, <1>17, <1>18, FlattenAt
<1>20. ASSUME NEW q \in 1..Len(FlattenSeq(S))
       PROVE  FlattenSeq(T)[q] =
           IF q \in offset + 1 .. offset + Len(bytes) THEN bytes[q - offset] ELSE FlattenSeq(S)[q]
  <2>1. q \in 1..beg[Len(S) + 1]
    BY <1>3
  <2>2. PICK k \in 1..Len(S) : \E i \in 1..Len(S[k]) : q = beg[k] + i
    <3>1. Lies(S, beg, q)
      BY <2>1, <1>2, Locate
    <3> QED
      BY <3>1 DEF Lies
  <2>3. PICK i \in 1..Len(S[k]) : q = beg[k] + i
    BY <2>2
  <2>4. FlattenSeq(S)[q] = S[k][i]
    BY <2>3, <1>2, FlattenAt
  <2>5. k \in 1..Len(T) /\ i \in 1..Len(T[k])
    BY <1>16, <1>17
  <2>6. FlattenSeq(T)[q] = T[k][i]
    BY <2>3, <2>5, <1>17, <1>18, FlattenAt
  <2>7. T[k][i] = X(k, i)
    BY <1>16
  <2> QED
    <3>1. X(k, i) = IF q \in offset + 1 .. offset + Len(bytes) THEN bytes[q - offset] ELSE S[k][i]
      BY <2>3, <1>11, Zenon
    <3> QED
      BY <2>4, <2>6, <2>7, <3>1, Zenon
<1>21. CopiedIn(FlattenSeq(S), bytes, offset, FlattenSeq(T))
  BY <1>19, <1>20 DEF CopiedIn
<1>22. copyin(S, bytes, offset).ok = (Len(passed) = Len(bytes)) /\ copyin(S, bytes, offset).strides = T
  BY <1>4
<1> QED
  BY <1>8, <1>17, <1>21, <1>22

----------------------------------------------------------------------------
\* Products and quotients.
LEMMA MulNat ==
  ASSUME NEW a \in Nat, NEW b \in Nat
  PROVE  a * b \in Nat
  OBVIOUS

\* Products grow with their factors.
LEMMA MulMono ==
  ASSUME NEW a \in Nat, NEW b \in Nat, NEW c \in Nat, a <= b
  PROVE  a * c <= b * c
  OBVIOUS

\* One more time the factor.
LEMMA MulNext ==
  ASSUME NEW a \in Nat, NEW c \in Nat
  PROVE  (a + 1) * c = a * c + c
  OBVIOUS

\* What a quotient is.
LEMMA DivIs ==
  ASSUME NEW a \in Nat, NEW b \in Nat \ {0}
  PROVE  a \div b \in Nat /\ (a \div b) * b <= a /\ a < (a \div b) * b + b
  OBVIOUS

\* How it compares with a number, without it.
LEMMA DivLeq ==
  ASSUME NEW a \in Nat, NEW b \in Nat \ {0}, NEW n \in Nat
  PROVE  n <= a \div b <=> n * b <= a
<1>1. PICK q \in Nat : q = a \div b /\ q * b <= a /\ a < q * b + b
  BY DivIs
<1>2. CASE n <= q
  BY <1>1, <1>2, MulMono, MulNat
<1>3. CASE ~(n <= q)
  <2>1. q + 1 <= n
    BY <1>3
  <2>2. (q + 1) * b <= n * b
    BY <2>1, MulMono
  <2>3. (q + 1) * b = q * b + b
    BY MulNext
  <2> QED
    BY <1>1, <1>3, <2>2, <2>3, MulNat
<1> QED
  BY <1>1, <1>2, <1>3

\* copy() where there is enough to copy.
LEMMA CopyFit ==
  ASSUME NEW V, NEW S \in Seq(Seq(V)), NEW beg, Begins(S, beg), NEW p \in Nat, NEW count \in Nat,
         NEW ptr, At(S, beg, ptr, p), p + count <= size(S)
  PROVE  /\ At(S, beg, copy(S, ptr, count), p + count)
         /\ out(S, copy(S, ptr, count).passed) \in Seq(V)
         /\ out(S, copy(S, ptr, count).passed) = SubSeq(FlattenSeq(S), p + 1, p + count)
<1>1. PICK c : c = copy(S, ptr, count)
  OBVIOUS
<1>2. Copied(S, beg, p, count, c)
  BY <1>1, CopyIs
<1>3. size(S) = beg[Len(S) + 1] /\ size(S) \in Nat
  BY SizeIs
<1>4. Len(c.passed) = count
  BY <1>2, <1>3 DEF Copied
<1>5. At(S, beg, c, p + count) /\ Passed(S, beg, c.passed, p)
  BY <1>2, <1>4 DEF Copied
<1>6. PICK o : o = out(S, c.passed)
  OBVIOUS
<1>7. o \in Seq(V) /\ Len(o) = count /\ \A i \in 1..count : o[i] = FlattenSeq(S)[p + i]
  <2>1. PICK passed : passed = c.passed
    OBVIOUS
  <2>2. Passed(S, beg, passed, p) /\ Len(passed) = count /\ o = out(S, passed)
    BY <1>4, <1>5, <1>6, <2>1, Zenon
  <2>3. o \in Seq(V) /\ Len(o) = Len(passed) /\ \A i \in 1..Len(passed) : o[i] = FlattenSeq(S)[p + i]
    BY <2>2, OutIs
  <2> QED
    BY <2>2, <2>3
<1>8. PICK F : F = FlattenSeq(S)
  OBVIOUS
<1>9. F \in Seq(V) /\ Len(F) = size(S)
  BY <1>8, FlattenAt DEF size
<1>10. PICK f : f = SubSeq(F, p + 1, p + count)
  OBVIOUS
<1>11. f \in Seq(V) /\ Len(f) = count /\ \A i \in 1..count : f[i] = F[p + i]
  BY <1>3, <1>9, <1>10
<1>12. o = f
  BY <1>7, <1>8, <1>11, SeqEqual
<1> QED
  BY <1>1, <1>5, <1>6, <1>7, <1>8, <1>10, <1>12, Zenon

\* Element n of an array begins after this many bytes.
Elem(offset, step, n) == offset + (n - 1) * step

\* What copyout_shape() returns, out of the block F without its pieces.
Shaped(V, F, offset, esize, step, ecount, r) ==
  /\ r \in Seq(Seq(V)) /\ Len(r) <= ecount
  /\ \A n \in 1..ecount : n <= Len(r) <=> Elem(offset, step, n) + esize <= Len(F)
  /\ \A n \in 1..Len(r) : r[n] = SubSeq(F, Elem(offset, step, n) + 1, Elem(offset, step, n) + esize)

\* Elements are a step apart.
LEMMA ElemNat ==
  ASSUME NEW offset \in Nat, NEW step \in Nat, NEW n \in Nat \ {0}
  PROVE  /\ Elem(offset, step, n) \in Nat /\ Elem(offset, step, n) >= offset
         /\ Elem(offset, step, n + 1) = Elem(offset, step, n) + step
         /\ Elem(offset, step, 1) = offset
<1>1. n - 1 \in Nat /\ (n - 1) + 1 = n /\ (n + 1) - 1 = n
  OBVIOUS
<1>2. PICK x \in Nat : x = (n - 1) * step
  BY <1>1, MulNat
<1>3. n * step = x + step
  BY <1>1, <1>2, MulNext
<1>4. 0 * step = 0 /\ 1 - 1 = 0
  OBVIOUS
<1>5. Elem(offset, step, n) = offset + x /\ Elem(offset, step, n + 1) = offset + (x + step)
  BY <1>1, <1>2, <1>3 DEF Elem
<1>6. Elem(offset, step, 1) = offset
  BY <1>4 DEF Elem
<1> QED
  BY <1>5, <1>6

\* copyout_shape() returns every element that is in the block in full, and no other,
\* whichever pieces the elements lie across.
LEMMA ShapedIs ==
  ASSUME NEW V, NEW S \in Seq(Seq(V)), NEW offset \in Nat, NEW esize \in Nat \ {0}, NEW step \in Nat,
         esize <= step, NEW eskip, eskip = step - esize, NEW ecount \in Nat
  PROVE  Shaped(V, FlattenSeq(S), offset, esize, step, ecount, copyout_shape(S, offset, esize, eskip, ecount))
<1>1. PICK beg : Begins(S, beg)
  BY BeginsExists
<1>2. PICK N \in Nat : N = size(S) /\ N = Len(FlattenSeq(S))
  BY <1>1, SizeIs DEF size
<1>3. eskip \in Nat /\ esize + eskip = step /\ step \in Nat \ {0}
  OBVIOUS
<1>4. CASE ecount = 0 \/ offset >= N
  <2>1. copyout_shape(S, offset, esize, eskip, ecount) = <<>>
    BY <1>2, <1>4, Zenon DEF copyout_shape
  <2>2. ASSUME NEW n \in 1..ecount PROVE ~(Elem(offset, step, n) + esize <= N)
    <3>1. Elem(offset, step, n) \in Nat /\ Elem(offset, step, n) >= offset /\ offset >= N
      <4>1. n \in Nat \ {0} /\ ecount # 0
        OBVIOUS
      <4>2. Elem(offset, step, n) \in Nat /\ Elem(offset, step, n) >= offset
        BY <4>1, ElemNat
      <4> QED
        BY <1>4, <4>1, <4>2
    <3> QED
      BY <3>1
  <2>3. PICK r : r = copyout_shape(S, offset, esize, eskip, ecount)
    OBVIOUS
  <2>4. r \in Seq(Seq(V)) /\ Len(r) = 0
    BY <2>1, <2>3
  <2>5. Shaped(V, FlattenSeq(S), offset, esize, step, ecount, r)
    BY <1>2, <2>2, <2>4 DEF Shaped
  <2> QED
    BY <2>3, <2>5
<1>5. CASE ~(ecount = 0 \/ offset >= N)
  <2> DEFINE total == (size(S) - offset) + eskip
             actual == Min({total \div (esize + eskip), ecount})
             ptr == ShapePtr(S, offset, esize, eskip, actual)
  <2>1. copyout_shape(S, offset, esize, eskip, ecount) = [e \in 1..actual |-> out(S, copy(S, ptr[e], esize).passed)]
    BY <1>2, <1>5, ShapeIs, Zenon
  <2>2. total \in Nat /\ total = (N - offset) + eskip
    BY <1>2, <1>3, <1>5
  <2>3. total \div (esize + eskip) \in Nat /\ \A n \in Nat : n <= total \div (esize + eskip) <=> n * step <= total
    BY <1>3, <2>2, DivIs, DivLeq
  <2>4. actual = IF total \div (esize + eskip) <= ecount THEN total \div (esize + eskip) ELSE ecount
    BY <2>3, MinIs
  <2> HIDE DEF actual
  <2>5. actual \in Nat /\ actual <= ecount
    BY <2>3, <2>4
  <2>6. ASSUME NEW n \in 1..ecount PROVE n <= actual <=> Elem(offset, step, n) + esize <= N
    <3>1. n <= actual <=> n * step <= total
      <4>1. n \in Nat /\ n <= ecount
        OBVIOUS
      <4>2. PICK q \in Nat : q = total \div (esize + eskip)
        BY <2>3
      <4>3. n <= q <=> n * step <= total
        BY <4>1, <4>2, <2>3, Zenon
      <4>4. actual = IF q <= ecount THEN q ELSE ecount
        BY <4>2, <2>4, Zenon
      <4>5. n <= actual <=> n <= q
        BY <4>1, <4>4
      <4> QED
        BY <4>3, <4>5, Zenon
    <3>0. n \in Nat \ {0} /\ n <= ecount
      OBVIOUS
    <3>2. Elem(offset, step, n) \in Nat
      BY <3>0, ElemNat
    <3>3. n * step = (n - 1) * step + step /\ (n - 1) * step \in Nat
      <4>1. n - 1 \in Nat /\ (n - 1) + 1 = n
        OBVIOUS
      <4> QED
        BY <4>1, MulNext, MulNat
    <3>4. PICK x \in Nat : x = (n - 1) * step
      BY <3>3
    <3>5. n * step = x + step /\ Elem(offset, step, n) = offset + x
      BY <3>3, <3>4 DEF Elem
    <3> QED
      BY <3>1, <3>5, <2>2
  <2>7. ptr = ShapeTurn(S, offset, esize, eskip, actual, ptr)
    BY <2>5, ShapeExists
  <2> HIDE DEF ptr
  <2> DEFINE h == ShapeTurn(S, offset, esize, eskip, actual, ptr)
  <2>8. \A e \in 1..actual : h[e] =
          IF e = 1 THEN copy(S, start, offset) ELSE copy(S, copy(S, ptr[e - 1], esize), eskip)
    BY <2>5 DEF ShapeTurn
  <2> HIDE DEF h
  <2>9. \A e \in 1..actual : ptr[e] =
          IF e = 1 THEN copy(S, start, offset) ELSE copy(S, copy(S, ptr[e - 1], esize), eskip)
    BY <2>7, <2>8, Zenon DEF h
  <2> DEFINE B == {d \in Nat : d + 1 <= actual => At(S, beg, ptr[d + 1], Elem(offset, step, d + 1))}
  <2>10. 0 \in B
    <3>1. SUFFICES ASSUME 1 <= actual PROVE At(S, beg, ptr[1], Elem(offset, step, 1))
      OBVIOUS
    <3>2. ptr[1] = copy(S, start, offset)
      BY <3>1, <2>5, <2>9
    <3>3. Elem(offset, step, 1) = offset
      BY ElemNat
    <3>4. 0 + offset = offset /\ 0 + offset <= size(S) /\ 0 \in Nat
      BY <1>2, <1>5
    <3>5. At(S, beg, copy(S, start, offset), 0 + offset)
      BY <3>4, <1>1, StartAt, CopyFit
    <3> QED
      BY <3>2, <3>3, <3>4, <3>5
  <2>11. ASSUME NEW d \in B PROVE d + 1 \in B
    <3>1. d \in Nat /\ d + 1 \in Nat /\ d + 1 \in Nat \ {0}
      OBVIOUS
    <3>2. SUFFICES ASSUME (d + 1) + 1 <= actual PROVE At(S, beg, ptr[(d + 1) + 1], Elem(offset, step, (d + 1) + 1))
      BY <3>1
    <3>3. PICK e : e = d + 1
      OBVIOUS
    <3>4. e \in Nat \ {0} /\ e + 1 \in 1..actual /\ e \in 1..actual /\ e + 1 # 1 /\ (e + 1) - 1 = e /\ e \in 1..ecount
          /\ e + 1 \in 1..ecount
      BY <3>1, <3>2, <3>3, <2>5
    <3>5. At(S, beg, ptr[e], Elem(offset, step, e))
      BY <3>1, <3>2, <3>3, <2>5
    <3>6. PICK p \in Nat : p = Elem(offset, step, e)
      BY <3>4, ElemNat
    <3>7. Elem(offset, step, e + 1) = p + step /\ p + esize <= size(S) /\ (p + step) + esize <= size(S)
      <4>1. Elem(offset, step, e) + esize <= N
        BY <3>4, <2>6
      <4>2. Elem(offset, step, e + 1) + esize <= N
        BY <3>4, <2>6
      <4>3. Elem(offset, step, e + 1) = p + step
        BY <3>4, <3>6, ElemNat
      <4> QED
        BY <4>1, <4>2, <4>3, <3>6, <1>2
    <3>8. PICK c : c = copy(S, ptr[e], esize)
      OBVIOUS
    <3>9. At(S, beg, c, p + esize)
      BY <3>5, <3>6, <3>7, <3>8, <1>1, CopyFit
    <3>10. p + esize \in Nat /\ (p + esize) + eskip = p + step /\ (p + esize) + eskip <= size(S)
      BY <3>7, <1>3, <1>2
    <3>11. At(S, beg, copy(S, c, eskip), (p + esize) + eskip)
      BY <3>9, <3>10, <1>1, <1>3, CopyFit
    <3>12. ptr[e + 1] = copy(S, c, eskip)
      BY <3>4, <3>8, <2>9
    <3> QED
      BY <3>3, <3>7, <3>10, <3>11, <3>12
  <2> HIDE DEF B
  <2>12. ASSUME NEW e \in 1..actual PROVE At(S, beg, ptr[e], Elem(offset, step, e))
    <3>1. e - 1 \in Nat /\ (e - 1) + 1 = e /\ e <= actual
      BY <2>5
    <3>2. e - 1 \in B
      BY <2>10, <2>11, <3>1, AllNat DEF B
    <3> QED
      BY <3>1, <3>2 DEF B
  <2>13. ASSUME NEW e \in 1..actual
         PROVE  /\ out(S, copy(S, ptr[e], esize).passed) \in Seq(V)
                /\ out(S, copy(S, ptr[e], esize).passed) =
                     SubSeq(FlattenSeq(S), Elem(offset, step, e) + 1, Elem(offset, step, e) + esize)
    <3>1. e \in 1..ecount /\ e <= actual /\ e \in Nat \ {0}
      BY <2>5
    <3>2. PICK p \in Nat : p = Elem(offset, step, e)
      BY <3>1, ElemNat
    <3>3. p + esize <= size(S) /\ At(S, beg, ptr[e], p)
      BY <3>1, <3>2, <2>6, <2>12, <1>2
    <3>4. /\ out(S, copy(S, ptr[e], esize).passed) \in Seq(V)
          /\ out(S, copy(S, ptr[e], esize).passed) = SubSeq(FlattenSeq(S), p + 1, p + esize)
      BY <3>3, <1>1, CopyFit
    <3> QED
      BY <3>2, <3>4
  <2>14. PICK r : r = copyout_shape(S, offset, esize, eskip, ecount)
    OBVIOUS
  <2> DEFINE o(e) == out(S, copy(S, ptr[e], esize).passed)
  <2>15. r = [e \in 1..actual |-> o(e)]
    BY <2>1, <2>14, Zenon
  <2>16. \A e \in 1..actual :
           o(e) \in Seq(V) /\ o(e) = SubSeq(FlattenSeq(S), Elem(offset, step, e) + 1, Elem(offset, step, e) + esize)
    BY <2>13, Zenon
  <2> HIDE DEF o
  <2>17. r \in Seq(Seq(V)) /\ Len(r) = actual /\ \A e \in 1..actual : r[e] = o(e)
    BY <2>5, <2>15, <2>16
  <2>18. Shaped(V, FlattenSeq(S), offset, esize, step, ecount, r)
    BY <1>2, <2>5, <2>6, <2>16, <2>17 DEF Shaped
  <2> QED
    BY <2>14, <2>18
<1> QED
  BY <1>4, <1>5

----------------------------------------------------------------------------
\* copyout() returns the bytes if they are all there, otherwise nothing.
LEMMA CopyoutIs ==
  ASSUME NEW V, NEW S \in Seq(Seq(V)), NEW offset \in Nat, NEW n \in Nat \ {0}
  PROVE  copyout(S, offset, n) =
           IF offset + n <= Len(FlattenSeq(S)) THEN <<SubSeq(FlattenSeq(S), offset + 1, offset + n)>> ELSE <<>>
<1>1. PICK r : r = copyout(S, offset, n)
  OBVIOUS
<1>2. Shaped(V, FlattenSeq(S), offset, n, n, 1, r)
  <2>1. 0 = n - n /\ n <= n /\ n \in Nat /\ 1 \in Nat
    OBVIOUS
  <2> QED
    BY <1>1, <2>1, ShapedIs DEF copyout
<1>3. Elem(offset, n, 1) = offset
  BY ElemNat
<1>4. PICK f : f = SubSeq(FlattenSeq(S), offset + 1, offset + n)
  OBVIOUS
<1>5. /\ r \in Seq(Seq(V)) /\ Len(r) \in Nat /\ Len(r) <= 1
      /\ Len(r) = 1 <=> offset + n <= Len(FlattenSeq(S))
      /\ Len(r) = 1 => r[1] = f
  <2>1. r \in Seq(Seq(V)) /\ Len(r) \in Nat /\ Len(r) <= 1
    BY <1>2, SeqElt DEF Shaped
  <2>2. 1 <= Len(r) <=> offset + n <= Len(FlattenSeq(S))
    BY <1>2, <1>3 DEF Shaped
  <2>3. 1 \in 1..Len(r) => r[1] = f
    BY <1>2, <1>3, <1>4 DEF Shaped
  <2>4. PICK l \in Nat : l = Len(r)
    BY <2>1
  <2>5. l <= 1 /\ (1 <= l <=> l = 1) /\ (l = 1 => 1 \in 1..l)
    BY <2>1, <2>4
  <2> QED
    BY <2>1, <2>2, <2>3, <2>4, <2>5, Zenon
<1>6. CASE Len(r) = 1
  <2>1. r = <<r[1]>>
    BY <1>5, <1>6
  <2> QED
    BY <2>1, <1>1, <1>4, <1>5, <1>6, Zenon
<1>7. CASE Len(r) # 1
  <2>0. PICK l \in Nat : l = Len(r)
    BY <1>5
  <2>1. r = <<>>
    <3>1. l <= 1 /\ l # 1
      BY <2>0, <1>5, <1>7, Zenon
    <3>2. Len(r) = 0
      BY <3>1, <2>0
    <3> QED
      BY <3>2, <1>5
  <2> QED
    BY <2>1, <1>1, <1>5, <1>7, Zenon
<1> QED
  BY <1>6, <1>7

\* What Reverse does.
LEMMA ReverseIs ==
  ASSUME NEW V, NEW s \in Seq(V)
  PROVE  /\ Reverse(s) \in Seq(V) /\ Len(Reverse(s)) = Len(s)
         /\ \A i \in 1..Len(s) : Reverse(s)[i] = s[(Len(s) - i) + 1]
  BY DEF Reverse

\* FlatBlock has operators of its own by these names.
LEMMA SameReverse ==
  ASSUME NEW s
  PROVE  Flat!Reverse(s) = Reverse(s)
  BY Zenon DEF Reverse, Flat!Reverse

\* Likewise.
LEMMA SameMin ==
  ASSUME NEW s
  PROVE  Flat!Min(s) = Min(s)
  BY Zenon DEF Min, Flat!Min

----------------------------------------------------------------------------
\* One more piece makes the whole longer by that piece.
LEMMA FlatAppend ==
  ASSUME NEW V, NEW S \in Seq(Seq(V)), NEW x \in Seq(V)
  PROVE  Append(S, x) \in Seq(Seq(V)) /\ FlattenSeq(Append(S, x)) = FlattenSeq(S) \o x
<1>1. PICK beg : Begins(S, beg)
  BY BeginsExists
<1>2. PICK T : T = Append(S, x)
  OBVIOUS
<1>3. Len(S) \in Nat /\ Len(x) \in Nat /\ \A k \in 1..Len(S) : Len(S[k]) \in Nat
  BY SeqElt
<1>4. /\ T \in Seq(Seq(V)) /\ Len(T) = Len(S) + 1
      /\ \A k \in 1..Len(S) : T[k] = S[k]
      /\ T[Len(S) + 1] = x
  BY <1>2, <1>3
<1>5. \A k \in 1..Len(S) + 1 : beg[k] \in Nat
  BY <1>1 DEF Begins
<1>6. PICK N \in Nat : N = beg[Len(S) + 1]
  BY <1>3, <1>5
<1> DEFINE b == [k \in 1..Len(T) + 1 |-> IF k <= Len(S) + 1 THEN beg[k] ELSE N + Len(x)]
<1>7. (\A k \in 1..Len(S) + 1 : b[k] = beg[k]) /\ b[Len(T) + 1] = N + Len(x)
  BY <1>3, <1>4
<1>8. b \in [1..Len(T) + 1 -> Nat]
  BY <1>3, <1>4, <1>5, <1>6, SMTT(30)
<1> HIDE DEF b
<1>9. Begins(T, b)
  <2>1. b[1] = 0
    BY <1>1, <1>3, <1>7 DEF Begins
  <2>2. ASSUME NEW k \in 1..Len(T) PROVE b[k + 1] = b[k] + Len(T[k])
    <3>1. CASE k = Len(S) + 1
      <4>1. k \in 1..Len(S) + 1 /\ k + 1 = Len(T) + 1
        BY <3>1, <1>3, <1>4
      <4>2. b[k] = N /\ b[k + 1] = N + Len(x) /\ T[k] = x
        BY <4>1, <3>1, <1>4, <1>6, <1>7
      <4> QED
        BY <4>2
    <3>2. CASE k # Len(S) + 1
      <4>1. k \in 1..Len(S) /\ k \in 1..Len(S) + 1 /\ k + 1 \in 1..Len(S) + 1
        BY <3>2, <1>3, <1>4
      <4>2. b[k] = beg[k] /\ b[k + 1] = beg[k + 1] /\ T[k] = S[k]
        BY <4>1, <1>4, <1>7
      <4>3. beg[k + 1] = beg[k] + Len(S[k])
        BY <4>1, <1>1 DEF Begins
      <4> QED
        BY <4>2, <4>3
    <3> QED
      BY <3>1, <3>2
  <2> QED
    BY <2>1, <2>2, <1>8 DEF Begins
<1>10. PICK G : G = FlattenSeq(T)
  OBVIOUS
<1>11. PICK F : F = FlattenSeq(S)
  OBVIOUS
<1>12. /\ G \in Seq(V) /\ Len(G) = b[Len(T) + 1]
       /\ \A k \in 1..Len(T) : \A i \in 1..Len(T[k]) : G[b[k] + i] = T[k][i]
  <2>1. Flattens(V, T, b, G)
    BY <1>4, <1>9, <1>10, FlattenWhole
  <2> QED
    BY <2>1, Zenon DEF Flattens
<1>13. /\ F \in Seq(V) /\ Len(F) = N
       /\ \A k \in 1..Len(S) : \A i \in 1..Len(S[k]) : F[beg[k] + i] = S[k][i]
  <2>1. Flattens(V, S, beg, F)
    BY <1>1, <1>11, FlattenWhole
  <2> QED
    BY <2>1, <1>6, Zenon DEF Flattens
<1>14. PICK u : u = F \o x
  OBVIOUS
<1>15. Join(V, F, x, u)
  BY <1>13, <1>14, Joined
<1>16. u \in Seq(V) /\ Len(u) = N + Len(x) /\ Len(G) = Len(u)
  BY <1>7, <1>12, <1>13, <1>15 DEF Join
<1>17. ASSUME NEW q \in 1..Len(G) PROVE G[q] = u[q]
  <2>1. q \in Nat /\ q <= N + Len(x) /\ q >= 1
    BY <1>3, <1>6, <1>16
  <2>2. CASE q <= N
    <3>1. q \in 1..beg[Len(S) + 1]
      BY <2>1, <2>2, <1>6
    <3>2. Lies(S, beg, q)
      BY <3>1, <1>1, Locate
    <3>3. PICK k \in 1..Len(S) : \E i \in 1..Len(S[k]) : q = beg[k] + i
      BY <3>2 DEF Lies
    <3>4. PICK i \in 1..Len(S[k]) : q = beg[k] + i
      BY <3>3
    <3>5. k \in 1..Len(T) /\ T[k] = S[k] /\ b[k] = beg[k]
      BY <1>3, <1>4, <1>7
    <3>6. G[q] = S[k][i] /\ F[q] = S[k][i]
      BY <3>4, <3>5, <1>12, <1>13
    <3>7. q \in 1..Len(F)
      BY <2>1, <2>2, <1>13
    <3>8. u[q] = F[q]
      BY <3>7, <1>15 DEF Join
    <3> QED
      BY <3>6, <3>8
  <2>3. CASE ~(q <= N)
    <3>1. PICK i \in 1..Len(x) : q = N + i
      <4>1. q - N \in 1..Len(x) /\ q = N + (q - N)
        BY <2>1, <2>3, <1>3
      <4> QED
        BY <4>1
    <3>2. Len(S) + 1 \in 1..Len(T) /\ b[Len(S) + 1] = N
      BY <1>3, <1>4, <1>6, <1>7
    <3>3. G[q] = x[i]
      BY <3>1, <3>2, <1>4, <1>12
    <3>4. u[q] = x[i]
      BY <3>1, <1>13, <1>15 DEF Join
    <3> QED
      BY <3>3, <3>4
  <2> QED
    BY <2>2, <2>3
<1>18. G = u
  BY <1>12, <1>16, <1>17, SeqEqual
<1> QED
  BY <1>2, <1>4, <1>10, <1>11, <1>14, <1>18, Zenon

\* However the bytes are cut, put together they are the same.
LEMMA PiecesFlat ==
  ASSUME NEW V, NEW bytes \in Seq(V), NEW S \in Pieces(bytes)
  PROVE  S \in Seq(Seq(V)) /\ FlattenSeq(S) = bytes
<1>1. Len(bytes) \in Nat
  BY SeqElt
<1> DEFINE g == CHOOSE h : h = PieceTurn(bytes, h)
<1>2. g = PieceTurn(bytes, g)
  <2>1. \E h : h = PieceTurn(bytes, h)
    BY <1>1, PieceExists
  <2> QED
    BY <2>1, Zenon
<1>3. Pieces(bytes) = g[Len(bytes)]
  BY PiecesIs
<1> HIDE DEF g
<1> DEFINE h == PieceTurn(bytes, g)
<1>4. \A n \in 0..Len(bytes) : h[n] = IF n = 0 THEN {<<>>} ELSE Cuts(bytes, g, n)
  BY <1>1 DEF PieceTurn
<1> HIDE DEF h
<1>5. \A n \in 0..Len(bytes) : g[n] = IF n = 0 THEN {<<>>} ELSE Cuts(bytes, g, n)
  BY <1>2, <1>4, Zenon DEF h
<1> DEFINE Good(n) == \A T \in g[n] : T \in Seq(Seq(V)) /\ FlattenSeq(T) = SubSeq(bytes, 1, n)
           B == {d \in Nat : \A n \in 0..Len(bytes) : n <= d => Good(n)}
<1>6. Good(0)
  <2>1. g[0] = {<<>>}
    BY <1>1, <1>5
  <2>2. <<>> \in Seq(Seq(V)) /\ SubSeq(bytes, 1, 0) = <<>>
    OBVIOUS
  <2>3. FlattenSeq(<<>>) = <<>>
    BY DEF FlattenSeq
  <2> QED
    BY <2>1, <2>2, <2>3, Zenon
<1>7. ASSUME NEW n \in 0..Len(bytes), n # 0, \A m \in 0..n - 1 : Good(m) PROVE Good(n)
  <2>1. SUFFICES ASSUME NEW T \in g[n] PROVE T \in Seq(Seq(V)) /\ FlattenSeq(T) = SubSeq(bytes, 1, n)
    OBVIOUS
  <2>2. T \in Cuts(bytes, g, n)
    BY <1>5, <1>7
  <2>3. IsCut(bytes, g, n, T)
    BY <2>2, CutsAre
  <2>4. PICK m \in 0..n - 1 : \E R \in g[m] : T = Append(R, SubSeq(bytes, m + 1, n))
    BY <2>3 DEF IsCut
  <2>5. PICK R \in g[m] : T = Append(R, SubSeq(bytes, m + 1, n))
    BY <2>4
  <2>6. R \in Seq(Seq(V)) /\ FlattenSeq(R) = SubSeq(bytes, 1, m)
    BY <1>7
  <2>7. n \in Nat /\ m \in Nat /\ m <= n /\ n <= Len(bytes)
    BY <1>1
  <2>8. PICK x : x = SubSeq(bytes, m + 1, n)
    OBVIOUS
  <2>9. PICK a : a = SubSeq(bytes, 1, m)
    OBVIOUS
  <2>10. PICK c : c = SubSeq(bytes, 1, n)
    OBVIOUS
  <2>11. /\ x \in Seq(V) /\ Len(x) = n - m /\ \A i \in 1..(n - m) : x[i] = bytes[m + i]
    BY <2>7, <2>8
  <2>12. /\ a \in Seq(V) /\ Len(a) = m /\ \A i \in 1..m : a[i] = bytes[i]
    BY <2>7, <2>9
  <2>13. /\ c \in Seq(V) /\ Len(c) = n /\ \A i \in 1..n : c[i] = bytes[i]
    BY <2>7, <2>10
  <2>14. PICK u : u = a \o x
    OBVIOUS
  <2>15. Join(V, a, x, u)
    BY <2>11, <2>12, <2>14, Joined
  <2>16. u \in Seq(V) /\ Len(u) = n
    BY <2>7, <2>11, <2>12, <2>15 DEF Join
  <2>17. ASSUME NEW i \in 1..Len(u) PROVE u[i] = c[i]
    <3>1. i \in Nat /\ i >= 1 /\ i <= n
      BY <2>7, <2>16
    <3>2. CASE i <= m
      <4>1. i \in 1..m
        BY <3>1, <3>2, <2>7
      <4>2. u[i] = a[i]
        BY <4>1, <2>12, <2>15 DEF Join
      <4>3. a[i] = bytes[i] /\ c[i] = bytes[i]
        BY <4>1, <3>1, <2>7, <2>12, <2>13
      <4> QED
        BY <4>2, <4>3
    <3>3. CASE ~(i <= m)
      <4>1. i - m \in 1..(n - m) /\ m + (i - m) = i
        BY <3>1, <3>3, <2>7
      <4>2. u[m + (i - m)] = x[i - m]
        BY <4>1, <2>11, <2>12, <2>15 DEF Join
      <4>3. x[i - m] = bytes[i] /\ c[i] = bytes[i]
        BY <4>1, <3>1, <2>7, <2>11, <2>13
      <4> QED
        BY <4>1, <4>2, <4>3
    <3> QED
      BY <3>2, <3>3
  <2>18. u = c
    BY <2>13, <2>16, <2>17, SeqEqual
  <2>19. T \in Seq(Seq(V)) /\ FlattenSeq(T) = FlattenSeq(R) \o x
    BY <2>5, <2>6, <2>8, <2>11, FlatAppend
  <2> QED
    BY <2>6, <2>9, <2>10, <2>14, <2>18, <2>19, Zenon
<1> HIDE DEF Good
<1>8. 0 \in B
  BY <1>1, <1>6
<1>9. ASSUME NEW d \in B PROVE d + 1 \in B
  <2>1. SUFFICES ASSUME NEW n \in 0..Len(bytes), n <= d + 1, n # 0 PROVE Good(n)
    BY <1>6
  <2>2. \A m \in 0..n - 1 : Good(m)
    BY <1>1, <2>1
  <2> QED
    BY <2>1, <2>2, <1>7
<1> HIDE DEF B
<1>10. Len(bytes) \in B
  BY <1>1, <1>8, <1>9, AllNat DEF B
<1>11. Good(Len(bytes))
  BY <1>1, <1>10 DEF B
<1>12. SubSeq(bytes, 1, Len(bytes)) = bytes
  OBVIOUS
<1>13. S \in g[Len(bytes)]
  BY <1>3
<1> QED
  BY <1>11, <1>12, <1>13 DEF Good

----------------------------------------------------------------------------
\* Parts of sequences.
IsPart(W, s, a, n, r) ==
  /\ r \in Seq(W) /\ Len(r) = n
  /\ \A i \in 1..n : r[i] = s[a + i]

\* What SubSeq returns.
LEMMA PartIs ==
  ASSUME NEW W, NEW s \in Seq(W), NEW a \in Nat, NEW n \in Nat, NEW b, b = a + n, b <= Len(s)
  PROVE  IsPart(W, s, a, n, SubSeq(s, a + 1, b))
<1>1. PICK r : r = SubSeq(s, a + 1, b)
  OBVIOUS
<1>2. r \in Seq(W) /\ Len(r) = n /\ \A i \in 1..n : r[i] = s[a + i]
  <2>1. r = SubSeq(s, a + 1, a + n)
    BY <1>1
  <2>2. a + n <= Len(s) /\ Len(s) \in Nat /\ a + 1 \in Nat /\ a + n \in Nat
    OBVIOUS
  <2>3. r \in Seq(W)
    BY <2>1, <2>2
  <2>4. Len(r) = n
    BY <2>1, <2>2
  <2>5. ASSUME NEW i \in 1..n PROVE r[i] = s[a + i]
    <3>1. i \in 1..Len(r) /\ (a + 1) + i - 1 = a + i
      BY <2>4
    <3> QED
      BY <2>1, <2>2, <3>1
  <2> QED
    BY <2>3, <2>4, <2>5
<1> QED
  BY <1>1, <1>2 DEF IsPart

\* A part of one element.
LEMMA SubSeqOne ==
  ASSUME NEW W, NEW s \in Seq(W), NEW a \in Nat, a + 1 <= Len(s)
  PROVE  SubSeq(s, a + 1, a + 1) = <<s[a + 1]>>
<1>1. PICK t : t = SubSeq(s, a + 1, a + 1)
  OBVIOUS
<1>2. IsPart(W, s, a, 1, t)
  BY <1>1, PartIs
<1>3. t \in Seq(W) /\ Len(t) = 1 /\ t[1] = s[a + 1]
  BY <1>2 DEF IsPart
<1>4. t = <<s[a + 1]>>
  BY <1>3
<1> QED
  BY <1>1, <1>4

\* A part of s is a sequence with the same elements.
LEMMA PartSame ==
  ASSUME NEW W, NEW s \in Seq(W), NEW a \in Nat, NEW n \in Nat, NEW b, b = a + n, b <= Len(s),
         NEW r, NEW U, r \in Seq(U), Len(r) = n, \A i \in 1..n : s[a + i] = r[i]
  PROVE  SubSeq(s, a + 1, b) = r
<1>1. PICK t : t = SubSeq(s, a + 1, b)
  OBVIOUS
<1>2. IsPart(W, s, a, n, t)
  BY <1>1, PartIs
<1>3. t \in Seq(W) /\ Len(t) = n /\ \A i \in 1..n : t[i] = r[i]
  BY <1>2 DEF IsPart
<1>4. t = r
  BY <1>3
<1> QED
  BY <1>1, <1>4

\* put() of bytes after the first at bytes of mem.
IsPut(W, mem, at, bytes, m) ==
  /\ m \in Seq(W) /\ Len(m) = Len(mem)
  /\ \A q \in 1..Len(mem) : m[q] = IF q \in at + 1 .. at + Len(bytes) THEN bytes[q - at] ELSE mem[q]

\* What put returns.
LEMMA PutIs ==
  ASSUME NEW W, NEW mem \in Seq(W), NEW at \in Nat, NEW bytes \in Seq(W)
  PROVE  IsPut(W, mem, at, bytes, put(mem, at, bytes))
<1>1. Len(mem) \in Nat /\ DOMAIN mem = 1..Len(mem) /\ Len(bytes) \in Nat
  OBVIOUS
<1> DEFINE x(q) == IF q \in at + 1 .. at + Len(bytes) THEN bytes[q - at] ELSE mem[q]
<1>2. put(mem, at, bytes) = [q \in 1..Len(mem) |-> x(q)]
  BY <1>1, Zenon DEF put
<1>3. ASSUME NEW q \in 1..Len(mem) PROVE x(q) \in W
  <2>1. CASE q \in at + 1 .. at + Len(bytes)
    <3>1. q - at \in 1..Len(bytes)
      BY <2>1, <1>1
    <3>2. bytes[q - at] \in W
      BY <3>1, SeqElt
    <3> QED
      BY <2>1, <3>2
  <2>2. CASE ~(q \in at + 1 .. at + Len(bytes))
    BY <2>2, SeqElt
  <2> QED
    BY <2>1, <2>2
<1> HIDE DEF x
<1>4. PICK m : m = put(mem, at, bytes)
  OBVIOUS
<1>5. m \in Seq(W) /\ Len(m) = Len(mem) /\ \A q \in 1..Len(mem) : m[q] = x(q)
  BY <1>1, <1>2, <1>3, <1>4
<1>6. IsPut(W, mem, at, bytes, m)
  BY <1>5 DEF IsPut, x
<1> QED
  BY <1>4, <1>6

\* Element i of the array before it is expanded, and the double made of it.
Raw(mem, i) == SubSeq(mem, (i - 1) * WfSize + 1, i * WfSize)
Dbl(mem, i) == Flat!double(Reverse(Raw(mem, i)))

\* Elements i and up are doubles, those below are as they were.
Expanding(W, mem, nelem, i, m) ==
  /\ m \in Seq(W) /\ Len(m) = Len(mem)
  /\ \A q \in 1..(i - 1) * WfSize : m[q] = mem[q]
  /\ \A l \in i..nelem : \A j \in 1..DblSize : m[(l - 1) * DblSize + j] = Dbl(mem, l)[j]

\* An array with room for nelem doubles.
Room(V, W, mem, nelem) ==
  /\ V \subseteq W /\ \A r \in Seq(V), k \in 1..DblSize : <<"double", r, k>> \in W
  /\ mem \in Seq(V) /\ mem \in Seq(W) /\ nelem \in Nat /\ nelem * DblSize <= Len(mem)
  /\ WfSize \in Nat \ {0} /\ DblSize \in Nat /\ WfSize <= DblSize

\* Where element i and double i lie.
LEMMA Places ==
  ASSUME NEW V, NEW W, NEW mem, NEW nelem, Room(V, W, mem, nelem), NEW i \in 1..nelem
  PROVE  /\ (i - 1) * WfSize \in Nat /\ (i - 1) * DblSize \in Nat
         /\ i * WfSize = (i - 1) * WfSize + WfSize /\ i * DblSize = (i - 1) * DblSize + DblSize
         /\ (i - 1) * WfSize <= (i - 1) * DblSize
         /\ i * DblSize <= Len(mem) /\ i * WfSize <= Len(mem)
<1>1. /\ nelem \in Nat /\ nelem * DblSize <= Len(mem) /\ WfSize \in Nat /\ DblSize \in Nat /\ WfSize <= DblSize
      /\ Len(mem) \in Nat
  BY DEF Room
<1>2. i \in Nat /\ i - 1 \in Nat /\ (i - 1) + 1 = i /\ i <= nelem
  BY <1>1
<1>3. /\ (i - 1) * WfSize \in Nat /\ (i - 1) * DblSize \in Nat
      /\ i * WfSize \in Nat /\ i * DblSize \in Nat /\ nelem * DblSize \in Nat
  BY <1>1, <1>2, MulNat
<1>4. i * WfSize = (i - 1) * WfSize + WfSize
  BY <1>1, <1>2, MulNext
<1>5. i * DblSize = (i - 1) * DblSize + DblSize
  BY <1>1, <1>2, MulNext
<1>6. (i - 1) * WfSize <= (i - 1) * DblSize
  <2>1. \A a, b, c \in Nat : a <= b => c * a <= c * b
    OBVIOUS
  <2> QED
    BY <2>1, <1>1, <1>2
<1>7. i * DblSize <= nelem * DblSize
  BY <1>1, <1>2, MulMono
<1> QED
  BY <1>1, <1>3, <1>4, <1>5, <1>6, <1>7

\* The elements and their doubles are sequences of their lengths.
LEMMA DblIs ==
  ASSUME NEW V, NEW W, NEW mem, NEW nelem, Room(V, W, mem, nelem), NEW i \in 1..nelem
  PROVE  /\ Raw(mem, i) \in Seq(V) /\ Len(Raw(mem, i)) = WfSize
         /\ Dbl(mem, i) \in Seq(W) /\ Len(Dbl(mem, i)) = DblSize
<1>1. mem \in Seq(V) /\ WfSize \in Nat /\ DblSize \in Nat /\ \A r \in Seq(V), k \in 1..DblSize : <<"double", r, k>> \in W
  BY DEF Room
<1>2. (i - 1) * WfSize \in Nat /\ i * WfSize = (i - 1) * WfSize + WfSize /\ i * WfSize <= Len(mem)
  BY Places
<1>3. IsPart(V, mem, (i - 1) * WfSize, WfSize, Raw(mem, i))
  BY <1>1, <1>2, PartIs DEF Raw
<1>4. Raw(mem, i) \in Seq(V) /\ Len(Raw(mem, i)) = WfSize
  BY <1>3 DEF IsPart
<1>5. PICK r : r = Reverse(Raw(mem, i))
  OBVIOUS
<1>6. r \in Seq(V)
  BY <1>4, <1>5, ReverseIs
<1>7. PICK d : d = Dbl(mem, i)
  OBVIOUS
<1>8. d = [k \in 1..DblSize |-> <<"double", r, k>>]
  BY <1>5, <1>7, Zenon DEF Dbl, Flat!double
<1>9. d \in Seq(W) /\ Len(d) = DblSize
  BY <1>1, <1>6, <1>8
<1> QED
  BY <1>4, <1>7, <1>9

\* Making a double of element i leaves the elements below and the doubles above alone.
LEMMA ExpandStep ==
  ASSUME NEW V, NEW W, NEW mem, NEW nelem, Room(V, W, mem, nelem), NEW i \in 1..nelem,
         NEW m, Expanding(W, mem, nelem, i + 1, m)
  PROVE  Expanding(W, mem, nelem, i, put(m, (i - 1) * DblSize, Flat!double(Reverse(Raw(m, i)))))
<1>1. mem \in Seq(V) /\ WfSize \in Nat /\ DblSize \in Nat /\ nelem \in Nat /\ Len(mem) \in Nat /\ mem \in Seq(W)
  BY DEF Room
<1>2. i \in Nat /\ i - 1 \in Nat /\ (i + 1) - 1 = i
  BY <1>1
<1>3. PICK a \in Nat : a = (i - 1) * WfSize /\ i * WfSize = a + WfSize /\ a + WfSize <= Len(mem)
  BY Places
<1>4. PICK c \in Nat : c = (i - 1) * DblSize /\ i * DblSize = c + DblSize /\ c + DblSize <= Len(mem) /\ a <= c
  BY <1>3, Places
<1>5. /\ m \in Seq(W) /\ Len(m) = Len(mem)
      /\ \A q \in 1..(a + WfSize) : m[q] = mem[q]
      /\ \A l \in (i + 1)..nelem : \A j \in 1..DblSize : m[(l - 1) * DblSize + j] = Dbl(mem, l)[j]
  BY <1>2, <1>3 DEF Expanding
\* Element i is still there.
<1>6. Raw(m, i) = Raw(mem, i)
  <2>1. PICK r : r = Raw(mem, i)
    OBVIOUS
  <2>2. IsPart(W, mem, a, WfSize, r)
    BY <2>1, <1>1, <1>3, PartIs DEF Raw
  <2>3. r \in Seq(W) /\ Len(r) = WfSize /\ \A j \in 1..WfSize : r[j] = mem[a + j]
    BY <2>2 DEF IsPart
  <2>4. ASSUME NEW j \in 1..WfSize PROVE m[a + j] = r[j]
    <3>1. a + j \in 1..(a + WfSize)
      BY <1>1
    <3> QED
      BY <3>1, <2>3, <1>5
  <2>5. SubSeq(m, a + 1, a + WfSize) = r
    BY <2>3, <2>4, <1>1, <1>3, <1>5, PartSame
  <2> QED
    BY <2>1, <2>5, <1>3, Zenon DEF Raw
<1>7. PICK d : d = Dbl(mem, i)
  OBVIOUS
<1>8. d \in Seq(W) /\ Len(d) = DblSize /\ d = Flat!double(Reverse(Raw(m, i)))
  BY <1>6, <1>7, DblIs DEF Dbl
<1>9. PICK p : p = put(m, c, d)
  OBVIOUS
<1>10. IsPut(W, m, c, d, p)
  BY <1>5, <1>8, <1>9, PutIs
<1>11. /\ p \in Seq(W) /\ Len(p) = Len(mem)
       /\ \A q \in 1..Len(mem) : p[q] = IF q \in c + 1 .. c + DblSize THEN d[q - c] ELSE m[q]
  BY <1>5, <1>8, <1>10 DEF IsPut
<1>12. ASSUME NEW q \in 1..a PROVE p[q] = mem[q]
  <2>1. q \in Nat /\ q \in 1..(a + WfSize) /\ q \in 1..Len(mem) /\ ~(q \in c + 1 .. c + DblSize)
    BY <1>1, <1>3, <1>4
  <2> QED
    BY <2>1, <1>5, <1>11
<1>13. ASSUME NEW l \in i..nelem, NEW j \in 1..DblSize
       PROVE  p[(l - 1) * DblSize + j] = Dbl(mem, l)[j]
  <2>1. l \in 1..nelem /\ j \in Nat /\ j >= 1 /\ j <= DblSize
    BY <1>1, <1>2
  <2>2. PICK e \in Nat : e = (l - 1) * DblSize /\ e + DblSize <= Len(mem)
    BY <2>1, Places
  <2>3. e + j \in 1..Len(mem)
    BY <2>1, <2>2, <1>1
  <2>4. CASE l = i
    <3>1. e = c
      BY <2>2, <2>4, <1>4
    <3>2. e + j \in c + 1 .. c + DblSize /\ (e + j) - c = j
      BY <3>1, <2>1, <1>1
    <3>3. p[e + j] = d[j]
      BY <3>2, <2>3, <1>11
    <3> QED
      BY <3>3, <2>2, <2>4, <1>7
  <2>5. CASE l # i
    <3>1. l \in (i + 1)..nelem /\ i <= l - 1 /\ l - 1 \in Nat
      BY <2>1, <2>5, <1>1, <1>2
    <3>2. i * DblSize <= (l - 1) * DblSize
      BY <3>1, <1>1, <1>2, MulMono
    <3>3. c + DblSize <= e
      BY <3>2, <2>2, <1>4, Zenon
    <3>4. ~(e + j \in c + 1 .. c + DblSize)
      BY <3>3, <2>1, <2>2, <1>1
    <3>5. p[e + j] = m[e + j]
      BY <3>4, <2>3, <1>11
    <3>6. m[e + j] = Dbl(mem, l)[j]
      BY <3>1, <2>2, <1>5
    <3> QED
      BY <3>5, <3>6, <2>2
  <2> QED
    BY <2>4, <2>5
<1>14. Expanding(W, mem, nelem, i, p)
  BY <1>3, <1>11, <1>12, <1>13 DEF Expanding
<1> QED
  BY <1>4, <1>8, <1>9, <1>14, Zenon

\* Every element comes out as its double: none is overwritten before its turn.
LEMMA ExpandedIs ==
  ASSUME NEW V, NEW W, NEW mem, NEW nelem, Room(V, W, mem, nelem)
  PROVE  Expanding(W, mem, nelem, 1, expand(mem, nelem))
<1>1. mem \in Seq(W) /\ WfSize \in Nat /\ DblSize \in Nat /\ nelem \in Nat
  BY DEF Room
<1>2. PICK g : g = ExpandTurn(mem, nelem, g) /\ expand(mem, nelem) = g[1]
  <2>1. \E g : g = ExpandTurn(mem, nelem, g)
    BY <1>1, ExpandExists
  <2> DEFINE f == CHOOSE g : g = ExpandTurn(mem, nelem, g)
  <2>2. f = ExpandTurn(mem, nelem, f)
    BY <2>1, Zenon
  <2>3. expand(mem, nelem) = f[1]
    BY ExpandIs
  <2> HIDE DEF f
  <2> QED
    BY <2>2, <2>3, Zenon
<1> DEFINE h == ExpandTurn(mem, nelem, g)
<1>3. \A i \in 1..nelem + 1 : h[i] = IF i > nelem THEN mem
        ELSE put(g[i + 1], (i - 1) * DblSize, Flat!double(Reverse(SubSeq(g[i + 1], (i - 1) * WfSize + 1, i * WfSize))))
  BY <1>1 DEF ExpandTurn
<1> HIDE DEF h
<1>4. \A i \in 1..nelem + 1 : g[i] = IF i > nelem THEN mem
        ELSE put(g[i + 1], (i - 1) * DblSize, Flat!double(Reverse(Raw(g[i + 1], i))))
  BY <1>2, <1>3, Zenon DEF h, Raw
<1> DEFINE B == {d \in Nat : d <= nelem => Expanding(W, mem, nelem, (nelem + 1) - d, g[(nelem + 1) - d])}
<1>5. 0 \in B
  <2>1. (nelem + 1) - 0 = nelem + 1 /\ nelem + 1 \in 1..nelem + 1 /\ nelem + 1 > nelem
        /\ ~\E l \in (nelem + 1)..nelem : TRUE
    BY <1>1
  <2>2. g[nelem + 1] = mem
    BY <2>1, <1>4
  <2>3. Expanding(W, mem, nelem, nelem + 1, mem)
    BY <2>1, <1>1 DEF Expanding
  <2> QED
    BY <2>1, <2>2, <2>3
<1>6. ASSUME NEW d \in B PROVE d + 1 \in B
  <2>1. d \in Nat /\ d + 1 \in Nat
    OBVIOUS
  <2>2. SUFFICES ASSUME d + 1 <= nelem
                 PROVE  Expanding(W, mem, nelem, (nelem + 1) - (d + 1), g[(nelem + 1) - (d + 1)])
    BY <2>1
  <2>3. PICK i \in 1..nelem : i = (nelem + 1) - (d + 1) /\ i + 1 = (nelem + 1) - d /\ d <= nelem
    <3>1. (nelem + 1) - (d + 1) \in 1..nelem /\ ((nelem + 1) - (d + 1)) + 1 = (nelem + 1) - d /\ d <= nelem
      BY <2>1, <2>2, <1>1
    <3> QED
      BY <3>1
  <2>4. Expanding(W, mem, nelem, i + 1, g[i + 1])
    BY <2>1, <2>3
  <2>5. i \in 1..nelem + 1 /\ ~(i > nelem)
    BY <1>1
  <2>6. g[i] = put(g[i + 1], (i - 1) * DblSize, Flat!double(Reverse(Raw(g[i + 1], i))))
    BY <2>5, <1>4, Zenon
  <2>7. Expanding(W, mem, nelem, i, put(g[i + 1], (i - 1) * DblSize, Flat!double(Reverse(Raw(g[i + 1], i)))))
    BY <2>4, ExpandStep
  <2> QED
    BY <2>3, <2>6, <2>7, Zenon
<1> HIDE DEF B
<1>7. nelem \in B
  BY <1>1, <1>5, <1>6, AllNat DEF B
<1>8. (nelem + 1) - nelem = 1 /\ nelem <= nelem
  BY <1>1
<1>9. Expanding(W, mem, nelem, 1, g[1])
  BY <1>7, <1>8 DEF B
<1> QED
  BY <1>2, <1>9

\* Double n is the double of element n.
LEMMA DoubleIs ==
  ASSUME NEW V, NEW W, NEW mem, NEW nelem, Room(V, W, mem, nelem), NEW n \in 1..nelem
  PROVE  SubSeq(expand(mem, nelem), (n - 1) * DblSize + 1, n * DblSize) = Dbl(mem, n)
<1>1. mem \in Seq(W) /\ WfSize \in Nat /\ DblSize \in Nat /\ nelem \in Nat
  BY DEF Room
<1>2. PICK m : m = expand(mem, nelem)
  OBVIOUS
<1>3. PICK d : d = Dbl(mem, n)
  OBVIOUS
<1>4. PICK c \in Nat : c = (n - 1) * DblSize /\ n * DblSize = c + DblSize /\ c + DblSize <= Len(mem)
  BY Places
<1>5. m \in Seq(W) /\ Len(m) = Len(mem) /\ \A j \in 1..DblSize : m[c + j] = d[j]
  BY <1>1, <1>2, <1>3, <1>4, ExpandedIs DEF Expanding
<1>6. d \in Seq(W) /\ Len(d) = DblSize
  BY <1>3, DblIs
<1>7. SubSeq(m, c + 1, c + DblSize) = d
  BY <1>1, <1>4, <1>5, <1>6, PartSame
<1> QED
  BY <1>2, <1>3, <1>4, <1>7, Zenon

\* A sequence over a set is one over a larger set.
LEMMA SeqSub ==
  ASSUME NEW V, NEW W, V \subseteq W, NEW s \in Seq(V)
  PROVE  s \in Seq(W)
<1>1. Len(s) \in Nat /\ s = [i \in 1..Len(s) |-> s[i]] /\ \A i \in 1..Len(s) : s[i] \in W
  OBVIOUS
<1>2. s \in [1..Len(s) -> W]
  BY <1>1
<1> QED
  BY <1>1, <1>2

\* The assumptions on the sizes and offsets, one by one.
LEMMA ConstantTypes ==
  /\ WfOffset \in Nat /\ BytesOffset \in Nat /\ SiOffset \in Nat /\ TsOffset \in Nat /\ WfStep \in Nat
  /\ DblSize \in Nat /\ MaxString \in Nat \ {0}
  /\ RegSize \in Nat \ {0} /\ TsSize \in Nat \ {0} /\ WfSize \in Nat \ {0} /\ WfNelm \in Nat \ {0}
  /\ BytesNelm \in Nat \ {0}
  /\ WfSize <= DblSize /\ WfSize <= WfStep /\ SiOffset # MaxString - 1
  BY RegBlockAssumption

----------------------------------------------------------------------------
\* The array of read_wf_real() before it is expanded: the elements in a row.
Elements(V, elems) ==
  elems \in Seq(Seq(V)) /\ Len(elems) <= WfNelm /\ \A n \in 1..Len(elems) : Len(elems[n]) = WfSize

\* Element n of the array is element n of the message.
LEMMA ArrayIs ==
  ASSUME NEW V, Zero \in V, NEW elems, Elements(V, elems),
         NEW mem, mem = put([i \in 1..WfNelm * DblSize |-> Zero], 0, FlattenSeq(elems))
  PROVE  /\ mem \in Seq(V) /\ Len(mem) = WfNelm * DblSize /\ Len(elems) * DblSize <= Len(mem)
         /\ \A n \in 1..Len(elems) : Raw(mem, n) = elems[n]
<1>0. elems \in Seq(Seq(V)) /\ Len(elems) <= WfNelm /\ \A n \in 1..Len(elems) : Len(elems[n]) = WfSize
  BY DEF Elements
<1>1. WfSize \in Nat /\ DblSize \in Nat /\ WfSize <= DblSize /\ WfNelm \in Nat /\ Len(elems) \in Nat
  BY <1>0, ConstantTypes
<1>2. PICK M \in Nat : M = WfNelm * DblSize
  BY <1>1, MulNat
<1>3. PICK z : z = [i \in 1..M |-> Zero]
  OBVIOUS
<1>4. z \in Seq(V) /\ Len(z) = M
  BY <1>3
<1>5. PICK G : G = FlattenSeq(elems)
  OBVIOUS
<1>6. mem = put(z, 0, G)
  BY <1>2, <1>3, <1>5, Zenon
<1> DEFINE beg == [k \in 1..Len(elems) + 1 |-> (k - 1) * WfSize]
<1>7. ASSUME NEW k \in 1..Len(elems)
      PROVE  /\ (k - 1) * WfSize \in Nat /\ k * WfSize = (k - 1) * WfSize + WfSize
             /\ k * WfSize <= Len(elems) * WfSize
  <2>1. k - 1 \in Nat /\ (k - 1) + 1 = k /\ k \in Nat /\ k <= Len(elems)
    BY <1>1
  <2> QED
    BY <2>1, <1>1, MulNat, MulNext, MulMono
<1>8. Begins(elems, beg)
  <2>1. beg[1] = 0
    BY <1>1
  <2>2. ASSUME NEW k \in 1..Len(elems) + 1 PROVE beg[k] \in Nat
    <3>1. k - 1 \in Nat
      BY <1>1
    <3> QED
      BY <3>1, <1>1, MulNat
  <2>3. ASSUME NEW k \in 1..Len(elems) PROVE beg[k + 1] = beg[k] + Len(elems[k])
    <3>1. k \in 1..Len(elems) + 1 /\ k + 1 \in 1..Len(elems) + 1 /\ (k + 1) - 1 = k
      BY <1>1
    <3>2. beg[k] = (k - 1) * WfSize /\ beg[k + 1] = k * WfSize
      BY <3>1
    <3> HIDE DEF beg
    <3> QED
      BY <3>2, <1>0, <1>7
  <2>4. beg \in [1..Len(elems) + 1 -> Nat]
    BY <2>2
  <2> QED
    BY <2>1, <2>3, <2>4 DEF Begins
<1>9. beg[Len(elems) + 1] = Len(elems) * WfSize /\ \A k \in 1..Len(elems) : beg[k] = (k - 1) * WfSize
  BY <1>1
<1> HIDE DEF beg
<1>10. /\ G \in Seq(V) /\ Len(G) = Len(elems) * WfSize
       /\ \A k \in 1..Len(elems) : \A i \in 1..WfSize : G[(k - 1) * WfSize + i] = elems[k][i]
  <2>1. /\ G \in Seq(V) /\ Len(G) = beg[Len(elems) + 1]
        /\ \A k \in 1..Len(elems) : \A i \in 1..Len(elems[k]) : G[beg[k] + i] = elems[k][i]
    <3>1. Flattens(V, elems, beg, G)
      BY <1>0, <1>5, <1>8, FlattenWhole
    <3> QED
      BY <3>1, Zenon DEF Flattens
  <2> QED
    BY <2>1, <1>0, <1>9
<1>11. IsPut(V, z, 0, G, mem)
  BY <1>4, <1>6, <1>10, PutIs
<1>12. /\ mem \in Seq(V) /\ Len(mem) = M
       /\ \A q \in 1..M : q <= Len(G) => mem[q] = G[q]
  <2>1. /\ mem \in Seq(V) /\ Len(mem) = M
        /\ \A q \in 1..M : mem[q] = IF q \in 0 + 1 .. 0 + Len(G) THEN G[q - 0] ELSE z[q]
    BY <1>4, <1>11 DEF IsPut
  <2>2. Len(G) \in Nat
    BY <1>10
  <2>3. ASSUME NEW q \in 1..M, q <= Len(G) PROVE mem[q] = G[q]
    <3>1. q \in 0 + 1 .. 0 + Len(G) /\ q - 0 = q
      BY <2>2, <2>3
    <3> QED
      BY <3>1, <2>1
  <2> QED
    BY <2>1, <2>3
<1>13. Len(elems) * DblSize <= M /\ Len(elems) * WfSize <= M
  <2>1. Len(elems) * DblSize <= WfNelm * DblSize
    BY <1>0, <1>1, MulMono
  <2>2. \A a, b, c \in Nat : a <= b => c * a <= c * b
    OBVIOUS
  <2>3. Len(elems) * WfSize <= Len(elems) * DblSize
    BY <2>2, <1>1
  <2>4. Len(elems) * WfSize \in Nat /\ Len(elems) * DblSize \in Nat
    BY <1>1, MulNat
  <2> QED
    BY <2>1, <2>3, <2>4, <1>2
<1>14. ASSUME NEW n \in 1..Len(elems) PROVE Raw(mem, n) = elems[n]
  <2>1. PICK a \in Nat : a = (n - 1) * WfSize /\ n * WfSize = a + WfSize /\ a + WfSize <= Len(G)
    BY <1>7, <1>10
  <2>2. Len(G) \in Nat /\ Len(G) <= M
    BY <1>10, <1>13
  <2>3. elems[n] \in Seq(V) /\ Len(elems[n]) = WfSize
    BY <1>0, SeqElt
  <2>4. ASSUME NEW i \in 1..WfSize PROVE mem[a + i] = elems[n][i]
    <3>1. a + i \in 1..M /\ a + i <= Len(G)
      <4>1. PICK L \in Nat : L = Len(G)
        BY <2>2
      <4>2. a + WfSize <= L /\ L <= M
        BY <4>1, <2>1, <2>2, Zenon
      <4>3. a + i \in 1..M /\ a + i <= L
        BY <4>2, <1>1
      <4> QED
        BY <4>1, <4>3, Zenon
    <3>2. mem[a + i] = G[a + i]
      BY <3>1, <1>12
    <3>3. G[a + i] = elems[n][i]
      BY <2>1, <1>10
    <3> QED
      BY <3>2, <3>3
  <2>5. a + WfSize <= Len(mem)
    BY <2>1, <2>2, <1>1, <1>12
  <2>6. SubSeq(mem, a + 1, a + WfSize) = elems[n]
    <3>1. PICK e : e = elems[n]
      OBVIOUS
    <3>2. e \in Seq(V) /\ Len(e) = WfSize /\ \A i \in 1..WfSize : mem[a + i] = e[i]
      BY <3>1, <2>3, <2>4, Zenon
    <3>3. SubSeq(mem, a + 1, a + WfSize) = e
      <4>1. mem \in Seq(V) /\ WfSize \in Nat
        BY <1>1, <1>12
      <4>2. IsPart(V, mem, a, WfSize, SubSeq(mem, a + 1, a + WfSize))
        BY <4>1, <2>5, PartIs
      <4>3. PICK t : t = SubSeq(mem, a + 1, a + WfSize)
        OBVIOUS
      <4>4. t \in Seq(V) /\ Len(t) = WfSize /\ \A i \in 1..WfSize : t[i] = e[i]
        BY <4>2, <4>3, <3>2 DEF IsPart
      <4>5. t = e
        BY <3>2, <4>4, SeqEqual
      <4> QED
        BY <4>3, <4>5
    <3> QED
      BY <3>1, <3>3
  <2> QED
    BY <2>1, <2>6, Zenon DEF Raw
<1> QED
  BY <1>2, <1>12, <1>13, <1>14

\* The waveform as read_wf_real() has it in the array, and as the block has it.
Doubles(elems, bptr) == [n \in 1..Len(elems) |-> SubSeq(bptr, (n - 1) * DblSize + 1, n * DblSize)]
Wave(F) ==
  [n \in {n \in 1..WfNelm : Elem(WfOffset, WfStep, n) + WfSize <= Len(F)} |->
     Flat!double(Flat!swap(SubSeq(F, Elem(WfOffset, WfStep, n) + 1, Elem(WfOffset, WfStep, n) + WfSize)))]

\* The waveform shows the elements that the message has, as doubles.
LEMMA WaveIs ==
  ASSUME NEW V, Zero \in V, NEW S \in Seq(Seq(V)), NEW F, F = FlattenSeq(S),
         NEW elems, elems = copyout_shape(S, WfOffset, WfSize, WfStep - WfSize, WfNelm),
         NEW bptr, bptr = expand(put([i \in 1..WfNelm * DblSize |-> Zero], 0, FlattenSeq(elems)), Len(elems))
  PROVE  Doubles(elems, bptr) = Wave(F)
<1> DEFINE there == {n \in 1..WfNelm : Elem(WfOffset, WfStep, n) + WfSize <= Len(F)}
<1>1. /\ WfSize \in Nat \ {0} /\ DblSize \in Nat /\ WfSize <= DblSize /\ WfNelm \in Nat /\ WfOffset \in Nat
      /\ WfStep \in Nat /\ WfSize <= WfStep
  BY ConstantTypes
<1>2. Shaped(V, F, WfOffset, WfSize, WfStep, WfNelm, elems)
  <2>1. PICK k : k = WfStep - WfSize
    OBVIOUS
  <2>2. Shaped(V, FlattenSeq(S), WfOffset, WfSize, WfStep, WfNelm, copyout_shape(S, WfOffset, WfSize, k, WfNelm))
    BY <2>1, <1>1, ShapedIs
  <2> QED
    BY <2>1, <2>2, Zenon
<1>3. /\ elems \in Seq(Seq(V)) /\ Len(elems) <= WfNelm /\ Len(elems) \in Nat
      /\ \A n \in 1..WfNelm : n <= Len(elems) <=> Elem(WfOffset, WfStep, n) + WfSize <= Len(F)
      /\ \A n \in 1..Len(elems) :
             elems[n] = SubSeq(F, Elem(WfOffset, WfStep, n) + 1, Elem(WfOffset, WfStep, n) + WfSize)
  BY <1>2, SeqElt DEF Shaped
<1>4. F \in Seq(V) /\ Len(F) \in Nat
  BY BeginsExists, FlattenAt
<1>5. there = 1..Len(elems)
  BY <1>1, <1>3
<1>6. ASSUME NEW n \in 1..Len(elems) PROVE Len(elems[n]) = WfSize
  <2>1. n \in 1..WfNelm /\ n <= Len(elems) /\ n \in Nat \ {0}
    BY <1>1, <1>3
  <2>2. PICK p \in Nat : p = Elem(WfOffset, WfStep, n)
    BY <2>1, <1>1, ElemNat
  <2>3. p + WfSize <= Len(F) /\ elems[n] = SubSeq(F, p + 1, p + WfSize)
    BY <2>1, <2>2, <1>3
  <2>4. IsPart(V, F, p, WfSize, elems[n])
    BY <2>3, <1>1, <1>4, PartIs
  <2> QED
    BY <2>4 DEF IsPart
<1>7. PICK mem : mem = put([i \in 1..WfNelm * DblSize |-> Zero], 0, FlattenSeq(elems))
  OBVIOUS
<1>8. /\ mem \in Seq(V) /\ Len(elems) * DblSize <= Len(mem)
      /\ \A n \in 1..Len(elems) : Raw(mem, n) = elems[n]
  <2>1. Elements(V, elems)
    BY <1>3, <1>6 DEF Elements
  <2> QED
    BY <2>1, <1>7, ArrayIs
<1> DEFINE W == V \cup {<<"double", r, k>> : r \in Seq(V), k \in 1..DblSize}
<1>9. V \subseteq W /\ \A r \in Seq(V), k \in 1..DblSize : <<"double", r, k>> \in W
  OBVIOUS
<1> HIDE DEF W
<1>10. mem \in Seq(W)
  BY <1>8, <1>9, SeqSub
<1>11. Room(V, W, mem, Len(elems))
  BY <1>1, <1>3, <1>8, <1>9, <1>10 DEF Room
<1>12. bptr = expand(mem, Len(elems))
  BY <1>7
<1>13. ASSUME NEW n \in 1..Len(elems)
       PROVE  SubSeq(bptr, (n - 1) * DblSize + 1, n * DblSize)
                = Flat!double(Flat!swap(SubSeq(F, Elem(WfOffset, WfStep, n) + 1, Elem(WfOffset, WfStep, n) + WfSize)))
  <2>1. SubSeq(bptr, (n - 1) * DblSize + 1, n * DblSize) = Dbl(mem, n)
    BY <1>11, <1>12, DoubleIs
  <2>2. PICK e : e = SubSeq(F, Elem(WfOffset, WfStep, n) + 1, Elem(WfOffset, WfStep, n) + WfSize)
    OBVIOUS
  <2>3. Raw(mem, n) = e
    BY <2>2, <1>3, <1>8
  <2>4. Flat!swap(e) = Reverse(e)
    BY SameReverse DEF Flat!swap
  <2>5. Dbl(mem, n) = Flat!double(Flat!swap(e))
    BY <2>3, <2>4, Zenon DEF Dbl
  <2> QED
    BY <2>1, <2>2, <2>5, Zenon
<1> QED
  BY <1>5, <1>13, Zenon DEF Doubles, Wave

----------------------------------------------------------------------------
\* The state, typed.
Byte == (Nat \X Nat) \cup {Zero}

\* The types of the variables.
Typed ==
  /\ strides \in [{"rx", "tx"} -> Seq(Seq(Byte))]
  /\ connected \in BOOLEAN
  /\ steps \in Nat
  /\ stored \in [Settings -> Seq(Byte)]

\* A dbuffer as a plain sequence.
LEMMA FlatIs ==
  ASSUME NEW V, NEW S \in Seq(Seq(V))
  PROVE  FlattenSeq(S) \in Seq(V) /\ Len(FlattenSeq(S)) \in Nat /\ size(S) = Len(FlattenSeq(S))
  BY BeginsExists, FlattenAt, SeqElt DEF size

\* A block in one piece.
LEMMA FlattenOne ==
  ASSUME NEW x
  PROVE  FlattenSeq(<<x>>) = x
<1>1. PICK S : S = <<x>>
  OBVIOUS
<1>2. Len(S) = 1 /\ S[1] = x
  BY <1>1
<1>3. Len(S) \in Nat /\ Len(S) # 0
  BY <1>2
<1>4. PICK g : FlattenSeq(S) = g[Len(S)] /\ FlatSteps(S, g)
  BY <1>3, FlattenIs
<1> QED
  BY <1>1, <1>2, <1>4 DEF FlatSteps

\* A block of no pieces.
LEMMA FlattenNone == FlattenSeq(<<>>) = <<>>
  BY DEF FlattenSeq

\* The blocks without their pieces are sequences of bytes.
LEMMA TypedFlat ==
  ASSUME Typed, NEW b \in {"rx", "tx"}
  PROVE  /\ strides[b] \in Seq(Seq(Byte)) /\ flat[b] = FlattenSeq(strides[b])
         /\ flat[b] \in Seq(Byte) /\ Len(flat[b]) \in Nat /\ size(strides[b]) = Len(flat[b])
<1>1. strides[b] \in Seq(Seq(Byte)) /\ DOMAIN strides = {"rx", "tx"}
  BY DEF Typed
<1>2. flat[b] = FlattenSeq(strides[b])
  BY <1>1 DEF flat
<1> QED
  BY <1>1, <1>2, FlatIs

\* A step that replaces one block.
LEMMA FlatSet ==
  ASSUME Typed, NEW b \in {"rx", "tx"}, NEW S \in Seq(Seq(Byte)), strides' = [strides EXCEPT ![b] = S]
  PROVE  /\ strides' \in [{"rx", "tx"} -> Seq(Seq(Byte))]
         /\ flat' = [flat EXCEPT ![b] = FlattenSeq(S)]
<1>1. DOMAIN strides = {"rx", "tx"} /\ strides' \in [{"rx", "tx"} -> Seq(Seq(Byte))] /\ DOMAIN strides' = {"rx", "tx"}
  BY DEF Typed
<1>2. flat' = [c \in {"rx", "tx"} |-> FlattenSeq(strides'[c])] /\ flat = [c \in {"rx", "tx"} |-> FlattenSeq(strides[c])]
  BY <1>1 DEF flat
<1>3. \A c \in {"rx", "tx"} : strides'[c] = IF c = b THEN S ELSE strides[c]
  BY <1>1
<1>4. flat' = [flat EXCEPT ![b] = FlattenSeq(S)]
  <2>1. flat' = [c \in {"rx", "tx"} |-> IF c = b THEN FlattenSeq(S) ELSE FlattenSeq(strides[c])]
    BY <1>2, <1>3
  <2> QED
    BY <2>1, <1>2
<1> QED
  BY <1>1, <1>4

\* A step that leaves the blocks alone.
LEMMA FlatSame ==
  ASSUME UNCHANGED strides
  PROVE  flat' = flat
  BY DEF flat

\* What comes from outside is bytes.
LEMMA FreshIs ==
  ASSUME NEW n \in Nat, NEW len \in Nat
  PROVE  Flat!Fresh(n, len) \in Seq(Byte) /\ Len(Flat!Fresh(n, len)) = len
  BY DEF Flat!Fresh, Byte

----------------------------------------------------------------------------
\* Both begin with empty blocks.
LEMMA InitImplements ==
  ASSUME RegInit
  PROVE  Flat!Init /\ Typed
<1>1. strides = [b \in {"rx", "tx"} |-> <<>>] /\ connected = FALSE /\ shown = Flat!Nothing /\ steps = 0
      /\ reading = "no" /\ stored = [r \in Settings |-> <<>>]
  BY DEF RegInit
<1>2. DOMAIN strides = {"rx", "tx"} /\ \A b \in {"rx", "tx"} : strides[b] = <<>>
  BY <1>1
<1>3. \A b \in {"rx", "tx"} : FlattenSeq(strides[b]) = <<>>
  BY <1>2, FlattenNone
<1>4. flat = [b \in {"rx", "tx"} |-> <<>>]
  BY <1>2, <1>3 DEF flat
<1>5. <<>> \in Seq(Seq(Byte)) /\ <<>> \in Seq(Byte)
  OBVIOUS
<1> QED
  BY <1>1, <1>4, <1>5 DEF Flat!Init, Typed

\* A change of the connection is one in FlatBlock.
LEMMA LinkImplements ==
  ASSUME Typed, Link
  PROVE  Flat!Link /\ Typed'
<1>1. flat' = flat
  BY FlatSame DEF Link
<1> QED
  BY <1>1 DEF Link, Flat!Link, Typed

\* A message taken over in pieces, or copied, is the message received.
LEMMA ReceiveImplements ==
  ASSUME Typed, NEW len \in Lengths, consume(len) \/ assign(len)
  PROVE  Flat!Receive(len) /\ Typed'
<1>1. len \in Nat /\ steps \in Nat /\ steps' = steps + 1 /\ steps' \in Nat
  BY RegBlockAssumption, SMTT(30) DEF consume, assign, Typed
<1>2. PICK f : f = Flat!Fresh(steps', len)
  OBVIOUS
<1>3. f \in Seq(Byte)
  BY <1>1, <1>2, FreshIs
<1>4. PICK S \in Seq(Seq(Byte)) : strides' = [strides EXCEPT !["rx"] = S] /\ FlattenSeq(S) = f
  <2>1. CASE consume(len)
    <3>1. PICK S \in Pieces(f) : strides' = [strides EXCEPT !["rx"] = S]
      BY <2>1, <1>2 DEF consume
    <3>2. S \in Seq(Seq(Byte)) /\ FlattenSeq(S) = f
      BY <1>3, PiecesFlat
    <3> QED
      BY <3>1, <3>2
  <2>2. CASE assign(len)
    <3>1. strides' = [strides EXCEPT !["rx"] = <<f>>]
      BY <2>2, <1>2, Zenon DEF assign
    <3>2. <<f>> \in Seq(Seq(Byte))
      BY <1>3
    <3> QED
      BY <3>1, <3>2, FlattenOne, Zenon
  <2> QED
    BY <2>1, <2>2
<1>5. strides' \in [{"rx", "tx"} -> Seq(Seq(Byte))] /\ flat' = [flat EXCEPT !["rx"] = f]
  <2>1. "rx" \in {"rx", "tx"}
    OBVIOUS
  <2> QED
    BY <2>1, <1>4, FlatSet, Zenon
<1>6. shown' = Flat!Nothing /\ UNCHANGED <<connected, stored>>
      /\ reading' = IF reading = "no" THEN "no" ELSE "overtaken"
  BY DEF consume, assign, overtake
<1>7. Flat!Receive(len)
  BY <1>1, <1>2, <1>5, <1>6, Zenon DEF Flat!Receive
<1> QED
  BY <1>1, <1>5, <1>6, <1>7 DEF Typed

\* resize() changes the length of the send block and keeps what fits.
LEMMA ResizeImplements ==
  ASSUME Typed, NEW n \in Lengths, resize(n)
  PROVE  Flat!SetSize(n) /\ Typed'
<1>1. n \in Nat
  BY RegBlockAssumption
<1>2. PICK F : F = flat["tx"]
  OBVIOUS
<1>3. F \in Seq(Byte) /\ Len(F) \in Nat /\ size(strides["tx"]) = Len(F) /\ FlattenSeq(strides["tx"]) = F
  BY <1>2, TypedFlat
<1>4. PICK x : x = [i \in 1..n |-> IF i <= Len(F) THEN F[i] ELSE Zero]
  OBVIOUS
<1>5. strides' = [strides EXCEPT !["tx"] = <<x>>]
  BY <1>3, <1>4, Zenon DEF resize
<1>6. x \in Seq(Byte)
  <2>1. ASSUME NEW i \in 1..n PROVE (IF i <= Len(F) THEN F[i] ELSE Zero) \in Byte
    BY <1>1, <1>3, SeqElt DEF Byte
  <2> QED
    BY <2>1, <1>1, <1>4
<1>7. strides' \in [{"rx", "tx"} -> Seq(Seq(Byte))] /\ flat' = [flat EXCEPT !["tx"] = x]
  <2>1. "tx" \in {"rx", "tx"} /\ <<x>> \in Seq(Seq(Byte))
    BY <1>6
  <2>2. FlattenSeq(<<x>>) = x
    BY FlattenOne
  <2> QED
    BY <2>1, <2>2, <1>5, FlatSet
<1>8. flat' = [flat EXCEPT !["tx"] = [i \in 1..n |-> IF i <= Len(@) THEN @[i] ELSE Zero]]
  BY <1>2, <1>4, <1>7, Zenon
<1>9. shown' = Flat!Nothing /\ UNCHANGED <<connected, reading, steps>>
  BY DEF resize
<1>10. Flat!SetSize(n)
  BY <1>8, <1>9, Zenon DEF Flat!SetSize
<1>11. stored' \in [Settings -> Seq(Byte)]
  <2>1. stored' = [r \in Settings |-> IF Offset[r] + RegSize <= n THEN stored[r] ELSE <<>>]
    BY DEF resize
  <2>2. <<>> \in Seq(Byte) /\ \A r \in Settings : stored[r] \in Seq(Byte)
    BY DEF Typed
  <2> QED
    BY <2>1, <2>2
<1> QED
  BY <1>7, <1>9, <1>10, <1>11 DEF Typed

\* setRecTimestamp() takes the time from the bytes of the block, if they are there.
LEMMA TimeIs ==
  ASSUME Typed, NEW b \in {"rx", "tx"}
  PROVE  setRecTimestamp(b) = Flat!Time(b)
<1>1. PICK F : F = flat[b]
  OBVIOUS
<1>2. strides[b] \in Seq(Seq(Byte)) /\ F = FlattenSeq(strides[b])
  BY <1>1, TypedFlat
<1>3. PICK raw : raw = copyout(strides[b], TsOffset, TsSize)
  OBVIOUS
<1>4. PICK f : f = SubSeq(F, TsOffset + 1, TsOffset + TsSize)
  OBVIOUS
<1>5. raw = IF TsOffset + TsSize <= Len(F) THEN <<f>> ELSE <<>>
  BY <1>2, <1>3, <1>4, ConstantTypes, CopyoutIs
<1>6. Len(<<f>>) = 1 /\ <<f>>[1] = f /\ Len(<<>>) # 1
  OBVIOUS
<1>7. setRecTimestamp(b) = IF Len(raw) = 1 THEN <<"block", raw[1]>> ELSE <<"rxtime">>
  BY <1>3, Zenon DEF setRecTimestamp
<1>8. Flat!Time(b) = IF TsOffset + TsSize <= Len(F) THEN <<"block", f>> ELSE <<"rxtime">>
  BY <1>1, <1>4, Zenon DEF Flat!Time, Flat!Fits, Flat!Field
<1>9. CASE TsOffset + TsSize <= Len(F)
  <2>1. raw = <<f>>
    BY <1>5, <1>9
  <2>2. setRecTimestamp(b) = <<"block", f>>
    BY <2>1, <1>6, <1>7, Zenon
  <2> QED
    BY <2>2, <1>8, <1>9, Zenon
<1>10. CASE ~(TsOffset + TsSize <= Len(F))
  <2>1. raw = <<>>
    BY <1>5, <1>10
  <2>2. setRecTimestamp(b) = <<"rxtime">>
    BY <2>1, <1>6, <1>7, Zenon
  <2> QED
    BY <2>2, <1>8, <1>10, Zenon
<1> QED
  BY <1>9, <1>10

\* send() hands over the whole block.
LEMMA SendImplements ==
  ASSUME Typed, send
  PROVE  Flat!Send /\ Typed'
<1>1. flat' = flat
  BY FlatSame DEF send
<1>2. flat["tx"] = FlattenSeq(strides["tx"])
  BY TypedFlat
<1>3. Flat!Send
  BY <1>1, <1>2 DEF send, Flat!Send
<1> QED
  BY <1>3 DEF send, Typed

\* read_wf_real() shows the waveform of the message.
LEMMA WaveformImplements ==
  ASSUME Typed, read_wf_real
  PROVE  Flat!ReadWaveform /\ Typed'
<1>1. flat' = flat /\ UNCHANGED <<connected, reading, steps>>
  BY FlatSame DEF read_wf_real
<1>2. PICK S : S = strides["rx"]
  OBVIOUS
<1>3. PICK F : F = flat["rx"]
  OBVIOUS
<1>4. S \in Seq(Seq(Byte)) /\ F = FlattenSeq(S) /\ Zero \in Byte
  BY <1>2, <1>3, TypedFlat DEF Byte
<1>5. PICK elems : elems = copyout_shape(S, WfOffset, WfSize, WfStep - WfSize, WfNelm)
  OBVIOUS
<1>6. PICK bptr : bptr = expand(put([i \in 1..WfNelm * DblSize |-> Zero], 0, FlattenSeq(elems)), Len(elems))
  OBVIOUS
<1> DEFINE there == {n \in 1..WfNelm : Elem(WfOffset, WfStep, n) + WfSize <= Len(F)}
<1>8. PICK val : val = Doubles(elems, bptr)
  OBVIOUS
<1>9. val = Wave(F)
  BY <1>4, <1>5, <1>6, <1>8, WaveIs
<1>10. setRecTimestamp("rx") = Flat!Time("rx")
  BY TimeIs
<1>11. shown' = IF connected THEN Flat!Outcome("wf", val, Flat!Time("rx"), TRUE)
                ELSE Flat!Outcome("wf", <<>>, <<>>, FALSE)
  BY <1>2, <1>5, <1>6, <1>8, <1>10, Zenon DEF read_wf_real, Doubles
<1>12. there = {n \in 1..WfNelm : Flat!Fits("rx", WfOffset + (n - 1) * WfStep, WfSize)}
  BY <1>3, Zenon DEF Flat!Fits, Elem
<1>13. val = [n \in there |-> Flat!double(Flat!swap(Flat!Field("rx", WfOffset + (n - 1) * WfStep, WfSize)))]
  BY <1>3, <1>9, Zenon DEF Flat!Field, Elem, Wave
<1> HIDE DEF there
<1>14. Flat!ReadWaveform
  BY <1>1, <1>11, <1>12, <1>13, Zenon DEF Flat!ReadWaveform
<1> QED
  BY <1>14 DEF read_wf_real, Typed

\* read_wf_bytes() shows the first of its bytes, if all are there.
LEMMA BytesImplements ==
  ASSUME Typed, read_wf_bytes
  PROVE  Flat!ReadBytes /\ Typed'
<1>1. flat' = flat /\ UNCHANGED <<connected, reading, steps>>
  BY FlatSame DEF read_wf_bytes
<1>3. PICK F : F = flat["rx"]
  OBVIOUS
<1>4. strides["rx"] \in Seq(Seq(Byte)) /\ F = FlattenSeq(strides["rx"]) /\ F \in Seq(Byte)
  BY <1>3, TypedFlat
<1>5. PICK bytes : bytes = copyout(strides["rx"], BytesOffset, BytesNelm)
  OBVIOUS
<1>6. PICK f : f = SubSeq(F, BytesOffset + 1, BytesOffset + BytesNelm)
  OBVIOUS
<1>7. bytes = IF BytesOffset + BytesNelm <= Len(F) THEN <<f>> ELSE <<>>
  BY <1>4, <1>5, <1>6, ConstantTypes, CopyoutIs
<1>8. <<f>>[1] = f /\ <<f>> # <<>>
  OBVIOUS
<1>9. BytesOffset + BytesNelm <= Len(F) => SubSeq(f, 1, 1) = SubSeq(F, BytesOffset + 1, BytesOffset + 1)
  <2>1. ASSUME BytesOffset + BytesNelm <= Len(F) PROVE SubSeq(f, 1, 1) = SubSeq(F, BytesOffset + 1, BytesOffset + 1)
    <3>1. BytesOffset \in Nat /\ BytesNelm \in Nat /\ BytesNelm >= 1
      BY ConstantTypes
    <3>2. IsPart(Byte, F, BytesOffset, BytesNelm, f)
      BY <1>4, <1>6, <2>1, <3>1, PartIs
    <3>3. f \in Seq(Byte) /\ Len(f) = BytesNelm /\ f[1] = F[BytesOffset + 1]
      BY <3>1, <3>2 DEF IsPart
    <3>4. SubSeq(f, 1, 1) = <<f[1]>>
      <4>0. 0 \in Nat /\ 0 + 1 <= Len(f) /\ 0 + 1 = 1
        BY <3>1, <3>3
      <4>1. SubSeq(f, 0 + 1, 0 + 1) = <<f[0 + 1]>> /\ 0 + 1 = 1
        BY <4>0, <3>3, SubSeqOne, Zenon
      <4> QED
        BY <4>1
    <3>5. SubSeq(F, BytesOffset + 1, BytesOffset + 1) = <<F[BytesOffset + 1]>>
      <4>1. BytesOffset + 1 <= Len(F)
        BY <3>1, <2>1, <1>4
      <4> QED
        BY <3>1, <4>1, <1>4, SubSeqOne
    <3> QED
      BY <3>3, <3>4, <3>5
  <2> QED
    BY <2>1
<1>10. setRecTimestamp("rx") = Flat!Time("rx")
  BY TimeIs
<1>11. shown' = IF connected
                THEN Flat!Outcome("bytes", IF bytes = <<>> THEN <<>> ELSE SubSeq(bytes[1], 1, 1), Flat!Time("rx"), TRUE)
                ELSE Flat!Outcome("bytes", <<>>, <<>>, FALSE)
  BY <1>5, <1>10, Zenon DEF read_wf_bytes
<1>12. (IF bytes = <<>> THEN <<>> ELSE SubSeq(bytes[1], 1, 1)) =
         IF Flat!Fits("rx", BytesOffset, BytesNelm) THEN Flat!Field("rx", BytesOffset, 1) ELSE <<>>
  BY <1>3, <1>7, <1>8, <1>9, Zenon DEF Flat!Fits, Flat!Field
<1>13. 0 \in 0..BytesNelm /\ 1 \in 0..BytesNelm /\ ~(0 > 0) /\ 1 > 0
  BY ConstantTypes
<1>14. Flat!Field("rx", BytesOffset, 0) = <<>>
  <2>1. SubSeq(F, BytesOffset + 1, BytesOffset + 0) = <<>>
    BY <1>4, ConstantTypes
  <2> QED
    BY <2>1, <1>3, Zenon DEF Flat!Field
<1>15. Flat!Fits("rx", BytesOffset, BytesNelm) => Flat!Fits("rx", BytesOffset, 1)
  <2>1. BytesOffset + BytesNelm <= Len(F) => BytesOffset + 1 <= Len(F)
    BY <1>4, ConstantTypes
  <2> QED
    BY <2>1, <1>3, Zenon DEF Flat!Fits
<1>16. Flat!ReadBytes
  <2>1. CASE Flat!Fits("rx", BytesOffset, BytesNelm)
    BY <2>1, <1>1, <1>11, <1>12, <1>13, <1>15, Zenon DEF Flat!ReadBytes
  <2>2. CASE ~Flat!Fits("rx", BytesOffset, BytesNelm)
    BY <2>2, <1>1, <1>11, <1>12, <1>13, <1>14, Zenon DEF Flat!ReadBytes
  <2> QED
    BY <2>1, <2>2
<1> QED
  BY <1>16 DEF read_wf_bytes, Typed

\* read_si() finds whether there is a connection.
LEMMA BeginImplements ==
  ASSUME Typed, read_si_begin
  PROVE  Flat!BeginString /\ Typed'
<1>1. flat' = flat
  BY FlatSame DEF read_si_begin
<1>2. Flat!BeginString
  BY <1>1, Zenon DEF read_si_begin, Flat!BeginString
<1> QED
  BY <1>2 DEF read_si_begin, Typed

\* read_si() shows the string, cut at its greatest length, unless it was overtaken.
LEMMA EndImplements ==
  ASSUME Typed, read_si_end
  PROVE  Flat!EndString /\ Typed'
<1>1. flat' = flat /\ UNCHANGED <<connected, steps>> /\ reading # "no" /\ reading' = "no"
  BY FlatSame DEF read_si_end
<1>2. PICK F : F = flat["rx"]
  OBVIOUS
<1>3. PICK S : S = strides["rx"]
  OBVIOUS
<1>4. S \in Seq(Seq(Byte)) /\ F = FlattenSeq(S) /\ F \in Seq(Byte) /\ Len(F) \in Nat /\ size(S) = Len(F)
  BY <1>2, <1>3, TypedFlat
<1>5. SiOffset \in Nat /\ MaxString - 1 \in Nat /\ SiOffset # MaxString - 1
  BY ConstantTypes
<1>6. PICK len : len = Min({Len(F), MaxString - 1})
  OBVIOUS
<1>7. len = IF Len(F) <= MaxString - 1 THEN Len(F) ELSE MaxString - 1
  BY <1>4, <1>5, <1>6, MinIs
<1>8. len \in Nat /\ len <= Len(F) /\ (SiOffset = len => len = Len(F))
  BY <1>4, <1>5, <1>7
<1>9. PICK val : val = IF SiOffset > len THEN <<>> ELSE FlattenSeq(copyout_shape(S, SiOffset, len - SiOffset, 0, 1))
  OBVIOUS
<1>10. val = SubSeq(F, SiOffset + 1, len)
  <2>1. CASE SiOffset > len
    <3>1. SubSeq(F, SiOffset + 1, len) = <<>>
      BY <2>1, <1>4, <1>5, <1>8
    <3> QED
      BY <3>1, <2>1, <1>9
  <2>2. CASE SiOffset = len
    <3>1. SubSeq(F, SiOffset + 1, len) = <<>>
      BY <2>2, <1>4, <1>5, <1>8
    <3>2. SiOffset >= size(S) /\ ~(SiOffset > len)
      BY <2>2, <1>4, <1>8
    <3>3. copyout_shape(S, SiOffset, len - SiOffset, 0, 1) = <<>>
      BY <3>2, Zenon DEF copyout_shape
    <3>4. FlattenSeq(copyout_shape(S, SiOffset, len - SiOffset, 0, 1)) = <<>>
      BY <3>3, FlattenNone, Zenon
    <3> QED
      BY <3>1, <3>2, <3>4, <1>9, Zenon
  <2>3. CASE SiOffset < len
    <3>1. PICK n \in Nat \ {0} : n = len - SiOffset /\ SiOffset + n = len
      <4>1. len - SiOffset \in Nat \ {0} /\ SiOffset + (len - SiOffset) = len
        BY <2>3, <1>5, <1>8
      <4> QED
        BY <4>1
    <3>2. SiOffset + n <= Len(F) /\ ~(SiOffset > len)
      BY <3>1, <2>3, <1>5, <1>8
    <3>3. PICK f : f = SubSeq(F, SiOffset + 1, len)
      OBVIOUS
    <3>4. copyout(S, SiOffset, n) = <<f>>
      BY <3>1, <3>2, <3>3, <1>4, <1>5, CopyoutIs
    <3>5. copyout_shape(S, SiOffset, len - SiOffset, 0, 1) = <<f>>
      BY <3>1, <3>4, Zenon DEF copyout
    <3>6. FlattenSeq(copyout_shape(S, SiOffset, len - SiOffset, 0, 1)) = f
      BY <3>5, FlattenOne, Zenon
    <3> QED
      BY <3>2, <3>3, <3>6, <1>9, Zenon
  <2> QED
    BY <2>1, <2>2, <2>3, <1>5, <1>8
<1>11. setRecTimestamp("rx") = Flat!Time("rx")
  BY TimeIs
<1>12. PICK got, time :
         /\ shown' = Flat!Outcome("si", got, time, TRUE)
         /\ reading = "yes" => got = val /\ time = Flat!Time("rx")
  <2>1. PICK got \in (IF reading = "yes" THEN {val} ELSE {val, mixture.val}),
             time \in (IF reading = "yes" THEN {Flat!Time("rx")} ELSE {Flat!Time("rx"), mixture.time}) :
          shown' = Flat!Outcome("si", got, time, TRUE)
    BY <1>3, <1>4, <1>6, <1>9, <1>11, Zenon DEF read_si_end
  <2>2. reading = "yes" => got \in {val} /\ time \in {Flat!Time("rx")}
    BY <2>1
  <2> QED
    BY <2>1, <2>2
<1>13. len = Flat!Min({Len(F), MaxString - 1})
  BY <1>6, SameMin, Zenon
<1>14. shown'.val = got /\ shown'.time = time
  BY <1>12 DEF Flat!Outcome
<1>15. Flat!EndString
  <2>1. shown' = Flat!Outcome("si", shown'.val, shown'.time, TRUE)
    BY <1>12, <1>14, Zenon
  <2>2. reading = "yes" =>
          /\ shown'.val = SubSeq(flat["rx"], SiOffset + 1, Flat!Min({Len(flat["rx"]), MaxString - 1}))
          /\ shown'.time = Flat!Time("rx")
    BY <1>2, <1>10, <1>12, <1>13, <1>14, Zenon
  <2> QED
    BY <1>1, <2>1, <2>2, Zenon DEF Flat!EndString
<1> QED
  BY <1>15 DEF read_si_end, Typed

----------------------------------------------------------------------------
\* Where a register is.
LEMMA RegisterTypes ==
  ASSUME NEW r \in Registers
  PROVE  Block[r] \in {"rx", "tx"} /\ Offset[r] \in Nat /\ (r \in Settings => Block[r] = "tx")
  BY RegBlockAssumption

\* read_to_field() returns the bytes of the register if they are all there.
LEMMA FieldIs ==
  ASSUME Typed, NEW r \in Registers
  PROVE  /\ read_to_field(r) = IF Flat!Fits(Block[r], Offset[r], RegSize)
                               THEN <<Flat!Field(Block[r], Offset[r], RegSize)>> ELSE <<>>
         /\ Flat!Fits(Block[r], Offset[r], RegSize) =>
              IsPart(Byte, flat[Block[r]], Offset[r], RegSize, Flat!Field(Block[r], Offset[r], RegSize))
<1>1. PICK b \in {"rx", "tx"} : b = Block[r]
  BY RegisterTypes
<1>2. PICK o \in Nat : o = Offset[r]
  BY RegisterTypes
<1>3. PICK F : F = flat[b]
  OBVIOUS
<1>4. /\ strides[b] \in Seq(Seq(Byte)) /\ F = FlattenSeq(strides[b]) /\ size(strides[b]) = Len(F) /\ Len(F) \in Nat
      /\ F \in Seq(Byte)
  BY <1>3, TypedFlat
<1>5. RegSize \in Nat \ {0}
  BY ConstantTypes
<1>6. PICK f : f = SubSeq(F, o + 1, o + RegSize)
  OBVIOUS
<1>7. copyout(strides[b], o, RegSize) = IF o + RegSize <= Len(F) THEN <<f>> ELSE <<>>
  BY <1>4, <1>5, <1>6, CopyoutIs
<1>8. read_to_field(r) = IF o > Len(F) THEN <<>> ELSE copyout(strides[b], o, RegSize)
  BY <1>1, <1>2, <1>4, Zenon DEF read_to_field
<1>9. o > Len(F) => ~(o + RegSize <= Len(F))
  BY <1>4, <1>5
<1>10. read_to_field(r) = IF o + RegSize <= Len(F) THEN <<f>> ELSE <<>>
  BY <1>7, <1>8, <1>9, Zenon
<1>11. o + RegSize <= Len(F) => IsPart(Byte, F, o, RegSize, f)
  BY <1>4, <1>5, <1>6, PartIs
<1>12. Flat!Fits(Block[r], Offset[r], RegSize) <=> o + RegSize <= Len(F)
  BY <1>1, <1>2, <1>3, Zenon DEF Flat!Fits
<1>13. Flat!Field(Block[r], Offset[r], RegSize) = f
  BY <1>1, <1>2, <1>3, <1>6, Zenon DEF Flat!Field
<1> QED
  BY <1>1, <1>2, <1>3, <1>10, <1>11, <1>12, <1>13, Zenon

\* A register that is read shows the value the block has.
LEMMA ReadImplements ==
  ASSUME Typed, NEW r \in Registers, read(r)
  PROVE  Flat!Read(r) /\ Typed'
<1>1. flat' = flat /\ UNCHANGED <<connected, reading, steps>>
  BY FlatSame DEF read
<1>2. PICK f : f = Flat!Field(Block[r], Offset[r], RegSize)
  OBVIOUS
<1>3. PICK raw : raw = read_to_field(r)
  OBVIOUS
<1>4. PICK v : v = Reverse(f)
  OBVIOUS
<1>5. Flat!swap(f) = v
  BY <1>4, SameReverse DEF Flat!swap
<1>6. setRecTimestamp(Block[r]) = Flat!Time(Block[r])
  BY RegisterTypes, TimeIs
<1>7. RegSize \in Nat
  BY ConstantTypes
<1>8. PICK m : m = Flat!Masked(r, v, Flat!Zeroes(RegSize))
  OBVIOUS
<1>9. m = [i \in 1..RegSize |-> IF Mask[r] = {} \/ i \in Mask[r] THEN v[i] ELSE Zero]
  BY <1>8, <1>7 DEF Flat!Masked, Flat!Zeroes
<1>10. CASE Flat!Fits(Block[r], Offset[r], RegSize)
  <2>1. raw = <<f>> /\ IsPart(Byte, flat[Block[r]], Offset[r], RegSize, f)
    BY <1>2, <1>3, <1>10, FieldIs, Zenon
  <2>2. f \in Seq(Byte) /\ Len(f) = RegSize
    BY <2>1 DEF IsPart
  <2>3. v \in Seq(Byte) /\ Len(v) = RegSize
    BY <2>2, <1>4, ReverseIs
  <2>4. Len(raw) = 1 /\ raw[1] = f
    BY <2>1
  <2>5. m = IF Mask[r] = {} THEN v ELSE masked(r, v, [i \in 1..RegSize |-> Zero])
    <3>1. CASE Mask[r] = {}
      <4>1. m = [i \in 1..RegSize |-> v[i]]
        BY <3>1, <1>9
      <4>2. v = [i \in 1..RegSize |-> v[i]]
        BY <2>3
      <4> QED
        BY <4>1, <4>2, <3>1
    <3>2. CASE Mask[r] # {}
      <4>1. masked(r, v, [i \in 1..RegSize |-> Zero]) = [i \in 1..RegSize |-> IF i \in Mask[r] THEN v[i] ELSE Zero]
        BY <1>7 DEF masked
      <4>2. m = [i \in 1..RegSize |-> IF i \in Mask[r] THEN v[i] ELSE Zero]
        BY <3>2, <1>9
      <4> QED
        BY <4>1, <4>2, <3>2
    <3> QED
      BY <3>1, <3>2
  <2>6. shown' = Flat!Outcome(r, m, Flat!Time(Block[r]), connected)
    BY <2>4, <2>5, <1>3, <1>4, <1>6, Zenon DEF read
  <2> QED
    BY <2>6, <1>1, <1>2, <1>5, <1>8, <1>10, Zenon DEF Flat!Read, read, Typed
<1>11. CASE ~Flat!Fits(Block[r], Offset[r], RegSize)
  <2>1. raw = <<>>
    BY <1>3, <1>11, FieldIs, Zenon
  <2>2. Len(raw) # 1
    BY <2>1
  <2>3. shown' = Flat!Outcome(r, <<>>, <<>>, FALSE)
    BY <2>2, <1>3, Zenon DEF read
  <2> QED
    BY <2>3, <1>1, <1>11, Zenon DEF Flat!Read, read, Typed
<1> QED
  BY <1>10, <1>11

----------------------------------------------------------------------------
\* F with bytes written over it after the first o, as far as it goes.
Over(F, o, bytes) == [i \in 1..Len(F) |-> IF i \in o + 1 .. o + RegSize THEN bytes[i - o] ELSE F[i]]

\* What write_from_field() of v does to the blocks and the history.
Writes(r, v) ==
  /\ strides' \in [{"rx", "tx"} -> Seq(Seq(Byte))]
  /\ flat' = [flat EXCEPT !["tx"] = Over(flat["tx"], Offset[r], Reverse(v))]
  /\ shown' = Flat!Outcome(r, <<>>, <<>>, Flat!Fits("tx", Offset[r], RegSize) /\ connected)
  /\ stored' = [stored EXCEPT ![r] = IF Flat!Fits("tx", Offset[r], RegSize) THEN v ELSE @]

\* write_from_field() does that.
LEMMA WritesIs ==
  ASSUME Typed, NEW r \in Settings, NEW v \in Seq(Byte), Len(v) = RegSize, write_from_field(r, v)
  PROVE  Writes(r, v)
<1>1. r \in Registers /\ Block[r] = "tx" /\ "tx" \in {"rx", "tx"}
  BY RegBlockAssumption
<1>2. PICK o \in Nat : o = Offset[r]
  BY <1>1, RegisterTypes
<1>3. PICK S : S = strides["tx"]
  OBVIOUS
<1>4. PICK F : F = flat["tx"]
  OBVIOUS
<1>5. S \in Seq(Seq(Byte)) /\ F = FlattenSeq(S) /\ size(S) = Len(F) /\ Len(F) \in Nat /\ F \in Seq(Byte)
  BY <1>3, <1>4, TypedFlat
<1>6. RegSize \in Nat \ {0}
  BY ConstantTypes
<1>7. PICK bytes : bytes = Reverse(v)
  OBVIOUS
<1>8. bytes \in Seq(Byte) /\ Len(bytes) = RegSize
  BY <1>7, ReverseIs
<1>9. PICK in : in = copyin(S, bytes, o)
  OBVIOUS
<1>10. PICK T : T = IF o <= size(S) THEN in.strides ELSE S
  OBVIOUS
<1>11. PICK ok \in BOOLEAN : ok <=> (o <= size(S) /\ in.ok)
  <2>1. (o <= size(S) /\ in.ok) \in BOOLEAN
    OBVIOUS
  <2> QED
    BY <2>1
<1>12. /\ strides' = [strides EXCEPT !["tx"] = T]
       /\ shown' = Flat!Outcome(r, <<>>, <<>>, ok /\ connected)
       /\ stored' = [stored EXCEPT ![r] = IF ok THEN v ELSE @]
  BY <1>1, <1>2, <1>3, <1>7, <1>9, <1>10, <1>11, Zenon DEF write_from_field, Flat!Outcome
<1>13. T \in Seq(Seq(Byte)) /\ FlattenSeq(T) = Over(F, o, bytes) /\ (ok <=> o + RegSize <= Len(F))
  <2>1. CASE o <= size(S)
    <3>1. /\ in.ok <=> o + RegSize <= size(S)
          /\ in.strides \in Seq(Seq(Byte)) /\ CopiedIn(F, bytes, o, FlattenSeq(in.strides))
      BY <2>1, <1>5, <1>8, <1>9, CopyInIs
    <3>2. T = in.strides
      BY <2>1, <1>10
    <3>3. PICK G : G = FlattenSeq(T)
      OBVIOUS
    <3>4. G \in Seq(Byte) /\ Len(G) = Len(F)
          /\ \A q \in 1..Len(F) : G[q] = IF q \in o + 1 .. o + RegSize THEN bytes[q - o] ELSE F[q]
      BY <3>1, <3>2, <3>3, <1>8, FlatIs DEF CopiedIn
    <3>5. G = [q \in 1..Len(F) |-> G[q]]
      BY <3>4, <1>5
    <3>6. G = Over(F, o, bytes)
      BY <3>4, <3>5, Zenon DEF Over
    <3> QED
      BY <3>1, <3>2, <3>3, <3>6, <2>1, <1>5, <1>11
  <2>2. CASE ~(o <= size(S))
    <3>1. T = S /\ (ok <=> FALSE)
      BY <2>2, <1>10, <1>11
    <3>2. ~(o + RegSize <= Len(F)) /\ \A q \in 1..Len(F) : ~(q \in o + 1 .. o + RegSize)
      BY <2>2, <1>5, <1>6
    <3>3. F = [q \in 1..Len(F) |-> F[q]]
      BY <1>5
    <3>4. F = Over(F, o, bytes)
      BY <3>2, <3>3, Zenon DEF Over
    <3> QED
      BY <3>1, <3>2, <3>4, <1>5
  <2> QED
    BY <2>1, <2>2
<1>14. strides' \in [{"rx", "tx"} -> Seq(Seq(Byte))] /\ flat' = [flat EXCEPT !["tx"] = FlattenSeq(T)]
  BY <1>1, <1>12, <1>13, FlatSet
<1>15. Flat!Fits("tx", Offset[r], RegSize) <=> ok
  BY <1>2, <1>4, <1>13, Zenon DEF Flat!Fits
<1>16. shown' = Flat!Outcome(r, <<>>, <<>>, Flat!Fits("tx", Offset[r], RegSize) /\ connected)
  BY <1>12, <1>15, Zenon DEF Flat!Outcome
<1>17. stored' = [stored EXCEPT ![r] = IF Flat!Fits("tx", Offset[r], RegSize) THEN v ELSE @]
  BY <1>12, <1>15, Zenon
<1> QED
  BY <1>2, <1>4, <1>7, <1>13, <1>14, <1>16, <1>17, Zenon DEF Writes

\* What a setting writes: its own bits, and the others as they are.
Merged(r, v) ==
  /\ v \in Seq(Byte) /\ Len(v) = RegSize
  /\ Mask[r] # {} => /\ Flat!Fits("tx", Offset[r], RegSize)
                     /\ \A i \in 1..RegSize : i \notin Mask[r] =>
                          v[i] = Reverse(Flat!Field("tx", Offset[r], RegSize))[i]

\* What a setting does: it writes a value merged with what the block has, or nothing.
LEMMA WriteIs ==
  ASSUME Typed, NEW r \in Settings, write(r)
  PROVE  /\ steps' = steps + 1 /\ connected' = connected /\ reading' = reading /\ steps' \in Nat
         /\ \/ \E v : /\ Merged(r, v) /\ Writes(r, v)
                      /\ v = Flat!Masked(r, Flat!Fresh(steps', RegSize), Reverse(Flat!Field("tx", Offset[r], RegSize)))
            \/ /\ ~Flat!Fits("tx", Offset[r], RegSize) /\ Mask[r] # {}
               /\ flat' = flat /\ UNCHANGED <<strides, stored>>
               /\ shown' = Flat!Outcome(r, <<>>, <<>>, FALSE)
<1>1. r \in Registers /\ Block[r] = "tx"
  BY RegBlockAssumption
<1>2. steps' = steps + 1 /\ connected' = connected /\ reading' = reading /\ steps' \in Nat
  BY DEF write, Typed
<1>3. PICK rval : rval = Flat!Fresh(steps', RegSize)
  OBVIOUS
<1>4. RegSize \in Nat \ {0}
  BY ConstantTypes
<1>5. rval \in Seq(Byte) /\ Len(rval) = RegSize
  BY <1>2, <1>3, <1>4, FreshIs
<1>6. PICK old : old = Reverse(Flat!Field("tx", Offset[r], RegSize))
  OBVIOUS
<1>7. PICK v : v = Flat!Masked(r, rval, old)
  OBVIOUS
<1>8. v = [i \in 1..RegSize |-> IF Mask[r] = {} \/ i \in Mask[r] THEN rval[i] ELSE old[i]]
  BY <1>7 DEF Flat!Masked
<1>9. CASE Mask[r] = {}
  <2>1. write_from_field(r, rval)
    BY <1>3, <1>9, Zenon DEF write
  <2>2. v = rval
    <3>1. v = [i \in 1..RegSize |-> rval[i]]
      BY <1>8, <1>9
    <3> QED
      BY <3>1, <1>5
  <2>3. Writes(r, v)
    BY <2>1, <2>2, <1>5, WritesIs
  <2>4. Merged(r, v)
    BY <2>2, <1>5, <1>9 DEF Merged
  <2> QED
    BY <2>3, <2>4, <1>2, <1>3, <1>6, <1>7, Zenon
<1>10. CASE Mask[r] # {} /\ Flat!Fits("tx", Offset[r], RegSize)
  <2>1. PICK f : f = Flat!Field("tx", Offset[r], RegSize)
    OBVIOUS
  <2>2. read_to_field(r) = <<f>> /\ IsPart(Byte, flat["tx"], Offset[r], RegSize, f)
    BY <2>1, <1>1, <1>10, FieldIs, Zenon
  <2>3. f \in Seq(Byte) /\ Len(f) = RegSize
    BY <2>2 DEF IsPart
  <2>4. old \in Seq(Byte) /\ Len(old) = RegSize
    BY <2>1, <2>3, <1>6, ReverseIs
  <2>5. read_to_field(r) # <<>> /\ read_to_field(r)[1] = f
    BY <2>2
  <2>6. write_from_field(r, masked(r, rval, old))
    BY <2>1, <2>5, <1>3, <1>6, <1>10, Zenon DEF write, write_binary
  <2>7. masked(r, rval, old) = v
    <3>1. masked(r, rval, old) = [i \in 1..RegSize |-> IF i \in Mask[r] THEN rval[i] ELSE old[i]]
      BY DEF masked
    <3> QED
      BY <3>1, <1>8, <1>10
  <2>8. v \in Seq(Byte) /\ Len(v) = RegSize /\ \A i \in 1..RegSize : i \notin Mask[r] => v[i] = old[i]
    <3>1. ASSUME NEW i \in 1..RegSize PROVE rval[i] \in Byte /\ old[i] \in Byte
      BY <2>4, <1>5, SeqElt
    <3> QED
      BY <3>1, <1>4, <1>8, <1>10
  <2>9. Writes(r, v)
    BY <2>6, <2>7, <2>8, WritesIs
  <2>10. Merged(r, v)
    BY <2>8, <1>6, <1>10 DEF Merged
  <2> QED
    BY <2>9, <2>10, <1>2, <1>3, <1>6, <1>7, Zenon
<1>11. CASE Mask[r] # {} /\ ~Flat!Fits("tx", Offset[r], RegSize)
  <2>1. read_to_field(r) = <<>>
    BY <1>1, <1>11, FieldIs, Zenon
  <2>2. shown' = Flat!Outcome(r, <<>>, <<>>, FALSE) /\ UNCHANGED <<strides, stored>>
    BY <2>1, <1>11, Zenon DEF write, write_binary
  <2>3. flat' = flat
    BY <2>2, FlatSame
  <2> QED
    BY <2>2, <2>3, <1>2, <1>11
<1> QED
  BY <1>9, <1>10, <1>11

\* A setting is written as FlatBlock says.
LEMMA WriteImplements ==
  ASSUME Typed, NEW r \in Settings, write(r)
  PROVE  Flat!Write(r) /\ Typed'
<1>1. r \in Registers /\ Block[r] = "tx"
  BY RegBlockAssumption
<1>2. steps' = steps + 1 /\ connected' = connected /\ reading' = reading /\ steps' \in Nat
  BY WriteIs
<1>3. PICK F : F = flat["tx"]
  OBVIOUS
<1>4. F \in Seq(Byte) /\ Len(F) \in Nat /\ strides \in [{"rx", "tx"} -> Seq(Seq(Byte))] /\ flat \in [{"rx", "tx"} -> Seq(Byte)]
  <2>1. strides \in [{"rx", "tx"} -> Seq(Seq(Byte))] /\ DOMAIN strides = {"rx", "tx"}
    BY DEF Typed
  <2>2. flat = [b \in {"rx", "tx"} |-> FlattenSeq(strides[b])]
    BY <2>1 DEF flat
  <2>3. \A b \in {"rx", "tx"} : FlattenSeq(strides[b]) \in Seq(Byte)
    BY TypedFlat
  <2> QED
    BY <2>1, <2>2, <2>3, <1>3, TypedFlat
<1>5. PICK old : old = Reverse(Flat!Field("tx", Offset[r], RegSize))
  OBVIOUS
<1>6. old = Flat!swap(Flat!Field("tx", Offset[r], RegSize))
  BY <1>5, SameReverse DEF Flat!swap
<1>7. PICK v : v = Flat!Masked(r, Flat!Fresh(steps', RegSize), old)
  OBVIOUS
<1>8. PICK new : new = Flat!swap(v)
  OBVIOUS
<1>9. new = Reverse(v)
  BY <1>8, SameReverse DEF Flat!swap
<1>10. PICK fits \in BOOLEAN : fits <=> Flat!Fits("tx", Offset[r], RegSize)
  <2>1. Flat!Fits("tx", Offset[r], RegSize) \in BOOLEAN
    BY DEF Flat!Fits
  <2> QED
    BY <2>1
<1> DEFINE N == [i \in 1..Len(F) |->
         IF i \in Offset[r] + 1 .. Offset[r] + RegSize /\ (fits \/ Mask[r] = {})
         THEN new[i - Offset[r]] ELSE F[i]]
<1>11. CASE Writes(r, v) /\ Merged(r, v)
  <2>1. fits \/ Mask[r] = {}
    BY <1>10, <1>11 DEF Merged
  <2>2. N = Over(F, Offset[r], Reverse(v))
    BY <2>1, <1>9, Zenon DEF Over
  <2>3. flat' = [flat EXCEPT !["tx"] = N] /\ shown' = Flat!Outcome(r, <<>>, <<>>, fits /\ connected)
    BY <2>2, <1>3, <1>10, <1>11, Zenon DEF Writes, Flat!Outcome
  <2>4. strides' \in [{"rx", "tx"} -> Seq(Seq(Byte))] /\ stored' \in [Settings -> Seq(Byte)]
    <3>1. strides' \in [{"rx", "tx"} -> Seq(Seq(Byte))]
          /\ stored' = [stored EXCEPT ![r] = IF Flat!Fits("tx", Offset[r], RegSize) THEN v ELSE @]
      BY <1>11 DEF Writes
    <3>2. v \in Seq(Byte) /\ stored \in [Settings -> Seq(Byte)]
      BY <1>11 DEF Merged, Typed
    <3> QED
      BY <3>1, <3>2
  <2> HIDE DEF N
  <2>5. flat' = [flat EXCEPT !["tx"] = [i \in 1..Len(@) |->
         IF i \in Offset[r] + 1 .. Offset[r] + RegSize /\ (fits \/ Mask[r] = {})
         THEN new[i - Offset[r]] ELSE @[i]]]
    BY <2>3, <1>3, Zenon DEF N
  <2>6. Flat!Write(r)
    BY <2>3, <2>5, <1>1, <1>2, <1>6, <1>7, <1>8, <1>10, ZenonT(30) DEF Flat!Write, Flat!Outcome
  <2> QED
    BY <2>4, <2>6, <1>2 DEF Typed
<1>12. CASE /\ ~Flat!Fits("tx", Offset[r], RegSize) /\ Mask[r] # {}
            /\ flat' = flat /\ UNCHANGED <<strides, stored>>
            /\ shown' = Flat!Outcome(r, <<>>, <<>>, FALSE)
  <2>1. N = F
    <3>1. N = [i \in 1..Len(F) |-> F[i]]
      BY <1>10, <1>12, Zenon
    <3> HIDE DEF N
    <3> QED
      BY <3>1, <1>4
  <2> HIDE DEF N
  <2>2. flat' = [flat EXCEPT !["tx"] = N]
    BY <2>1, <1>3, <1>4, <1>12
  <2>3. shown' = Flat!Outcome(r, <<>>, <<>>, fits /\ connected)
    BY <1>10, <1>12, Zenon DEF Flat!Outcome
  <2>5. flat' = [flat EXCEPT !["tx"] = [i \in 1..Len(@) |->
         IF i \in Offset[r] + 1 .. Offset[r] + RegSize /\ (fits \/ Mask[r] = {})
         THEN new[i - Offset[r]] ELSE @[i]]]
    BY <2>2, <1>3, Zenon DEF N
  <2>6. Flat!Write(r)
    BY <2>3, <2>5, <1>1, <1>2, <1>6, <1>7, <1>8, <1>10, Zenon DEF Flat!Write, Flat!Outcome
  <2> QED
    BY <2>6, <1>2, <1>12 DEF Typed
<1> QED
  BY <1>5, <1>7, <1>11, <1>12, WriteIs, Zenon

----------------------------------------------------------------------------
\* Every step of a record, a message or an operator is a step of FlatBlock.
LEMMA StepImplements ==
  ASSUME Typed, [RegNext]_regvars
  PROVE  [Flat!Next]_(Flat!vars) /\ Typed'
<1>1. CASE Link
  BY <1>1, LinkImplements, Zenon DEF Flat!Next
<1>2. CASE read_wf_real
  BY <1>2, WaveformImplements, Zenon DEF Flat!Next
<1>3. CASE read_wf_bytes
  BY <1>3, BytesImplements, Zenon DEF Flat!Next
<1>4. CASE read_si_begin
  BY <1>4, BeginImplements, Zenon DEF Flat!Next
<1>11. CASE read_si_end
  BY <1>11, EndImplements, Zenon DEF Flat!Next
<1>5. CASE send
  BY <1>5, SendImplements, Zenon DEF Flat!Next
<1>6. ASSUME NEW n \in Lengths, consume(n) \/ assign(n) PROVE Flat!Next /\ Typed'
  BY <1>6, ReceiveImplements, Zenon DEF Flat!Next
<1>7. ASSUME NEW n \in Lengths, resize(n) PROVE Flat!Next /\ Typed'
  BY <1>7, ResizeImplements, Zenon DEF Flat!Next
<1>8. ASSUME NEW r \in Settings, write(r) PROVE Flat!Next /\ Typed'
  <2>1. r \in Registers
    BY RegBlockAssumption
  <2>2. Flat!Write(r) /\ Typed'
    BY <1>8, WriteImplements
  <2> QED
    BY <2>1, <2>2, Zenon DEF Flat!Next
<1>9. ASSUME NEW r \in Registers \ Settings, read(r) PROVE Flat!Next /\ Typed'
  <2>1. r \in Registers /\ r \notin Settings
    OBVIOUS
  <2>2. Flat!Read(r) /\ Typed'
    BY <1>9, <2>1, ReadImplements
  <2> QED
    BY <2>1, <2>2, Zenon DEF Flat!Next
<1>10. CASE UNCHANGED regvars
  <2>1. flat' = flat
    BY <1>10, FlatSame DEF regvars
  <2> QED
    BY <2>1, <1>10 DEF regvars, Flat!vars, Typed
<1> QED
  BY <1>1, <1>2, <1>3, <1>4, <1>5, <1>6, <1>7, <1>8, <1>9, <1>10, <1>11, Zenon DEF RegNext

\* The blocks are always pieces made of bytes.
LEMMA SpecTyped == RegSpec => []Typed
<1>1. RegInit => Typed
  BY InitImplements
<1>2. Typed /\ [RegNext]_regvars => Typed'
  BY StepImplements
<1> QED
  BY <1>1, <1>2, PTL DEF RegSpec

\* However a message lies in memory, and for every size, offset and step, the
\* registers, waveforms and strings see and change bytes that their links name:
\* RegBlock, on pieces, implements FlatBlock, on plain sequences.  FlatBlock leaves
\* open what read_si() shows of a string that a message overtakes, and how many
\* bytes read_wf_bytes() shows; RegBlockAssumption leaves out the one offset of a
\* string at which copyout_shape() divides by zero.
THEOREM SpecImplementsFlat == RegSpec => ImplementsFlat
<1>1. RegInit => Flat!Init
  BY InitImplements
<1>2. Typed /\ [RegNext]_regvars => [Flat!Next]_(Flat!vars)
  BY StepImplements
<1> QED
  BY <1>1, <1>2, SpecTyped, PTL DEF RegSpec, ImplementsFlat, Flat!Spec

----------------------------------------------------------------------------
\* A setting that is in the block lies in it, with its bits as they were written.
Kept(r) ==
  stored[r] # <<>> =>
    /\ Offset[r] + RegSize <= Len(flat["tx"])
    /\ Alone(r) => \A i \in 1..RegSize : Mask[r] = {} \/ i \in Mask[r] =>
                     flat["tx"][Offset[r] + (RegSize + 1 - i)] = stored[r][i]

\* The inductive invariant of SettingsKept.
KeptInv == Typed /\ \A r \in Settings : Kept(r)

\* The byte order does not change what is kept.
LEMMA KeptIsEnough == KeptInv => SettingsKept
<1> SUFFICES ASSUME KeptInv, NEW r \in Settings, Alone(r), stored[r] # <<>>, NEW i \in 1..RegSize,
                    Mask[r] = {} \/ i \in Mask[r]
             PROVE  Reverse(SubSeq(flat[Block[r]], Offset[r] + 1, Offset[r] + RegSize))[i] = stored[r][i]
  BY Zenon DEF SettingsKept
<1>1. r \in Registers /\ Block[r] = "tx"
  BY RegBlockAssumption
<1>2. PICK o \in Nat : o = Offset[r]
  BY <1>1, RegisterTypes
<1>3. PICK F : F = flat["tx"]
  OBVIOUS
<1>4. F \in Seq(Byte) /\ RegSize \in Nat
  BY <1>3, TypedFlat, ConstantTypes DEF KeptInv
<1>5. o + RegSize <= Len(F) /\ F[o + (RegSize + 1 - i)] = stored[r][i]
  BY <1>2, <1>3 DEF KeptInv, Kept
<1>6. PICK f : f = SubSeq(F, o + 1, o + RegSize)
  OBVIOUS
<1>7. IsPart(Byte, F, o, RegSize, f)
  BY <1>4, <1>5, <1>6, PartIs
<1>8. f \in Seq(Byte) /\ Len(f) = RegSize /\ \A j \in 1..RegSize : f[j] = F[o + j]
  BY <1>7 DEF IsPart
<1>9. Reverse(f)[i] = f[(RegSize - i) + 1]
  BY <1>8, ReverseIs
<1>10. (RegSize - i) + 1 \in 1..RegSize /\ (RegSize - i) + 1 = RegSize + 1 - i
  BY <1>4
<1>11. Reverse(f)[i] = stored[r][i]
  BY <1>5, <1>8, <1>9, <1>10
<1> QED
  BY <1>1, <1>2, <1>3, <1>6, <1>11

\* Steps that leave the send block and the settings alone.
LEMMA KeptSame ==
  ASSUME NEW r \in Settings, Kept(r), flat'["tx"] = flat["tx"], stored' = stored
  PROVE  Kept(r)'
  BY DEF Kept, Alone, Own

\* resize() forgets the settings it cuts off and keeps the others.
LEMMA KeptResize ==
  ASSUME KeptInv, NEW n \in Lengths, resize(n), NEW r \in Settings
  PROVE  Kept(r)'
<1> SUFFICES ASSUME stored'[r] # <<>> PROVE Kept(r)'
  BY DEF Kept
<1>1. n \in Nat /\ RegSize \in Nat /\ Typed /\ Kept(r)
  BY RegBlockAssumption, ConstantTypes DEF KeptInv
<1>2. PICK o \in Nat : o = Offset[r]
  BY RegBlockAssumption
<1>3. PICK F : F = flat["tx"]
  OBVIOUS
<1>4. F \in Seq(Byte) /\ Len(F) \in Nat /\ DOMAIN flat = {"rx", "tx"}
  BY <1>1, <1>3, TypedFlat DEF flat, Typed
<1>5. o + RegSize <= n /\ stored'[r] = stored[r]
  BY <1>2 DEF resize
<1>6. flat' = [flat EXCEPT !["tx"] = [i \in 1..n |-> IF i <= Len(@) THEN @[i] ELSE Zero]]
  BY <1>1, ResizeImplements DEF Flat!SetSize
<1>7. PICK G : G = flat'["tx"]
  OBVIOUS
<1>8. G = [i \in 1..n |-> IF i <= Len(F) THEN F[i] ELSE Zero]
  BY <1>3, <1>4, <1>6, <1>7
<1>9. Len(G) = n /\ \A i \in 1..n : i <= Len(F) => G[i] = F[i]
  BY <1>1, <1>8
<1>10. o + RegSize <= Len(F)
  BY <1>1, <1>2, <1>3, <1>5 DEF Kept
<1>11. ASSUME NEW i \in 1..RegSize PROVE G[o + (RegSize + 1 - i)] = F[o + (RegSize + 1 - i)]
  <2>1. o + (RegSize + 1 - i) \in 1..n /\ o + (RegSize + 1 - i) <= Len(F)
    BY <1>1, <1>4, <1>5, <1>10
  <2> QED
    BY <2>1, <1>9
<1> QED
  BY <1>1, <1>2, <1>3, <1>5, <1>7, <1>9, <1>11 DEF Kept, Alone, Own

\* write_binary() of one setting keeps the bits of the others, and a setting that is
\* in the block is never written in part.
LEMMA KeptWrite ==
  ASSUME KeptInv, NEW w \in Settings, write(w), NEW r \in Settings
  PROVE  Kept(r)'
<1>1. RegSize \in Nat \ {0} /\ Typed /\ Kept(r)
  BY ConstantTypes DEF KeptInv
<1>2. CASE flat' = flat /\ UNCHANGED stored
  BY <1>1, <1>2, KeptSame
<1>3. ASSUME NEW v, Merged(w, v), Writes(w, v) PROVE Kept(r)'
  <2> SUFFICES ASSUME stored'[r] # <<>> PROVE Kept(r)'
    BY DEF Kept
  <2>1. PICK F : F = flat["tx"]
    OBVIOUS
  <2>2. F \in Seq(Byte) /\ Len(F) \in Nat /\ DOMAIN flat = {"rx", "tx"}
    BY <1>1, <2>1, TypedFlat DEF flat, Typed
  <2>3. PICK G : G = flat'["tx"]
    OBVIOUS
  <2>4. PICK p \in Nat : p = Offset[w]
    BY RegBlockAssumption
  <2>5. PICK o \in Nat : o = Offset[r]
    BY RegBlockAssumption
  <2>6. PICK bytes : bytes = Reverse(v)
    OBVIOUS
  <2>7. G = Over(F, p, bytes)
    <3>1. flat' = [flat EXCEPT !["tx"] = Over(F, p, bytes)]
      BY <1>3, <2>1, <2>4, <2>6, Zenon DEF Writes
    <3> QED
      BY <3>1, <2>2, <2>3
  <2>8. v \in Seq(Byte) /\ Len(v) = RegSize
    BY <1>3 DEF Merged
  <2>9. bytes \in Seq(Byte) /\ Len(bytes) = RegSize /\ \A i \in 1..RegSize : bytes[i] = v[(RegSize - i) + 1]
    BY <2>6, <2>8, ReverseIs
  <2>10. Len(G) = Len(F) /\ \A q \in 1..Len(F) : G[q] = IF q \in p + 1 .. p + RegSize THEN bytes[q - p] ELSE F[q]
    BY <2>2, <2>7 DEF Over
  <2>11. PICK fits \in BOOLEAN : (fits <=> Flat!Fits("tx", Offset[w], RegSize)) /\ (fits <=> p + RegSize <= Len(F))
    <3>1. (p + RegSize <= Len(F)) \in BOOLEAN
      OBVIOUS
    <3>2. Flat!Fits("tx", Offset[w], RegSize) <=> p + RegSize <= Len(F)
      BY <2>1, <2>4, Zenon DEF Flat!Fits
    <3> QED
      BY <3>1, <3>2
  <2>12. stored' = [stored EXCEPT ![w] = IF fits THEN v ELSE @] /\ stored \in [Settings -> Seq(Byte)]
    BY <1>1, <1>3, <2>11, Zenon DEF Writes, Typed
  <2>13. CASE r = w
    <3>1. fits
      <4>1. ~fits => stored'[r] = stored[r]
        BY <2>12, <2>13
      <4>2. stored[r] # <<>> => Offset[r] + RegSize <= Len(flat["tx"])
        BY <1>1 DEF Kept
      <4> QED
        BY <4>1, <4>2, <2>1, <2>4, <2>11, <2>13
    <3>2. stored'[r] = v /\ o = p /\ o + RegSize <= Len(F)
      BY <3>1, <2>4, <2>5, <2>11, <2>12, <2>13
    <3>3. ASSUME NEW i \in 1..RegSize PROVE G[o + (RegSize + 1 - i)] = v[i]
      <4>1. PICK j \in 1..RegSize : j = RegSize + 1 - i /\ (RegSize - j) + 1 = i
        <5>1. RegSize + 1 - i \in 1..RegSize /\ (RegSize - (RegSize + 1 - i)) + 1 = i
          BY <1>1
        <5> QED
          BY <5>1
      <4>2. o + j \in 1..Len(F) /\ o + j \in p + 1 .. p + RegSize /\ (o + j) - p = j
        BY <3>2, <2>2, <1>1
      <4>3. G[o + j] = bytes[j]
        BY <4>2, <2>10
      <4> QED
        BY <4>1, <4>3, <2>9
    <3> QED
      BY <3>2, <3>3, <2>3, <2>5, <2>10 DEF Kept
  <2>14. CASE r # w
    <3>1. stored'[r] = stored[r]
      BY <2>12, <2>14
    <3>2. /\ o + RegSize <= Len(F)
          /\ Alone(r) => \A i \in 1..RegSize : Mask[r] = {} \/ i \in Mask[r] =>
                           F[o + (RegSize + 1 - i)] = stored[r][i]
      BY <1>1, <2>1, <2>5, <3>1 DEF Kept
    <3>3. ASSUME Alone(r), NEW i \in 1..RegSize, Mask[r] = {} \/ i \in Mask[r]
          PROVE  G[o + (RegSize + 1 - i)] = F[o + (RegSize + 1 - i)]
      <4>1. PICK q \in Nat : q = o + (RegSize + 1 - i) /\ q \in 1..Len(F)
        <5>1. o + (RegSize + 1 - i) \in Nat /\ o + (RegSize + 1 - i) \in 1..Len(F)
          BY <1>1, <2>2, <3>2
        <5> QED
          BY <5>1
      <4>2. q \in Own(r)
        BY <3>3, <4>1, <2>5 DEF Own
      <4>3. q \notin Own(w)
        BY <3>3, <4>2, <2>14 DEF Alone
      <4>4. CASE q \in p + 1 .. p + RegSize
        <5>1. PICK k \in 1..RegSize : q = p + k
          <6>1. q - p \in 1..RegSize /\ q = p + (q - p)
            BY <4>4, <1>1
          <6> QED
            BY <6>1
        <5>2. PICK j \in 1..RegSize : j = (RegSize - k) + 1 /\ q = p + (RegSize + 1 - j) /\ (RegSize - j) + 1 = k
          <6>1. /\ (RegSize - k) + 1 \in 1..RegSize /\ q = p + (RegSize + 1 - ((RegSize - k) + 1))
                /\ (RegSize - ((RegSize - k) + 1)) + 1 = k
            BY <5>1, <1>1
          <6> QED
            BY <6>1
        <5>3. Mask[w] # {} /\ j \notin Mask[w]
          BY <4>3, <5>2, <2>4 DEF Own
        <5>4. PICK f : f = Flat!Field("tx", Offset[w], RegSize)
          OBVIOUS
        <5>5. fits /\ v[j] = Reverse(f)[j]
          BY <1>3, <5>3, <5>4, <2>11 DEF Merged
        <5>6. IsPart(Byte, F, p, RegSize, f)
          <6>1. f = SubSeq(F, p + 1, p + RegSize)
            BY <5>4, <2>1, <2>4, Zenon DEF Flat!Field
          <6> QED
            BY <6>1, <5>5, <2>2, <2>11, <1>1, PartIs
        <5>7. f \in Seq(Byte) /\ Len(f) = RegSize /\ f[k] = F[p + k]
          BY <5>6 DEF IsPart
        <5>8. Reverse(f)[j] = f[(RegSize - j) + 1]
          BY <5>7, ReverseIs
        <5>9. bytes[k] = F[q]
          BY <5>1, <5>2, <5>5, <5>7, <5>8, <2>9
        <5>10. q - p = k
          BY <5>1
        <5> QED
          BY <4>1, <4>4, <5>9, <5>10, <2>10
      <4>5. CASE ~(q \in p + 1 .. p + RegSize)
        BY <4>1, <4>5, <2>10
      <4> QED
        BY <4>4, <4>5
    <3>4. Alone(r)' <=> Alone(r)
      BY DEF Alone, Own
    <3>5. Alone(r) => \A i \in 1..RegSize : Mask[r] = {} \/ i \in Mask[r] =>
                           G[o + (RegSize + 1 - i)] = stored'[r][i]
      BY <3>1, <3>2, <3>3
    <3> QED
      BY <3>2, <3>4, <3>5, <2>3, <2>5, <2>10 DEF Kept
  <2> QED
    BY <2>13, <2>14
<1> QED
  BY <1>1, <1>2, <1>3, WriteIs

\* A setting keeps its bytes of the send block until its record writes again,
\* whatever the records do that share the register: the read-modify-write of
\* write_binary() and the partial stores of copyin() never touch them.
THEOREM SpecSettingsKept == RegSpec => []SettingsKept
<1>1. RegInit => KeptInv
  <2> SUFFICES ASSUME RegInit PROVE KeptInv
    OBVIOUS
  <2>1. Typed /\ \A r \in Settings : stored[r] = <<>>
    BY InitImplements DEF RegInit
  <2> QED
    BY <2>1 DEF KeptInv, Kept
<1>2. KeptInv /\ [RegNext]_regvars => KeptInv'
  <2> SUFFICES ASSUME KeptInv, [RegNext]_regvars PROVE KeptInv'
    OBVIOUS
  <2>1. Typed /\ Typed'
    BY StepImplements DEF KeptInv
  <2> SUFFICES ASSUME NEW r \in Settings PROVE Kept(r)'
    BY <2>1 DEF KeptInv
  <2>2. Kept(r)
    BY DEF KeptInv
  <2>3. CASE Link \/ read_wf_real \/ read_wf_bytes \/ read_si_begin \/ read_si_end \/ send
             \/ (\E s \in Registers \ Settings : read(s)) \/ UNCHANGED regvars
    <3>1. UNCHANGED <<strides, stored>>
      BY <2>3 DEF Link, read_wf_real, read_wf_bytes, read_si_begin, read_si_end, send, read, regvars
    <3>2. flat' = flat
      BY <3>1, FlatSame
    <3> QED
      BY <2>2, <3>1, <3>2, KeptSame
  <2>4. ASSUME NEW n \in Lengths, consume(n) \/ assign(n) PROVE Kept(r)'
    <3>1. flat' = [flat EXCEPT !["rx"] = Flat!Fresh(steps', n)]
      BY <2>1, <2>4, ReceiveImplements, Zenon DEF Flat!Receive
    <3>2. flat'["tx"] = flat["tx"]
      BY <3>1, <2>1 DEF flat, Typed
    <3>3. stored' = stored
      BY <2>4 DEF consume, assign
    <3> QED
      BY <2>2, <3>2, <3>3, KeptSame
  <2>5. ASSUME NEW n \in Lengths, resize(n) PROVE Kept(r)'
    BY <2>5, KeptResize
  <2>6. ASSUME NEW w \in Settings, write(w) PROVE Kept(r)'
    BY <2>6, KeptWrite
  <2> QED
    BY <2>3, <2>4, <2>5, <2>6, Zenon DEF RegNext
<1> QED
  BY <1>1, <1>2, KeptIsEnough, PTL DEF RegSpec
=============================================================================
