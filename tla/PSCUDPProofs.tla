----------------------------- MODULE PSCUDPProofs -----------------------------
(***************************************************************************)
(* Proofs about the two halves of class PSCUDP, PSCUDPRecv and after it    *)
(* PSCUDPSend, each for any constants.                                     *)
(*                                                                         *)
(* EveryDatagramCounted is inductive once the counters of the blocks are a *)
(* set that grows by one (Tally).  BlocksHoldNewest is not: what a datagram*)
(* leaves of itself depends on how large rxscratch has grown by then.      *)
(* SizeInv says how large, and that the spec's Room(n), the largest of what*)
(* came before, is that size (RoomIs).                                     *)
(*                                                                         *)
(* AtMostTwice is not inductive either.  That senddata() sends a packet a  *)
(* second time but never a third depends on the free list: only when it is *)
(* full does the packet stay at the head of txbuf, and then the list has   *)
(* lost a buffer, which nobody gives back before that packet's next turn   *)
(* (RepeatHasRoom).  The next packet is a new one because those that wait  *)
(* are all different (WaitingOnce).                                        *)
(***************************************************************************)
EXTENDS PSCUDPRecv, PSCUDPSend, FiniteSetTheorems, WellFoundedInduction, TLAPS

\* What Min and Max choose.
LEMMA MinIs ==
  ASSUME NEW a \in Nat, NEW b \in Nat
  PROVE  Min({a, b}) = IF a <= b THEN a ELSE b
<1> DEFINE m == IF a <= b THEN a ELSE b
<1>1. m \in {a, b} /\ \A y \in {a, b} : m <= y
  OBVIOUS
<1>2. \A x \in {a, b} : (\A y \in {a, b} : x <= y) => x = m
  OBVIOUS
<1> HIDE DEF m
<1>3. Min({a, b}) \in {a, b} /\ \A y \in {a, b} : Min({a, b}) <= y
  BY <1>1 DEF Min
<1> QED
  BY <1>2, <1>3 DEF m

LEMMA MaxIs ==
  ASSUME NEW S, S \subseteq Nat, NEW x \in S, \A y \in S : y <= x
  PROVE  Max(S) = x
<1>1. Max(S) \in S /\ \A y \in S : Max(S) >= y
  BY DEF Max
<1>2. Max(S) \in Nat /\ x \in Nat /\ Max(S) <= x /\ Max(S) >= x
  BY <1>1
<1> QED
  BY <1>2

\* The least-number principle, and what it says of the largest number.
LEMMA LeastNat ==
  ASSUME NEW S, S \subseteq Nat, S # {}
  PROVE  \E x \in S : \A y \in S : x <= y
<1>1. \E x \in S : \A y \in S : ~(<<y, x>> \in OpToRel(<, Nat))
  BY NatLessThanWellFounded, WFMin, Zenon
<1>2. \A x, y \in S : y < x => <<y, x>> \in OpToRel(<, Nat)
  BY DEF OpToRel
<1>3. \E x \in S : \A y \in S : ~(y < x)
  BY <1>1, <1>2, Zenon
<1> QED
  BY <1>3

\* A bounded set of numbers has a largest one: the least distance to the bound.
LEMMA BoundedMax ==
  ASSUME NEW S, S \subseteq Nat, S # {}, NEW z \in Nat, \A y \in S : y <= z
  PROVE  Max(S) \in S /\ \A y \in S : y <= Max(S)
<1> DEFINE D == {z - y : y \in S}
<1>1. D \subseteq Nat /\ D # {}
  <2>1. \A y \in S : z - y \in Nat
    OBVIOUS
  <2>2. PICK y \in S : TRUE
    OBVIOUS
  <2>3. z - y \in D
    BY <2>2
  <2> QED
    BY <2>1, <2>3
<1>2. PICK d \in D : \A e \in D : d <= e
  BY <1>1, LeastNat
<1>3. PICK x \in S : d = z - x
  BY <1>2
<1>4. \A y \in S : y <= x
  <2> TAKE y \in S
  <2>1. z - x <= z - y
    BY <1>2, <1>3
  <2> QED
    BY <2>1
<1> QED
  BY <1>3, <1>4, MaxIs

\* A number below the modulus.
LEMMA ModSmall == ASSUME NEW w \in Nat \ {0}, NEW a \in 0..(w - 1) PROVE a % w = a
  OBVIOUS

\* The body of a datagram that fills the buffer from its start.
LEMMA BytesAfter ==
  ASSUME NEW n, NEW h \in Nat, NEW l \in Nat, NEW s \in Seq(Byte), h + l <= Len(s),
         \A k \in 1..(h + l) : s[k] = [n |-> n, k |-> k]
  PROVE  SubSeq(s, h + 1, h + l) = Bytes(n, h + 1, h + l)
<1>1. (h + l) - (h + 1) + 1 = l
  OBVIOUS
<1>2. Bytes(n, h + 1, h + l) = [k \in 1..l |-> [n |-> n, k |-> (h + 1) + (k - 1)]]
  BY <1>1 DEF Bytes
<1>3. \A k \in 1..l : [n |-> n, k |-> (h + 1) + (k - 1)] = s[h + k]
  <2> TAKE k \in 1..l
  <2>1. h + k \in 1..(h + l) /\ (h + 1) + (k - 1) = h + k
    OBVIOUS
  <2> QED
    BY <2>1
<1>4. SubSeq(s, h + 1, h + l) = [k \in 1..l |-> s[h + k]]
  OBVIOUS
<1> QED
  BY <1>2, <1>3, <1>4

\* A sequence in front of another.
LEMMA Prefixed ==
  ASSUME NEW T, NEW s \in Seq(T), NEW t \in Seq(T)
  PROVE  /\ s \o t \in Seq(T) /\ Len(s \o t) = Len(s) + Len(t)
         /\ \A k \in 1..Len(s) : (s \o t)[k] = s[k]
  OBVIOUS

\* What recvfrom() leaves in rxscratch.
LEMMA Filled ==
  ASSUME RecvTypeOK, read < Len(arrived)
  PROVE  /\ next \in Dgram /\ next.size \in Nat /\ next.len \in Nat
         /\ ret = IF next.size <= Len(rxscratch) THEN next.size ELSE Len(rxscratch)
         /\ ret \in Nat
         /\ filled \in Seq(Byte) /\ Len(filled) = Len(rxscratch)
         /\ \A k \in 1..ret : filled[k] = [n |-> read + 1, k |-> k]
<1>1. next \in Dgram /\ next.size \in Nat /\ next.len \in Nat
  BY PSCUDPRecvAssumption DEF RecvTypeOK, next
<1>2. rxscratch \in Seq(Byte) /\ Len(rxscratch) \in Nat /\ read + 1 \in Nat
  BY DEF RecvTypeOK
<1>3. ret = IF next.size <= Len(rxscratch) THEN next.size ELSE Len(rxscratch)
  BY <1>1, <1>2, MinIs DEF ret
<1>4. ret \in Nat /\ ret <= Len(rxscratch)
  BY <1>1, <1>2, <1>3
<1> DEFINE b == Bytes(read + 1, 1, ret)
           t == SubSeq(rxscratch, ret + 1, Len(rxscratch))
<1>5. b \in Seq(Byte) /\ Len(b) = ret /\ \A k \in 1..ret : b[k] = [n |-> read + 1, k |-> k]
  <2>1. b = [k \in 1..ret |-> [n |-> read + 1, k |-> k]]
    BY <1>4 DEF Bytes
  <2>2. \A k \in 1..ret : [n |-> read + 1, k |-> k] \in Byte
    BY <1>2, <1>4 DEF Byte
  <2> QED
    BY <2>1, <2>2, <1>4
<1>6. t \in Seq(Byte) /\ Len(t) = Len(rxscratch) - ret
  BY <1>2, <1>4
<1> HIDE DEF b, t
<1>7. b \o t \in Seq(Byte) /\ Len(b \o t) = Len(rxscratch) /\ \A k \in 1..ret : (b \o t)[k] = b[k]
  <2>1. /\ b \o t \in Seq(Byte) /\ Len(b \o t) = Len(b) + Len(t)
        /\ \A k \in 1..Len(b) : (b \o t)[k] = b[k]
    BY <1>5, <1>6, Prefixed, ZenonT(30)
  <2> QED
    BY <2>1, <1>2, <1>4, <1>5, <1>6
<1> QED
  BY <1>1, <1>3, <1>4, <1>5, <1>7 DEF filled, b, t

----------------------------------------------------------------------------
\* One datagram is read; nothing but recvfrom() moves read.
Turn == dropForeign \/ dropSmall \/ dropCorrupt \/ dropTruncated \/ store

\* Every step keeps the types: the loop reads what has arrived, and rxscratch
\* stays a sequence of bytes whatever its size becomes.
LEMMA TypeInvariant == RecvTypeOK /\ [RecvNext]_recvvars => RecvTypeOK'
<1> SUFFICES ASSUME RecvTypeOK, [RecvNext]_recvvars PROVE RecvTypeOK'
  OBVIOUS
<1> USE PSCUDPRecvAssumption
<1>1. CASE connectRx
  BY <1>1 DEF connectRx, connect, RecvTypeOK
<1>2. ASSUME NEW m \in Dgram, Arrive(m) PROVE RecvTypeOK'
  BY <1>2 DEF Arrive, RecvTypeOK
<1>3. CASE recvdata
  BY <1>3 DEF recvdata, RecvTypeOK
<1>4. CASE recvdata_timeout
  BY <1>4 DEF recvdata_timeout, RecvTypeOK
<1>5. CASE recvdone
  <2>1. conncount' \in Nat
    BY <1>5 DEF recvdone, RecvTypeOK
  <2> QED
    BY <1>5, <2>1 DEF recvdone, RecvTypeOK
<1>6. CASE UNCHANGED recvvars
  BY <1>6 DEF recvvars, RecvTypeOK
<1>7. CASE dropForeign \/ dropSmall \/ dropCorrupt
  <2>1. rxscratch' = filled /\ recvfrom /\ UNCHANGED <<data, rxcount>> /\ ukncount' \in {ukncount, ukncount + 1}
    BY <1>7 DEF dropForeign, dropSmall, dropCorrupt, RecvTypeOK
  <2>2. filled \in Seq(Byte)
    BY <2>1, Filled DEF recvfrom
  <2> QED
    BY <2>1, <2>2 DEF recvfrom, RecvTypeOK
<1>8. CASE dropTruncated
  <2>1. filled \in Seq(Byte) /\ next.len \in Nat
    BY <1>8, Filled DEF dropTruncated, recvfrom
  <2>2. (next.len + HEADER_SIZE) % Wrap \in Nat /\ Zero \in Byte
    BY <2>1 DEF Zero, Byte
  <2>3. Resized(filled, (next.len + HEADER_SIZE) % Wrap) \in Seq(Byte)
    <3>1. \A k \in 1..((next.len + HEADER_SIZE) % Wrap) : (IF k <= Len(filled) THEN filled[k] ELSE Zero) \in Byte
      BY <2>1, <2>2
    <3> QED
      BY <3>1, <2>2 DEF Resized
  <2> QED
    BY <1>8, <2>3 DEF dropTruncated, recvfrom, RecvTypeOK
<1>9. CASE store
  <2>1. filled \in Seq(Byte) /\ next.len \in Nat
    BY <1>9, Filled DEF store, recvfrom
  <2>2. Len(filled) = Len(rxscratch) /\ next.len <= Len(rxscratch) - HEADER_SIZE
    BY <1>9, <2>1, Filled DEF store, recvfrom, tooLong, RecvTypeOK
  <2>3. SubSeq(filled, HEADER_SIZE + 1, HEADER_SIZE + next.len) \in Seq(Byte)
    BY <2>1, <2>2 DEF RecvTypeOK
  <2> QED
    BY <1>9, <2>1, <2>3, SMTT(30) DEF store, recvfrom, RecvTypeOK
<1> QED
  BY <1>1, <1>2, <1>3, <1>4, <1>5, <1>6, <1>7, <1>8, <1>9 DEF RecvNext

\* The constructor establishes the types.
LEMMA InitTypeOK == RecvInit => RecvTypeOK
<1>1. Zero \in Byte /\ RxInit \in Nat
  BY PSCUDPRecvAssumption DEF Zero, Byte
<1>2. [k \in 1..RxInit |-> Zero] \in Seq(Byte)
  BY <1>1
<1>3. <<>> \in Seq(Byte) /\ <<>> \in Seq(Dgram) /\ Len(<<>>) = 0
  OBVIOUS
<1> SUFFICES ASSUME RecvInit PROVE RecvTypeOK
  OBVIOUS
<1>4. sound \in BOOLEAN /\ connected \in BOOLEAN /\ reading \in BOOLEAN
  BY Zenon DEF RecvInit
<1>5. data \in [Blocks -> Seq(Byte)] /\ rxcount \in [Blocks -> Nat]
  BY <1>3 DEF RecvInit
<1>6. arrived \in Seq(Dgram) /\ read \in 0..Len(arrived) /\ rxscratch \in Seq(Byte)
  BY <1>2, <1>3 DEF RecvInit
<1> QED
  BY <1>4, <1>5, <1>6 DEF RecvInit, RecvTypeOK

\* The variables keep their types: recvdata() never reads beyond what has
\* arrived, and blocks hold bytes of datagrams.
THEOREM SpecRecvTypeOK == RecvSpec => []RecvTypeOK
  BY InitTypeOK, TypeInvariant, PTL DEF RecvSpec

\* rxscratch keeps its size, but for a turn that drops a datagram as truncated.
LEMMA KeepsSize ==
  ASSUME RecvTypeOK, dropForeign \/ dropSmall \/ dropCorrupt \/ store
  PROVE  Len(rxscratch') = Len(rxscratch)
<1>1. rxscratch' = filled /\ recvfrom
  BY DEF dropForeign, dropSmall, dropCorrupt, store
<1> QED
  BY <1>1, Filled DEF recvfrom

----------------------------------------------------------------------------
\* EveryDatagramCounted.

\* Every step but a turn of the loop keeps what the counters say.
LEMMA NoTurn ==
  ASSUME RecvTypeOK, [RecvNext]_recvvars, ~Turn
  PROVE  /\ UNCHANGED <<sound, read, rxscratch, data, rxcount, ukncount>>
         /\ Len(arrived) <= Len(arrived')
         /\ \A n \in 1..Len(arrived) : arrived'[n] = arrived[n]
<1>1. UNCHANGED <<sound, read, rxscratch, data, rxcount, ukncount>>
  BY DEF RecvNext, Turn, connectRx, connect, Arrive, recvdata, recvdata_timeout, recvdone, recvvars
<1>2. CASE UNCHANGED arrived
  BY <1>1, <1>2 DEF RecvTypeOK
<1>3. ASSUME NEW m \in Dgram, Arrive(m)
      PROVE  Len(arrived) <= Len(arrived') /\ \A n \in 1..Len(arrived) : arrived'[n] = arrived[n]
  BY <1>3 DEF Arrive, RecvTypeOK
<1> QED
  BY <1>1, <1>2, <1>3 DEF RecvNext, Turn, connectRx, connect, recvdata, recvdata_timeout, recvdone, recvvars

\* The counters add up to a finite number.
Tallied == IsFiniteSet(Tally)
\* The datagrams read that no counter shows.
SilentSet == {n \in 1..read : Silent(n)}

\* They can be counted.
LEMMA SilentFinite == RecvTypeOK => IsFiniteSet(SilentSet) /\ Cardinality(SilentSet) \in Nat
<1> SUFFICES ASSUME RecvTypeOK PROVE IsFiniteSet(SilentSet) /\ Cardinality(SilentSet) \in Nat
  OBVIOUS
<1>1. IsFiniteSet(1..read) /\ SilentSet \subseteq 1..read
  BY FS_Interval DEF RecvTypeOK, SilentSet
<1> QED
  BY <1>1, FS_Subset, FS_CardinalityType

\* A turn reads one datagram, which is silent or not.
LEMMA SilentStep ==
  ASSUME RecvTypeOK, recvfrom
  PROVE  Cardinality(SilentSet') = Cardinality(SilentSet) + (IF Silent(read + 1) THEN 1 ELSE 0)
<1>1. read + 1 \notin SilentSet /\ read' = read + 1 /\ arrived' = arrived /\ read \in Nat
  BY DEF RecvTypeOK, SilentSet, recvfrom
<1>2. \A n : Silent(n)' <=> Silent(n)
  BY <1>1 DEF Silent
<1>3. SilentSet' = IF Silent(read + 1) THEN SilentSet \cup {read + 1} ELSE SilentSet
  BY <1>1, <1>2 DEF SilentSet
<1> QED
  BY <1>1, <1>3, SilentFinite, FS_AddElement

\* A block counts one more.
LEMMA TallyStep ==
  ASSUME RecvTypeOK, Tallied, NEW b \in Blocks, rxcount' = [rxcount EXCEPT ![b] = @ + 1]
  PROVE  Tallied' /\ Cardinality(Tally') = Cardinality(Tally) + 1
<1> DEFINE x == <<b, rxcount[b] + 1>>
<1>1. rxcount \in [Blocks -> Nat] /\ rxcount' \in [Blocks -> Nat]
  BY DEF RecvTypeOK
<1>2. \A y : y \in Tally <=> \E c \in Blocks : \E i \in 1..rxcount[c] : y = <<c, i>>
  BY DEF Tally
<1>3. \A y : y \in Tally' <=> \E c \in Blocks : \E i \in 1..rxcount'[c] : y = <<c, i>>
  BY DEF Tally
<1>4. /\ \A c \in Blocks \ {b} : rxcount'[c] = rxcount[c]
      /\ rxcount'[b] = rxcount[b] + 1 /\ rxcount[b] \in Nat
  BY <1>1
<1>5. x \notin Tally
  BY <1>1, <1>2
<1>6. Tally' = Tally \cup {x}
  <2>1. ASSUME NEW y \in Tally' PROVE y \in Tally \cup {x}
    <3>1. PICK c \in Blocks : \E i \in 1..rxcount'[c] : y = <<c, i>>
      BY <2>1, <1>3
    <3>2. PICK i \in 1..rxcount'[c] : y = <<c, i>>
      BY <3>1
    <3>3. CASE c = b /\ i = rxcount[b] + 1
      BY <3>2, <3>3
    <3>4. CASE ~(c = b /\ i = rxcount[b] + 1)
      <4>1. i \in 1..rxcount[c]
        BY <3>2, <3>4, <1>4
      <4> QED
        BY <4>1, <3>2, <1>2
    <3> QED
      BY <3>3, <3>4
  <2>2. ASSUME NEW y \in Tally PROVE y \in Tally'
    BY <2>2, <1>2, <1>3, <1>4
  <2>3. x \in Tally'
    BY <1>3, <1>4
  <2> QED
    BY <2>1, <2>2, <2>3
<1> QED
  BY <1>5, <1>6, FS_AddElement DEF Tallied

\* The inductive invariant of the counters.
CountInv == RecvTypeOK /\ Tallied /\ EveryDatagramCounted

\* A turn adds one datagram to exactly one of the three.
LEMMA CountStep == CountInv /\ [RecvNext]_recvvars => CountInv'
<1> SUFFICES ASSUME CountInv, [RecvNext]_recvvars PROVE Tallied' /\ EveryDatagramCounted'
  BY TypeInvariant DEF CountInv
<1> USE PSCUDPRecvAssumption
<1>t. RecvTypeOK /\ Tallied /\ ukncount \in Nat /\ Cardinality(Tally) \in Nat /\ Cardinality(SilentSet) \in Nat
  BY FS_CardinalityType, SilentFinite DEF CountInv, Tallied, RecvTypeOK
<1>e. Len(rxscratch) >= HEADER_SIZE => read = Cardinality(Tally) + ukncount + Cardinality(SilentSet)
  BY DEF CountInv, EveryDatagramCounted, SilentSet
<1>g. SUFFICES Tallied' /\ (Len(rxscratch') >= HEADER_SIZE =>
                   read' = Cardinality(Tally') + ukncount' + Cardinality(SilentSet'))
  BY DEF EveryDatagramCounted, SilentSet
<1>1. CASE ~Turn
  <2>1. /\ UNCHANGED <<read, rxscratch, rxcount, ukncount>>
        /\ \A n \in 1..read : arrived'[n] = arrived[n]
    BY <1>1, <1>t, NoTurn DEF RecvTypeOK
  <2>2. Tally' = Tally
    BY <2>1 DEF Tally
  <2>3. SilentSet' = SilentSet
    BY <2>1 DEF SilentSet, Silent
  <2> QED
    BY <2>1, <2>2, <2>3, <1>t, <1>e DEF Tallied
<1>2. CASE Turn
  <2>1. recvfrom /\ read' = read + 1 /\ read < Len(arrived)
    BY <1>2 DEF Turn, dropForeign, dropSmall, dropCorrupt, dropTruncated, store, recvfrom
  <2>2. /\ ~next.peer \/ (next.size >= HEADER_SIZE /\ ~next.magic)
              => Cardinality(SilentSet') = Cardinality(SilentSet) + 1
        /\ ~(~next.peer \/ (next.size >= HEADER_SIZE /\ ~next.magic))
              => Cardinality(SilentSet') = Cardinality(SilentSet)
    <3>1. Cardinality(SilentSet') = Cardinality(SilentSet) + (IF Silent(read + 1) THEN 1 ELSE 0)
      BY <1>t, <2>1, SilentStep
    <3> QED
      BY <3>1, <1>t DEF Silent, next
  <2>4. Len(rxscratch) >= HEADER_SIZE => (ret < HEADER_SIZE <=> next.size < HEADER_SIZE)
    BY <1>t, <2>1, Filled DEF RecvTypeOK
  <2>5. Len(rxscratch') >= HEADER_SIZE => Len(rxscratch) >= HEADER_SIZE
    <3>1. CASE dropForeign \/ dropSmall \/ dropCorrupt \/ store
      BY <1>t, <3>1, KeepsSize
    <3>2. CASE dropTruncated
      <4>1. ret >= HEADER_SIZE /\ ret <= Len(rxscratch) /\ ret \in Nat /\ Len(rxscratch) \in Nat
        BY <3>2, <1>t, <2>1, Filled DEF dropTruncated, HasHeader, RecvTypeOK
      <4> QED
        BY <4>1
    <3> QED
      BY <1>2, <3>1, <3>2 DEF Turn
  <2>6. ret \in Nat /\ next.size \in Nat
    BY <1>t, <2>1, Filled
  <2>b. next.peer \in BOOLEAN /\ next.magic \in BOOLEAN
    BY <1>t, <2>1, Filled
  <2>7. CASE UNCHANGED rxcount /\ ukncount' = ukncount /\ (Len(rxscratch) >= HEADER_SIZE => Cardinality(SilentSet') = Cardinality(SilentSet) + 1)
    <3>1. Tally' = Tally
      BY <2>7 DEF Tally
    <3>2. Tallied'
      BY <3>1, <1>t, Zenon DEF Tallied
    <3>3. Len(rxscratch') >= HEADER_SIZE => read' = Cardinality(Tally') + ukncount' + Cardinality(SilentSet')
      BY <3>1, <1>t, <1>e, <2>1, <2>5, <2>7
    <3> QED
      BY <3>2, <3>3
  <2>8. CASE UNCHANGED rxcount /\ ukncount' = ukncount + 1 /\ (Len(rxscratch) >= HEADER_SIZE => Cardinality(SilentSet') = Cardinality(SilentSet))
    <3>1. Tally' = Tally
      BY <2>8 DEF Tally
    <3>2. Tallied'
      BY <3>1, <1>t, Zenon DEF Tallied
    <3>3. Len(rxscratch') >= HEADER_SIZE => read' = Cardinality(Tally') + ukncount' + Cardinality(SilentSet')
      BY <3>1, <1>t, <1>e, <2>1, <2>5, <2>8
    <3> QED
      BY <3>2, <3>3
  <2>9. CASE dropForeign \/ dropCorrupt
    <3>1. Len(rxscratch) >= HEADER_SIZE => Cardinality(SilentSet') = Cardinality(SilentSet) + 1
      <4>1. CASE dropForeign
        <5>1. ~next.peer
          BY <4>1 DEF dropForeign
        <5> QED
          BY <5>1, <2>2
      <4>2. CASE dropCorrupt
        <5>1. ~next.magic /\ ret >= HEADER_SIZE
          BY <4>2 DEF dropCorrupt
        <5>2. Len(rxscratch) >= HEADER_SIZE => next.size >= HEADER_SIZE
          BY <5>1, <2>4, <2>6
        <5> QED
          BY <5>1, <5>2, <2>2
      <4> QED
        BY <2>9, <4>1, <4>2
    <3>2. UNCHANGED rxcount /\ ukncount' = ukncount
      BY <2>9 DEF dropForeign, dropCorrupt
    <3> QED
      BY <3>1, <3>2, <2>7
  <2>10. CASE dropSmall \/ dropTruncated
    <3>1. Len(rxscratch) >= HEADER_SIZE => Cardinality(SilentSet') = Cardinality(SilentSet)
      BY <2>10, <2>2, <2>4, <2>6, <2>b DEF dropSmall, dropTruncated, HasHeader
    <3>2. UNCHANGED rxcount /\ ukncount' = ukncount + 1
      BY <2>10 DEF dropSmall, dropTruncated
    <3> QED
      BY <3>1, <3>2, <2>8
  <2>11. CASE store
    <3>1. Len(rxscratch) >= HEADER_SIZE => Cardinality(SilentSet') = Cardinality(SilentSet)
      BY <2>11, <2>2, <2>4, <2>6, <2>b DEF store, HasHeader
    <3>2. CASE next.id \notin Blocks
      <4>1. rxcount' = rxcount /\ ukncount' = ukncount + 1
        BY <2>11, <3>2, <1>t DEF store, RecvTypeOK
      <4> QED
        BY <4>1, <3>1, <2>8
    <3>3. CASE next.id \in Blocks
      <4>1. rxcount' = [rxcount EXCEPT ![next.id] = @ + 1] /\ ukncount' = ukncount
        BY <2>11, <3>3, <1>t DEF store, RecvTypeOK
      <4>2. Tallied' /\ Cardinality(Tally') = Cardinality(Tally) + 1
        BY <4>1, <3>3, <1>t, TallyStep
      <4> QED
        BY <4>1, <4>2, <3>1, <1>t, <1>e, <2>1, <2>2, <2>5
    <3> QED
      BY <3>2, <3>3
  <2> QED
    BY <1>2, <2>9, <2>10, <2>11 DEF Turn
<1> QED
  BY <1>1, <1>2

\* Whatever arrives, in whatever order and however recvdata()'s turns end, every
\* datagram that PSCUDP read was counted once: by its block, by ukncount, or it
\* is one that the code drops in silence.
THEOREM SpecEveryDatagramCounted == RecvSpec => []EveryDatagramCounted
<1>1. RecvInit => CountInv
  <2> SUFFICES ASSUME RecvInit PROVE CountInv
    OBVIOUS
  <2>1. Tally = {}
    BY DEF Tally, RecvInit
  <2>2. {n \in 1..read : Silent(n)} = {}
    BY DEF RecvInit
  <2> QED
    BY <2>1, <2>2, InitTypeOK, FS_EmptySet DEF CountInv, Tallied, EveryDatagramCounted, RecvInit
<1>2. CountInv => EveryDatagramCounted
  BY DEF CountInv
<1> QED
  BY <1>1, <1>2, CountStep, PTL DEF RecvSpec

----------------------------------------------------------------------------
\* BlocksHoldNewest.

\* The sizes that Room(n) is the largest of.
Sizes(n) == {RxInit} \cup {HEADER_SIZE + arrived[i].len : i \in {j \in 1..(n - 1) : Message(j)}}

\* While headers tell the truth, the buffer is as large as what has come needed.
SizeInv ==
  /\ RxInit <= Len(rxscratch)
  /\ \A i \in 1..read : Message(i) => HEADER_SIZE + arrived[i].len <= Len(rxscratch)
  /\ \/ Len(rxscratch) = RxInit
     \/ \E i \in 1..read : Message(i) /\ Len(rxscratch) = HEADER_SIZE + arrived[i].len

\* The datagrams that were stored in block b, and the body of the last.
Stored(b) == {n \in 1..read : Message(n) /\ Fits(n) /\ arrived[n].id = b}
Newest(b) ==
  IF Stored(b) = {} THEN <<>>
  ELSE Bytes(Max(Stored(b)), HEADER_SIZE + 1, HEADER_SIZE + arrived[Max(Stored(b))].len)

\* Everything that arrives tells its length; then this is the invariant.
AllSound == \A n \in 1..Len(arrived) : Sound(arrived[n])
HoldInv ==
  sound => /\ AllSound /\ SizeInv
           /\ \A b \in Blocks : rxcount[b] = Cardinality(Stored(b)) /\ data[b] = Newest(b)

\* Sizes are numbers.
LEMMA SizesNat == ASSUME RecvTypeOK, NEW n \in 1..(Len(arrived) + 1) PROVE Sizes(n) \subseteq Nat
<1>1. \A i \in 1..(n - 1) : arrived[i] \in Dgram
  BY DEF RecvTypeOK
<1>2. \A i \in 1..(n - 1) : HEADER_SIZE + arrived[i].len \in Nat
  BY <1>1, PSCUDPRecvAssumption
<1> QED
  BY <1>2, PSCUDPRecvAssumption DEF Sizes

\* Room(n) is the size of rxscratch when datagram n is read.
LEMMA RoomIs == ASSUME RecvTypeOK, SizeInv PROVE Room(read + 1) = Len(rxscratch)
<1>0. read \in Nat /\ read + 1 \in 1..(Len(arrived) + 1)
  BY DEF RecvTypeOK
<1>1. Sizes(read + 1) \subseteq Nat
  BY <1>0, SizesNat
<1>2. 1..((read + 1) - 1) = 1..read
  BY <1>0
<1>s. \A y : y \in Sizes(read + 1) <=>
               \/ y = RxInit
               \/ \E i \in 1..read : Message(i) /\ y = HEADER_SIZE + arrived[i].len
  <2>1. {j \in 1..((read + 1) - 1) : Message(j)} = {j \in 1..read : Message(j)}
    BY <1>2
  <2> DEFINE J == {j \in 1..((read + 1) - 1) : Message(j)}
  <2>2. \A y : y \in Sizes(read + 1) <=> y = RxInit \/ \E i \in J : y = HEADER_SIZE + arrived[i].len
    <3>1. Sizes(read + 1) = {RxInit} \cup {HEADER_SIZE + arrived[i].len : i \in J}
      BY DEF Sizes
    <3> HIDE DEF J
    <3> QED
      BY <3>1
  <2> HIDE DEF J
  <2>3. J = {j \in 1..read : Message(j)}
    BY <2>1 DEF J
  <2> QED
    BY <2>2, <2>3
<1>3. Len(rxscratch) \in Sizes(read + 1)
  BY <1>s DEF SizeInv
<1>4. \A y \in Sizes(read + 1) : y <= Len(rxscratch)
  BY <1>s DEF SizeInv
<1>5. Max(Sizes(read + 1)) = Len(rxscratch)
  BY <1>1, <1>3, <1>4, MaxIs
<1> QED
  BY <1>5 DEF Room, Sizes

\* The datagrams read before are as they were.
LEMMA Before ==
  ASSUME RecvTypeOK, NEW n \in 1..Len(arrived), \A i \in 1..n : arrived'[i] = arrived[i]
  PROVE  Message(n)' = Message(n) /\ Fits(n)' = Fits(n) /\ Sizes(n)' = Sizes(n)
<1>1. \A i \in 1..n : arrived'[i] = arrived[i] /\ Message(i)' = Message(i)
  BY DEF Message, RecvTypeOK
<1>2. {j \in 1..(n - 1) : Message(j)}' = {j \in 1..(n - 1) : Message(j)}
  BY <1>1 DEF RecvTypeOK
<1>3. Sizes(n)' = Sizes(n)
  <2>1. \A i \in {j \in 1..(n - 1) : Message(j)} : arrived'[i].len = arrived[i].len
    BY <1>1 DEF RecvTypeOK
  <2> QED
    BY <1>2, <2>1 DEF Sizes
<1>4. Room(n)' = Room(n)
  BY <1>3 DEF Room, Sizes
<1> QED
  BY <1>1, <1>3, <1>4 DEF Fits, RecvTypeOK

\* A step that reads nothing keeps HoldInv.
LEMMA HoldNoTurn ==
  ASSUME RecvTypeOK, HoldInv, [RecvNext]_recvvars, ~Turn
  PROVE  HoldInv'
<1>1. /\ UNCHANGED <<sound, read, rxscratch, data, rxcount>>
      /\ Len(arrived) <= Len(arrived')
      /\ \A n \in 1..Len(arrived) : arrived'[n] = arrived[n]
  BY NoTurn
<1>2. read \in Nat /\ Len(arrived) \in Nat /\ read <= Len(arrived)
  BY DEF RecvTypeOK
<1>3. \A n \in 1..read : /\ Message(n)' = Message(n) /\ Fits(n)' = Fits(n)
                         /\ arrived'[n] = arrived[n]
  BY <1>1, <1>2, Before
<1>4. SUFFICES ASSUME sound
               PROVE  /\ AllSound' /\ SizeInv'
                      /\ \A b \in Blocks : rxcount'[b] = Cardinality(Stored(b)') /\ data'[b] = Newest(b)'
  BY <1>1 DEF HoldInv
<1>5. AllSound'
  <2>1. CASE UNCHANGED arrived
    BY <2>1, <1>4 DEF HoldInv, AllSound
  <2>2. ASSUME NEW m \in Dgram, Arrive(m) PROVE AllSound'
    <3>1. arrived' = Append(arrived, m) /\ Sound(m)
      BY <2>2, <1>4 DEF Arrive
    <3> QED
      BY <3>1, <1>4 DEF HoldInv, AllSound, RecvTypeOK
  <2> QED
    BY <2>1, <2>2 DEF RecvNext, Turn, connectRx, connect, recvdata, recvdata_timeout, recvdone, recvvars
<1>7. SizeInv'
  BY <1>1, <1>3, <1>4 DEF HoldInv, SizeInv
<1>8. ASSUME NEW b \in Blocks PROVE Stored(b)' = Stored(b) /\ Newest(b)' = Newest(b)
  <2>1. Stored(b)' = Stored(b)
    BY <1>1, <1>3 DEF Stored
  <2>2. CASE Stored(b) = {}
    BY <2>1, <2>2 DEF Newest
  <2>3. CASE Stored(b) # {}
    <3>1. Stored(b) \subseteq 1..read /\ 1..read \subseteq Nat
      BY <1>2 DEF Stored
    <3>2. \A y \in Stored(b) : y <= read
      BY <3>1, <1>2
    <3>3. Max(Stored(b)) \in Stored(b)
      BY <2>3, <3>1, <3>2, <1>2, BoundedMax
    <3>4. arrived'[Max(Stored(b))] = arrived[Max(Stored(b))]
      BY <3>1, <3>3, <1>3
    <3> QED
      BY <2>1, <3>4 DEF Newest
  <2> QED
    BY <2>2, <2>3
<1> QED
  BY <1>1, <1>4, <1>5, <1>7, <1>8 DEF HoldInv

\* A turn of the loop, on datagram n.
LEMMA HoldTurn ==
  ASSUME RecvTypeOK, HoldInv, Turn
  PROVE  HoldInv'
<1> USE PSCUDPRecvAssumption
<1>1. recvfrom /\ read' = read + 1 /\ read < Len(arrived) /\ arrived' = arrived /\ sound' = sound
  BY DEF Turn, dropForeign, dropSmall, dropCorrupt, dropTruncated, store, recvfrom
<1>2. PICK n : n = read + 1
  OBVIOUS
<1>3. n \in 1..Len(arrived) /\ n \in Nat /\ read \in Nat /\ read' = n /\ arrived[n] = next /\ n - 1 = read
  BY <1>1, <1>2 DEF RecvTypeOK, next
<1>4. SUFFICES ASSUME sound
               PROVE  /\ AllSound' /\ SizeInv'
                      /\ \A b \in Blocks : rxcount'[b] = Cardinality(Stored(b)') /\ data'[b] = Newest(b)'
  BY <1>1 DEF HoldInv
<1>5. AllSound /\ SizeInv
  BY <1>4 DEF HoldInv
<1>6. AllSound'
  BY <1>1, <1>5 DEF AllSound
<1>7. /\ next.size \in Nat /\ next.len \in Nat /\ ret \in Nat
      /\ ret = IF next.size <= Len(rxscratch) THEN next.size ELSE Len(rxscratch)
      /\ filled \in Seq(Byte) /\ Len(filled) = Len(rxscratch) /\ Len(rxscratch) \in Nat
      /\ \A k \in 1..ret : filled[k] = [n |-> n, k |-> k]
  BY <1>1, <1>2, Filled DEF RecvTypeOK
<1>8. Message(n) <=> HasHeader
  <2>1. RxInit <= Len(rxscratch)
    BY <1>5 DEF SizeInv
  <2> QED
    BY <1>3, <1>7, <2>1 DEF Message, HasHeader
<1>9. Message(n) => next.size = HEADER_SIZE + next.len /\ next.size < Wrap
  BY <1>3, <1>5 DEF AllSound, Sound, Message
<1>10. Fits(n) <=> ~tooLong
  <2>1. Room(n) = Len(rxscratch)
    BY <1>2, <1>5, RoomIs
  <2> QED
    BY <2>1, <1>3, <1>7 DEF Fits, tooLong
<1>11. \A i \in 1..n : Message(i)' = Message(i) /\ Fits(i)' = Fits(i) /\ arrived'[i] = arrived[i]
  BY <1>1, <1>3, Before
<1>12. Len(rxscratch') = IF Message(n) /\ ~Fits(n) THEN HEADER_SIZE + next.len ELSE Len(rxscratch)
  <2>1. CASE dropForeign \/ dropSmall \/ dropCorrupt \/ store
    <3>1. Len(rxscratch') = Len(rxscratch)
      BY <2>1, KeepsSize
    <3>2. ~(Message(n) /\ ~Fits(n))
      BY <2>1, <1>7, <1>8, <1>10 DEF dropForeign, dropSmall, dropCorrupt, store, HasHeader
    <3> QED
      BY <3>1, <3>2
  <2>2. CASE dropTruncated
    <3>1. Message(n) /\ ~Fits(n)
      BY <2>2, <1>8, <1>10 DEF dropTruncated
    <3>2. (next.len + HEADER_SIZE) % Wrap = HEADER_SIZE + next.len
      <4>1. HEADER_SIZE + next.len \in 0..(Wrap - 1)
        BY <3>1, <1>7, <1>9
      <4>2. HEADER_SIZE + next.len = next.len + HEADER_SIZE
        BY <1>7
      <4> QED
        BY <4>1, <4>2, ModSmall
    <3>3. rxscratch' = Resized(filled, HEADER_SIZE + next.len)
      BY <2>2, <3>2 DEF dropTruncated
    <3>4. Len(rxscratch') = HEADER_SIZE + next.len
      BY <3>3, <1>7 DEF Resized
    <3> QED
      BY <3>1, <3>4
  <2> QED
    BY <2>1, <2>2 DEF Turn
<1>13. SizeInv'
  <2>1. Message(n) /\ Fits(n) => HEADER_SIZE + next.len <= Len(rxscratch)
    BY <1>7, <1>10 DEF tooLong
  <2>2. Message(n) /\ ~Fits(n) => HEADER_SIZE + next.len > Len(rxscratch)
    BY <1>7, <1>10 DEF tooLong
  <2>3. \A i \in 1..n : i = n \/ i \in 1..read
    BY <1>2, <1>3
  <2>4. \A i \in 1..n : arrived[i].len \in Nat
    BY <1>3 DEF RecvTypeOK
  <2>5. RxInit <= Len(rxscratch')
    BY <1>5, <1>7, <1>12, <2>2 DEF SizeInv
  <2>6. ASSUME NEW i \in 1..n, Message(i) PROVE HEADER_SIZE + arrived[i].len <= Len(rxscratch')
    <3>1. CASE i = n
      BY <3>1, <2>6, <1>3, <1>7, <1>12, <2>1
    <3>2. CASE i \in 1..read
      <4>1. HEADER_SIZE + arrived[i].len <= Len(rxscratch)
        BY <3>2, <2>6, <1>5 DEF SizeInv
      <4> QED
        BY <4>1, <1>7, <1>12, <2>2, <2>4, SMTT(30)
    <3> QED
      BY <2>3, <3>1, <3>2
  <2>7. \/ Len(rxscratch') = RxInit
        \/ \E i \in 1..n : Message(i) /\ Len(rxscratch') = HEADER_SIZE + arrived[i].len
    <3>1. CASE Message(n) /\ ~Fits(n)
      BY <3>1, <1>3, <1>12
    <3>2. CASE ~(Message(n) /\ ~Fits(n))
      <4>1. 1..read \subseteq 1..n
        BY <1>2, <1>3
      <4> QED
        BY <3>2, <4>1, <1>5, <1>12 DEF SizeInv
    <3> QED
      BY <3>1, <3>2
  <2> QED
    BY <1>3, <1>11, <2>5, <2>6, <2>7 DEF SizeInv
<1>14. ASSUME NEW b \in Blocks
       PROVE  rxcount'[b] = Cardinality(Stored(b)') /\ data'[b] = Newest(b)'
  <2>1. Stored(b)' = IF Message(n) /\ Fits(n) /\ next.id = b THEN Stored(b) \cup {n} ELSE Stored(b)
    <3>1. Stored(b)' = {i \in 1..n : Message(i) /\ Fits(i) /\ arrived[i].id = b}
      BY <1>3, <1>11 DEF Stored
    <3>2. \A i : i \in 1..n <=> i = n \/ i \in 1..read
      BY <1>2, <1>3
    <3> QED
      BY <3>1, <3>2, <1>3 DEF Stored
  <2>2. n \notin Stored(b) /\ Stored(b) \subseteq 1..read /\ IsFiniteSet(Stored(b))
    <3>1. Stored(b) \subseteq 1..read /\ n \notin 1..read
      BY <1>2, <1>3 DEF Stored
    <3>2. IsFiniteSet(1..read)
      BY <1>3, FS_Interval
    <3> QED
      BY <3>1, <3>2, FS_Subset
  <2>3. rxcount[b] = Cardinality(Stored(b)) /\ data[b] = Newest(b)
    BY <1>4 DEF HoldInv
  <2>4. CASE Message(n) /\ Fits(n) /\ next.id = b
    <3>1. store
      BY <2>4, <1>7, <1>8, <1>10 DEF Turn, dropForeign, dropSmall, dropCorrupt, dropTruncated, HasHeader
    <3>2. rxcount'[b] = rxcount[b] + 1 /\ data'[b] = SubSeq(filled, HEADER_SIZE + 1, HEADER_SIZE + next.len)
      BY <3>1, <2>4 DEF store
    <3>3. Stored(b)' = Stored(b) \cup {n}
      BY <2>1, <2>4
    <3>4. Cardinality(Stored(b)') = Cardinality(Stored(b)) + 1
      BY <3>3, <2>2, FS_AddElement
    <3>5. Max(Stored(b)') = n
      <4>1. Stored(b)' \subseteq Nat /\ n \in Stored(b)' /\ \A y \in Stored(b)' : y <= n
        BY <3>3, <2>2, <1>2, <1>3
      <4> QED
        BY <4>1, MaxIs
    <3>6. Newest(b)' = Bytes(n, HEADER_SIZE + 1, HEADER_SIZE + next.len)
      BY <3>3, <3>5, <1>1, <1>3 DEF Newest, Bytes
    <3>7. ret = HEADER_SIZE + next.len /\ ret <= Len(filled)
      BY <2>4, <1>7, <1>9, <1>10 DEF tooLong
    <3>8. SubSeq(filled, HEADER_SIZE + 1, HEADER_SIZE + next.len)
            = Bytes(n, HEADER_SIZE + 1, HEADER_SIZE + next.len)
      <4>1. HEADER_SIZE \in Nat /\ HEADER_SIZE + next.len <= Len(filled)
        BY <3>7
      <4>2. \A k \in 1..(HEADER_SIZE + next.len) : filled[k] = [n |-> n, k |-> k]
        BY <3>7, <1>7
      <4>3. filled \in Seq(Byte) /\ next.len \in Nat
        BY <1>7
      <4> QED
        BY <4>1, <4>2, <4>3, BytesAfter, ZenonT(30)
    <3> QED
      BY <3>2, <3>4, <3>6, <3>8, <2>3
  <2>5. CASE ~(Message(n) /\ Fits(n) /\ next.id = b)
    <3>1. rxcount'[b] = rxcount[b] /\ data'[b] = data[b]
      BY <2>5, <1>8, <1>10 DEF Turn, dropForeign, dropSmall, dropCorrupt, dropTruncated, store
    <3>2. Stored(b)' = Stored(b)
      BY <2>1, <2>5
    <3>3. Newest(b)' = Newest(b)
      BY <3>2, <1>1 DEF Newest, Bytes
    <3> QED
      BY <3>1, <3>2, <3>3, <2>3
  <2> QED
    BY <2>4, <2>5
<1> QED
  BY <1>6, <1>13, <1>14

\* While headers tell the truth, each block of PSCUDP holds the body of the
\* newest datagram that fitted, whole and with nothing of an older one, and its
\* count is the number of such datagrams.
THEOREM SpecBlocksHoldNewest == RecvSpec => []BlocksHoldNewest
<1> DEFINE Inv == RecvTypeOK /\ HoldInv
<1>1. RecvInit => Inv
  <2> SUFFICES ASSUME RecvInit PROVE HoldInv
    BY InitTypeOK
  <2>1. AllSound
    BY DEF RecvInit, AllSound
  <2>2. SizeInv
    BY PSCUDPRecvAssumption DEF RecvInit, SizeInv
  <2>3. \A b \in Blocks : Stored(b) = {}
    BY DEF RecvInit, Stored
  <2> QED
    BY <2>1, <2>2, <2>3, FS_EmptySet DEF HoldInv, RecvInit, Newest
<1>2. Inv /\ [RecvNext]_recvvars => Inv'
  BY TypeInvariant, HoldTurn, HoldNoTurn
<1>3. Inv => BlocksHoldNewest
  BY DEF HoldInv, Stored, Newest, BlocksHoldNewest
<1> QED
  BY <1>1, <1>2, <1>3, PTL DEF RecvSpec

----------------------------------------------------------------------------
\* The sending half.

\* What the three lists hold together, s, t and u in this order, when packets
\* are moved between them.

\* The head of t goes to the end of s.
LEMMA MoveHead ==
  ASSUME NEW T, NEW s \in Seq(T), NEW t \in Seq(T), NEW u \in Seq(T), t # <<>>
  PROVE  Append(s, Head(t)) \o Tail(t) \o u = s \o t \o u
<1>1. Append(s, Head(t)) \o Tail(t) = s \o t
  OBVIOUS
<1> QED
  BY <1>1

\* All of u goes to the end of t.
LEMMA MoveAll ==
  ASSUME NEW T, NEW s \in Seq(T), NEW t \in Seq(T), NEW u \in Seq(T)
  PROVE  s \o (t \o u) \o <<>> = s \o t \o u
  OBVIOUS

\* The head of t is copied to the end of s.
LEMMA CopyHead ==
  ASSUME NEW T, NEW s \in Seq(T), NEW t \in Seq(T), NEW u \in Seq(T), t # <<>>,
         NEW A, A = s \o t \o u,
         NEW B, B = Append(s, Head(t)) \o t \o u
  PROVE  /\ Len(s) < Len(A) /\ Len(B) = Len(A) + 1
         /\ \A i \in 1..(Len(s) + 1) : B[i] = A[i]
         /\ \A i \in (Len(s) + 2)..Len(B) : B[i] = A[i - 1]
<1>1. /\ Len(s) < Len(A) /\ Len(B) = Len(A) + 1
      /\ \A i \in 1..(Len(s) + 1) : B[i] = A[i]
  OBVIOUS
<1>2. \A i \in (Len(s) + 2)..Len(B) : B[i] = A[i - 1]
  OBVIOUS
<1> QED
  BY <1>1, <1>2

\* A packet is added to u.
LEMMA AddLast ==
  ASSUME NEW T, NEW s \in Seq(T), NEW t \in Seq(T), NEW u \in Seq(T), NEW x \in T
  PROVE  s \o t \o Append(u, x) = Append(s \o t \o u, x)
  OBVIOUS

----------------------------------------------------------------------------
\* The inductive invariant.

\* The three lists of buffers.
Lists ==
  /\ sendbuf \in Seq(Packet) /\ txbuf \in Seq(Packet) /\ sent \in Seq(Packet)
  /\ readybuf \in 0..Limit /\ calls \in Nat

\* All packets, sent ones first.
All == sent \o txbuf \o sendbuf

\* They are the packets queued, in order, each once or twice in a row.
Ends == IF All = <<>> THEN calls = 0 ELSE All[1].n = 1 /\ All[Len(All)].n = calls
Steps == \A i \in 1..(Len(All) - 1) : All[i + 1].n \in {All[i].n, All[i].n + 1}
NoThree == \A i \in 1..(Len(All) - 2) : All[i].n # All[i + 2].n

\* Those that wait are there once, and only if the free list has room may the
\* next be one that was sent before.
WaitingOnce == \A i \in (Len(sent) + 1)..(Len(All) - 1) : All[i + 1].n = All[i].n + 1
RepeatHasRoom ==
  LET l == Len(sent) IN
    l \in 1..(Len(All) - 1) /\ All[l].n = All[l + 1].n => readybuf < Limit

IInv == Lists /\ Ends /\ Steps /\ NoThree /\ WaitingOnce /\ RepeatHasRoom

\* Steps that keep the packets where they are, or move them to a list further
\* on, and give back no buffer.
LEMMA SameAll ==
  ASSUME IInv, Lists', All' = All, Len(sent') = Len(sent), readybuf' <= readybuf, calls' = calls
  PROVE  IInv'
  BY PSCUDPSendAssumption DEF IInv, Lists, Ends, Steps, NoThree, WaitingOnce, RepeatHasRoom

\* All packets have their numbers.
LEMMA AllType == Lists => /\ All \in Seq(Packet) /\ Len(sent) \in 0..Len(All)
                          /\ \A i \in 1..Len(All) : All[i].n \in Nat
<1> SUFFICES ASSUME Lists PROVE /\ All \in Seq(Packet) /\ Len(sent) \in 0..Len(All)
                                /\ \A i \in 1..Len(All) : All[i].n \in Nat
  OBVIOUS
<1>1. All \in Seq(Packet) /\ Len(sent) \in 0..Len(All)
  BY DEF Lists, All
<1>2. ASSUME NEW i \in 1..Len(All) PROVE All[i].n \in Nat
  <2>1. All[i] \in Packet
    BY <1>1, <1>2
  <2> QED
    BY <2>1 DEF Packet
<1> QED
  BY <1>1, <1>2

\* queueSend() adds the next number at the end.
LEMMA QueueIInv ==
  ASSUME IInv, NEW b \in Block, queueSend(b)
  PROVE  IInv'
<1> DEFINE x == [blk |-> b, n |-> calls + 1]
<1>1. x \in Packet /\ x.n = calls + 1
  BY DEF IInv, Lists, Packet
<1>2. Lists'
  BY <1>1, PSCUDPSendAssumption DEF queueSend, IInv, Lists
<1>3. All' = Append(All, x) /\ sent' = sent /\ calls' = calls + 1 /\ readybuf' <= readybuf
  BY <1>1, AddLast, SMTT(30) DEF queueSend, IInv, Lists, All
<1>4. All \in Seq(Packet) /\ Len(sent) \in 0..Len(All) /\ \A i \in 1..Len(All) : All[i].n \in Nat
  BY AllType DEF IInv
<1> HIDE DEF x
<1>5. /\ Len(All') = Len(All) + 1 /\ Len(All) \in Nat
      /\ \A i \in 1..Len(All) : All'[i] = All[i]
      /\ All'[Len(All) + 1].n = calls + 1
  BY <1>1, <1>3, <1>4
<1>6. Len(All) > 0 => All[1].n = 1 /\ All[Len(All)].n = calls
  BY <1>4 DEF IInv, Ends
<1>7. Len(All) = 0 => calls = 0
  BY <1>4 DEF IInv, Ends
<1>8. Ends'
  BY <1>3, <1>5, <1>6, <1>7 DEF Ends
<1>9. Steps'
  <2> SUFFICES ASSUME NEW i \in 1..Len(All) PROVE All'[i + 1].n \in {All'[i].n, All'[i].n + 1}
    BY <1>5 DEF Steps
  <2>1. CASE i = Len(All)
    BY <1>4, <1>5, <1>6, <2>1
  <2>2. CASE i < Len(All)
    BY <1>5, <2>2 DEF IInv, Steps
  <2> QED
    BY <1>5, <2>1, <2>2
<1>10. NoThree'
  <2> SUFFICES ASSUME NEW i \in 1..(Len(All) - 1) PROVE All'[i].n # All'[i + 2].n
    BY <1>5 DEF NoThree
  <2>1. CASE i = Len(All) - 1
    <3>1. All[i + 1].n = calls /\ All[i + 1].n \in {All[i].n, All[i].n + 1} /\ All[i].n \in Nat
      BY <1>4, <1>5, <1>6, <2>1 DEF IInv, Steps
    <3>2. All'[i] = All[i] /\ All'[i + 2].n = calls + 1
      BY <1>5, <2>1
    <3> QED
      BY <3>1, <3>2
  <2>2. CASE i < Len(All) - 1
    BY <1>5, <2>2 DEF IInv, NoThree
  <2> QED
    BY <1>5, <2>1, <2>2
<1>11. WaitingOnce'
  <2> SUFFICES ASSUME NEW i \in (Len(sent) + 1)..Len(All) PROVE All'[i + 1].n = All'[i].n + 1
    BY <1>3, <1>5 DEF WaitingOnce
  <2>1. CASE i = Len(All)
    BY <1>4, <1>5, <1>6, <2>1
  <2>2. CASE i < Len(All)
    <3>1. i \in (Len(sent) + 1)..(Len(All) - 1) /\ All'[i] = All[i] /\ All'[i + 1] = All[i + 1]
      BY <1>4, <1>5, <2>2
    <3> QED
      BY <3>1 DEF IInv, WaitingOnce
  <2> QED
    BY <1>4, <1>5, <2>1, <2>2
<1>12. RepeatHasRoom'
  <2> SUFFICES ASSUME Len(sent) \in 1..Len(All), All'[Len(sent)].n = All'[Len(sent) + 1].n
               PROVE  readybuf' < Limit
    <3>1. Len(sent') = Len(sent) /\ Len(All') - 1 = Len(All)
      BY <1>3, <1>5
    <3> QED
      BY <3>1 DEF RepeatHasRoom
  <2>1. Len(sent) # Len(All)
    BY <1>5, <1>6, <1>4
  <2>2. readybuf < Limit
    BY <1>4, <1>5, <2>1 DEF IInv, RepeatHasRoom
  <2> QED
    BY <1>2, <1>3, <2>2, PSCUDPSendAssumption DEF IInv, Lists
<1> QED
  BY <1>2, <1>8, <1>9, <1>10, <1>11, <1>12 DEF IInv

\* sendto() takes the packet at the head of txbuf, which goes or stays.
LEMMA SendtoIInv ==
  ASSUME IInv, sendto
  PROVE  IInv'
<1> DEFINE l == Len(sent)
<1>1. /\ sent \in Seq(Packet) /\ txbuf \in Seq(Packet) /\ sendbuf \in Seq(Packet) /\ txbuf # <<>>
      /\ readybuf \in 0..Limit /\ calls' = calls /\ sent' = Append(sent, Head(txbuf))
      /\ sendbuf' = sendbuf /\ Limit \in Nat /\ Limit > 0
  BY PSCUDPSendAssumption DEF sendto, IInv, Lists
<1>2. All \in Seq(Packet) /\ l \in 0..Len(All) /\ \A i \in 1..Len(All) : All[i].n \in Nat
  BY AllType DEF IInv
<1>3. CASE readybuf < Limit
  <2>1. txbuf' = Tail(txbuf) /\ readybuf' = readybuf + 1
    BY <1>3 DEF sendto, recycle
  <2>2. Lists' /\ Len(sent') = l + 1
    BY <1>1, <1>3, <2>1 DEF IInv, Lists
  <2>3. All' = All
    BY <1>1, <2>1, MoveHead DEF All
  <2>4. Ends' /\ Steps' /\ NoThree'
    BY <1>1, <2>3 DEF IInv, Ends, Steps, NoThree
  <2>5. WaitingOnce'
    BY <1>2, <2>2, <2>3 DEF IInv, WaitingOnce
  <2>6. RepeatHasRoom'
    <3>1. l + 1 \in 1..(Len(All) - 1) => All[l + 1].n # All[l + 2].n
      BY <1>2 DEF IInv, WaitingOnce
    <3> QED
      BY <1>2, <2>2, <2>3, <3>1 DEF RepeatHasRoom
  <2> QED
    BY <2>2, <2>4, <2>5, <2>6 DEF IInv
<1>4. CASE ~(readybuf < Limit)
  <2>1. txbuf' = txbuf /\ readybuf' = Limit - 1 /\ readybuf = Limit
    BY <1>1, <1>4 DEF sendto, recycle
  <2>2. Lists' /\ Len(sent') = l + 1 /\ readybuf' < Limit
    BY <1>1, <2>1 DEF IInv, Lists
  <2>3. All' = Append(sent, Head(txbuf)) \o txbuf \o sendbuf
    BY <1>1, <2>1 DEF All
  <2>4. /\ l < Len(All) /\ Len(All') = Len(All) + 1
        /\ \A i \in 1..(l + 1) : All'[i] = All[i]
        /\ \A i \in (l + 2)..Len(All') : All'[i] = All[i - 1]
    <3>1. All = sent \o txbuf \o sendbuf
      BY DEF All
    <3> QED
      BY <1>1, <2>3, <3>1, CopyHead, SMTT(30)
  <2>5. l \in Nat /\ Len(All) \in Nat
    BY <1>2
  <2>6. /\ All[1].n = 1 /\ All[Len(All)].n = calls
        /\ \A i \in 1..(Len(All) - 1) : All[i + 1].n \in {All[i].n, All[i].n + 1}
        /\ \A i \in 1..(Len(All) - 2) : All[i].n # All[i + 2].n
        /\ \A i \in (l + 1)..(Len(All) - 1) : All[i + 1].n = All[i].n + 1
        /\ l > 0 => All[l].n # All[l + 1].n
    BY <1>2, <1>4, <2>4, <2>5 DEF IInv, Ends, Steps, NoThree, WaitingOnce, RepeatHasRoom
  <2> HIDE DEF l
  <2>7. Ends'
    <3>1. All'[1] = All[1] /\ All'[Len(All')] = All[Len(All)]
      BY <2>4, <2>5
    <3>2. All' # <<>>
      BY <2>4, <2>5
    <3> QED
      BY <1>1, <2>6, <3>1, <3>2 DEF Ends
  <2>8. ASSUME NEW i \in 1..Len(All) PROVE All'[i + 1].n \in {All'[i].n, All'[i].n + 1}
    <3>1. CASE i <= l
      <4>1. All'[i] = All[i] /\ All'[i + 1] = All[i + 1] /\ i \in 1..(Len(All) - 1)
        BY <2>4, <2>5, <3>1
      <4> QED
        BY <2>6, <4>1
    <3>2. CASE i = l + 1
      BY <2>4, <2>5, <3>2
    <3>3. CASE i > l + 1
      <4>1. i - 1 \in 1..(Len(All) - 1) /\ All'[i] = All[i - 1] /\ All'[i + 1] = All[(i - 1) + 1]
        BY <2>4, <2>5, <3>3
      <4> QED
        BY <2>6, <4>1
    <3> QED
      BY <2>5, <3>1, <3>2, <3>3
  <2>9. ASSUME NEW i \in 1..(Len(All) - 1) PROVE All'[i].n # All'[i + 2].n
    <3>1. CASE i + 1 <= l
      BY <2>4, <2>5, <2>6, <3>1
    <3>2. CASE i = l
      BY <2>4, <2>5, <2>6, <3>2
    <3>3. CASE i = l + 1
      <4>1. All'[i] = All[l + 1] /\ All'[i + 2] = All[(l + 1) + 1] /\ l + 1 \in (l + 1)..(Len(All) - 1)
        BY <2>4, <2>5, <3>3
      <4>2. All[l + 1].n \in Nat
        BY <1>2, <2>4, <2>5
      <4>3. \A k \in (l + 1)..(Len(All) - 1) : All[k + 1].n = All[k].n + 1
        BY <2>6
      <4>4. All[(l + 1) + 1].n = All[l + 1].n + 1
        BY <4>1, <4>3
      <4> QED
        BY <4>1, <4>2, <4>4
    <3>4. CASE i > l + 1
      <4>1. i - 1 \in 1..(Len(All) - 2) /\ All'[i] = All[i - 1] /\ All'[i + 2] = All[(i - 1) + 2]
        BY <2>4, <2>5, <3>4
      <4> QED
        BY <2>6, <4>1
    <3> QED
      BY <2>5, <3>1, <3>2, <3>3, <3>4
  <2>10. ASSUME NEW i \in (l + 2)..Len(All) PROVE All'[i + 1].n = All'[i].n + 1
    <3>1. i - 1 \in (l + 1)..(Len(All) - 1) /\ All'[i] = All[i - 1] /\ All'[i + 1] = All[(i - 1) + 1]
      BY <2>4, <2>5, <2>10
    <3> QED
      BY <2>6, <3>1
  <2>11. Steps' /\ NoThree' /\ WaitingOnce'
    <3>1. Len(All') - 1 = Len(All) /\ Len(All') - 2 = Len(All) - 1 /\ Len(sent') + 1 = l + 2
      BY <2>2, <2>4, <2>5
    <3> QED
      BY <2>8, <2>9, <2>10, <3>1 DEF Steps, NoThree, WaitingOnce
  <2>12. RepeatHasRoom'
    BY <2>2 DEF RepeatHasRoom
  <2> QED
    BY <2>2, <2>7, <2>11, <2>12 DEF IInv
<1> QED
  BY <1>3, <1>4

----------------------------------------------------------------------------
\* The constructor establishes the invariant.
LEMMA InitIInv == SendInit => IInv
  BY PSCUDPSendAssumption DEF SendInit, IInv, Lists, All, Ends, Steps, NoThree, WaitingOnce, RepeatHasRoom

\* Every step preserves it.
LEMMA NextIInv == IInv /\ [SendNext]_sendvars => IInv'
<1> SUFFICES ASSUME IInv, [SendNext]_sendvars PROVE IInv'
  OBVIOUS
<1>1. ASSUME UNCHANGED <<lists, sent, calls>> PROVE IInv'
  <2>1. Lists' /\ All' = All /\ sent' = sent /\ readybuf' <= readybuf /\ calls' = calls
    BY <1>1 DEF lists, IInv, Lists, All
  <2> QED
    BY <2>1, SameAll
<1>2. CASE connectTx
  BY <1>1, <1>2 DEF connectTx, connect
<1>3. ASSUME NEW b \in Block, queueSend(b) PROVE IInv'
  BY <1>3, QueueIInv
<1>4. CASE flushSend
  <2>1. Lists' /\ sent' = sent /\ readybuf' = readybuf /\ readybuf \in Nat /\ calls' = calls
    BY <1>4 DEF flushSend, IInv, Lists
  <2>2. All' = All
    BY <1>4, MoveAll, SMTT(30) DEF flushSend, IInv, Lists, All
  <2> QED
    BY <2>1, <2>2, SameAll
<1>5. CASE senddata
  BY <1>1, <1>5 DEF senddata
<1>6. CASE sendto
  BY <1>6, SendtoIInv
<1>7. CASE sendto_fails
  BY <1>1, <1>7 DEF sendto_fails
<1>8. CASE senddata_done
  BY <1>1, <1>8 DEF senddata_done
<1>9. CASE senddata_timeout
  BY <1>1, <1>9 DEF senddata_timeout
<1>10. CASE UNCHANGED sendvars
  BY <1>1, <1>10 DEF sendvars
<1> QED
  BY <1>2, <1>3, <1>4, <1>5, <1>6, <1>7, <1>8, <1>9, <1>10 DEF SendNext, EventLoop

\* The inductive invariant holds: the free list never lets senddata() repeat a
\* packet whose second turn has come.
THEOREM SpecIInv == SendSpec => []IInv
<1>1. SendInit => IInv
  BY InitIInv
<1>2. IInv /\ [SendNext]_sendvars => IInv'
  BY NextIInv
<1> QED
  BY <1>1, <1>2, PTL DEF SendSpec

\* Whatever the limit and however queueing, flushing, errors and retries
\* interleave, packets are sent in the order they were queued and none is left
\* out.
THEOREM SpecInOrderNoGap == SendSpec => []InOrderNoGap
<1>1. IInv => InOrderNoGap
  BY DEF IInv, Ends, Steps, InOrderNoGap, All
<1>2. SendSpec => []IInv
  BY SpecIInv
<1> QED
  BY <1>1, <1>2, PTL

\* senddata() never sends a packet three times.
THEOREM SpecAtMostTwice == SendSpec => []AtMostTwice
<1>1. ASSUME IInv, NEW i \in 1..Len(sent), i > 2 PROVE sent[i].n # sent[i - 2].n
  <2>1. All[i] = sent[i] /\ All[i - 2] = sent[i - 2] /\ i - 2 \in 1..(Len(All) - 2)
    BY <1>1 DEF IInv, Lists, All
  <2>2. All[i - 2].n # All[(i - 2) + 2].n
    BY <1>1, <2>1 DEF IInv, NoThree
  <2> QED
    BY <2>1, <2>2
<1>2. IInv => AtMostTwice
  BY <1>1 DEF AtMostTwice
<1>3. SendSpec => []IInv
  BY SpecIInv
<1> QED
  BY <1>2, <1>3, PTL
=============================================================================
