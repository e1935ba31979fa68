----------------------------- MODULE PSCUDPRecv -----------------------------
(***************************************************************************)
(* The receiving half of class PSCUDP (coreApp/src/pscudp.cpp): each       *)
(* datagram is read into rxscratch, a buffer that is made larger after a   *)
(* datagram that did not fit, and that keeps the bytes of the datagrams    *)
(* before.                                                                 *)
(*                                                                         *)
(* A datagram is [id, len, size, magic, peer]: the ID and the body length  *)
(* its header announces, its true size, whether it starts with the magic   *)
(* bytes and whether it comes from the device's address.  A byte is        *)
(* [n, k], the k-th byte of the n-th datagram, or Zero.  recvdata() runs   *)
(* with PSCBase::lock held, one action per turn of its loop.               *)
(*                                                                         *)
(* sound tells, from the start, that the device's headers announce what    *)
(* its datagrams hold.                                                     *)
(***************************************************************************)
EXTENDS PSCUDP, FiniteSets, FiniteSetsExt

CONSTANTS
  Dgram,        \* datagrams
  Blocks,       \* registered receive blocks (recv_blocks)
  HEADER_SIZE,
  RxInit,       \* initial size of rxscratch, 1024
  Wrap,         \* 2^32: bodylen and bodylen+8 are epicsUInt32
  MaxArrive     \* bound: datagrams that arrive

ASSUME PSCUDPRecvAssumption ==
  /\ HEADER_SIZE \in Nat \ {0}
  /\ RxInit \in Nat /\ RxInit > HEADER_SIZE
  /\ Wrap \in Nat /\ Wrap > RxInit
  /\ \A m \in Dgram : /\ m.len \in 0..(Wrap - 1) /\ m.size \in Nat
                      /\ m.magic \in BOOLEAN /\ m.peer \in BOOLEAN
  /\ MaxArrive \in Nat /\ MaxErr \in Nat

VARIABLES
  sound,
  arrived,    \* every datagram the socket got, oldest first
  read,       \* how many of them recvfrom() has returned
  reading,    \* recvdata() is running
  rxscratch,
  data,       \* data[b]: bytes of Block::data
  rxcount,    \* rxcount[b]: Block::count; rxtime and requestScan() go with it
  ukncount    \* PSCBase::ukncount

recvvars == <<sound, connected, arrived, read, reading, rxscratch, data, rxcount, ukncount, conncount>>

Byte == [n : Nat, k : Nat]
Zero == [n |-> 0, k |-> 0]
Bytes(n, first, last) == [k \in 1..(last - first + 1) |-> [n |-> n, k |-> first + k - 1]]

\* A datagram whose header announces what it holds, less than 2^32 bytes in all.
Sound(m) ==
  m.peer /\ m.size >= HEADER_SIZE /\ m.magic => m.size = HEADER_SIZE + m.len /\ m.size < Wrap

----------------------------------------------------------------------------
RecvInit ==
  /\ sound \in BOOLEAN
  /\ connected = FALSE
  /\ arrived = <<>> /\ read = 0 /\ reading = FALSE
  /\ rxscratch = [k \in 1..RxInit |-> Zero]
  /\ data = [b \in Blocks |-> <<>>]
  /\ rxcount = [b \in Blocks |-> 0]
  /\ ukncount = 0 /\ conncount = 0

connectRx ==
  /\ connect
  /\ UNCHANGED <<sound, arrived, read, reading, rxscratch, data, rxcount, ukncount>>

\* A datagram reaches the socket, which is bound from the start; those that
\* the network loses, repeats or reorders are here as they arrive.
Arrive(m) ==
  /\ Len(arrived) < MaxArrive
  /\ sound => Sound(m)
  /\ arrived' = Append(arrived, m)
  /\ UNCHANGED <<sound, connected, read, reading, rxscratch, data, rxcount, ukncount, conncount>>

\* recvdata(EV_READ) begins.
recvdata ==
  /\ connected /\ ~reading
  /\ read < Len(arrived)
  /\ reading' = TRUE
  /\ UNCHANGED <<sound, connected, arrived, read, rxscratch, data, rxcount, ukncount, conncount>>

\* recvdata(EV_TIMEOUT).
recvdata_timeout ==
  /\ connected /\ ~reading
  /\ conncount < MaxErr
  /\ conncount' = conncount + 1
  /\ UNCHANGED <<sound, connected, arrived, read, reading, rxscratch, data, rxcount, ukncount>>

\* recvfrom() returns the next datagram, what fits of it.
next == arrived[read + 1]
ret == Min({next.size, Len(rxscratch)})

recvfrom ==
  /\ reading /\ read < Len(arrived)
  /\ read' = read + 1
  /\ UNCHANGED <<sound, connected, arrived, reading, conncount>>

\* rxscratch after it: the datagram, and behind it what was there before.
filled == Bytes(read + 1, 1, ret) \o SubSeq(rxscratch, ret + 1, Len(rxscratch))

\* A turn that drops the datagram: it comes from elsewhere, ...
dropForeign ==
  /\ recvfrom /\ ~next.peer
  /\ rxscratch' = filled
  /\ UNCHANGED <<data, rxcount, ukncount>>

\* ... is too small for a header, ...
dropSmall ==
  /\ recvfrom /\ next.peer /\ ret < HEADER_SIZE
  /\ rxscratch' = filled
  /\ ukncount' = ukncount + 1
  /\ UNCHANGED <<data, rxcount>>

\* ... or has no magic bytes.
dropCorrupt ==
  /\ recvfrom /\ next.peer /\ ret >= HEADER_SIZE /\ ~next.magic
  /\ rxscratch' = filled
  /\ UNCHANGED <<data, rxcount, ukncount>>

HasHeader == next.peer /\ ret >= HEADER_SIZE /\ next.magic

\* The announced body exceeds the room that rxscratch has for it.
tooLong == next.len > Len(rxscratch) - HEADER_SIZE

\* vector::resize() keeps a prefix and fills up with zeros.
Resized(buf, size) == [k \in 1..size |-> IF k <= Len(buf) THEN buf[k] ELSE Zero]

\* Mutant: the header is forgotten in the new size.
dropTruncated_ForgetsHeader ==
  /\ recvfrom /\ HasHeader /\ tooLong
  /\ rxscratch' = Resized(filled, next.len % Wrap)
  /\ ukncount' = ukncount + 1
  /\ UNCHANGED <<data, rxcount>>

\* Mutant: the datagram is not counted.
dropTruncated_NotCounted ==
  /\ recvfrom /\ HasHeader /\ tooLong
  /\ rxscratch' = Resized(filled, (next.len + HEADER_SIZE) % Wrap)
  /\ UNCHANGED <<data, rxcount, ukncount>>

\* A turn that drops a datagram as truncated, and makes room for the next.
dropTruncated ==
  /\ recvfrom /\ HasHeader /\ tooLong
  /\ rxscratch' = Resized(filled, (next.len + HEADER_SIZE) % Wrap)
  /\ ukncount' = ukncount + 1
  /\ UNCHANGED <<data, rxcount>>

\* A turn that stores the announced body in the block of its ID, or counts a
\* datagram that no block wants.
store ==
  /\ recvfrom /\ HasHeader /\ ~tooLong
  /\ rxscratch' = filled
  /\ LET body == SubSeq(filled, HEADER_SIZE + 1, HEADER_SIZE + next.len) IN
       data' = [b \in Blocks |-> IF b = next.id THEN body ELSE data[b]]
  /\ rxcount' = [b \in Blocks |-> IF b = next.id THEN rxcount[b] + 1 ELSE rxcount[b]]
  /\ ukncount' = IF next.id \in Blocks THEN ukncount ELSE ukncount + 1

\* recvfrom() fails: nothing to read, or an error, which is counted.
recvdone ==
  /\ reading
  /\ reading' = FALSE
  /\ \/ read = Len(arrived) /\ UNCHANGED conncount
     \/ conncount < MaxErr /\ conncount' = conncount + 1
  /\ UNCHANGED <<sound, connected, arrived, read, rxscratch, data, rxcount, ukncount>>

RecvNext ==
  \/ connectRx
  \/ \E m \in Dgram : Arrive(m)
  \/ recvdata \/ recvdata_timeout
  \/ dropForeign \/ dropSmall \/ dropCorrupt \/ dropTruncated \/ store
  \/ recvdone

RecvSpec == RecvInit /\ [][RecvNext]_recvvars

----------------------------------------------------------------------------
\* Types.
RecvTypeOK ==
  /\ sound \in BOOLEAN /\ connected \in BOOLEAN /\ reading \in BOOLEAN
  /\ arrived \in Seq(Dgram) /\ read \in 0..Len(arrived)
  /\ rxscratch \in Seq(Byte)
  /\ data \in [Blocks -> Seq(Byte)] /\ rxcount \in [Blocks -> Nat]
  /\ ukncount \in Nat /\ conncount \in Nat

\* The datagrams read so far that have a header of the device; the room the
\* largest of them and the initial buffer give; those that this room fits.
Message(n) == arrived[n].peer /\ arrived[n].size >= HEADER_SIZE /\ arrived[n].magic
Room(n) == Max({RxInit} \cup {HEADER_SIZE + arrived[i].len : i \in {j \in 1..(n - 1) : Message(j)}})
Fits(n) == HEADER_SIZE + arrived[n].len <= Room(n)

\* A block holds the body of the newest datagram of its ID that fitted, whole
\* and with no byte of another, and has counted just those, if the device's
\* headers tell the truth: what rxscratch keeps never shows.
BlocksHoldNewest ==
  sound => \A b \in Blocks :
    LET stored == {n \in 1..read : Message(n) /\ Fits(n) /\ arrived[n].id = b} IN
    /\ rxcount[b] = Cardinality(stored)
    /\ data[b] = IF stored = {} THEN <<>>
                 ELSE LET n == Max(stored)
                      IN  Bytes(n, HEADER_SIZE + 1, HEADER_SIZE + arrived[n].len)

\* What the blocks have counted, all together; the datagrams that have no
\* counter, those of other hosts and those without the magic bytes.
Tally == UNION {{b} \X (1..rxcount[b]) : b \in Blocks}
Silent(n) == ~arrived[n].peer \/ (arrived[n].size >= HEADER_SIZE /\ ~arrived[n].magic)

\* Every datagram of the device is counted once, by its block or as unknown,
\* but for those without the magic bytes, for which there is no counter.
EveryDatagramCounted ==
  Len(rxscratch) >= HEADER_SIZE =>
    read = Cardinality(Tally) + ukncount + Cardinality({n \in 1..read : Silent(n)})
=============================================================================
