-------------------------- MODULE PSCStreamProofs --------------------------
(***************************************************************************)
(* Proofs about PSCStream for any messages, header size and watermarks.    *)
(*                                                                         *)
(* DecoderAligned is about the first unread byte only.  That it is the     *)
(* right one after a header or a body of many bytes was removed depends on *)
(* all the bytes behind it: the unread bytes are pieces of messages, each  *)
(* byte Left(b) places before the end of its own (Flow), with a first byte *)
(* of a message behind each end (Starts).  Until the device closes, the    *)
(* last message is there to its end (Complete).                            *)
(*                                                                         *)
(* From the same invariant follows that PSCStream implements MsgStream.    *)
(* The messages that are unread are those whose end is; that removing the  *)
(* bytes of one takes the first of them away, and that losing bytes takes  *)
(* the last ones, is shown by counting ends (Rank): n ends have the ranks  *)
(* 1 to n, because no two have the same.                                   *)
(***************************************************************************)
EXTENDS PSCStream, Integers, FiniteSetTheorems, TLAPS

Byte == [m : Msg, k : Nat]

\* Bytes of its message that come after byte b.
Left(b) == HEADER_SIZE + b.m.len - b.k

\* Which bytes follow each other in a stream s.
Sound(s) == \A i \in 1..Len(s) : s[i].k \in 1..(HEADER_SIZE + s[i].m.len)
Flow(s) ==
  \A i, j \in 1..Len(s) :
    i <= j /\ j - i <= Left(s[i]) => s[j].m = s[i].m /\ s[j].k = s[i].k + (j - i)
Starts(s) ==
  \A i, j \in 1..Len(s) : j - i = Left(s[i]) + 1 => s[j].k = 1
Complete(s) == \A i \in 1..Len(s) : i + Left(s[i]) <= Len(s)

Pieces(s) == Sound(s) /\ Flow(s) /\ Starts(s)

\* A byte has a message and a place.
LEMMA ByteType ==
  ASSUME NEW b \in Byte
  PROVE  b.m \in Msg /\ b.m.len \in Nat /\ b.k \in Nat /\ Left(b) \in Int
<1>1. b.m \in Msg /\ b.k \in Nat
  BY DEF Byte
<1>2. b.m.len \in Nat
  BY <1>1, PSCStreamAssumption
<1> QED
  BY <1>1, <1>2, PSCStreamAssumption DEF Left

----------------------------------------------------------------------------
\* Parts of a stream.

LEMMA SuffixPieces ==
  ASSUME NEW s \in Seq(Byte), Pieces(s), NEW n \in 0..Len(s),
         NEW t \in Seq(Byte), Len(t) = Len(s) - n, \A i \in 1..Len(t) : t[i] = s[i + n]
  PROVE  Pieces(t) /\ (Complete(s) => Complete(t))
<1>1. ASSUME NEW i \in 1..Len(t) PROVE i + n \in 1..Len(s) /\ t[i] = s[i + n]
  OBVIOUS
<1>2. Sound(t)
  BY <1>1 DEF Pieces, Sound
<1>3. Flow(t)
  <2> SUFFICES ASSUME NEW i \in 1..Len(t), NEW j \in 1..Len(t), i <= j, j - i <= Left(t[i])
               PROVE  t[j].m = t[i].m /\ t[j].k = t[i].k + (j - i)
    BY DEF Flow
  <2>1. /\ i + n \in 1..Len(s) /\ t[i] = s[i + n]
        /\ j + n \in 1..Len(s) /\ t[j] = s[j + n]
    BY <1>1
  <2>2. i + n <= j + n /\ (j + n) - (i + n) = j - i
    OBVIOUS
  <2>3. s[j + n].m = s[i + n].m /\ s[j + n].k = s[i + n].k + ((j + n) - (i + n))
    BY <2>1, <2>2 DEF Pieces, Flow
  <2> QED
    BY <2>1, <2>2, <2>3
<1>4. Starts(t)
  <2> SUFFICES ASSUME NEW i \in 1..Len(t), NEW j \in 1..Len(t), j - i = Left(t[i]) + 1
               PROVE  t[j].k = 1
    BY DEF Starts
  <2>1. /\ i + n \in 1..Len(s) /\ t[i] = s[i + n]
        /\ j + n \in 1..Len(s) /\ t[j] = s[j + n]
    BY <1>1
  <2>2. (j + n) - (i + n) = Left(s[i + n]) + 1
    BY <2>1
  <2>3. s[j + n].k = 1
    BY <2>1, <2>2 DEF Pieces, Starts
  <2> QED
    BY <2>1, <2>3
<1>5. ASSUME Complete(s), NEW i \in 1..Len(t) PROVE i + Left(t[i]) <= Len(t)
  <2>1. i + n \in 1..Len(s) /\ t[i] = s[i + n] /\ Left(t[i]) \in Int
    <3>1. t[i] \in Byte
      BY <1>5
    <3> QED
      BY <1>1, <3>1, ByteType
  <2>2. (i + n) + Left(s[i + n]) <= Len(s)
    BY <1>5, <2>1 DEF Complete
  <2> QED
    BY <2>1, <2>2
<1> QED
  BY <1>2, <1>3, <1>4, <1>5 DEF Pieces, Complete

LEMMA PrefixPieces ==
  ASSUME NEW s \in Seq(Byte), Pieces(s),
         NEW t \in Seq(Byte), Len(t) <= Len(s), \A i \in 1..Len(t) : t[i] = s[i]
  PROVE  Pieces(t)
<1>1. ASSUME NEW i \in 1..Len(t) PROVE i \in 1..Len(s) /\ t[i] = s[i]
  OBVIOUS
<1>2. Sound(t)
  BY <1>1 DEF Pieces, Sound
<1>3. Flow(t)
  <2> SUFFICES ASSUME NEW i \in 1..Len(t), NEW j \in 1..Len(t), i <= j, j - i <= Left(t[i])
               PROVE  t[j].m = t[i].m /\ t[j].k = t[i].k + (j - i)
    BY DEF Flow
  <2>1. i \in 1..Len(s) /\ t[i] = s[i] /\ j \in 1..Len(s) /\ t[j] = s[j]
    BY <1>1
  <2> QED
    BY <2>1 DEF Pieces, Flow
<1>4. Starts(t)
  <2> SUFFICES ASSUME NEW i \in 1..Len(t), NEW j \in 1..Len(t), j - i = Left(t[i]) + 1
               PROVE  t[j].k = 1
    BY DEF Starts
  <2>1. i \in 1..Len(s) /\ t[i] = s[i] /\ j \in 1..Len(s) /\ t[j] = s[j]
    BY <1>1
  <2> QED
    BY <2>1 DEF Pieces, Starts
<1> QED
  BY <1>2, <1>3, <1>4 DEF Pieces

\* The bytes of message m.
LEMMA EncodeType ==
  ASSUME NEW m \in Msg
  PROVE  /\ Encode(m) \in Seq(Byte) /\ Len(Encode(m)) = HEADER_SIZE + m.len
         /\ \A i \in 1..(HEADER_SIZE + m.len) : Encode(m)[i].m = m /\ Encode(m)[i].k = i
<1> DEFINE l == HEADER_SIZE + m.len
<1>1. l \in Nat
  BY PSCStreamAssumption
<1>2. ASSUME NEW k \in 1..l PROVE [m |-> m, k |-> k] \in Byte
  BY <1>1 DEF Byte
<1> HIDE DEF l
<1>3. [k \in 1..l |-> [m |-> m, k |-> k]] \in Seq(Byte) /\ Len([k \in 1..l |-> [m |-> m, k |-> k]]) = l
  BY <1>1, <1>2
<1>4. ASSUME NEW i \in 1..l
      PROVE  LET E == [k \in 1..l |-> [m |-> m, k |-> k]] IN E[i].m = m /\ E[i].k = i
  OBVIOUS
<1> QED
  BY <1>3, <1>4, Zenon DEF Encode, l


\* The device writes one more message.
LEMMA EmitPieces ==
  ASSUME NEW s \in Seq(Byte), Pieces(s), Complete(s), NEW m \in Msg
  PROVE  /\ Pieces(s \o Encode(m)) /\ Complete(s \o Encode(m))
         /\ s \o Encode(m) \in Seq(Byte) /\ s \o Encode(m) # <<>>
         /\ s = <<>> => (s \o Encode(m))[1].k = 1
         /\ s # <<>> => (s \o Encode(m))[1] = s[1]
<1> DEFINE e == Encode(m)
           a == s \o e
           l == HEADER_SIZE + m.len
<1>1. /\ e \in Seq(Byte) /\ Len(e) = l
      /\ \A i \in 1..l : e[i].m = m /\ e[i].k = i
  BY EncodeType
<1>2. l \in Nat /\ l > 0 /\ HEADER_SIZE \in Nat /\ m.len \in Nat
  BY PSCStreamAssumption
<1> HIDE DEF e
<1>3. /\ a \in Seq(Byte) /\ Len(a) = Len(s) + l /\ Len(s) \in Nat
      /\ \A i \in 1..Len(s) : a[i] = s[i]
      /\ \A i \in 1..l : a[i + Len(s)] = e[i]
  <2> HIDE DEF l
  <2> QED
    BY <1>1, <1>2
<1> HIDE DEF a
<1>4. ASSUME NEW i \in 1..l
      PROVE  /\ a[i + Len(s)].m = m /\ a[i + Len(s)].k = i
             /\ Left(a[i + Len(s)]) = l - i
  <2>1. a[i + Len(s)] = e[i] /\ e[i].m = m /\ e[i].k = i
    <3> HIDE DEF l
    <3> QED
      BY <1>1, <1>3
  <2> QED
    BY <1>2, <2>1 DEF Left
<1>5. \A i \in 1..Len(s) : Left(s[i]) \in Int /\ i + Left(s[i]) <= Len(s)
  <2>1. \A i \in 1..Len(s) : s[i] \in Byte
    OBVIOUS
  <2> QED
    BY <2>1, ByteType DEF Complete
<1> HIDE DEF l
<1>6. ASSUME NEW i \in 1..Len(a)
      PROVE  \/ i \in 1..Len(s)
             \/ \E j \in 1..l : i = j + Len(s)
  <2>1. CASE i > Len(s)
    <3>1. i - Len(s) \in 1..l /\ i = (i - Len(s)) + Len(s)
      BY <1>2, <1>3, <2>1
    <3> QED
      BY <3>1
  <2> QED
    BY <1>3, <2>1
<1>7. Sound(a)
  <2> SUFFICES ASSUME NEW i \in 1..Len(a) PROVE a[i].k \in 1..(HEADER_SIZE + a[i].m.len)
    BY DEF Sound
  <2>1. CASE i \in 1..Len(s)
    BY <1>3, <2>1 DEF Pieces, Sound
  <2>2. ASSUME NEW j \in 1..l, i = j + Len(s) PROVE a[i].k \in 1..(HEADER_SIZE + a[i].m.len)
    BY <1>4, <2>2 DEF l
  <2> QED
    BY <1>6, <2>1, <2>2
<1>8. Flow(a)
  <2> SUFFICES ASSUME NEW i \in 1..Len(a), NEW j \in 1..Len(a), i <= j, j - i <= Left(a[i])
               PROVE  a[j].m = a[i].m /\ a[j].k = a[i].k + (j - i)
    BY DEF Flow
  <2>1. CASE i \in 1..Len(s)
    <3>1. a[i] = s[i] /\ Left(s[i]) \in Int /\ i + Left(s[i]) <= Len(s)
      BY <1>3, <1>5, <2>1
    <3>2. j \in 1..Len(s)
      BY <1>3, <2>1, <3>1
    <3>3. a[j] = s[j]
      BY <1>3, <3>2
    <3> QED
      BY <2>1, <3>1, <3>2, <3>3 DEF Pieces, Flow
  <2>2. ASSUME NEW x \in 1..l, i = x + Len(s) PROVE a[j].m = a[i].m /\ a[j].k = a[i].k + (j - i)
    <3>1. j > Len(s)
      BY <1>2, <1>3, <2>2
    <3>2. PICK y \in 1..l : j = y + Len(s)
      BY <1>3, <1>6, <3>1
    <3>3. a[i].m = m /\ a[i].k = x /\ a[j].m = m /\ a[j].k = y
      BY <1>4, <2>2, <3>2
    <3> QED
      BY <1>2, <1>3, <2>2, <3>2, <3>3
  <2> QED
    BY <1>6, <2>1, <2>2
<1>9. Starts(a)
  <2> SUFFICES ASSUME NEW i \in 1..Len(a), NEW j \in 1..Len(a), j - i = Left(a[i]) + 1
               PROVE  a[j].k = 1
    BY DEF Starts
  <2>1. CASE i \in 1..Len(s)
    <3>1. a[i] = s[i] /\ Left(s[i]) \in Int /\ i + Left(s[i]) <= Len(s)
      BY <1>3, <1>5, <2>1
    <3>2. CASE j \in 1..Len(s)
      <4>1. a[j] = s[j] /\ j - i = Left(s[i]) + 1
        BY <1>3, <3>1, <3>2
      <4> QED
        BY <2>1, <3>2, <4>1 DEF Pieces, Starts
    <3>3. CASE j > Len(s)
      <4>1. j = 1 + Len(s)
        BY <1>3, <2>1, <3>1, <3>3
      <4>2. 1 \in 1..l
        BY <1>2
      <4> QED
        BY <1>4, <4>1, <4>2
    <3> QED
      BY <1>3, <3>2, <3>3
  <2>2. ASSUME NEW x \in 1..l, i = x + Len(s) PROVE FALSE
    <3>1. Left(a[i]) = l - x
      BY <1>4, <2>2
    <3> QED
      BY <1>2, <1>3, <2>2, <3>1
  <2> QED
    BY <1>6, <2>1, <2>2
<1>10. Complete(a)
  <2> SUFFICES ASSUME NEW i \in 1..Len(a) PROVE i + Left(a[i]) <= Len(a)
    BY DEF Complete
  <2>1. CASE i \in 1..Len(s)
    <3>1. a[i] = s[i] /\ Left(s[i]) \in Int /\ i + Left(s[i]) <= Len(s)
      BY <1>3, <1>5, <2>1
    <3> QED
      BY <1>2, <1>3, <3>1
  <2>2. ASSUME NEW x \in 1..l, i = x + Len(s) PROVE i + Left(a[i]) <= Len(a)
    <3>1. Left(a[i]) = l - x
      BY <1>4, <2>2
    <3> QED
      BY <1>2, <1>3, <2>2, <3>1
  <2> QED
    BY <1>6, <2>1, <2>2
<1>11. a # <<>>
  BY <1>2, <1>3
<1>12. s = <<>> => a[1].k = 1
  <2>1. ASSUME s = <<>> PROVE a[1].k = 1
    <3>1. 1 \in 1..l /\ 1 + Len(s) = 1
      BY <1>2, <2>1
    <3> QED
      BY <1>4, <3>1
  <2> QED
    BY <2>1
<1>13. s # <<>> => a[1] = s[1]
  BY <1>3
<1> QED
  BY <1>3, <1>7, <1>8, <1>9, <1>10, <1>11, <1>12, <1>13 DEF Pieces, a, e

----------------------------------------------------------------------------
\* What reading and decoding do to the unread bytes, s in the input buffer and t
\* in the socket.

LEMMA Joined ==
  ASSUME NEW s \in Seq(Byte), NEW t \in Seq(Byte)
  PROVE  /\ s \o t \in Seq(Byte) /\ Len(s \o t) = Len(s) + Len(t)
         /\ Len(s) \in Nat /\ Len(t) \in Nat
         /\ \A i \in 1..Len(s) : (s \o t)[i] = s[i]
         /\ \A i \in 1..Len(t) : (s \o t)[i + Len(s)] = t[i]
  OBVIOUS

LEMMA JoinedThree ==
  ASSUME NEW s \in Seq(Byte), NEW t \in Seq(Byte), NEW u \in Seq(Byte)
  PROVE  s \o t \in Seq(Byte) /\ (s \o t) \o u = s \o (t \o u)
  OBVIOUS

\* libevent reads n bytes.
LEMMA ReadUnread ==
  ASSUME NEW s \in Seq(Byte), NEW t \in Seq(Byte), NEW n \in 1..Len(t)
  PROVE  /\ s \o SubSeq(t, 1, n) \in Seq(Byte) /\ SubSeq(t, n + 1, Len(t)) \in Seq(Byte)
         /\ (s \o SubSeq(t, 1, n)) \o SubSeq(t, n + 1, Len(t)) = s \o t
<1> DEFINE u == SubSeq(t, 1, n)
           v == SubSeq(t, n + 1, Len(t))
<1>1. u \in Seq(Byte) /\ v \in Seq(Byte)
  OBVIOUS
<1>2. u \o v = t
  OBVIOUS
<1> HIDE DEF u, v
<1>3. s \o u \in Seq(Byte) /\ (s \o u) \o v = s \o (u \o v)
  BY <1>1, JoinedThree
<1> QED
  BY <1>1, <1>3, <1>2, Zenon DEF u, v

\* recvdata() removes n bytes.
LEMMA DropUnread ==
  ASSUME NEW s \in Seq(Byte), NEW t \in Seq(Byte), NEW n \in 0..Len(s)
  PROVE  LET u == SubSeq(s, n + 1, Len(s)) IN
         /\ u \in Seq(Byte) /\ u \o t \in Seq(Byte)
         /\ Len(u \o t) = Len(s \o t) - n
         /\ \A i \in 1..Len(u \o t) : (u \o t)[i] = (s \o t)[i + n]
<1> DEFINE u == SubSeq(s, n + 1, Len(s))
<1>1. u \in Seq(Byte) /\ Len(u) = Len(s) - n /\ Len(s) \in Nat /\ \A i \in 1..Len(u) : u[i] = s[i + n]
  OBVIOUS
<1> HIDE DEF u
<1>2. /\ u \o t \in Seq(Byte) /\ Len(u \o t) = Len(u) + Len(t) /\ Len(t) \in Nat
      /\ \A i \in 1..Len(u) : (u \o t)[i] = u[i]
      /\ \A i \in 1..Len(t) : (u \o t)[i + Len(u)] = t[i]
  BY <1>1, Joined
<1>3. /\ Len(s \o t) = Len(s) + Len(t)
      /\ \A i \in 1..Len(s) : (s \o t)[i] = s[i]
      /\ \A i \in 1..Len(t) : (s \o t)[i + Len(s)] = t[i]
  BY Joined
<1>4. ASSUME NEW i \in 1..Len(u \o t) PROVE (u \o t)[i] = (s \o t)[i + n]
  <2>1. CASE i <= Len(u)
    <3>1. i \in 1..Len(u) /\ i + n \in 1..Len(s)
      BY <1>1, <1>2, <2>1
    <3> QED
      BY <1>1, <1>2, <1>3, <3>1
  <2>2. CASE i > Len(u)
    <3>1. i - Len(u) \in 1..Len(t) /\ i = (i - Len(u)) + Len(u) /\ i + n = (i - Len(u)) + Len(s)
      BY <1>1, <1>2, <2>2
    <3>2. ASSUME NEW j \in 1..Len(t), i = j + Len(u), i + n = j + Len(s)
          PROVE  (u \o t)[i] = (s \o t)[i + n]
      <4>1. (u \o t)[i] = t[j]
        BY <1>2, <3>2
      <4>2. (s \o t)[i + n] = t[j]
        BY <1>3, <3>2
      <4> QED
        BY <4>1, <4>2
    <3> QED
      BY <3>1, <3>2
  <2> QED
    BY <1>1, <1>2, <2>1, <2>2
<1>5. Len(u \o t) = Len(s \o t) - n
  BY <1>1, <1>2, <1>3
<1> QED
  BY <1>1, <1>2, <1>4, <1>5 DEF u

\* The device loses the end of what it wrote.
LEMMA CloseUnread ==
  ASSUME NEW s \in Seq(Byte), NEW t \in Seq(Byte), NEW n \in 0..Len(t)
  PROVE  LET u == SubSeq(t, 1, n) IN
         /\ u \in Seq(Byte) /\ s \o u \in Seq(Byte)
         /\ Len(s \o u) <= Len(s \o t)
         /\ \A i \in 1..Len(s \o u) : (s \o u)[i] = (s \o t)[i]
  OBVIOUS

----------------------------------------------------------------------------
\* The inductive invariant.

Pending == inbuf \o net

Types == inbuf \in Seq(Byte) /\ net \in Seq(Byte)

\* Without a connection nothing is buffered, and a new one has a new decoder.
Idle ==
  /\ session # "up" => inbuf = <<>> /\ net = <<>> /\ ~closed
  /\ session = "connecting" => ~have_head
  /\ inRecv => session = "up"

\* What recvdata() waits for.
Expects == IF have_head THEN expect = bodylen /\ bodylen \in Nat \ {0} ELSE expect = HEADER_SIZE

\* What the device of an open connection has written is all there.
Whole == session = "up" /\ ~closed => Complete(Pending) /\ (have_head => Pending # <<>>)

\* The first unread byte is the one recvdata() expects.
First ==
  Pending # <<>> =>
    IF have_head
    THEN /\ Pending[1].k = HEADER_SIZE + 1 /\ Pending[1].m.len = bodylen
         /\ bodyblock # None => Pending[1].m.id = bodyblock
    ELSE Pending[1].k = 1

IInv == Types /\ Idle /\ Expects /\ Pieces(Pending) /\ Whole /\ First


\* No unread bytes.
LEMMA NoPieces == Pieces(<<>>) /\ Complete(<<>>) /\ <<>> \o <<>> = <<>>
  BY DEF Pieces, Sound, Flow, Starts, Complete

LEMMA InitIInv == Init => IInv
<1> SUFFICES ASSUME Init PROVE IInv
  OBVIOUS
<1>1. inbuf = <<>> /\ net = <<>> /\ Pending = <<>>
  BY NoPieces DEF Init, Pending
<1>2. Types /\ Idle /\ Expects
  BY <1>1 DEF Init, Types, Idle, Expects
<1>3. Pieces(Pending) /\ Whole /\ First
  BY <1>1, NoPieces DEF Init, Whole, First
<1> QED
  BY <1>2, <1>3 DEF IInv

\* Steps that change neither the unread bytes nor the decoder.
LEMMA SameIInv ==
  ASSUME IInv, inbuf' \in Seq(Byte), net' \in Seq(Byte), inbuf' \o net' = inbuf \o net,
         UNCHANGED <<session, closed, decoder>>,
         session # "up" => inbuf' = <<>> /\ net' = <<>>, inRecv' => session = "up"
  PROVE  IInv'
<1>1. Pending' = Pending
  BY DEF Pending
<1>2. Types' /\ Idle' /\ Expects'
  BY DEF IInv, Types, Idle, Expects, decoder
<1>3. Pieces(Pending')
  BY <1>1 DEF IInv
<1>4. Whole' /\ First'
  BY <1>1 DEF IInv, Whole, First, decoder
<1> QED
  BY <1>2, <1>3, <1>4 DEF IInv

\* start_reconnect() drops the unread bytes.
LEMMA ReconnectIInv ==
  ASSUME IInv, start_reconnect, ~inRecv', UNCHANGED decoder
  PROVE  IInv'
<1>1. /\ session' = "none" /\ inbuf' = <<>> /\ net' = <<>> /\ ~closed' /\ Pending' = <<>>
  BY NoPieces DEF start_reconnect, Pending
<1>2. Types' /\ Idle' /\ Expects'
  BY <1>1 DEF IInv, Types, Idle, Expects, decoder
<1>3. Pieces(Pending') /\ Whole' /\ First'
  BY <1>1, NoPieces DEF Whole, First
<1> QED
  BY <1>2, <1>3 DEF IInv

\* recvdata() removes n bytes, none of them beyond the input buffer.
LEMMA DropPieces ==
  ASSUME IInv, NEW n \in 1..Len(inbuf), inbuf' = SubSeq(inbuf, n + 1, Len(inbuf)), net' = net
  PROVE  /\ Types' /\ Pieces(Pending') /\ (Complete(Pending) => Complete(Pending'))
         /\ Pending # <<>> /\ Pending \in Seq(Byte) /\ n \in 1..Len(Pending)
         /\ Pending' \in Seq(Byte) /\ Len(Pending') = Len(Pending) - n
         /\ \A i \in 1..Len(Pending') : Pending'[i] = Pending[i + n]
         /\ Pending' # <<>> => n + 1 \in 1..Len(Pending) /\ Pending'[1] = Pending[n + 1]
<1>1. inbuf \in Seq(Byte) /\ net \in Seq(Byte) /\ n \in 0..Len(inbuf) /\ Pending \in Seq(Byte)
  BY Joined DEF IInv, Types, Pending
<1>2. /\ inbuf' \in Seq(Byte) /\ Pending' \in Seq(Byte)
      /\ Len(Pending') = Len(Pending) - n
      /\ \A i \in 1..Len(Pending') : Pending'[i] = Pending[i + n]
  <2>1. LET u == SubSeq(inbuf, n + 1, Len(inbuf)) IN
        /\ u \in Seq(Byte) /\ u \o net \in Seq(Byte)
        /\ Len(u \o net) = Len(inbuf \o net) - n
        /\ \A i \in 1..Len(u \o net) : (u \o net)[i] = (inbuf \o net)[i + n]
    BY <1>1, DropUnread
  <2> QED
    BY <2>1, Zenon DEF Pending
<1>3. n \in 0..Len(Pending) /\ n \in 1..Len(Pending) /\ Len(Pending) \in Nat /\ Len(Pending) > 0
  BY <1>1, Joined DEF Pending
<1>4. Pieces(Pending)
  BY DEF IInv
<1>5. Pieces(Pending') /\ (Complete(Pending) => Complete(Pending'))
  BY <1>1, <1>2, <1>3, <1>4, SuffixPieces
<1>6. ASSUME Pending' # <<>> PROVE n + 1 \in 1..Len(Pending) /\ Pending'[1] = Pending[n + 1]
  <2>1. Len(Pending') > 0
    BY <1>2, <1>6
  <2>2. 1 \in 1..Len(Pending') /\ n + 1 \in 1..Len(Pending) /\ 1 + n = n + 1
    BY <1>2, <1>3, <2>1
  <2> QED
    BY <1>2, <2>2
<1> QED
  BY <1>1, <1>2, <1>3, <1>5, <1>6 DEF Types

\* decodeHeader removes a header and finds the body behind it, if it is there.
LEMMA HeaderIInv ==
  ASSUME IInv, decodeHeader
  PROVE  IInv'
<1> DEFINE p == Pending
           h == Pending[1].m
<1>1. /\ inRecv /\ session = "up" /\ ~have_head /\ expect = HEADER_SIZE /\ Len(inbuf) >= HEADER_SIZE
      /\ inRecv' = inRecv /\ session' = session /\ closed' = closed /\ net' = net
      /\ inbuf' = SubSeq(inbuf, HEADER_SIZE + 1, Len(inbuf))
  BY DEF decodeHeader, dev, IInv, Idle, Expects
<1>2. HEADER_SIZE \in 1..Len(inbuf) /\ HEADER_SIZE \in Nat
  BY <1>1, PSCStreamAssumption DEF IInv, Types
<1>3. /\ Types' /\ Pieces(Pending') /\ (Complete(p) => Complete(Pending'))
      /\ p # <<>> /\ p \in Seq(Byte) /\ Len(Pending') = Len(p) - HEADER_SIZE
      /\ Pending' # <<>> => HEADER_SIZE + 1 \in 1..Len(p) /\ Pending'[1] = p[HEADER_SIZE + 1]
  BY <1>1, <1>2, DropPieces
<1>4. inbuf[1] = p[1] /\ p[1] \in Byte /\ 1 \in 1..Len(p) /\ Len(p) \in Nat
  <2>1. inbuf \in Seq(Byte) /\ net \in Seq(Byte) /\ 1 \in 1..Len(inbuf)
    BY <1>2 DEF IInv, Types
  <2> QED
    BY <1>3, <2>1, Joined DEF Pending
<1>5. h.len \in Nat /\ p[1].k = 1 /\ Left(p[1]) = HEADER_SIZE + h.len - 1
  <2>1. h.len \in Nat
    BY <1>4, ByteType
  <2>2. p[1].k = 1
    BY <1>1, <1>3 DEF IInv, First
  <2> QED
    BY <2>1, <2>2 DEF Left
<1>6. /\ bodylen' = h.len /\ bodyblock' \in {h.id, None}
      /\ (have_head' <=> h.len > 0)
      /\ expect' = IF h.len > 0 THEN h.len ELSE HEADER_SIZE
  BY <1>4 DEF decodeHeader
<1> HIDE DEF p
<1>7. Idle' /\ Expects'
  BY <1>1, <1>5, <1>6 DEF Idle, Expects
<1>8. Whole'
  <2> SUFFICES ASSUME ~closed PROVE Complete(Pending') /\ (h.len > 0 => Pending' # <<>>)
    BY <1>1, <1>6 DEF Whole
  <2>1. Complete(p)
    BY <1>1 DEF IInv, Whole, p
  <2>2. 1 + Left(p[1]) <= Len(p)
    BY <1>4, <2>1 DEF Complete
  <2>3. h.len > 0 => Len(Pending') > 0
    BY <1>2, <1>3, <1>4, <1>5, <2>2
  <2> QED
    BY <1>3, <2>1, <2>3
<1>9. First'
  <2> SUFFICES ASSUME Pending' # <<>>
               PROVE  IF h.len > 0
                      THEN Pending'[1].k = HEADER_SIZE + 1 /\ Pending'[1].m = h
                      ELSE Pending'[1].k = 1
    BY <1>6 DEF First
  <2>1. HEADER_SIZE + 1 \in 1..Len(p) /\ Pending'[1] = p[HEADER_SIZE + 1]
    BY <1>3
  <2>2. Flow(p) /\ Starts(p)
    BY DEF IInv, Pieces, p
  <2>3. CASE h.len > 0
    <3>1. 1 <= HEADER_SIZE + 1 /\ (HEADER_SIZE + 1) - 1 <= Left(p[1])
      BY <1>2, <1>5, <2>3
    <3>2. p[HEADER_SIZE + 1].m = p[1].m /\ p[HEADER_SIZE + 1].k = p[1].k + ((HEADER_SIZE + 1) - 1)
      BY <1>4, <2>1, <2>2, <3>1 DEF Flow
    <3> QED
      BY <1>2, <1>5, <2>1, <2>3, <3>2 DEF p
  <2>4. CASE h.len = 0
    <3>1. (HEADER_SIZE + 1) - 1 = Left(p[1]) + 1
      BY <1>2, <1>5, <2>4
    <3>2. p[HEADER_SIZE + 1].k = 1
      BY <1>4, <2>1, <2>2, <3>1 DEF Starts
    <3> QED
      BY <2>1, <2>4, <3>2
  <2> QED
    BY <1>5, <2>3, <2>4
<1> QED
  BY <1>3, <1>7, <1>8, <1>9 DEF IInv

\* decodeBody removes a body and finds the next message behind it.
LEMMA BodyIInv ==
  ASSUME IInv, decodeBody
  PROVE  IInv'
<1> DEFINE p == Pending
<1>1. /\ inRecv /\ session = "up" /\ have_head /\ expect = bodylen /\ Len(inbuf) >= bodylen
      /\ inRecv' = inRecv /\ session' = session /\ closed' = closed /\ net' = net
      /\ inbuf' = SubSeq(inbuf, bodylen + 1, Len(inbuf))
      /\ ~have_head' /\ expect' = HEADER_SIZE /\ bodylen \in Nat \ {0}
  BY DEF decodeBody, dev, IInv, Idle, Expects
<1>2. bodylen \in 1..Len(inbuf)
  BY <1>1 DEF IInv, Types
<1>3. /\ Types' /\ Pieces(Pending') /\ (Complete(p) => Complete(Pending'))
      /\ p # <<>> /\ p \in Seq(Byte)
      /\ Pending' # <<>> => bodylen + 1 \in 1..Len(p) /\ Pending'[1] = p[bodylen + 1]
  BY <1>1, <1>2, DropPieces
<1>4. 1 \in 1..Len(p) /\ p[1] \in Byte
  BY <1>3
<1>5. p[1].k = HEADER_SIZE + 1 /\ p[1].m.len = bodylen
  BY <1>1, <1>3 DEF IInv, First
<1>6. Left(p[1]) = bodylen - 1
  BY <1>1, <1>5, PSCStreamAssumption DEF Left
<1> HIDE DEF p
<1>7. Idle' /\ Expects'
  BY <1>1 DEF Idle, Expects
<1>8. Whole'
  BY <1>1, <1>3 DEF IInv, Whole, p
<1>9. First'
  <2> SUFFICES ASSUME Pending' # <<>> PROVE Pending'[1].k = 1
    BY <1>1 DEF First
  <2>1. bodylen + 1 \in 1..Len(p) /\ Pending'[1] = p[bodylen + 1]
    BY <1>3
  <2>2. (bodylen + 1) - 1 = Left(p[1]) + 1
    BY <1>1, <1>6
  <2>3. Starts(p)
    BY DEF IInv, Pieces, p
  <2>4. p[bodylen + 1].k = 1
    BY <1>4, <2>1, <2>2, <2>3 DEF Starts
  <2> QED
    BY <2>1, <2>4
<1> QED
  BY <1>3, <1>7, <1>8, <1>9 DEF IInv

\* The device writes a message behind the others, which are complete.
LEMMA EmitPending ==
  ASSUME IInv, NEW m \in Msg, Emit(m)
  PROVE  Types' /\ Pending' = Pending \o Encode(m) /\ Pending \in Seq(Byte)
<1>1. net' = net \o Encode(m) /\ inbuf' = inbuf
  BY DEF Emit
<1>2. Encode(m) \in Seq(Byte)
  BY EncodeType
<1>3. inbuf \in Seq(Byte) /\ net \in Seq(Byte)
  BY DEF IInv, Types
<1>4. net \o Encode(m) \in Seq(Byte) /\ inbuf \o net \in Seq(Byte)
  BY <1>2, <1>3, Joined
<1>5. (inbuf \o net) \o Encode(m) = inbuf \o (net \o Encode(m))
  BY <1>2, <1>3, JoinedThree
<1> QED
  BY <1>1, <1>3, <1>4, <1>5, Zenon DEF Types, Pending

LEMMA EmitIInv ==
  ASSUME IInv, NEW m \in Msg, Emit(m)
  PROVE  IInv'
<1>1. /\ session = "up" /\ ~closed /\ net' = net \o Encode(m) /\ inbuf' = inbuf
      /\ UNCHANGED <<session, closed, inRecv, decoder>>
  BY DEF Emit
<1>3. Types' /\ Pending' = Pending \o Encode(m) /\ Pending \in Seq(Byte)
  BY EmitPending
<1>4. Pieces(Pending) /\ Complete(Pending) /\ (have_head => Pending # <<>>)
  BY <1>1 DEF IInv, Whole
<1>5. /\ Pieces(Pending') /\ Complete(Pending') /\ Pending' # <<>>
      /\ Pending = <<>> => Pending'[1].k = 1
      /\ Pending # <<>> => Pending'[1] = Pending[1]
  <2>1. /\ Pieces(Pending \o Encode(m)) /\ Complete(Pending \o Encode(m))
        /\ Pending \o Encode(m) # <<>>
        /\ Pending = <<>> => (Pending \o Encode(m))[1].k = 1
        /\ Pending # <<>> => (Pending \o Encode(m))[1] = Pending[1]
    BY <1>3, <1>4, EmitPieces
  <2> QED
    BY <1>3, <2>1, Zenon
<1>6. Idle' /\ Expects'
  BY <1>1 DEF IInv, Idle, Expects, decoder
<1>7. Whole'
  BY <1>5 DEF Whole
<1>8. First'
  BY <1>1, <1>4, <1>5 DEF IInv, First, decoder
<1> QED
  BY <1>3, <1>5, <1>6, <1>7, <1>8 DEF IInv

\* The device closes, and the end of what it wrote is lost.
LEMMA ClosePending ==
  ASSUME IInv, Close
  PROVE  /\ inbuf \in Seq(Byte) /\ Pending \in Seq(Byte) /\ net' \in Seq(Byte) /\ Pending' \in Seq(Byte)
         /\ Len(Pending') <= Len(Pending)
         /\ \A i \in 1..Len(Pending') : Pending'[i] = Pending[i]
         /\ Pending' # <<>> => Pending # <<>> /\ Pending'[1] = Pending[1]
<1>1. inbuf' = inbuf
  BY DEF Close
<1>2. PICK n \in 0..Len(net) : net' = SubSeq(net, 1, n)
  BY DEF Close
<1>3. inbuf \in Seq(Byte) /\ net \in Seq(Byte) /\ Pending \in Seq(Byte)
  BY Joined DEF IInv, Types, Pending
<1>4. /\ net' \in Seq(Byte) /\ Pending' \in Seq(Byte)
      /\ Len(Pending') <= Len(Pending)
      /\ \A i \in 1..Len(Pending') : Pending'[i] = Pending[i]
  <2>1. LET u == SubSeq(net, 1, n) IN
        /\ u \in Seq(Byte) /\ inbuf \o u \in Seq(Byte)
        /\ Len(inbuf \o u) <= Len(inbuf \o net)
        /\ \A i \in 1..Len(inbuf \o u) : (inbuf \o u)[i] = (inbuf \o net)[i]
    BY <1>3, CloseUnread
  <2> QED
    BY <1>1, <1>2, <2>1, Zenon DEF Pending
<1>5. ASSUME Pending' # <<>> PROVE Pending # <<>> /\ Pending'[1] = Pending[1]
  <2>1. 1 \in 1..Len(Pending') /\ Len(Pending) > 0
    BY <1>3, <1>4, <1>5
  <2> QED
    BY <1>3, <1>4, <2>1
<1> QED
  BY <1>3, <1>4, <1>5

LEMMA CloseIInv ==
  ASSUME IInv, Close
  PROVE  IInv'
<1>1. /\ session = "up" /\ closed' /\ inbuf' = inbuf /\ UNCHANGED <<session, inRecv, decoder>>
  BY DEF Close
<1>4. /\ inbuf \in Seq(Byte) /\ Pending \in Seq(Byte) /\ net' \in Seq(Byte) /\ Pending' \in Seq(Byte)
      /\ Len(Pending') <= Len(Pending)
      /\ \A i \in 1..Len(Pending') : Pending'[i] = Pending[i]
      /\ Pending' # <<>> => Pending # <<>> /\ Pending'[1] = Pending[1]
  BY ClosePending
<1>5. Pieces(Pending')
  BY <1>4, PrefixPieces DEF IInv
<1>6. Types' /\ Idle' /\ Expects' /\ Whole'
  BY <1>1, <1>4 DEF IInv, Types, Idle, Expects, Whole, decoder
<1>7. First'
  BY <1>1, <1>4 DEF IInv, First, decoder
<1> QED
  BY <1>5, <1>6, <1>7 DEF IInv

LEMMA NextIInv == IInv /\ [Next]_vars => IInv'
<1> SUFFICES ASSUME IInv, [Next]_vars PROVE IInv'
  OBVIOUS
<1>1. ASSUME UNCHANGED <<inbuf, net, session, closed, decoder>>, inRecv' => session = "up"
      PROVE  IInv'
  BY <1>1, SameIInv DEF IInv, Types, Idle
<1>2. ASSUME NEW m \in Msg, Emit(m) PROVE IInv'
  BY <1>2, EmitIInv
<1>3. CASE Close
  BY <1>3, CloseIInv
<1>4. CASE connect
  <2>1. /\ session' = "connecting" /\ session = "none" /\ ~have_head' /\ expect' = HEADER_SIZE
        /\ UNCHANGED <<inbuf, net, closed, inRecv>>
    BY <1>4 DEF connect, dev
  <2>2. Types' /\ Idle' /\ Expects' /\ Pending' = Pending /\ Pending = <<>>
    BY <2>1, NoPieces DEF IInv, Types, Idle, Expects, Pending
  <2>3. Whole' /\ First' /\ Pieces(Pending')
    BY <2>1, <2>2 DEF IInv, Whole, First
  <2> QED
    BY <2>2, <2>3 DEF IInv
<1>5. CASE eventcb_connected
  <2>1. /\ session' = "up" /\ session = "connecting"
        /\ UNCHANGED <<inbuf, net, closed, inRecv, decoder>>
    BY <1>5 DEF eventcb_connected, dev
  <2>2. Types' /\ Idle' /\ Expects' /\ Pending' = Pending /\ Pending = <<>> /\ ~have_head'
    BY <2>1, NoPieces DEF IInv, Types, Idle, Expects, Pending, decoder
  <2>3. Whole' /\ First' /\ Pieces(Pending')
    BY <2>1, <2>2, NoPieces DEF Whole, First
  <2> QED
    BY <2>2, <2>3 DEF IInv
<1>6. CASE eventcb_eof
  BY <1>6, ReconnectIInv DEF eventcb_eof
<1>7. CASE eventcb_error
  BY <1>7, ReconnectIInv DEF eventcb_error
<1>8. ASSUME NEW n \in 1..Len(net), SocketRead(n) PROVE IInv'
  <2>1. /\ session = "up" /\ UNCHANGED <<session, closed, inRecv, decoder>>
        /\ inbuf' = inbuf \o SubSeq(net, 1, n) /\ net' = SubSeq(net, n + 1, Len(net))
    BY <1>8 DEF SocketRead
  <2>2. inbuf \in Seq(Byte) /\ net \in Seq(Byte)
    BY DEF IInv, Types
  <2>3. inbuf' \in Seq(Byte) /\ net' \in Seq(Byte) /\ inbuf' \o net' = inbuf \o net
    BY <2>1, <2>2, ReadUnread
  <2> QED
    BY <2>1, <2>3, SameIInv
<1>9. CASE recvdata
  BY <1>1, <1>9 DEF recvdata, dev
<1>10. CASE decodeHeader
  BY <1>10, HeaderIInv
<1>11. CASE framingError
  BY <1>11, ReconnectIInv DEF framingError
<1>12. CASE decodeBody
  BY <1>12, BodyIInv
<1>13. CASE recvdone
  BY <1>1, <1>13 DEF recvdone, dev
<1>14. CASE UNCHANGED vars
  BY <1>1, <1>14 DEF vars, dev, IInv, Idle
<1> QED
  BY <1>2, <1>3, <1>4, <1>5, <1>6, <1>7, <1>8, <1>9, <1>10, <1>11, <1>12, <1>13, <1>14
  DEF Next, EventLoop

\* The decoder is in step with the stream however the bytes arrive, for messages
\* of any length and any number of connections: recvdata() looks for a header
\* only at the first byte of a message and takes the announced body for a body.
THEOREM SpecDecoderAligned == Spec => []DecoderAligned
<1>1. IInv => DecoderAligned
  <2> SUFFICES ASSUME IInv, inbuf \o net # <<>>
               PROVE  LET first == Head(inbuf \o net) IN
                      IF have_head
                      THEN first.k = HEADER_SIZE + 1 /\ first.m.len = bodylen /\ expect = bodylen
                           /\ (bodyblock # None => first.m.id = bodyblock)
                      ELSE first.k = 1 /\ expect = HEADER_SIZE
    BY DEF DecoderAligned
  <2>1. inbuf \o net \in Seq(Byte) /\ Pending = inbuf \o net
    BY Joined DEF IInv, Types, Pending
  <2>2. Head(inbuf \o net) = Pending[1]
    BY <2>1
  <2> QED
    BY <2>1, <2>2 DEF IInv, First, Expects
<1> QED
  BY <1>1, InitIInv, NextIInv, PTL DEF Spec

----------------------------------------------------------------------------
\* What a block holds is the whole body of one message, and of a message for it.
WholeBodies ==
  \A b \in Blocks : data[b] # <<>> => \E m \in Msg : m.id = b /\ data[b] = Body(m)

\* A byte is its message and its place.
LEMMA SameByte ==
  ASSUME NEW a \in Byte, NEW b \in Byte, a.m = b.m, a.k = b.k
  PROVE  a = b
  BY DEF Byte

\* The bytes of the body of message m.
LEMMA BodyType ==
  ASSUME NEW m \in Msg
  PROVE  /\ Body(m) \in Seq(Byte) /\ Len(Body(m)) = m.len
         /\ \A i \in 1..m.len : Body(m)[i].m = m /\ Body(m)[i].k = HEADER_SIZE + i
<1> DEFINE e == Encode(m)
           l == m.len
<1>1. l \in Nat /\ HEADER_SIZE \in Nat
  BY PSCStreamAssumption
<1>2. /\ e \in Seq(Byte) /\ Len(e) = HEADER_SIZE + l
      /\ \A i \in 1..(HEADER_SIZE + l) : e[i].m = m /\ e[i].k = i
  BY EncodeType
<1>3. Body(m) = SubSeq(e, HEADER_SIZE + 1, HEADER_SIZE + l)
  BY DEF Body
<1> HIDE DEF e, l
<1>4. /\ Body(m) \in Seq(Byte) /\ Len(Body(m)) = l
      /\ \A i \in 1..l : Body(m)[i] = e[HEADER_SIZE + i]
  BY <1>1, <1>2, <1>3
<1>5. ASSUME NEW i \in 1..l PROVE Body(m)[i].m = m /\ Body(m)[i].k = HEADER_SIZE + i
  <2>1. HEADER_SIZE + i \in 1..(HEADER_SIZE + l)
    BY <1>1
  <2> QED
    BY <1>2, <1>4, <2>1
<1> QED
  BY <1>4, <1>5 DEF l

\* What decodeBody stores is a whole body.
LEMMA StoredBody ==
  ASSUME IInv, decodeBody
  PROVE  /\ SubSeq(inbuf, 1, bodylen) = Body(Pending[1].m) /\ Pending[1].m \in Msg
         /\ bodyblock # None => Pending[1].m.id = bodyblock
<1> DEFINE p == Pending
           m == Pending[1].m
           a == SubSeq(inbuf, 1, bodylen)
           b == Body(Pending[1].m)
<1>1. have_head /\ Len(inbuf) >= bodylen /\ bodylen \in Nat \ {0}
  BY DEF decodeBody, IInv, Expects
<1>2. inbuf \in Seq(Byte) /\ net \in Seq(Byte) /\ bodylen \in 1..Len(inbuf)
  BY <1>1 DEF IInv, Types
<1>3. /\ p \in Seq(Byte) /\ p # <<>> /\ Len(inbuf) <= Len(p) /\ Len(p) \in Nat
      /\ \A i \in 1..Len(inbuf) : inbuf[i] = p[i]
  <2>1. /\ p \in Seq(Byte) /\ Len(p) = Len(inbuf) + Len(net)
        /\ Len(inbuf) \in Nat /\ Len(net) \in Nat
        /\ \A i \in 1..Len(inbuf) : p[i] = inbuf[i]
    BY <1>2, Joined DEF Pending
  <2> HIDE DEF p
  <2> QED
    BY <1>2, <2>1
<1>4. /\ p[1].k = HEADER_SIZE + 1 /\ m.len = bodylen
      /\ bodyblock # None => m.id = bodyblock
  BY <1>1, <1>3 DEF IInv, First
<1>5. 1 \in 1..Len(p) /\ p[1] \in Byte
  BY <1>3
<1>6. m \in Msg /\ HEADER_SIZE \in Nat
  BY <1>5, ByteType, PSCStreamAssumption
<1>7. Left(p[1]) = bodylen - 1
  BY <1>1, <1>4, <1>6 DEF Left
<1>8. Flow(p)
  BY DEF IInv, Pieces
<1> HIDE DEF p
<1>9. ASSUME NEW i \in 1..bodylen
      PROVE  inbuf[i] \in Byte /\ inbuf[i].m = m /\ inbuf[i].k = HEADER_SIZE + i
  <2>1. i \in 1..Len(p) /\ 1 <= i /\ i - 1 <= Left(p[1]) /\ inbuf[i] = p[i] /\ p[i] \in Byte
    BY <1>1, <1>2, <1>3, <1>7
  <2>2. p[i].m = p[1].m /\ p[i].k = p[1].k + (i - 1)
    BY <1>5, <1>8, <2>1 DEF Flow
  <2>3. p[i].k = HEADER_SIZE + i
    BY <1>4, <1>6, <2>2
  <2> QED
    BY <2>1, <2>2, <2>3 DEF p
<1>10. a \in Seq(Byte) /\ Len(a) = bodylen /\ \A i \in 1..bodylen : a[i] = inbuf[i]
  BY <1>2
<1>11. /\ b \in Seq(Byte) /\ Len(b) = bodylen
       /\ \A i \in 1..bodylen : b[i].m = m /\ b[i].k = HEADER_SIZE + i
  BY <1>4, <1>6, BodyType
<1> HIDE DEF a, b, m
<1>12. ASSUME NEW i \in 1..bodylen PROVE a[i] = b[i]
  <2>1. a[i] \in Byte /\ a[i].m = m /\ a[i].k = HEADER_SIZE + i
    BY <1>9, <1>10
  <2>2. b[i] \in Byte /\ b[i].m = m /\ b[i].k = HEADER_SIZE + i
    BY <1>11
  <2> QED
    BY <2>1, <2>2, SameByte
<1>13. a = b
  BY <1>10, <1>11, <1>12
<1> QED
  BY <1>4, <1>6, <1>13 DEF a, b, m

LEMMA NextWholeBodies == IInv /\ WholeBodies /\ [Next]_vars => WholeBodies'
<1> SUFFICES ASSUME IInv, WholeBodies, [Next]_vars PROVE WholeBodies'
  OBVIOUS
<1>1. CASE data' = data
  BY <1>1 DEF WholeBodies
<1>2. CASE decodeBody
  <2> SUFFICES ASSUME NEW b \in Blocks, data'[b] # <<>>
               PROVE  \E m \in Msg : m.id = b /\ data'[b] = Body(m)
    BY DEF WholeBodies
  <2>1. data'[b] = IF b = bodyblock THEN SubSeq(inbuf, 1, bodylen) ELSE data[b]
    BY <1>2 DEF decodeBody
  <2>2. CASE b = bodyblock
    <3>1. b # None
      BY PSCStreamAssumption
    <3> QED
      BY <1>2, <2>1, <2>2, <3>1, StoredBody
  <2>3. CASE b # bodyblock
    BY <2>1, <2>3 DEF WholeBodies
  <2> QED
    BY <2>2, <2>3
<1>3. data' = data \/ decodeBody
  BY Zenon DEF Next, EventLoop, vars, Emit, Close, connect, eventcb_connected, eventcb_eof,
               eventcb_error, start_reconnect, SocketRead, recvdata, decodeHeader, framingError,
               recvdone
<1> QED
  BY <1>1, <1>2, <1>3

\* A block never holds a torn body, a mixture of two, or one of a message for
\* another block, however the bytes arrive and connections break.
THEOREM SpecWholeBodies == Spec => []WholeBodies
<1>1. Init => WholeBodies
  BY DEF Init, WholeBodies
<1> QED
  BY <1>1, InitIInv, NextIInv, NextWholeBodies, PTL DEF Spec

----------------------------------------------------------------------------
\* Ranks in finite sets of numbers.

Finite(E) == E \in SUBSET Nat /\ IsFiniteSet(E)

LEMMA RankType ==
  ASSUME NEW E, Finite(E), NEW e \in E
  PROVE  /\ IsFiniteSet({i \in E : i <= e}) /\ Cardinality(E) \in Nat
         /\ Rank(E, e) \in 1..Cardinality(E)
<1> DEFINE S == {i \in E : i <= e}
<1>1. S \in SUBSET E /\ e \in S /\ IsFiniteSet(E)
  BY DEF Finite
<1> HIDE DEF S
<1>2. IsFiniteSet(S) /\ Cardinality(S) <= Cardinality(E)
  BY <1>1, FS_Subset
<1>3. Cardinality(S) \in Nat /\ Cardinality(E) \in Nat
  BY <1>1, <1>2, FS_CardinalityType
<1>4. Cardinality(S) # 0
  BY <1>1, <1>2, FS_EmptySet
<1>5. Cardinality(S) \in 1..Cardinality(E)
  BY <1>2, <1>3, <1>4
<1> QED BY <1>2, <1>3, <1>5 DEF S, Rank

LEMMA RankOrder ==
  ASSUME NEW E, Finite(E), NEW e \in E, NEW f \in E, e < f
  PROVE  Rank(E, e) # Rank(E, f)
<1> DEFINE S == {i \in E : i <= e}
           T == {i \in E : i <= f}
<1>1. S \in SUBSET T /\ f \in T /\ f \notin S
  <2>1. e \in Nat /\ f \in Nat /\ \A i \in E : i \in Nat
    BY DEF Finite
  <2>2. \A i \in E : i <= e => i <= f
    BY <2>1
  <2>3. f <= f /\ ~(f <= e)
    BY <2>1
  <2> QED BY <2>2, <2>3, Zenon
<1>2. IsFiniteSet(T)
  BY RankType
<1> HIDE DEF S, T
<1>3. Cardinality(T) = Cardinality(S) => T = S
  BY <1>1, <1>2, FS_Subset
<1> QED BY <1>1, <1>3 DEF S, T, Rank

\* The ranks of n elements are 1 to n: different elements have different ranks.
LEMMA NthType ==
  ASSUME NEW E, Finite(E), NEW n \in 1..Cardinality(E)
  PROVE  Nth(E, n) \in E /\ Rank(E, Nth(E, n)) = n
<1> DEFINE f == [e \in E |-> Rank(E, e)]
           c == Cardinality(E)
<1>1. \A e \in E : Rank(E, e) \in 1..c
  BY RankType
<1>2. \A d, e \in E : Rank(E, d) = Rank(E, e) => d = e
  <2> SUFFICES ASSUME NEW d \in E, NEW e \in E, Rank(E, d) = Rank(E, e) PROVE d = e
    OBVIOUS
  <2>1. d \in Nat /\ e \in Nat
    BY DEF Finite
  <2>2. ~(d < e) /\ ~(e < d)
    BY RankOrder
  <2> QED BY <2>1, <2>2
<1>3. c \in Nat
  BY FS_CardinalityType DEF Finite
<1>4. IsFiniteSet(1..c) /\ Cardinality(1..c) = c
  <2> HIDE DEF c
  <2> QED BY <1>3, FS_Interval
<1>5. f \in Injection(E, 1..c)
  <2>1. f \in [E -> 1..c]
    BY <1>1
  <2>2. \A d, e \in E : f[d] = f[e] => d = e
    BY <1>2
  <2> HIDE DEF f, c
  <2> QED BY <2>1, <2>2 DEF Injection, IsInjective
<1>6. f \in Surjection(E, 1..c)
  <2> HIDE DEF f
  <2> QED BY <1>4, <1>5, FS_Injection
<1>7. \E e \in E : f[e] = n
  <2> HIDE DEF f
  <2> QED BY <1>6 DEF Surjection
<1>8. \E e \in E : Rank(E, e) = n
  BY <1>7
<1> QED BY <1>8, Zenon DEF Nth

\* The messages that end in s, with their numbers.
LEMMA EndsFinite ==
  ASSUME NEW s \in Seq(Byte)
  PROVE  /\ Finite(Ends(s)) /\ Cardinality(Ends(s)) \in Nat
         /\ \A e \in Ends(s) : e \in 1..Len(s) /\ s[e].m \in Msg
<1>1. Ends(s) \in SUBSET (1..Len(s)) /\ Len(s) \in Nat
  BY DEF Ends
<1>2. IsFiniteSet(1..Len(s))
  BY <1>1, FS_Interval
<1>3. IsFiniteSet(Ends(s))
  BY <1>1, <1>2, FS_Subset
<1>4. Cardinality(Ends(s)) \in Nat
  BY <1>3, FS_CardinalityType
<1>5. Ends(s) \in SUBSET Nat
  BY <1>1
<1>6. ASSUME NEW e \in Ends(s) PROVE e \in 1..Len(s) /\ s[e].m \in Msg
  <2>1. e \in 1..Len(s)
    BY <1>1
  <2>2. s[e] \in Byte
    BY <2>1
  <2> QED BY <2>1, <2>2, ByteType
<1> QED BY <1>3, <1>4, <1>5, <1>6 DEF Finite

LEMMA MessagesType ==
  ASSUME NEW s \in Seq(Byte)
  PROVE  /\ Messages(s) \in Seq(Msg) /\ Len(Messages(s)) = Cardinality(Ends(s))
         /\ \A e \in Ends(s) : Rank(Ends(s), e) \in 1..Cardinality(Ends(s))
         /\ \A e \in Ends(s) : Messages(s)[Rank(Ends(s), e)] = s[e].m
<1> DEFINE E == Ends(s)
           c == Cardinality(E)
<1>1. Finite(E) /\ c \in Nat /\ \A e \in E : s[e].m \in Msg
  BY EndsFinite
<1>2. \A n \in 1..c : Nth(E, n) \in E /\ Rank(E, Nth(E, n)) = n
  BY <1>1, NthType
<1>3. Messages(s) = [n \in 1..c |-> s[Nth(E, n)].m]
  BY DEF Messages
<1>4. \A e \in E : Rank(E, e) \in 1..c
  BY <1>1, RankType
<1> HIDE DEF c, E
<1>5. Messages(s) \in Seq(Msg) /\ Len(Messages(s)) = c
  BY <1>1, <1>2, <1>3
<1>6. ASSUME NEW e \in E PROVE Messages(s)[Rank(E, e)] = s[e].m
  <2>1. Nth(E, Rank(E, e)) \in E /\ Rank(E, Nth(E, Rank(E, e))) = Rank(E, e)
    BY <1>2, <1>4
  <2>2. e \in Nat /\ Nth(E, Rank(E, e)) \in Nat
    BY <1>1, <2>1 DEF Finite
  <2>3. ~(e < Nth(E, Rank(E, e))) /\ ~(Nth(E, Rank(E, e)) < e)
    BY <1>1, <2>1, RankOrder
  <2>4. Nth(E, Rank(E, e)) = e
    BY <2>2, <2>3
  <2> QED BY <1>3, <1>4, <2>4
<1> QED BY <1>4, <1>5, <1>6 DEF c, E

\* A sequence with the messages at the ranks of their ends is the sequence of
\* the messages.
LEMMA MessagesAre ==
  ASSUME NEW s \in Seq(Byte), NEW q \in Seq(Msg), Len(q) = Cardinality(Ends(s)),
         \A e \in Ends(s) : q[Rank(Ends(s), e)] = s[e].m
  PROVE  Messages(s) = q
<1> DEFINE E == Ends(s)
           c == Cardinality(E)
<1>1. Finite(E) /\ c \in Nat
  BY EndsFinite
<1>2. \A n \in 1..c : Nth(E, n) \in E /\ Rank(E, Nth(E, n)) = n
  BY <1>1, NthType
<1>3. Messages(s) = [n \in 1..c |-> s[Nth(E, n)].m] /\ Messages(s) \in Seq(Msg) /\ Len(Messages(s)) = c
  BY MessagesType DEF Messages
<1> HIDE DEF c
<1>4. ASSUME NEW n \in 1..c PROVE Messages(s)[n] = q[n]
  BY <1>2, <1>3
<1>5. Len(q) = c
  BY DEF c
<1> HIDE DEF E
<1> QED BY <1>1, <1>3, <1>4, <1>5

----------------------------------------------------------------------------
\* What sending, losing and removing bytes does to the messages.

LEMMA MessagesEmit ==
  ASSUME NEW s \in Seq(Byte), NEW m \in Msg
  PROVE  Messages(s \o Encode(m)) = Append(Messages(s), m)
<1> DEFINE t == Encode(m)
           a == s \o t
           l == HEADER_SIZE + m.len
           E == Ends(s)
           k == Len(s) + l
           F == E \cup {k}
<1>1. l \in Nat /\ l > 0 /\ HEADER_SIZE \in Nat /\ m.len \in Nat
  BY PSCStreamAssumption
<1>2. t \in Seq(Byte) /\ Len(t) = l /\ \A i \in 1..l : t[i].m = m /\ t[i].k = i
  BY EncodeType
<1> HIDE DEF t
<1>3. /\ a \in Seq(Byte) /\ Len(a) = k /\ Len(s) \in Nat
      /\ \A i \in 1..Len(s) : a[i] = s[i]
      /\ \A i \in 1..l : a[i + Len(s)] = t[i]
  BY <1>2, Joined
<1> HIDE DEF a
<1>4. ASSUME NEW i \in 1..l PROVE a[i + Len(s)].m = m /\ a[i + Len(s)].k = i
  BY <1>2, <1>3
<1>5. Ends(a) = F
  <2>1. ASSUME NEW i \in Ends(a) PROVE i \in F
    <3>1. i \in 1..Len(a) /\ a[i].k = HEADER_SIZE + a[i].m.len
      BY DEF Ends
    <3>2. CASE i <= Len(s)
      <4>1. i \in 1..Len(s) /\ a[i] = s[i]
        BY <1>3, <3>1, <3>2
      <4> QED BY <3>1, <4>1 DEF Ends
    <3>3. CASE i > Len(s)
      <4>1. i - Len(s) \in 1..l /\ i = (i - Len(s)) + Len(s)
        BY <1>1, <1>3, <3>1, <3>3
      <4>2. a[i].m = m /\ a[i].k = i - Len(s)
        BY <1>4, <4>1
      <4>3. i = k
        BY <1>1, <1>3, <3>1, <4>1, <4>2
      <4> QED BY <4>3
    <3> QED BY <1>3, <3>1, <3>2, <3>3
  <2>2. ASSUME NEW i \in E PROVE i \in Ends(a)
    <3>1. i \in 1..Len(s) /\ s[i].k = HEADER_SIZE + s[i].m.len
      BY DEF Ends
    <3>2. i \in 1..Len(a) /\ a[i] = s[i]
      BY <1>1, <1>3, <3>1
    <3> QED BY <3>1, <3>2 DEF Ends
  <2>3. k \in Ends(a)
    <3>1. l \in 1..l /\ k = l + Len(s) /\ k \in 1..Len(a)
      BY <1>1, <1>3
    <3>2. a[k].m = m /\ a[k].k = l
      BY <1>4, <3>1
    <3> QED BY <3>1, <3>2 DEF Ends
  <2> HIDE DEF E, k
  <2> QED BY <2>1, <2>2, <2>3
<1>6. Finite(E) /\ Cardinality(E) \in Nat /\ \A e \in E : e \in 1..Len(s)
  BY EndsFinite
<1>7. k \in Nat /\ k > Len(s)
  BY <1>1, <1>3
<1> HIDE DEF E, k
<1>8. k \notin E
  BY <1>3, <1>6, <1>7
<1>9. Cardinality(F) = Cardinality(E) + 1
  BY <1>6, <1>8, FS_AddElement DEF Finite
<1>10. \A e \in E : e \in Nat /\ e <= k /\ ~(k <= e)
  BY <1>3, <1>6, <1>7
<1>11. ASSUME NEW e \in E PROVE Rank(F, e) = Rank(E, e)
  <2>1. {i \in F : i <= e} = {i \in E : i <= e}
    BY <1>10
  <2> QED BY <2>1, Zenon DEF Rank
<1>12. Rank(F, k) = Cardinality(E) + 1
  <2>1. {i \in F : i <= k} = F
    BY <1>7, <1>10
  <2> QED BY <1>9, <2>1, Zenon DEF Rank
<1> DEFINE q == Append(Messages(s), m)
<1>13. /\ Messages(s) \in Seq(Msg) /\ Len(Messages(s)) = Cardinality(E)
       /\ \A e \in E : Rank(E, e) \in 1..Cardinality(E) /\ Messages(s)[Rank(E, e)] = s[e].m
  BY MessagesType DEF E
<1>14. /\ q \in Seq(Msg) /\ Len(q) = Cardinality(E) + 1 /\ q[Cardinality(E) + 1] = m
       /\ \A n \in 1..Cardinality(E) : q[n] = Messages(s)[n]
  BY <1>13
<1> HIDE DEF q
<1>15. ASSUME NEW e \in Ends(a) PROVE q[Rank(Ends(a), e)] = a[e].m
  <2>1. CASE e \in E
    <3>1. Rank(Ends(a), e) = Rank(E, e) /\ Rank(E, e) \in 1..Cardinality(E)
      BY <1>5, <1>11, <1>13, <2>1
    <3>2. q[Rank(Ends(a), e)] = s[e].m
      BY <1>13, <1>14, <2>1, <3>1
    <3>3. a[e] = s[e]
      BY <1>3, <1>6, <2>1
    <3> QED BY <3>2, <3>3
  <2>2. CASE e = k
    <3>1. Rank(Ends(a), e) = Cardinality(E) + 1
      BY <1>5, <1>12, <2>2
    <3>2. l \in 1..l /\ k = l + Len(s)
      BY <1>1, <1>3 DEF k
    <3>3. a[k].m = m
      BY <1>4, <3>2
    <3> QED BY <1>14, <2>2, <3>1, <3>3
  <2> QED BY <1>5, <2>1, <2>2
<1>16. Len(q) = Cardinality(Ends(a))
  BY <1>5, <1>9, <1>14
<1>17. Messages(a) = q
  BY <1>3, <1>14, <1>15, <1>16, MessagesAre
<1> QED BY <1>17 DEF a, t, q

\* A prefix has the first of the messages.
LEMMA MessagesPrefix ==
  ASSUME NEW s \in Seq(Byte), NEW t \in Seq(Byte), Len(t) <= Len(s),
         \A i \in 1..Len(t) : t[i] = s[i]
  PROVE  \E n \in 0..Len(Messages(s)) : Messages(t) = SubSeq(Messages(s), 1, n)
<1> DEFINE E == Ends(s)
           F == Ends(t)
           c == Cardinality(F)
           q == SubSeq(Messages(s), 1, c)
<1>1. F = {e \in E : e <= Len(t)}
  BY DEF Ends
<1>2. Finite(E) /\ Cardinality(E) \in Nat /\ Finite(F) /\ c \in Nat
  BY EndsFinite
<1> HIDE DEF E, F
<1>3. c <= Cardinality(E)
  <2>1. F \in SUBSET E
    BY <1>1
  <2> QED BY <1>2, <2>1, FS_Subset DEF Finite
<1>4. /\ Messages(s) \in Seq(Msg) /\ Len(Messages(s)) = Cardinality(E)
      /\ \A e \in E : Messages(s)[Rank(E, e)] = s[e].m
  BY MessagesType DEF E
<1>5. ASSUME NEW e \in F PROVE Rank(F, e) = Rank(E, e) /\ Rank(F, e) \in 1..c
  <2>1. e \in Nat /\ e <= Len(t) /\ Len(t) \in Nat /\ \A i \in E : i \in Nat
    BY <1>1, <1>2 DEF Finite
  <2>2. {i \in F : i <= e} = {i \in E : i <= e}
    <3>1. \A i \in E : i <= e => i <= Len(t)
      BY <2>1
    <3> QED BY <1>1, <3>1, Zenon
  <2>3. Rank(F, e) = Rank(E, e)
    BY <2>2, Zenon DEF Rank
  <2> QED BY <1>2, <2>3, RankType
<1>6. c \in 0..Len(Messages(s))
  BY <1>2, <1>3, <1>4
<1> HIDE DEF c
<1>7. q \in Seq(Msg) /\ Len(q) = c /\ \A n \in 1..c : q[n] = Messages(s)[n]
  BY <1>4, <1>6
<1> HIDE DEF q
<1>8. ASSUME NEW e \in F PROVE q[Rank(F, e)] = t[e].m
  <2>1. q[Rank(F, e)] = Messages(s)[Rank(E, e)]
    BY <1>5, <1>7
  <2>2. e \in E /\ t[e] = s[e]
    <3>1. e \in 1..Len(t)
      BY EndsFinite DEF F
    <3> QED BY <1>1, <3>1
  <2> QED BY <1>4, <2>1, <2>2
<1>9. Messages(t) = q
  BY <1>7, <1>8, MessagesAre DEF F, c
<1> QED BY <1>6, <1>9 DEF q

\* Numbers less d: as many, with the same ranks.
LEMMA ShiftedCardinality ==
  ASSUME NEW S, Finite(S), NEW T \in SUBSET Nat, NEW d \in Nat,
         \A i \in T : i + d \in S, \A i \in S : i >= d /\ i - d \in T
  PROVE  Finite(T) /\ Cardinality(T) = Cardinality(S)
<1> DEFINE f == [i \in S |-> i - d]
<1>1. \A i \in S : i \in Nat
  BY DEF Finite
<1>2. f \in [S -> T]
  OBVIOUS
<1>3. \A i, j \in S : f[i] = f[j] => i = j
  BY <1>1
<1>4. \A i \in T : \E j \in S : f[j] = i
  <2> SUFFICES ASSUME NEW i \in T PROVE \E j \in S : f[j] = i
    OBVIOUS
  <2>1. i + d \in S /\ f[i + d] = (i + d) - d /\ (i + d) - d = i
    OBVIOUS
  <2> QED BY <2>1
<1> HIDE DEF f
<1>5. f \in Bijection(S, T)
  BY <1>2, <1>3, <1>4 DEF Bijection, Injection, IsInjective, Surjection
<1>6. ExistsBijection(S, T)
  BY <1>5 DEF ExistsBijection
<1> QED BY <1>6, FS_Bijection DEF Finite

LEMMA ShiftedRank ==
  ASSUME NEW S, Finite(S), NEW T \in SUBSET Nat, NEW d \in Nat,
         \A i \in T : i + d \in S, \A i \in S : i >= d /\ i - d \in T, NEW e \in T
  PROVE  Rank(T, e) = Rank(S, e + d)
<1> DEFINE U == {i \in S : i <= e + d}
           V == {i \in T : i <= e}
<1>1. Finite(U)
  <2>1. IsFiniteSet(U)
    BY RankType
  <2> QED BY <2>1 DEF Finite
<1>2. V \in SUBSET Nat
  OBVIOUS
<1>3. \A i \in V : i + d \in U
  OBVIOUS
<1>4. \A i \in U : i >= d /\ i - d \in V
  <2>1. \A i \in S : i \in Nat
    BY DEF Finite
  <2> QED BY <2>1
<1> HIDE DEF U, V
<1>5. Cardinality(V) = Cardinality(U)
  BY <1>1, <1>2, <1>3, <1>4, ShiftedCardinality
<1> QED BY <1>5 DEF U, V, Rank

\* Bytes before the first end may go ...
LEMMA MessagesKept ==
  ASSUME NEW s \in Seq(Byte), NEW d \in 0..Len(s),
         NEW t \in Seq(Byte), Len(t) = Len(s) - d, \A i \in 1..Len(t) : t[i] = s[i + d],
         \A e \in Ends(s) : e > d
  PROVE  Messages(t) = Messages(s)
<1> DEFINE E == Ends(s)
           F == Ends(t)
<1>1. /\ Finite(E) /\ \A e \in E : e \in 1..Len(s)
      /\ Finite(F) /\ \A e \in F : e \in 1..Len(t)
  BY EndsFinite
<1>2. \A i \in F : i + d \in E
  BY DEF Ends
<1>3. \A i \in E : i >= d /\ i - d \in F
  <2> SUFFICES ASSUME NEW i \in E PROVE i >= d /\ i - d \in F
    OBVIOUS
  <2>1. i - d \in 1..Len(t) /\ i = (i - d) + d /\ i >= d
    BY <1>1
  <2>2. t[i - d] = s[i] /\ s[i].k = HEADER_SIZE + s[i].m.len
    BY <2>1 DEF Ends
  <2> QED BY <2>1, <2>2 DEF Ends
<1>4. F \in SUBSET Nat /\ d \in Nat
  BY <1>1
<1> HIDE DEF E, F
<1>5. Cardinality(F) = Cardinality(E)
  BY <1>1, <1>2, <1>3, <1>4, ShiftedCardinality
<1>6. \A e \in F : Rank(F, e) = Rank(E, e + d)
  BY <1>1, <1>2, <1>3, <1>4, ShiftedRank
<1>7. /\ Messages(s) \in Seq(Msg) /\ Len(Messages(s)) = Cardinality(E)
      /\ \A e \in E : Messages(s)[Rank(E, e)] = s[e].m
  BY MessagesType DEF E
<1>8. ASSUME NEW e \in F PROVE Messages(s)[Rank(F, e)] = t[e].m
  BY <1>1, <1>2, <1>6, <1>7
<1> QED BY <1>5, <1>7, <1>8, MessagesAre DEF F

\* ... and the first message goes with its end.
LEMMA MessagesTaken ==
  ASSUME NEW s \in Seq(Byte), NEW d \in 1..Len(s),
         NEW t \in Seq(Byte), Len(t) = Len(s) - d, \A i \in 1..Len(t) : t[i] = s[i + d],
         d \in Ends(s), \A e \in Ends(s) : e >= d
  PROVE  /\ Messages(s) # <<>> /\ Head(Messages(s)) = s[d].m
         /\ Messages(t) = Tail(Messages(s))
<1> DEFINE E == Ends(s)
           G == Ends(s) \ {d}
           F == Ends(t)
           q == Tail(Messages(s))
<1>1. /\ Finite(E) /\ (\A e \in E : e \in 1..Len(s)) /\ Cardinality(E) \in Nat
      /\ Finite(F) /\ (\A e \in F : e \in 1..Len(t)) /\ Cardinality(F) \in Nat
  BY EndsFinite
<1>2. \A i \in F : i + d \in G
  <2> SUFFICES ASSUME NEW i \in F PROVE i + d \in G
    OBVIOUS
  <2>1. i \in 1..Len(t) /\ i + d \in 1..Len(s) /\ i + d # d /\ t[i] = s[i + d]
    BY <1>1
  <2> QED BY <2>1 DEF Ends
<1>3. \A i \in G : i >= d /\ i - d \in F
  <2> SUFFICES ASSUME NEW i \in G PROVE i >= d /\ i - d \in F
    OBVIOUS
  <2>1. i - d \in 1..Len(t) /\ i = (i - d) + d /\ i >= d
    BY <1>1
  <2>2. t[i - d] = s[i] /\ s[i].k = HEADER_SIZE + s[i].m.len
    BY <2>1 DEF Ends
  <2> QED BY <2>1, <2>2 DEF Ends
<1>4. F \in SUBSET Nat /\ d \in Nat /\ d \in E
  <2>1. F \in SUBSET Nat
    BY <1>1, Zenon DEF Finite
  <2>2. d \in Nat
    OBVIOUS
  <2>3. d \in E
    OBVIOUS
  <2> QED BY <2>1, <2>2, <2>3
<1>5. Finite(G) /\ Cardinality(G) = Cardinality(E) - 1
  BY <1>1, <1>4, FS_RemoveElement DEF Finite
<1>6. \A e \in E : e \in Nat /\ d <= e
  BY <1>1
<1>7. G = E \ {d}
  OBVIOUS
<1> HIDE DEF E, F, G
<1>8. Cardinality(F) = Cardinality(G)
  BY <1>2, <1>3, <1>4, <1>5, ShiftedCardinality
<1>9. \A e \in F : Rank(F, e) = Rank(G, e + d)
  BY <1>2, <1>3, <1>4, <1>5, ShiftedRank
<1>10. ASSUME NEW e \in G PROVE Rank(G, e) = Rank(E, e) - 1
  <2> DEFINE A == {i \in E : i <= e}
             B == {i \in G : i <= e}
  <2>1. B = A \ {d} /\ d \in A
    BY <1>4, <1>6, <1>7, <1>10
  <2>2. IsFiniteSet(A)
    BY <1>1, <1>7, RankType
  <2> HIDE DEF A, B
  <2>3. Cardinality(B) = Cardinality(A) - 1
    BY <2>1, <2>2, FS_RemoveElement
  <2> QED BY <2>3 DEF A, B, Rank
<1>11. Rank(E, d) = 1
  <2>0. \A i \in E : i <= d <=> i = d
    BY <1>4, <1>6
  <2>1. {i \in E : i <= d} = {d}
    BY <1>4, <2>0, Zenon
  <2> QED BY <2>1, FS_Singleton DEF Rank
<1>12. /\ Messages(s) \in Seq(Msg) /\ Len(Messages(s)) = Cardinality(E)
       /\ \A e \in E : Messages(s)[Rank(E, e)] = s[e].m
       /\ \A e \in E : Rank(E, e) \in 1..Cardinality(E)
  BY MessagesType DEF E
<1>13. Messages(s)[1] = s[d].m /\ 1 \in 1..Cardinality(E)
  BY <1>4, <1>11, <1>12
<1>14. Messages(s) # <<>> /\ Head(Messages(s)) = s[d].m
  BY <1>12, <1>13
<1>15. /\ q \in Seq(Msg) /\ Len(q) = Cardinality(E) - 1
       /\ \A n \in 1..(Cardinality(E) - 1) : q[n] = Messages(s)[n + 1]
  BY <1>1, <1>12, <1>13, <1>14
<1> HIDE DEF q
<1>16. ASSUME NEW e \in F PROVE q[Rank(F, e)] = t[e].m
  <2>1. e + d \in G /\ e + d \in E
    BY <1>2, <1>7
  <2>2. Rank(F, e) = Rank(E, e + d) - 1
    BY <1>9, <1>10, <2>1
  <2>3. Rank(F, e) \in 1..Cardinality(F)
    BY <1>1, RankType
  <2>4. Rank(F, e) \in 1..(Cardinality(E) - 1)
    BY <1>5, <1>8, <2>3
  <2>5. q[Rank(F, e)] = Messages(s)[Rank(F, e) + 1]
    BY <1>15, <2>4
  <2>6. Rank(F, e) + 1 = Rank(E, e + d)
    <3>1. Rank(E, e + d) \in 1..Cardinality(E)
      BY <1>12, <2>1
    <3> QED BY <1>1, <2>2, <3>1
  <2>7. t[e] = s[e + d]
    BY <1>1
  <2> QED BY <1>12, <2>1, <2>5, <2>6, <2>7
<1>17. Len(q) = Cardinality(F)
  BY <1>5, <1>8, <1>15
<1>18. Messages(t) = q
  BY <1>15, <1>16, <1>17, MessagesAre DEF F
<1> QED BY <1>14, <1>18 DEF q

\* The first end is the one of the first byte's message.
LEMMA FirstEnd ==
  ASSUME NEW p \in Seq(Byte), Pieces(p), p # <<>>
  PROVE  /\ \A e \in Ends(p) : e >= 1 + Left(p[1])
         /\ 1 + Left(p[1]) <= Len(p) =>
              1 + Left(p[1]) \in Ends(p) /\ p[1 + Left(p[1])].m = p[1].m
<1>1. 1 \in 1..Len(p) /\ p[1] \in Byte /\ Len(p) \in Nat
  OBVIOUS
<1>2. /\ p[1].m.len \in Nat /\ p[1].k \in Nat /\ Left(p[1]) \in Int
      /\ Left(p[1]) = HEADER_SIZE + p[1].m.len - p[1].k /\ HEADER_SIZE \in Nat
  BY <1>1, ByteType, PSCStreamAssumption DEF Left
<1>3. Left(p[1]) >= 0
  <2>1. p[1].k \in 1..(HEADER_SIZE + p[1].m.len)
    BY <1>1 DEF Pieces, Sound
  <2> QED BY <1>2, <2>1
<1>4. ASSUME NEW j \in 1..Len(p), j - 1 <= Left(p[1])
      PROVE  p[j].m = p[1].m /\ p[j].k = p[1].k + (j - 1)
  BY <1>1, <1>4 DEF Pieces, Flow
<1>5. ASSUME NEW e \in Ends(p) PROVE e >= 1 + Left(p[1])
  <2>1. e \in 1..Len(p) /\ p[e].k = HEADER_SIZE + p[e].m.len
    BY DEF Ends
  <2>2. CASE e - 1 <= Left(p[1])
    <3>1. p[e].m = p[1].m /\ p[e].k = p[1].k + (e - 1)
      BY <1>4, <2>1, <2>2
    <3>2. p[1].k + (e - 1) = HEADER_SIZE + p[1].m.len
      BY <2>1, <3>1
    <3> QED BY <1>2, <2>1, <3>2
  <2> QED BY <1>2, <2>1, <2>2
<1>6. ASSUME 1 + Left(p[1]) <= Len(p)
      PROVE  1 + Left(p[1]) \in Ends(p) /\ p[1 + Left(p[1])].m = p[1].m
  <2> DEFINE j == 1 + Left(p[1])
  <2>1. j \in 1..Len(p) /\ j - 1 = Left(p[1]) /\ j - 1 <= Left(p[1])
    BY <1>1, <1>2, <1>3, <1>6
  <2> HIDE DEF j
  <2>2. p[j].m = p[1].m /\ p[j].k = p[1].k + (j - 1)
    BY <1>4, <2>1
  <2>3. p[j].k = HEADER_SIZE + p[j].m.len
    BY <1>2, <2>1, <2>2
  <2> QED BY <2>1, <2>2, <2>3 DEF Ends, j
<1> QED BY <1>5, <1>6

----------------------------------------------------------------------------
\* PSCStream implements MsgStream.

\* The body that is expected is the one of a message with magic bytes, for the
\* block of its ID, if there is one.
Announced ==
  have_head /\ Pending # <<>> =>
    /\ Pending[1].m.magic
    /\ bodyblock = IF Pending[1].m.id \in Blocks THEN Pending[1].m.id ELSE None

\* Types of what MsgStream sees besides.
Counted == closed \in BOOLEAN /\ scans = [b \in Blocks |-> scans[b]]

LEMMA NextCounted == Counted /\ [Next]_vars => Counted'
<1> SUFFICES ASSUME Counted, [Next]_vars PROVE Counted'
  OBVIOUS
<1>1. CASE UNCHANGED <<closed, scans>>
  BY <1>1 DEF Counted
<1>2. CASE decodeBody
  BY <1>2 DEF decodeBody, dev, Counted
<1>3. CASE closed' \in BOOLEAN /\ scans' = scans
  BY <1>3, Zenon DEF Counted
<1>4. UNCHANGED <<closed, scans>> \/ decodeBody \/ (closed' \in BOOLEAN /\ scans' = scans)
  BY DEF Next, EventLoop, vars, dev, Emit, Close, connect, eventcb_connected, eventcb_eof,
         eventcb_error, start_reconnect, SocketRead, recvdata, decodeHeader, framingError, recvdone
<1> QED
  BY <1>1, <1>2, <1>3, <1>4

LEMMA NextAnnounced == IInv /\ Announced /\ [Next]_vars => Announced'
<1> SUFFICES ASSUME IInv, Announced, [Next]_vars, have_head', Pending' # <<>>
             PROVE  /\ Pending'[1].m.magic
                    /\ bodyblock' = IF Pending'[1].m.id \in Blocks THEN Pending'[1].m.id ELSE None
  BY DEF Announced
<1> DEFINE Goal == /\ Pending'[1].m.magic
                   /\ bodyblock' = IF Pending'[1].m.id \in Blocks THEN Pending'[1].m.id ELSE None
<1>1. ASSUME Pending # <<>>, Pending'[1] = Pending[1], UNCHANGED decoder PROVE Goal
  BY <1>1 DEF Announced, decoder
<1>2. ASSUME NEW m \in Msg, Emit(m) PROVE Goal
  <2>1. session = "up" /\ ~closed /\ UNCHANGED decoder
    BY <1>2 DEF Emit
  <2>2. Pending # <<>> /\ Complete(Pending) /\ Pieces(Pending)
    BY <2>1 DEF IInv, Whole, decoder
  <2>3. Pending' = Pending \o Encode(m) /\ Pending \in Seq(Byte)
    BY <1>2, EmitPending
  <2>4. (Pending \o Encode(m))[1] = Pending[1]
    BY <2>2, <2>3, EmitPieces
  <2>5. Pending'[1] = Pending[1]
    BY <2>3, <2>4, Zenon
  <2> QED BY <1>1, <2>1, <2>2, <2>5
<1>3. CASE Close
  <2>1. Pending # <<>> /\ Pending'[1] = Pending[1]
    BY <1>3, ClosePending
  <2> QED BY <1>1, <1>3, <2>1 DEF Close
<1>4. CASE connect
  BY <1>4 DEF connect
<1>5. CASE eventcb_connected
  BY <1>5 DEF eventcb_connected, decoder, IInv, Idle
<1>6. CASE eventcb_eof \/ eventcb_error \/ framingError
  <2>1. Pending' = <<>>
    BY <1>6, NoPieces DEF eventcb_eof, eventcb_error, framingError, start_reconnect, Pending
  <2> QED BY <2>1
<1>7. ASSUME NEW n \in 1..Len(net), SocketRead(n) PROVE Goal
  <2>1. /\ UNCHANGED decoder
        /\ inbuf' = inbuf \o SubSeq(net, 1, n) /\ net' = SubSeq(net, n + 1, Len(net))
    BY <1>7 DEF SocketRead
  <2>2. inbuf \in Seq(Byte) /\ net \in Seq(Byte)
    BY DEF IInv, Types
  <2>3. Pending' = Pending
    BY <2>1, <2>2, ReadUnread DEF Pending
  <2> QED BY <1>1, <2>1, <2>3
<1>8. CASE recvdata \/ recvdone \/ UNCHANGED vars
  <2>1. UNCHANGED <<inbuf, net, decoder>>
    BY <1>8 DEF recvdata, recvdone, vars, dev
  <2>2. Pending' = Pending
    BY <2>1 DEF Pending
  <2> QED BY <1>1, <2>1, <2>2
<1>9. CASE decodeBody
  BY <1>9 DEF decodeBody
<1>10. CASE decodeHeader
  <2> DEFINE h == Pending[1].m
  <2>1. /\ inRecv /\ ~have_head /\ Len(inbuf) >= expect /\ net' = net
        /\ inbuf' = SubSeq(inbuf, HEADER_SIZE + 1, Len(inbuf))
    BY <1>10 DEF decodeHeader, dev
  <2>2. HEADER_SIZE \in 1..Len(inbuf) /\ HEADER_SIZE \in Nat
    BY <2>1, PSCStreamAssumption DEF IInv, Types, Expects
  <2>3. /\ Pending # <<>> /\ Pending \in Seq(Byte) /\ Pieces(Pending)
        /\ HEADER_SIZE + 1 \in 1..Len(Pending) /\ Pending'[1] = Pending[HEADER_SIZE + 1]
    BY <2>1, <2>2, DropPieces DEF IInv
  <2>4. inbuf[1] = Pending[1] /\ Pending[1] \in Byte /\ 1 \in 1..Len(Pending)
    <3>1. inbuf \in Seq(Byte) /\ net \in Seq(Byte) /\ 1 \in 1..Len(inbuf)
      BY <2>2 DEF IInv, Types
    <3> QED BY <2>3, <3>1, Joined DEF Pending
  <2>5. /\ h.magic /\ have_head' = (h.len > 0)
        /\ bodyblock' = IF h.id \in Blocks /\ h.len > 0 THEN h.id ELSE None
    BY <1>10, <2>4 DEF decodeHeader
  <2>6. h.len > 0
    BY <2>5
  <2>7. h.len \in Nat /\ Pending[1].k = 1
    BY <2>1, <2>3, <2>4, ByteType DEF IInv, First
  <2>8. 1 <= HEADER_SIZE + 1 /\ (HEADER_SIZE + 1) - 1 <= Left(Pending[1])
    BY <2>2, <2>6, <2>7 DEF Left
  <2>9. Pending[HEADER_SIZE + 1].m = h
    BY <2>3, <2>4, <2>8 DEF Pieces, Flow
  <2> QED BY <2>3, <2>5, <2>6, <2>9
<1> QED BY <1>2, <1>3, <1>4, <1>5, <1>6, <1>7, <1>8, <1>9, <1>10 DEF Next, EventLoop

\* Steps that MsgStream does not see.
LEMMA Unseen ==
  ASSUME (session = "up") <=> (session' = "up"), Pending' = Pending, UNCHANGED <<closed, data, scans>>
  PROVE  UNCHANGED Abs!vars
<1>1. Unread' = Unread
  BY DEF Unread, Pending
<1>2. [b \in Blocks |-> Held(b)]' = [b \in Blocks |-> Held(b)]
  BY DEF Held
<1> QED BY <1>1, <1>2 DEF Abs!vars

LEMMA NoMessages == Messages(<<>>) = <<>>
<1>1. Ends(<<>>) = {}
  BY DEF Ends
<1>2. Cardinality(Ends(<<>>)) = 0
  BY <1>1, FS_EmptySet
<1> QED BY <1>2 DEF Messages

\* The end of a connection.
LEMMA LoseStep ==
  ASSUME session = "up", start_reconnect
  PROVE  Abs!Lose
<1>1. session' = "none" /\ closed' = FALSE /\ Pending' = <<>> /\ UNCHANGED <<data, scans>>
  BY NoPieces DEF start_reconnect, Pending
<1>2. Unread' = <<>>
  BY <1>1, NoMessages DEF Unread, Pending
<1>3. [b \in Blocks |-> Held(b)]' = [b \in Blocks |-> Held(b)]
  BY <1>1 DEF Held
<1> QED BY <1>1, <1>2, <1>3 DEF Abs!Lose

LEMMA EmitStep ==
  ASSUME IInv, NEW m \in Msg, Emit(m)
  PROVE  Abs!Emit(m)
<1>1. session = "up" /\ ~closed /\ UNCHANGED <<session, closed, data, scans>>
  BY DEF Emit
<1>2. Pending' = Pending \o Encode(m) /\ Pending \in Seq(Byte)
  BY EmitPending
<1>3. Messages(Pending \o Encode(m)) = Append(Messages(Pending), m)
  BY <1>2, MessagesEmit
<1>4. Unread' = Append(Unread, m)
  BY <1>2, <1>3, Zenon DEF Unread, Pending
<1>5. [b \in Blocks |-> Held(b)]' = [b \in Blocks |-> Held(b)]
  BY <1>1 DEF Held
<1> QED BY <1>1, <1>4, <1>5 DEF Abs!Emit

LEMMA CloseStep ==
  ASSUME IInv, Close
  PROVE  Abs!Close
<1>1. session = "up" /\ ~closed /\ closed' = TRUE /\ UNCHANGED <<session, data, scans>>
  BY DEF Close
<1>2. /\ Pending \in Seq(Byte) /\ Pending' \in Seq(Byte) /\ Len(Pending') <= Len(Pending)
      /\ \A i \in 1..Len(Pending') : Pending'[i] = Pending[i]
  BY ClosePending
<1>3. \E n \in 0..Len(Messages(Pending)) : Messages(Pending') = SubSeq(Messages(Pending), 1, n)
  BY <1>2, MessagesPrefix
<1>4. \E n \in 0..Len(Unread) : Unread' = SubSeq(Unread, 1, n)
  BY <1>3, Zenon DEF Unread, Pending
<1>5. [b \in Blocks |-> Held(b)]' = [b \in Blocks |-> Held(b)]
  BY <1>1 DEF Held
<1> QED BY <1>1, <1>4, <1>5 DEF Abs!Close

\* recvdata() removes the last d bytes of a message: MsgStream handles it.
LEMMA TakeMessage ==
  ASSUME IInv, NEW d \in 1..Len(inbuf), inbuf' = SubSeq(inbuf, d + 1, Len(inbuf)), net' = net,
         d = 1 + Left(Pending[1])
  PROVE  /\ Unread # <<>> /\ Head(Unread) = Pending[1].m /\ Unread' = Tail(Unread)
<1>1. /\ Pending # <<>> /\ Pending \in Seq(Byte) /\ d \in 1..Len(Pending) /\ Pieces(Pending)
      /\ Pending' \in Seq(Byte) /\ Len(Pending') = Len(Pending) - d
      /\ \A i \in 1..Len(Pending') : Pending'[i] = Pending[i + d]
  BY DropPieces DEF IInv
<1>2. d <= Len(Pending)
  BY <1>1
<1>3. /\ \A e \in Ends(Pending) : e >= d
      /\ d \in Ends(Pending) /\ Pending[d].m = Pending[1].m
  BY <1>1, <1>2, FirstEnd
<1>4. /\ Messages(Pending) # <<>> /\ Head(Messages(Pending)) = Pending[d].m
      /\ Messages(Pending') = Tail(Messages(Pending))
  BY <1>1, <1>3, MessagesTaken
<1> QED BY <1>3, <1>4, Zenon DEF Unread, Pending

LEMMA HeaderStep ==
  ASSUME IInv, Counted, decodeHeader
  PROVE  Abs!Handle \/ UNCHANGED Abs!vars
<1> DEFINE h == Pending[1].m
<1>1. /\ inRecv /\ ~have_head /\ Len(inbuf) >= expect /\ net' = net /\ session = "up"
      /\ inbuf' = SubSeq(inbuf, HEADER_SIZE + 1, Len(inbuf))
      /\ UNCHANGED <<session, closed, data, scans>>
  BY DEF decodeHeader, dev, IInv, Idle
<1>2. HEADER_SIZE \in 1..Len(inbuf) /\ HEADER_SIZE \in Nat
  BY <1>1, PSCStreamAssumption DEF IInv, Types, Expects
<1>3. /\ Pending # <<>> /\ Pending \in Seq(Byte) /\ Pieces(Pending)
      /\ HEADER_SIZE \in 1..Len(Pending)
      /\ Pending' \in Seq(Byte) /\ Len(Pending') = Len(Pending) - HEADER_SIZE
      /\ \A i \in 1..Len(Pending') : Pending'[i] = Pending[i + HEADER_SIZE]
  BY <1>1, <1>2, DropPieces DEF IInv
<1>4. inbuf[1] = Pending[1] /\ Pending[1] \in Byte
  <2>1. inbuf \in Seq(Byte) /\ net \in Seq(Byte) /\ 1 \in 1..Len(inbuf)
    BY <1>2 DEF IInv, Types
  <2> QED BY <1>3, <2>1, Joined DEF Pending
<1>5. h.magic /\ h.len \in Nat /\ Pending[1].k = 1
  <2>1. h.magic
    BY <1>4 DEF decodeHeader
  <2>2. h.len \in Nat /\ Pending[1].k = 1
    BY <1>1, <1>3, <1>4, ByteType DEF IInv, First
  <2> QED BY <2>1, <2>2
<1>6. Left(Pending[1]) = HEADER_SIZE + h.len - 1
  BY <1>5 DEF Left
<1>7. [b \in Blocks |-> Held(b)]' = [b \in Blocks |-> Held(b)]
  BY <1>1 DEF Held
<1>8. CASE h.len > 0
  <2>1. \A e \in Ends(Pending) : e > HEADER_SIZE
    <3>1. \A e \in Ends(Pending) : e >= 1 + Left(Pending[1]) /\ e \in Nat
      BY <1>3, FirstEnd, EndsFinite DEF Finite
    <3> QED BY <1>2, <1>5, <1>6, <1>8, <3>1
  <2>2. Messages(Pending') = Messages(Pending)
    <3>1. HEADER_SIZE \in 0..Len(Pending)
      BY <1>3
    <3> QED BY <1>3, <2>1, <3>1, MessagesKept
  <2>3. Unread' = Unread
    BY <2>2, Zenon DEF Unread, Pending
  <2> QED BY <1>1, <1>7, <2>3 DEF Abs!vars
<1>9. CASE h.len = 0
  <2>1. HEADER_SIZE = 1 + Left(Pending[1])
    BY <1>2, <1>6, <1>9
  <2>2. Unread # <<>> /\ Head(Unread) = h /\ Unread' = Tail(Unread)
    BY <1>1, <1>2, <2>1, TakeMessage
  <2> DEFINE stored(b) == Head(Unread).id = b /\ FALSE
             D == [b \in Blocks |-> Held(b)]
  <2>3. \A b \in Blocks : ~stored(b)
    BY <1>9, <2>2
  <2>4. D' = [b \in Blocks |-> IF stored(b) THEN Head(Unread) ELSE D[b]]
    <3>1. \A b \in Blocks : (IF stored(b) THEN Head(Unread) ELSE D[b]) = Held(b)
      BY <2>3
    <3> QED BY <1>7, <3>1, Zenon
  <2>5. scans' = [b \in Blocks |-> IF stored(b) THEN scans[b] + 1 ELSE scans[b]]
    <3>1. scans = [b \in Blocks |-> scans[b]]
      BY DEF Counted
    <3> QED BY <1>1, <2>3, <3>1, Zenon
  <2>6. ~(Head(Unread) \in {m \in Msg : m.len > 0})
    BY <1>9, <2>2
  <2>7. \E noted \in BOOLEAN :
          LET kept(b) == Head(Unread).id = b /\ noted IN
          /\ Head(Unread) \in {m \in Msg : m.len > 0} => noted
          /\ D' = [b \in Blocks |-> IF kept(b) THEN Head(Unread) ELSE D[b]]
          /\ scans' = [b \in Blocks |-> IF kept(b) THEN scans[b] + 1 ELSE scans[b]]
    <3> WITNESS FALSE \in BOOLEAN
    <3> QED BY <2>4, <2>5, <2>6, Zenon
  <2>8. Abs!Handle
    BY <1>1, <1>5, <2>2, <2>7 DEF Abs!Handle
  <2> QED BY <2>8
<1> QED BY <1>5, <1>8, <1>9

LEMMA BodyStep ==
  ASSUME IInv, Announced, decodeBody
  PROVE  Abs!Handle
<1> DEFINE h == Pending[1].m
<1>1. /\ inRecv /\ have_head /\ expect = bodylen /\ Len(inbuf) >= bodylen /\ net' = net
      /\ session = "up" /\ inbuf' = SubSeq(inbuf, bodylen + 1, Len(inbuf)) /\ bodylen \in Nat \ {0}
      /\ UNCHANGED <<session, closed>>
  BY DEF decodeBody, dev, IInv, Idle, Expects
<1>2. bodylen \in 1..Len(inbuf)
  BY <1>1 DEF IInv, Types
<1>3. Pending # <<>>
  BY <1>1, <1>2, DropPieces
<1>4. h.len = bodylen /\ Pending[1].k = HEADER_SIZE + 1
  BY <1>1, <1>3 DEF IInv, First
<1>5. bodylen = 1 + Left(Pending[1])
  BY <1>1, <1>4, PSCStreamAssumption DEF Left
<1>6. Unread # <<>> /\ Head(Unread) = h /\ Unread' = Tail(Unread)
  BY <1>1, <1>2, <1>5, TakeMessage
<1>7. h.magic /\ bodyblock = IF h.id \in Blocks THEN h.id ELSE None
  BY <1>1, <1>3 DEF Announced
<1>8. SubSeq(inbuf, 1, bodylen) = Body(h) /\ h \in Msg
  BY StoredBody
<1>9. Body(h) \in Seq(Byte) /\ Len(Body(h)) = h.len /\ Body(h) # <<>> /\ Body(h)[1].m = h
  <2>1. /\ Body(h) \in Seq(Byte) /\ Len(Body(h)) = h.len
        /\ \A i \in 1..h.len : Body(h)[i].m = h
    BY <1>8, BodyType
  <2>2. 1 \in 1..h.len
    BY <1>1, <1>4
  <2> QED BY <2>1, <2>2
<1> DEFINE stored(b) == Head(Unread).id = b /\ TRUE
           D == [b \in Blocks |-> Held(b)]
<1>10. \A b \in Blocks : stored(b) <=> b = bodyblock
  <2>1. \A b \in Blocks : b # None
    BY PSCStreamAssumption
  <2>2. h.len > 0
    BY <1>1, <1>4
  <2> QED BY <1>6, <1>7, <2>1, <2>2
<1>11. /\ data' = [b \in Blocks |-> IF b = bodyblock THEN SubSeq(inbuf, 1, bodylen) ELSE data[b]]
       /\ scans' = [b \in Blocks |-> IF b = bodyblock THEN scans[b] + 1 ELSE scans[b]]
  BY DEF decodeBody
<1>12. ASSUME NEW b \in Blocks
       PROVE  Held(b)' = IF stored(b) THEN Head(Unread) ELSE D[b]
  <2>1. CASE b = bodyblock
    <3>1. data'[b] = Body(h)
      BY <1>8, <1>11, <2>1
    <3>2. Held(b)' = h
      BY <1>9, <3>1 DEF Held
    <3> QED BY <1>6, <1>10, <2>1, <3>2
  <2>2. CASE b # bodyblock
    <3>1. data'[b] = data[b]
      BY <1>11, <2>2
    <3>2. Held(b)' = Held(b)
      BY <3>1 DEF Held
    <3> QED BY <1>10, <2>2, <3>2
  <2> QED BY <2>1, <2>2
<1>13. D' = [b \in Blocks |-> IF stored(b) THEN Head(Unread) ELSE D[b]]
  BY <1>12, Zenon
<1>14. scans' = [b \in Blocks |-> IF stored(b) THEN scans[b] + 1 ELSE scans[b]]
  BY <1>10, <1>11, Zenon
<1>15. \E noted \in BOOLEAN :
         LET kept(b) == Head(Unread).id = b /\ noted IN
         /\ Head(Unread) \in {m \in Msg : m.len > 0} => noted
         /\ D' = [b \in Blocks |-> IF kept(b) THEN Head(Unread) ELSE D[b]]
         /\ scans' = [b \in Blocks |-> IF kept(b) THEN scans[b] + 1 ELSE scans[b]]
  <2> WITNESS TRUE \in BOOLEAN
  <2> QED BY <1>13, <1>14, Zenon
<1> QED BY <1>1, <1>6, <1>7, <1>15 DEF Abs!Handle

LEMMA NextStep ==
  ASSUME IInv, Counted, Announced, [Next]_vars
  PROVE  [Abs!Next]_(Abs!vars)
<1> USE DEF Abs!Next
<1>1. ASSUME NEW m \in Msg, Emit(m) PROVE Abs!Next
  BY <1>1, EmitStep
<1>2. CASE Close
  BY <1>2, CloseStep
<1>3. CASE connect
  <2>1. session = "none" /\ session' = "connecting" /\ UNCHANGED <<inbuf, net, closed, data, scans>>
    BY <1>3 DEF connect, dev
  <2> QED BY <2>1, Unseen DEF Pending
<1>4. CASE eventcb_connected
  <2>1. /\ session = "connecting" /\ session' = "up"
        /\ UNCHANGED <<inbuf, net, closed, data, scans>>
    BY <1>4 DEF eventcb_connected, dev
  <2>2. Unread' = Unread /\ [b \in Blocks |-> Held(b)]' = [b \in Blocks |-> Held(b)]
    BY <2>1 DEF Unread, Held
  <2>3. Abs!Open
    BY <2>1, <2>2 DEF Abs!Open
  <2> QED BY <2>3
<1>5. CASE eventcb_eof
  BY <1>5, LoseStep DEF eventcb_eof
<1>6. CASE eventcb_error
  <2>1. CASE session = "up"
    BY <1>6, <2>1, LoseStep DEF eventcb_error
  <2>2. CASE session # "up"
    <3>1. inbuf = <<>> /\ net = <<>> /\ closed = FALSE
      BY <2>2, Zenon DEF IInv, Idle, Counted
    <3>2. /\ session' = "none" /\ inbuf' = <<>> /\ net' = <<>> /\ closed' = FALSE
          /\ UNCHANGED <<data, scans>>
      BY <1>6 DEF eventcb_error, start_reconnect
    <3> QED BY <2>2, <3>1, <3>2, Unseen DEF Pending
  <2> QED BY <2>1, <2>2
<1>7. ASSUME NEW n \in 1..Len(net), SocketRead(n) PROVE UNCHANGED Abs!vars
  <2>1. /\ UNCHANGED <<session, closed, data, scans>>
        /\ inbuf' = inbuf \o SubSeq(net, 1, n) /\ net' = SubSeq(net, n + 1, Len(net))
    BY <1>7 DEF SocketRead
  <2>2. inbuf \in Seq(Byte) /\ net \in Seq(Byte)
    BY DEF IInv, Types
  <2>3. Pending' = Pending
    BY <2>1, <2>2, ReadUnread DEF Pending
  <2> QED BY <2>1, <2>3, Unseen
<1>8. CASE recvdata \/ recvdone \/ UNCHANGED vars
  <2>1. UNCHANGED <<session, inbuf, net, closed, data, scans>>
    BY <1>8 DEF recvdata, recvdone, vars, dev
  <2> QED BY <2>1, Unseen DEF Pending
<1>9. CASE decodeHeader
  BY <1>9, HeaderStep
<1>10. CASE decodeBody
  BY <1>10, BodyStep
<1>11. CASE framingError
  BY <1>11, LoseStep DEF framingError, IInv, Idle
<1> QED BY <1>1, <1>2, <1>3, <1>4, <1>5, <1>6, <1>7, <1>8, <1>9, <1>10, <1>11 DEF Next, EventLoop

\* recvdata() implements MsgStream, for messages of any length cut into any pieces
\* and any number of connections: they are handled whole, once and in the order
\* sent, a block holds the last one with a body for it and is scanned once for
\* each of these, and nothing outlives its connection.
THEOREM SpecImplementsMsgStream == Spec => Abs!Spec
<1>1. Init => Abs!Init
  <2> SUFFICES ASSUME Init PROVE Abs!Init
    OBVIOUS
  <2>1. inbuf \o net = <<>>
    BY NoPieces DEF Init
  <2>2. Unread = <<>>
    BY <2>1, NoMessages DEF Unread
  <2>3. [b \in Blocks |-> Held(b)] = [b \in Blocks |-> None]
    <3>1. \A b \in Blocks : Held(b) = None
      BY DEF Init, Held
    <3> QED BY <3>1, Zenon
  <2> QED BY <2>2, <2>3 DEF Init, Abs!Init
<1>2. Init => Counted /\ Announced
  BY DEF Init, Counted, Announced
<1> QED BY <1>1, <1>2, InitIInv, NextIInv, NextCounted, NextAnnounced, NextStep, PTL DEF Spec, Abs!Spec
=============================================================================
