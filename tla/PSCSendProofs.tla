--------------------------- MODULE PSCSendProofs ---------------------------
(***************************************************************************)
(* Proofs about PSCSend for any blocks, body sizes and buffer limit.       *)
(*                                                                         *)
(* WellFramed and InOrderOnce are not inductive.  A connection may be lost *)
(* or a flush may fail when a message is half written: then wire and       *)
(* output, or sendbuf, are dropped as a whole, so it is the two parts of   *)
(* the stream, not only the stream, that have to be framed (Parts).  The   *)
(* numbers in the stream are in order because none is beyond calls         *)
(* (Numbered).  SendBufferBounded needs to know what a piece adds to the   *)
(* size of a buffer: its bytes are counted as a set (AddBytes).            *)
(***************************************************************************)
EXTENDS PSCSend, FiniteSetTheorems, TLAPS

----------------------------------------------------------------------------
\* Two buffers, one after the other.

\* What is at each place of s followed by t.
LEMMA Joined ==
  ASSUME NEW T, NEW s \in Seq(T), NEW t \in Seq(T)
  PROVE  /\ s \o t \in Seq(T) /\ Len(s \o t) = Len(s) + Len(t)
         /\ \A i \in 1..Len(s) : (s \o t)[i] = s[i]
         /\ \A i \in (Len(s) + 1)..(Len(s) + Len(t)) : (s \o t)[i] = t[i - Len(s)]
  OBVIOUS

\* libevent writes the head of t.
LEMMA MoveHead ==
  ASSUME NEW T, NEW s \in Seq(T), NEW t \in Seq(T), t # <<>>
  PROVE  Append(s, Head(t)) \o Tail(t) = s \o t
  OBVIOUS

\* A piece is added to t.
LEMMA AddLast ==
  ASSUME NEW T, NEW s \in Seq(T), NEW t \in Seq(T), NEW x \in T
  PROVE  s \o Append(t, x) = Append(s \o t, x) /\ Append(t, x) \in Seq(T)
  OBVIOUS

\* What a call of queueSend() appends to sendbuf: a body, or a header and a body.
LEMMA QueueBuf ==
  ASSUME NEW b \in Block, NEW head \in {<<>>, <<Piece("head", b)>>}, calls \in Nat,
         sendbuf \in Seq(Pieces), queueBody(b, head)
  PROVE  \/ head = <<>> /\ sendbuf' = Append(sendbuf, Piece("body", b))
         \/ /\ head = <<Piece("head", b)>>
            /\ sendbuf' = Append(Append(sendbuf, Piece("head", b)), Piece("body", b))
<1>1. Piece("head", b) \in Pieces /\ Piece("body", b) \in Pieces
  BY DEF Piece, Pieces
<1>2. ASSUME NEW x \in Pieces PROVE sendbuf \o <<>> \o <<x>> = Append(sendbuf, x)
  OBVIOUS
<1>3. ASSUME NEW x \in Pieces, NEW h \in Pieces
      PROVE  sendbuf \o <<h>> \o <<x>> = Append(Append(sendbuf, h), x)
  OBVIOUS
<1>4. sendbuf' = sendbuf \o head \o <<Piece("body", b)>>
  BY DEF queueBody
<1> QED
  BY <1>1, <1>2, <1>3, <1>4, Zenon

----------------------------------------------------------------------------
\* Types of the buffers and the counters.
Data ==
  /\ sendbuf \in Seq(Pieces) /\ output \in Seq(Pieces) /\ wire \in Seq(Pieces)
  /\ count \in [Block -> 0..calls]
  /\ calls \in Nat /\ conns \in Nat

\* Types of the flags.
Flags ==
  /\ uses \in SUBSET {"send", "nomem"}
  /\ connected \in BOOLEAN
  /\ queued \in [Block -> BOOLEAN]

LEMMA InitData == Init => Data /\ Flags
<1> SUFFICES ASSUME Init PROVE Data /\ Flags
  OBVIOUS
<1>1. Data
  BY PSCSendAssumption DEF Init, Data
<1>2. Flags
  BY Zenon DEF Init, Flags
<1> QED
  BY <1>1, <1>2

\* The types after a call of queueSend().
LEMMA QueueData ==
  ASSUME Data, NEW b \in Block, NEW head \in {<<>>, <<Piece("head", b)>>}, queueBody(b, head)
  PROVE  Data'
<1>1. Piece("head", b) \in Pieces /\ Piece("body", b) \in Pieces
  BY DEF Piece, Pieces, Data
<1>2. sendbuf' \in Seq(Pieces)
  <2>1. sendbuf \in Seq(Pieces) /\ calls \in Nat
    BY DEF Data
  <2>2. \/ sendbuf' = Append(sendbuf, Piece("body", b))
        \/ sendbuf' = Append(Append(sendbuf, Piece("head", b)), Piece("body", b))
    BY <2>1, QueueBuf, Zenon
  <2> HIDE DEF Piece
  <2> QED
    BY <1>1, <2>1, <2>2
<1>3. count' \in [Block -> 0..calls'] /\ calls' \in Nat
  BY DEF Data, queueBody
<1> QED
  BY <1>2, <1>3 DEF Data, queueBody

LEMMA QueueFlags ==
  ASSUME Flags, NEW b \in Block, NEW head, queueBody(b, head)
  PROVE  Flags'
<1>1. queued' \in [Block -> BOOLEAN]
  BY Zenon DEF Flags, queueBody
<1> QED
  BY <1>1, Zenon DEF Flags, queueBody

\* Every call of queueSend() is one of queueBody().
LEMMA Queues ==
  ASSUME NEW b \in Block, queueSend(b) \/ send(b)
  PROVE  \E head \in {<<>>, <<Piece("head", b)>>} :
           /\ queueBody(b, head)
           /\ "send" \notin uses => head = <<Piece("head", b)>>
<1>1. CASE queueBody(b, <<>>) /\ "send" \in uses
  BY <1>1, Zenon
<1>2. CASE queueBody(b, <<Piece("head", b)>>)
  BY <1>2, Zenon
<1> QED
  BY <1>1, <1>2, Zenon DEF queueSend, send

LEMMA NextData == Data /\ Flags /\ [Next]_vars => Data' /\ Flags'
<1> SUFFICES ASSUME Data, Flags, [Next]_vars PROVE Data' /\ Flags'
  OBVIOUS
<1>1. CASE eventcb_connected
  <2>1. Data'
    BY <1>1 DEF eventcb_connected, Data
  <2>2. Flags'
    BY <1>1, Zenon DEF eventcb_connected, Flags
  <2> QED
    BY <2>1, <2>2
<1>2. CASE start_reconnect
  <2>1. Data'
    BY <1>2 DEF start_reconnect, Data
  <2>2. Flags'
    BY <1>2, Zenon DEF start_reconnect, Flags
  <2> QED
    BY <2>1, <2>2
<1>3. ASSUME NEW b \in Block, queueSend(b) \/ send(b) PROVE Data' /\ Flags'
  BY <1>3, Queues, QueueData, QueueFlags
<1>4. CASE flushSend
  <2>1. Data'
    BY <1>4 DEF flushSend, Data
  <2>2. Flags'
    BY <1>4, Zenon DEF flushSend, Flags
  <2> QED
    BY <2>1, <2>2
<1>5. CASE flushSend_fails
  <2>1. Data'
    BY <1>5 DEF flushSend_fails, Data
  <2>2. Flags'
    BY <1>5, Zenon DEF flushSend_fails, Flags
  <2> QED
    BY <2>1, <2>2
<1>6. CASE SocketWrite
  <2>1. Data'
    BY <1>6 DEF SocketWrite, Data
  <2>2. Flags'
    BY <1>6, Zenon DEF SocketWrite, Flags
  <2> QED
    BY <2>1, <2>2
<1>7. CASE UNCHANGED vars
  <2>1. Data'
    BY <1>7 DEF vars, Data
  <2>2. Flags'
    BY <1>7, Zenon DEF vars, Flags
  <2> QED
    BY <2>1, <2>2
<1> QED
  BY <1>1, <1>2, <1>3, <1>4, <1>5, <1>6, <1>7 DEF Next

\* The types hold whatever records, libevent and the network do: a block never
\* counts more messages than were queued.
THEOREM SpecTypeOK == Spec => []TypeOK
<1>1. Data /\ Flags => TypeOK
  BY Zenon DEF Data, Flags, TypeOK
<1> QED
  BY <1>1, InitData, NextData, PTL DEF Spec

----------------------------------------------------------------------------
\* What queueSend() adds is numbered above all there was, a header first.

Before(p, q) ==
  p.n < q.n \/ (p.n = q.n /\ p.kind = "head" /\ q.kind = "body")

Ordered(s, c) ==
  /\ \A i \in 1..Len(s) : s[i].n \in 0..c
  /\ \A i, j \in 1..Len(s) : i < j => Before(s[i], s[j])

\* The pieces of an ordered buffer and those of a part of it.
LEMMA PartOrdered ==
  ASSUME NEW s \in Seq(Pieces), NEW t \in Seq(Pieces), NEW c, Ordered(s \o t, c)
  PROVE  Ordered(s, c) /\ Ordered(t, c)
<1>1. /\ Len(s \o t) = Len(s) + Len(t) /\ Len(s) \in Nat /\ Len(t) \in Nat
      /\ \A i \in 1..Len(s) : (s \o t)[i] = s[i]
      /\ \A i \in 1..Len(t) : (s \o t)[i + Len(s)] = t[i]
  OBVIOUS
<1> DEFINE a == s \o t
<1>2. /\ \A i \in 1..Len(a) : a[i].n \in 0..c
      /\ \A i, j \in 1..Len(a) : i < j => Before(a[i], a[j])
  BY DEF Ordered
<1>3. /\ Len(a) = Len(s) + Len(t)
      /\ \A i \in 1..Len(s) : a[i] = s[i]
      /\ \A i \in 1..Len(t) : a[i + Len(s)] = t[i]
  BY <1>1
<1> HIDE DEF a
<1>4. Ordered(s, c)
  <2>1. ASSUME NEW i \in 1..Len(s) PROVE i \in 1..Len(a) /\ a[i] = s[i]
    BY <1>1, <1>3
  <2> QED
    BY <1>2, <2>1 DEF Ordered
<1>5. Ordered(t, c)
  <2>1. ASSUME NEW i \in 1..Len(t)
        PROVE  i + Len(s) \in 1..Len(a) /\ a[i + Len(s)] = t[i]
    BY <1>1, <1>3
  <2>2. ASSUME NEW i \in 1..Len(t) PROVE t[i].n \in 0..c
    BY <1>2, <2>1
  <2>3. ASSUME NEW i \in 1..Len(t), NEW j \in 1..Len(t), i < j PROVE Before(t[i], t[j])
    <3>1. i + Len(s) < j + Len(s)
      BY <1>1, <2>3
    <3> QED
      BY <1>2, <2>1, <3>1
  <2> QED
    BY <2>2, <2>3 DEF Ordered
<1> QED
  BY <1>4, <1>5


\* A piece that comes after all others.
LEMMA AddOrdered ==
  ASSUME NEW s \in Seq(Pieces), NEW c \in Nat, Ordered(s, c), NEW x \in Pieces,
         NEW d \in Nat, c <= d, x.n <= d, \A i \in 1..Len(s) : Before(s[i], x)
  PROVE  Ordered(Append(s, x), d)
<1> DEFINE a == Append(s, x)
<1>1. /\ Len(a) = Len(s) + 1 /\ Len(s) \in Nat /\ a[Len(s) + 1] = x
      /\ \A i \in 1..Len(s) : a[i] = s[i]
  OBVIOUS
<1>2. x.n \in 0..d
  BY DEF Pieces
<1> HIDE DEF a
<1>3. ASSUME NEW i \in 1..Len(a) PROVE a[i].n \in 0..d
  <2>1. CASE i = Len(s) + 1
    BY <1>1, <1>2, <2>1
  <2>2. CASE i \in 1..Len(s)
    BY <1>1, <2>2 DEF Ordered
  <2> QED
    BY <1>1, <2>1, <2>2
<1>4. ASSUME NEW i \in 1..Len(a), NEW j \in 1..Len(a), i < j PROVE Before(a[i], a[j])
  <2>1. i \in 1..Len(s) /\ a[i] = s[i]
    BY <1>1, <1>4
  <2>2. CASE j = Len(s) + 1
    BY <1>1, <2>1, <2>2
  <2>3. CASE j \in 1..Len(s)
    BY <1>1, <1>4, <2>1, <2>3 DEF Ordered
  <2> QED
    BY <1>1, <2>2, <2>3
<1> QED
  BY <1>3, <1>4 DEF Ordered, a

\* The header and the body of a new message, or the body alone.
LEMMA AddMessage ==
  ASSUME NEW s \in Seq(Pieces), NEW c \in Nat, Ordered(s, c),
         NEW h \in Pieces, NEW x \in Pieces, h.n = c + 1, x.n = c + 1,
         h.kind = "head", x.kind = "body"
  PROVE  Ordered(Append(s, x), c + 1) /\ Ordered(Append(Append(s, h), x), c + 1)
<1>1. \A i \in 1..Len(s) : Before(s[i], x) /\ Before(s[i], h)
  BY DEF Ordered, Before
<1>2. Ordered(Append(s, x), c + 1) /\ Ordered(Append(s, h), c + 1)
  BY <1>1, AddOrdered
<1> DEFINE a == Append(s, h)
<1>3. a \in Seq(Pieces) /\ \A i \in 1..Len(a) : Before(a[i], x)
  <2>1. a \in Seq(Pieces) /\ Len(a) = Len(s) + 1 /\ Len(s) \in Nat /\ a[Len(s) + 1] = h
        /\ \A i \in 1..Len(s) : a[i] = s[i]
    OBVIOUS
  <2>2. Before(h, x)
    BY DEF Before
  <2> HIDE DEF a
  <2> QED
    BY <1>1, <2>1, <2>2
<1>4. Ordered(a, c + 1)
  BY <1>2
<1> HIDE DEF a
<1>5. Ordered(Append(a, x), c + 1)
  BY <1>3, <1>4, AddOrdered
<1> QED
  BY <1>2, <1>5 DEF a

\* The stream is ordered.
Numbered == Ordered(stream, calls)

LEMMA NextNumbered == Data /\ Data' /\ Numbered /\ [Next]_vars => Numbered'
<1> SUFFICES ASSUME Data, Data', Numbered, [Next]_vars PROVE Numbered'
  OBVIOUS
<1>1. /\ sendbuf \in Seq(Pieces) /\ output \in Seq(Pieces) /\ wire \in Seq(Pieces)
      /\ calls \in Nat
  BY DEF Data
<1>2. /\ wire \o output \in Seq(Pieces) /\ stream \in Seq(Pieces)
      /\ stream = (wire \o output) \o sendbuf
  BY <1>1 DEF stream
<1>3. Ordered(wire \o output, calls) /\ Ordered(sendbuf, calls)
  BY <1>1, <1>2, PartOrdered DEF Numbered
<1>4. CASE stream' = stream /\ calls' = calls
  BY <1>4 DEF Numbered
<1>5. CASE eventcb_connected
  BY <1>4, <1>5 DEF eventcb_connected, stream
<1>6. CASE start_reconnect
  <2>1. stream' = sendbuf /\ calls' = calls
    BY <1>1, <1>6 DEF start_reconnect, stream
  <2> QED
    BY <1>3, <2>1 DEF Numbered
<1>7. ASSUME NEW b \in Block, queueSend(b) \/ send(b) PROVE Numbered'
  <2>1. PICK head \in {<<>>, <<Piece("head", b)>>} : queueBody(b, head)
    BY <1>7, Queues
  <2> DEFINE h == Piece("head", b)
             x == Piece("body", b)
  <2>2. /\ h \in Pieces /\ x \in Pieces /\ h.n = calls + 1 /\ x.n = calls + 1
        /\ h.kind = "head" /\ x.kind = "body"
    BY <1>1 DEF Piece, Pieces
  <2>3. sendbuf' = Append(sendbuf, x) \/ sendbuf' = Append(Append(sendbuf, h), x)
    BY <1>1, <2>1, QueueBuf, Zenon
  <2>4. wire' = wire /\ output' = output /\ calls' = calls + 1
    BY <2>1 DEF queueBody
  <2> HIDE DEF h, x
  <2>5. ASSUME NEW s \in Seq(Pieces)
        PROVE  /\ s \o Append(sendbuf, x) = Append(s \o sendbuf, x)
               /\ s \o Append(Append(sendbuf, h), x) = Append(Append(s \o sendbuf, h), x)
    <3>1. sendbuf \in Seq(Pieces) /\ h \in Pieces /\ x \in Pieces
      BY <1>1, <2>2
    <3>2. Append(sendbuf, h) \in Seq(Pieces) /\ s \o Append(sendbuf, h) = Append(s \o sendbuf, h)
      BY <3>1, AddLast
    <3>3. s \o Append(sendbuf, x) = Append(s \o sendbuf, x)
      BY <3>1, AddLast
    <3>4. ASSUME NEW a \in Seq(Pieces) PROVE s \o Append(a, x) = Append(s \o a, x)
      BY <3>1, AddLast
    <3> QED
      BY <3>2, <3>3, <3>4, Zenon
  <2>6. stream' = Append(stream, x) \/ stream' = Append(Append(stream, h), x)
    BY <1>2, <2>3, <2>4, <2>5, Zenon DEF stream
  <2>7. Ordered(Append(stream, x), calls + 1) /\ Ordered(Append(Append(stream, h), x), calls + 1)
    BY <1>1, <1>2, <2>2, AddMessage DEF Numbered
  <2> QED
    BY <2>4, <2>6, <2>7, Zenon DEF Numbered
<1>8. CASE flushSend
  <2>1. stream' = stream /\ calls' = calls
    BY <1>1, <1>8 DEF flushSend, stream
  <2> QED
    BY <1>4, <2>1
<1>9. CASE flushSend_fails
  <2>1. stream' = wire \o output /\ calls' = calls
    BY <1>1, <1>9 DEF flushSend_fails, stream
  <2> QED
    BY <1>3, <2>1 DEF Numbered
<1>10. CASE SocketWrite
  <2>1. wire' \o output' = wire \o output
    BY <1>1, <1>10, MoveHead DEF SocketWrite
  <2>2. stream' = stream /\ calls' = calls
    BY <1>10, <2>1 DEF SocketWrite, stream
  <2> QED
    BY <1>4, <2>2
<1>11. CASE UNCHANGED vars
  BY <1>4, <1>11 DEF vars, stream
<1> QED
  BY <1>5, <1>6, <1>7, <1>8, <1>9, <1>10, <1>11 DEF Next

\* Nothing is sent twice or out of order, whatever is refused, dropped with a
\* connection or dropped by a flush that fails.
THEOREM SpecInOrderOnce == Spec => []InOrderOnce
<1>1. Init => Numbered
  BY DEF Init, Numbered, Ordered, stream
<1>2. Numbered => InOrderOnce
  BY DEF Numbered, Ordered, Before, InOrderOnce
<1> QED
  BY <1>1, <1>2, InitData, NextData, NextNumbered, PTL DEF Spec

----------------------------------------------------------------------------
\* Each header is followed by its body, and each body preceded by its header.
Framed(s) ==
  \A i \in 1..Len(s) :
    IF s[i].kind = "head"
    THEN i < Len(s) /\ s[i + 1] = [s[i] EXCEPT !.kind = "body"]
    ELSE i > 1 /\ s[i - 1] = [s[i] EXCEPT !.kind = "head"]

\* Framed buffers are framed together.
LEMMA JoinFramed ==
  ASSUME NEW s \in Seq(Pieces), NEW t \in Seq(Pieces), Framed(s), Framed(t)
  PROVE  Framed(s \o t)
<1> DEFINE a == s \o t
<1>1. /\ Len(a) = Len(s) + Len(t) /\ Len(s) \in Nat /\ Len(t) \in Nat
      /\ \A i \in 1..Len(s) : a[i] = s[i]
      /\ \A i \in 1..Len(t) : a[i + Len(s)] = t[i]
  OBVIOUS
<1> HIDE DEF a
<1> SUFFICES ASSUME NEW i \in 1..Len(a)
             PROVE  IF a[i].kind = "head"
                    THEN i < Len(a) /\ a[i + 1] = [a[i] EXCEPT !.kind = "body"]
                    ELSE i > 1 /\ a[i - 1] = [a[i] EXCEPT !.kind = "head"]
  BY DEF Framed, a
<1>2. CASE i \in 1..Len(s)
  <2>1. a[i] = s[i]
    BY <1>1, <1>2
  <2>2. CASE s[i].kind = "head"
    <3>1. i < Len(s) /\ s[i + 1] = [s[i] EXCEPT !.kind = "body"]
      BY <1>2, <2>2 DEF Framed
    <3>2. i < Len(a) /\ a[i + 1] = s[i + 1]
      <4>1. i < Len(s)
        BY <3>1
      <4>2. i + 1 \in 1..Len(s) /\ i < Len(a)
        BY <1>1, <1>2, <4>1
      <4> QED
        BY <1>1, <4>2
    <3> QED
      BY <2>1, <2>2, <3>1, <3>2
  <2>3. CASE s[i].kind # "head"
    <3>1. i > 1 /\ s[i - 1] = [s[i] EXCEPT !.kind = "head"]
      BY <1>2, <2>3 DEF Framed
    <3>2. a[i - 1] = s[i - 1]
      BY <1>1, <1>2, <3>1
    <3> QED
      BY <2>1, <2>3, <3>1, <3>2
  <2> QED
    BY <2>2, <2>3
<1>3. CASE i > Len(s)
  <2>1. PICK j \in 1..Len(t) : i = j + Len(s) /\ a[i] = t[j]
    <3>1. i - Len(s) \in 1..Len(t) /\ i = (i - Len(s)) + Len(s)
      BY <1>1, <1>3
    <3> QED
      BY <1>1, <3>1
  <2>2. CASE t[j].kind = "head"
    <3>1. j < Len(t) /\ t[j + 1] = [t[j] EXCEPT !.kind = "body"]
      BY <2>2 DEF Framed
    <3>2. i < Len(a) /\ j + 1 \in 1..Len(t) /\ i + 1 = (j + 1) + Len(s)
      BY <1>1, <2>1, <3>1
    <3>3. a[i + 1] = t[j + 1]
      BY <1>1, <3>2
    <3> QED
      BY <2>1, <2>2, <3>1, <3>2, <3>3
  <2>3. CASE t[j].kind # "head"
    <3>1. j > 1 /\ t[j - 1] = [t[j] EXCEPT !.kind = "head"]
      BY <2>3 DEF Framed
    <3>2. i > 1 /\ j - 1 \in 1..Len(t) /\ i - 1 = (j - 1) + Len(s)
      BY <1>1, <2>1, <3>1
    <3>3. a[i - 1] = t[j - 1]
      BY <1>1, <3>2
    <3> QED
      BY <2>1, <2>3, <3>1, <3>2, <3>3
  <2> QED
    BY <2>2, <2>3
<1> QED
  BY <1>1, <1>2, <1>3

\* A whole message is added.
LEMMA AddFramed ==
  ASSUME NEW s \in Seq(Pieces), Framed(s), NEW b \in Block, calls \in Nat
  PROVE  Framed(Append(Append(s, Piece("head", b)), Piece("body", b)))
<1> DEFINE h == Piece("head", b)
           x == Piece("body", b)
<1>1. /\ h \in Pieces /\ x \in Pieces /\ h.kind = "head" /\ x.kind = "body"
      /\ x = [h EXCEPT !.kind = "body"] /\ h = [x EXCEPT !.kind = "head"]
  BY DEF Piece, Pieces
<1> HIDE DEF h, x
<1>2. Framed(<<h, x>>) /\ <<h, x>> \in Seq(Pieces)
  <2>1. Len(<<h, x>>) = 2 /\ <<h, x>>[1] = h /\ <<h, x>>[2] = x /\ <<h, x>> \in Seq(Pieces)
    BY <1>1
  <2> DEFINE m == <<h, x>>
  <2>2. Len(m) = 2 /\ m[1] = h /\ m[2] = x
    BY <2>1
  <2> HIDE DEF m
  <2>3. Framed(m)
    <3> SUFFICES ASSUME NEW i \in 1..2
                 PROVE  IF m[i].kind = "head"
                        THEN i < 2 /\ m[i + 1] = [m[i] EXCEPT !.kind = "body"]
                        ELSE i > 1 /\ m[i - 1] = [m[i] EXCEPT !.kind = "head"]
      BY <2>2 DEF Framed
    <3>1. CASE i = 1
      <4>1. m[i] = h /\ m[i + 1] = x
        BY <2>2, <3>1
      <4>2. i < 2
        BY <3>1
      <4> QED
        BY <1>1, <3>1, <4>1, <4>2, Zenon
    <3>2. CASE i = 2
      <4>1. m[i] = x /\ m[i - 1] = h
        BY <2>2, <3>2
      <4>2. i > 1 /\ x.kind # "head"
        BY <1>1, <3>2
      <4> QED
        BY <1>1, <4>1, <4>2, Zenon
    <3> QED
      BY <3>1, <3>2
  <2> QED
    BY <2>1, <2>3 DEF m
<1>3. Framed(s \o <<h, x>>)
  BY <1>2, JoinFramed
<1>4. Append(Append(s, h), x) = s \o <<h, x>>
  BY <1>1
<1> QED
  BY <1>3, <1>4, Zenon DEF h, x

\* Without "PSC Ctrl Send" records both parts of the stream are framed, so that
\* either of them may be dropped.
Parts == "send" \notin uses => Framed(wire \o output) /\ Framed(sendbuf)

LEMMA NextParts == Data /\ Parts /\ [Next]_vars => Parts'
<1> SUFFICES ASSUME Data, Parts, [Next]_vars PROVE Parts'
  OBVIOUS
<1>1. ASSUME NEW b \in Block, queueSend(b) \/ send(b) PROVE uses' = uses
  BY <1>1, Queues, Zenon DEF queueBody
<1>2. uses' = uses
  BY <1>1, Zenon
  DEF Next, vars, eventcb_connected, start_reconnect, flushSend, flushSend_fails, SocketWrite
<1> SUFFICES ASSUME "send" \notin uses PROVE Framed(wire' \o output') /\ Framed(sendbuf')
  BY <1>2 DEF Parts
<1>3. /\ sendbuf \in Seq(Pieces) /\ output \in Seq(Pieces) /\ wire \in Seq(Pieces)
      /\ calls \in Nat
  BY DEF Data
<1>4. Framed(wire \o output) /\ Framed(sendbuf)
  BY DEF Parts
<1>5. Framed(<<>>)
  BY DEF Framed
<1>6. CASE eventcb_connected
  BY <1>4, <1>6 DEF eventcb_connected
<1>7. CASE start_reconnect
  <2>1. wire' \o output' = <<>> /\ sendbuf' = sendbuf
    BY <1>7 DEF start_reconnect
  <2> QED
    BY <1>4, <1>5, <2>1
<1>8. ASSUME NEW b \in Block, queueSend(b) \/ send(b)
      PROVE  Framed(wire' \o output') /\ Framed(sendbuf')
  <2>1. queueBody(b, <<Piece("head", b)>>)
    BY <1>8, Queues
  <2>2. sendbuf' = Append(Append(sendbuf, Piece("head", b)), Piece("body", b))
    <3>1. <<Piece("head", b)>> # <<>>
      OBVIOUS
    <3> QED
      BY <1>3, <2>1, <3>1, QueueBuf, Zenon
  <2>3. wire' = wire /\ output' = output
    BY <2>1 DEF queueBody
  <2> QED
    BY <1>3, <1>4, <2>2, <2>3, AddFramed, Zenon
<1>9. CASE flushSend
  <2>1. wire' \o output' = (wire \o output) \o sendbuf /\ sendbuf' = <<>>
        /\ wire \o output \in Seq(Pieces)
    BY <1>3, <1>9 DEF flushSend
  <2>2. Framed((wire \o output) \o sendbuf)
    BY <1>3, <1>4, <2>1, JoinFramed
  <2> QED
    BY <1>5, <2>1, <2>2, Zenon
<1>10. CASE flushSend_fails
  BY <1>4, <1>5, <1>10, Zenon DEF flushSend_fails
<1>11. CASE SocketWrite
  <2>1. wire' \o output' = wire \o output /\ sendbuf' = sendbuf
    BY <1>3, <1>11, MoveHead DEF SocketWrite
  <2> QED
    BY <1>4, <2>1, Zenon
<1>12. CASE UNCHANGED vars
  BY <1>4, <1>12 DEF vars
<1> QED
  BY <1>6, <1>7, <1>8, <1>9, <1>10, <1>11, <1>12 DEF Next

\* Unless "PSC Ctrl Send" records queue messages without a connection, the
\* device sees each header followed by its body on every connection, also when
\* the one before was lost, or a flush failed, in the middle of a message.
THEOREM SpecWellFramed == Spec => []WellFramed
<1>1. Init => Parts
  <2>1. Framed(<<>>) /\ <<>> \o <<>> = <<>>
    BY DEF Framed
  <2> QED
    BY <2>1 DEF Init, Parts
<1>2. Data /\ Parts => WellFramed
  <2> SUFFICES ASSUME Data, Parts, "send" \notin uses PROVE AlwaysFramed
    BY DEF WellFramed
  <2>1. wire \o output \in Seq(Pieces) /\ sendbuf \in Seq(Pieces)
    BY DEF Data
  <2>2. Framed((wire \o output) \o sendbuf)
    BY <2>1, JoinFramed DEF Parts
  <2> QED
    BY <2>2, Zenon DEF Framed, AlwaysFramed, stream
<1> QED
  BY <1>1, <1>2, InitData, NextData, NextParts, PTL DEF Spec

----------------------------------------------------------------------------
\* Which blocks a call of queueSend() makes pending.
LEMMA QueuePending ==
  ASSUME Data, NEW b \in Block, NEW head \in {<<>>, <<Piece("head", b)>>}, queueBody(b, head),
         NEW a \in Block
  PROVE  Pending(a)' <=> Pending(a) \/ a = b
<1> DEFINE h == Piece("head", b)
           x == Piece("body", b)
<1>1. sendbuf \in Seq(Pieces) /\ calls \in Nat
  BY DEF Data
<1>2. h \in Pieces /\ x \in Pieces /\ h.blk = b /\ x.blk = b
  BY <1>1 DEF Piece, Pieces
<1>3. sendbuf' = Append(sendbuf, x) \/ sendbuf' = Append(Append(sendbuf, h), x)
  BY <1>1, QueueBuf, Zenon
<1> HIDE DEF h, x
<1>4. CASE sendbuf' = Append(sendbuf, x)
  <2>1. /\ Len(sendbuf') = Len(sendbuf) + 1 /\ Len(sendbuf) \in Nat
        /\ sendbuf'[Len(sendbuf) + 1] = x
        /\ \A i \in 1..Len(sendbuf) : sendbuf'[i] = sendbuf[i]
    BY <1>1, <1>2, <1>4
  <2> QED
    BY <1>2, <2>1 DEF Pending
<1>5. CASE sendbuf' = Append(Append(sendbuf, h), x)
  <2>1. /\ Len(sendbuf') = Len(sendbuf) + 2 /\ Len(sendbuf) \in Nat
        /\ sendbuf'[Len(sendbuf) + 1] = h /\ sendbuf'[Len(sendbuf) + 2] = x
        /\ \A i \in 1..Len(sendbuf) : sendbuf'[i] = sendbuf[i]
    BY <1>1, <1>2, <1>5
  <2> QED
    BY <1>2, <2>1 DEF Pending
<1> QED
  BY <1>3, <1>4, <1>5

LEMMA NextQueued == Data /\ Flags /\ QueuedIsPending /\ [Next]_vars => QueuedIsPending'
<1> SUFFICES ASSUME Data, Flags, QueuedIsPending, [Next]_vars, NEW a \in Block
             PROVE  /\ Pending(a)' => queued'[a]
                    /\ queued'[a] /\ "nomem" \notin uses' => Pending(a)'
  BY Zenon DEF QueuedIsPending
<1>1. /\ Pending(a) => queued[a]
      /\ queued[a] /\ "nomem" \notin uses => Pending(a)
  BY Zenon DEF QueuedIsPending
<1>2. ASSUME sendbuf' = <<>> PROVE ~Pending(a)'
  BY <1>2 DEF Pending
<1>3. CASE sendbuf' = sendbuf /\ queued' = queued /\ uses' = uses
  BY <1>1, <1>3, Zenon DEF Pending
<1>4. CASE eventcb_connected
  BY <1>3, <1>4, Zenon DEF eventcb_connected
<1>5. CASE start_reconnect
  BY <1>3, <1>5, Zenon DEF start_reconnect
<1>6. ASSUME NEW b \in Block, queueSend(b) \/ send(b)
      PROVE  /\ Pending(a)' => queued'[a]
             /\ queued'[a] /\ "nomem" \notin uses' => Pending(a)'
  <2>1. PICK head \in {<<>>, <<Piece("head", b)>>} : queueBody(b, head)
    BY <1>6, Queues
  <2>2. Pending(a)' <=> Pending(a) \/ a = b
    BY <2>1, QueuePending
  <2>3. queued'[a] <=> queued[a] \/ a = b
    BY <2>1, Zenon DEF queueBody, Flags
  <2>4. uses' = uses
    BY <2>1, Zenon DEF queueBody
  <2> QED
    BY <1>1, <2>2, <2>3, <2>4, Zenon
<1>7. CASE flushSend
  <2>1. ~queued'[a]
    BY <1>7, Zenon DEF flushSend
  <2>2. sendbuf' = <<>>
    BY <1>7, Zenon DEF flushSend
  <2> QED
    BY <1>2, <2>1, <2>2, Zenon
<1>8. CASE flushSend_fails
  <2>1. sendbuf' = <<>> /\ "nomem" \in uses'
    BY <1>8, Zenon DEF flushSend_fails
  <2> QED
    BY <1>2, <2>1, Zenon
<1>9. CASE SocketWrite
  BY <1>3, <1>9, Zenon DEF SocketWrite
<1>10. CASE UNCHANGED vars
  BY <1>3, <1>10, Zenon DEF vars
<1> QED
  BY <1>4, <1>5, <1>6, <1>7, <1>8, <1>9, <1>10, Zenon DEF Next

\* Block::queued tells which blocks have a message in sendbuf, through refused
\* messages, lost connections and flushes.
THEOREM SpecQueuedIsPending == Spec => []QueuedIsPending
<1>1. Init => QueuedIsPending
  <2> SUFFICES ASSUME Init, NEW a \in Block PROVE ~Pending(a) /\ ~queued[a]
    BY Zenon DEF QueuedIsPending
  <2>1. ~Pending(a)
    BY DEF Init, Pending
  <2>2. ~queued[a]
    BY Zenon DEF Init
  <2> QED
    BY <2>1, <2>2
<1> QED
  BY <1>1, InitData, NextData, NextQueued, PTL DEF Spec

----------------------------------------------------------------------------
\* The size of sendbuf.

BytesOf(buf) == UNION {{i} \X (1..PieceLen(buf[i])) : i \in 1..Len(buf)}

LEMMA PieceLenType ==
  ASSUME NEW x \in Pieces
  PROVE  PieceLen(x) \in Nat
  BY PSCSendAssumption DEF PieceLen, Pieces

\* A piece adds its own bytes.
LEMMA AddBytes ==
  ASSUME NEW s \in Seq(Pieces), NEW x \in Pieces, IsFiniteSet(BytesOf(s))
  PROVE  /\ IsFiniteSet(BytesOf(Append(s, x)))
         /\ Bytes(s) \in Nat /\ Bytes(Append(s, x)) = Bytes(s) + PieceLen(x)
<1> DEFINE t == Append(s, x)
           k == Len(s) + 1
           S == BytesOf(s)
           n == PieceLen(x)
           N == {k} \X (1..n)
<1>1. n \in Nat
  BY PieceLenType
<1>2. /\ Len(t) = k /\ Len(s) \in Nat /\ k \in Nat /\ t[k] = x
      /\ \A i \in 1..Len(s) : t[i] = s[i]
  OBVIOUS
<1>3. \A i : i \in 1..k <=> i \in 1..Len(s) \/ i = k
  BY <1>2
<1> HIDE DEF t
<1>4. BytesOf(t) = S \cup N
  <2>1. ASSUME NEW e \in BytesOf(t) PROVE e \in S \cup N
    <3>1. PICK i \in 1..Len(t) : e \in {i} \X (1..PieceLen(t[i]))
      BY Zenon DEF BytesOf
    <3>2. CASE i \in 1..Len(s)
      <4>1. e \in {i} \X (1..PieceLen(s[i]))
        BY <1>2, <3>1, <3>2, Zenon
      <4> QED BY <3>2, <4>1, Zenon DEF BytesOf
    <3>3. CASE i = k
      BY <1>2, <3>1, <3>3, Zenon
    <3> QED BY <1>2, <1>3, <3>1, <3>2, <3>3, Zenon
  <2>2. ASSUME NEW e \in S PROVE e \in BytesOf(t)
    <3>1. PICK i \in 1..Len(s) : e \in {i} \X (1..PieceLen(s[i]))
      BY Zenon DEF BytesOf
    <3>2. i \in 1..Len(t) /\ e \in {i} \X (1..PieceLen(t[i]))
      BY <1>2, <1>3, <3>1, Zenon
    <3> QED BY <3>2, Zenon DEF BytesOf
  <2>3. ASSUME NEW e \in N PROVE e \in BytesOf(t)
    <3>1. k \in 1..Len(t) /\ e \in {k} \X (1..PieceLen(t[k]))
      BY <1>2, <1>3, Zenon
    <3> QED BY <3>1, Zenon DEF BytesOf
  <2> HIDE DEF S, N
  <2> QED BY <2>1, <2>2, <2>3, Zenon
<1>5. IsFiniteSet(N) /\ Cardinality(N) = n
  <2>1. IsFiniteSet({k}) /\ Cardinality({k}) = 1
    BY FS_Singleton
  <2>2. IsFiniteSet(1..n) /\ Cardinality(1..n) = n
    <3> HIDE DEF n
    <3> QED BY <1>1, FS_Interval
  <2>3. IsFiniteSet(N) /\ Cardinality(N) = Cardinality({k}) * Cardinality(1..n)
    <3> HIDE DEF k, n
    <3> QED BY <2>1, <2>2, FS_Product
  <2> HIDE DEF N, n, k
  <2> QED BY <1>1, <2>1, <2>2, <2>3
<1>6. S \cap N = {}
  <2>1. ASSUME NEW e \in S, e \in N PROVE FALSE
    <3>1. PICK i \in 1..Len(s) : e \in {i} \X (1..PieceLen(s[i]))
      BY Zenon DEF BytesOf
    <3>2. e[1] = i
      BY <3>1
    <3>3. e[1] = k
      BY <2>1
    <3> QED BY <1>2, <3>2, <3>3
  <2> HIDE DEF S, N
  <2> QED BY <2>1
<1>7. IsFiniteSet(S) /\ Cardinality(S) \in Nat
  BY FS_CardinalityType
<1>8. Bytes(s) = Cardinality(S) /\ Bytes(t) = Cardinality(S \cup N)
  BY <1>4, Zenon DEF Bytes, BytesOf
<1> HIDE DEF S, N, n
<1>9. Cardinality(S \cap N) = 0
  BY <1>6, FS_EmptySet
<1>10. /\ IsFiniteSet(S \cup N)
       /\ Cardinality(S \cup N) = Cardinality(S) + Cardinality(N) - Cardinality(S \cap N)
  BY <1>5, <1>7, FS_Union
<1>11. Cardinality(S \cup N) = Cardinality(S) + n
  BY <1>1, <1>5, <1>7, <1>9, <1>10
<1> QED BY <1>4, <1>7, <1>8, <1>10, <1>11 DEF t, n

\* sendbuf is finite and, unless "PSC Ctrl Send" records exist, bounded.
Bounded == IsFiniteSet(BytesOf(sendbuf)) /\ Bytes(sendbuf) \in Nat /\ SendBufferBounded

\* An empty buffer.
LEMMA NoBytes == IsFiniteSet(BytesOf(<<>>)) /\ Bytes(<<>>) = 0
<1>1. BytesOf(<<>>) = {}
  BY DEF BytesOf
<1> QED BY <1>1, FS_EmptySet DEF Bytes, BytesOf

LEMMA QueueBounded ==
  ASSUME Data, Bounded, NEW b \in Block, queueSend(b) \/ send(b)
  PROVE  Bounded'
<1> DEFINE x == Piece("body", b)
           h == Piece("head", b)
<1>1. PICK head \in {<<>>, <<Piece("head", b)>>} :
        /\ queueBody(b, head)
        /\ "send" \notin uses => head = <<Piece("head", b)>>
  BY Queues
<1>2. sendbuf \in Seq(Pieces) /\ calls \in Nat
  BY DEF Data
<1>3. /\ x \in Pieces /\ x.blk = b /\ PieceLen(x) = BodyLen[b] /\ BodyLen[b] \in Nat
      /\ h \in Pieces /\ PieceLen(h) = HEADER_SIZE /\ HEADER_SIZE \in Nat
  BY <1>2, PSCSendAssumption DEF Piece, Pieces, PieceLen
<1>4. \/ head = <<>> /\ sendbuf' = Append(sendbuf, x)
      \/ head = <<Piece("head", b)>> /\ sendbuf' = Append(Append(sendbuf, h), x)
  BY <1>1, <1>2, QueueBuf
<1>5. uses' = uses
  BY <1>1 DEF queueBody
<1> HIDE DEF x, h
<1>6. CASE "send" \in uses
  <2>1. CASE sendbuf' = Append(sendbuf, x)
    <3>1. /\ IsFiniteSet(BytesOf(sendbuf')) /\ Bytes(sendbuf) \in Nat
          /\ Bytes(sendbuf') = Bytes(sendbuf) + BodyLen[b]
      BY <1>2, <1>3, <2>1, AddBytes DEF Bounded
    <3>2. Bytes(sendbuf') \in Nat
      BY <1>3, <3>1
    <3> QED BY <1>5, <1>6, <3>1, <3>2 DEF Bounded, SendBufferBounded
  <2>2. CASE sendbuf' = Append(Append(sendbuf, h), x)
    <3>1. /\ Append(sendbuf, h) \in Seq(Pieces) /\ IsFiniteSet(BytesOf(Append(sendbuf, h)))
          /\ Bytes(Append(sendbuf, h)) = Bytes(sendbuf) + HEADER_SIZE /\ Bytes(sendbuf) \in Nat
          /\ Bytes(Append(sendbuf, h)) \in Nat
      BY <1>2, <1>3, AddBytes DEF Bounded
    <3>2. /\ IsFiniteSet(BytesOf(sendbuf'))
          /\ Bytes(sendbuf') = Bytes(Append(sendbuf, h)) + BodyLen[b]
      BY <1>3, <2>2, <3>1, AddBytes
    <3>3. Bytes(sendbuf') \in Nat
      BY <1>3, <3>1, <3>2
    <3> QED BY <1>5, <1>6, <3>2, <3>3 DEF Bounded, SendBufferBounded
  <2> QED BY <1>4, <2>1, <2>2
<1>7. CASE "send" \notin uses
  <2>1. sendbuf' = Append(Append(sendbuf, h), x)
    <3>1. head = <<Piece("head", b)>> /\ <<Piece("head", b)>> # <<>>
      BY <1>1, <1>7
    <3> QED BY <1>4, <3>1
  <2>2. /\ Append(sendbuf, h) \in Seq(Pieces) /\ IsFiniteSet(BytesOf(Append(sendbuf, h)))
        /\ Bytes(Append(sendbuf, h)) = Bytes(sendbuf) + HEADER_SIZE /\ Bytes(sendbuf) \in Nat
    BY <1>2, <1>3, AddBytes DEF Bounded
  <2>3. /\ IsFiniteSet(BytesOf(sendbuf'))
        /\ Bytes(sendbuf') = Bytes(sendbuf) + HEADER_SIZE + BodyLen[b]
    BY <1>3, <2>1, <2>2, AddBytes
  <2>4. Last(sendbuf').blk = b
    <3>1. Last(sendbuf') = x
      BY <1>3, <2>1, <2>2 DEF Last
    <3> QED BY <1>3, <3>1
  <2>5. PSCMaxSendBuffer > 0 => ~(Bytes(sendbuf) >= PSCMaxSendBuffer)
    BY <1>7 DEF queueSend, send, refuses
  <2>6. SendBufferBounded'
    BY <1>3, <2>2, <2>3, <2>4, <2>5, PSCSendAssumption DEF SendBufferBounded
  <2>7. Bytes(sendbuf') \in Nat
    BY <1>3, <2>2, <2>3
  <2> QED BY <2>3, <2>6, <2>7 DEF Bounded
<1> QED BY <1>6, <1>7

LEMMA NextBounded == Data /\ Bounded /\ [Next]_vars => Bounded'
<1> SUFFICES ASSUME Data, Bounded, [Next]_vars PROVE Bounded'
  OBVIOUS
<1>1. ASSUME NEW b \in Block, queueSend(b) \/ send(b) PROVE Bounded'
  BY <1>1, QueueBounded
<1>2. CASE sendbuf' = <<>>
  BY <1>2, NoBytes DEF Bounded, SendBufferBounded
<1>3. CASE UNCHANGED <<sendbuf, uses>>
  BY <1>3 DEF Bounded, SendBufferBounded
<1> QED
  BY <1>1, <1>2, <1>3 DEF Next, vars, eventcb_connected, start_reconnect, flushSend,
                          flushSend_fails, SocketWrite

\* sendbuf exceeds PSCMaxSendBuffer by less than the message that was queued last,
\* for any sizes of messages and any limit, unless "PSC Ctrl Send" records queue
\* without a connection.
THEOREM SpecSendBufferBounded == Spec => []SendBufferBounded
<1>1. Init => Bounded
  BY NoBytes DEF Init, Bounded, SendBufferBounded
<1>2. Bounded => SendBufferBounded
  BY DEF Bounded
<1> QED
  BY <1>1, <1>2, InitData, NextData, NextBounded, PTL DEF Spec
=============================================================================
