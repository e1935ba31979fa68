--------------------------- MODULE ListenerProofs ---------------------------
(***************************************************************************)
(* Proofs about Listener for any clients, descriptors, limits and lengths. *)
(*                                                                         *)
(* ClientsBounded: client_count is what psc_run() tests, and counts the    *)
(* clients served less the one that is not linked yet (Counted), even when *)
(* that one left first and the count is below zero for a while.            *)
(*                                                                         *)
(* MessagesInStep: that the next unread byte is a header depends on all the*)
(* bytes behind it.  Aligned describes a stream of whole messages without  *)
(* recursion; Inside says that the bytes of the message being read, put    *)
(* back before the stream, make it one.  It holds for threads that read    *)
(* streams of their own (OwnStream).                                       *)
(*                                                                         *)
(* ListHoldsClients: the list is a path without repetitions through just   *)
(* the clients that are held (Holds).  That psc_send() walks this path is  *)
(* shown by induction on its length (WalkPath).                            *)
(*                                                                         *)
(* BroadcastReachesAll: on that path every client has a descriptor of its  *)
(* own, unless one was used again (OwnDescriptors).                        *)
(*                                                                         *)
(* Inductions are by LeastNat: a counterexample that is least has none     *)
(* before it.                                                              *)
(***************************************************************************)
EXTENDS Listener, FiniteSetTheorems, WellFoundedInduction, TLAPS

\* The least-number principle.
LEMMA LeastNat ==
  ASSUME NEW S, S \subseteq Nat, S # {}
  PROVE  \E x \in S : \A y \in S : x <= y
<1>1. \E x \in S : \A y \in S : ~(<<y, x>> \in OpToRel(<, Nat))
  BY NatLessThanWellFounded, WFMin, Zenon
<1>2. \A x, y \in S : y < x => <<y, x>> \in OpToRel(<, Nat)
  BY DEF OpToRel
<1>3. \E x \in S : \A y \in S : ~(y < x)
  BY <1>1, <1>2, Zenon
<1> QED
  BY <1>3

\* The least number of a set.
LEMMA MinIn ==
  ASSUME NEW S, S \subseteq Nat, S # {}
  PROVE  Min(S) \in S
  BY LeastNat DEF Min

\* The lesser of two.
LEMMA MinIs ==
  ASSUME NEW a \in Nat, NEW b \in Nat
  PROVE  Min({a, b}) = IF a <= b THEN a ELSE b
<1> DEFINE m == IF a <= b THEN a ELSE b
<1>1. m \in {a, b} /\ \A y \in {a, b} : m <= y
  OBVIOUS
<1>2. \A x \in {a, b} : (\A y \in {a, b} : x <= y) => x = m
  OBVIOUS
<1> HIDE DEF m
<1>3. Min({a, b}) \in {a, b} /\ \A y \in {a, b} : Min({a, b}) <= y
  BY <1>1 DEF Min
<1> QED
  BY <1>2, <1>3 DEF m

\* Arithmetic of an unsigned counter.
LEMMA ModSmall == ASSUME NEW w \in Nat \ {0}, NEW a \in 0..(w - 1) PROVE a % w = a
  OBVIOUS

LEMMA ModWrap == ASSUME NEW w \in Nat \ {0}, NEW a \in 0..(w - 1) PROVE (a + w) % w = a
  OBVIOUS

----------------------------------------------------------------------------
\* The clients, their threads and their descriptors.

\* Where a thread may be.
State == {"none", "conn1", "conn2", "read", "body", "rest", "echo", "unlink", "close", "freed"}

\* The accepting thread and the client threads.
Threads ==
  /\ pc \in [Clients -> State]
  /\ new \in Clients \cup {NULL}
  /\ new # NULL => pc[new] # "none"
  /\ fault \in BOOLEAN

\* Threads have descriptors, and a descriptor that is open names the connection
\* it was given for.
Descriptors ==
  /\ sock \in [Clients -> Socks \cup {NULL}]
  /\ fd \in [Socks -> Clients \cup {NULL}]
  /\ \A c \in Clients : Busy(c) => sock[c] \in Socks
  /\ \A c \in Clients : pc[c] = "none" => sock[c] = NULL
  /\ \A s \in Socks : fd[s] # NULL => sock[fd[s]] = s

\* accept() finds a descriptor that is free.
LEMMA FreeDescriptor ==
  ASSUME Threads, Descriptors, NEW c \in Clients, pc[c] = "none"
  PROVE  Min({t \in Socks : fd[t] = NULL}) \in {t \in Socks : fd[t] = NULL}
<1> USE ListenerAssumption
<1>1. {t \in Socks : fd[t] = NULL} # {}
  <2> SUFFICES ASSUME \A t \in Socks : fd[t] # NULL PROVE FALSE
    OBVIOUS
  <2>1. fd \in [Socks -> Clients \ {c}]
    BY DEF Descriptors
  <2>2. \A s, t \in Socks : fd[s] = fd[t] => s = t
    BY DEF Descriptors
  <2>3. fd \in Injection(Socks, Clients \ {c})
    BY <2>1, <2>2 DEF Injection, IsInjective
  <2>4. IsFiniteSet(Clients \ {c}) /\ Cardinality(Clients \ {c}) = Cardinality(Clients) - 1
    BY FS_RemoveElement
  <2>5. Cardinality(Socks) <= Cardinality(Clients \ {c})
    BY <2>3, <2>4, FS_Injection DEF ExistsInjection
  <2> QED
    BY <2>4, <2>5, FS_CardinalityType
<1> QED
  BY <1>1, MinIn

\* What sendmsg() does to the descriptors: it closes some.
LEMMA SendmsgCloses ==
  ASSUME Descriptors, NEW w, NEW to, NEW bad, sendmsg(w, to, bad), UNCHANGED sock,
         \A c \in Clients : Busy(c)' => Busy(c),
         \A c \in Clients : pc'[c] = "none" => pc[c] = "none"
  PROVE  Descriptors'
<1>1. /\ fd' \in [Socks -> Clients \cup {NULL}]
      /\ \A s \in Socks : fd'[s] \in {fd[s], NULL}
  BY DEF sendmsg, Descriptors
<1> QED
  BY <1>1 DEF Descriptors

\* A broadcast only closes descriptors too.
LEMMA PsendCloses ==
  ASSUME Descriptors, psc_send, UNCHANGED sock,
         \A c \in Clients : Busy(c)' => Busy(c),
         \A c \in Clients : pc'[c] = "none" => pc[c] = "none"
  PROVE  Descriptors'
<1>1. CASE UNCHANGED fd
  BY <1>1 DEF Descriptors
<1>2. CASE \E w, to, bad : sendmsg(w, to, bad)
  BY <1>2, SendmsgCloses
<1> QED
  BY <1>1, <1>2 DEF psc_send

\* What a step of psc_recvmsg() leaves alone, as far as the clients are concerned.
Aside == UNCHANGED <<new, list, active, sock, fd, periodics, missed>>

\* Thread c goes on reading or has a message.
ReadsOn(c) ==
  /\ Aside /\ ~fault /\ pc[c] \in {"read", "body", "rest"}
  /\ \E p \in {"read", "body", "rest", "echo"} : pc' = [pc EXCEPT ![c] = p]
  /\ \/ UNCHANGED <<mishaps, fault>>
     \/ fault' = TRUE /\ mishaps' = mishaps \cup {"overrun"}

\* Thread c gives up.
Leaves(c) ==
  /\ Aside /\ ~fault /\ pc[c] \in {"read", "body", "rest"} /\ UNCHANGED fault
  /\ pc' = [pc EXCEPT ![c] = "unlink"]
  /\ mishaps' = mishaps \cup (IF new = c THEN {"outrun"} ELSE {})

\* The steps of psc_recvmsg().
Reads(c) ==
  psc_recvhead(c) \/ psc_recvall(c) \/ psc_recvskip(c) \/ recvrest(c) \/ recverror(c) \/ psc_recvmsg(c)

\* They are of those two kinds.
LEMMA ReadsAre ==
  ASSUME NEW c \in Clients, Reads(c)
  PROVE  ReadsOn(c) \/ Leaves(c)
<1> USE DEF Aside, ReadsOn, Leaves, goto
<1>1. CASE psc_recvhead(c)
  BY <1>1 DEF psc_recvhead, recv, leave
<1>2. CASE psc_recvall(c)
  BY <1>2 DEF psc_recvall, recv
<1>3. CASE psc_recvskip(c)
  BY <1>3 DEF psc_recvskip, recv
<1>4. CASE recvrest(c)
  BY <1>4 DEF recvrest, recv
<1>5. CASE recverror(c)
  BY <1>5 DEF recverror, leave
<1>6. CASE psc_recvmsg(c)
  BY <1>6 DEF psc_recvmsg
<1> QED
  BY <1>1, <1>2, <1>3, <1>4, <1>5, <1>6 DEF Reads

\* Every step keeps the threads' states.
LEMMA ThreadsStep == ASSUME Threads, [Next]_vars PROVE Threads'
<1> USE ListenerAssumption DEF Threads, State
<1>1. ASSUME NEW c \in Clients, NEW len \in Length, Send(c, len) PROVE Threads'
  BY <1>1 DEF Send
<1>2. ASSUME NEW c \in Clients, accept_drop(c) PROVE Threads'
  BY <1>2 DEF accept_drop, accept, goto
<1>3. ASSUME NEW c \in Clients, accept_start(c) PROVE Threads'
  BY <1>3 DEF accept_start, accept, goto
<1>4. ASSUME NEW c \in Clients, onconn(c) PROVE Threads'
  BY <1>4 DEF onconn, goto
<1>5. ASSUME NEW c \in Clients, ReadsOn(c) PROVE Threads'
  BY <1>5 DEF ReadsOn, Aside
<1>6. ASSUME NEW c \in Clients, rxmsg(c) PROVE Threads'
  <2>1. fault' \in BOOLEAN
    BY <1>6 DEF rxmsg, psc_send
  <2> QED
    BY <1>6, <2>1 DEF rxmsg, goto
<1>7. ASSUME NEW c \in Clients, Leaves(c) PROVE Threads'
  BY <1>7 DEF Leaves, Aside
<1>8. ASSUME NEW c \in Clients, unlink(c) PROVE Threads'
  <2>1. fault' \in BOOLEAN
    BY <1>8 DEF unlink
  <2> QED
    BY <1>8, <2>1 DEF unlink, goto
<1>9. ASSUME NEW c \in Clients, closefree(c) PROVE Threads'
  BY <1>9 DEF closefree, goto
<1>10. CASE link
  BY <1>10 DEF link
<1>11. CASE periodic
  <2>1. fault' \in BOOLEAN
    BY <1>11 DEF periodic, psc_send
  <2> QED
    BY <1>11, <2>1 DEF periodic
<1>12. CASE UNCHANGED vars
  BY <1>12 DEF vars
<1> QED
  BY <1>1, <1>2, <1>3, <1>4, <1>5, <1>6, <1>7, <1>8, <1>9, <1>10, <1>11, <1>12, ReadsAre
     DEF Next, handle_client, Reads

\* Every step keeps the descriptors.
LEMMA DescriptorsStep == ASSUME Threads, Descriptors, [Next]_vars PROVE Descriptors'
<1> USE ListenerAssumption DEF Busy, Live
<1>1. ASSUME NEW c \in Clients, NEW len \in Length, Send(c, len) PROVE Descriptors'
  BY <1>1 DEF Send, Descriptors
<1>2. ASSUME NEW c \in Clients, accept_drop(c) PROVE Descriptors'
  BY <1>2 DEF accept_drop, accept, goto, Threads, Descriptors
<1>3. ASSUME NEW c \in Clients, accept_start(c) PROVE Descriptors'
  <2>1. PICK s : s = Min({t \in Socks : fd[t] = NULL})
    OBVIOUS
  <2>2. s \in Socks /\ fd[s] = NULL
    BY <1>3, <2>1, FreeDescriptor DEF accept_start, goto
  <2>3. sock' = [sock EXCEPT ![c] = s] /\ fd' = [fd EXCEPT ![s] = c] /\ pc' = [pc EXCEPT ![c] = "conn1"]
    BY <1>3, <2>1 DEF accept_start, goto
  <2>4. pc[c] = "none" /\ sock[c] = NULL
    BY <1>3 DEF accept_start, goto, Descriptors
  <2>5. \A t \in Socks : fd[t] # c
    BY <2>4 DEF Descriptors
  <2>6. \A d \in Clients \ {c} : pc'[d] = pc[d] /\ sock'[d] = sock[d]
    BY <2>3 DEF Threads, Descriptors
  <2>7. pc'[c] = "conn1" /\ sock'[c] = s /\ fd'[s] = c /\ \A t \in Socks \ {s} : fd'[t] = fd[t]
    BY <2>2, <2>3 DEF Threads, Descriptors
  <2>8. ASSUME NEW t \in Socks, fd'[t] # NULL PROVE sock'[fd'[t]] = t
    <3>1. CASE t = s
      BY <3>1, <2>7
    <3>2. CASE t # s
      <4>1. fd[t] \in Clients \ {c} /\ fd'[t] = fd[t] /\ sock[fd[t]] = t
        BY <3>2, <2>5, <2>7, <2>8 DEF Descriptors
      <4> QED
        BY <4>1, <2>6
    <3> QED
      BY <3>1, <3>2
  <2>9. sock' \in [Clients -> Socks \cup {NULL}] /\ fd' \in [Socks -> Clients \cup {NULL}]
    BY <2>2, <2>3 DEF Descriptors
  <2> QED
    BY <2>2, <2>6, <2>7, <2>8, <2>9 DEF Descriptors
<1>4. ASSUME NEW c \in Clients, onconn(c) PROVE Descriptors'
  <2>1. /\ \A d \in Clients : Busy(d)' => Busy(d)
        /\ \A d \in Clients : pc'[d] = "none" => pc[d] = "none"
    BY <1>4 DEF onconn, goto, Threads
  <2> HIDE DEF Busy, Live
  <2> QED
    BY <1>4, <2>1, SendmsgCloses DEF onconn
<1>5. ASSUME NEW c \in Clients, ReadsOn(c) PROVE Descriptors'
  BY <1>5 DEF ReadsOn, Aside, Threads, Descriptors
<1>6. ASSUME NEW c \in Clients, rxmsg(c) PROVE Descriptors'
  <2>1. /\ \A d \in Clients : Busy(d)' => Busy(d)
        /\ \A d \in Clients : pc'[d] = "none" => pc[d] = "none"
    BY <1>6 DEF rxmsg, goto, Threads
  <2> HIDE DEF Busy, Live
  <2> QED
    BY <1>6, <2>1, PsendCloses DEF rxmsg
<1>7. ASSUME NEW c \in Clients, Leaves(c) PROVE Descriptors'
  BY <1>7 DEF Leaves, Aside, Threads, Descriptors
<1>8. ASSUME NEW c \in Clients, unlink(c) PROVE Descriptors'
  BY <1>8 DEF unlink, goto, Threads, Descriptors
<1>9. ASSUME NEW c \in Clients, closefree(c) PROVE Descriptors'
  BY <1>9 DEF closefree, goto, Threads, Descriptors
<1>10. CASE link
  BY <1>10 DEF link, Descriptors
<1>11. CASE periodic
  <2>1. /\ \A d \in Clients : Busy(d)' => Busy(d)
        /\ \A d \in Clients : pc'[d] = "none" => pc[d] = "none"
    BY <1>11 DEF periodic
  <2> HIDE DEF Busy, Live
  <2> QED
    BY <1>11, <2>1, PsendCloses DEF periodic
<1>12. CASE UNCHANGED vars
  BY <1>12 DEF vars, Descriptors
<1> QED
  BY <1>1, <1>2, <1>3, <1>4, <1>5, <1>6, <1>7, <1>8, <1>9, <1>10, <1>11, <1>12, ReadsAre
     DEF Next, handle_client, Reads

----------------------------------------------------------------------------
\* ClientsBounded.

\* The clients that count.
Served == {c \in Clients : Live(c) \/ pc[c] = "unlink"}

\* client_count is the number of clients that are served, less the one that
\* psc_run() has not linked; it is below zero when that one has gone first.
Counted ==
  \/ fault
  \/ new = NULL /\ client_count = Cardinality(Served)
  \/ new # NULL /\ Cardinality(Served) > 0 /\ client_count = Cardinality(Served) - 1
  \/ new # NULL /\ Cardinality(Served) = 0 /\ client_count = Wrap - 1

\* The inductive invariant of the count.
CountInv == Threads /\ Cardinality(Served) <= PSC_MAX_CLIENTS /\ Counted

\* They can be counted.
LEMMA ServedFinite ==
  /\ IsFiniteSet(Served) /\ Cardinality(Served) \in Nat
  /\ \A c : IsFiniteSet(Served \cup {c}) /\ IsFiniteSet(Served \ {c})
<1>1. Served \subseteq Clients /\ IsFiniteSet(Clients)
  BY ListenerAssumption DEF Served
<1>2. IsFiniteSet(Served)
  BY <1>1, FS_Subset
<1> QED
  BY <1>2, FS_CardinalityType, FS_AddElement, FS_RemoveElement

\* A step that no client joins or leaves.
LEMMA CountSame ==
  ASSUME CountInv, Threads', Served' = Served, UNCHANGED <<new, client_count>>, fault' \/ UNCHANGED fault
  PROVE  CountInv'
  BY DEF CountInv, Counted

\* accept() adds one, leaving removes one, and the count follows, modulo Wrap.
LEMMA CountStep == ASSUME CountInv, [Next]_vars PROVE CountInv'
<1> USE ListenerAssumption
<1>t. Threads /\ Threads' /\ pc \in [Clients -> State]
  BY ThreadsStep DEF CountInv, Threads
<1>f. /\ IsFiniteSet(Served) /\ Cardinality(Served) \in Nat
      /\ Cardinality(Served) <= PSC_MAX_CLIENTS /\ Counted
  BY ServedFinite DEF CountInv
<1>1. ASSUME NEW c \in Clients, NEW len \in Length, Send(c, len) PROVE CountInv'
  BY <1>1, <1>t, CountSame DEF Send, Served, Live, list
<1>2. ASSUME NEW c \in Clients, accept_drop(c) PROVE CountInv'
  <2>1. Served' = Served
    BY <1>2, <1>t DEF accept_drop, goto, Served, Live
  <2> QED
    BY <1>2, <2>1, <1>t, CountSame DEF accept_drop, list
<1>3. ASSUME NEW c \in Clients, accept_start(c) PROVE CountInv'
  <2>1. ~fault /\ new = NULL /\ new' = c /\ client_count < PSC_MAX_CLIENTS /\ UNCHANGED <<fault, client_count>>
    BY <1>3, <1>f, ServedFinite DEF accept_start, accept, full, goto, list, Counted
  <2>2. c \notin Served /\ Served' = Served \cup {c}
    BY <1>3, <1>t DEF accept_start, goto, Served, Live
  <2>3. Cardinality(Served') = Cardinality(Served) + 1
    BY <2>2, <1>f, FS_AddElement
  <2>4. client_count = Cardinality(Served)
    BY <2>1, <1>f DEF Counted
  <2> QED
    BY <2>1, <2>3, <2>4, <1>t, <1>f DEF CountInv, Counted
<1>4. ASSUME NEW c \in Clients, onconn(c) PROVE CountInv'
  <2>1. Served' = Served
    BY <1>4, <1>t DEF onconn, goto, Served, Live
  <2> QED
    BY <1>4, <2>1, <1>t, CountSame DEF onconn, list
<1>5. ASSUME NEW c \in Clients, ReadsOn(c) PROVE CountInv'
  <2>1. Served' = Served
    BY <1>5, <1>t DEF ReadsOn, Served, Live
  <2> QED
    BY <1>5, <2>1, <1>t, CountSame DEF ReadsOn, Aside, list
<1>6. ASSUME NEW c \in Clients, rxmsg(c) PROVE CountInv'
  <2>1. Served' = Served
    BY <1>6, <1>t DEF rxmsg, goto, Served, Live
  <2>2. fault' \/ UNCHANGED fault
    BY <1>6 DEF rxmsg, psc_send
  <2> QED
    BY <1>6, <2>1, <2>2, <1>t, CountSame DEF rxmsg, list
<1>7. ASSUME NEW c \in Clients, Leaves(c) PROVE CountInv'
  <2>1. Served' = Served
    BY <1>7, <1>t DEF Leaves, Served, Live
  <2> QED
    BY <1>7, <2>1, <1>t, CountSame DEF Leaves, Aside, list
<1>8. ASSUME NEW c \in Clients, unlink(c) PROVE CountInv'
  <2>1. c \in Served /\ Served' = Served \ {c}
    BY <1>8, <1>t DEF unlink, goto, Served, Live
  <2>2. Cardinality(Served') = Cardinality(Served) - 1 /\ Cardinality(Served) > 0
    <3>1. Cardinality(Served') = Cardinality(Served) - 1
      BY <2>1, <1>f, FS_RemoveElement
    <3>2. IsFiniteSet(Served') /\ Cardinality(Served') \in Nat
      BY <2>1, <1>f, FS_RemoveElement, FS_CardinalityType
    <3> QED
      BY <3>1, <3>2, <1>f
  <2>3. CASE fault'
    BY <2>2, <2>3, <1>t, <1>f DEF CountInv, Counted
  <2>4. CASE ~fault'
    <3>1. ~fault /\ new' = new /\ client_count' = (client_count + Wrap - 1) % Wrap
      BY <1>8, <2>4 DEF unlink, goto
    <3>2. CASE new = NULL
      <4>1. client_count = Cardinality(Served)
        BY <3>1, <3>2, <1>f DEF Counted
      <4>2. client_count - 1 \in 0..(Wrap - 1) /\ (client_count - 1) + Wrap = client_count + Wrap - 1
        BY <4>1, <2>2, <1>f
      <4>3. client_count' = client_count - 1
        BY <4>2, <3>1, ModWrap
      <4> QED
        BY <4>1, <4>3, <3>1, <3>2, <2>2, <1>t, <1>f DEF CountInv, Counted
    <3>3. CASE new # NULL
      <4>1. client_count = Cardinality(Served) - 1
        BY <3>1, <3>3, <2>2, <1>f DEF Counted
      <4>2. CASE Cardinality(Served) = 1
        <5>1. client_count + Wrap - 1 = Wrap - 1 /\ Wrap - 1 \in 0..(Wrap - 1)
          BY <4>1, <4>2
        <5>2. client_count' = Wrap - 1
          BY <5>1, <3>1, ModSmall
        <5> QED
          BY <4>2, <5>2, <3>1, <3>3, <2>2, <1>t, <1>f DEF CountInv, Counted
      <4>3. CASE Cardinality(Served) > 1
        <5>1. client_count - 1 \in 0..(Wrap - 1) /\ (client_count - 1) + Wrap = client_count + Wrap - 1
          BY <4>1, <4>3, <1>f
        <5>2. client_count' = client_count - 1
          BY <5>1, <3>1, ModWrap
        <5> QED
          BY <4>1, <4>3, <5>2, <3>1, <3>3, <2>2, <1>t, <1>f DEF CountInv, Counted
      <4> QED
        BY <4>2, <4>3, <2>2, <1>f
    <3> QED
      BY <3>2, <3>3
  <2> QED
    BY <2>3, <2>4
<1>9. ASSUME NEW c \in Clients, closefree(c) PROVE CountInv'
  <2>1. Served' = Served
    BY <1>9, <1>t DEF closefree, goto, Served, Live
  <2> QED
    BY <1>9, <2>1, <1>t, CountSame DEF closefree
<1>10. CASE link
  <2>1. /\ Served' = Served /\ ~fault /\ ~fault' /\ new # NULL /\ new' = NULL
        /\ client_count' = (client_count + 1) % Wrap
    BY <1>10 DEF link, Served, Live
  <2>2. CASE Cardinality(Served) = 0
    <3>1. client_count + 1 = 0 + Wrap /\ 0 \in 0..(Wrap - 1)
      BY <2>1, <2>2, <1>f DEF Counted
    <3>2. client_count' = 0
      BY <2>1, <3>1, ModWrap
    <3> QED
      BY <2>1, <2>2, <3>2, <1>t, <1>f DEF CountInv, Counted
  <2>3. CASE Cardinality(Served) > 0
    <3>1. client_count + 1 = Cardinality(Served) /\ Cardinality(Served) \in 0..(Wrap - 1)
      BY <2>1, <2>3, <1>f DEF Counted
    <3>2. client_count' = Cardinality(Served)
      BY <2>1, <3>1, ModSmall
    <3> QED
      BY <2>1, <2>3, <3>2, <1>t, <1>f DEF CountInv, Counted
  <2> QED
    BY <2>2, <2>3, <1>f
<1>11. CASE periodic
  <2>1. fault' \/ UNCHANGED fault
    BY <1>11 DEF periodic, psc_send
  <2> QED
    BY <1>11, <2>1, <1>t, CountSame DEF periodic, list, Served, Live
<1>12. CASE UNCHANGED vars
  BY <1>12, <1>t, CountSame DEF vars, list, Served, Live
<1> QED
  BY <1>1, <1>2, <1>3, <1>4, <1>5, <1>6, <1>7, <1>8, <1>9, <1>10, <1>11, <1>12, ReadsAre
     DEF Next, handle_client, Reads

\* The first state.
LEMMA InitThreads == Init => Threads /\ Descriptors
  BY ListenerAssumption DEF Init, Threads, Descriptors, State, Busy, Live

\* psc_run() serves no more than PSC_MAX_CLIENTS clients at a time, although it
\* links a client after its thread has started and that thread may end first.
THEOREM SpecClientsBounded == Spec => []ClientsBounded
<1>1. Init => CountInv
  <2> SUFFICES ASSUME Init PROVE CountInv
    OBVIOUS
  <2>1. Served = {}
    BY DEF Init, Served, Live
  <2> QED
    BY <2>1, InitThreads, FS_EmptySet, ListenerAssumption DEF Init, CountInv, Counted
<1>2. CountInv /\ [Next]_vars => CountInv'
  BY CountStep
<1>3. CountInv => ClientsBounded
  BY DEF CountInv, Served, ClientsBounded
<1> QED
  BY <1>1, <1>2, <1>3, PTL DEF Spec

----------------------------------------------------------------------------
\* While no descriptor was used again, each belongs to one thread.
OwnDescriptors ==
  /\ \A c \in Clients : ~Busy(c) => sock[c] = NULL
  /\ "reuse" \notin mishaps => \A c, d \in Clients : Busy(c) /\ Busy(d) /\ sock[c] = sock[d] => c = d

\* A step that gives out no descriptor.
LEMMA OwnSame ==
  ASSUME OwnDescriptors, mishaps \subseteq mishaps', UNCHANGED sock,
         \A c \in Clients : Busy(c)' <=> Busy(c)
  PROVE  OwnDescriptors'
  BY DEF OwnDescriptors

\* Every step keeps descriptors apart.
LEMMA OwnStep == ASSUME Threads, Descriptors, OwnDescriptors, [Next]_vars PROVE OwnDescriptors'
<1> USE ListenerAssumption
<1>t. pc \in [Clients -> State]
  BY DEF Threads
<1>1. ASSUME NEW c \in Clients, NEW len \in Length, Send(c, len) PROVE OwnDescriptors'
  BY <1>1, OwnSame DEF Send, Busy, Live
<1>2. ASSUME NEW c \in Clients, accept_drop(c) PROVE OwnDescriptors'
  <2>1. \A d \in Clients : Busy(d)' <=> Busy(d)
    BY <1>2, <1>t DEF accept_drop, goto, Busy, Live
  <2> QED
    BY <1>2, <2>1, OwnSame DEF accept_drop
<1>3. ASSUME NEW c \in Clients, accept_start(c) PROVE OwnDescriptors'
  <2>1. PICK s : s = Min({t \in Socks : fd[t] = NULL})
    OBVIOUS
  <2>2. /\ sock' = [sock EXCEPT ![c] = s] /\ pc' = [pc EXCEPT ![c] = "conn1"]
        /\ mishaps \subseteq mishaps'
        /\ "reuse" \notin mishaps' => ~ \E d \in Clients : Busy(d) /\ sock[d] = s
    BY <1>3, <2>1 DEF accept_start, goto
  <2>3. Busy(c)' /\ sock'[c] = s /\ \A d \in Clients \ {c} : (Busy(d)' <=> Busy(d)) /\ sock'[d] = sock[d]
    BY <2>2, <1>t DEF Busy, Live, Descriptors
  <2> QED
    BY <2>2, <2>3 DEF OwnDescriptors
<1>4. ASSUME NEW c \in Clients, onconn(c) PROVE OwnDescriptors'
  <2>1. \A d \in Clients : Busy(d)' <=> Busy(d)
    BY <1>4, <1>t DEF onconn, goto, Busy, Live
  <2>2. mishaps \subseteq mishaps' /\ UNCHANGED sock
    BY <1>4 DEF onconn, sendmsg
  <2> QED
    BY <2>1, <2>2, OwnSame
<1>5. ASSUME NEW c \in Clients, ReadsOn(c) PROVE OwnDescriptors'
  <2>1. \A d \in Clients : Busy(d)' <=> Busy(d)
    BY <1>5, <1>t DEF ReadsOn, Busy, Live
  <2> QED
    BY <1>5, <2>1, OwnSame DEF ReadsOn, Aside
<1>6. ASSUME NEW c \in Clients, rxmsg(c) PROVE OwnDescriptors'
  <2>1. \A d \in Clients : Busy(d)' <=> Busy(d)
    BY <1>6, <1>t DEF rxmsg, goto, Busy, Live
  <2>2. mishaps \subseteq mishaps' /\ UNCHANGED sock
    BY <1>6 DEF rxmsg, psc_send, sendmsg
  <2> QED
    BY <2>1, <2>2, OwnSame
<1>7. ASSUME NEW c \in Clients, Leaves(c) PROVE OwnDescriptors'
  <2>1. \A d \in Clients : Busy(d)' <=> Busy(d)
    BY <1>7, <1>t DEF Leaves, Busy, Live
  <2> QED
    BY <1>7, <2>1, OwnSame DEF Leaves, Aside
<1>8. ASSUME NEW c \in Clients, unlink(c) PROVE OwnDescriptors'
  <2>1. \A d \in Clients : Busy(d)' <=> Busy(d)
    BY <1>8, <1>t DEF unlink, goto, Busy, Live
  <2>2. mishaps \subseteq mishaps' /\ UNCHANGED sock
    BY <1>8 DEF unlink
  <2> QED
    BY <2>1, <2>2, OwnSame
<1>9. ASSUME NEW c \in Clients, closefree(c) PROVE OwnDescriptors'
  <2>1. /\ sock' = [sock EXCEPT ![c] = NULL] /\ pc' = [pc EXCEPT ![c] = "freed"]
        /\ mishaps' = mishaps
    BY <1>9 DEF closefree, goto
  <2>2. ~Busy(c)' /\ sock'[c] = NULL /\ \A d \in Clients \ {c} : (Busy(d)' <=> Busy(d)) /\ sock'[d] = sock[d]
    BY <2>1, <1>t DEF Busy, Live, Descriptors
  <2> QED
    BY <2>1, <2>2 DEF OwnDescriptors
<1>10. CASE link
  BY <1>10, OwnSame DEF link, Busy, Live
<1>11. CASE periodic
  <2>1. mishaps \subseteq mishaps' /\ UNCHANGED <<sock, pc>>
    BY <1>11 DEF periodic, psc_send, sendmsg
  <2> QED
    BY <2>1, OwnSame DEF Busy, Live
<1>12. CASE UNCHANGED vars
  BY <1>12, OwnSame DEF vars, Busy, Live
<1> QED
  BY <1>1, <1>2, <1>3, <1>4, <1>5, <1>6, <1>7, <1>8, <1>9, <1>10, <1>11, <1>12, ReadsAre
     DEF Next, handle_client, Reads

----------------------------------------------------------------------------
\* MessagesInStep.

\* A sequence and another after it.
LEMMA Joined ==
  ASSUME NEW T, NEW s \in Seq(T), NEW t \in Seq(T)
  PROVE  /\ s \o t \in Seq(T) /\ Len(s \o t) = Len(s) + Len(t)
         /\ \A i \in 1..Len(s) : (s \o t)[i] = s[i]
         /\ \A i \in 1..Len(t) : (s \o t)[Len(s) + i] = t[i]
  OBVIOUS

\* Bytes of a client's stream.
Byte == [n : Nat, k : Nat]

\* A stream s of messages with the lengths l, in order: a header is followed by
\* its body, a body by the next header.
Whole(s, l) ==
  \A i \in 1..Len(s) :
    /\ s[i].n \in 1..Len(l)
    /\ s[i].k = 0 => \A j \in 0..l[s[i].n] : i + j <= Len(s) /\ s[i + j] = [n |-> s[i].n, k |-> j]
    /\ s[i].k = l[s[i].n] /\ i < Len(s) => s[i + 1] = [n |-> s[i].n + 1, k |-> 0]

\* Such a stream after the first m messages were read: it begins with the next
\* header and ends with the last message.
Aligned(s, l, m) ==
  /\ s \in Seq(Byte) /\ l \in Seq(Nat) /\ m \in 0..Len(l)
  /\ Whole(s, l)
  /\ s = <<>> => m = Len(l)
  /\ s # <<>> => s[1] = [n |-> m + 1, k |-> 0] /\ s[Len(s)] = [n |-> Len(l), k |-> l[Len(l)]]

\* The bytes of a message.
LEMMA BytesAre ==
  ASSUME NEW n \in Nat, NEW f \in Nat, NEW t \in Nat, f <= t + 1
  PROVE  /\ Bytes(n, f, t) \in Seq(Byte) /\ Len(Bytes(n, f, t)) = (t - f) + 1
         /\ \A i \in 1..((t - f) + 1) : Bytes(n, f, t)[i] = [n |-> n, k |-> f + (i - 1)]
<1>1. PICK L \in Nat : L = (t - f) + 1
  OBVIOUS
<1>2. \A i \in 1..L : [n |-> n, k |-> f + (i - 1)] \in Byte
  BY DEF Byte
<1>3. Bytes(n, f, t) = [i \in 1..L |-> [n |-> n, k |-> f + (i - 1)]]
  BY <1>1 DEF Bytes
<1>4. Bytes(n, f, t) \in Seq(Byte)
  <2>1. PICK g : g = [i \in 1..L |-> [n |-> n, k |-> f + (i - 1)]]
    OBVIOUS
  <2>2. g \in [1..L -> Byte]
    <3>1. \A i \in 1..L : [n |-> n, k |-> f + (i - 1)] \in Byte
      BY <1>2
    <3> QED
      BY <2>1, <3>1, Zenon
  <2>3. g \in Seq(Byte)
    BY <2>2
  <2> QED
    BY <2>1, <2>3, <1>3
<1>5. Len(Bytes(n, f, t)) = L
  BY <1>3
<1>6. \A i \in 1..L : Bytes(n, f, t)[i] = [n |-> n, k |-> f + (i - 1)]
  BY <1>3
<1> QED
  BY <1>1, <1>4, <1>5, <1>6

\* A message is added at the end.
LEMMA AddMessage ==
  ASSUME NEW s, NEW l, NEW m, Aligned(s, l, m), NEW len \in Nat
  PROVE  Aligned(s \o Bytes(Len(l) + 1, 0, len), Append(l, len), m)
<1> DEFINE N == Len(l) + 1
           b == Bytes(N, 0, len)
           t == s \o b
           k == Append(l, len)
<1>1. s \in Seq(Byte) /\ l \in Seq(Nat) /\ Len(l) \in Nat /\ Len(s) \in Nat /\ N \in Nat /\ m \in 0..Len(l)
  BY DEF Aligned
<1>2. b \in Seq(Byte) /\ Len(b) = len + 1 /\ \A i \in 1..(len + 1) : b[i] = [n |-> N, k |-> i - 1]
  <2>1. /\ b \in Seq(Byte) /\ Len(b) = (len - 0) + 1
        /\ \A i \in 1..((len - 0) + 1) : b[i] = [n |-> N, k |-> 0 + (i - 1)]
    <3>1. 0 \in Nat /\ 0 <= len + 1
      OBVIOUS
    <3> HIDE DEF N
    <3> QED
      BY <1>1, <3>1, BytesAre
  <2>2. (len - 0) + 1 = len + 1 /\ \A i \in 1..(len + 1) : 0 + (i - 1) = i - 1
    OBVIOUS
  <2> QED
    BY <2>1, <2>2
<1>3. k \in Seq(Nat) /\ Len(k) = N /\ k[N] = len /\ \A i \in 1..Len(l) : k[i] = l[i]
  BY <1>1
<1> HIDE DEF b, k
<1>4. t \in Seq(Byte) /\ Len(t) = Len(s) + len + 1
  <2>1. t \in Seq(Byte) /\ Len(t) = Len(s) + Len(b)
    BY <1>1, <1>2, Joined
  <2> QED
    BY <1>1, <1>2, <2>1
<1>5. \A i \in 1..Len(s) : t[i] = s[i]
  BY <1>1, <1>2
<1>6. \A i \in (Len(s) + 1)..Len(t) : t[i] = [n |-> N, k |-> (i - Len(s)) - 1]
  <2> TAKE i \in (Len(s) + 1)..Len(t)
  <2>1. i - Len(s) \in 1..(len + 1) /\ t[i] = b[i - Len(s)]
    BY <1>1, <1>2, <1>4
  <2> QED
    BY <2>1, <1>2
<1>7. t # <<>> /\ t[1] = [n |-> m + 1, k |-> 0] /\ t[Len(t)] = [n |-> Len(k), k |-> k[Len(k)]]
  <2>1. t[Len(t)] = [n |-> N, k |-> len]
    <3>1. Len(t) \in (Len(s) + 1)..Len(t) /\ (Len(t) - Len(s)) - 1 = len
      BY <1>1, <1>4
    <3> QED
      BY <3>1, <1>6
  <2>2. CASE s = <<>>
    <3>1. m = Len(l) /\ Len(s) = 0
      BY <2>2 DEF Aligned
    <3>2. 1 \in (Len(s) + 1)..Len(t) /\ (1 - Len(s)) - 1 = 0
      BY <3>1, <1>4
    <3> QED
      BY <2>1, <3>1, <3>2, <1>3, <1>4, <1>6
  <2>3. CASE s # <<>>
    <3>1. s[1] = [n |-> m + 1, k |-> 0] /\ 1 \in 1..Len(s)
      BY <2>3, <1>1 DEF Aligned
    <3> QED
      BY <2>1, <3>1, <1>3, <1>4, <1>5
  <2> QED
    BY <2>2, <2>3
<1> HIDE DEF t
<1>8. ASSUME NEW i \in 1..Len(t)
      PROVE  /\ t[i].n \in 1..Len(k)
             /\ t[i].k = 0 => \A j \in 0..k[t[i].n] : i + j <= Len(t) /\ t[i + j] = [n |-> t[i].n, k |-> j]
             /\ t[i].k = k[t[i].n] /\ i < Len(t) => t[i + 1] = [n |-> t[i].n + 1, k |-> 0]
  <2>1. CASE i \in 1..Len(s)
    <3>1. /\ s[i].n \in 1..Len(l)
          /\ s[i].k = 0 => \A j \in 0..l[s[i].n] : i + j <= Len(s) /\ s[i + j] = [n |-> s[i].n, k |-> j]
          /\ s[i].k = l[s[i].n] /\ i < Len(s) => s[i + 1] = [n |-> s[i].n + 1, k |-> 0]
      BY <2>1 DEF Aligned, Whole
    <3>2. t[i] = s[i] /\ k[s[i].n] = l[s[i].n] /\ t[i].n \in 1..Len(k) /\ l[s[i].n] \in Nat
      <4>1. t[i] = s[i] /\ k[s[i].n] = l[s[i].n]
        BY <2>1, <3>1, <1>3, <1>5
      <4>2. PICK x : x = s[i].n
        OBVIOUS
      <4>3. x \in 1..Len(l) /\ x \in 1..Len(k)
        BY <3>1, <4>2, <1>1, <1>3
      <4>4. l[x] \in Nat
        BY <4>3, <1>1
      <4> QED
        BY <4>1, <4>2, <4>3, <4>4
    <3>3. ASSUME t[i].k = 0, NEW j \in 0..k[t[i].n]
          PROVE  i + j <= Len(t) /\ t[i + j] = [n |-> t[i].n, k |-> j]
      <4>1. j \in 0..l[s[i].n] /\ s[i].k = 0
        BY <3>2, <3>3
      <4>2. i + j <= Len(s) /\ s[i + j] = [n |-> s[i].n, k |-> j]
        BY <3>1, <4>1
      <4>3. i + j \in 1..Len(s)
        BY <2>1, <3>2, <4>1, <4>2, <1>1, SMTT(30)
      <4> QED
        BY <4>2, <4>3, <3>2, <1>1, <1>4, <1>5, SMTT(30)
    <3>4. ASSUME t[i].k = k[t[i].n], i < Len(t)
          PROVE  t[i + 1] = [n |-> t[i].n + 1, k |-> 0]
      <4>1. CASE i < Len(s)
        <5>1. i + 1 \in 1..Len(s)
          BY <2>1, <4>1, <1>1
        <5> QED
          BY <5>1, <3>1, <3>2, <3>4, <4>1, <1>5
      <4>2. CASE i = Len(s)
        <5>1. s[i].n = Len(l)
          BY <2>1, <4>2, <1>1 DEF Aligned
        <5>2. i + 1 \in (Len(s) + 1)..Len(t) /\ ((i + 1) - Len(s)) - 1 = 0
          BY <4>2, <1>1, <1>4
        <5>3. t[i + 1] = [n |-> N, k |-> 0]
          BY <5>2, <1>6
        <5> QED
          BY <5>1, <5>3, <3>2
      <4> QED
        BY <2>1, <4>1, <4>2, <1>1
    <3> QED
      BY <3>2, <3>3, <3>4
  <2>2. CASE i \in (Len(s) + 1)..Len(t)
    <3>1. t[i] = [n |-> N, k |-> (i - Len(s)) - 1]
      BY <2>2, <1>6
    <3>2. t[i].n = N /\ t[i].k = (i - Len(s)) - 1 /\ k[t[i].n] = len /\ N \in 1..Len(k)
      BY <3>1, <1>1, <1>3
    <3>3. ASSUME t[i].k = 0, NEW j \in 0..len
          PROVE  i + j <= Len(t) /\ t[i + j] = [n |-> t[i].n, k |-> j]
      <4>1. i = Len(s) + 1
        BY <3>2, <3>3, <2>2, <1>1
      <4>2. i + j \in (Len(s) + 1)..Len(t) /\ ((i + j) - Len(s)) - 1 = j
        BY <4>1, <1>1, <1>4
      <4>3. t[i + j] = [n |-> N, k |-> j]
        BY <4>2, <1>6
      <4> QED
        BY <3>2, <4>2, <4>3
    <3>4. t[i].k = len => i = Len(t)
      <4>1. (i - Len(s)) - 1 = len => i = Len(s) + len + 1
        BY <2>2, <1>1, <1>4
      <4> QED
        BY <4>1, <3>2, <1>4
    <3> QED
      BY <3>2, <3>3, <3>4, <1>1, <1>4, SMTT(30)
  <2> QED
    BY <2>1, <2>2, <1>1, <1>4
<1>9. m \in 0..Len(k)
  BY <1>1, <1>3
<1> QED
  BY <1>3, <1>4, <1>7, <1>8, <1>9 DEF Aligned, Whole, t, k, b

\* A part of a sequence.
LEMMA Part ==
  ASSUME NEW T, NEW s \in Seq(T), NEW a \in 1..(Len(s) + 1), NEW b \in (a - 1)..Len(s)
  PROVE  /\ SubSeq(s, a, b) \in Seq(T) /\ Len(SubSeq(s, a, b)) = (b - a) + 1
         /\ \A i \in 1..((b - a) + 1) : SubSeq(s, a, b)[i] = s[(a - 1) + i]
  OBVIOUS

\* Sequences with the same elements.
LEMMA SameSeq ==
  ASSUME NEW T, NEW s \in Seq(T), NEW t \in Seq(T), Len(s) = Len(t),
         \A i \in 1..Len(s) : s[i] = t[i]
  PROVE  s = t
  OBVIOUS

\* The first message of a stream, and what is left after it.
LEMMA TakeMessage ==
  ASSUME NEW s, NEW l, NEW m, Aligned(s, l, m), s # <<>>
  PROVE  /\ m + 1 \in 1..Len(l) /\ l[m + 1] \in Nat /\ 1 + l[m + 1] <= Len(s)
         /\ s[1] = [n |-> m + 1, k |-> 0]
         /\ \A r \in 0..l[m + 1] : SubSeq(s, 2, 1 + r) = Bytes(m + 1, 1, r)
         /\ Aligned(SubSeq(s, (1 + l[m + 1]) + 1, Len(s)), l, m + 1)
<1>1. s \in Seq(Byte) /\ l \in Seq(Nat) /\ m \in 0..Len(l) /\ Len(s) \in Nat \ {0} /\ Len(l) \in Nat
  BY DEF Aligned
<1>2. s[1] = [n |-> m + 1, k |-> 0] /\ s[Len(s)] = [n |-> Len(l), k |-> l[Len(l)]]
  BY DEF Aligned
<1>w. \A i \in 1..Len(s) :
        /\ s[i].n \in 1..Len(l)
        /\ s[i].k = 0 => \A j \in 0..l[s[i].n] : i + j <= Len(s) /\ s[i + j] = [n |-> s[i].n, k |-> j]
        /\ s[i].k = l[s[i].n] /\ i < Len(s) => s[i + 1] = [n |-> s[i].n + 1, k |-> 0]
  BY DEF Aligned, Whole
<1>3. PICK M : M = m + 1
  OBVIOUS
<1>4. 1 \in 1..Len(s) /\ s[1].n = M /\ s[1].k = 0
  BY <1>1, <1>2, <1>3
<1>5. M \in 1..Len(l)
  BY <1>4, <1>w
<1>6. PICK L : L = l[M]
  OBVIOUS
<1>7. L \in Nat
  BY <1>1, <1>5, <1>6
<1>8. \A j \in 0..L : 1 + j <= Len(s) /\ s[1 + j] = [n |-> M, k |-> j]
  BY <1>4, <1>6, <1>w
<1>9. 1 + L <= Len(s) /\ s[1 + L] = [n |-> M, k |-> L]
  BY <1>7, <1>8
<1>10. ASSUME NEW r \in 0..L PROVE SubSeq(s, 2, 1 + r) = Bytes(M, 1, r)
  <2>1. /\ Bytes(M, 1, r) \in Seq(Byte) /\ Len(Bytes(M, 1, r)) = (r - 1) + 1
        /\ \A i \in 1..((r - 1) + 1) : Bytes(M, 1, r)[i] = [n |-> M, k |-> 1 + (i - 1)]
    <3>1. 1 \in Nat /\ M \in Nat /\ r \in Nat /\ 1 <= r + 1
      BY <1>5, <1>7
    <3> QED
      BY <3>1, BytesAre
  <2>2. /\ SubSeq(s, 2, 1 + r) \in Seq(Byte) /\ Len(SubSeq(s, 2, 1 + r)) = ((1 + r) - 2) + 1
        /\ \A i \in 1..(((1 + r) - 2) + 1) : SubSeq(s, 2, 1 + r)[i] = s[(2 - 1) + i]
    <3>1. 2 \in 1..(Len(s) + 1) /\ 1 + r \in (2 - 1)..Len(s)
      BY <1>1, <1>7, <1>9
    <3> QED
      BY <1>1, <3>1, Part
  <2>3. (r - 1) + 1 = r /\ ((1 + r) - 2) + 1 = r /\ 2 - 1 = 1
    BY <1>7
  <2>4. ASSUME NEW i \in 1..r PROVE SubSeq(s, 2, 1 + r)[i] = Bytes(M, 1, r)[i]
    <3>1. i \in 0..L /\ 1 + (i - 1) = i
      BY <1>7
    <3>2. s[1 + i] = [n |-> M, k |-> i]
      BY <1>8, <3>1
    <3> QED
      BY <2>1, <2>2, <2>3, <3>1, <3>2
  <2> QED
    BY <2>1, <2>2, <2>3, <2>4, SameSeq
<1>11. PICK u : u = SubSeq(s, (1 + L) + 1, Len(s))
  OBVIOUS
<1>12. /\ u \in Seq(Byte) /\ Len(u) = Len(s) - (1 + L) /\ Len(u) \in Nat
       /\ \A i \in 1..Len(u) : u[i] = s[(1 + L) + i]
  <2>1. (1 + L) + 1 \in 1..(Len(s) + 1) /\ Len(s) \in (((1 + L) + 1) - 1)..Len(s)
    BY <1>1, <1>7, <1>9
  <2>2. /\ u \in Seq(Byte) /\ Len(u) = (Len(s) - ((1 + L) + 1)) + 1
        /\ \A i \in 1..((Len(s) - ((1 + L) + 1)) + 1) : u[i] = s[(((1 + L) + 1) - 1) + i]
    BY <1>1, <1>11, <2>1, Part
  <2>3. (Len(s) - ((1 + L) + 1)) + 1 = Len(s) - (1 + L) /\ ((1 + L) + 1) - 1 = 1 + L
    BY <1>1, <1>7
  <2> QED
    BY <1>1, <1>7, <1>9, <2>2, <2>3
<1>13. u = <<>> => M = Len(l)
  <2> SUFFICES ASSUME u = <<>> PROVE M = Len(l)
    OBVIOUS
  <2>1. Len(s) = 1 + L
    BY <1>1, <1>7, <1>12
  <2> QED
    BY <2>1, <1>2, <1>9
<1>14. u # <<>> => u[1] = [n |-> M + 1, k |-> 0] /\ u[Len(u)] = [n |-> Len(l), k |-> l[Len(l)]]
  <2> SUFFICES ASSUME u # <<>>
               PROVE  u[1] = [n |-> M + 1, k |-> 0] /\ u[Len(u)] = [n |-> Len(l), k |-> l[Len(l)]]
    OBVIOUS
  <2>1. Len(u) > 0 /\ 1 + L < Len(s) /\ 1 + L \in 1..Len(s)
    BY <1>1, <1>7, <1>12
  <2>2. s[1 + L].k = l[s[1 + L].n] /\ s[1 + L].n = M
    BY <1>9, <1>6
  <2>3. s[(1 + L) + 1] = [n |-> M + 1, k |-> 0]
    BY <1>w, <2>1, <2>2
  <2>4. u[1] = s[(1 + L) + 1]
    BY <1>12, <2>1
  <2>5. u[Len(u)] = s[(1 + L) + Len(u)] /\ (1 + L) + Len(u) = Len(s)
    BY <1>1, <1>7, <1>12, <2>1
  <2> QED
    BY <2>3, <2>4, <2>5, <1>2
<1>15. ASSUME NEW i \in 1..Len(u)
       PROVE  /\ u[i].n \in 1..Len(l)
              /\ u[i].k = 0 => \A j \in 0..l[u[i].n] : i + j <= Len(u) /\ u[i + j] = [n |-> u[i].n, k |-> j]
              /\ u[i].k = l[u[i].n] /\ i < Len(u) => u[i + 1] = [n |-> u[i].n + 1, k |-> 0]
  <2>1. PICK I : I = (1 + L) + i
    OBVIOUS
  <2>2. I \in 1..Len(s) /\ u[i] = s[I]
    BY <1>1, <1>7, <1>12, <2>1
  <2>3. /\ s[I].n \in 1..Len(l)
        /\ s[I].k = 0 => \A j \in 0..l[s[I].n] : I + j <= Len(s) /\ s[I + j] = [n |-> s[I].n, k |-> j]
        /\ s[I].k = l[s[I].n] /\ I < Len(s) => s[I + 1] = [n |-> s[I].n + 1, k |-> 0]
    BY <1>w, <2>2
  <2>4. PICK x : x = s[I].n
    OBVIOUS
  <2>5. l[x] \in Nat
    BY <2>3, <2>4, <1>1, SMTT(30)
  <2>6. ASSUME s[I].k = 0, NEW j \in 0..l[x]
        PROVE  i + j <= Len(u) /\ u[i + j] = [n |-> x, k |-> j]
    <3>1. I + j <= Len(s) /\ s[I + j] = [n |-> x, k |-> j]
      BY <2>3, <2>4, <2>6
    <3>2. i + j \in 1..Len(u) /\ I + j = (1 + L) + (i + j)
      BY <1>1, <1>7, <1>12, <2>1, <2>5, <3>1
    <3> QED
      BY <1>12, <3>1, <3>2
  <2>7. ASSUME s[I].k = l[x], i < Len(u)
        PROVE  u[i + 1] = [n |-> x + 1, k |-> 0]
    <3>a. i < Len(u)
      BY <2>7
    <3>b. Len(u) = Len(s) - (1 + L) /\ Len(u) \in Nat
      BY <1>12
    <3>1. I < Len(s) /\ i + 1 \in 1..Len(u) /\ I + 1 = (1 + L) + (i + 1)
      BY <1>1, <1>7, <2>1, <3>a, <3>b
    <3>2. s[I + 1] = [n |-> x + 1, k |-> 0]
      BY <2>3, <2>4, <2>7, <3>1
    <3> QED
      BY <1>12, <3>1, <3>2
  <2> QED
    BY <2>2, <2>3, <2>4, <2>6, <2>7
<1>16. Aligned(u, l, M)
  <2>1. M \in 0..Len(l)
    BY <1>5
  <2> QED
    BY <2>1, <1>1, <1>12, <1>13, <1>14, <1>15 DEF Aligned, Whole
<1> QED
  BY <1>2, <1>3, <1>5, <1>6, <1>7, <1>9, <1>10, <1>11, <1>16

\* The bytes from the header on, and those of the body.
LEMMA HeadBytes ==
  ASSUME NEW n \in Nat, NEW j \in Nat
  PROVE  /\ Bytes(n, 0, j) \in Seq(Byte) /\ Len(Bytes(n, 0, j)) = j + 1
         /\ \A i \in 1..(j + 1) : Bytes(n, 0, j)[i] = [n |-> n, k |-> i - 1]
<1>1. 0 \in Nat /\ 0 <= j + 1
  OBVIOUS
<1>2. PICK b : b = Bytes(n, 0, j)
  OBVIOUS
<1>3. /\ b \in Seq(Byte) /\ Len(b) = (j - 0) + 1
      /\ \A i \in 1..((j - 0) + 1) : b[i] = [n |-> n, k |-> 0 + (i - 1)]
  BY <1>1, <1>2, BytesAre
<1>4. (j - 0) + 1 = j + 1 /\ \A i \in 1..(j + 1) : 0 + (i - 1) = i - 1
  OBVIOUS
<1>5. b \in Seq(Byte) /\ Len(b) = j + 1 /\ \A i \in 1..(j + 1) : b[i] = [n |-> n, k |-> i - 1]
  BY <1>3, <1>4
<1> QED
  BY <1>2, <1>5

LEMMA BodyBytes ==
  ASSUME NEW n \in Nat, NEW j \in Nat
  PROVE  /\ Bytes(n, 1, j) \in Seq(Byte) /\ Len(Bytes(n, 1, j)) = j
         /\ \A i \in 1..j : Bytes(n, 1, j)[i] = [n |-> n, k |-> i]
<1>1. 1 \in Nat /\ 1 <= j + 1
  OBVIOUS
<1>2. PICK b : b = Bytes(n, 1, j)
  OBVIOUS
<1>3. /\ b \in Seq(Byte) /\ Len(b) = (j - 1) + 1
      /\ \A i \in 1..((j - 1) + 1) : b[i] = [n |-> n, k |-> 1 + (i - 1)]
  BY <1>1, <1>2, BytesAre
<1>4. (j - 1) + 1 = j /\ \A i \in 1..j : 1 + (i - 1) = i
  OBVIOUS
<1>5. b \in Seq(Byte) /\ Len(b) = j /\ \A i \in 1..j : b[i] = [n |-> n, k |-> i]
  BY <1>3, <1>4
<1> QED
  BY <1>2, <1>5

\* A sequence's first element and the others.
LEMMA Parts ==
  ASSUME NEW T, NEW s \in Seq(T), s # <<>>
  PROVE  /\ Len(s) \in Nat \ {0} /\ Head(s) = s[1] /\ Tail(s) \in Seq(T) /\ Len(Tail(s)) = Len(s) - 1
         /\ \A i \in 1..Len(Tail(s)) : Tail(s)[i] = s[i + 1]
  OBVIOUS

\* The first element of s goes from s to the end of b, which makes it B.
LEMMA Moved ==
  ASSUME NEW T, NEW s \in Seq(T), s # <<>>, NEW b \in Seq(T), NEW B \in Seq(T),
         Len(B) = Len(b) + 1, \A i \in 1..Len(b) : B[i] = b[i], B[Len(b) + 1] = s[1]
  PROVE  B \o Tail(s) = b \o s
<1>1. PICK u, t, v : u = Tail(s) /\ t = b \o s /\ v = B \o u
  OBVIOUS
<1>2. PICK j \in Nat : j = Len(b)
  OBVIOUS
<1>u. u \in Seq(T)
  BY <1>1, Parts
<1>3. PICK r \in Nat : r = Len(u)
  BY <1>u
<1>4. u \in Seq(T) /\ Len(s) = r + 1 /\ \A i \in 1..r : u[i] = s[i + 1]
  BY <1>1, <1>3, Parts
<1>5. /\ t \in Seq(T) /\ Len(t) = j + (r + 1) /\ \A i \in 1..j : t[i] = b[i]
      /\ \A i \in 1..(r + 1) : t[j + i] = s[i]
  BY <1>1, <1>2, <1>4, Joined
<1>6. /\ v \in Seq(T) /\ Len(v) = (j + 1) + r /\ \A i \in 1..(j + 1) : v[i] = B[i]
      /\ \A i \in 1..r : v[(j + 1) + i] = u[i]
  <2>1. /\ v \in Seq(T) /\ Len(v) = Len(B) + Len(u) /\ \A i \in 1..Len(B) : v[i] = B[i]
        /\ \A i \in 1..Len(u) : v[Len(B) + i] = u[i]
    BY <1>1, <1>4, Joined
  <2>2. Len(B) = j + 1
    BY <1>2
  <2> QED
    BY <2>1, <2>2, <1>3
<1>7. ASSUME NEW i \in 1..Len(v) PROVE v[i] = t[i]
  <2>1. CASE i \in 1..j
    <3>1. i \in 1..(j + 1)
      BY <2>1
    <3> QED
      BY <2>1, <3>1, <1>2, <1>5, <1>6
  <2>2. CASE i = j + 1
    <3>1. i \in 1..(j + 1) /\ 1 \in 1..(r + 1)
      BY <2>2
    <3>2. v[i] = s[1]
      BY <2>2, <3>1, <1>2, <1>6
    <3>3. t[i] = s[1]
      BY <2>2, <3>1, <1>5
    <3> QED
      BY <3>2, <3>3
  <2>3. CASE i \notin 1..(j + 1)
    <3>1. PICK h \in 1..r : i = (j + 1) + h
      <4>1. i - (j + 1) \in 1..r /\ i = (j + 1) + (i - (j + 1))
        BY <2>3, <1>6
      <4> QED
        BY <4>1
    <3>2. h + 1 \in 1..(r + 1) /\ i = j + (h + 1)
      BY <3>1
    <3>3. v[i] = s[h + 1]
      BY <3>1, <1>4, <1>6
    <3>4. t[i] = s[h + 1]
      BY <3>2, <1>5
    <3> QED
      BY <3>3, <3>4
  <2> QED
    BY <2>1, <2>2, <2>3
<1>8. Len(v) = Len(t)
  BY <1>5, <1>6
<1>9. v = t
  BY <1>5, <1>6, <1>7, <1>8, SameSeq
<1> QED
  BY <1>1, <1>9

\* A header is read: put back, the stream is what it was.
LEMMA TakeHeader ==
  ASSUME NEW s, NEW l, NEW m, Aligned(s, l, m), s # <<>>
  PROVE  /\ m + 1 \in 1..Len(l) /\ Head(s) = [n |-> m + 1, k |-> 0]
         /\ Tail(s) \in Seq(Byte) /\ Bytes(m + 1, 0, 0) \o Tail(s) = s
<1>1. s \in Seq(Byte) /\ s[1] = [n |-> m + 1, k |-> 0] /\ m + 1 \in 1..Len(l) /\ m \in Nat
  <2>1. s \in Seq(Byte) /\ l \in Seq(Nat) /\ m \in 0..Len(l)
    BY DEF Aligned
  <2>2. m + 1 \in 1..Len(l) /\ s[1] = [n |-> m + 1, k |-> 0]
    BY TakeMessage
  <2> QED
    BY <2>1, <2>2
<1>2. Head(s) = s[1] /\ Tail(s) \in Seq(Byte)
  BY <1>1, Parts
<1>3. PICK n \in Nat : n = m + 1
  BY <1>1
<1>4. PICK b : b = Bytes(n, 0, 0)
  OBVIOUS
<1>5. b \in Seq(Byte) /\ Len(b) = 1 /\ b[1] = [n |-> n, k |-> 0]
  <2>1. 0 \in Nat /\ 0 + 1 = 1 /\ 1 \in 1..1 /\ 1 - 1 = 0
    OBVIOUS
  <2>2. b \in Seq(Byte) /\ Len(b) = 0 + 1 /\ \A i \in 1..(0 + 1) : b[i] = [n |-> n, k |-> i - 1]
    BY <2>1, <1>4, HeadBytes
  <2> QED
    BY <2>1, <2>2
<1>6. b \o Tail(s) = <<>> \o s
  <2>1. PICK e : e = <<>>
    OBVIOUS
  <2>2. e \in Seq(Byte) /\ Len(e) = 0
    BY <2>1
  <2>3. Len(b) = Len(e) + 1 /\ b[Len(e) + 1] = s[1] /\ \A i \in 1..Len(e) : b[i] = e[i]
    BY <2>2, <1>1, <1>3, <1>5
  <2>4. b \o Tail(s) = e \o s
    BY <2>2, <2>3, <1>1, <1>5, Moved
  <2> QED
    BY <2>1, <2>4
<1>7. <<>> \o s = s
  BY <1>1
<1> QED
  BY <1>1, <1>2, <1>3, <1>4, <1>6, <1>7

\* A byte of the message is read.
LEMMA TakeByte ==
  ASSUME NEW s \in Seq(Byte), NEW l, NEW n \in Nat, NEW j \in Nat, n \in 1..Len(l), j + 1 <= l[n],
         Aligned(Bytes(n, 0, j) \o s, l, n - 1), s # <<>>
  PROVE  /\ Head(s) = [n |-> n, k |-> j + 1] /\ Tail(s) \in Seq(Byte)
         /\ Bytes(n, 0, j + 1) \o Tail(s) = Bytes(n, 0, j) \o s
<1>1. PICK J \in Nat : J = j + 1
  OBVIOUS
<1>2. PICK b, B, t : b = Bytes(n, 0, j) /\ B = Bytes(n, 0, J) /\ t = b \o s
  OBVIOUS
<1>3. b \in Seq(Byte) /\ Len(b) = J /\ \A i \in 1..J : b[i] = [n |-> n, k |-> i - 1]
  BY <1>1, <1>2, HeadBytes
<1>4. B \in Seq(Byte) /\ Len(B) = J + 1 /\ \A i \in 1..(J + 1) : B[i] = [n |-> n, k |-> i - 1]
  BY <1>2, HeadBytes
<1>5. Len(s) \in Nat \ {0} /\ Head(s) = s[1] /\ Tail(s) \in Seq(Byte)
  BY Parts
<1>6. /\ t \in Seq(Byte) /\ Len(t) = J + Len(s) /\ \A i \in 1..J : t[i] = b[i]
      /\ \A i \in 1..Len(s) : t[J + i] = s[i]
  <2>1. /\ t \in Seq(Byte) /\ Len(t) = Len(b) + Len(s) /\ \A i \in 1..Len(b) : t[i] = b[i]
        /\ \A i \in 1..Len(s) : t[Len(b) + i] = s[i]
    BY <1>2, <1>3, Joined
  <2> QED
    BY <2>1, <1>3
<1>7. s[1] = [n |-> n, k |-> J]
  <2>1. Aligned(t, l, n - 1)
    BY <1>2
  <2>2. l \in Seq(Nat) /\ \A i \in 1..Len(t) : t[i].k = 0 => \A h \in 0..l[t[i].n] : t[i + h] = [n |-> t[i].n, k |-> h]
    BY <2>1 DEF Aligned, Whole
  <2>3. l[n] \in Nat
    BY <2>2
  <2>4. t[1] = [n |-> n, k |-> 0] /\ 1 \in 1..Len(t)
    <3>1. 1 \in 1..J /\ 1 - 1 = 0 /\ 1 \in 1..Len(t)
      BY <1>1, <1>5, <1>6
    <3> QED
      BY <3>1, <1>3, <1>6
  <2>5. t[1].n = n /\ t[1].k = 0
    BY <2>4
  <2>6. \A h \in 0..l[n] : t[1 + h] = [n |-> n, k |-> h]
    BY <2>2, <2>4, <2>5
  <2>7. J \in 0..l[n] /\ 1 + J = J + 1 /\ 1 \in 1..Len(s)
    BY <2>3, <1>1, <1>5
  <2> QED
    BY <2>6, <2>7, <1>6
<1>8. B \o Tail(s) = b \o s
  <2>1. \A i \in 1..J : B[i] = b[i]
    BY <1>3, <1>4
  <2>2. B[J + 1] = [n |-> n, k |-> J]
    <3>1. J + 1 \in 1..(J + 1) /\ (J + 1) - 1 = J
      OBVIOUS
    <3> QED
      BY <3>1, <1>4
  <2>3. Len(B) = Len(b) + 1 /\ (\A i \in 1..Len(b) : B[i] = b[i]) /\ B[Len(b) + 1] = s[1]
    BY <2>1, <2>2, <1>3, <1>4, <1>7
  <2> QED
    BY <2>3, <1>3, <1>4, Moved
<1> QED
  BY <1>1, <1>2, <1>5, <1>7, <1>8

\* All of the message was read.
LEMMA EndMessage ==
  ASSUME NEW s \in Seq(Byte), NEW l, NEW n \in Nat, n \in 1..Len(l),
         Aligned(Bytes(n, 0, l[n]) \o s, l, n - 1)
  PROVE  Aligned(s, l, n)
<1>1. l \in Seq(Nat)
  BY DEF Aligned
<1>2. PICK L \in Nat : L = l[n]
  BY <1>1
<1>3. PICK b, t, m : b = Bytes(n, 0, L) /\ t = b \o s /\ m = n - 1
  OBVIOUS
<1>4. b \in Seq(Byte) /\ Len(b) = L + 1
  BY <1>3, HeadBytes
<1>5. /\ t \in Seq(Byte) /\ Len(t) = (1 + L) + Len(s)
      /\ \A i \in 1..Len(s) : t[(1 + L) + i] = s[i]
  <2>1. t \in Seq(Byte) /\ Len(t) = Len(b) + Len(s) /\ \A i \in 1..Len(s) : t[Len(b) + i] = s[i]
    BY <1>3, <1>4, Joined
  <2>2. Len(b) = 1 + L
    BY <1>4
  <2> QED
    BY <2>1, <2>2
<1>n. t # <<>> /\ Len(t) \in Nat /\ Len(s) \in Nat
  BY <1>5
<1>6. Aligned(SubSeq(t, (1 + L) + 1, Len(t)), l, n)
  <2>1. Aligned(t, l, m) /\ m + 1 = n
    BY <1>2, <1>3
  <2>2. Aligned(SubSeq(t, (1 + l[m + 1]) + 1, Len(t)), l, m + 1)
    BY <2>1, <1>n, TakeMessage
  <2> QED
    BY <2>1, <2>2, <1>2
<1>7. SubSeq(t, (1 + L) + 1, Len(t)) = s
  <2>1. PICK u : u = SubSeq(t, (1 + L) + 1, Len(t))
    OBVIOUS
  <2>2. (1 + L) + 1 \in 1..(Len(t) + 1) /\ Len(t) \in (((1 + L) + 1) - 1)..Len(t)
    BY <1>5, <1>n
  <2>3. /\ u \in Seq(Byte) /\ Len(u) = (Len(t) - ((1 + L) + 1)) + 1
        /\ \A i \in 1..((Len(t) - ((1 + L) + 1)) + 1) : u[i] = t[(((1 + L) + 1) - 1) + i]
    BY <2>1, <2>2, <1>5, Part
  <2>4. (Len(t) - ((1 + L) + 1)) + 1 = Len(s) /\ ((1 + L) + 1) - 1 = 1 + L
    BY <1>5, <1>n
  <2>5. u \in Seq(Byte) /\ Len(u) = Len(s) /\ \A i \in 1..Len(s) : u[i] = t[(1 + L) + i]
    BY <2>3, <2>4
  <2>6. \A i \in 1..Len(u) : u[i] = s[i]
    BY <2>5, <1>5
  <2> QED
    BY <2>1, <2>5, <2>6, SameSeq
<1> QED
  BY <1>6, <1>7

\* A body grows by its next byte.
LEMMA NextByte ==
  ASSUME NEW n \in Nat, NEW j \in Nat
  PROVE  Append(Bytes(n, 1, j), [n |-> n, k |-> j + 1]) = Bytes(n, 1, j + 1)
<1>1. PICK J \in Nat : J = j + 1
  OBVIOUS
<1>2. PICK b, B, e : b = Bytes(n, 1, j) /\ B = Bytes(n, 1, J) /\ e = [n |-> n, k |-> J]
  OBVIOUS
<1>3. b \in Seq(Byte) /\ Len(b) = j /\ \A i \in 1..j : b[i] = [n |-> n, k |-> i]
  BY <1>2, BodyBytes
<1>4. B \in Seq(Byte) /\ Len(B) = J /\ \A i \in 1..J : B[i] = [n |-> n, k |-> i]
  BY <1>2, BodyBytes
<1>5. e \in Byte
  BY <1>2 DEF Byte
<1>6. PICK a : a = Append(b, e)
  OBVIOUS
<1>7. a \in Seq(Byte) /\ Len(a) = J /\ a[J] = e /\ \A i \in 1..j : a[i] = b[i]
  BY <1>1, <1>3, <1>5, <1>6
<1>8. ASSUME NEW i \in 1..Len(a) PROVE a[i] = B[i]
  <2>1. CASE i = J
    BY <2>1, <1>2, <1>4, <1>7
  <2>2. CASE i \in 1..j
    <3>1. i \in 1..J
      BY <2>2, <1>1
    <3> QED
      BY <3>1, <2>2, <1>3, <1>4, <1>7
  <2> QED
    BY <2>1, <2>2, <1>1, <1>7
<1>9. a = B
  BY <1>4, <1>7, <1>8, SameSeq
<1> QED
  BY <1>1, <1>2, <1>6, <1>9

----------------------------------------------------------------------------
\* How much of a message is kept.
Kept(L) == Min({L, PSC_MAX_RX_MSG_LEN})

\* It is no more than there is.
LEMMA KeptIs == ASSUME NEW L \in Nat PROVE Kept(L) \in Nat /\ Kept(L) <= L
  BY ListenerAssumption, MinIs DEF Kept

\* The variables of psc_recvmsg().
Locals == [buf : Seq(Byte), want : Nat, len : Nat, cnt : Nat]

\* Thread c is inside message n of length L with x: what it has of the body, and
\* how many bytes it has read behind the header.
Local(x, n, L) ==
  /\ x \in Locals
  /\ x.want <= Kept(L) /\ x.len <= L - Kept(L)
  /\ x.want > 0 => x.len = L - Kept(L) /\ x.cnt = 0
  /\ x.len > 0 => x.cnt < x.len /\ x.cnt < SkipChunk
  /\ x.len = 0 => x.cnt = 0
  /\ x.buf = Bytes(n, 1, Kept(L) - x.want)
Place(x, L) == ((L - x.len) - x.want) + x.cnt

\* Put back, those bytes make s a stream of whole messages.
Inside(s, l, n, x) ==
  /\ n \in Nat /\ n \in 1..Len(l) /\ l[n] \in Nat /\ Local(x, n, l[n]) /\ Place(x, l[n]) \in Nat
  /\ Aligned(Bytes(n, 0, Place(x, l[n])) \o s, l, n - 1)

\* Stages at which a thread is between messages.
Between == {"none", "conn1", "conn2", "read", "echo"}

\* What a thread got is right.
Right(l, g) ==
  /\ l \in Seq(Nat) /\ g \in Seq(Seq(Byte)) /\ Len(g) \in 0..Len(l)
  /\ \A n \in 1..Len(g) : g[n] = Bytes(n, 1, Kept(l[n]))

\* A thread at stage p, its stream, what was sent, what it got and its locals.
InStep(p, s, l, g, x) ==
  /\ s \in Seq(Byte) /\ Right(l, g)
  /\ p \in Between => Aligned(s, l, Len(g))
  /\ p = "body" => Inside(s, l, Len(g) + 1, x)

\* psc_recvhead(): from between messages into one.
LEMMA InHead ==
  ASSUME NEW s, NEW l, NEW g, NEW x, InStep("read", s, l, g, x), s # <<>>
  PROVE  /\ Head(s) = [n |-> Len(g) + 1, k |-> 0] /\ l[Len(g) + 1] \in Nat
         /\ InStep("body", Tail(s), l, g,
                   [idle EXCEPT !.want = Kept(l[Len(g) + 1]),
                                !.len = l[Len(g) + 1] - Kept(l[Len(g) + 1])])
<1>1. s \in Seq(Byte) /\ Right(l, g) /\ Aligned(s, l, Len(g))
  BY DEF InStep, Between
<1>2. PICK m \in Nat : m = Len(g)
  BY <1>1 DEF Right
<1>3. PICK n \in Nat : n = m + 1
  OBVIOUS
<1>4. /\ n \in 1..Len(l) /\ Head(s) = [n |-> n, k |-> 0]
      /\ Tail(s) \in Seq(Byte) /\ Bytes(n, 0, 0) \o Tail(s) = s
  BY <1>1, <1>2, <1>3, TakeHeader
<1>5. PICK L \in Nat : L = l[n]
  BY <1>1, <1>4 DEF Right
<1>6. PICK R \in Nat : R = Kept(L) /\ R <= L
  BY KeptIs
<1>7. PICK y : y = [idle EXCEPT !.want = R, !.len = L - R]
  OBVIOUS
<1>8. y \in Locals /\ y.buf = <<>> /\ y.want = R /\ y.len = L - R /\ y.cnt = 0
  <2>1. idle \in Locals /\ R \in Nat /\ L - R \in Nat
    BY <1>6 DEF idle, Locals
  <2>2. y = [buf |-> <<>>, want |-> R, len |-> L - R, cnt |-> 0]
    BY <1>7 DEF idle
  <2> QED
    BY <2>1, <2>2 DEF Locals
<1>9. Bytes(n, 1, R - R) = <<>>
  <2>1. R - R = 0
    OBVIOUS
  <2>2. Bytes(n, 1, 0) \in Seq(Byte) /\ Len(Bytes(n, 1, 0)) = 0
    <3>1. 0 \in Nat
      OBVIOUS
    <3> QED
      BY <3>1, BodyBytes
  <2>3. Bytes(n, 1, 0) = <<>>
    BY <2>2
  <2> QED
    BY <2>1, <2>3
<1>10. Local(y, n, L) /\ Place(y, L) = 0
  <2>s. 0 < SkipChunk
    <3>1. SkipChunk \in Nat \ {0}
      BY ListenerAssumption
    <3> QED
      BY <3>1
  <2>1. R <= R /\ L - R <= L - R /\ L - R \in Nat /\ 0 \in Nat /\ ((L - (L - R)) - R) + 0 = 0
        /\ (L - R > 0 => 0 < L - R)
    <3>1. R <= L
      BY <1>6
    <3>2. PICK D \in Nat : D = L - R
      BY <3>1
    <3>3. R <= R /\ D <= D /\ ((L - D) - R) + 0 = 0 /\ 0 \in Nat /\ (D > 0 => 0 < D)
      BY <3>2
    <3> QED
      BY <3>2, <3>3, Zenon
  <2> QED
    BY <2>s, <2>1, <1>6, <1>8, <1>9 DEF Local, Place
<1>11. Inside(Tail(s), l, n, y)
  <2>1. n - 1 = m /\ 0 \in Nat
    BY <1>3
  <2>2. Aligned(Bytes(n, 0, 0) \o Tail(s), l, n - 1)
    BY <2>1, <1>1, <1>2, <1>4
  <2> QED
    BY <2>1, <2>2, <1>4, <1>5, <1>10 DEF Inside
<1>12. InStep("body", Tail(s), l, g, y)
  <2>1. "body" \notin Between
    BY DEF Between
  <2> QED
    BY <2>1, <1>1, <1>2, <1>3, <1>4, <1>11 DEF InStep
<1> QED
  BY <1>2, <1>3, <1>4, <1>5, <1>6, <1>7, <1>12

\* A byte of the body, or one that is skipped.
LEMMA InByte ==
  ASSUME NEW s, NEW l, NEW g, NEW x, NEW y, InStep("body", s, l, g, x), s # <<>>,
         Place(x, l[Len(g) + 1]) + 1 <= l[Len(g) + 1],
         Place(y, l[Len(g) + 1]) = Place(x, l[Len(g) + 1]) + 1,
         Local(y, Len(g) + 1, l[Len(g) + 1])
  PROVE  InStep("body", Tail(s), l, g, y)
<1>1. PICK n : n = Len(g) + 1
  OBVIOUS
<1>2. PICK j : j = Place(x, l[n])
  OBVIOUS
<1>3. s \in Seq(Byte) /\ Right(l, g) /\ Inside(s, l, n, x)
  BY <1>1 DEF InStep
<1>4. n \in Nat /\ n \in 1..Len(l) /\ l[n] \in Nat /\ j \in Nat /\ Aligned(Bytes(n, 0, j) \o s, l, n - 1)
      /\ j + 1 <= l[n] /\ Place(y, l[n]) = j + 1 /\ Local(y, n, l[n])
  BY <1>1, <1>2, <1>3 DEF Inside
<1>5. Tail(s) \in Seq(Byte) /\ Bytes(n, 0, j + 1) \o Tail(s) = Bytes(n, 0, j) \o s
  BY <1>3, <1>4, TakeByte
<1>6. Inside(Tail(s), l, n, y)
  <2>1. Aligned(Bytes(n, 0, j + 1) \o Tail(s), l, n - 1)
    BY <1>4, <1>5, Zenon
  <2>2. j + 1 \in Nat
    BY <1>4
  <2> QED
    BY <2>1, <2>2, <1>4 DEF Inside
<1> QED
  BY <1>1, <1>3, <1>5, <1>6 DEF InStep, Between

\* The byte that comes is the next one of the message.
LEMMA InNext ==
  ASSUME NEW s, NEW l, NEW g, NEW x, InStep("body", s, l, g, x), s # <<>>,
         Place(x, l[Len(g) + 1]) + 1 <= l[Len(g) + 1]
  PROVE  Head(s) = [n |-> Len(g) + 1, k |-> Place(x, l[Len(g) + 1]) + 1]
<1>1. PICK n : n = Len(g) + 1
  OBVIOUS
<1>2. PICK j : j = Place(x, l[n])
  OBVIOUS
<1>3. s \in Seq(Byte) /\ n \in Nat /\ n \in 1..Len(l) /\ j \in Nat
      /\ Aligned(Bytes(n, 0, j) \o s, l, n - 1) /\ j + 1 <= l[n]
  BY <1>1, <1>2 DEF InStep, Inside
<1> QED
  BY <1>1, <1>2, <1>3, TakeByte

\* psc_recvall() of the body.
LEMMA InBody ==
  ASSUME NEW s, NEW l, NEW g, NEW x, InStep("body", s, l, g, x), s # <<>>, x.want > 0,
         NEW y, y = [x EXCEPT !.buf = Append(x.buf, Head(s)), !.want = x.want - 1]
  PROVE  InStep("body", Tail(s), l, g, y)
<1>1. PICK n : n = Len(g) + 1
  OBVIOUS
<1>2. n \in Nat /\ l[n] \in Nat /\ Local(x, n, l[n])
  BY <1>1 DEF InStep, Inside
<1>3. PICK L \in Nat : L = l[n]
  BY <1>2
<1>4. PICK R \in Nat : R = Kept(L) /\ R <= L
  BY KeptIs
<1>5. PICK w \in Nat : w = x.want /\ w > 0 /\ w <= R /\ x.len = L - R /\ x.cnt = 0 /\ x.buf = Bytes(n, 1, R - w)
  BY <1>2, <1>3, <1>4 DEF Local, Locals
<1>y. y.buf = Append(x.buf, Head(s)) /\ y.want = w - 1 /\ y.len = x.len /\ y.cnt = x.cnt
  <2>1. x \in Locals
    BY <1>2 DEF Local
  <2> QED
    BY <2>1, <1>5 DEF Locals
<1>6. Place(x, L) = R - w /\ Place(y, L) = (R - w) + 1
  BY <1>4, <1>5, <1>y DEF Place
<1>7. Head(s) = [n |-> n, k |-> (R - w) + 1]
  <2>1. (R - w) + 1 <= L
    BY <1>4, <1>5
  <2> QED
    BY <2>1, <1>1, <1>3, <1>6, InNext
<1>8. y.buf = Bytes(n, 1, R - (w - 1))
  <2>1. R - w \in Nat /\ (R - w) + 1 = R - (w - 1)
    BY <1>5
  <2>2. Append(Bytes(n, 1, R - w), [n |-> n, k |-> (R - w) + 1]) = Bytes(n, 1, (R - w) + 1)
    BY <2>1, <1>2, NextByte
  <2> QED
    BY <2>1, <2>2, <1>5, <1>7, <1>y
<1>9. Local(y, n, L)
  <2>1. y.want = w - 1 /\ y.len = L - R /\ y.cnt = 0
    BY <1>5, <1>y
  <2>l. y \in Locals
    <3>1. x \in Locals /\ w - 1 \in Nat /\ R - (w - 1) \in Nat
      BY <1>2, <1>5 DEF Local
    <3>2. PICK j \in Nat : j = R - (w - 1)
      BY <3>1
    <3>3. Bytes(n, 1, j) \in Seq(Byte)
      BY <1>2, BodyBytes
    <3>4. y.buf \in Seq(Byte)
      BY <3>2, <3>3, <1>8
    <3> QED
      BY <3>1, <3>4, <1>5, <1>y DEF Locals
  <2>s. SkipChunk \in Nat \ {0}
    BY ListenerAssumption
  <2>2. w - 1 \in Nat /\ L - R \in Nat /\ 0 \in Nat /\ w - 1 <= R /\ L - R <= L - R
        /\ (L - R > 0 => 0 < L - R /\ 0 < SkipChunk)
    BY <1>4, <1>5, <2>s
  <2> QED
    BY <2>1, <2>2, <2>l, <1>4, <1>8 DEF Local
<1>10. (R - w) + 1 <= L
  BY <1>4, <1>5
<1> QED
  BY <1>1, <1>3, <1>6, <1>9, <1>10, InByte

\* psc_recvskip().
LEMMA InSkip ==
  ASSUME NEW s, NEW l, NEW g, NEW x, InStep("body", s, l, g, x), s # <<>>, x.want = 0, x.len > 0,
         NEW piece, piece = Min({x.len, SkipChunk}),
         NEW y, y = IF x.cnt + 1 < piece THEN [x EXCEPT !.cnt = x.cnt + 1]
                    ELSE [x EXCEPT !.cnt = 0, !.len = x.len - piece]
  PROVE  InStep("body", Tail(s), l, g, y)
<1>1. PICK n : n = Len(g) + 1
  OBVIOUS
<1>2. n \in Nat /\ l[n] \in Nat /\ Local(x, n, l[n])
  BY <1>1 DEF InStep, Inside
<1>3. PICK L \in Nat : L = l[n]
  BY <1>2
<1>4. PICK R \in Nat : R = Kept(L) /\ R <= L
  BY KeptIs
<1>5. PICK e \in Nat, h \in Nat : e = x.len /\ h = x.cnt /\ e > 0 /\ e <= L - R /\ h < e /\ h < SkipChunk
                                 /\ x.buf = Bytes(n, 1, R - 0) /\ x \in Locals
  BY <1>2, <1>3, <1>4 DEF Local, Locals
<1>6. SkipChunk \in Nat \ {0}
  BY ListenerAssumption
<1>7. piece \in Nat \ {0} /\ piece <= e /\ piece <= SkipChunk /\ h < piece
  <2>1. PICK K \in Nat : K = SkipChunk /\ K > 0 /\ h < K
    BY <1>5, <1>6
  <2>2. piece = IF e <= K THEN e ELSE K
    BY <2>1, <1>5, MinIs
  <2>3. CASE e <= K
    <3>1. piece = e /\ e <= K /\ e > 0 /\ h < e
      BY <2>2, <2>3, <1>5
    <3> QED
      BY <3>1, <2>1
  <2>4. CASE ~(e <= K)
    <3>1. piece = K
      BY <2>2, <2>4
    <3>2. K <= e /\ K <= K
      BY <2>4
    <3> QED
      BY <3>1, <3>2, <2>1
  <2> QED
    BY <2>3, <2>4
<1>8. PICK E \in Nat, H \in Nat : /\ E = y.len /\ H = y.cnt /\ y.want = 0 /\ y.buf = x.buf /\ y \in Locals
                                 /\ \/ h + 1 < piece /\ H = h + 1 /\ E = e
                                    \/ h + 1 = piece /\ H = 0 /\ E = e - piece
  <2>1. CASE h + 1 < piece
    <3>1. y = [x EXCEPT !.cnt = h + 1] /\ h + 1 \in Nat
      BY <2>1, <1>5
    <3>2. y.len = e /\ y.cnt = h + 1 /\ y.want = 0 /\ y.buf = x.buf /\ y \in Locals
      BY <3>1, <1>5 DEF Locals
    <3> QED
      BY <3>1, <3>2, <2>1, <1>5
  <2>2. CASE ~(h + 1 < piece)
    <3>1. h + 1 = piece /\ e - piece \in Nat
      BY <2>2, <1>5, <1>7
    <3>2. y = [x EXCEPT !.cnt = 0, !.len = e - piece]
      BY <2>2, <1>5
    <3>3. y.len = e - piece /\ y.cnt = 0 /\ y.want = 0 /\ y.buf = x.buf /\ y \in Locals
      BY <3>1, <3>2, <1>5 DEF Locals
    <3> QED
      BY <3>1, <3>3
  <2> QED
    BY <2>1, <2>2
<1>9. Place(x, L) = (L - e) + h /\ Place(y, L) = (L - E) + H
  BY <1>5, <1>8 DEF Place
<1>10. (L - E) + H = ((L - e) + h) + 1 /\ ((L - e) + h) + 1 <= L /\ E <= L - R
       /\ (E > 0 => H < E /\ H < SkipChunk) /\ (E = 0 => H = 0)
  <2>1. PICK K \in Nat : K = SkipChunk
    BY <1>6
  <2>2. e <= L - R /\ R <= L /\ h < e
    BY <1>4, <1>5
  <2>p. PICK P \in Nat : P = piece
    BY <1>7
  <2>3. CASE h + 1 < piece /\ H = h + 1 /\ E = e
    <3>1. h + 1 < P /\ P <= e /\ P <= K /\ H = h + 1 /\ E = e
      BY <2>1, <2>3, <2>p, <1>7
    <3>2. (L - E) + H = ((L - e) + h) + 1 /\ ((L - e) + h) + 1 <= L /\ E <= L - R /\ H < E /\ H < K /\ E # 0
      BY <2>2, <3>1
    <3> QED
      BY <2>1, <3>2
  <2>4. CASE h + 1 = piece /\ H = 0 /\ E = e - piece
    <3>1. h + 1 = P /\ P <= e /\ P <= K /\ H = 0 /\ E = e - P
      BY <2>1, <2>4, <2>p, <1>7
    <3>2. (L - E) + H = ((L - e) + h) + 1 /\ ((L - e) + h) + 1 <= L /\ E <= L - R /\ (E > 0 => H < E) /\ H < K
      BY <2>2, <3>1
    <3> QED
      BY <2>1, <3>1, <3>2
  <2> QED
    BY <2>3, <2>4, <1>8
<1>11. Local(y, n, L)
  <2>1. y.want = 0 /\ y.buf = Bytes(n, 1, R - 0) /\ 0 \in Nat /\ 0 <= R /\ ~(0 > 0)
    BY <1>5, <1>8
  <2> QED
    BY <2>1, <1>4, <1>8, <1>10 DEF Local
<1> QED
  BY <1>1, <1>3, <1>9, <1>10, <1>11, InByte

\* psc_recvmsg() returns: the body is the message's, and the next header is next.
LEMMA InDone ==
  ASSUME NEW s, NEW l, NEW g, NEW x, InStep("body", s, l, g, x), x.want = 0, x.len = 0, NEW y
  PROVE  \A p \in {"read", "echo"} : InStep(p, s, l, Append(g, x.buf), y)
<1>1. s \in Seq(Byte) /\ Right(l, g) /\ Inside(s, l, Len(g) + 1, x)
  BY DEF InStep
<1>2. PICK m \in Nat : m = Len(g)
  BY <1>1 DEF Right
<1>3. PICK n \in Nat : n = m + 1
  OBVIOUS
<1>4. n \in 1..Len(l) /\ l[n] \in Nat /\ Local(x, n, l[n]) /\ Aligned(Bytes(n, 0, Place(x, l[n])) \o s, l, n - 1)
  BY <1>1, <1>2, <1>3 DEF Inside
<1>5. PICK L \in Nat : L = l[n]
  BY <1>4
<1>6. PICK R \in Nat : R = Kept(L) /\ R <= L
  BY KeptIs
<1>7. x.cnt = 0 /\ x.buf = Bytes(n, 1, R)
  <2>1. x.cnt = 0 /\ x.buf = Bytes(n, 1, R - 0) /\ R - 0 = R
    BY <1>4, <1>5, <1>6 DEF Local
  <2> QED
    BY <2>1
<1>8. Place(x, L) = L
  BY <1>7 DEF Place
<1>9. Aligned(s, l, n)
  BY <1>1, <1>4, <1>5, <1>8, EndMessage
<1>10. PICK b, e : b = x.buf /\ e = Append(g, b)
  OBVIOUS
<1>11. b \in Seq(Byte)
  BY <1>7, <1>10, BodyBytes
<1>12. e \in Seq(Seq(Byte)) /\ Len(e) = n /\ e[n] = b /\ \A i \in 1..m : e[i] = g[i]
  <2>1. PICK T : T = Seq(Byte)
    OBVIOUS
  <2>2. g \in Seq(T) /\ b \in T
    BY <2>1, <1>1, <1>11 DEF Right
  <2> QED
    BY <2>1, <2>2, <1>2, <1>3, <1>10
<1>13. Right(l, e)
  <2>1. ASSUME NEW i \in 1..Len(e) PROVE e[i] = Bytes(i, 1, Kept(l[i]))
    <3>1. CASE i = n
      BY <3>1, <1>5, <1>6, <1>7, <1>10, <1>12
    <3>2. CASE i # n
      <4>1. i \in 1..m
        BY <3>2, <1>3, <1>12
      <4> QED
        BY <4>1, <1>1, <1>2, <1>12 DEF Right
    <3> QED
      BY <3>1, <3>2
  <2>2. Len(e) \in 0..Len(l)
    BY <1>4, <1>12
  <2> QED
    BY <2>1, <2>2, <1>1, <1>12 DEF Right
<1>14. "read" # "body" /\ "echo" # "body"
  OBVIOUS
<1> QED
  BY <1>1, <1>9, <1>10, <1>12, <1>13, <1>14 DEF InStep

\* A message is sent.
LEMMA InSend ==
  ASSUME NEW p, NEW s, NEW l, NEW g, NEW x, InStep(p, s, l, g, x), NEW len \in Nat
  PROVE  InStep(p, s \o Bytes(Len(l) + 1, 0, len), Append(l, len), g, x)
<1>1. s \in Seq(Byte) /\ Right(l, g) /\ l \in Seq(Nat) /\ Len(l) \in Nat
  BY DEF InStep, Right
<1>2. PICK k, b, t : k = Append(l, len) /\ b = Bytes(Len(l) + 1, 0, len) /\ t = s \o b
  OBVIOUS
<1>3. k \in Seq(Nat) /\ Len(k) = Len(l) + 1 /\ \A i \in 1..Len(l) : k[i] = l[i]
  BY <1>1, <1>2
<1>4. b \in Seq(Byte) /\ t \in Seq(Byte)
  <2>1. b \in Seq(Byte)
    BY <1>1, <1>2, BytesAre
  <2> QED
    BY <2>1, <1>1, <1>2, Joined
<1>5. Right(k, g)
  <2>1. Len(g) \in 0..Len(k) /\ g \in Seq(Seq(Byte)) /\ \A i \in 1..Len(g) : i \in 1..Len(l)
    BY <1>1, <1>3 DEF Right
  <2> QED
    BY <2>1, <1>1, <1>3 DEF Right
<1>6. ASSUME p \in Between PROVE Aligned(t, k, Len(g))
  BY <1>2, <1>6, AddMessage DEF InStep
<1>7. ASSUME p = "body" PROVE Inside(t, k, Len(g) + 1, x)
  <2>1. PICK n : n = Len(g) + 1
    OBVIOUS
  <2>2. Inside(s, l, n, x)
    BY <1>7, <2>1 DEF InStep
  <2>3. n \in Nat /\ n \in 1..Len(l) /\ l[n] \in Nat /\ Local(x, n, l[n]) /\ Place(x, l[n]) \in Nat
    BY <2>2 DEF Inside
  <2>4. PICK c : c = Bytes(n, 0, Place(x, l[n]))
    OBVIOUS
  <2>5. c \in Seq(Byte) /\ Aligned(c \o s, l, n - 1)
    <3>1. Aligned(c \o s, l, n - 1)
      BY <2>2, <2>4 DEF Inside
    <3> QED
      BY <3>1, <2>3, <2>4, BytesAre
  <2>6. Aligned((c \o s) \o b, k, n - 1)
    BY <2>5, <1>2, AddMessage
  <2>7. (c \o s) \o b = c \o t
    BY <2>5, <1>1, <1>2, <1>4
  <2>8. k[n] = l[n] /\ n \in 1..Len(k)
    BY <2>3, <1>1, <1>3
  <2> QED
    BY <2>1, <2>3, <2>4, <2>6, <2>7, <2>8 DEF Inside
<1> QED
  BY <1>2, <1>4, <1>5, <1>6, <1>7 DEF InStep

\* A thread that only goes to another stage.
LEMMA InStage ==
  ASSUME NEW p, NEW q, NEW s, NEW l, NEW g, NEW x, NEW y, InStep(p, s, l, g, x),
         q \in Between => p \in Between, q # "body" \/ (p = "body" /\ y = x)
  PROVE  InStep(q, s, l, g, y)
  BY DEF InStep

\* A thread that is out of step for good may read on.
LEMMA InRest ==
  ASSUME NEW p, NEW q, NEW s, NEW l, NEW g, NEW x, NEW y, InStep(p, s, l, g, x), s # <<>>,
         q \in {"rest", "unlink"}
  PROVE  InStep(q, Tail(s), l, g, y)
  BY DEF InStep, Between

\* A new client's, or none.
LEMMA InNew ==
  ASSUME NEW p, NEW x, p # "body"
  PROVE  InStep(p, <<>>, <<>>, <<>>, x)
<1>1. Aligned(<<>>, <<>>, Len(<<>>))
  BY DEF Aligned, Whole
<1>2. Right(<<>>, <<>>)
  BY DEF Right
<1> QED
  BY <1>1, <1>2 DEF InStep

----------------------------------------------------------------------------
\* All threads are in step, while no descriptor was used again.
StepInv ==
  /\ DOMAIN sent = Clients /\ DOMAIN stream = Clients /\ DOMAIN got = Clients /\ DOMAIN rx = Clients
  /\ "reuse" \notin mishaps => \A c \in Clients : InStep(pc[c], stream[c], sent[c], got[c], rx[c])

\* Then a thread reads from its own client.
LEMMA OwnStream ==
  ASSUME Descriptors, OwnDescriptors, "reuse" \notin mishaps, NEW c \in Clients, Busy(c), from(c) # NULL
  PROVE  from(c) = c
<1>1. sock[c] \in Socks /\ from(c) \in Clients /\ sock[from(c)] = sock[c]
  BY DEF from, Descriptors
<1>2. Busy(from(c))
  BY <1>1, ListenerAssumption DEF OwnDescriptors
<1> QED
  BY <1>1, <1>2 DEF OwnDescriptors

\* h is f, but for v at c.
OnlyAt(c, f, h, v) == DOMAIN h = Clients /\ h[c] = v /\ \A d \in Clients \ {c} : h[d] = f[d]

LEMMA AtSame ==
  ASSUME NEW c \in Clients, NEW f, DOMAIN f = Clients, NEW h, h = f
  PROVE  OnlyAt(c, f, h, f[c])
  BY DEF OnlyAt

LEMMA AtNew ==
  ASSUME NEW c \in Clients, NEW f, DOMAIN f = Clients, NEW v, NEW h, h = [f EXCEPT ![c] = v]
  PROVE  OnlyAt(c, f, h, v)
  BY DEF OnlyAt

\* A step of one thread.
LEMMA StepOne ==
  ASSUME StepInv, NEW c \in Clients, NEW s, NEW x, NEW g, NEW l, NEW q, mishaps \subseteq mishaps',
         pc \in [Clients -> State], pc' = [pc EXCEPT ![c] = q],
         OnlyAt(c, sent, sent', l), OnlyAt(c, stream, stream', s), OnlyAt(c, got, got', g),
         OnlyAt(c, rx, rx', x),
         "reuse" \notin mishaps => InStep(q, s, l, g, x)
  PROVE  StepInv'
<1>1. DOMAIN sent' = Clients /\ DOMAIN stream' = Clients /\ DOMAIN got' = Clients /\ DOMAIN rx' = Clients
  BY DEF OnlyAt
<1>2. pc'[c] = q /\ sent'[c] = l /\ stream'[c] = s /\ got'[c] = g /\ rx'[c] = x
  BY DEF OnlyAt
<1>3. \A d \in Clients \ {c} : /\ pc'[d] = pc[d] /\ sent'[d] = sent[d] /\ stream'[d] = stream[d]
                               /\ got'[d] = got[d] /\ rx'[d] = rx[d]
  BY DEF OnlyAt
<1>4. ASSUME "reuse" \notin mishaps', NEW d \in Clients
      PROVE  InStep(pc'[d], stream'[d], sent'[d], got'[d], rx'[d])
  <2>0. "reuse" \notin mishaps
    BY <1>4
  <2>1. CASE d = c
    BY <2>0, <2>1, <1>2
  <2>2. CASE d # c
    BY <2>0, <2>2, <1>3 DEF StepInv
  <2> QED
    BY <2>1, <2>2
<1> QED
  BY <1>1, <1>4 DEF StepInv

\* Nothing is sent or received.
LEMMA StepSame ==
  ASSUME StepInv, UNCHANGED io, mishaps \subseteq mishaps',
         \A c \in Clients : (pc'[c] \in Between => pc[c] \in Between) /\ (pc'[c] = "body" => pc[c] = "body")
  PROVE  StepInv'
<1>1. sent' = sent /\ stream' = stream /\ got' = got /\ rx' = rx
  BY DEF io
<1>2. ASSUME "reuse" \notin mishaps', NEW c \in Clients
      PROVE  InStep(pc'[c], stream'[c], sent'[c], got'[c], rx'[c])
  <2>1. InStep(pc[c], stream[c], sent[c], got[c], rx[c])
    BY <1>2 DEF StepInv
  <2> QED
    BY <1>1, <2>1, InStage
<1> QED
  BY <1>1, <1>2 DEF StepInv

\* A client sends a message.
LEMMA StepSend ==
  ASSUME StepInv, pc \in [Clients -> State], NEW c \in Clients, NEW len \in Length, Send(c, len)
  PROVE  StepInv'
<1>1. len \in Nat
  BY ListenerAssumption
<1>2. PICK l, s, g, x : l = sent[c] /\ s = stream[c] /\ g = got[c] /\ x = rx[c]
  OBVIOUS
<1>3. UNCHANGED <<pc, got, rx, mishaps>> /\ sent' = [sent EXCEPT ![c] = Append(l, len)]
  BY <1>2 DEF Send
<1>d. DOMAIN sent = Clients /\ DOMAIN stream = Clients /\ DOMAIN got = Clients /\ DOMAIN rx = Clients
  BY DEF StepInv
<1>4. OnlyAt(c, got, got', g) /\ OnlyAt(c, rx, rx', x) /\ pc' = [pc EXCEPT ![c] = pc[c]]
  BY <1>2, <1>3, <1>d, AtSame
<1>5. PICK k, t : k = Append(l, len) /\ t = s \o Bytes(Len(k), 0, len)
  OBVIOUS
<1>6. stream' = [stream EXCEPT ![c] = t]
  <2>1. sent'[c] = k
    BY <1>3, <1>5 DEF StepInv
  <2> QED
    BY <2>1, <1>2, <1>5 DEF Send
<1>7. ASSUME "reuse" \notin mishaps PROVE InStep(pc[c], t, k, g, x)
  <2>1. InStep(pc[c], s, l, g, x)
    BY <1>2, <1>7 DEF StepInv
  <2>2. Len(k) = Len(l) + 1
    BY <2>1, <1>1, <1>5 DEF InStep, Right
  <2> QED
    BY <2>1, <2>2, <1>1, <1>5, InSend
<1>8. OnlyAt(c, sent, sent', k) /\ OnlyAt(c, stream, stream', t)
  BY <1>3, <1>5, <1>6, <1>d, AtNew
<1> QED
  BY <1>3, <1>4, <1>7, <1>8, StepOne

\* What recv() does while no descriptor was used again.
LEMMA RecvIs ==
  ASSUME StepInv, Descriptors, OwnDescriptors, NEW c \in Clients, Busy(c), recv(c), "reuse" \notin mishaps
  PROVE  /\ from(c) = c /\ stream[c] # <<>> /\ byte(c) = Head(stream[c])
         /\ stream' = [stream EXCEPT ![c] = Tail(stream[c])] /\ sent' = sent
<1>1. from(c) # NULL
  BY DEF recv
<1>2. from(c) = c
  BY <1>1, OwnStream
<1> QED
  BY <1>2 DEF recv, byte

\* While one was, only the domains matter.
LEMMA StepReuse ==
  ASSUME StepInv, mishaps \subseteq mishaps', "reuse" \in mishaps,
         DOMAIN sent' = Clients, DOMAIN stream' = Clients, DOMAIN got' = Clients, DOMAIN rx' = Clients
  PROVE  StepInv'
  BY DEF StepInv

\* A step of psc_recvmsg() that has no message yet.
LEMMA StepRead ==
  ASSUME StepInv, Descriptors, OwnDescriptors, pc \in [Clients -> State], NEW c \in Clients,
         NEW x, NEW q, mishaps \subseteq mishaps', Busy(c), recv(c),
         got' = got, OnlyAt(c, rx, rx', x), pc' = [pc EXCEPT ![c] = q],
         "reuse" \notin mishaps /\ from(c) = c /\ stream[c] # <<>> /\ byte(c) = Head(stream[c])
           => InStep(q, Tail(stream[c]), sent[c], got[c], x)
  PROVE  StepInv'
<1>1. CASE "reuse" \in mishaps
  <2>1. DOMAIN sent' = Clients /\ DOMAIN stream' = Clients /\ DOMAIN got' = Clients /\ DOMAIN rx' = Clients
    BY DEF StepInv, recv, OnlyAt
  <2> QED
    BY <2>1, <1>1, StepReuse
<1>2. CASE "reuse" \notin mishaps
  <2>1. /\ from(c) = c /\ stream[c] # <<>> /\ byte(c) = Head(stream[c])
        /\ stream' = [stream EXCEPT ![c] = Tail(stream[c])] /\ sent' = sent
    BY <1>2, RecvIs
  <2>d. DOMAIN sent = Clients /\ DOMAIN stream = Clients /\ DOMAIN got = Clients
    BY DEF StepInv
  <2>2. /\ OnlyAt(c, sent, sent', sent[c]) /\ OnlyAt(c, got, got', got[c])
        /\ OnlyAt(c, stream, stream', Tail(stream[c]))
    BY <2>1, <2>d, AtSame, AtNew
  <2>3. InStep(q, Tail(stream[c]), sent[c], got[c], x)
    BY <1>2, <2>1
  <2> QED
    BY <2>2, <2>3, StepOne
<1> QED
  BY <1>1, <1>2

\* Every step of psc_recvmsg() keeps in step.
LEMMA StepReads ==
  ASSUME StepInv, Threads, Descriptors, OwnDescriptors, NEW c \in Clients, Reads(c)
  PROVE  StepInv'
<1>t. pc \in [Clients -> State] /\ Busy(c) /\ mishaps \subseteq mishaps'
  <2>1. pc[c] \in {"read", "body", "rest"} /\ mishaps \subseteq mishaps'
    BY ReadsAre DEF ReadsOn, Leaves
  <2> QED
    BY <2>1 DEF Threads, Busy, Live
<1>i. "reuse" \notin mishaps => InStep(pc[c], stream[c], sent[c], got[c], rx[c])
  BY DEF StepInv
<1>r. PICK s, l, g, x : s = stream[c] /\ l = sent[c] /\ g = got[c] /\ x = rx[c]
  OBVIOUS
<1>d. DOMAIN sent = Clients /\ DOMAIN stream = Clients /\ DOMAIN got = Clients /\ DOMAIN rx = Clients
  BY DEF StepInv
<1>e. ASSUME NEW y, rx' = [rx EXCEPT ![c] = y] PROVE OnlyAt(c, rx, rx', y)
  BY <1>d, <1>e, AtNew
<1>1. CASE psc_recvhead(c)
  <2>1. CASE byte(c).k # 0
    <3>1. recv(c) /\ got' = got /\ rx' = [rx EXCEPT ![c] = idle] /\ pc' = [pc EXCEPT ![c] = "unlink"]
      BY <1>1, <2>1 DEF psc_recvhead, leave, goto
    <3>2. "reuse" \notin mishaps /\ s # <<>> => InStep("unlink", Tail(s), l, g, idle)
      BY <1>i, <1>r, InRest
    <3> QED
      BY <3>1, <3>2, <1>t, <1>r, <1>e, StepRead
  <2>2. CASE byte(c).k = 0
    <3>1. PICK y : y = [idle EXCEPT !.want = rlen(c), !.len = mlen(c) - rlen(c)]
      OBVIOUS
    <3>2. /\ pc[c] = "read" /\ recv(c) /\ got' = got /\ rx' = [rx EXCEPT ![c] = y]
          /\ pc' = [pc EXCEPT ![c] = "body"]
      BY <1>1, <2>2, <3>1 DEF psc_recvhead, goto
    <3>3. ASSUME "reuse" \notin mishaps, from(c) = c, s # <<>>, byte(c) = Head(s)
          PROVE  InStep("body", Tail(s), l, g, y)
      <4>1. InStep("read", s, l, g, x)
        BY <3>2, <3>3, <1>i, <1>r
      <4>2. Head(s) = [n |-> Len(g) + 1, k |-> 0]
        BY <4>1, <3>3, InHead
      <4>3. mlen(c) = l[Len(g) + 1]
        BY <4>2, <3>3, <1>r DEF mlen
      <4>4. rlen(c) = Kept(l[Len(g) + 1])
        BY <4>3 DEF rlen, Kept
      <4>5. y = [idle EXCEPT !.want = Kept(l[Len(g) + 1]), !.len = l[Len(g) + 1] - Kept(l[Len(g) + 1])]
        BY <4>3, <4>4, <3>1, Zenon
      <4> QED
        BY <4>1, <4>5, <3>3, InHead
    <3> QED
      BY <3>2, <3>3, <1>t, <1>r, <1>e, StepRead
  <2> QED
    BY <2>1, <2>2
<1>2. CASE psc_recvall(c)
  <2>1. PICK y : y = [x EXCEPT !.buf = Append(x.buf, byte(c)), !.want = x.want - 1]
    OBVIOUS
  <2>2. /\ pc[c] = "body" /\ x.want > 0 /\ recv(c) /\ got' = got /\ pc' = [pc EXCEPT ![c] = "body"]
        /\ OnlyAt(c, rx, rx', y)
    <3>a. /\ pc[c] = "body" /\ rx[c].want > 0 /\ recv(c) /\ got' = got /\ pc' = [pc EXCEPT ![c] = "body"]
      BY <1>2 DEF psc_recvall, goto
    <3>b. rx' = [rx EXCEPT ![c] = [rx[c] EXCEPT !.buf = Append(rx[c].buf, byte(c)), !.want = rx[c].want - 1]]
      BY <1>2 DEF psc_recvall
    <3>1. /\ pc[c] = "body" /\ rx[c].want > 0 /\ recv(c) /\ got' = got /\ pc' = [pc EXCEPT ![c] = "body"]
          /\ rx' = [rx EXCEPT ![c] = [rx[c] EXCEPT !.buf = Append(rx[c].buf, byte(c)), !.want = rx[c].want - 1]]
      BY <3>a, <3>b
    <3>2. rx' = [rx EXCEPT ![c] = y]
      BY <3>1, <2>1, <1>r, Zenon
    <3> QED
      BY <3>1, <3>2, <1>r, <1>e, Zenon
  <2>3. ASSUME "reuse" \notin mishaps, s # <<>>, byte(c) = Head(s) PROVE InStep("body", Tail(s), l, g, y)
    <3>1. InStep("body", s, l, g, x)
      BY <2>2, <2>3, <1>i, <1>r
    <3>2. y = [x EXCEPT !.buf = Append(x.buf, Head(s)), !.want = x.want - 1]
      BY <2>1, <2>3, Zenon
    <3> QED
      BY <3>1, <3>2, <2>2, <2>3, InBody
  <2> QED
    BY <2>2, <2>3, <1>t, <1>r, StepRead
<1>3. CASE psc_recvskip(c)
  <2>1. PICK piece : piece = Min({x.len, SkipChunk})
    OBVIOUS
  <2>2. PICK y : y = IF x.cnt + 1 < piece THEN [x EXCEPT !.cnt = x.cnt + 1]
                     ELSE [x EXCEPT !.cnt = 0, !.len = x.len - piece]
    OBVIOUS
  <2>3. /\ pc[c] = "body" /\ x.want = 0 /\ x.len > 0 /\ recv(c) /\ got' = got /\ pc' = [pc EXCEPT ![c] = "body"]
        /\ OnlyAt(c, rx, rx', y)
    <3>1. /\ pc[c] = "body" /\ rx[c].want = 0 /\ rx[c].len > 0 /\ recv(c) /\ got' = got
          /\ pc' = [pc EXCEPT ![c] = "body"]
          /\ rx' = [rx EXCEPT ![c] = IF rx[c].cnt + 1 < Min({rx[c].len, SkipChunk})
                                     THEN [rx[c] EXCEPT !.cnt = rx[c].cnt + 1]
                                     ELSE [rx[c] EXCEPT !.cnt = 0, !.len = rx[c].len - Min({rx[c].len, SkipChunk})]]
      BY <1>3, Zenon DEF psc_recvskip, goto
    <3>2. rx' = [rx EXCEPT ![c] = y]
      BY <3>1, <2>1, <2>2, <1>r, Zenon
    <3> QED
      BY <3>1, <3>2, <1>r, <1>e, Zenon
  <2>4. ASSUME "reuse" \notin mishaps, s # <<>> PROVE InStep("body", Tail(s), l, g, y)
    <3>1. InStep("body", s, l, g, x)
      BY <2>3, <2>4, <1>i, <1>r
    <3> QED
      BY <3>1, <2>1, <2>2, <2>3, <2>4, InSkip
  <2> QED
    BY <2>3, <2>4, <1>t, <1>r, StepRead
<1>4. CASE recvrest(c)
  <2>1. PICK y : OnlyAt(c, rx, rx', y)
    <3>1. CASE UNCHANGED rx
      BY <3>1, <1>d, AtSame
    <3>2. CASE ~UNCHANGED rx
      <4>1. PICK y : rx' = [rx EXCEPT ![c] = y]
        BY <1>4, <3>2 DEF recvrest
      <4> QED
        BY <4>1, <1>e
    <3> QED
      BY <3>1, <3>2
  <2>2. recv(c) /\ got' = got /\ pc' = [pc EXCEPT ![c] = "rest"]
    BY <1>4 DEF recvrest, goto
  <2>3. "reuse" \notin mishaps /\ s # <<>> => InStep("rest", Tail(s), l, g, y)
    BY <1>i, <1>r, InRest
  <2> QED
    BY <2>1, <2>2, <2>3, <1>t, <1>r, StepRead
<1>5. CASE recverror(c)
  <2>1. PICK q : q \in {"rest", "unlink"} /\ pc' = [pc EXCEPT ![c] = q] /\ \E y : rx' = [rx EXCEPT ![c] = y]
    BY <1>5 DEF recverror, leave, goto
  <2>y. PICK y : OnlyAt(c, rx, rx', y)
    BY <2>1, <1>e
  <2>2. OnlyAt(c, sent, sent', l) /\ OnlyAt(c, stream, stream', s) /\ OnlyAt(c, got, got', g)
    <3>1. sent' = sent /\ stream' = stream /\ got' = got
      BY <1>5 DEF recverror
    <3> QED
      BY <3>1, <1>d, <1>r, AtSame
  <2>3. "reuse" \notin mishaps => InStep(q, s, l, g, y)
    <3>1. q \notin Between /\ q # "body"
      BY <2>1 DEF Between
    <3> QED
      BY <3>1, <1>i, <1>r, InStage
  <2> QED
    BY <2>1, <2>y, <2>2, <2>3, <1>t, StepOne
<1>6. CASE psc_recvmsg(c)
  <2>1. PICK q \in {"read", "echo"} : pc' = [pc EXCEPT ![c] = q]
    BY <1>6 DEF psc_recvmsg, goto
  <2>2. pc[c] = "body" /\ x.want = 0 /\ x.len = 0
    BY <1>6, <1>r DEF psc_recvmsg, goto
  <2>3. OnlyAt(c, got, got', Append(g, x.buf)) /\ OnlyAt(c, rx, rx', idle)
    <3>1. got' = [got EXCEPT ![c] = Append(g, x.buf)] /\ rx' = [rx EXCEPT ![c] = idle]
      BY <1>6, <1>r DEF psc_recvmsg
    <3> QED
      BY <3>1, <1>d, AtNew
  <2>4. OnlyAt(c, sent, sent', l) /\ OnlyAt(c, stream, stream', s)
    <3>1. sent' = sent /\ stream' = stream
      BY <1>6 DEF psc_recvmsg
    <3> QED
      BY <3>1, <1>d, <1>r, AtSame
  <2>5. "reuse" \notin mishaps => InStep(q, s, l, Append(g, x.buf), idle)
    BY <2>2, <1>i, <1>r, InDone
  <2> QED
    BY <2>1, <2>3, <2>4, <2>5, <1>t, StepOne
<1> QED
  BY <1>1, <1>2, <1>3, <1>4, <1>5, <1>6 DEF Reads

\* Every step keeps the threads in step.
LEMMA StepStep == ASSUME StepInv, Threads, Descriptors, OwnDescriptors, [Next]_vars PROVE StepInv'
<1>t. pc \in [Clients -> State]
  BY DEF Threads
<1>1. ASSUME NEW c \in Clients, closefree(c) PROVE StepInv'
  <2>1. pc' = [pc EXCEPT ![c] = "freed"] /\ UNCHANGED <<rx, mishaps>>
    BY <1>1 DEF closefree, goto
  <2>2. OnlyAt(c, rx, rx', rx[c])
    BY <2>1, AtSame DEF StepInv
  <2>3. InStep("freed", <<>>, <<>>, <<>>, rx[c])
    BY InNew
  <2>4. OnlyAt(c, sent, sent', <<>>) /\ OnlyAt(c, stream, stream', <<>>) /\ OnlyAt(c, got, got', <<>>)
    <3>1. /\ sent' = [sent EXCEPT ![c] = <<>>] /\ stream' = [stream EXCEPT ![c] = <<>>]
          /\ got' = [got EXCEPT ![c] = <<>>]
      BY <1>1 DEF closefree
    <3> QED
      BY <3>1, AtNew DEF StepInv
  <2> QED
    BY <2>1, <2>2, <2>3, <2>4, <1>t, StepOne
<1>2. ASSUME NEW c \in Clients,
             accept_drop(c) \/ accept_start(c) \/ onconn(c) \/ rxmsg(c) \/ unlink(c)
      PROVE  StepInv'
  <2>1. UNCHANGED io /\ mishaps \subseteq mishaps'
    BY <1>2 DEF accept_drop, accept_start, onconn, rxmsg, unlink, psc_send, sendmsg
  <2>2. PICK p, q : /\ pc[c] = p /\ pc' = [pc EXCEPT ![c] = q]
                    /\ <<p, q>> \in {<<"none", "freed">>, <<"none", "conn1">>, <<"conn1", "conn2">>,
                                     <<"conn2", "read">>, <<"echo", "read">>, <<"unlink", "close">>}
    BY <1>2 DEF accept_drop, accept_start, onconn, rxmsg, unlink, goto
  <2>3. \A d \in Clients : (pc'[d] \in Between => pc[d] \in Between) /\ (pc'[d] = "body" => pc[d] = "body")
    BY <2>2, <1>t DEF Between
  <2> QED
    BY <2>1, <2>3, StepSame
<1>3. CASE link \/ periodic \/ UNCHANGED vars
  <2>1. UNCHANGED io /\ UNCHANGED pc /\ mishaps \subseteq mishaps'
    BY <1>3 DEF link, periodic, psc_send, sendmsg, vars
  <2> QED
    BY <2>1, StepSame
<1> QED
  BY <1>1, <1>2, <1>3, <1>t, StepSend, StepReads DEF Next, handle_client, Reads

\* Whatever lengths clients announce, however the bytes arrive and whichever recv()
\* fails, psc_recvmsg() and psc_recvskip() stay in step with the stream until they
\* give up, as long as no descriptor was used again: bodies are handed over in
\* order, cut to PSC_MAX_RX_MSG_LEN, and the next byte is the next message's header.
THEOREM SpecMessagesInStep == Spec => []MessagesInStep
<1> DEFINE I == Threads /\ Descriptors /\ OwnDescriptors /\ StepInv
<1>1. Init => I
  <2> SUFFICES ASSUME Init PROVE OwnDescriptors /\ StepInv
    BY InitThreads
  <2>1. OwnDescriptors
    BY DEF Init, OwnDescriptors, Busy, Live
  <2>2. \A c \in Clients : pc[c] = "none" /\ stream[c] = <<>> /\ sent[c] = <<>> /\ got[c] = <<>>
    BY DEF Init
  <2>3. DOMAIN sent = Clients /\ DOMAIN stream = Clients /\ DOMAIN got = Clients /\ DOMAIN rx = Clients
    BY DEF Init
  <2>4. \A c \in Clients : InStep(pc[c], stream[c], sent[c], got[c], rx[c])
    BY <2>2, InNew
  <2> QED
    BY <2>1, <2>3, <2>4 DEF StepInv
<1>2. I /\ [Next]_vars => I'
  BY ThreadsStep, DescriptorsStep, OwnStep, StepStep
<1>3. I => MessagesInStep
  <2> SUFFICES ASSUME StepInv, "reuse" \notin mishaps, NEW c \in Clients
               PROVE  /\ \A n \in 1..Len(got[c]) :
                           got[c][n] = Bytes(n, 1, Min({sent[c][n], PSC_MAX_RX_MSG_LEN}))
                      /\ pc[c] \in {"conn1", "conn2", "read", "echo"} /\ stream[c] # <<>>
                           => stream[c][1] = [n |-> Len(got[c]) + 1, k |-> 0]
    BY DEF MessagesInStep
  <2>1. InStep(pc[c], stream[c], sent[c], got[c], rx[c])
    BY DEF StepInv
  <2> QED
    BY <2>1 DEF InStep, Right, Kept, Between, Aligned
<1> QED
  BY <1>1, <1>2, <1>3, PTL DEF Spec

----------------------------------------------------------------------------
\* ListHoldsClients.

\* Walk is defined by its equation.
LEMMA WalkIs ==
  \A n \in 0..Cardinality(Clients) : \A c \in Clients \cup {NULL} :
    Walk[n][c] = IF c = NULL \/ n = 0 THEN <<>>
                 ELSE IF Freed(c) THEN <<c>>
                 ELSE <<c>> \o Walk[n - 1][next[c]]
<1> DEFINE D == Clients \cup {NULL}
           Row(f, n) == [c \in D |-> IF c = NULL \/ n = 0 THEN <<>>
                                     ELSE IF Freed(c) THEN <<c>>
                                     ELSE <<c>> \o f[n - 1][next[c]]]
           K == Cardinality(Clients)
           P(k) == \E f : f = [n \in 0..k |-> Row(f, n)]
<1>k. K \in Nat
  BY ListenerAssumption, FS_CardinalityType
<1> HIDE DEF K
<1>1. ASSUME NEW f, NEW g, NEW n, f[n - 1] = g[n - 1] PROVE Row(f, n) = Row(g, n)
  BY <1>1, Zenon
<1>2. ASSUME NEW f PROVE Row(f, 0) = [c \in D |-> <<>>]
  BY Zenon
<1> HIDE DEF Row
<1>3. P(0)
  <2>1. PICK f : f = [n \in 0..0 |-> [c \in D |-> <<>>]]
    OBVIOUS
  <2>2. \A n \in 0..0 : Row(f, n) = [c \in D |-> <<>>]
    <3>1. \A n \in 0..0 : n = 0
      OBVIOUS
    <3> QED
      BY <3>1, <1>2, Zenon
  <2>3. [n \in 0..0 |-> Row(f, n)] = [n \in 0..0 |-> [c \in D |-> <<>>]]
    BY <2>2, Zenon
  <2> QED
    BY <2>1, <2>3
<1>4. ASSUME NEW k \in Nat, P(k) PROVE P(k + 1)
  <2>1. PICK f : f = [n \in 0..k |-> Row(f, n)]
    BY <1>4
  <2>2. \A n \in 0..k : f[n] = Row(f, n)
    BY <2>1, Zenon
  <2>3. PICK g : g = [n \in 0..(k + 1) |-> IF n \in 0..k THEN f[n] ELSE Row(f, n)]
    OBVIOUS
  <2>4. \A n \in 0..k : g[n] = f[n]
    <3>1. \A n \in 0..k : n \in 0..(k + 1)
      OBVIOUS
    <3> QED
      BY <2>3, <3>1, Zenon
  <2>5. \A n \in 0..(k + 1) : g[n] = Row(g, n)
    <3> TAKE n \in 0..(k + 1)
    <3>1. g[n] = Row(f, n)
      BY <2>2, <2>3, Zenon
    <3>2. CASE n = 0
      BY <3>1, <3>2, <1>2
    <3>3. CASE n # 0
      <4>1. n - 1 \in 0..k
        BY <3>3
      <4> QED
        BY <4>1, <3>1, <2>4, <1>1
    <3> QED
      BY <3>2, <3>3
  <2>6. [n \in 0..(k + 1) |-> IF n \in 0..k THEN f[n] ELSE Row(f, n)] = [n \in 0..(k + 1) |-> Row(g, n)]
    <3>1. \A n \in 0..(k + 1) : (IF n \in 0..k THEN f[n] ELSE Row(f, n)) = Row(g, n)
      BY <2>3, <2>5, Zenon
    <3> QED
      BY <3>1, Zenon
  <2> QED
    BY <2>3, <2>6
<1>5. P(K)
  <2> HIDE DEF P
  <2> SUFFICES ASSUME ~P(K) PROVE FALSE
    OBVIOUS
  <2>1. PICK x \in {n \in Nat : ~P(n)} : \A y \in {n \in Nat : ~P(n)} : x <= y
    BY <1>k, LeastNat
  <2>2. x # 0 /\ x - 1 \in Nat /\ (x - 1) + 1 = x
    BY <2>1, <1>3
  <2>3. P(x - 1)
    BY <2>1, <2>2
  <2> QED
    BY <2>1, <2>2, <2>3, <1>4
<1>6. Walk = CHOOSE f : f = [n \in 0..K |-> Row(f, n)]
  BY Zenon DEF Walk, Row, K
<1>7. Walk = [n \in 0..K |-> Row(Walk, n)]
  <2> DEFINE Q(f) == f = [n \in 0..K |-> Row(f, n)]
  <2>1. \E f : Q(f)
    BY <1>5
  <2>2. Walk = CHOOSE f : Q(f)
    BY <1>6
  <2> HIDE DEF Q
  <2>3. Q(Walk)
    BY <2>1, <2>2
  <2> QED
    BY <2>3 DEF Q
<1>8. PICK W : W = Walk
  OBVIOUS
<1>9. ASSUME NEW n \in 0..K, NEW c \in D
      PROVE  W[n][c] = IF c = NULL \/ n = 0 THEN <<>>
                       ELSE IF Freed(c) THEN <<c>>
                       ELSE <<c>> \o W[n - 1][next[c]]
  <2>1. W[n] = Row(W, n)
    <3>1. W = [i \in 0..K |-> Row(W, i)]
      BY <1>7, <1>8
    <3> QED
      BY <3>1, Zenon
  <2> QED
    BY <2>1, Zenon DEF Row
<1> QED
  BY <1>8, <1>9 DEF K

\* The i-th client of w, NULL after the last.
At(w, i) == IF i \in 1..Len(w) THEN w[i] ELSE NULL

\* The list is w: client_head and the next of each client lead through it.
Path(w) ==
  /\ w \in Seq(Clients)
  /\ client_head = At(w, 1)
  /\ \A i \in 1..Len(w) : next[w[i]] = At(w, i + 1)

\* No client is in it twice.
Distinct(w) == \A i, j \in 1..Len(w) : w[i] = w[j] => i = j

\* A list without freed clients is what psc_send() walks.
LEMMA WalkPath ==
  ASSUME NEW w, Path(w), Len(w) <= Cardinality(Clients), \A i \in 1..Len(w) : ~Freed(w[i])
  PROVE  walk = w
<1>a. Cardinality(Clients) \in Nat /\ NULL \notin Clients
  BY ListenerAssumption, FS_CardinalityType
<1>b. w \in Seq(Clients) /\ Len(w) \in Nat /\ \A i \in 1..Len(w) : w[i] \in Clients
  BY DEF Path
<1>1. PICK K, L : K = Cardinality(Clients) /\ L = Len(w)
  OBVIOUS
<1>2. K \in Nat /\ L \in Nat /\ L <= K
  BY <1>a, <1>b, <1>1
<1> DEFINE Good(j) == \A n \in j..K : Walk[n][At(w, (L - j) + 1)] = SubSeq(w, (L - j) + 1, L)
<1>3. Good(0)
  <2> TAKE n \in 0..K
  <2>1. (L - 0) + 1 = L + 1 /\ At(w, L + 1) = NULL
    BY <1>1, <1>2 DEF At
  <2>2. Walk[n][NULL] = <<>>
    BY WalkIs, <1>1
  <2>3. SubSeq(w, L + 1, L) = <<>>
    BY <1>b, <1>1
  <2> QED
    BY <2>1, <2>2, <2>3
<1>4. ASSUME NEW j \in 1..L, Good(j - 1) PROVE Good(j)
  <2> TAKE n \in j..K
  <2>1. PICK i : i = (L - j) + 1
    OBVIOUS
  <2>2. i \in 1..L /\ (L - (j - 1)) + 1 = i + 1 /\ n \in 0..K /\ n # 0 /\ n - 1 \in (j - 1)..K
    BY <2>1, <1>2
  <2>3. At(w, i) = w[i] /\ w[i] \in Clients /\ w[i] # NULL /\ ~Freed(w[i]) /\ next[w[i]] = At(w, i + 1)
    BY <2>2, <1>a, <1>b, <1>1 DEF At, Path
  <2>4. Walk[n - 1][At(w, i + 1)] = SubSeq(w, i + 1, L)
    BY <1>4, <2>2
  <2>5. Walk[n][w[i]] = <<w[i]>> \o Walk[n - 1][next[w[i]]]
    BY WalkIs, <2>2, <2>3, <1>1
  <2>6. <<w[i]>> \o SubSeq(w, i + 1, L) = SubSeq(w, i, L)
    BY <2>2, <1>b, <1>1
  <2> QED
    BY <2>1, <2>3, <2>4, <2>5, <2>6
<1> HIDE DEF Good
<1>5. Good(L)
  <2> SUFFICES ASSUME ~Good(L) PROVE FALSE
    OBVIOUS
  <2>1. PICK x \in {j \in 0..L : ~Good(j)} : \A y \in {j \in 0..L : ~Good(j)} : x <= y
    <3>1. {j \in 0..L : ~Good(j)} \subseteq Nat /\ L \in {j \in 0..L : ~Good(j)}
      BY <1>2
    <3> QED
      BY <3>1, LeastNat
  <2>2. x # 0 /\ x \in 1..L /\ x - 1 \in 0..L /\ ~(x <= x - 1)
    BY <2>1, <1>2, <1>3
  <2>3. Good(x - 1)
    BY <2>1, <2>2
  <2> QED
    BY <2>1, <2>2, <2>3, <1>4
<1>6. Walk[K][At(w, 1)] = SubSeq(w, 1, L)
  <2>1. K \in L..K /\ (L - L) + 1 = 1
    BY <1>2
  <2> QED
    BY <1>5, <2>1 DEF Good
<1>7. SubSeq(w, 1, L) = w
  BY <1>b, <1>1
<1> QED
  BY <1>1, <1>6, <1>7 DEF walk, Path

\* The clients that are in the list.
Held == {c \in Clients : (Live(c) \/ pc[c] = "unlink") /\ c # new}

\* The list holds what it should.
Holds(w) == Path(w) /\ Distinct(w) /\ {w[i] : i \in 1..Len(w)} = Held

\* Then psc_send() walks just that list, to its end.
LEMMA HoldsLen ==
  ASSUME NEW w, Holds(w)
  PROVE  /\ Len(w) = Cardinality(Held) /\ Len(w) <= Cardinality(Clients)
         /\ walk = w
<1>1. w \in Seq(Clients) /\ Len(w) \in Nat
  BY DEF Holds, Path
<1>2. IsFiniteSet(Held) /\ Cardinality(Held) <= Cardinality(Clients)
  <2>1. Held \subseteq Clients /\ IsFiniteSet(Clients)
    BY ListenerAssumption DEF Held
  <2> QED
    BY <2>1, FS_Subset
<1>3. Cardinality(Held) = Len(w)
  <2>1. w \in [1..Len(w) -> Held]
    BY <1>1 DEF Holds
  <2>2. \A h \in Held : \E i \in 1..Len(w) : w[i] = h
    BY DEF Holds
  <2>3. w \in Bijection(1..Len(w), Held)
    BY <2>1, <2>2 DEF Holds, Distinct, Bijection, Injection, Surjection, IsInjective
  <2> QED
    BY <2>3, <1>1, FS_CountingElements DEF ExistsBijection
<1>4. \A i \in 1..Len(w) : ~Freed(w[i])
  BY DEF Holds, Held, Freed, Live
<1> QED
  BY <1>2, <1>3, <1>4, WalkPath DEF Holds

\* What the fields of a client may hold, and the list.
Fields ==
  /\ next \in [Clients -> Clients \cup {NULL}] /\ prev \in [Clients -> Clients \cup {NULL}]
  /\ client_head \in Clients \cup {NULL}

\* No thread outran psc_run() or its buffer, and clients left newest first.
Sound == mishaps \cap {"outrun", "disorder", "overrun"} = {}

\* The inductive invariant of the list.
ListInv ==
  Sound => /\ ~fault
           /\ prev = [c \in Clients |-> NULL]
           /\ new # NULL => Live(new)
           /\ \E w : Holds(w)

\* A step that leaves the list and who is in it.
LEMMA ListSame ==
  ASSUME ListInv, mishaps \subseteq mishaps', Sound' => Held' = Held, Sound' => ~fault',
         UNCHANGED <<client_head, prev>>,
         \A c \in Held : next'[c] = next[c],
         Sound' /\ new' # NULL => Live(new)'
  PROVE  ListInv'
<1> SUFFICES ASSUME Sound'
             PROVE  /\ ~fault' /\ prev' = [c \in Clients |-> NULL]
                    /\ new' # NULL => Live(new)'
                    /\ \E w : Holds(w)'
  BY DEF ListInv
<1>1. Sound
  BY DEF Sound
<1>2. PICK w : Holds(w)
  BY <1>1 DEF ListInv
<1>3. Holds(w)'
  <2>1. Path(w)'
    <3>1. \A i \in 1..Len(w) : w[i] \in Held
      BY <1>2 DEF Holds
    <3>2. \A i \in 1..Len(w) : next'[w[i]] = At(w, i + 1)
      BY <1>2, <3>1 DEF Holds, Path
    <3> QED
      BY <1>2, <3>2 DEF Holds, Path, At
  <2> QED
    BY <1>2, <2>1 DEF Holds, Distinct
<1> QED
  BY <1>1, <1>3 DEF ListInv

\* psc_send() meets no freed client.
LEMMA PsendSound ==
  ASSUME ListInv, psc_send
  PROVE  /\ mishaps \subseteq mishaps'
         /\ Sound' => ~fault'
<1>1. mishaps \subseteq mishaps'
  BY DEF psc_send, sendmsg
<1>2. ASSUME Sound PROVE ~fault'
  <2>1. PICK w : Holds(w)
    BY <1>2 DEF ListInv
  <2>2. walk = w
    BY <2>1, HoldsLen
  <2>3. \A i \in 1..Len(w) : ~Freed(w[i])
    BY <2>1 DEF Holds, Held, Freed, Live
  <2> QED
    BY <1>2, <2>2, <2>3 DEF psc_send, ListInv
<1> QED
  BY <1>1, <1>2 DEF Sound

\* A client is put in front.
LEMMA ListLink == ASSUME Threads, Fields, ListInv, link PROVE ListInv'
<1> SUFFICES ASSUME Sound'
             PROVE  /\ ~fault' /\ prev' = [c \in Clients |-> NULL]
                    /\ new' # NULL => Live(new)'
                    /\ \E w : Holds(w)'
  BY DEF ListInv
<1>1. Sound /\ new # NULL /\ new \in Clients /\ Live(new) /\ new' = NULL /\ UNCHANGED <<fault, prev, pc>>
  BY DEF Sound, link, ListInv, Threads
<1>2. PICK w : Holds(w)
  BY <1>1 DEF ListInv
<1>3. w \in Seq(Clients) /\ Len(w) \in Nat /\ NULL \notin Clients
  BY <1>2, ListenerAssumption DEF Holds, Path
<1>4. PICK v : v = <<new>> \o w
  OBVIOUS
<1>5. /\ v \in Seq(Clients) /\ Len(v) = Len(w) + 1 /\ v[1] = new
      /\ \A i \in 2..Len(v) : v[i] = w[i - 1]
  BY <1>1, <1>3, <1>4
<1>6. new \notin Held /\ Held' = Held \cup {new}
  BY <1>1, <1>3 DEF Held, Live
<1>7. \A i \in 1..Len(w) : w[i] # new
  BY <1>2, <1>6 DEF Holds
<1>8. Path(v)'
  <2>1. client_head' = new /\ next' = [next EXCEPT ![new] = client_head]
    BY DEF link
  <2>2. next'[new] = client_head /\ \A i \in 1..Len(w) : next'[w[i]] = next[w[i]]
    BY <2>1, <1>1, <1>3, <1>7 DEF Fields
  <2>3. ASSUME NEW i \in 1..(Len(w) + 1) PROVE At(v, i + 1) = At(w, i)
    <3>1. CASE i \in 1..Len(w)
      <4>1. i + 1 \in 2..Len(v) /\ i + 1 \in 1..Len(v) /\ (i + 1) - 1 = i
        BY <3>1, <1>3, <1>5
      <4>2. v[i + 1] = w[i]
        BY <4>1, <1>5
      <4> QED
        BY <3>1, <4>1, <4>2 DEF At
    <3>2. CASE i \notin 1..Len(w)
      BY <3>2, <1>3, <1>5 DEF At
    <3> QED
      BY <3>1, <3>2
  <2>4. ASSUME NEW i \in 1..Len(v) PROVE next'[v[i]] = At(v, i + 1)
    <3>1. CASE i = 1
      BY <3>1, <2>2, <2>3, <1>2, <1>3, <1>5 DEF Holds, Path
    <3>2. CASE i # 1
      <4>1. i \in 2..Len(v) /\ i - 1 \in 1..Len(w) /\ (i - 1) + 1 = i
        BY <3>2, <1>3, <1>5
      <4>2. v[i] = w[i - 1] /\ next[w[i - 1]] = At(w, i)
        BY <4>1, <1>2, <1>5 DEF Holds, Path
      <4> QED
        BY <4>1, <4>2, <2>2, <2>3, <1>3, <1>5
    <3> QED
      BY <3>1, <3>2
  <2>5. At(v, 1) = new
    BY <1>3, <1>5 DEF At
  <2> QED
    BY <2>1, <2>4, <2>5, <1>5 DEF Path, At
<1>9. Distinct(v)
  <2> SUFFICES ASSUME NEW i \in 1..Len(v), NEW j \in 1..Len(v), v[i] = v[j] PROVE i = j
    BY DEF Distinct
  <2>1. CASE i = 1 \/ j = 1
    BY <2>1, <1>3, <1>5, <1>7
  <2>2. CASE i # 1 /\ j # 1
    <3>1. i - 1 \in 1..Len(w) /\ j - 1 \in 1..Len(w) /\ w[i - 1] = w[j - 1]
      BY <2>2, <1>3, <1>5
    <3>2. i - 1 = j - 1
      BY <3>1, <1>2 DEF Holds, Distinct
    <3> QED
      BY <3>2
  <2> QED
    BY <2>1, <2>2
<1>10. {v[i] : i \in 1..Len(v)} = Held'
  <2>1. {v[i] : i \in 1..Len(v)} \subseteq Held \cup {new}
    <3> SUFFICES ASSUME NEW i \in 1..Len(v) PROVE v[i] \in Held \cup {new}
      OBVIOUS
    <3>1. CASE i = 1
      BY <3>1, <1>5
    <3>2. CASE i # 1
      <4>1. i - 1 \in 1..Len(w) /\ v[i] = w[i - 1]
        BY <3>2, <1>3, <1>5
      <4> QED
        BY <4>1, <1>2 DEF Holds
    <3> QED
      BY <3>1, <3>2
  <2>2. ASSUME NEW c \in Held \cup {new} PROVE \E i \in 1..Len(v) : v[i] = c
    <3>1. CASE c = new
      BY <3>1, <1>3, <1>5
    <3>2. CASE c \in Held
      <4>1. PICK i \in 1..Len(w) : w[i] = c
        BY <3>2, <1>2 DEF Holds
      <4>2. i + 1 \in 2..Len(v) /\ i + 1 \in 1..Len(v) /\ (i + 1) - 1 = i
        BY <1>3, <1>5
      <4>3. v[i + 1] = w[i]
        BY <4>2, <1>5
      <4> QED
        BY <4>1, <4>2, <4>3
    <3> QED
      BY <3>1, <3>2
  <2> QED
    BY <2>1, <2>2, <1>6
<1>11. Holds(v)'
  BY <1>8, <1>9, <1>10 DEF Holds, Distinct
<1> QED
  BY <1>1, <1>11 DEF ListInv

\* The newest client takes itself out.
LEMMA ListUnlink ==
  ASSUME Threads, Fields, ListInv, NEW c \in Clients, unlink(c)
  PROVE  ListInv'
<1> SUFFICES ASSUME Sound'
             PROVE  /\ ~fault' /\ prev' = [d \in Clients |-> NULL]
                    /\ new' # NULL => Live(new)'
                    /\ \E w : Holds(w)'
  BY DEF ListInv
<1>0. mishaps \subseteq mishaps'
  BY DEF unlink
<1>1. /\ Sound /\ ~fault /\ pc[c] = "unlink" /\ pc' = [pc EXCEPT ![c] = "close"]
      /\ new' = new /\ pc \in [Clients -> State]
      /\ prev = [d \in Clients |-> NULL] /\ prev[c] = NULL
      /\ new # NULL => Live(new)
  BY <1>0 DEF Sound, unlink, goto, ListInv, Threads
<1>2. PICK w : Holds(w)
  BY <1>1 DEF ListInv
<1>3. w \in Seq(Clients) /\ Len(w) \in Nat /\ NULL \notin Clients
  BY <1>2, ListenerAssumption DEF Holds, Path
<1>4. c \in Held /\ c # new
  BY <1>1, <1>3 DEF Held, Live
<1>5. \A d \in Held : ~Freed(d)
  BY DEF Held, Live, Freed
<1>6. next[c] \in Held \cup {NULL}
  <2>1. PICK i \in 1..Len(w) : w[i] = c
    BY <1>2, <1>4 DEF Holds
  <2>2. next[c] = At(w, i + 1)
    BY <2>1, <1>2 DEF Holds, Path
  <2> QED
    BY <2>2, <1>2 DEF Holds, At
<1>7. ~ \E d \in {next[c], prev[c]} \ {NULL} : Freed(d)
  BY <1>1, <1>5, <1>6
<1>8. /\ UNCHANGED <<fault, next>>
      /\ prev' = IF next[c] = NULL THEN prev ELSE [prev EXCEPT ![next[c]] = NULL]
      /\ client_head' = next[c]
      /\ mishaps' = IF client_head = c THEN mishaps ELSE mishaps \cup {"disorder"}
  BY <1>1, <1>7 DEF unlink
<1>9. prev' = [d \in Clients |-> NULL]
  BY <1>1, <1>8
<1>10. client_head = c
  BY <1>8 DEF Sound
<1>11. Len(w) > 0 /\ w[1] = c /\ next[c] = At(w, 2)
  <2>1. At(w, 1) = c
    BY <1>2, <1>10 DEF Holds, Path
  <2>2. 1 \in 1..Len(w) /\ w[1] = c
    BY <2>1, <1>3 DEF At
  <2> QED
    BY <2>2, <1>2, <1>3 DEF Holds, Path
<1>12. PICK v : v = Tail(w)
  OBVIOUS
<1>13. v \in Seq(Clients) /\ Len(v) = Len(w) - 1 /\ \A i \in 1..Len(v) : v[i] = w[i + 1]
  BY <1>3, <1>11, <1>12
<1>14. \A i \in 1..(Len(v) + 1) : At(v, i) = At(w, i + 1)
  BY <1>3, <1>11, <1>13 DEF At
<1>15. Path(v)'
  <2>1. client_head' = At(v, 1)
    BY <1>8, <1>11, <1>13, <1>14, <1>3
  <2>2. ASSUME NEW i \in 1..Len(v) PROVE next'[v[i]] = At(v, i + 1)
    <3>1. i + 1 \in 1..Len(w) /\ i + 1 \in 1..(Len(v) + 1) /\ v[i] = w[i + 1]
      BY <1>3, <1>11, <1>13
    <3>2. next[w[i + 1]] = At(w, (i + 1) + 1)
      BY <3>1, <1>2 DEF Holds, Path
    <3> QED
      BY <3>1, <3>2, <1>8, <1>14
  <2> QED
    BY <2>1, <2>2, <1>13 DEF Path, At
<1>16. Distinct(v)
  <2> SUFFICES ASSUME NEW i \in 1..Len(v), NEW j \in 1..Len(v), v[i] = v[j] PROVE i = j
    BY DEF Distinct
  <2>1. i + 1 \in 1..Len(w) /\ j + 1 \in 1..Len(w) /\ w[i + 1] = w[j + 1]
    BY <1>3, <1>11, <1>13
  <2>2. i + 1 = j + 1
    BY <2>1, <1>2 DEF Holds, Distinct
  <2> QED
    BY <2>2
<1>17. Held' = Held \ {c}
  BY <1>1 DEF Held, Live, State
<1>18. {v[i] : i \in 1..Len(v)} = Held \ {c}
  <2>1. ASSUME NEW i \in 1..Len(v) PROVE v[i] \in Held \ {c}
    <3>1. i + 1 \in 1..Len(w) /\ i + 1 # 1 /\ 1 \in 1..Len(w) /\ v[i] = w[i + 1]
      BY <1>3, <1>11, <1>13
    <3> QED
      BY <3>1, <1>2, <1>11 DEF Holds, Distinct
  <2>2. ASSUME NEW d \in Held \ {c} PROVE \E i \in 1..Len(v) : v[i] = d
    <3>1. PICK i \in 1..Len(w) : w[i] = d
      BY <1>2 DEF Holds
    <3>2. i # 1
      BY <3>1, <1>11
    <3>3. i - 1 \in 1..Len(v) /\ (i - 1) + 1 = i
      BY <3>2, <1>3, <1>13
    <3>4. v[i - 1] = w[i]
      BY <3>3, <1>13
    <3> QED
      BY <3>1, <3>3, <3>4
  <2> QED
    BY <2>1, <2>2
<1>19. Holds(v)'
  BY <1>15, <1>16, <1>17, <1>18 DEF Holds, Distinct
<1>20. new' # NULL => Live(new)'
  BY <1>1, <1>4 DEF Live, Threads
<1> QED
  BY <1>1, <1>8, <1>9, <1>19, <1>20

\* Every step keeps the fields' types.
LEMMA FieldsStep == ASSUME Threads, Fields, [Next]_vars PROVE Fields'
<1> USE ListenerAssumption
<1>1. ASSUME NEW c \in Clients, unlink(c) PROVE Fields'
  <2>1. CASE UNCHANGED list
    BY <2>1 DEF Fields, list
  <2>2. CASE ~UNCHANGED list
    <3>1. /\ prev' = IF next[c] = NULL THEN prev ELSE [prev EXCEPT ![next[c]] = prev[c]]
          /\ IF prev[c] = NULL
             THEN client_head' = next[c] /\ UNCHANGED next
             ELSE next' = [next EXCEPT ![prev[c]] = next[c]] /\ UNCHANGED client_head
      BY <1>1, <2>2 DEF unlink
    <3>2. next[c] \in Clients \cup {NULL} /\ prev[c] \in Clients \cup {NULL}
      BY DEF Fields
    <3> QED
      BY <3>1, <3>2 DEF Fields
  <2> QED
    BY <2>1, <2>2
<1>2. ASSUME NEW c \in Clients, closefree(c) PROVE Fields'
  BY <1>2 DEF closefree, Fields
<1>3. CASE link
  BY <1>3 DEF link, Fields, Threads
<1>4. CASE UNCHANGED list
  BY <1>4 DEF Fields, list
<1>5. (\E c \in Clients : unlink(c) \/ closefree(c)) \/ link \/ UNCHANGED list
  <2>1. ASSUME NEW c \in Clients, Reads(c) PROVE UNCHANGED list
    BY <2>1, ReadsAre DEF ReadsOn, Leaves, Aside
  <2> QED
    BY <2>1 DEF Next, handle_client, Reads, Send, accept_drop, accept_start, onconn, rxmsg, periodic, vars
<1> QED
  BY <1>1, <1>2, <1>3, <1>4, <1>5

\* Every step keeps the list.
LEMMA ListStep == ASSUME Threads, Fields, ListInv, [Next]_vars PROVE ListInv'
<1>t. pc \in [Clients -> State] /\ new \in Clients \cup {NULL} /\ NULL \notin Clients
      /\ (new # NULL => pc[new] # "none") /\ (Sound /\ new # NULL => Live(new)) /\ (Sound => ~fault)
  BY ListenerAssumption DEF Threads, ListInv
<1>1. ASSUME NEW c \in Clients, NEW len \in Length, Send(c, len) PROVE ListInv'
  BY <1>1, <1>t, ListSame DEF Send, Held, Live, list, Sound
<1>2. ASSUME NEW c \in Clients, accept_drop(c) PROVE ListInv'
  <2>1. Held' = Held /\ UNCHANGED <<mishaps, fault, client_head, next, prev>> /\ new' = NULL
    BY <1>2, <1>t DEF accept_drop, accept, goto, Held, Live, list
  <2> QED
    BY <2>1, <1>t, ListSame DEF Sound
<1>3. ASSUME NEW c \in Clients, accept_start(c) PROVE ListInv'
  <2>1. /\ new = NULL /\ new' = c /\ pc[c] = "none" /\ pc' = [pc EXCEPT ![c] = "conn1"]
        /\ UNCHANGED <<fault, client_head, next, prev>> /\ mishaps \subseteq mishaps'
    BY <1>3 DEF accept_start, accept, goto, list
  <2>2. Held' = Held
    BY <2>1, <1>t DEF Held, Live
  <2>3. Live(new)'
    BY <2>1, <1>t DEF Live
  <2> QED
    BY <2>1, <2>2, <2>3, <1>t, ListSame DEF Sound
<1>4. ASSUME NEW c \in Clients, onconn(c) PROVE ListInv'
  <2>1. /\ Held' = Held /\ (new # NULL /\ Live(new) => Live(new)')
        /\ UNCHANGED <<new, fault, client_head, next, prev>>
    BY <1>4, <1>t DEF onconn, goto, Held, Live, list
  <2>2. mishaps \subseteq mishaps'
    BY <1>4 DEF onconn, sendmsg
  <2> QED
    BY <2>1, <2>2, <1>t, ListSame DEF Sound
<1>5. ASSUME NEW c \in Clients, ReadsOn(c) PROVE ListInv'
  <2>1. /\ Held' = Held /\ (new # NULL /\ Live(new) => Live(new)')
        /\ UNCHANGED <<new, client_head, next, prev>>
    BY <1>5, <1>t DEF ReadsOn, Aside, Held, Live, list
  <2>2. mishaps \subseteq mishaps' /\ (Sound' => ~fault')
    BY <1>5 DEF ReadsOn, Sound
  <2> QED
    BY <2>1, <2>2, <1>t, ListSame DEF Sound
<1>6. ASSUME NEW c \in Clients, rxmsg(c) PROVE ListInv'
  <2>1. /\ Held' = Held /\ (new # NULL /\ Live(new) => Live(new)')
        /\ UNCHANGED <<new, client_head, next, prev>>
    BY <1>6, <1>t DEF rxmsg, goto, Held, Live, list
  <2>2. mishaps \subseteq mishaps' /\ (Sound' => ~fault')
    BY <1>6, PsendSound DEF rxmsg
  <2> QED
    BY <2>1, <2>2, <1>t, ListSame DEF Sound
<1>7. ASSUME NEW c \in Clients, Leaves(c) PROVE ListInv'
  <2>1. /\ mishaps \subseteq mishaps' /\ (new = c => "outrun" \in mishaps')
        /\ UNCHANGED <<new, fault, client_head, next, prev>>
        /\ pc[c] \in {"read", "body", "rest"} /\ pc' = [pc EXCEPT ![c] = "unlink"]
    BY <1>7 DEF Leaves, Aside, list
  <2>2. Held' = Held
    BY <2>1, <1>t DEF Held, Live
  <2>3. new # NULL /\ new # c /\ Live(new) => Live(new)'
    BY <2>1, <1>t DEF Live
  <2> QED
    BY <2>1, <2>2, <2>3, <1>t, ListSame DEF Sound
<1>8. ASSUME NEW c \in Clients, closefree(c) PROVE ListInv'
  <2>1. /\ pc[c] = "close" /\ pc' = [pc EXCEPT ![c] = "freed"] /\ next' = [next EXCEPT ![c] = NULL]
        /\ UNCHANGED <<new, fault, client_head, prev, mishaps>>
    BY <1>8 DEF closefree, goto
  <2>2. Held' = Held /\ c \notin Held /\ (new # NULL /\ Live(new) => Live(new)')
    BY <2>1, <1>t DEF Held, Live
  <2>3. \A d \in Held : next'[d] = next[d]
    BY <2>1, <2>2 DEF Held, Fields
  <2> QED
    BY <2>1, <2>2, <2>3, <1>t, ListSame DEF Sound
<1>9. CASE periodic
  <2>1. /\ Held' = Held /\ (new # NULL /\ Live(new) => Live(new)')
        /\ UNCHANGED <<new, client_head, next, prev>>
    BY <1>9, <1>t DEF periodic, Held, Live, list
  <2>2. mishaps \subseteq mishaps' /\ (Sound' => ~fault')
    BY <1>9, PsendSound DEF periodic
  <2> QED
    BY <2>1, <2>2, <1>t, ListSame DEF Sound
<1>10. CASE UNCHANGED vars
  BY <1>10, <1>t, ListSame DEF vars, Held, Live, list, Sound
<1> QED
  BY <1>1, <1>2, <1>3, <1>4, <1>5, <1>6, <1>7, <1>8, <1>9, <1>10, ListLink, ListUnlink, ReadsAre
     DEF Next, handle_client, Reads

\* All that the list needs.
ListAll == CountInv /\ Fields /\ ListInv

\* The list is empty at first.
LEMMA InitList == Init => ListAll
<1> SUFFICES ASSUME Init PROVE ListAll
  OBVIOUS
<1>1. Served = {} /\ Held = {}
  BY DEF Init, Served, Held, Live
<1>2. CountInv
  BY <1>1, InitThreads, FS_EmptySet, ListenerAssumption DEF Init, CountInv, Counted
<1>3. Fields
  BY DEF Init, Fields
<1>4. Holds(<<>>)
  <2>1. {<<>>[i] : i \in 1..Len(<<>>)} = {}
    OBVIOUS
  <2> QED
    BY <1>1, <2>1 DEF Init, Holds, Path, At, Distinct
<1>5. ListInv
  BY <1>4 DEF Init, ListInv
<1> QED
  BY <1>2, <1>3, <1>5 DEF ListAll

\* Every step keeps it.
LEMMA ListAllStep == ASSUME ListAll, [Next]_vars PROVE ListAll'
  BY CountStep, FieldsStep, ListStep DEF ListAll, CountInv

\* client_count counts the list.
LEMMA CountsList ==
  ASSUME ListAll, Sound, NEW w, Holds(w)
  PROVE  client_count = Len(w)
<1>1. Len(w) = Cardinality(Held) /\ Counted /\ ~fault /\ (new # NULL => Live(new)) /\ Threads
  BY HoldsLen DEF ListAll, ListInv, CountInv
<1>2. IsFiniteSet(Served) /\ Cardinality(Served) \in Nat
  BY ServedFinite
<1>3. CASE new = NULL
  <2>1. Held = Served
    BY <1>3, ListenerAssumption DEF Held, Served
  <2> QED
    BY <2>1, <1>1, <1>3 DEF Counted
<1>4. CASE new # NULL
  <2>1. new \in Served /\ Held = Served \ {new}
    BY <1>1, <1>4 DEF Held, Served, Threads
  <2>2. Cardinality(Held) = Cardinality(Served) - 1
    BY <2>1, <1>2, FS_RemoveElement
  <2>3. Cardinality(Served) # 0
    BY <2>1, <1>2, FS_EmptySet
  <2> QED
    BY <2>2, <2>3, <1>1, <1>2, <1>4 DEF Counted
<1> QED
  BY <1>3, <1>4

\* As long as no thread outruns psc_run() and clients leave newest first, the
\* list that psc_send() walks is the set of linked clients that have not left,
\* client_count is its length, and no freed client is touched.
THEOREM SpecListHoldsClients == Spec => []ListHoldsClients
<1>1. ListAll => ListHoldsClients
  <2> SUFFICES ASSUME ListAll, Sound
               PROVE  /\ ~fault
                      /\ {walk[i] : i \in 1..Len(walk)} = {c \in Clients : (Live(c) \/ pc[c] = "unlink") /\ c # new}
                      /\ client_count = Len(walk)
    BY DEF Sound, ListHoldsClients
  <2>1. PICK w : Holds(w)
    BY DEF ListAll, ListInv
  <2>2. walk = w /\ client_count = Len(w)
    BY <2>1, HoldsLen, CountsList
  <2> QED
    BY <2>1, <2>2 DEF ListAll, ListInv, Holds, Held
<1> QED
  BY <1>1, InitList, ListAllStep, PTL DEF Spec

----------------------------------------------------------------------------
\* BroadcastReachesAll.

\* A broadcast without mishaps passes over no client.
LEMMA NoneMissed ==
  ASSUME ListAll, Descriptors, OwnDescriptors, mishaps = {}, NEW to, NEW bad,
         to = {c \in Clients : active[c] /\ \E i \in 1..Len(walk) : walk[i] = c},
         Fails(walk, to, bad)
  PROVE  Missed(to, bad) = {}
<1> SUFFICES ASSUME NEW c \in Clients, Linked(c), active[c], c \notin bad
             PROVE  Cardinality({i \in 1..Len(walk) : walk[i] \in to \ bad /\ fd[sock[walk[i]]] = c}) = 1
  BY DEF Missed
<1>1. PICK w : Holds(w)
  BY DEF ListAll, ListInv, Sound
<1>2. walk = w
  BY <1>1, HoldsLen
<1>3. c \in Held
  BY DEF Linked, Held
<1>4. PICK k \in 1..Len(w) : w[k] = c
  BY <1>1, <1>3 DEF Holds
<1>5. c \in to
  BY <1>2, <1>4
<1>6. fd[sock[c]] # NULL
  BY <1>2, <1>4, <1>5 DEF Fails
<1>7. \A h \in Held : Busy(h) /\ h \in Clients /\ sock[h] \in Socks
  BY DEF Held, Busy, Descriptors
<1>8. fd[sock[c]] = c
  <2>1. PICK d : d = fd[sock[c]]
    OBVIOUS
  <2>2. d \in Clients /\ sock[d] = sock[c] /\ sock[d] \in Socks
    BY <2>1, <1>3, <1>6, <1>7 DEF Descriptors
  <2>3. Busy(d)
    BY <2>2, ListenerAssumption DEF OwnDescriptors
  <2> QED
    BY <2>1, <2>2, <2>3, <1>3, <1>7 DEF OwnDescriptors
<1>9. ASSUME NEW i \in 1..Len(w), fd[sock[w[i]]] = c PROVE i = k
  <2>1. w[i] \in Held
    BY <1>1 DEF Holds
  <2>2. sock[w[i]] = sock[c]
    BY <2>1, <1>7, <1>9, ListenerAssumption DEF Descriptors
  <2>3. w[i] = c
    BY <2>1, <2>2, <1>3, <1>7 DEF OwnDescriptors
  <2> QED
    BY <2>3, <1>1, <1>4 DEF Holds, Distinct
<1>10. {i \in 1..Len(walk) : walk[i] \in to \ bad /\ fd[sock[walk[i]]] = c} = {k}
  BY <1>2, <1>4, <1>5, <1>8, <1>9
<1> QED
  BY <1>10, FS_Singleton

\* The inductive invariant of broadcasts.
ReachInv == ListAll /\ Descriptors /\ OwnDescriptors /\ BroadcastReachesAll

\* Every step keeps it: a broadcast misses nobody.
LEMMA ReachStep == ASSUME ReachInv, [Next]_vars PROVE ReachInv'
<1>1. ListAll' /\ Descriptors' /\ OwnDescriptors'
  BY ListAllStep, DescriptorsStep, OwnStep DEF ReachInv, ListAll, CountInv
<1>2. ASSUME psc_send PROVE BroadcastReachesAll'
  <2> SUFFICES ASSUME mishaps' = {} PROVE missed' = {}
    BY DEF BroadcastReachesAll
  <2>1. mishaps = {} /\ missed = {}
    BY <1>2 DEF psc_send, sendmsg, ReachInv, BroadcastReachesAll
  <2>2. CASE \E i \in 1..Len(walk) : Freed(walk[i])
    BY <1>2, <2>1, <2>2 DEF psc_send
  <2>3. CASE ~ \E i \in 1..Len(walk) : Freed(walk[i])
    <3>1. PICK to : to = {c \in Clients : active[c] /\ \E i \in 1..Len(walk) : walk[i] = c}
      OBVIOUS
    <3>2. PICK bad \in SUBSET Clients : sendmsg(walk, to, bad) /\ missed' = missed \cup Missed(to, bad)
      BY <1>2, <2>1, <2>3, <3>1 DEF psc_send
    <3>3. Missed(to, bad) = {}
      BY <2>1, <3>1, <3>2, NoneMissed DEF sendmsg, ReachInv
    <3> QED
      BY <2>1, <3>2, <3>3
  <2> QED
    BY <2>2, <2>3
<1>3. ASSUME UNCHANGED missed, mishaps \subseteq mishaps' PROVE BroadcastReachesAll'
  BY <1>3 DEF ReachInv, BroadcastReachesAll
<1>4. psc_send \/ (UNCHANGED missed /\ mishaps \subseteq mishaps')
  <2>1. ASSUME NEW c \in Clients, Reads(c) PROVE UNCHANGED missed /\ mishaps \subseteq mishaps'
    BY <2>1, ReadsAre DEF ReadsOn, Leaves, Aside
  <2> QED
    BY <2>1 DEF Next, handle_client, Reads, Send, accept_drop, accept_start, onconn, sendmsg, rxmsg,
                unlink, closefree, link, periodic, vars
<1> QED
  BY <1>1, <1>2, <1>3, <1>4 DEF ReachInv

\* Without mishaps a broadcast of psc_send() reaches every client that is linked
\* and active, once, also when sends to others fail half way.
THEOREM SpecBroadcastReachesAll == Spec => []BroadcastReachesAll
<1>1. Init => ReachInv
  <2> SUFFICES ASSUME Init PROVE OwnDescriptors /\ BroadcastReachesAll
    BY InitList, InitThreads DEF ReachInv
  <2> QED
    BY DEF Init, OwnDescriptors, BroadcastReachesAll, Busy, Live
<1>2. ReachInv => BroadcastReachesAll
  BY DEF ReachInv
<1> QED
  BY <1>1, <1>2, ReachStep, PTL DEF Spec
=============================================================================
