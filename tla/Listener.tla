------------------------------ MODULE Listener ------------------------------
(***************************************************************************)
(* The device side of the protocol (targetApp/listener.c, pscmsg.c and the *)
(* callbacks of pscapp.c): psc_run() accepts clients and starts a thread   *)
(* for each, handle_client() is that thread, psc_send() broadcasts from    *)
(* the periodic thread and from any client's thread.                       *)
(*                                                                         *)
(* Each section under sendguard is one action.  Messages are read without  *)
(* a lock, a byte at a time.  A connection has the name of the client it   *)
(* was accepted for; sock[c] is a descriptor and fd[s] the connection that *)
(* it names now, for a descriptor is used again once it is closed.  A byte *)
(* is [n, k], the k-th of the client's n-th message; byte 0 stands for the *)
(* header.  Reading or writing a client that has been freed, or memory     *)
(* behind a buffer, is a fault, after which anything may happen: the model *)
(* stops there.                                                            *)
(*                                                                         *)
(* mishaps is a history of what the code does not guard against:           *)
(*   outrun    a client's thread fails before psc_run() links the client   *)
(*   disorder  a client leaves that is not the newest                      *)
(*   reuse     a descriptor that a failed send closed is given to a new    *)
(*             client while the old client's thread still has it           *)
(*   overrun   psc_recvskip() goes on after an error and fills more than   *)
(*             its buffer                                                  *)
(***************************************************************************)
EXTENDS Naturals, Sequences, FiniteSets, FiniteSetsExt

CONSTANTS
  Clients,             \* connections, numbered in the order of accept()
  Socks,               \* descriptors, numbers
  Length,              \* lengths of the messages that clients send
  NULL,
  PSC_MAX_CLIENTS,
  PSC_MAX_RX_MSG_LEN,
  SkipChunk,           \* size of the buffer of psc_recvskip(), 128
  Wrap,                \* 2^32: client_count is unsigned
  Talkers,             \* bound: clients that send messages
  MaxMsg,              \* bound: messages a client sends
  MaxPeriodic          \* bound: broadcasts of the periodic thread

ASSUME ListenerAssumption ==
  /\ Clients \subseteq Nat /\ IsFiniteSet(Clients) /\ NULL \notin Clients
  /\ Socks \subseteq Nat /\ IsFiniteSet(Socks) /\ NULL \notin Socks
  /\ Cardinality(Socks) >= Cardinality(Clients)
  /\ Length \subseteq Nat
  /\ PSC_MAX_CLIENTS \in Nat \ {0} /\ PSC_MAX_RX_MSG_LEN \in Nat /\ SkipChunk \in Nat \ {0}
  /\ Talkers \subseteq Clients
  /\ Wrap \in Nat /\ Wrap > PSC_MAX_CLIENTS
  /\ MaxMsg \in Nat /\ MaxPeriodic \in Nat

VARIABLES
  pc,            \* pc[c]: where the thread of client c is
  new,           \* the client psc_run() has started and not linked yet
  client_head, client_count,
  next, prev, active, sock,   \* the fields of struct psc_client
  fd,            \* fd[s]: the connection that descriptor s names
  sent,          \* sent[c]: the messages it has sent
  stream,        \* stream[c]: bytes that have arrived and are not read
  rx,            \* rx[c]: what thread c has of the message that it is reading
  got,           \* got[c]: bodies that thread c gave to the recv callback
  periodics,     \* broadcasts of the periodic thread
  missed,        \* clients that a broadcast passed over or reached twice
  mishaps, fault

list == <<client_head, client_count, next, prev>>
io == <<sent, stream, rx, got>>
vars == <<pc, new, list, active, sock, fd, io, periodics, missed, mishaps, fault>>

\* A thread that has not left its loop; one that has nothing left to do.
Live(c) == pc[c] \in {"conn1", "conn2", "read", "body", "rest", "echo"}
Freed(c) == pc[c] = "freed"
Linked(c) == Live(c) /\ c # new

\* A thread that still has its descriptor.
Busy(c) == Live(c) \/ pc[c] \in {"unlink", "close"}

goto(c, from, to) == ~fault /\ pc[c] = from /\ pc' = [pc EXCEPT ![c] = to]

\* psc_recvmsg() and psc_recvskip(): the body so far, how many bytes of it are to
\* come, how many are to be skipped then, and how many of the present piece are.
idle == [buf |-> <<>>, want |-> 0, len |-> 0, cnt |-> 0]

----------------------------------------------------------------------------
Init ==
  /\ pc = [c \in Clients |-> "none"] /\ new = NULL
  /\ client_head = NULL /\ client_count = 0
  /\ next = [c \in Clients |-> NULL] /\ prev = [c \in Clients |-> NULL]
  /\ active = [c \in Clients |-> FALSE] /\ sock = [c \in Clients |-> NULL]
  /\ fd = [s \in Socks |-> NULL]
  /\ sent = [c \in Clients |-> <<>>]
  /\ stream = [c \in Clients |-> <<>>]
  /\ rx = [c \in Clients |-> idle] /\ got = [c \in Clients |-> <<>>]
  /\ periodics = 0
  /\ missed = {} /\ mishaps = {} /\ fault = FALSE

----------------------------------------------------------------------------
\* The clients' side of the connections.

Bytes(n, first, last) == [i \in 1..(last - first + 1) |-> [n |-> n, k |-> first + i - 1]]

Send(c, len) ==
  /\ ~fault /\ Live(c)
  /\ c \in Talkers /\ Len(sent[c]) < MaxMsg
  /\ sent' = [sent EXCEPT ![c] = Append(@, len)]
  /\ stream' = [stream EXCEPT ![c] = @ \o Bytes(Len(sent'[c]), 0, len)]
  /\ UNCHANGED <<pc, new, list, active, sock, fd, rx, got, periodics, missed,
                 mishaps, fault>>

----------------------------------------------------------------------------
\* psc_run(), the accepting thread.

\* Mutant: one client too many.
full_Off == client_count > PSC_MAX_CLIENTS

full == client_count >= PSC_MAX_CLIENTS

\* accept() returns the next client.
accept(c) == new = NULL /\ \A d \in Clients : d < c => pc[d] # "none"

\* The client is dropped: there are enough, or no memory or thread for one more.
accept_drop(c) ==
  /\ accept(c)
  /\ goto(c, "none", "freed")
  /\ UNCHANGED <<new, list, active, sock, fd, io, periodics, missed, mishaps,
                 fault>>

\* Its thread is started.  It has the lowest free descriptor, which may be one
\* that a failed send closed and that another thread still uses.
accept_start(c) ==
  /\ accept(c) /\ ~full
  /\ goto(c, "none", "conn1")
  /\ LET s == Min({t \in Socks : fd[t] = NULL}) IN
       /\ sock' = [sock EXCEPT ![c] = s]
       /\ fd' = [fd EXCEPT ![s] = c]
       /\ mishaps' = IF \E d \in Clients : Busy(d) /\ sock[d] = s THEN mishaps \cup {"reuse"}
                     ELSE mishaps
  /\ new' = c
  /\ UNCHANGED <<list, active, io, periodics, missed, fault>>

\* Mutant: the clients before it are forgotten.
link_Forgets ==
  /\ ~fault /\ new # NULL
  /\ client_head' = new
  /\ client_count' = (client_count + 1) % Wrap
  /\ active' = [active EXCEPT ![new] = TRUE]
  /\ new' = NULL
  /\ UNCHANGED <<pc, next, prev, sock, fd, io, periodics, missed, mishaps, fault>>

\* The client is put in front of the list, whether its thread still has it or
\* not; the prev of the client that was first stays NULL.
link ==
  /\ ~fault /\ new # NULL
  /\ client_head' = new
  /\ client_count' = (client_count + 1) % Wrap
  /\ next' = [next EXCEPT ![new] = client_head]
  /\ active' = [active EXCEPT ![new] = TRUE]
  /\ new' = NULL
  /\ UNCHANGED <<pc, prev, sock, fd, io, periodics, missed, mishaps, fault>>

----------------------------------------------------------------------------
\* psc_sendmsg() to the clients of to, in the order of w; those of bad fail,
\* and with them every one whose descriptor is closed.
Fails(w, to, bad) ==
  \A i \in 1..Len(w) : w[i] \in to =>
    \/ w[i] \in bad
    \/ fd[sock[w[i]]] # NULL /\ \A j \in 1..(i - 1) : w[j] \in bad => sock[w[j]] # sock[w[i]]

\* A client that fails is no longer active and its descriptor is closed.
sendmsg(w, to, bad) ==
  /\ bad \subseteq to /\ Fails(w, to, bad)
  /\ active' = [c \in Clients |-> active[c] /\ c \notin bad]
  /\ fd' = [s \in Socks |-> IF \E c \in bad : sock[c] = s THEN NULL ELSE fd[s]]
  /\ mishaps' = IF new \in bad THEN mishaps \cup {"outrun"} ELSE mishaps

\* The clients that psc_send() visits, up to one that has been freed.
Walk[n \in 0..Cardinality(Clients)] ==
  [c \in Clients \cup {NULL} |-> IF c = NULL \/ n = 0 THEN <<>>
                                ELSE IF Freed(c) THEN <<c>>
                                ELSE <<c>> \o Walk[n - 1][next[c]]]
walk == Walk[Cardinality(Clients)][client_head]

\* Who is counted as missed: a client that is linked and present and that did
\* not get the message just once.
Missed(to, bad) ==
  {c \in Clients : /\ Linked(c) /\ active[c] /\ c \notin bad
                   /\ 1 # Cardinality({i \in 1..Len(walk) : /\ walk[i] \in to \ bad
                                                            /\ fd[sock[walk[i]]] = c})}

\* psc_send(): a broadcast to the active clients of the list.
psc_send ==
  IF \E i \in 1..Len(walk) : Freed(walk[i])
  THEN fault' = TRUE /\ UNCHANGED <<active, fd, mishaps, missed>>
  ELSE LET to == {c \in Clients : active[c] /\ \E i \in 1..Len(walk) : walk[i] = c} IN
       \E bad \in SUBSET Clients :
         /\ sendmsg(walk, to, bad)
         /\ missed' = IF mishaps = {} THEN missed \cup Missed(to, bad) ELSE {}
         /\ UNCHANGED fault

\* periodic(): a broadcast of the application, if sendperiodic lets it.
periodic ==
  /\ ~fault /\ periodics < MaxPeriodic
  /\ periodics' = periodics + 1
  /\ psc_send
  /\ UNCHANGED <<pc, new, list, sock, io>>

----------------------------------------------------------------------------
\* handle_client(), the thread of client c.

\* onconn(): two calls of psc_send_one().
onconn(c) ==
  /\ goto(c, "conn1", "conn2") \/ goto(c, "conn2", "read")
  /\ \E bad \in SUBSET {c} : sendmsg(<<c>>, {c}, bad)
  /\ UNCHANGED <<new, list, sock, io, periodics, missed, fault>>

\* recv() of the next byte of the connection that thread c's descriptor names.
from(c) == fd[sock[c]]
byte(c) == Head(stream[from(c)])
recv(c) ==
  /\ from(c) # NULL /\ stream[from(c)] # <<>>
  /\ stream' = [stream EXCEPT ![from(c)] = Tail(@)]
  /\ UNCHANGED <<new, list, active, sock, fd, sent, periodics, missed>>

\* handle_client() leaves its loop.
leave(c, stage) ==
  /\ goto(c, stage, "unlink")
  /\ rx' = [rx EXCEPT ![c] = idle]
  /\ mishaps' = mishaps \cup (IF new = c THEN {"outrun"} ELSE {})

\* The length in the header that is next, and how much of the body is kept.
mlen(c) == sent[from(c)][byte(c).n]
rlen(c) == Min({mlen(c), PSC_MAX_RX_MSG_LEN})

\* Mutant: what does not fit is left in the stream.
psc_recvhead_NoSkip(c) ==
  /\ pc[c] = "read" /\ recv(c)
  /\ IF byte(c).k # 0 THEN leave(c, "read")
     ELSE /\ goto(c, "read", "body")
          /\ rx' = [rx EXCEPT ![c] = [idle EXCEPT !.want = rlen(c)]]
          /\ UNCHANGED mishaps
  /\ UNCHANGED <<got, fault>>

\* psc_recvhead(), which knows a header from a byte of a body.
psc_recvhead(c) ==
  /\ pc[c] = "read" /\ recv(c)
  /\ IF byte(c).k # 0 THEN leave(c, "read")
     ELSE /\ goto(c, "read", "body")
          /\ rx' = [rx EXCEPT ![c] = [idle EXCEPT !.want = rlen(c), !.len = mlen(c) - rlen(c)]]
          /\ UNCHANGED mishaps
  /\ UNCHANGED <<got, fault>>

\* psc_recvall() of the body.
psc_recvall(c) ==
  LET r == rx[c] IN
    /\ goto(c, "body", "body") /\ r.want > 0
    /\ recv(c)
    /\ rx' = [rx EXCEPT ![c] = [r EXCEPT !.buf = Append(r.buf, byte(c)), !.want = r.want - 1]]
    /\ UNCHANGED <<got, mishaps, fault>>

\* psc_recvskip(), in pieces of its buffer.
psc_recvskip(c) ==
  LET r == rx[c]
      piece == Min({r.len, SkipChunk}) IN
    /\ goto(c, "body", "body") /\ r.want = 0 /\ r.len > 0
    /\ recv(c)
    /\ rx' = [rx EXCEPT ![c] = IF r.cnt + 1 < piece THEN [r EXCEPT !.cnt = r.cnt + 1]
                               ELSE [r EXCEPT !.cnt = 0, !.len = r.len - piece]]
    /\ UNCHANGED <<got, mishaps, fault>>

\* The psc_recvall() behind its loop when a piece has failed: all that was left
\* before that piece goes into the buffer, which takes SkipChunk bytes.
recvrest(c) ==
  /\ goto(c, "rest", "rest")
  /\ recv(c)
  /\ IF rx[c].cnt < SkipChunk
     THEN rx' = [rx EXCEPT ![c].cnt = @ + 1] /\ UNCHANGED <<mishaps, fault>>
     ELSE fault' = TRUE /\ mishaps' = mishaps \cup {"overrun"} /\ UNCHANGED rx
  /\ UNCHANGED got

\* psc_recvmsg() succeeds.  rxmsg() then broadcasts an answer, or turns the
\* periodic broadcasts on or off.
psc_recvmsg(c) ==
  /\ goto(c, "body", "echo") \/ goto(c, "body", "read")
  /\ rx[c].want = 0 /\ rx[c].len = 0
  /\ got' = [got EXCEPT ![c] = Append(@, rx[c].buf)]
  /\ rx' = [rx EXCEPT ![c] = idle]
  /\ UNCHANGED <<new, list, active, sock, fd, sent, stream, periodics, missed, mishaps, fault>>

rxmsg(c) ==
  /\ goto(c, "echo", "read")
  /\ psc_send
  /\ UNCHANGED <<new, list, sock, io, periodics>>

\* Mutant: the thread tries again.
recverror_Retries(c) ==
  /\ goto(c, "read", "read")
  /\ UNCHANGED <<new, list, active, sock, fd, io, periodics, missed, mishaps, fault>>

\* recv() fails: the descriptor is closed, the client has gone, with or without
\* what it sent, or was silent for five seconds.  The loop of psc_recvskip() ends
\* like that too and the rest is read nevertheless.
recverror(c) ==
  /\ \/ leave(c, "read") \/ leave(c, "rest")
     \/ rx[c].want > 0 /\ leave(c, "body")
     \/ rx[c].want = 0 /\ rx[c].len \in 1..SkipChunk /\ leave(c, "body")
     \/ /\ rx[c].want = 0 /\ rx[c].len > SkipChunk
        /\ goto(c, "body", "rest")
        /\ rx' = [rx EXCEPT ![c].cnt = 0]
        /\ UNCHANGED mishaps
  /\ UNCHANGED <<new, list, active, sock, fd, sent, stream, got, periodics, missed, fault>>

\* Mutant: the client that was linked before is forgotten.
unlink_Drops(c) ==
  /\ goto(c, "unlink", "close")
  /\ client_head' = NULL
  /\ client_count' = (client_count + Wrap - 1) % Wrap
  /\ mishaps' = IF client_head = c THEN mishaps ELSE mishaps \cup {"disorder"}
  /\ UNCHANGED <<new, next, prev, active, sock, fd, io, periodics, missed, fault>>

\* The client takes itself out of the list.
unlink(c) ==
  /\ goto(c, "unlink", "close")
  /\ IF \E d \in {next[c], prev[c]} \ {NULL} : Freed(d)
     THEN fault' = TRUE /\ UNCHANGED <<list, mishaps>>
     ELSE /\ prev' = IF next[c] = NULL THEN prev ELSE [prev EXCEPT ![next[c]] = prev[c]]
          /\ IF prev[c] = NULL
             THEN client_head' = next[c] /\ UNCHANGED next
             ELSE next' = [next EXCEPT ![prev[c]] = next[c]] /\ UNCHANGED client_head
          /\ client_count' = (client_count + Wrap - 1) % Wrap
          /\ mishaps' = IF client_head = c THEN mishaps ELSE mishaps \cup {"disorder"}
          /\ UNCHANGED fault
  /\ UNCHANGED <<new, active, sock, fd, io, periodics, missed>>

\* It closes its descriptor, whatever that names by now, and is freed.  With
\* the client the model forgets its history.
closefree(c) ==
  /\ goto(c, "close", "freed")
  /\ fd' = [fd EXCEPT ![sock[c]] = NULL]
  /\ next' = [next EXCEPT ![c] = NULL]
  /\ active' = [active EXCEPT ![c] = FALSE]
  /\ sock' = [sock EXCEPT ![c] = NULL]
  /\ sent' = [sent EXCEPT ![c] = <<>>] /\ stream' = [stream EXCEPT ![c] = <<>>]
  /\ got' = [got EXCEPT ![c] = <<>>] /\ UNCHANGED rx
  /\ UNCHANGED <<new, client_head, client_count, prev, periodics, missed, mishaps, fault>>

----------------------------------------------------------------------------
handle_client(c) ==
  \/ onconn(c)
  \/ psc_recvhead(c) \/ psc_recvall(c) \/ psc_recvskip(c) \/ recvrest(c) \/ recverror(c)
  \/ psc_recvmsg(c) \/ rxmsg(c)
  \/ unlink(c) \/ closefree(c)

Next ==
  \/ \E c \in Clients : \/ \E len \in Length : Send(c, len)
                        \/ accept_drop(c) \/ accept_start(c)
                        \/ handle_client(c)
  \/ link
  \/ periodic

\* Threads that can run do run.
Fairness == WF_vars(link) /\ \A c \in Clients : WF_vars(handle_client(c))

Spec == Init /\ [][Next]_vars /\ Fairness

----------------------------------------------------------------------------
\* The list holds the clients that are linked and live, and client_count
\* counts them, as long as no thread outran psc_run() or its buffer and clients
\* left newest first: psc_run()'s link and handle_client()'s "patch outselves out of the
\* client list" agree, failed sends and used descriptors included.
ListHoldsClients ==
  mishaps \cap {"outrun", "disorder", "overrun"} = {} =>
    /\ ~fault
    /\ {walk[i] : i \in 1..Len(walk)} = {c \in Clients : (Live(c) \/ pc[c] = "unlink") /\ c # new}
    /\ client_count = Len(walk)

\* No more than PSC_MAX_CLIENTS clients are served at a time, whatever goes
\* wrong with the list: the count survives a thread that ends before psc_run()
\* has linked its client.
ClientsBounded ==
  Cardinality({c \in Clients : Live(c) \/ pc[c] = "unlink"}) <= PSC_MAX_CLIENTS

\* Without mishaps a broadcast of psc_send() reaches every client it holds
\* active, and none twice.
BroadcastReachesAll == mishaps = {} => missed = {}

\* While no descriptor was used again, psc_recvmsg() keeps in step with the
\* stream and cuts messages to the size of its buffer: what the recv callback got
\* are the client's messages, in order, and whenever it begins the next byte is
\* the next message's header, however bodies arrive and whatever read failed.
MessagesInStep ==
  "reuse" \notin mishaps =>
    \A c \in Clients :
      /\ \A n \in 1..Len(got[c]) : got[c][n] = Bytes(n, 1, Min({sent[c][n], PSC_MAX_RX_MSG_LEN}))
      /\ pc[c] \in {"conn1", "conn2", "read", "echo"} /\ stream[c] # <<>>
           => stream[c][1] = [n |-> Len(got[c]) + 1, k |-> 0]

\* Every client that is accepted and falls silent is released in the end, even
\* when sends fail, threads outrun psc_run() and descriptors are used again.
ClientsReleased == \A c \in Clients : Live(c) ~> (Freed(c) \/ fault)
=============================================================================
