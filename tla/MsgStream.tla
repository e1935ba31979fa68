----------------------------- MODULE MsgStream -----------------------------
(***************************************************************************)
(* What a PSC promises of the messages its device sends: on one connection *)
(* they are handled whole, once and in the order sent; a message of        *)
(* Promised that has a registered ID replaces the content of its block and *)
(* has the block scanned once, any other does both or leaves no trace; a   *)
(* message that does not start with the magic bytes ends the connection;   *)
(* what is unread when a connection ends is never delivered on a later one.*)
(***************************************************************************)
EXTENDS Naturals, Sequences

CONSTANTS
  Msg,     \* messages: records with fields id, len and magic
  Promised, \* messages whose block is certain to be scanned
  Blocks,  \* IDs of the receive blocks
  Empty    \* the content of a block before any message

VARIABLES
  up,      \* a connection is established
  closed,  \* the device will send no more on it
  chan,    \* messages of this connection not yet handled, oldest first
  data,    \* data[b]: the message whose body block b holds
  scans    \* scans[b]: scans requested of block b

vars == <<up, closed, chan, data, scans>>

Init ==
  /\ up = FALSE
  /\ closed = FALSE
  /\ chan = <<>>
  /\ data = [b \in Blocks |-> Empty]
  /\ scans = [b \in Blocks |-> 0]

Open ==
  /\ ~up
  /\ up' = TRUE
  /\ UNCHANGED <<closed, chan, data, scans>>

Emit(m) ==
  /\ up /\ ~closed
  /\ chan' = Append(chan, m)
  /\ UNCHANGED <<up, closed, data, scans>>

\* The device closes; of what it had written, a suffix may be cut off.
Close ==
  /\ up /\ ~closed
  /\ closed' = TRUE
  /\ \E n \in 0..Len(chan) : chan' = SubSeq(chan, 1, n)
  /\ UNCHANGED <<up, data, scans>>

Lose ==
  /\ up
  /\ up' = FALSE
  /\ closed' = FALSE
  /\ chan' = <<>>
  /\ UNCHANGED <<data, scans>>

Handle ==
  /\ up
  /\ chan # <<>>
  /\ Head(chan).magic
  /\ chan' = Tail(chan)
  /\ \E noted \in BOOLEAN :
       LET stored(b) == Head(chan).id = b /\ noted IN
       /\ Head(chan) \in Promised => noted
       /\ data' = [b \in Blocks |-> IF stored(b) THEN Head(chan) ELSE data[b]]
       /\ scans' = [b \in Blocks |-> IF stored(b) THEN scans[b] + 1 ELSE scans[b]]
  /\ UNCHANGED <<up, closed>>

Next == Open \/ Close \/ Lose \/ Handle \/ \E m \in Msg : Emit(m)

Spec == Init /\ [][Next]_vars

\* A message that has been sent is handled, unless the connection is lost.
FairSpec == Spec /\ WF_vars(Handle)
=============================================================================
