------------------------------ MODULE MCPSCUDP ------------------------------
(* An instance of the two halves of PSCUDP for TLC: lists of two packets    *)
(* instead of 64, a header of two bytes, room for two more, and lengths of  *)
(* four bits.  The halves share only connect() and the counter of errors,   *)
(* so that a behaviour exercises one of them and the other rests.           *)
EXTENDS PSCUDPSend, PSCUDPRecv

VARIABLE half  \* the half that is exercised (fixed from the start)

MCBlock == {1, 2}

Datagram(id, len, size) == [id |-> id, len |-> len, size |-> size, magic |-> TRUE, peer |-> TRUE]

\* Bodies that fit and two that do not, an empty one, an unregistered ID, a
\* datagram without the magic bytes, one of another host, one without a whole
\* header, one shorter than it announces, and the largest length.
MCDgram == {Datagram(1, 1, 3), Datagram(1, 4, 6), Datagram(2, 5, 7), Datagram(1, 0, 2),
            Datagram(9, 1, 3),
            [Datagram(1, 1, 3) EXCEPT !.magic = FALSE],
            [Datagram(1, 1, 3) EXCEPT !.peer = FALSE],
            Datagram(1, 0, 1),
            Datagram(2, 2, 3),
            Datagram(2, 15, 3)}

sendonly == <<uses, lists, queued, count, armed, sending, sent, calls>>
recvonly == <<sound, arrived, read, reading, rxscratch, data, rxcount, ukncount>>
mcvars == <<half, connected, conncount, sendonly, recvonly>>

\* What may happen at a site matters to the half that is exercised.
MCInit ==
  /\ SendInit /\ RecvInit
  /\ \/ half = "send" /\ ~sound
     \/ half = "recv" /\ uses = {}

MCNext ==
  \/ half = "send" /\ SendNext /\ UNCHANGED <<half, recvonly>>
  \/ half = "recv" /\ RecvNext /\ UNCHANGED <<half, sendonly>>

MCSpec ==
  /\ MCInit /\ [][MCNext]_mcvars
  /\ WF_sendvars(EventLoop) /\ WF_sendvars(senddata) /\ SF_sendvars(sendto)
=============================================================================
