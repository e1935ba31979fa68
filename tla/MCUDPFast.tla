----------------------------- MODULE MCUDPFast -----------------------------
(* An instance of UDPFast for TLC: a pool of four buffers, one more than   *)
(* the receiver and the short buffer can keep, with the larger batch or    *)
(* the larger short buffer, and one that they can keep between them.       *)
EXTENDS UDPFast

CONSTANTS b1, b2, b3, b4

MCBuf == {b1, b2, b3, b4}

Site(batch, nelm, clears) == [batchSize |-> batch, Nelm |-> nelm, clears |-> clears]
MCSites == {Site(2, 1, TRUE), Site(2, 1, FALSE), Site(1, 2, FALSE), Site(2, 2, FALSE)}
=============================================================================
