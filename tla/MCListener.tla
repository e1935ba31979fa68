----------------------------- MODULE MCListener -----------------------------
(* Instances of Listener for TLC: three clients for two places, and two    *)
(* clients that talk more.                                                 *)
EXTENDS Listener

MCClients == 1..3
MCSocks == 1..3
MCPair == 1..2

\* A body that is cut, with a rest that is skipped in two pieces.
MCLength == {4}

\* Also one that fits and one that is skipped in a single piece.
MCLengths == {1, 2, 4}
=============================================================================
