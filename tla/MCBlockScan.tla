---------------------------- MODULE MCBlockScan ----------------------------
(* Instances of BlockScan for TLC: two priorities, three records. *)
EXTENDS BlockScan, TLC

CONSTANTS low, high, r1, r2, r3

MCPrio == {low, high}
MCRec == {r1, r2, r3}
MCPrioOf == (r1 :> low) @@ (r2 :> low) @@ (r3 :> high)
=============================================================================
