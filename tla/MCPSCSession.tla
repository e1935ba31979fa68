---------------------------- MODULE MCPSCSession ----------------------------
(* An instance of PSCSession for TLC: two threads process two records; one *)
(* of these and another one are processed on connect.  The state space is  *)
(* finite.                                                                 *)
EXTENDS PSCSession

CONSTANTS t1, t2, r1, r2, s1

MCThread == {t1, t2}
MCRec == {r1, r2}
MCProcOnConnect == <<s1, r1>>
=============================================================================
