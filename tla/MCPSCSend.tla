----------------------------- MODULE MCPSCSend -----------------------------
(* Instances of PSCSend for TLC: three blocks with bodies of different size  *)
(* and a buffer limit that two messages reach.                             *)
EXTENDS PSCSend

MCBlock == {1, 2, 3}
MCBodyLen == [b \in MCBlock |-> b]
=============================================================================
