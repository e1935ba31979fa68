----------------------------- MODULE MCRegBlock -----------------------------
(* An instance of RegBlock for TLC: two settings share the bits of a         *)
(* register, a third lies across the end of the shorter blocks; a read back, *)
(* a register and an interleaved array that end inside the longest message.  *)
EXTENDS RegBlock

MCRegisters == {"low", "high", "whole", "echo", "reg"}
MCSettings == {"low", "high", "whole"}
MCBlock == [r \in MCRegisters |-> IF r = "reg" THEN "rx" ELSE "tx"]
MCOffset == [low |-> 0, high |-> 0, whole |-> 2, echo |-> 2, reg |-> 1]
MCMask == [low |-> {1}, high |-> {2}, whole |-> {}, echo |-> {}, reg |-> {2}]
MCLengths == {0, 3, 5}
MCZero == <<0, 0>>
=============================================================================
