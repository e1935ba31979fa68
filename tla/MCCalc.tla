------------------------------- MODULE MCCalc -------------------------------
(* An instance of Calc for TLC: a rate that is missing and one that is not, *)
(* waveforms that are empty, too short for a spectrum and long enough.      *)
EXTENDS Calc

MCRate == {0, 1}
MCPoints == {2, 4}
MCWaves == {0, 4}
MCWidth == {1}
=============================================================================
