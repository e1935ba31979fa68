------------------------------- MODULE PSCUDP -------------------------------
(***************************************************************************)
(* What the two halves of class PSCUDP (coreApp/src/pscudp.cpp) share:     *)
(* whether it is connected, and its counter of errors.                     *)
(***************************************************************************)
EXTENDS Naturals, Sequences

CONSTANT
  MaxErr      \* bound: socket errors and timeouts counted

VARIABLES
  connected,  \* PSCBase::connected; evt_rx is added with it
  conncount   \* PSCBase::conncount

\* PSCUDP::connect(), from startAll().
connect ==
  /\ ~connected
  /\ connected' = TRUE
  /\ UNCHANGED conncount
=============================================================================
