---------------------------- MODULE MCStepWrites ----------------------------
(***************************************************************************)
(* StepWrites for TLC.                                                     *)
(***************************************************************************)
EXTENDS StepWrites
=============================================================================
