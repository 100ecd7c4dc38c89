---------------------------- MODULE MC_TaskCreation ----------------------------
(* Model-checking instance of TaskCreation.                                 *)
EXTENDS TaskCreation, TLC
=============================================================================
