----------------------------- MODULE MCCentral -----------------------------
(***************************************************************************)
(* Small instances of CentralMain for TLC.                                 *)
(***************************************************************************)
EXTENDS CentralMain, TLC


=============================================================================
