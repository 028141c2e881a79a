----------------------------- MODULE MCSyncTime -----------------------------
(***************************************************************************)
(* Small instances of SyncTime for TLC.                                    *)
(***************************************************************************)
EXTENDS SyncTime, TLC

=============================================================================
