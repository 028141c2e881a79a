------------------------------ MODULE MCRecord ------------------------------
(***************************************************************************)
(* Small instances of Record for TLC.                                      *)
(***************************************************************************)
EXTENDS Record, TLC

CONSTANTS h1, h2, h3, h4, p1, p2

\* Handles are interchangeable: only equality of handles is ever tested.
HandleSymmetry == Permutations(Handle)

=============================================================================
