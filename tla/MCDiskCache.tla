---------------------------- MODULE MCDiskCache ----------------------------
(***************************************************************************)
(* Small instances of DiskCache for TLC.                                   *)
(***************************************************************************)
EXTENDS DiskCache, TLC

\* The entries of the slab are interchangeable.
Symmetry == Permutations(Slot)

=============================================================================
