--------------------------- MODULE MCDistribution ---------------------------
(***************************************************************************)
(* Small instances of Distribution for TLC.                                *)
(***************************************************************************)
EXTENDS Distribution, TLC

CONSTANTS n1, n2

\* Nodes are interchangeable.
NodeSymmetry == Permutations(Node)

=============================================================================
