---------------------------- MODULE MCBoundaries ----------------------------
(* Instances of Boundaries for TLC. *)
EXTENDS Boundaries, TLC

\* Rows and cursors are only ever compared for equality.
NameSymmetry == Permutations(Rows) \cup Permutations(Cursors)
=============================================================================
