---------------------------- MODULE MCRowVersions ----------------------------
(* Instances of RowVersions for TLC. *)
EXTENDS RowVersions, TLC

\* Sessions are only ever compared for equality.
SessionSymmetry == Permutations(Sessions)
=============================================================================
