-------------------------- MODULE MCNumberSequences --------------------------
(* Instances of NumberSequences for TLC. *)
EXTENDS NumberSequences, TLC

\* Sessions are only ever compared for equality.
SessionSymmetry == Permutations(Sessions)

\* From the last value of the range down to its first.
DownwardSteps == {-1}
=============================================================================
