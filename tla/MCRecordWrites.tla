--------------------------- MODULE MCRecordWrites ---------------------------
(* Instances of RecordWrites for TLC. *)
EXTENDS RecordWrites, TLC

CONSTANTS
    Clerk,  \* a session with one record variable and no boundaries
    Own     \* that variable; the other sessions have all the others

MCVariables == [s \in Sessions |-> IF s = Clerk THEN {Own} ELSE Buffers \ {Own}]

MCMaxLevel == [s \in Sessions |-> IF s = Clerk THEN 0 ELSE 1]

\* Keys and the record variables of one session are only ever compared for equality.
NameSymmetry == Permutations(Keys) \cup Permutations(Buffers \ {Own})
=============================================================================
