--------------------------- MODULE MCPageCommands ---------------------------
(* Instances of PageCommands for TLC. Calls and windows are named in a fixed order, which *)
(* does for liveness what symmetry does for safety.                                       *)
EXTENDS PageCommands, TLC
=============================================================================
