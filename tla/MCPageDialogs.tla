--------------------------- MODULE MCPageDialogs ---------------------------
(* Instances of PageDialogs for TLC. *)
EXTENDS PageDialogs, TLC
=============================================================================
