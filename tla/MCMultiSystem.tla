--------------------------- MODULE MCMultiSystem ---------------------------
(* Instance of MultiSystem for TLC. *)
EXTENDS MultiSystem

=============================================================================
