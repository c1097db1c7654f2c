---------------------------- MODULE MCClientSlots ----------------------------
(* Model-checking instances of ClientSlots: see the .cfg files. *)
EXTENDS ClientSlots

==============================================================================
