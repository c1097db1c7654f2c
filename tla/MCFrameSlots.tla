--------------------------- MODULE MCFrameSlots ---------------------------
(* Instance of FrameSlots for TLC. *)
EXTENDS FrameSlots

=============================================================================
