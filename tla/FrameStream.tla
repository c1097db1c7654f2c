------------------------------ MODULE FrameStream ------------------------------
(***************************************************************************)
(* What the slots of a client of the multi-client compositor promise about *)
(* its frames, whatever threads move them: frames are shown in the order   *)
(* in which they were begun, one at a time and each at most once; a frame  *)
(* may be dropped, but an older one is then not shown any more; and what   *)
(* has been retired never comes back.  FrameSlots implements this.         *)
(***************************************************************************)
EXTENDS Integers

CONSTANT Frames   \* the ids of frames, in the order of submission

VARIABLE stage    \* how far each frame has come

Init == stage = [f \in Frames |-> "new"]

\* layer_begin: frame ids grow.
Begin(f) ==
  /\ \A g \in Frames : g >= f => stage[g] = "new"
  /\ stage' = [stage EXCEPT ![f] = "held"]

\* The oldest frame that is held replaces the one that is shown.
Show(f) ==
  /\ stage[f] = "held"
  /\ \A g \in Frames : stage[g] = "held" => g >= f
  /\ \A g \in Frames : stage[g] = "shown" => g < f
  /\ stage' = [g \in Frames |-> IF g = f THEN "shown"
                                ELSE IF stage[g] = "shown" THEN "retired" ELSE stage[g]]

\* Frames are retired, of those that are held the oldest first.
Retire(S) ==
  /\ \A f \in S : stage[f] \in {"held", "shown"}
  /\ \A f \in S, g \in Frames : stage[f] = "held" /\ stage[g] = "held" /\ g < f => g \in S
  /\ stage' = [f \in Frames |-> IF f \in S THEN "retired" ELSE stage[f]]

Next ==
  \/ \E f \in Frames : Begin(f) \/ Show(f)
  \/ \E S \in SUBSET Frames : Retire(S)

Spec == Init /\ [][Next]_stage
================================================================================
