----------------------------- MODULE MCActiveClient -----------------------------
(* Model-checking instances of ActiveClient: see the .cfg files. *)
EXTENDS ActiveClient

\* What the properties of the large instance look at.  No step reads comp, mainVis
\* or dangling, and these properties read comp and mainVis of a first session only.
FirstSession(i) == xc[i] = "live" /\ made[i] = 1

View ==
  <<active, last, cl, xc, pc, arg, made,
    [i \in Slots |-> FirstSession(i) /\ comp[i]],
    [i \in Slots |-> FirstSession(i) /\ mainVis[i]]>>
=================================================================================
