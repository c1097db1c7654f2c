--------------------------- MODULE MCAugInsService ---------------------------
(* Model-checking instances of AugInsService: see the .cfg files. *)
EXTENDS AugInsService

\* The second module comes before the first, with which the third ties.
ThreePriorities == <<100, 50, 100>>

\* The second module lists the function twice.
TwiceListed == <<1, 2, 1>>

OnePriority == <<100>>

OnceListed == <<1>>
==============================================================================
