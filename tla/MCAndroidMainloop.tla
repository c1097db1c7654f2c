-------------------------- MODULE MCAndroidMainloop --------------------------
(* Model-checking instances of AndroidMainloop: see the .cfg files. *)
EXTENDS AndroidMainloop

==============================================================================
