------------------------------- MODULE HandOver -------------------------------
(***************************************************************************)
(* What the service may rely on when it hands a client's descriptor to the *)
(* server with ipc_server_mainloop_add_fd: the server takes descriptors    *)
(* one at a time, each while the call that offers it is under way, and the *)
(* call's return value says whether it has done so ("If and only if we get *)
(* a 0 return, has the server taken ownership of the fd.  Otherwise, we    *)
(* are responsible for closing it", service_target.cpp).                   *)
(*                                                                         *)
(* No pipe, no mutexes and no shutdown: AndroidMainloop implements this.   *)
(***************************************************************************)
EXTENDS Integers

CONSTANT Descriptors

VARIABLES
  phase,   \* what has become of the call for each descriptor
  server,  \* the descriptors the server owns
  result   \* what the calls have returned

vars == <<phase, server, result>>

Init ==
  /\ phase = [d \in Descriptors |-> "idle"]
  /\ server = {}
  /\ result = [d \in Descriptors |-> 0]

Call(d) ==
  /\ phase[d] = "idle"
  /\ phase' = [phase EXCEPT ![d] = "calling"]
  /\ UNCHANGED <<server, result>>

\* No other descriptor is between being taken and being reported as taken.
Take(d) ==
  /\ phase[d] = "calling"
  /\ \A e \in Descriptors : phase[e] = "calling" => e \notin server
  /\ server' = server \cup {d}
  /\ UNCHANGED <<phase, result>>

Return(d) ==
  /\ phase[d] = "calling"
  /\ phase' = [phase EXCEPT ![d] = "returned"]
  /\ result' = [result EXCEPT ![d] = IF d \in server THEN 0 ELSE -1]
  /\ UNCHANGED server

\* The server has been freed under the call.
Lose(d) ==
  /\ phase[d] = "calling"
  /\ phase' = [phase EXCEPT ![d] = "lost"]
  /\ UNCHANGED <<server, result>>

Next == \E d \in Descriptors : Call(d) \/ Take(d) \/ Return(d) \/ Lose(d)

Spec == Init /\ [][Next]_vars
==============================================================================
