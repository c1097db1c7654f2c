----------------------------- MODULE MultiSystem -----------------------------
(***************************************************************************)
(* The system compositor of the multi-client module: its render thread,    *)
(* the native session it begins and ends, the list of clients, and the     *)
(* calls by which client threads and the IPC server change a client.       *)
(*                                                                         *)
(* Sources: compositor/multi/comp_multi_system.c, and creation, sessions   *)
(* and destruction of a client in comp_multi_compositor.c.  What happens   *)
(* to the frames of one client is in FrameSlots; here a client only has or *)
(* has not a delivered frame.                                              *)
(*                                                                         *)
(* Granularity.  A section of the mutex of oth is one step.  So is one of  *)
(* list_and_timing_lock, but for the transfer of layers, which is a step   *)
(* per client: the lock is held in between, by the render thread.          *)
(*                                                                         *)
(* Of what set_state writes only visible is here.  state.focused decides   *)
(* nothing but the blend mode of the frame, in find_active_blend_mode,     *)
(* whose assertion about the two is discussed in the README.               *)
(***************************************************************************)
EXTENDS Integers, FiniteSets

CONSTANTS
  Clients,     \* the multi_compositors that are ever created
  MaxListed,   \* MULTI_MAX_CLIENTS
  WarmStart,   \* do_warm_start
  Nobody       \* stands for NULL

ASSUME ClientsAssumption == IsFiniteSet(Clients) /\ Nobody \notin Clients
ASSUME MaxListedAssumption == MaxListed \in Nat \ {0}
ASSUME WarmStartAssumption == WarmStart \in BOOLEAN

VARIABLES
  running,   \* msc->oth.running
  state,     \* msc->sessions.state
  count,     \* msc->sessions.active_count
  native,    \* calls of begin_session minus calls of end_session
  rpc,       \* where the render thread is
  k,         \* transfer_layers_locked: the next entry of clients
  array,     \* transfer_layers_locked: the clients whose layers are submitted
  lock,      \* list_and_timing_lock: "free", or held by "render"
  list,      \* msc->clients
  mc,        \* the clients
  cpc        \* where the thread of each client is

renderVars == <<native, rpc, k, array>>
vars == <<running, state, count, renderVars, lock, list, mc, cpc>>

Entries == 0 .. MaxListed - 1

SystemStates == {"INIT_WARM_START", "STOPPED", "RUNNING", "STOPPING"}

\* multi_compositor::state without focus, z order and base flag, which only
\* decide how layers are drawn, and whether the delivered slot is active.
Client == [visible : BOOLEAN, session_active : BOOLEAN, delivered : BOOLEAN]

ClientPCs == {"none", "idle", "began", "ended", "dying", "unlist", "clear", "freed"}

TypeOK ==
  /\ running \in BOOLEAN
  /\ state \in SystemStates
  /\ count \in Nat
  /\ native \in Int
  /\ rpc \in {"check", "asleep", "transfer", "collect", "copy", "ended"}
  /\ k \in 0 .. MaxListed
  /\ array \in SUBSET Clients
  /\ lock \in {"free", "render"}
  /\ list \in [Entries -> Clients \cup {Nobody}]
  /\ mc \in [Clients -> Client]
  /\ cpc \in [Clients -> ClientPCs]

\* comp_multi_create_system_compositor has started the render thread.
Init ==
  /\ running = TRUE
  /\ state = IF WarmStart THEN "INIT_WARM_START" ELSE "STOPPED"
  /\ count = 0
  /\ native = 0
  /\ rpc = "check"
  /\ k = 0
  /\ array = {}
  /\ lock = "free"
  /\ list = [i \in Entries |-> Nobody]
  /\ mc = [c \in Clients |->
             [visible |-> FALSE, session_active |-> FALSE, delivered |-> FALSE]]
  /\ cpc = [c \in Clients |-> "none"]

\* system_compositor_destroy frees everything once the render thread has been
\* joined; what others would do to it after that is not followed.
SystemFreed == rpc = "ended"

\* os_thread_helper_signal_locked: only the render thread ever sleeps on oth.
Signalled == IF rpc = "asleep" THEN "check" ELSE rpc

-----------------------------------------------------------------------------
(***************************************************************************)
(* The render thread, multi_main_loop.                                     *)
(***************************************************************************)

\* The switch of update_session_state_locked.
NextState ==
  CASE state = "INIT_WARM_START" -> "STOPPING"
    [] state = "STOPPED"  -> IF count = 0 THEN "STOPPED" ELSE "RUNNING"
    [] state = "RUNNING"  -> IF count > 0 THEN "RUNNING" ELSE "STOPPING"
    [] state = "STOPPING" -> IF count > 0 THEN "RUNNING" ELSE "STOPPED"

BeginsNative == state \in {"INIT_WARM_START", "STOPPED"} /\ NextState # "STOPPED"

EndsNative == state = "STOPPING" /\ NextState = "STOPPED"

\* The loop, the mutex being held: update_session_state_locked, and then sleep
\* when stopped, or go on with a frame.
UpdateSessionState ==
  /\ rpc = "check"
  /\ running
  /\ state' = NextState
  /\ native' = IF BeginsNative THEN native + 1 ELSE IF EndsNative THEN native - 1 ELSE native
  /\ rpc' = IF NextState = "STOPPED" THEN "asleep" ELSE "transfer"
  /\ UNCHANGED <<running, count, k, array, lock, list, mc, cpc>>

\* Mutant of EndLoop: the native session is left as it is.
EndLoopOnly ==
  /\ rpc = "check"
  /\ ~running
  /\ rpc' = "ended"
  /\ UNCHANGED <<running, state, count, native, k, array, lock, list, mc, cpc>>

\* The loop is left; every state but STOPPED ends the native session.
EndLoop ==
  /\ rpc = "check"
  /\ ~running
  /\ native' = IF state = "STOPPED" THEN native ELSE native - 1
  /\ rpc' = "ended"
  /\ UNCHANGED <<running, state, count, k, array, lock, list, mc, cpc>>

SpuriousWakeup ==
  /\ rpc = "asleep"
  /\ rpc' = "check"
  /\ UNCHANGED <<running, state, count, native, k, array, lock, list, mc, cpc>>

\* The broadcasts of the predicted times come before; they take the same lock
\* and write nothing that is modelled here.
BeginTransfer ==
  /\ rpc = "transfer"
  /\ lock = "free"
  /\ lock' = "render"
  /\ rpc' = "collect"
  /\ k' = 0
  /\ array' = {}
  /\ UNCHANGED <<running, state, count, native, list, mc, cpc>>

\* transfer_layers_locked, the loop over the clients: a frame may be delivered;
\* a delivered frame of a client that is hidden or has no session is retired.
Collect ==
  /\ rpc = "collect"
  /\ k < MaxListed
  /\ k' = k + 1
  /\ IF list[k] = Nobody
     THEN UNCHANGED <<mc, array>>
     ELSE LET c == list[k]
              shown == mc[c].visible /\ mc[c].session_active
          IN \E delivered \in {mc[c].delivered, TRUE} :
               /\ mc' = [mc EXCEPT ![c].delivered = delivered /\ shown]
               /\ array' = IF delivered /\ shown THEN array \cup {c} ELSE array
  /\ UNCHANGED <<running, state, count, native, rpc, lock, list, cpc>>

\* The rest of transfer_layers_locked works on the array: the sort by z order,
\* the base compositor, the blend mode, and the layers of each client.
SubmitLayers ==
  /\ rpc = "collect"
  /\ k = MaxListed
  /\ rpc' = "copy"
  /\ UNCHANGED <<running, state, count, native, k, array, lock, list, mc, cpc>>

\* The lock is released, the native compositor commits, the loop goes on.
EndTransfer ==
  /\ rpc = "copy"
  /\ lock' = "free"
  /\ rpc' = "check"
  /\ array' = {}
  /\ UNCHANGED <<running, state, count, native, k, list, mc, cpc>>

-----------------------------------------------------------------------------
(***************************************************************************)
(* The thread of a client.                                                 *)
(***************************************************************************)

ClientGoto(c, from, to) ==
  /\ ~SystemFreed
  /\ cpc[c] = from
  /\ cpc' = [cpc EXCEPT ![c] = to]

IsFirstEmpty(i) == list[i] = Nobody /\ \A j \in Entries : j < i => list[j] # Nobody

\* multi_compositor_create: with too many clients it is simply not listed.
CreateClient(c) ==
  /\ ClientGoto(c, "none", "idle")
  /\ lock = "free"
  /\ list' = [i \in Entries |-> IF IsFirstEmpty(i) THEN c ELSE list[i]]
  /\ UNCHANGED <<running, state, count, renderVars, lock, mc>>

\* Mutant of BeginSession: the render thread is not woken up.
BeginSessionSilently(c) ==
  /\ ~mc[c].session_active
  /\ ClientGoto(c, "idle", "began")
  /\ count' = count + 1
  /\ UNCHANGED <<running, state, renderVars, lock, list, mc>>

\* multi_compositor_begin_session: update_session_status counts and signals ...
BeginSession(c) ==
  /\ ~mc[c].session_active
  /\ ClientGoto(c, "idle", "began")
  /\ count' = count + 1
  /\ rpc' = Signalled
  /\ UNCHANGED <<running, state, native, k, array, lock, list, mc>>

\* ... and then the client is marked.
SessionBegan(c) ==
  /\ ClientGoto(c, "began", "idle")
  /\ mc' = [mc EXCEPT ![c].session_active = TRUE]
  /\ UNCHANGED <<running, state, count, renderVars, lock, list>>

\* Mutant of EndSession: a session that has not begun can be ended.
EndSessionUnchecked(c) ==
  /\ ClientGoto(c, "idle", "ended")
  /\ count' = count - 1
  /\ UNCHANGED <<running, state, renderVars, lock, list, mc>>

\* multi_compositor_end_session, likewise.
EndSession(c) ==
  /\ mc[c].session_active
  /\ ClientGoto(c, "idle", "ended")
  /\ count' = count - 1
  /\ UNCHANGED <<running, state, renderVars, lock, list, mc>>

SessionEnded(c) ==
  /\ ClientGoto(c, "ended", "idle")
  /\ mc' = [mc EXCEPT ![c].session_active = FALSE]
  /\ UNCHANGED <<running, state, count, renderVars, lock, list>>

\* multi_compositor_discard_frame: what has been delivered is not shown again.
DiscardFrame(c) ==
  /\ ~SystemFreed
  /\ cpc[c] = "idle"
  /\ lock = "free"
  /\ mc' = [mc EXCEPT ![c].delivered = FALSE]
  /\ UNCHANGED <<running, state, count, renderVars, lock, list, cpc>>

\* Mutant of DestroyActive: the count is left to whoever ended the session.
DestroyActiveUncounted(c) ==
  /\ mc[c].session_active
  /\ ClientGoto(c, "idle", "dying")
  /\ UNCHANGED <<running, state, count, renderVars, lock, list, mc>>

\* multi_compositor_destroy of a client whose session is active.
DestroyActive(c) ==
  /\ mc[c].session_active
  /\ ClientGoto(c, "idle", "dying")
  /\ count' = count - 1
  /\ UNCHANGED <<running, state, renderVars, lock, list, mc>>

DestroyedSession(c) ==
  /\ ClientGoto(c, "dying", "unlist")
  /\ mc' = [mc EXCEPT ![c].session_active = FALSE]
  /\ UNCHANGED <<running, state, count, renderVars, lock, list>>

DestroyInactive(c) ==
  /\ ~mc[c].session_active
  /\ ClientGoto(c, "idle", "unlist")
  /\ UNCHANGED <<running, state, count, renderVars, lock, list, mc>>

\* Mutant of Unlist: the list is changed without the lock.
UnlistUnlocked(c) ==
  /\ ClientGoto(c, "unlist", "clear")
  /\ list' = [i \in Entries |-> IF list[i] = c THEN Nobody ELSE list[i]]
  /\ UNCHANGED <<running, state, count, renderVars, lock, mc>>

Unlist(c) ==
  /\ ClientGoto(c, "unlist", "clear")
  /\ lock = "free"
  /\ list' = [i \in Entries |-> IF list[i] = c THEN Nobody ELSE list[i]]
  /\ UNCHANGED <<running, state, count, renderVars, lock, mc>>

\* The wait thread has been joined; the slots are cleared and mc is freed.
FreeClient(c) ==
  /\ ClientGoto(c, "clear", "freed")
  /\ lock = "free"
  /\ mc' = [mc EXCEPT ![c].delivered = FALSE]
  /\ UNCHANGED <<running, state, count, renderVars, lock, list>>

-----------------------------------------------------------------------------
(***************************************************************************)
(* The IPC server, through xrt_multi_compositor_control.  Two threads make *)
(* these calls, and nothing keeps them apart: the client's own, at the end *)
(* of ipc_handle_session_create, and whichever is in the section of        *)
(* global_state.lock that tells all clients about their state.             *)
(***************************************************************************)

\* The server has the client and nothing of it is being destroyed: that it is
\* called all the same is the subject of ActiveClient.
MayCall(c) == ~SystemFreed /\ cpc[c] \in {"idle", "began", "ended"}

\* system_compositor_set_state, under no lock.
SetState(c, visible) ==
  /\ MayCall(c)
  /\ mc[c].visible # visible
  /\ mc' = [mc EXCEPT ![c].visible = visible]
  /\ UNCHANGED <<running, state, count, renderVars, lock, list, cpc>>

\* system_compositor_set_z_order: beside writing the order it releases
\* list_and_timing_lock, which it has not taken.
SetZOrder(c) ==
  /\ MayCall(c)
  /\ lock' = "free"
  /\ UNCHANGED <<running, state, count, renderVars, list, mc, cpc>>

\* Mutant of StopSystem: the render thread is not woken up.
StopSystemSilently ==
  /\ running
  /\ running' = FALSE
  /\ UNCHANGED <<state, count, renderVars, lock, list, mc, cpc>>

\* system_compositor_destroy stops the render thread, at any time, and waits.
StopSystem ==
  /\ running
  /\ running' = FALSE
  /\ rpc' = Signalled
  /\ UNCHANGED <<state, count, native, k, array, lock, list, mc, cpc>>

-----------------------------------------------------------------------------

RenderStep ==
  \/ UpdateSessionState
  \/ EndLoop
  \/ BeginTransfer
  \/ Collect
  \/ SubmitLayers
  \/ EndTransfer

ClientStep(c) ==
  \/ CreateClient(c)
  \/ BeginSession(c)
  \/ SessionBegan(c)
  \/ EndSession(c)
  \/ SessionEnded(c)
  \/ DiscardFrame(c)
  \/ DestroyActive(c)
  \/ DestroyedSession(c)
  \/ DestroyInactive(c)
  \/ Unlist(c)
  \/ FreeClient(c)

ControlStep ==
  \/ \E c \in Clients, visible \in BOOLEAN : SetState(c, visible)
  \/ \E c \in Clients : SetZOrder(c)
  \/ StopSystem

Next ==
  \/ RenderStep
  \/ SpuriousWakeup
  \/ \E c \in Clients : ClientStep(c)
  \/ ControlStep

\* The render thread runs whenever it can; nobody else has to.
Fairness == WF_vars(RenderStep)

Spec == Init /\ [][Next]_vars

FairSpec == Spec /\ Fairness

-----------------------------------------------------------------------------
(***************************************************************************)
(* Properties.                                                             *)
(***************************************************************************)

Transferring == rpc \in {"collect", "copy"}

\* The native session is begun exactly while the state is RUNNING or STOPPING:
\* neither a session that comes while the last clear frame is drawn nor a stop in
\* either state begins or ends it twice.  How a system that is stopped in
\* INIT_WARM_START leaves it is the subject of EndsOnlyBegun.
NativeMatchesState ==
  /\ rpc # "ended" => native = IF state \in {"RUNNING", "STOPPING"} THEN 1 ELSE 0
  /\ rpc = "ended" /\ state # "INIT_WARM_START" => native = 0

\* The clients that active_count stands for: those with an active session, up to
\* the ones that are between counting and marking.
Counted == {c \in Clients : \/ cpc[c] = "began"
                            \/ mc[c].session_active /\ cpc[c] \notin {"ended", "dying"}}

\* active_count is the number of clients with an active session, although it is
\* written under one lock and session_active under none, and a client may be
\* destroyed in any state; it never goes below zero.
CountActive == count = Cardinality(Counted)

\* As long as the render thread really has list_and_timing_lock, no client whose
\* layers it is submitting leaves the list, loses its frame or is freed.
ClientsStay ==
  Transferring /\ lock = "render" =>
    \A c \in array : cpc[c] \notin {"none", "clear", "freed"} /\ mc[c].delivered

\* The render thread sleeps only in a system that is to go on, with no session and
\* with the native session ended: neither update_session_status nor the stop
\* comes before it listens.
SleepsOnlyIdle ==
  rpc = "asleep" => running /\ count = 0 /\ state = "STOPPED" /\ native = 0

\* The native session follows the sessions of the clients: with an active one
\* it begins, without any it ends.  No wake-up of the render thread is lost.
NativeFollows ==
  /\ count > 0 ~> native = 1 \/ count = 0 \/ ~running
  /\ count = 0 ~> native <= 0 \/ count > 0

\* Stopping the system compositor ends the render thread.
StopReturns == ~running ~> rpc = "ended"

\* The comment above the transfer: "Make sure that the clients doesn't go away
\* while we transfer layers."
NoClientGoesAway == Transferring => \A c \in array : cpc[c] # "freed"

\* "The session hasn't been started yet" in INIT_WARM_START
\* (comp_multi_private.h:283), so nothing is ended there: end_session is never
\* called without a begin_session before it.
EndsOnlyBegun == native >= 0

-----------------------------------------------------------------------------
(***************************************************************************)
(* The inductive invariant behind the safety properties.                   *)
(***************************************************************************)

\* A thread is between begin and end of a session exactly as its client says.
SessionPhases ==
  \A c \in Clients :
    /\ cpc[c] \in {"none", "began", "unlist", "clear", "freed"} => ~mc[c].session_active
    /\ cpc[c] \in {"ended", "dying"} => mc[c].session_active

\* The list holds each client at most once, and none that is not there yet, or
\* that has taken itself out.
ListOfLiving ==
  /\ \A i \in Entries : list[i] # Nobody => cpc[list[i]] \notin {"none", "clear", "freed"}
  /\ \A i, j \in Entries : list[i] = list[j] /\ list[i] # Nobody => i = j

\* While the render thread has the lock, the clients it has collected are in the
\* part of the list it has gone through, and still have the frame it found.
CollectedStay ==
  lock = "render" =>
    /\ Transferring
    /\ \A c \in array : mc[c].delivered /\ \E i \in Entries : i < k /\ list[i] = c

MultiInv ==
  /\ TypeOK
  /\ NativeMatchesState
  /\ CountActive
  /\ SessionPhases
  /\ ListOfLiving
  /\ CollectedStay
=============================================================================
