----------------------------- MODULE ActiveClient -----------------------------
(***************************************************************************)
(* Which application is on the display: the choice of the primary client   *)
(* (global_state.active_client_index) and what every client and its        *)
(* compositor are told about being visible and focused.                    *)
(*                                                                         *)
(* Sources: the client management functions of ipc_server_process.c, the   *)
(* session handlers of ipc_server_handler.c and the shutdown of a client   *)
(* in ipc_server_per_client_thread.c.                                      *)
(*                                                                         *)
(* A section under global_state.lock is one step.  ipc_handle_session_     *)
(* create and the destruction of a compositor run without the lock and are *)
(* split where another client's section can come in between.               *)
(*                                                                         *)
(* The code always gives session_visible and session_focused the same      *)
(* value; both are the one flag "shown" here.  The z order is left out.    *)
(***************************************************************************)
EXTENDS Integers

CONSTANTS
  MaxClients,     \* IPC_MAX_CLIENTS
  MayRecreate     \* may a client create a session after destroying one?

ASSUME MaxClientsAssumption == MaxClients \in Nat \ {0}
ASSUME OptionsAssumption == MayRecreate \in BOOLEAN

Slots == 0 .. MaxClients - 1
NoClient == -1

VARIABLES
  active,    \* global_state.active_client_index
  last,      \* global_state.last_active_client_index
  cl,        \* per slot: server_thread_index >= 0, and ipc_app_state
  xc,        \* ipc_client_state::xc: NULL, live, or freed but not yet NULL
  comp,      \* shown, as the compositor of the slot was last told (FALSE
             \* without one: a new compositor shows nothing)
  mainVis,   \* the last main-app-visibility event given to that compositor
  pc,        \* where the slot's client thread is
  arg,       \* the value ipc_handle_session_create is about to push
  made,      \* sessions the client has created: none, one, several of one kind
             \* or several of both kinds, overlays and others (0, 1, 2 or 3)
  dangling   \* has a section called into a freed compositor?

vars == <<active, last, cl, xc, comp, mainVis, pc, arg, made, dangling>>

Client == [used : BOOLEAN, overlay : BOOLEAN, active : BOOLEAN, shown : BOOLEAN]

NoState == [used |-> FALSE, overlay |-> FALSE, active |-> FALSE, shown |-> FALSE]

\* "cleanup", "unhook2" and "deactivate" are the rest of common_shutdown after
\* its first section; a slot is handed out again only from "free".
PCs == {"free", "serve", "read", "push", "unhook", "cleanup", "unhook2", "deactivate"}

ShuttingDown == {"cleanup", "unhook2", "deactivate"}

TypeOK ==
  /\ active \in Slots \cup {NoClient}
  /\ last \in Slots \cup {NoClient}
  /\ cl \in [Slots -> Client]
  /\ xc \in [Slots -> {"null", "live", "freed"}]
  /\ comp \in [Slots -> BOOLEAN]
  /\ mainVis \in [Slots -> BOOLEAN]
  /\ pc \in [Slots -> PCs]
  /\ arg \in [Slots -> BOOLEAN]
  /\ made \in [Slots -> 0 .. 3]
  /\ dangling \in BOOLEAN

\* init_server_state.
Init ==
  /\ active = NoClient
  /\ last = NoClient
  /\ cl = [i \in Slots |-> NoState]
  /\ xc = [i \in Slots |-> "null"]
  /\ comp = [i \in Slots |-> FALSE]
  /\ mainVis = [i \in Slots |-> FALSE]
  /\ pc = [i \in Slots |-> "free"]
  /\ arg = [i \in Slots |-> FALSE]
  /\ made = [i \in Slots |-> 0]
  /\ dangling = FALSE

-----------------------------------------------------------------------------
(***************************************************************************)
(* Choosing the primary client.  k stands for the clients' state as the    *)
(* section has it when the function is called.                             *)
(***************************************************************************)

\* A client that can be the primary one.
Displayable(k, i) == k[i].used /\ ~k[i].overlay /\ k[i].active

\* The fallback application of update_server_state_locked: its loop does not
\* stop at the first candidate, so the last one wins.
IsFallback(k, f) ==
  \/ f = NoClient /\ \A i \in Slots : ~Displayable(k, i)
  \/ /\ f \in Slots
     /\ Displayable(k, f)
     /\ \A i \in Slots : i > f => ~Displayable(k, i)

\* Mutant of Shown: what a client has been granted is never taken back.
ShownForever(k, i, a) == i = a \/ k[i].overlay \/ k[i].shown

\* handle_focused_client_events: the primary client and every overlay.
Shown(k, i, a) == i = a \/ k[i].overlay

\* Mutant of MainAppEvent: going from an application to idle is not reported.
MainAppEventNotIdle(a, prev) == a >= 0

\* handle_overlay_client_events: a switch between applications, from idle to an
\* application or from an application to idle is reported to an overlay.
MainAppEvent(a, prev) == a >= 0 \/ prev >= 0

\* Mutant of Told: the compositor of a client that loses the display is not told.
ToldWhenActive(S, i, a) == i \in S /\ xc[i] # "null" /\ i = a

\* The compositors of the clients in S are told, if they have one.
Told(S, i, a) == i \in S /\ xc[i] # "null"

\* The effect of both on the clients of S, with a the active and prev the
\* previously active client.  (handle_overlay_client_events says false before
\* it says true; only the last event is kept.)
Flush(k, S, a, prev) ==
  /\ cl' = [i \in Slots |->
              [used |-> k[i].used, overlay |-> k[i].overlay, active |-> k[i].active,
               shown |-> IF i \in S THEN Shown(k, i, a) ELSE k[i].shown]]
  /\ comp' = [i \in Slots |-> IF Told(S, i, a) THEN Shown(k, i, a) ELSE comp[i]]
  /\ mainVis' = [i \in Slots |->
                   IF i \in S /\ xc[i] # "null" /\ k[i].overlay /\ MainAppEvent(a, prev)
                     THEN a >= 0 ELSE mainVis[i]]
  /\ dangling' = (dangling \/ \E i \in S : xc[i] = "freed")

\* flush_state_to_all_clients_locked skips slots that are not running.
Running(k) == {i \in Slots : k[i].used}

\* Mutant of NothingChanged: session_active is not looked at.
NothingChangedIndex(k, a) == a >= 0 /\ a = last

\* The early return of update_server_state_locked.
NothingChanged(k, a) == a >= 0 /\ k[a].active /\ a = last

\* Mutant of NextPrimary: a client that is gone is replaced by the wallpaper.
NextPrimaryIdle(k, a, f) ==
  IF a >= 0 /\ ~(~k[a].overlay /\ k[a].active) THEN NoClient ELSE a

\* Mutant of NextPrimary: the fallback is off by one.
NextPrimaryOffByOne(k, a, f) ==
  IF f = NoClient THEN NoClient
  ELSE IF a >= 0 /\ ~(~k[a].overlay /\ k[a].active) THEN f + 1
  ELSE a

\* The wallpaper if there is no application, else the fallback if the client at
\* a cannot be displayed.
NextPrimary(k, a, f) ==
  IF f = NoClient THEN NoClient
  ELSE IF a >= 0 /\ ~(~k[a].overlay /\ k[a].active) THEN f
  ELSE a

\* update_server_state_locked, called with active_client_index = a.
UpdateServerState(k, a) ==
  \/ /\ NothingChanged(k, a)
     /\ cl' = k
     /\ active' = a
     /\ UNCHANGED <<last, comp, mainVis, dangling>>
  \/ /\ ~NothingChanged(k, a)
     /\ \E f \in Slots \cup {NoClient} :
          /\ IsFallback(k, f)
          /\ active' = NextPrimary(k, a, f)
     /\ last' = active'
     /\ Flush(k, Running(k), active', last)

\* find_client_locked finds the client of every slot in use, by its id.
FindClient(k, i) == k[i].used

\* set_active_client_locked, for a client that find_client_locked finds.
SetActiveClient(k, i) ==
  IF i # active
    THEN UpdateServerState(k, i)
    ELSE /\ cl' = k
         /\ UNCHANGED <<active, last, comp, mainVis, dangling>>

-----------------------------------------------------------------------------
(***************************************************************************)
(* The handlers, run by the thread of slot i.                              *)
(***************************************************************************)

\* ipc_server_handle_client_connected, as far as the client's state goes; that
\* the slot's previous thread has ended is shown in ClientSlots.
Connect(i) ==
  /\ pc[i] = "free"
  /\ \A j \in Slots : j < i => cl[j].used
  /\ cl' = [cl EXCEPT ![i] = [used |-> TRUE, overlay |-> FALSE,
                               active |-> FALSE, shown |-> FALSE]]
  /\ pc' = [pc EXCEPT ![i] = "serve"]
  /\ UNCHANGED <<active, last, xc, comp, mainVis, arg, made, dangling>>

\* The history of a client that creates one more session.
MadeOneMore(m, sameKind) ==
  IF m = 0 THEN 1 ELSE IF m = 3 \/ ~sameKind THEN 3 ELSE 2

\* ipc_handle_session_create: the native compositor exists, the kind of the
\* session is stored, whatever the earlier ones were, then xs and xc.  A new
\* compositor shows nothing.
SessionCreate(i, overlay) ==
  /\ pc[i] = "serve"
  /\ xc[i] = "null"
  /\ made[i] = 0 \/ MayRecreate
  /\ cl' = [cl EXCEPT ![i].overlay = overlay]
  /\ xc' = [xc EXCEPT ![i] = "live"]
  /\ made' = [made EXCEPT ![i] = MadeOneMore(@, overlay = cl[i].overlay)]
  /\ pc' = [pc EXCEPT ![i] = "read"]
  /\ UNCHANGED <<active, last, comp, mainVis, arg, dangling>>

\* The arguments of xrt_syscomp_set_state are read from client_state ...
SessionCreateRead(i) ==
  /\ pc[i] = "read"
  /\ arg' = [arg EXCEPT ![i] = cl[i].shown]
  /\ pc' = [pc EXCEPT ![i] = "push"]
  /\ UNCHANGED <<active, last, cl, xc, comp, mainVis, made, dangling>>

\* ... and arrive at the compositor later.
SessionCreatePush(i) ==
  /\ pc[i] = "push"
  /\ comp' = [comp EXCEPT ![i] = arg[i]]
  /\ arg' = [arg EXCEPT ![i] = FALSE]
  /\ pc' = [pc EXCEPT ![i] = "serve"]
  /\ UNCHANGED <<active, last, cl, xc, mainVis, made, dangling>>

\* ipc_handle_compositor_predict_frame needs a session, and activates it.
PredictFrame(i) == pc[i] = "serve" /\ xc[i] = "live"

\* ipc_server_activate_session, the first time a frame is predicted.  An
\* overlay only updates itself, an application becomes the primary one.
ActivateSession(i) ==
  /\ PredictFrame(i)
  /\ ~cl[i].active
  /\ LET k == [cl EXCEPT ![i].active = TRUE]
     IN  IF k[i].overlay
           THEN /\ Flush(k, {i}, active, last)
                /\ UNCHANGED <<active, last>>
           ELSE SetActiveClient(k, i)
  /\ UNCHANGED <<xc, pc, arg, made>>

\* ipc_handle_system_set_primary_client, asked for by any served client.
SetPrimaryClient(i) ==
  /\ \E c \in Slots : pc[c] = "serve"
  /\ FindClient(cl, i)
  /\ SetActiveClient(cl, i)
  /\ UNCHANGED <<xc, pc, arg, made>>

\* xrt_comp_destroy clears the pointer once the compositor has been destroyed.
Unhook(i) ==
  /\ xc' = [xc EXCEPT ![i] = "null"]
  /\ comp' = [comp EXCEPT ![i] = FALSE]
  /\ mainVis' = [mainVis EXCEPT ![i] = FALSE]

\* ipc_handle_session_destroy.  The compositor is freed after the lock has been
\* released, and the pointer to it is cleared after that.  Neither
\* session_active nor the primary client change.
SessionDestroy(i) ==
  /\ pc[i] = "serve"
  /\ xc[i] = "live"
  /\ xc' = [xc EXCEPT ![i] = "freed"]
  /\ pc' = [pc EXCEPT ![i] = "unhook"]
  /\ UNCHANGED <<active, last, cl, comp, mainVis, arg, made, dangling>>

SessionDestroyUnhook(i) ==
  /\ pc[i] = "unhook"
  /\ Unhook(i)
  /\ pc' = [pc EXCEPT ![i] = "serve"]
  /\ UNCHANGED <<active, last, cl, arg, made, dangling>>

\* common_shutdown: the first section takes the client out of the table ...
ShutdownDetach(i) ==
  /\ pc[i] = "serve"
  /\ cl' = [cl EXCEPT ![i] = NoState]
  /\ made' = [made EXCEPT ![i] = 0]
  /\ pc' = [pc EXCEPT ![i] = "cleanup"]
  /\ UNCHANGED <<active, last, xc, comp, mainVis, arg, dangling>>

\* ... the compositor is destroyed ...
ShutdownDestroy(i) ==
  /\ pc[i] = "cleanup"
  /\ xc' = [xc EXCEPT ![i] = IF @ = "null" THEN "null" ELSE "freed"]
  /\ pc' = [pc EXCEPT ![i] = "unhook2"]
  /\ UNCHANGED <<active, last, cl, comp, mainVis, arg, made, dangling>>

ShutdownUnhook(i) ==
  /\ pc[i] = "unhook2"
  /\ Unhook(i)
  /\ pc' = [pc EXCEPT ![i] = "deactivate"]
  /\ UNCHANGED <<active, last, cl, arg, made, dangling>>

\* ... and ipc_server_deactivate_session chooses the primary client anew.
ShutdownDeactivate(i) ==
  /\ pc[i] = "deactivate"
  /\ UpdateServerState([cl EXCEPT ![i].active = FALSE], active)
  /\ pc' = [pc EXCEPT ![i] = "free"]
  /\ UNCHANGED <<xc, arg, made>>

Shutdown(i) ==
  ShutdownDetach(i) \/ ShutdownDestroy(i) \/ ShutdownUnhook(i) \/ ShutdownDeactivate(i)

Session(i) ==
  \/ \E overlay \in BOOLEAN : SessionCreate(i, overlay)
  \/ SessionCreateRead(i) \/ SessionCreatePush(i)
  \/ ActivateSession(i) \/ SessionDestroy(i) \/ SessionDestroyUnhook(i)

Next ==
  \E i \in Slots : Connect(i) \/ Session(i) \/ SetPrimaryClient(i) \/ Shutdown(i)

Spec == Init /\ [][Next]_vars

-----------------------------------------------------------------------------
(***************************************************************************)
(* Properties.                                                             *)
(***************************************************************************)

\* The client has had sessions of both kinds.  session_overlay is what its last
\* session said, while the choice of the primary client and session_visible may
\* date from a session of the other kind: ipc_handle_session_create chooses
\* nothing anew, and neither does a frame of a client that is active already.
BothKinds(i) == made[i] = 3

\* Of the applications that are no overlays at most the primary one is told to
\* be visible and focused: a switch through activation, request or disconnect
\* never leaves a second one behind.  A client that has had sessions of both
\* kinds is excepted.
OnlyPrimaryShown ==
  \A i \in Slots :
    cl[i].used /\ ~cl[i].overlay /\ cl[i].shown => i = active \/ BothKinds(i)

\* The primary client has started rendering and has been told that it is visible,
\* and it is no overlay, unless it has had sessions of both kinds; only between
\* the two locked sections of its own shutdown does the index refer to a client
\* that has gone.
PrimaryDisplayable ==
  active # NoClient =>
    \/ /\ cl[active].used /\ cl[active].active /\ cl[active].shown
       /\ ~cl[active].overlay \/ BothKinds(active)
    \/ pc[active] \in ShuttingDown

\* The idle wallpaper is not shown while an application is rendering, other than
\* one that was an overlay in an earlier session.
NoIdleWithApplications ==
  (\E i \in Slots : Displayable(cl, i) /\ ~BothKinds(i)) => active # NoClient

\* The same without the exception: "if there is a currently-set active primary
\* application and it is not actually active/displayable, use the fallback
\* application instead" (ipc_server_process.c:521).
PrimaryIsApplication ==
  active # NoClient => Displayable(cl, active) \/ pc[active] \in ShuttingDown

\* What the compositor believes is what the server decided, for the first
\* session of a client that renders and is in no handler: the unlocked push at
\* the end of ipc_handle_session_create never outlives the client's activation.
CompositorAgrees ==
  \A i \in Slots :
    pc[i] = "serve" /\ xc[i] = "live" /\ made[i] = 1 /\ cl[i].active
      => comp[i] = cl[i].shown

\* The last event such an overlay got says whether there is a primary client,
\* whether it was activated before or after that client came or went.
OverlayKnowsMainApp ==
  \A i \in Slots :
    /\ pc[i] = "serve" /\ xc[i] = "live" /\ made[i] = 1
    /\ cl[i].active /\ cl[i].overlay
    => mainVis[i] = (active # NoClient)

\* "Multiple threads might be looking at these fields."
\* (ipc_server_per_client_thread.c:408): the section that tells the clients
\* about their state never calls into a compositor that has been freed.
NoFreedCompositor == ~dangling

-----------------------------------------------------------------------------
(***************************************************************************)
(* The inductive invariants behind these properties.                       *)
(***************************************************************************)

\* Outside the locked sections both indices agree, so that the early return of
\* update_server_state_locked is taken only when nothing has changed.
IndicesAgree == last = active

\* A slot is in use while its thread serves the client; a slot that is not in
\* use has a zeroed ipc_app_state.
SlotUse ==
  \A i \in Slots :
    /\ cl[i].used <=> pc[i] \in {"serve", "read", "push", "unhook"}
    /\ ~cl[i].used => cl[i] = NoState
    /\ cl[i].active => made[i] > 0
    /\ made[i] = 0 => ~cl[i].overlay
    /\ pc[i] = "free" => active # i

\* A client has a compositor only if it has created a session, until its
\* shutdown has destroyed it.
SessionsMade ==
  \A i \in Slots :
    made[i] = 0 /\ pc[i] \notin {"cleanup", "unhook2"} => xc[i] = "null"

\* The primary client has started rendering, of whatever kind its session is by
\* now, or is in its own shutdown.
PrimaryActive ==
  active # NoClient => cl[active].active \/ pc[active] \in ShuttingDown

\* What holds of the table whatever the clients do with their sessions ...
TableInv == TypeOK /\ IndicesAgree /\ SlotUse /\ SessionsMade /\ PrimaryActive

\* ... and of the display.
PrimaryInv ==
  TableInv /\ OnlyPrimaryShown /\ PrimaryDisplayable /\ NoIdleWithApplications

\* What the compositors have been told.  The value that the end of
\* ipc_handle_session_create pushes may be stale, but a client in that handler
\* for its first session has not been activated, and its activation tells it
\* everything again.  A compositor holds nothing of an earlier session, and an
\* overlay that has not been activated yet may have missed that there is an
\* application, but never that there is none.
ToldInv ==
  \A i \in Slots :
    /\ xc[i] = "null" => ~comp[i] /\ ~mainVis[i]
    /\ ~cl[i].used => made[i] = 0
    /\ pc[i] \in {"read", "push"} => xc[i] = "live" /\ (made[i] = 1 => ~cl[i].active)
    /\ cl[i].used /\ cl[i].overlay /\ xc[i] = "live" /\ active = NoClient => ~mainVis[i]
    /\ cl[i].used /\ cl[i].active /\ xc[i] = "live" /\ made[i] = 1 =>
         /\ comp[i] = cl[i].shown
         /\ cl[i].overlay => mainVis[i] = (active # NoClient)
==============================================================================
