----------------------------- MODULE ClientSlots -----------------------------
(***************************************************************************)
(* The client table of the IPC server: how the main thread hands a new     *)
(* connection to a slot of ipc_server::threads, how the per-client thread  *)
(* of that slot lives and dies, the connected-client counter, and the      *)
(* delayed exit of an idle server.                                         *)
(*                                                                         *)
(* Sources: ipc_server_process.c and ipc_server_per_client_thread.c.       *)
(*                                                                         *)
(* Granularity.  A critical section of ipc_server::global_state.lock that  *)
(* cannot block is one step.  The only section that blocks is the one of   *)
(* ipc_server_handle_client_connected, which joins a thread while holding  *)
(* the lock, so the lock is held in a state exactly when the main thread   *)
(* is inside that section (LockFree below).  Whatever the code reads or    *)
(* writes without the lock is a step of its own.                           *)
(***************************************************************************)
EXTENDS Integers, FiniteSets

CONSTANTS
  MaxClients,        \* IPC_MAX_CLIENTS, the length of ipc_server::threads
  MaxConns,          \* bound: how many connections arrive in a behaviour
  IdWidth,           \* number of values of the 32 bit client id, 0 included
  ExitWhenIdle,      \* ipc_server::exit_when_idle
  ExitOnDisconnect,  \* ipc_server::exit_on_disconnect
  ShmMayFail,        \* may ipc_shmem_create fail?
  EpollMayFail       \* may setup_epoll fail?

ASSUME MaxClientsAssumption == MaxClients \in Nat \ {0}
ASSUME MaxConnsAssumption == MaxConns \in Nat \ {0}
ASSUME IdWidthAssumption == IdWidth \in Nat /\ IdWidth > MaxClients + 1
ASSUME OptionsAssumption ==
  /\ ExitWhenIdle \in BOOLEAN
  /\ ExitOnDisconnect \in BOOLEAN
  /\ ShmMayFail \in BOOLEAN
  /\ EpollMayFail \in BOOLEAN

Slots == 0 .. MaxClients - 1

\* A connection, the thread that serves it and the delay thread that it may
\* leave behind are all named by the order in which connections arrive.
Conns == 1 .. MaxConns

\* enum ipc_thread_state.  IPC_THREAD_RUNNING is declared but never assigned:
\* a slot stays in STARTING for as long as its client is served.
ThreadStates == {"READY", "STARTING", "STOPPING"}

VARIABLES
  running,   \* ipc_server::running
  count,     \* global_state.connected_client_count
  lastDisc,  \* last_client_disconnect_ns: 0, or the connection that set it
  idGen,     \* id_generator
  slots,     \* threads[i]: is server_thread_index >= 0, state, id, thread
  conns,     \* connections that have arrived
  mpc,       \* where the main thread is
  cur,       \* cs_index of the connection being handled
  tpc,       \* where the thread of each connection is
  tslot,     \* the slot that thread was started for
  dpc        \* where the delayed_exit_thread of each connection is

vars == <<running, count, lastDisc, idGen, slots, conns, mpc, cur, tpc, tslot, dpc>>

Slot == [used : BOOLEAN, state : ThreadStates,
         id : 0 .. IdWidth - 1, thread : Conns \cup {0}]

MainPCs == {"loop", "poll", "join", "assign", "freed"}

ThreadPCs == {"none", "start", "serve", "detach", "cleanup", "idle", "arm",
              "deactivate", "done", "undefined"}

DelayPCs == {"none", "sleep", "exit", "done", "undefined"}

TypeOK ==
  /\ running \in BOOLEAN
  /\ count \in Int
  /\ lastDisc \in Conns \cup {0}
  /\ idGen \in 0 .. IdWidth - 1
  /\ slots \in [Slots -> Slot]
  /\ conns \in 0 .. MaxConns
  /\ mpc \in MainPCs
  /\ cur \in Slots
  /\ tpc \in [Conns -> ThreadPCs]
  /\ tslot \in [Conns -> Slots]
  /\ dpc \in [Conns -> DelayPCs]

\* init_server_state, after init_all has set running.
Init ==
  /\ running = TRUE
  /\ count = 0
  /\ lastDisc = 0
  /\ idGen = 0
  /\ slots = [i \in Slots |-> [used |-> FALSE, state |-> "READY", id |-> 0, thread |-> 0]]
  /\ conns = 0
  /\ mpc = "loop"
  /\ cur = 0
  /\ tpc = [c \in Conns |-> "none"]
  /\ tslot = [c \in Conns |-> 0]
  /\ dpc = [c \in Conns |-> "none"]

LockFree == mpc \notin {"join", "assign"}

Freed == mpc = "freed"

-----------------------------------------------------------------------------
(***************************************************************************)
(* The main thread.                                                        *)
(***************************************************************************)

\* main_loop tests running, sleeps, and then polls once more whatever running
\* has become meanwhile.
EnterPoll ==
  /\ mpc = "loop"
  /\ running
  /\ mpc' = "poll"
  /\ UNCHANGED <<running, count, lastDisc, idGen, slots, conns, cur, tpc, tslot, dpc>>

PollNothing ==
  /\ mpc = "poll"
  /\ mpc' = "loop"
  /\ UNCHANGED <<running, count, lastDisc, idGen, slots, conns, cur, tpc, tslot, dpc>>

\* main_loop returns; ipc_server_main_common tears everything down and frees
\* the server.  It joins no client thread and no delay thread.
LeaveMainLoop ==
  /\ mpc = "loop"
  /\ ~running
  /\ mpc' = "freed"
  /\ UNCHANGED <<running, count, lastDisc, idGen, slots, conns, cur, tpc, tslot, dpc>>

\* The slot of lowest index whose server_thread_index is negative.
IsFirstFree(i) ==
  /\ ~slots[i].used
  /\ \A j \in Slots : j < i => slots[j].used

\* The start of ipc_server_handle_client_connected: the counter and the time
\* stamp are written before it is known whether the client can be served.
CountClient ==
  /\ mpc = "poll"
  /\ conns < MaxConns
  /\ conns' = conns + 1
  /\ count' = count + 1
  /\ lastDisc' = 0

\* "Max client count reached!" and "Client state management error!".
RejectClient ==
  /\ CountClient
  /\ \A i \in Slots : IsFirstFree(i) => slots[i].state \notin {"READY", "STOPPING"}
  /\ mpc' = "loop"
  /\ UNCHANGED <<running, idGen, slots, cur, tpc, tslot, dpc>>

\* Mutant of ClaimSlot: cs_index keeps its initial value.
ClaimSlotNoIndex ==
  /\ CountClient
  /\ \E i \in Slots :
       /\ IsFirstFree(i)
       /\ slots[i].state \in {"READY", "STOPPING"}
       /\ cur' = -1
       /\ mpc' = IF slots[i].state = "READY" THEN "assign" ELSE "join"
  /\ UNCHANGED <<running, idGen, slots, tpc, tslot, dpc>>

\* The free slot has never had a thread, or has one that must be joined first.
ClaimSlot ==
  /\ CountClient
  /\ \E i \in Slots :
       /\ IsFirstFree(i)
       /\ slots[i].state \in {"READY", "STOPPING"}
       /\ cur' = i
       /\ mpc' = IF slots[i].state = "READY" THEN "assign" ELSE "join"
  /\ UNCHANGED <<running, idGen, slots, tpc, tslot, dpc>>

\* Mutant of JoinStopped: the join does not wait.
JoinNoWait ==
  /\ mpc = "join"
  /\ slots' = [slots EXCEPT ![cur].state = "READY"]
  /\ mpc' = "assign"
  /\ UNCHANGED <<running, count, lastDisc, idGen, conns, cur, tpc, tslot, dpc>>

\* os_thread_join returns only once the thread has run to its end.
JoinStopped ==
  /\ mpc = "join"
  /\ slots[cur].thread \in Conns
  /\ tpc[slots[cur].thread] = "done"
  /\ slots' = [slots EXCEPT ![cur].state = "READY"]
  /\ mpc' = "assign"
  /\ UNCHANGED <<running, count, lastDisc, idGen, conns, cur, tpc, tslot, dpc>>

IdTaken(id) == id = 0 \/ \E i \in Slots : slots[i].id = id

\* Mutant of AllocateId: the next value is taken whoever has it.
AllocateIdUnchecked(id) == id = (idGen + 1) % IdWidth

\* allocate_id_locked: the generator advances, wrapping, until it shows an id
\* that is neither zero nor the id of any slot.
AllocateId(id) ==
  \E k \in 1 .. IdWidth :
    /\ id = (idGen + k) % IdWidth
    /\ ~IdTaken(id)
    /\ \A j \in 1 .. k - 1 : IdTaken((idGen + j) % IdWidth)

\* The slot is reset, gets its id, its shared memory and its thread.
StartClient ==
  /\ mpc = "assign"
  /\ \E id \in 0 .. IdWidth - 1 :
       /\ AllocateId(id)
       /\ idGen' = id
       /\ slots' = [slots EXCEPT ![cur] = [used |-> TRUE, state |-> "STARTING",
                                           id |-> id, thread |-> conns]]
  /\ tpc' = [tpc EXCEPT ![conns] = "start"]
  /\ tslot' = [tslot EXCEPT ![conns] = cur]
  /\ mpc' = "loop"
  /\ UNCHANGED <<running, count, lastDisc, conns, cur, dpc>>

\* init_shm_and_instance_state fails: it could not create the shared memory.
ShmFails == ShmMayFail

\* init_shm_and_instance_state fails after the slot has been claimed: no
\* thread is started, and nothing gives the slot back.
StartClientNoShm ==
  /\ ShmFails
  /\ mpc = "assign"
  /\ \E id \in 0 .. IdWidth - 1 :
       /\ AllocateId(id)
       /\ idGen' = id
       /\ slots' = [slots EXCEPT ![cur] = [used |-> TRUE, state |-> "STARTING",
                                           id |-> id, thread |-> @.thread]]
  /\ mpc' = "loop"
  /\ UNCHANGED <<running, count, lastDisc, conns, cur, tpc, tslot, dpc>>

\* ipc_server_handle_shutdown_signal, ipc_server_handle_failure and the
\* service's own shutdown write running from outside, without the lock.
ShutdownSignal ==
  /\ ~Freed
  /\ running
  /\ running' = FALSE
  /\ UNCHANGED <<count, lastDisc, idGen, slots, conns, mpc, cur, tpc, tslot, dpc>>

-----------------------------------------------------------------------------
(***************************************************************************)
(* The per-client thread of connection c: client_loop, common_shutdown.    *)
(***************************************************************************)

Goto(c, from, to) ==
  /\ ~Freed
  /\ tpc[c] = from
  /\ tpc' = [tpc EXCEPT ![c] = to]

EnterClientLoop(c) ==
  /\ Goto(c, "start", "serve")
  /\ UNCHANGED <<running, count, lastDisc, idGen, slots, conns, mpc, cur, tslot, dpc>>

\* setup_epoll fails: client_loop returns at once, without common_shutdown.
EpollFails(c) ==
  /\ EpollMayFail
  /\ Goto(c, "start", "done")
  /\ UNCHANGED <<running, count, lastDisc, idGen, slots, conns, mpc, cur, tslot, dpc>>

\* The client hangs up, or sends something that cannot be dispatched ...
ClientLeaves(c) ==
  /\ running
  /\ Goto(c, "serve", "detach")
  /\ UNCHANGED <<running, count, lastDisc, idGen, slots, conns, mpc, cur, tslot, dpc>>

\* ... or the loop sees, at the latest half a second later, running = false.
ServerStops(c) ==
  /\ ~running
  /\ Goto(c, "serve", "detach")
  /\ UNCHANGED <<running, count, lastDisc, idGen, slots, conns, mpc, cur, tslot, dpc>>

\* Mutant of Detach: the counter is decremented once too often.
DetachCountsTwice(c) ==
  /\ Goto(c, "detach", "cleanup")
  /\ LockFree
  /\ slots' = [slots EXCEPT ![tslot[c]] = [used |-> FALSE, state |-> "STOPPING",
                                                id |-> 0, thread |-> @.thread]]
  /\ count' = count - 2
  /\ UNCHANGED <<running, lastDisc, idGen, conns, mpc, cur, tslot, dpc>>

\* First section of common_shutdown: the slot is offered for reuse before the
\* thread has cleaned up.
Detach(c) ==
  /\ Goto(c, "detach", "cleanup")
  /\ LockFree
  /\ slots' = [slots EXCEPT ![tslot[c]] = [used |-> FALSE, state |-> "STOPPING",
                                                id |-> 0, thread |-> @.thread]]
  /\ count' = count - 1
  /\ UNCHANGED <<running, lastDisc, idGen, conns, mpc, cur, tslot, dpc>>

\* Mutant of DestroySession: the thread still has the lock, which is not
\* recursive, and so it never gets it.
DestroySessionLocked(c) ==
  /\ Goto(c, "cleanup", "idle")
  /\ LockFree /\ tpc[c] # "cleanup"
  /\ UNCHANGED <<running, count, lastDisc, idGen, slots, conns, mpc, cur, tslot, dpc>>

\* ipc_server_client_destroy_session_and_compositor takes the lock again; the
\* spaces, features and detections that common_shutdown then releases are the
\* thread's own.
DestroySession(c) ==
  /\ Goto(c, "cleanup", "idle")
  /\ LockFree
  /\ UNCHANGED <<running, count, lastDisc, idGen, slots, conns, mpc, cur, tslot, dpc>>

\* The two exit options, both looked at without the lock.
CheckIdle(c) ==
  /\ Goto(c, "idle", IF ExitWhenIdle /\ count = 0 THEN "arm" ELSE "deactivate")
  /\ running' = (running /\ ~ExitOnDisconnect)
  /\ UNCHANGED <<count, lastDisc, idGen, slots, conns, mpc, cur, tslot, dpc>>

\* Mutant of ArmDelayedExit: the time of the disconnect is not recorded.
ArmWithoutStamp(c) ==
  /\ Goto(c, "arm", "deactivate")
  /\ dpc' = [dpc EXCEPT ![c] = "sleep"]
  /\ UNCHANGED <<running, count, lastDisc, idGen, slots, conns, mpc, cur, tslot>>

\* last_client_disconnect_ns is set and a delayed_exit_thread is started.
ArmDelayedExit(c) ==
  /\ Goto(c, "arm", "deactivate")
  /\ lastDisc' = c
  /\ dpc' = [dpc EXCEPT ![c] = "sleep"]
  /\ UNCHANGED <<running, count, idGen, slots, conns, mpc, cur, tslot>>

\* ipc_server_deactivate_session, the last locked section; the thread ends.
Deactivate(c) ==
  /\ Goto(c, "deactivate", "done")
  /\ LockFree
  /\ UNCHANGED <<running, count, lastDisc, idGen, slots, conns, mpc, cur, tslot, dpc>>

-----------------------------------------------------------------------------
(***************************************************************************)
(* delayed_exit_thread, started by connection c.                           *)
(***************************************************************************)

DelayExpires(c) ==
  /\ ~Freed
  /\ LockFree
  /\ dpc[c] = "sleep"
  /\ dpc' = [dpc EXCEPT ![c] =
               IF ExitWhenIdle /\ count = 0 /\ lastDisc > 0 THEN "exit" ELSE "done"]
  /\ UNCHANGED <<running, count, lastDisc, idGen, slots, conns, mpc, cur, tpc, tslot>>

\* should_exit was computed under the lock, running is written after it.
DelayedExit(c) ==
  /\ ~Freed
  /\ dpc[c] = "exit"
  /\ dpc' = [dpc EXCEPT ![c] = "done"]
  /\ running' = FALSE
  /\ UNCHANGED <<count, lastDisc, idGen, slots, conns, mpc, cur, tpc, tslot>>

-----------------------------------------------------------------------------
(***************************************************************************)
(* Undefined behaviour: a thread that is still alive when the server has   *)
(* been freed goes on through a dangling ics->server.                      *)
(***************************************************************************)

Finished == {"none", "done", "undefined"}

ClientUsesFreed(c) ==
  /\ Freed
  /\ tpc[c] \notin Finished
  /\ tpc' = [tpc EXCEPT ![c] = "undefined"]
  /\ UNCHANGED <<running, count, lastDisc, idGen, slots, conns, mpc, cur, tslot, dpc>>

DelayUsesFreed(c) ==
  /\ Freed
  /\ dpc[c] \notin Finished
  /\ dpc' = [dpc EXCEPT ![c] = "undefined"]
  /\ UNCHANGED <<running, count, lastDisc, idGen, slots, conns, mpc, cur, tpc, tslot>>

Main ==
  \/ EnterPoll \/ PollNothing \/ LeaveMainLoop
  \/ RejectClient \/ ClaimSlot \/ JoinStopped \/ StartClient \/ StartClientNoShm

ClientThread(c) ==
  \/ EnterClientLoop(c) \/ EpollFails(c) \/ ClientLeaves(c) \/ ServerStops(c)
  \/ Detach(c) \/ DestroySession(c) \/ CheckIdle(c) \/ ArmDelayedExit(c)
  \/ Deactivate(c) \/ ClientUsesFreed(c)

DelayThread(c) == DelayExpires(c) \/ DelayedExit(c) \/ DelayUsesFreed(c)

Next ==
  \/ Main
  \/ ShutdownSignal
  \/ \E c \in Conns : ClientThread(c) \/ DelayThread(c)

\* Every thread that can go on does.  Nothing makes a client hang up, a
\* connection arrive or somebody ask the server to stop.
Fairness ==
  /\ WF_vars(EnterPoll \/ PollNothing \/ LeaveMainLoop)
  /\ WF_vars(JoinStopped \/ StartClient)
  /\ \A c \in Conns :
       /\ WF_vars(EnterClientLoop(c))
       /\ WF_vars(ServerStops(c))
       /\ WF_vars(Detach(c) \/ DestroySession(c) \/ CheckIdle(c)
                    \/ ArmDelayedExit(c) \/ Deactivate(c))
       /\ WF_vars(DelayThread(c))

Spec == Init /\ [][Next]_vars

FairSpec == Spec /\ Fairness

-----------------------------------------------------------------------------
(***************************************************************************)
(* Properties.                                                             *)
(***************************************************************************)

Alive(c) == tpc[c] \notin Finished

\* Connections whose thread has not yet given its slot back.
Connected == {c \in Conns : tpc[c] \in {"start", "serve", "detach"}}

\* A thread goes on writing to its ipc_client_state (common_shutdown from the
\* first unlock to ipc_server_deactivate_session) after it has marked the slot
\* free.  No other live thread ever works on the same slot: the join in
\* ipc_server_handle_client_connected is what keeps a late cleanup out of the
\* next client's state.
SlotExclusive ==
  \A c, d \in Conns : c # d /\ Alive(c) /\ Alive(d) => tslot[c] # tslot[d]

\* "we should not get here": the branch "Client state management error!" of
\* ipc_server_handle_client_connected is never taken, because a free slot is
\* always READY or STOPPING.
NoStateManagementError ==
  \A i \in Slots : ~slots[i].used => slots[i].state \in {"READY", "STOPPING"}

\* allocate_id_locked: clients connected at the same time have different ids,
\* none of them zero, also after the generator has wrapped around.
IdsDistinct ==
  \A i, j \in Slots :
    slots[i].used /\ slots[j].used =>
      /\ slots[i].id # 0
      /\ i # j => slots[i].id # slots[j].id

\* The counter that decides about the idle exit never falls below the number
\* of clients that are connected, so a connected client keeps it positive.
CountCoversClients == Cardinality(Connected) <= count

\* A thread that has begun common_shutdown comes to its end, unless the main
\* thread waits for it (or for another one) in os_thread_join or the server is
\* freed under it: nothing else in the server can block a client's cleanup.
OnlyJoinBlocksCleanup ==
  \A c \in Conns :
    tpc[c] \in {"detach", "cleanup", "idle", "arm", "deactivate"}
      ~> (tpc[c] \in {"done", "undefined"} \/ mpc \in {"join", "freed"})

\* With exit_when_idle, somebody is always about to notice that the last client
\* has gone: its thread before it looks at the counter or starts the delay
\* thread, a delay thread that will find last_client_disconnect_ns set, or one
\* that has decided to stop the server.  A client that reconnects resets the time
\* stamp under all of them and yet none of them is needed any more.
IdleIsNoticed ==
  ExitWhenIdle /\ conns > 0 /\ count = 0 /\ running =>
    \E c \in Conns : \/ tpc[c] \in {"cleanup", "idle", "arm"}
                     \/ dpc[c] = "sleep" /\ lastDisc > 0
                     \/ dpc[c] = "exit"

\* The loop of allocate_id_locked ends: some id is always free for the client
\* that is being connected.
IdsAreFound == mpc = "assign" => \E id \in 0 .. IdWidth - 1 : AllocateId(id)

\* With exit_when_idle, a server that has served a client and has none left
\* does stop, unless another client connects first: no order of concurrent
\* disconnects and reconnects makes every delay thread give up.
IdleServerExits ==
  (ExitWhenIdle /\ conns > 0 /\ count = 0 /\ running) ~> (~running \/ count > 0)

\* "find the next free thread in our array [...] and have it handle this
\* connection" (ipc_server_process.c:854): the join that reusing a slot needs
\* comes to an end, so that the connection is handled.
JoinReturns == mpc = "join" ~> mpc # "join"

-----------------------------------------------------------------------------
(***************************************************************************)
(* The inductive invariant behind SlotExclusive, NoStateManagementError,   *)
(* IdsDistinct and CountCoversClients.                                     *)
(***************************************************************************)

\* Connections that have not arrived have no thread, and the one that is being
\* handled has none yet.
ThreadsArrive ==
  /\ \A c \in Conns : c > conns => tpc[c] = "none"
  /\ ~LockFree => conns \in Conns /\ tpc[conns] = "none"

\* While the lock is held the claimed slot is free, and in the state that the
\* main thread found or left it in.
ClaimedSlotFree ==
  /\ ~LockFree => ~slots[cur].used
  /\ mpc = "join" => slots[cur].state = "STOPPING"
  /\ mpc = "assign" => slots[cur].state = "READY"

\* A live thread is the one its slot would be joined with; the slot is in use
\* until the thread detaches and waits to be joined from then on.
SlotMatchesThread ==
  \A c \in Conns :
    Alive(c) =>
      /\ slots[tslot[c]].thread = c
      /\ c \in Connected => slots[tslot[c]].used
      /\ c \notin Connected => slots[tslot[c]].state = "STOPPING"

\* A slot is STARTING exactly while it is in use, and has an id exactly then.
SlotStates ==
  \A i \in Slots :
    /\ slots[i].used <=> slots[i].state = "STARTING"
    /\ slots[i].used <=> slots[i].id # 0

\* The connection being handled has been counted and has no thread yet.
CountCoversHandled ==
  Cardinality(Connected) + (IF LockFree THEN 0 ELSE 1) <= count

SlotInv ==
  /\ TypeOK
  /\ ThreadsArrive
  /\ ClaimedSlotFree
  /\ SlotMatchesThread
  /\ SlotStates
  /\ IdsDistinct
==============================================================================
