# A TLA+ development of the Augmented-Insanity runtime service

Augmented-Insanity is a fork of the Monado OpenXR runtime. Applications talk to one service
process over IPC; the fork adds *Aug-Ins* modules, shared libraries packed as `.augins` files that
the service loads at start-up and that may override OpenXR calls. This directory models the part of
the service where threads meet, and where it meets the disk: accepting clients, deciding which one
is on the display, handing descriptors over on Android, loading, calling and unloading modules,
extracting them, and bringing the clients' frames to the one native compositor.

Paths below are relative to the repository (`src/xrt/...`); line numbers are in `PROJECT.json`.

## The system

| Component | State | Operations | Interacts with |
|---|---|---|---|
| Client table (`ipc/server/ipc_server_process.c`, `ipc_server_per_client_thread.c`) | `threads[]` with state, index, id; `connected_client_count`, `last_client_disconnect_ns`, `id_generator`, `running` | accept a connection, run a client thread, shut one down, delayed exit | main loop, every client thread, delay threads; `global_state.lock` |
| Primary client (`ipc_server_process.c`, `ipc_server_handler.c`) | `active_client_index`, `last_active_client_index`, `ipc_app_state` of each client, `ics->xc` | activate, set primary, session create/destroy, deactivate | client threads, system compositor |
| Android main loop (`ipc_server_mainloop_android.c`) | pipe, `last_accepted_fd`, two mutexes, a condition variable | init, poll, `handle_listen`, `add_fd`, deinit | binder threads, client table |
| Service helper (`targets/service-lib/service_target.cpp`) | `server`, `server_thread`, `startup_complete` | start, add client, shut down | Java service, server thread, module loader |
| Module loader and lifecycle (`augins/loader.cpp`, `lifecycle.cpp`) | `g_initialised`, `g_loaded` | init, shutdown, load and unload hooks | dispatch registry |
| Dispatch registry and adapters (`augins/dispatch.cpp`, `adapters.cpp`) | `g_map` | register, sort, clear, look up, call the chain | client threads |
| Extraction cache (`augins/extract.cpp`) | files and a size stamp on disk, which outlive the process | extract | loader, the phone application that installs archives |
| Frames of a client (`compositor/multi/comp_multi_compositor.c`) | slots `progress`, `scheduled`, `delivered`; `wait_thread` with its flags and sync object | begin, add layers, commit, discard, destroy; deliver, retire | client thread, wait thread, render thread, GPU |
| System compositor (`compositor/multi/comp_multi_system.c`) | `sessions.state`, `active_count`, `clients[]`, visibility and focus | render loop, begin and end of sessions, `set_state`, `set_z_order`, destroy | client threads, IPC server, native compositor |
| IPC objects, protocol, client library, OpenXR state tracker, drivers | per-client tables, generated marshalling, application-side state | – | – |

What is hard here: a slot is offered for reuse before its thread has finished with it; a counter and
a time stamp decide, through several sleeping threads, when the process exits; the primary client is
chosen anew by whichever thread comes along; a condition variable is signalled for some of the
updates it stands for; a shutdown can meet a start-up; function pointers into modules outlive the
modules unless the order of teardown is right; a frame passes through three threads and a slot that
no lock protects; the process may be killed between any two files it extracts. `PROJECT.json` lists
every such hazard at its line.

What makes each part correct:

* client table – two threads never work on one slot, ids are unique, the counter does not run low,
  cleanup ends, an idle server exits;
* primary client – of the applications only the primary one is shown, it is one that renders, the
  wallpaper appears only without applications, compositors and overlays are told the truth;
* main loop – no acknowledgement is lost, the caller learns who owns the descriptor, calls return;
* extraction cache – a tree that is taken for extracted is that of the archive, up to two exceptions
  that `HitIsWhole` names, and never one's own half-written one;
* frames – they keep their order, are shown and retired at most once, no reference or fence leaks, a
  blocked client and a destroy go on;
* system compositor – the native session follows those of the clients, clients stay while their
  layers are read, stopping ends;
* service and modules – modules are called in order of priority, no dead pointer stays in the
  registry, the service can be created again, shutdown returns.

## Modules

### `ClientSlots`
The main thread (`mpc`), the thread of each connection (`tpc`) and its delay thread (`dpc`). A
section of `global_state.lock` is one step; the exception is `ipc_server_handle_client_connected`,
which joins a thread while holding the lock and is split into `ClaimSlot`, `JoinStopped` and
`StartClient`, so that `LockFree` says whether any other section may run. Unlocked accesses
(`CheckIdle`, `ArmDelayedExit`, `DelayedExit`, `ShutdownSignal`) are steps of their own. After
`LeaveMainLoop` the server is freed although threads still use it: that is undefined behaviour, and
a thread that goes on ends in the location `undefined`.
`IPC_THREAD_RUNNING` is declared and never assigned, and so it is not a state of the model. Time is
abstracted: a delay may expire at any moment, and `last_client_disconnect_ns` holds the connection
that stamped it.

### `ActiveClient`
`UpdateServerState`, `SetActiveClient` and `Flush` are `update_server_state_locked`,
`set_active_client_locked` and the two functions that tell a client; the actions are the handlers
that call them. `ipc_handle_session_create` reads and pushes the state without the lock
(`SessionCreateRead`, `SessionCreatePush`), and a compositor is freed (`xc = "freed"`) before the
pointer to it is cleared. `session_visible` and `session_focused` always get the same value and are
one flag; the z order and the io flags are left out. `made` is a history variable: none, one,
several sessions of one kind, or sessions of both kinds. Every session may be an overlay or not,
whatever the client's earlier ones were, as in the code. A client that has had both kinds is
excepted from what the display properties say of it (`BothKinds`): `ipc_handle_session_create`
overwrites `session_overlay` while `session_active`, `session_visible` and the primary index stay as
the session of the other kind has left them.

### `AndroidMainloop`
One action per critical section of `accept_mutex`, two for a wait on `accept_cond`, and spurious
wake-ups. `HandleListenFails` leaves the mutex locked, as the code does. What
`ipc_server_handle_client_connected` does inside `HandleListen` is in `ClientSlots`. Each descriptor
has one adder: a number is not used again while an older client with it waits.

`HandOver` is what the service's comment promises of `add_fd`, without pipe, locks or shutdown: a
descriptor is taken during its own call, one at a time, and the return value tells. The refinement
maps each adder's location to a phase of its call (`PhaseOf`); `ImplementsHandOver` is checked and
proved.

### `AugInsService`
The ui thread that creates and destroys the service, the server thread and client threads. Loading
is one step per file; unloading follows the order hooks, registry, `dlclose`. A client thread copies
the chain (`snap`) and is inside the module at its head while at `call`. The stable sort of the
registry puts each entry behind all that precede it (`Precedes`, `Rank`). One function name stands
for all keys of the registry. A module is registered as often as its manifest lists the name
(`Listed`): neither the manifest nor the registry drops a name that is there already. The server
thread leaves its main loop and then tears the server down (`LeaveMainloop`, `TeardownAll`), and may
hang in either, as `ClientSlots` and `AndroidMainloop` show (`ServerHangs`); a module may not return
to the loader (`ModuleHangs`). Client threads may find what they use gone from the teardown on;
those of a freed server (`orphans`) can only finish the module they are in. The 40 s start-up
timeout is untimed: a client that gives up changes nothing.

### `ExtractCache`
`extract_augins_zip` for one file name: `stamp` and `tree` are the disk, `pc`, `blob` and `entry`
the process. Truncating a file and filling it are two steps, so that `Killed` or `ExtractFails`
between them leaves it `Torn`; the same for the stamp. An archive is a version with a size and a
sequence of files; the content of a file is the version it came from. `Replace` lets the phone
application install another version at any moment, during an extraction too. Nothing ever removes a
file, as in the code. `begun` is a history variable: the versions that have overwritten files since
the last stamp.

### `FrameSlots` and `FrameStream`
One client of the multi-client compositor: the client thread (`pc["client"]`), the wait thread
(`pc["wait"]`) and the render thread as this client sees it (`rpc`). `wait_thread.oth` has one
condition variable for the start, the push, the release and the stop; `SignalAndGoto` wakes any one
sleeper, and there are spurious wake-ups. `wait_for_scheduled_free` is two steps, the test
(`ScheduledFree`) and, after both locks were released and taken, the move (`MoveToScheduled`). The
GPU may signal (`SyncDone`), fail, or never answer; the 100 ms timeout then ends the wait only when
the thread has been told to stop (`SyncGivesUp`). Display times are points of a small clock and
"within half a millisecond" is equality. `begun` and `retired` are history variables for frames put
into progress and calls of `u_pa_retired`; `refs` counts swapchain references.

`FrameStream` is the abstract specification: frames are new, held, shown, retired; they begin in
order, the oldest held one is shown, and nothing comes back. `Stage` reads the stage of a frame off
the slots; `ImplementsFrameStream` is checked and proved.

### `MultiSystem`
The render thread (`rpc`), which begins and ends the native session (`native` counts begins minus
ends), and for several clients their creation, sessions, discarded frames and destruction (`cpc`),
and the IPC server's `set_state` and `set_z_order`, which releases `list_and_timing_lock` whoever
has it. `SetState` writes `visible` of a client at any time and with any value: it is called by the
client's own thread at the end of `ipc_handle_session_create`, without a lock and perhaps with a
stale value, and by any thread that flushes the state of all clients, and nothing keeps the two
apart. `state.focused` decides only the blend mode and is left out. A section of
`list_and_timing_lock` is one step, but for the transfer of layers, one step per client. Of a frame
only `delivered` is left; the rest is in `FrameSlots`. After the render thread has been joined the
system is freed and nothing more is followed.

### `MC*` and `*_proofs`
`MC<module>` extends a module for the runs (and defines the priorities of the module instances);
`<module>_proofs` holds the theorems.

## Runs

| Run | Result | Shows |
|---|---|---|
| `client_slots` | pass | slot exclusivity, ids, counter, cleanup, idle exit |
| `slot_join` | violation | the join under the lock waits for a thread that waits for the lock |
| `active_client` | pass | who is shown, who is primary, what compositors and overlays know |
| `freed_compositor` | violation | a flush calls into a compositor that `session_destroy` has freed |
| `android_mainloop` | pass | the hand-over of descriptors against failures and shutdown |
| `mainloop_deinit` | violation | shutdown waits for a signal that `add_fd` does not send |
| `augins_service` | pass | order of module calls, registry, restart, shutdown |
| `module_unmap` | violation | a module is unmapped while a client thread is in it |
| `extract_cache` | pass | what a cache hit can be after failures, kills and replaced archives |
| `frame_slots` | pass | frames through the three slots, and that nobody hangs |
| `multi_system` | pass | native session, counts, clients during a transfer, stop |
| `transfer_lock` | violation | `set_z_order` releases the render thread's lock and a client is freed under it |

The violations are disagreements between the code and its own comments; `findings` in `PROJECT.json`
quotes them. The passing runs are stated so that they hold *beside* those: e.g.
`OnlyJoinBlocksCleanup` says that a client's cleanup is blocked by nothing but the join that
`slot_join` is about; `AddFdReturns` excepts a main thread that keeps `accept_mutex`, which it does
after a failed read and also while it hangs in that join, called from `handle_listen`;
`ShutdownReturns` excepts a server thread that hangs in its main loop or teardown (`slot_join`,
`mainloop_deinit`) and a module that does not return; `HitIsWhole` names the two ways a hit can be
wrong; and `ClientsStay` is about transfers whose lock nobody has released, so that it is
`NoClientGoesAway` that catches the unlock in `set_z_order`. `FrameOnce` takes it that
`list_and_timing_lock` excludes, which the same unlock breaks. `StartsAgain` speaks of shutdowns
that returned 0, not of one that met a start-up. `DestroyReturns` waits for a display time to pass,
which the model's clock does after a few steps; a client that asks for a time far in the future
delays its own destruction by that much.

Two configurations beside the runs hold further counterexamples, each of one claim:

* `MCActiveClientKind.cfg` (`PrimaryIsApplication`): an application is created, activated and so
  primary, destroys its session and creates an overlay session. It stays primary, although "if there
  is a currently-set active primary application and it is not actually active/displayable, use the
  fallback application instead" (`ipc_server_process.c:521`), until something else makes the server
  choose anew.
* `MCMultiSystemWarmStart.cfg` (`EndsOnlyBegun`): a system stopped before the first frame of its
  warm start ends a native session it has not begun (`comp_multi_system.c:600`; "The session hasn't
  been started yet", `comp_multi_private.h:283`).

Two disagreements come from reading the code for these modules:

* `comp_multi_private.h:307` says of STOPPING that the compositor "has not yet called"
  `xrt_comp_begin_session`. It has: `NativeMatchesState` states, and `NativeSessionMatches` proves,
  that the native session is begun in RUNNING and in STOPPING.
* `find_active_blend_mode` reads `focused` and then asserts `visible` (`comp_multi_system.c:241`,
  `:242`), two reads of what `set_state` writes under no lock (`:640`, `:641`). A `set_state(false,
  false)` that falls between the reads makes the assertion fail. So do two calls at once, one to
  show the client and one to hide it: their four writes may end with `visible` false and `focused`
  true, and the client stays so until its state changes again. A model with both callers and both
  reads in steps of their own has millions of states for two clients, beyond what a run here can
  visit, and so this is argued and not checked.

Four more were found on the way and have no run either: the client counter stays
too high after a rejected client (`ipc_server_process.c:848`; `CountCoversClients` is the bound that
holds); a delay thread of an earlier disconnect may end the server before the delay of the latest is over
(`ipc_server_per_client_thread.c:50`); the fallback application is the last one, the comment says
the first (`ipc_server_process.c:512`); and a shutdown during start-up returns -1, "server didn't
start", and the server starts all the same (`service_target.cpp:128`).

**Bounds.** `client_slots`: two slots and four connections, so that a slot is reused while the other
is busy, a third client is rejected, and two delay threads overlap; four id values, the smallest
width above the assumption, so that ids wrap; `ExitOnDisconnect` is off, as in the Android service
(with it a disconnect simply stops the server). `active_client`: three clients, a primary one, one
to fall back to, and an overlay or another application; sessions are destroyed and created again, of
the same kind or the other. TLC compares states by `View`, which leaves out `dangling` and what a
compositor was told outside a first session: no action reads these, and of the properties of this
run only the type invariant does. `android_mainloop`: three binder threads, one in each place of the
hand-over. `augins_service`: three modules, of which two tie and one comes first although it was
loaded second and is registered twice, a chain limit of three so that the four entries are cut, two
lives of the service so that state left over is seen, two client threads. `extract_cache`: two
archives of one size and one of another; one lacks a file that the others have, one names a file
twice. `frame_slots`: three frames fill the three slots and drop each other; two display times and a
clock that ends after both make frames early, due and late; one layer is enough for references.
`multi_system`: two clients with an entry each, and a warm start, as the service asks for; a list
that is too short only leaves a client unlisted.

**Deadlock** is not reported where connections, services or clients are bounded and everything may
come to rest; it is checked in `active_client` and `extract_cache`, which never stop.

**Fairness.** Threads that can go on do (weak fairness per thread); nothing is assumed of clients
hanging up, connections arriving, callers of `add_fd` or of shutdown, failures, and modules
returning. In `augins_service` only a shutdown and a server that has been told to stop are fair, and
a hung thread does not go on. The main loop polls every 50 ms and a client thread looks at `running`
every half second, which justifies `EnterPoll \/ PollNothing` and `ServerStops`. `os_nanosleep` of a
delay thread ends. In `frame_slots` the client thread inside the compositor, the wait thread and the
clock are fair; a wait on the GPU times out after 100 ms, which makes `SyncGivesUp` part of the wait
thread's fairness; nothing is assumed of the application, of the GPU (so `BlockedReleased` is about
executions in which the wait on it ends again and again) and of the render thread. In `multi_system`
only the render thread is fair.

## Proofs

All proofs are for every value of the constants that the named assumptions allow.

* `ClientSlots_proofs` – `TypeCorrect` first. `SlotInv` is inductive: a live thread is the one its
  slot would be joined with, the slot is used until the thread detaches and STOPPING from then on
  (`SlotMatchesThread`), a claimed slot is free (`ClaimedSlotFree`), and no thread exists for a
  connection that has not been handled (`ThreadsArrive`). `SlotExclusive` follows because two live
  threads on a slot would both be its `thread`; that the property alone is not inductive is seen at
  `StartClient`, which needs the joined thread to be the only one left. `IdsDistinct` needs that
  a free slot has id 0 (`SlotStates`). The counter needs the connection in progress to be counted
  (`CountCoversHandled`) and the cardinality facts of `FiniteSetTheorems`. `IdleIsNoticed` says that an
  idle server has somebody about to find that out; it is kept because the step that makes the counter
  zero is itself taken by such a thread, and a delay thread gives up only on a time stamp that a newer
  client has reset, in which case the counter was not zero. `IdsAreFound`, that the search for an id
  ends, is a pigeonhole argument (fewer slots than ids) and the existence of a least element.
* `ActiveClient_proofs` – three invariants on top of each other. `TableInv` holds for all clients:
  `IndicesAgree` is what makes the early return of `update_server_state_locked` harmless, and
  `SlotUse` that a slot is reused only after its deactivation has moved the primary index away.
  `PrimaryInv` adds who is shown; where the kind of a client matters it excepts clients that have had
  sessions of both (`BothKinds`), and no assumption is made about what kind a session has. The lemmas
  `UpdateResult` and `UpdateSettles` say what one call of `update_server_state_locked` establishes
  whatever it is called with; each handler is then a few steps. `ToldInv` is about the compositors:
  `CompositorAgrees` and `OverlayKnowsMainApp` are not inductive, since the push at the end of
  `ipc_handle_session_create` may carry a stale value. The invariant says that such a push, for a
  first session, only meets a client that has not been activated, whose activation tells it everything
  again, and that an overlay may have missed that an application came but never that it went.
* `AndroidMainloop_proofs` – `HandOverInv`: the holder of `client_push_mutex` is the only thread past
  it, at most its descriptor is in the pipe, an acknowledgement is for a thread that waits, and the
  server has taken exactly what has been or is about to be acknowledged. From it `NoDroppedAck`
  (the assertion in `handle_listen`) and `OwnershipIffZero`.

  `HandOverIsImplemented` adds that every step maps to a step of `HandOver` or to none.
  `NoSleeperIsForgotten`: a thread that sleeps in `add_fd` has its descriptor in the pipe, or the
  pipe has been closed and the main thread is about to tell everybody. What a thread needs to know
  before it goes back to sleep after a spurious wake-up is `WaitsForReason`.
* `ExtractCache_proofs` – `CacheInv`: no stamp on disk names a version that has begun and not been
  stamped, a stamp's tree is that of a version of this size up to what has begun (`Mixed`), and an
  extraction under way has its earlier entries in place. `HitIsWhole` and `RetryIsWhole` are not
  inductive: they only speak of the moment of serving.
* `FrameSlots_proofs` – `FrameInv`: who owns `progress` at every pair of locations (`HandOff`), the
  order of start and stop (`StartStop`), frame ids that grow (`FrameIds`), the balance of frames and
  references (`FrameOnce`), the order of the slots (`FrameOrder`), and that a thread past the test
  of `wait_for_scheduled_free` may still move (`MayMove`): time and the predicted display time only
  grow, which is why the unlock in between is harmless. From it the four invariants, the action
  property `NoEarlyDrop`, and the refinement of `FrameStream`: by the balance the stage of a frame
  determines where it is (`StageFacts`), and each of the seven steps that touch a slot is then a
  `Begin`, a `Show`, a `Retire` or nothing. `WakeupsAreNotLost`: with one condition variable for
  four events a signal could wake the wrong thread, but whoever signals is awake, so there is only
  one sleeper to wake; `WakeInv` adds what a client must find after a spurious wake-up (`blocked` is
  raised only while there is something to wait for).
* `MultiSystem_proofs` – `MultiInv`: `CountActive` needs that a client is marked as its thread's
  location says (`SessionPhases`) and cardinality; `ClientsStay` that collected clients are in the
  part of the list already gone through (`CollectedStay`) and that the list holds each living client
  once (`ListOfLiving`). `RenderThreadSleepsIdle`: the render thread sleeps only when there is
  nothing to do, because the count and the stop are changed and signalled under the mutex it tests
  them with.
* `AugInsService_proofs` – first the sort. `RankPermutes`: the ranks of the entries of a sequence
  are its positions, each once, because distinct entries have distinct ranks and an injection of a
  finite set into itself is onto; so `SortByPriority` keeps the entries, and its result is in order
  (`SortResult`). `ServiceInv` has three parts. `ThreadInv` relates the helper to the server thread:
  a shutdown that returned 0 has joined it, one that returned -1 may have left it behind.
  `LoaderInv` says that `g_loaded`, `g_map` and the mapped modules describe one set whenever the
  loader is not at work. `CallInv` says that a client thread whose server is alive works on a part
  of the registry. `ChainInOrder` alone is not inductive: it needs that the registry itself is
  sorted whenever a client copies it, that modules are registered in load order, each as often as it
  lists the function (`RegisterInLoadOrder`), so that the stable sort breaks ties by load order, and
  that the registry is empty when a new start loads. `ServedCallsMapped` is what remains of the
  promise that the run `module_unmap` refutes: a call can only be in an unmapped module if its
  server has been freed under it or the shutdown returned -1. `JoinIsNotStuck`: a server pointer is
  there only after the server thread has been through `server_mutex` (`ReportedInv`), and so the
  join with the mutex held does not meet it there.

Only model-checked: `FirstModulesCalled`, which counts entries across the sort, and the liveness
properties `OnlyJoinBlocksCleanup`, `IdleServerExits`, `AddFdReturns`, `ShutdownReturns`,
`BlockedReleased`, `DestroyReturns`, `NativeFollows` and `StopReturns`, which need fairness. For all
but the first the part that is not fairness is proved, as an invariant: nobody sleeps, gives up or
joins in a state in which nothing would ever end that, other than a hang the property excepts
(`IdleIsNoticed`, `SleepersAreServed`, `JoinMeetsNoMutex`, `NoLostWakeup`, `SleepsOnlyIdle`). These
five, `IdsAreFound` and `ServedCallsMapped` are stated for the proofs and are in no configuration;
TLC accepts each of them as an additional INVARIANT of its component's passing run. TLAPS here does
neither fairness nor ENABLED nor induction over recursive definitions, and no module declares a
RECURSIVE operator.

## Not modelled

Of the multi-client compositor: the focus flag, the z order and the base session flag, blend mode
and chroma key, the contents of layers, pacing and events, which decide how a frame looks and not
where it is. Of the extraction cache: the unpacking itself, and a disk that loses what was written
without a sync. Manifest parsing and the host API have no interaction to explore. The generated
protocol, the client library, the Linux and Windows main loops (one thread that polls and accepts),
the OpenXR state tracker, drivers, tracking and rendering are upstream Monado code outside the
service's coordination, numeric or pure I/O; they are most of the repository's lines. Of the request
handlers only those that touch the primary client are modelled; the tables of `ipc_server_objects.c`
belong to one client's thread each.

## Plan

Done: `ClientSlots`, `ActiveClient`, `AndroidMainloop` with `HandOver`, `AugInsService`,
`ExtractCache`, `FrameSlots` with `FrameStream`, and `MultiSystem`; proofs of the safety properties
of all of them and of both refinements.

1. An abstract specification of the client table (slots that are taken and given back), refined by
   `ClientSlots`.
2. Composition of `AndroidMainloop` with `ClientSlots` (`handle_listen` holds `accept_mutex` while the
   main thread joins) and of `ActiveClient` with `MultiSystem` (who may call `set_state` on a client
   that is being destroyed).
3. The per-client tables of `ipc_server_objects.c` and the shared space counters, as an algorithm
   checked against a reference.
