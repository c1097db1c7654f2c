----------------------------- MODULE FrameSlots ------------------------------
(***************************************************************************)
(* The frames of one client of the multi-client compositor: how a frame    *)
(* goes from the slot progress through scheduled to delivered, and how the *)
(* client thread, the wait thread and the render thread share the slots.   *)
(*                                                                         *)
(* Source: compositor/multi/comp_multi_compositor.c, and the per-client    *)
(* part of transfer_layers_locked in comp_multi_system.c.                  *)
(*                                                                         *)
(* Granularity.  Whatever is done under list_and_timing_lock, slot_lock or *)
(* the mutex of wait_thread.oth without waiting is one step.  A wait on    *)
(* the condition variable of wait_thread.oth takes two steps: asleep until *)
(* some signal picks the thread, then awake and wanting the mutex.         *)
(* Times are points of a small clock; within half a millisecond is equal.  *)
(***************************************************************************)
EXTENDS Integers, FiniteSets

CONSTANTS
  MaxFrames,   \* bound: how many frames the application starts
  MaxTime,     \* bound: the last display time, one tick before the clock ends
  MaxLayers    \* bound: layers of a frame (XRT_MAX_LAYERS)

ASSUME BoundsAssumption ==
  /\ MaxFrames \in Nat \ {0}
  /\ MaxTime \in Nat \ {0}
  /\ MaxLayers \in Nat

Frames == 1 .. MaxFrames

Times == 1 .. MaxTime

\* What the client can hand to the wait thread: xcf or xcsem.
Syncs == {"fence", "semaphore"}

VARIABLES
  pc,          \* where the client thread and the wait thread are
  frame,       \* the last frame id the application has used
  data,        \* xrt_layer_frame_data of the frame being submitted
  progress,    \* multi_compositor::progress
  scheduled,   \* multi_compositor::scheduled
  delivered,   \* multi_compositor::delivered
  refs,        \* swapchain references taken by layers and not yet released
  begun,       \* the frames that have been put into progress
  retired,     \* how often u_pa_retired has been called for each frame
  kind,        \* the sync object of the commit in progress
  pushed,      \* wait_thread.xcf, wait_thread.xcsem
  taken,       \* the sync object the wait thread is waiting on
  alive,       \* wait_thread.alive
  running,     \* wait_thread.oth.running
  waiting,     \* wait_thread.waiting
  blocked,     \* wait_thread.blocked
  listed,      \* is the client in msc->clients?
  rpc,         \* where the render thread is
  next,        \* slot_next_frame_display
  now          \* os_monotonic_get_ns

clientVars == <<frame, data, begun, kind>>
slotVars == <<progress, scheduled, delivered, refs, retired>>
waitVars == <<pushed, taken, alive, running, waiting, blocked>>
renderVars == <<listed, rpc, next>>
vars == <<pc, clientVars, slotVars, waitVars, renderVars, now>>

\* struct multi_layer_slot; id 0 stands for frame_id -1 and not active.
Slot == [id : Frames \cup {0}, time : Times \cup {0}, layers : 0 .. MaxLayers]

Cleared == [id |-> 0, time |-> 0, layers |-> 0]

Active(slot) == slot.id # 0

ClientPCs == {"starting", "startwait", "idle", "begin", "blocked", "unblocked",
              "reset", "layers", "push", "sched", "move",
              "stop", "join", "clear", "freed"}

WaitPCs == {"start", "condwait", "woken", "sync", "sched", "move", "release", "ended"}

TypeOK ==
  /\ pc \in [{"client", "wait"} -> ClientPCs \cup WaitPCs]
  /\ pc["client"] \in ClientPCs
  /\ pc["wait"] \in WaitPCs
  /\ frame \in 0 .. MaxFrames
  /\ data \in [id : Frames \cup {0}, time : Times \cup {0}]
  /\ progress \in Slot
  /\ scheduled \in Slot
  /\ delivered \in Slot
  /\ refs \in Nat
  /\ begun \in SUBSET Frames
  /\ retired \in [Frames -> Nat]
  /\ kind \in Syncs \cup {"none"}
  /\ pushed \in Syncs \cup {"none"}
  /\ taken \in Syncs \cup {"none"}
  /\ alive \in BOOLEAN
  /\ running \in BOOLEAN
  /\ waiting \in BOOLEAN
  /\ blocked \in BOOLEAN
  /\ listed \in BOOLEAN
  /\ rpc \in {"predict", "transfer"}
  /\ next \in Times \cup {0}
  /\ now \in 0 .. MaxTime + 1

\* multi_compositor_create has listed the client and started the wait thread.
Init ==
  /\ pc = [t \in {"client", "wait"} |-> IF t = "client" THEN "starting" ELSE "start"]
  /\ frame = 0
  /\ data = [id |-> 0, time |-> 0]
  /\ progress = Cleared
  /\ scheduled = Cleared
  /\ delivered = Cleared
  /\ refs = 0
  /\ begun = {}
  /\ retired = [f \in Frames |-> 0]
  /\ kind = "none"
  /\ pushed = "none"
  /\ taken = "none"
  /\ alive = FALSE
  /\ running = TRUE
  /\ waiting = FALSE
  /\ blocked = FALSE
  /\ listed = TRUE
  /\ rpc = "predict"
  /\ next = 0
  /\ now = 0

-----------------------------------------------------------------------------
(***************************************************************************)
(* The mutex and condition variable of os_thread_helper.                   *)
(***************************************************************************)

\* pthread_cond_wait returns to the loop around it.
Awake == [startwait |-> "starting", blocked |-> "unblocked", condwait |-> "woken"]

Asleep == {t \in {"client", "wait"} : pc[t] \in DOMAIN Awake}

\* Thread t calls os_thread_helper_signal_locked and goes on to a location: one
\* sleeping thread wakes up, whichever, if there is one.
SignalAndGoto(t, to) ==
  IF Asleep = {}
  THEN pc' = [pc EXCEPT ![t] = to]
  ELSE \E u \in Asleep : pc' = [pc EXCEPT ![t] = to, ![u] = Awake[pc[u]]]

Goto(t, from, to) ==
  /\ pc[t] = from
  /\ pc' = [pc EXCEPT ![t] = to]

\* A condition variable may return without a signal.
SpuriousWakeup(t) ==
  /\ pc[t] \in DOMAIN Awake
  /\ pc' = [pc EXCEPT ![t] = Awake[pc[t]]]
  /\ UNCHANGED <<clientVars, slotVars, waitVars, renderVars, now>>

-----------------------------------------------------------------------------
(***************************************************************************)
(* Slots.                                                                  *)
(***************************************************************************)

\* The number of times frame f is in a slot.
Holds(slot, f) == IF slot.id = f THEN 1 ELSE 0

\* slot_clear_locked, beside zeroing the slot: a frame that is in it is
\* retired, the references of its layers are dropped.
Clear(slot) ==
  /\ retired' = [f \in Frames |-> retired[f] + Holds(slot, f)]
  /\ refs' = refs - slot.layers

\* Mutant of MayReplace: the scheduled slot is overwritten at once.
MayReplaceAlways == TRUE

\* The loop of wait_for_scheduled_free ends.
MayReplace ==
  \/ ~Active(scheduled)
  \/ progress.time = next
  \/ scheduled.time < now

\* wait_for_scheduled_free, the loop: the slot is tested every millisecond.
ScheduledFree(t) ==
  /\ MayReplace
  /\ Goto(t, "sched", "move")
  /\ UNCHANGED <<clientVars, slotVars, waitVars, renderVars, now>>

\* Mutant of MoveToScheduled: progress is copied and not cleared.
MoveKeepsProgress(t) ==
  /\ Goto(t, "move", IF t = "client" THEN "idle" ELSE "release")
  /\ Clear(scheduled)
  /\ scheduled' = progress
  /\ UNCHANGED <<clientVars, progress, delivered, waitVars, renderVars, now>>

\* wait_for_scheduled_free, after the loop: both locks are taken anew, and the
\* frame in scheduled, if it has not been delivered meanwhile, is dropped.
MoveToScheduled(t) ==
  /\ Goto(t, "move", IF t = "client" THEN "idle" ELSE "release")
  /\ Clear(scheduled)
  /\ scheduled' = progress
  /\ progress' = Cleared
  /\ UNCHANGED <<clientVars, delivered, waitVars, renderVars, now>>

-----------------------------------------------------------------------------
(***************************************************************************)
(* The client thread.                                                      *)
(***************************************************************************)

\* multi_compositor_create waits until the wait thread has reached its loop.
AwaitAlive ==
  /\ Goto("client", "starting", IF alive THEN "idle" ELSE "startwait")
  /\ UNCHANGED <<clientVars, slotVars, waitVars, renderVars, now>>

\* multi_compositor_layer_begin is called, with a frame of any display time.
LayerBegin(time) ==
  /\ frame < MaxFrames
  /\ Goto("client", "idle", "begin")
  /\ frame' = frame + 1
  /\ data' = [id |-> frame + 1, time |-> time]
  /\ UNCHANGED <<begun, kind, slotVars, waitVars, renderVars, now>>

\* Mutant of IsPushedOrWaiting: only what has not been taken yet counts.
IsPushed == pushed # "none"

\* is_pushed_or_waiting_locked.
IsPushedOrWaiting == waiting \/ pushed # "none"

\* wait_for_wait_thread: pass, or raise blocked and sleep.
WaitForWaitThread ==
  /\ Goto("client", "begin", IF IsPushedOrWaiting THEN "blocked" ELSE "reset")
  /\ blocked' = IsPushedOrWaiting
  /\ UNCHANGED <<clientVars, slotVars, pushed, taken, alive, running, waiting,
                 renderVars, now>>

\* The loop in wait_for_wait_thread_locked.
BlockedAgain ==
  /\ Goto("client", "unblocked", IF blocked THEN "blocked" ELSE "reset")
  /\ UNCHANGED <<clientVars, slotVars, waitVars, renderVars, now>>

\* The rest of layer_begin: progress is overwritten, without a lock.
ResetProgress ==
  /\ Goto("client", "reset", "layers")
  /\ progress' = [id |-> data.id, time |-> data.time, layers |-> 0]
  /\ begun' = begun \cup {data.id}
  /\ UNCHANGED <<frame, data, kind, scheduled, delivered, refs, retired,
                 waitVars, renderVars, now>>

\* multi_compositor_layer_projection, _quad and so on.
AddLayer ==
  /\ pc["client"] = "layers"
  /\ progress.layers < MaxLayers
  /\ progress' = [progress EXCEPT !.layers = @ + 1]
  /\ refs' = refs + 1
  /\ UNCHANGED <<pc, clientVars, scheduled, delivered, retired, waitVars,
                 renderVars, now>>

\* layer_commit with a handle that could be imported, or with a semaphore.
CommitWithSync(s) ==
  /\ Goto("client", "layers", "push")
  /\ kind' = s
  /\ UNCHANGED <<frame, data, begun, slotVars, waitVars, renderVars, now>>

\* layer_commit without a valid handle: the client thread schedules the frame.
CommitWithoutSync ==
  /\ Goto("client", "layers", "sched")
  /\ UNCHANGED <<clientVars, slotVars, waitVars, renderVars, now>>

\* push_fence_to_wait_thread and push_semaphore_to_wait_thread.  The assertions
\* at their start are part of ProgressExclusive, so that the wait between them
\* returns at once.
PushToWaitThread ==
  /\ pc["client"] = "push"
  /\ pushed' = kind
  /\ kind' = "none"
  /\ SignalAndGoto("client", "idle")
  /\ UNCHANGED <<frame, data, begun, slotVars, taken, alive, running, waiting,
                 blocked, renderVars, now>>

\* multi_compositor_discard_frame: the frame gets no layers, and what has been
\* delivered is not to be shown again.
DiscardFrame ==
  /\ pc["client"] = "idle"
  /\ frame < MaxFrames
  /\ frame' = frame + 1
  /\ Clear(delivered)
  /\ delivered' = Cleared
  /\ UNCHANGED <<pc, data, begun, kind, progress, scheduled, waitVars,
                 renderVars, now>>

\* multi_compositor_destroy: the client leaves the list ...
Unlist ==
  /\ Goto("client", "idle", "stop")
  /\ listed' = FALSE
  /\ UNCHANGED <<clientVars, slotVars, waitVars, rpc, next, now>>

\* ... os_thread_helper_stop_and_wait tells the wait thread to end ...
StopWaitThread ==
  /\ pc["client"] = "stop"
  /\ running' = FALSE
  /\ SignalAndGoto("client", "join")
  /\ UNCHANGED <<clientVars, slotVars, pushed, taken, alive, waiting, blocked,
                 renderVars, now>>

\* ... joins it ...
JoinWaitThread ==
  /\ pc["wait"] = "ended"
  /\ Goto("client", "join", "clear")
  /\ UNCHANGED <<clientVars, slotVars, waitVars, renderVars, now>>

\* Mutant of ClearSlots: only what is on its way is cleared.
ClearTwoSlots ==
  /\ Goto("client", "clear", "freed")
  /\ retired' = [f \in Frames |-> retired[f] + Holds(progress, f) + Holds(scheduled, f)]
  /\ refs' = refs - progress.layers - scheduled.layers
  /\ progress' = Cleared
  /\ scheduled' = Cleared
  /\ UNCHANGED <<clientVars, delivered, waitVars, renderVars, now>>

\* ... and clears the three slots.
ClearSlots ==
  /\ Goto("client", "clear", "freed")
  /\ retired' = [f \in Frames |-> retired[f] + Holds(progress, f)
                                  + Holds(scheduled, f) + Holds(delivered, f)]
  /\ refs' = refs - progress.layers - scheduled.layers - delivered.layers
  /\ progress' = Cleared
  /\ scheduled' = Cleared
  /\ delivered' = Cleared
  /\ UNCHANGED <<clientVars, waitVars, renderVars, now>>

-----------------------------------------------------------------------------
(***************************************************************************)
(* The wait thread, run_func.                                              *)
(***************************************************************************)

\* The head of the loop, the mutex being held: end, sleep, or go on to take.
LoopHead == IF ~running THEN "ended" ELSE IF pushed = "none" THEN "condwait" ELSE "woken"

StartLoop ==
  /\ pc["wait"] = "start"
  /\ alive' = TRUE
  /\ SignalAndGoto("wait", LoopHead)
  /\ UNCHANGED <<clientVars, slotVars, pushed, taken, running, waiting, blocked,
                 renderVars, now>>

\* Mutant of TakeSync: running is looked at before what has been pushed.
TakeSyncIfRunning ==
  /\ Goto("wait", "woken",
          IF ~running THEN "ended" ELSE IF pushed = "none" THEN "condwait" ELSE "sync")
  /\ waiting' = (running /\ pushed # "none")
  /\ taken' = IF running THEN pushed ELSE "none"
  /\ pushed' = IF running THEN "none" ELSE pushed
  /\ UNCHANGED <<clientVars, slotVars, alive, running, blocked, renderVars, now>>

\* After the wait on the condition variable: what has been pushed is taken even
\* when the thread has been told to stop; with nothing pushed, loop back.
TakeSync ==
  /\ Goto("wait", "woken", IF pushed = "none" THEN LoopHead ELSE "sync")
  /\ waiting' = (pushed # "none")
  /\ taken' = pushed
  /\ pushed' = "none"
  /\ UNCHANGED <<clientVars, slotVars, alive, running, blocked, renderVars, now>>

\* wait_fence and wait_semaphore: the GPU is done or the wait failed.
SyncDone ==
  /\ Goto("wait", "sync", "sched")
  /\ taken' = "none"
  /\ UNCHANGED <<clientVars, slotVars, pushed, alive, running, waiting, blocked,
                 renderVars, now>>

\* Mutant of SyncGivesUp: the wait is repeated whether or not running.
SyncRepeats ==
  /\ FALSE
  /\ UNCHANGED vars

\* The wait timed out after 100 ms, and the thread has been told to stop.
SyncGivesUp ==
  /\ ~running
  /\ Goto("wait", "sync", "sched")
  /\ taken' = "none"
  /\ UNCHANGED <<clientVars, slotVars, pushed, alive, running, waiting, blocked,
                 renderVars, now>>

\* Mutant of ReleaseClient: blocked is cleared and nobody is signalled.
ReleaseSilently ==
  /\ Goto("wait", "release", LoopHead)
  /\ waiting' = FALSE
  /\ blocked' = FALSE
  /\ UNCHANGED <<clientVars, slotVars, pushed, taken, alive, running, renderVars, now>>

\* No longer waiting; a blocked client is let go.
ReleaseClient ==
  /\ pc["wait"] = "release"
  /\ waiting' = FALSE
  /\ blocked' = FALSE
  /\ IF blocked THEN SignalAndGoto("wait", LoopHead) ELSE Goto("wait", "release", LoopHead)
  /\ UNCHANGED <<clientVars, slotVars, pushed, taken, alive, running, renderVars, now>>

-----------------------------------------------------------------------------
(***************************************************************************)
(* The render thread, as far as this client sees it, and time.             *)
(***************************************************************************)

\* broadcast_timings_to_clients and, later in the loop, _to_pacers write the
\* same predicted display time; the native compositor's predictions do not go
\* back.
Broadcast(time) ==
  /\ rpc = "predict"
  /\ time >= next
  /\ rpc' = "transfer"
  /\ next' = IF listed THEN time ELSE next
  /\ UNCHANGED <<pc, clientVars, slotVars, waitVars, listed, now>>

\* multi_compositor_deliver_any_frames finds a frame to deliver.
Due == Active(scheduled) /\ next >= scheduled.time

\* transfer_layers_locked comes to this client: the scheduled frame replaces
\* the delivered one when it is due.
Deliver ==
  /\ rpc = "transfer"
  /\ listed
  /\ Due
  /\ rpc' = "predict"
  /\ Clear(delivered)
  /\ delivered' = scheduled
  /\ scheduled' = Cleared
  /\ UNCHANGED <<pc, clientVars, progress, waitVars, listed, next, now>>

\* ... or there is none due, and the delivered one is used again.
DeliverNothing ==
  /\ rpc = "transfer"
  /\ ~(listed /\ Due)
  /\ rpc' = "predict"
  /\ UNCHANGED <<pc, clientVars, slotVars, waitVars, listed, next, now>>

\* ... and if the client is not visible or its session not active, the frame it
\* has delivered, just now or before, is retired at once.
DeliverHidden ==
  /\ rpc = "transfer"
  /\ listed
  /\ rpc' = "predict"
  /\ delivered' = Cleared
  /\ IF Due
     THEN /\ retired' = [f \in Frames |-> retired[f] + Holds(delivered, f)
                                          + Holds(scheduled, f)]
          /\ refs' = refs - delivered.layers - scheduled.layers
          /\ scheduled' = Cleared
     ELSE Clear(delivered) /\ UNCHANGED scheduled
  /\ UNCHANGED <<pc, clientVars, progress, waitVars, listed, next, now>>

Tick ==
  /\ now <= MaxTime
  /\ now' = now + 1
  /\ UNCHANGED <<pc, clientVars, slotVars, waitVars, renderVars>>

-----------------------------------------------------------------------------

ClientStep ==
  \/ AwaitAlive
  \/ WaitForWaitThread
  \/ BlockedAgain
  \/ ResetProgress
  \/ PushToWaitThread
  \/ ScheduledFree("client")
  \/ MoveToScheduled("client")
  \/ StopWaitThread
  \/ JoinWaitThread
  \/ ClearSlots

\* What the application decides to do.
ClientCall ==
  \/ \E time \in Times : LayerBegin(time)
  \/ AddLayer
  \/ \E s \in Syncs : CommitWithSync(s)
  \/ CommitWithoutSync
  \/ DiscardFrame
  \/ Unlist

WaitStep ==
  \/ StartLoop
  \/ TakeSync
  \/ SyncGivesUp
  \/ ScheduledFree("wait")
  \/ MoveToScheduled("wait")
  \/ ReleaseClient

RenderStep ==
  \/ \E time \in Times : Broadcast(time)
  \/ Deliver
  \/ DeliverNothing
  \/ DeliverHidden

Next ==
  \/ ClientStep
  \/ ClientCall
  \/ WaitStep
  \/ SyncDone
  \/ RenderStep
  \/ Tick
  \/ \E t \in {"client", "wait"} : SpuriousWakeup(t)

\* Threads that can go on do, a wait on the GPU times out, time passes.  Nothing
\* is assumed of the application, of the GPU and of the render thread.
Fairness == WF_vars(ClientStep) /\ WF_vars(WaitStep) /\ WF_vars(Tick)

Spec == Init /\ [][Next]_vars

FairSpec == Spec /\ Fairness

-----------------------------------------------------------------------------
(***************************************************************************)
(* Properties.                                                             *)
(***************************************************************************)

\* The wait thread and the client thread never have progress, which no lock
\* protects from them, at the same time; and where the client resets progress
\* or pushes, the assertions there hold (no layers are overwritten, nothing is
\* pushed or waited on).
ProgressExclusive ==
  /\ pushed # "none" \/ taken # "none" \/ waiting
       => pc["client"] \notin {"reset", "layers", "push", "sched", "move"}
  /\ pc["wait"] \in {"sync", "sched", "move"} => waiting
  /\ pc["client"] = "reset" => progress = Cleared

\* How far a frame has come, for the abstract stream of frames.
Stage ==
  [f \in Frames |-> CASE delivered.id = f -> "shown"
                      [] f \in {progress.id, scheduled.id} /\ delivered.id # f -> "held"
                      [] f \notin {progress.id, scheduled.id, delivered.id} ->
                           IF retired[f] > 0 THEN "retired" ELSE "new"]

Stream == INSTANCE FrameStream WITH stage <- Stage

\* The three slots, moved by the client, the wait and the render thread, are a
\* stream of frames: in order, one shown at a time, none shown twice, after it
\* was retired or after a newer one was dropped.
ImplementsFrameStream == Stream!Spec

\* Every frame that was put into progress is in exactly one slot or has been
\* retired exactly once, the references are those of the slots, and so a
\* destroyed client has retired every frame and holds no swapchain.
FrameOnce ==
  /\ \A f \in Frames :
       retired[f] + Holds(progress, f) + Holds(scheduled, f) + Holds(delivered, f)
         = IF f \in begun THEN 1 ELSE 0
  /\ refs = progress.layers + scheduled.layers + delivered.layers
  /\ pc["client"] = "freed" => refs = 0 /\ \A f \in begun : retired[f] = 1

\* A frame that waits in scheduled is dropped for a newer one only if it is late
\* or the newer one is for a display time the compositor has come to, although
\* both locks are released between the test and the move.
NoEarlyDrop ==
  [][ Active(scheduled) /\ Active(scheduled') /\ scheduled.id # scheduled'.id
        => scheduled.time < now \/ scheduled'.time <= next ]_vars

\* When the wait thread has ended no fence or semaphore is left behind, however
\* the stop and the last commit fell together.
NoSyncLeft == pc["wait"] = "ended" => pushed = "none" /\ taken = "none"

\* Nobody sleeps through what it waits for, with one condition variable for four
\* events and signals that wake any one sleeper: multi_compositor_create sleeps
\* until a wait thread that has not started, layer_begin until a wait thread that
\* has something to wait for, and the wait thread while nothing is pushed and
\* nobody has told it to stop.  So never do both sleep.
NoLostWakeup ==
  /\ pc["client"] = "startwait" => pc["wait"] = "start"
  /\ pc["client"] = "blocked" =>
       /\ blocked
       /\ \/ pc["wait"] = "woken" /\ pushed # "none"
          \/ pc["wait"] \in {"sync", "sched", "move", "release"}
  /\ pc["wait"] = "condwait" => pushed = "none" /\ running

\* A client blocked in layer_begin is let go, unless the GPU keeps the wait
\* thread waiting for ever: no signal of the shared condition variable is lost.
BlockedReleased ==
  []<>(pc["wait"] # "sync") => (pc["client"] = "blocked" ~> pc["client"] = "layers")

\* Destroying a client ends, even if the GPU never signals its last frame and
\* nobody takes the frame out of the scheduled slot any more.
DestroyReturns == pc["client"] = "stop" ~> pc["client"] = "freed"

-----------------------------------------------------------------------------
(***************************************************************************)
(* The inductive invariant behind the safety properties.                   *)
(***************************************************************************)

\* Frames keep their order: what is in progress is newer than what is
\* scheduled, that is newer than what is delivered, and no retired frame is
\* newer than one that can still be delivered.
FrameOrder ==
  /\ Active(scheduled) => scheduled.id > delivered.id
  /\ Active(progress) => progress.id > scheduled.id /\ progress.id > delivered.id
  /\ \A f \in Frames : retired[f] > 0 =>
       /\ Active(scheduled) => f < scheduled.id
       /\ Active(progress) => f < progress.id

\* Who has the frame in progress: the client thread from reset to its commit,
\* then the wait thread, which takes what was pushed and is waiting until it
\* has moved the frame on.
HandOff ==
  /\ waiting <=> pc["wait"] \in {"sync", "sched", "move", "release"}
  /\ taken # "none" <=> pc["wait"] = "sync"
  /\ waiting => pushed = "none"
  /\ pc["client"] \in {"reset", "layers", "push", "sched", "move"} => pushed = "none" /\ ~waiting
  /\ pc["client"] \in {"blocked", "unblocked"} /\ ~blocked => pushed = "none" /\ ~waiting
  /\ pc["client"] = "push" => kind # "none"
  /\ progress # Cleared => \/ pc["client"] \in {"layers", "push", "sched", "move"}
                           \/ pushed # "none"
                           \/ pc["wait"] \in {"sync", "sched", "move"}

\* The life of the client: the wait thread has started before the first frame,
\* and has ended, with nothing left, before the slots are cleared.
StartStop ==
  /\ alive <=> pc["wait"] # "start"
  /\ ~alive => pc["client"] \in {"starting", "startwait"}
  /\ pc["client"] \in {"starting", "startwait"} => pushed = "none"
  /\ running <=> pc["client"] \notin {"join", "clear", "freed"}
  /\ pc["wait"] = "ended" => ~running /\ pushed = "none"
  /\ pc["client"] \in {"clear", "freed"} => pc["wait"] = "ended"
  /\ listed <=> pc["client"] \notin {"stop", "join", "clear", "freed"}
  /\ pc["client"] = "freed" => progress = Cleared /\ scheduled = Cleared /\ delivered = Cleared

\* A frame that is about to be put into progress is newer than all before it.
FrameIds ==
  /\ begun \subseteq 1 .. frame
  /\ pc["client"] \in {"begin", "blocked", "unblocked", "reset"} =>
       data.id = frame /\ frame > 0 /\ frame \notin begun

\* A thread that is about to move progress may, as it has found out before.
MayMove ==
  \A t \in {"client", "wait"} :
    pc[t] = "move" => \/ ~Active(scheduled)
                      \/ progress.time <= next
                      \/ scheduled.time < now

FrameInv ==
  /\ TypeOK
  /\ HandOff
  /\ StartStop
  /\ FrameIds
  /\ FrameOnce
  /\ FrameOrder
  /\ MayMove
=============================================================================
