-------------------------- MODULE ClientSlots_proofs --------------------------
(* Machine-checked proofs about ClientSlots, for every value of its constants. *)
EXTENDS ClientSlots, FiniteSetTheorems, WellFoundedInduction, TLAPS

(***************************************************************************)
(* Type correctness.                                                       *)
(***************************************************************************)

\* Every variable of the client table keeps its type: slot records stay well
\* formed, ids stay inside the width of the generator and the pcs of the main,
\* client and delay threads stay in their sets.
THEOREM TypeCorrect == Spec => []TypeOK
<1> USE MaxClientsAssumption, MaxConnsAssumption, IdWidthAssumption
<1>1. Init => TypeOK
  BY DEF Init, TypeOK, Slots, Slot, Conns, ThreadStates, MainPCs, ThreadPCs, DelayPCs
<1>2. TypeOK /\ [Next]_vars => TypeOK'
  <2> SUFFICES ASSUME TypeOK, [Next]_vars PROVE TypeOK'
    OBVIOUS
  <2> USE DEF TypeOK, MainPCs
  <2>1. CASE EnterPoll
    BY <2>1 DEF EnterPoll
  <2>2. CASE PollNothing
    BY <2>2 DEF PollNothing
  <2>3. CASE LeaveMainLoop
    BY <2>3 DEF LeaveMainLoop
  <2>4. CASE RejectClient
    BY <2>4 DEF RejectClient, CountClient
  <2>5. CASE ClaimSlot
    BY <2>5 DEF ClaimSlot, CountClient
  <2>6. CASE JoinStopped
    BY <2>6 DEF JoinStopped, Slot, ThreadStates
  <2>7. CASE StartClient
    <3>1. conns \in Conns \cup {0}
      BY DEF Conns
    <3>2. slots' \in [Slots -> Slot]
      BY <2>7, <3>1 DEF StartClient, Slot, ThreadStates
    <3>3. tpc' \in [Conns -> ThreadPCs]
      BY <2>7 DEF StartClient, ThreadPCs
    <3> QED
      BY <2>7, <3>2, <3>3 DEF StartClient
  <2>8. CASE StartClientNoShm
    BY <2>8 DEF StartClientNoShm, Slot, ThreadStates
  <2>9. CASE ShutdownSignal
    BY <2>9 DEF ShutdownSignal
  <2>10. ASSUME NEW c \in Conns, ClientThread(c) PROVE TypeOK'
    <3> USE DEF Goto, ThreadPCs
    <3>1. CASE EnterClientLoop(c)
      BY <3>1 DEF EnterClientLoop
    <3>2. CASE EpollFails(c)
      BY <3>2 DEF EpollFails
    <3>3. CASE ClientLeaves(c)
      BY <3>3 DEF ClientLeaves
    <3>4. CASE ServerStops(c)
      BY <3>4 DEF ServerStops
    <3>5. CASE Detach(c)
      <4>1. tslot[c] \in Slots
        OBVIOUS
      <4>2. slots' \in [Slots -> Slot]
        BY <3>5, <4>1 DEF Detach, Slot, ThreadStates
      <4> QED
        BY <3>5, <4>2 DEF Detach
    <3>6. CASE DestroySession(c)
      BY <3>6 DEF DestroySession
    <3>7. CASE CheckIdle(c)
      BY <3>7, OptionsAssumption DEF CheckIdle
    <3>8. CASE ArmDelayedExit(c)
      BY <3>8 DEF ArmDelayedExit, DelayPCs
    <3>9. CASE Deactivate(c)
      BY <3>9 DEF Deactivate
    <3>10. CASE ClientUsesFreed(c)
      BY <3>10 DEF ClientUsesFreed
    <3> QED
      BY <2>10, <3>1, <3>2, <3>3, <3>4, <3>5, <3>6, <3>7, <3>8, <3>9, <3>10
      DEF ClientThread
  <2>11. ASSUME NEW c \in Conns, DelayThread(c) PROVE TypeOK'
    BY <2>11 DEF DelayThread, DelayExpires, DelayedExit, DelayUsesFreed, DelayPCs
  <2>12. CASE UNCHANGED vars
    BY <2>12 DEF vars
  <2> QED
    BY <2>1, <2>2, <2>3, <2>4, <2>5, <2>6, <2>7, <2>8, <2>9, <2>10, <2>11, <2>12
    DEF Next, Main
<1> QED
  BY <1>1, <1>2, PTL DEF Spec

(***************************************************************************)
(* The slot invariant.                                                     *)
(***************************************************************************)

\* What the id that allocate_id_locked returns is: in range and unused.
LEMMA AllocatedIdFresh ==
  ASSUME NEW id \in 0 .. IdWidth - 1, AllocateId(id)
  PROVE  id # 0 /\ \A i \in Slots : slots[i].id # id
BY DEF AllocateId, IdTaken

\* A step of client thread c that changes its pc only, between two pcs on the
\* same side of common_shutdown's first section or to its end.
LEMMA ThreadMoves ==
  ASSUME SlotInv, TypeOK', NEW c \in Conns, NEW to \in ThreadPCs,
         tpc[c] # "none",
         tpc' = [tpc EXCEPT ![c] = to],
         to \in Finished \/ (c \in Connected <=> c \in Connected'),
         to \notin Finished => Alive(c),
         UNCHANGED <<idGen, slots, conns, mpc, cur, tslot>>
  PROVE  SlotInv'
<1> USE DEF SlotInv
<1>1. ThreadsArrive'
  BY DEF ThreadsArrive, LockFree, TypeOK
<1>2. ClaimedSlotFree'
  BY DEF ClaimedSlotFree, LockFree
<1>3. SlotMatchesThread'
  <2> SUFFICES ASSUME NEW d \in Conns, Alive(d)'
               PROVE  /\ slots[tslot[d]].thread = d
                      /\ d \in Connected' => slots[tslot[d]].used
                      /\ d \notin Connected' => slots[tslot[d]].state = "STOPPING"
    BY DEF SlotMatchesThread
  <2>1. CASE d = c
    BY <2>1 DEF SlotMatchesThread, Alive, TypeOK
  <2>2. CASE d # c
    <3>1. tpc'[d] = tpc[d]
      BY <2>2 DEF TypeOK
    <3> QED
      BY <3>1 DEF SlotMatchesThread, Alive, Connected
  <2> QED
    BY <2>1, <2>2
<1>4. SlotStates'
  BY DEF SlotStates
<1>5. IdsDistinct'
  BY DEF IdsDistinct
<1> QED
  BY <1>1, <1>2, <1>3, <1>4, <1>5

LEMMA SlotInvInit == Init => SlotInv
<1> SUFFICES ASSUME Init PROVE SlotInv
  OBVIOUS
<1> USE MaxClientsAssumption, MaxConnsAssumption, IdWidthAssumption
<1>1. TypeOK
  BY DEF Init, TypeOK, Slots, Slot, Conns, ThreadStates, MainPCs, ThreadPCs, DelayPCs
<1> QED
  BY <1>1 DEF Init, SlotInv, ThreadsArrive, ClaimedSlotFree, SlotMatchesThread,
     SlotStates, IdsDistinct, LockFree, Alive, Finished, Connected

\* The steps of the main thread.
LEMMA SlotInvMain == SlotInv /\ TypeOK' /\ Main => SlotInv'
<1> SUFFICES ASSUME SlotInv, TypeOK', Main PROVE SlotInv'
  OBVIOUS
<1> USE MaxClientsAssumption, MaxConnsAssumption, IdWidthAssumption DEF SlotInv
<1>1. ASSUME UNCHANGED <<slots, conns, cur, tpc, tslot>>, LockFree, LockFree'
      PROVE  SlotInv'
  BY <1>1 DEF ThreadsArrive, ClaimedSlotFree, SlotMatchesThread, SlotStates,
     IdsDistinct, LockFree, Alive, Connected
<1>2. CASE EnterPoll \/ PollNothing \/ LeaveMainLoop
  BY <1>1, <1>2 DEF EnterPoll, PollNothing, LeaveMainLoop, LockFree
<1>3. CASE RejectClient
  <2>1. ThreadsArrive'
    BY <1>3 DEF RejectClient, CountClient, ThreadsArrive, LockFree, TypeOK, Conns
  <2>2. ClaimedSlotFree'
    BY <1>3 DEF RejectClient, ClaimedSlotFree, LockFree
  <2>3. SlotMatchesThread' /\ SlotStates' /\ IdsDistinct'
    BY <1>3 DEF RejectClient, SlotMatchesThread, SlotStates, IdsDistinct, Alive, Connected
  <2> QED
    BY <2>1, <2>2, <2>3
<1>4. CASE ClaimSlot
  <2>1. ThreadsArrive'
    BY <1>4 DEF ClaimSlot, CountClient, ThreadsArrive, LockFree, TypeOK, Conns
  <2>2. ClaimedSlotFree'
    BY <1>4 DEF ClaimSlot, ClaimedSlotFree, LockFree, IsFirstFree
  <2>3. SlotMatchesThread' /\ SlotStates' /\ IdsDistinct'
    BY <1>4 DEF ClaimSlot, SlotMatchesThread, SlotStates, IdsDistinct, Alive, Connected
  <2> QED
    BY <2>1, <2>2, <2>3
<1>5. CASE JoinStopped
  <2> DEFINE old == slots[cur].thread
  <2>1. /\ old \in Conns
        /\ ~Alive(old)
        /\ slots' = [slots EXCEPT ![cur].state = "READY"]
        /\ slots[cur].state = "STOPPING"
        /\ UNCHANGED <<conns, cur, tpc, tslot>>
    BY <1>5 DEF JoinStopped, Alive, Finished, ClaimedSlotFree
  <2>2. ThreadsArrive' /\ ClaimedSlotFree'
    BY <1>5, <2>1 DEF JoinStopped, ThreadsArrive, ClaimedSlotFree, LockFree, TypeOK, Slot
  <2>3. ASSUME NEW i \in Slots
        PROVE  /\ slots'[i].used = slots[i].used
               /\ slots'[i].id = slots[i].id
               /\ slots'[i].thread = slots[i].thread
               /\ i # cur => slots'[i] = slots[i]
    BY <2>1 DEF TypeOK, Slot
  <2>4. SlotMatchesThread'
    BY <2>1, <2>3 DEF SlotMatchesThread, Alive, Connected, TypeOK
  <2>5. SlotStates'
    BY <2>1, <2>3 DEF SlotStates, TypeOK, Slot
  <2>6. IdsDistinct'
    BY <2>3 DEF IdsDistinct
  <2> QED
    BY <2>2, <2>4, <2>5, <2>6
<1>6. CASE StartClient
  <2>1. PICK id \in 0 .. IdWidth - 1 :
          /\ AllocateId(id)
          /\ slots' = [slots EXCEPT ![cur] = [used |-> TRUE, state |-> "STARTING",
                                              id |-> id, thread |-> conns]]
    BY <1>6 DEF StartClient
  <2>2. id # 0 /\ \A i \in Slots : slots[i].id # id
    BY <2>1, AllocatedIdFresh
  <2>3. /\ conns \in Conns
        /\ tpc[conns] = "none"
        /\ slots[cur].state = "READY"
    BY <1>6 DEF StartClient, ThreadsArrive, ClaimedSlotFree, LockFree
  <2>4. /\ tpc' = [tpc EXCEPT ![conns] = "start"]
        /\ tslot' = [tslot EXCEPT ![conns] = cur]
        /\ mpc' = "loop"
        /\ UNCHANGED <<conns, cur>>
    BY <1>6 DEF StartClient
  <2>5. ThreadsArrive' /\ ClaimedSlotFree'
    BY <2>3, <2>4 DEF ThreadsArrive, ClaimedSlotFree, LockFree, TypeOK
  <2>6. \A c \in Conns : Alive(c) => tslot[c] # cur
    BY <2>3 DEF SlotMatchesThread, SlotStates, TypeOK
  <2>7. SlotMatchesThread'
    <3> SUFFICES ASSUME NEW d \in Conns, Alive(d)'
                 PROVE  /\ slots'[tslot'[d]].thread = d
                        /\ d \in Connected' => slots'[tslot'[d]].used
                        /\ d \notin Connected' => slots'[tslot'[d]].state = "STOPPING"
      BY DEF SlotMatchesThread
    <3>1. CASE d = conns
      BY <3>1, <2>1, <2>3, <2>4 DEF Connected, TypeOK
    <3>2. CASE d # conns
      <4>1. tpc'[d] = tpc[d] /\ tslot'[d] = tslot[d] /\ tslot[d] \in Slots
        BY <3>2, <2>4 DEF TypeOK
      <4>2. Alive(d)
        BY <4>1 DEF Alive
      <4>3. slots'[tslot[d]] = slots[tslot[d]]
        BY <2>1, <2>6, <4>1, <4>2 DEF TypeOK
      <4> QED
        BY <4>1, <4>2, <4>3 DEF SlotMatchesThread, Connected
    <3> QED
      BY <3>1, <3>2
  <2>8. SlotStates'
    BY <2>1, <2>2, <2>4 DEF SlotStates, TypeOK
  <2>9. IdsDistinct'
    BY <2>1, <2>2, <2>4 DEF IdsDistinct, TypeOK
  <2> QED
    BY <2>5, <2>7, <2>8, <2>9
<1>7. CASE StartClientNoShm
  <2>1. PICK id \in 0 .. IdWidth - 1 :
          /\ AllocateId(id)
          /\ slots' = [slots EXCEPT ![cur] = [used |-> TRUE, state |-> "STARTING",
                                              id |-> id, thread |-> @.thread]]
    BY <1>7 DEF StartClientNoShm
  <2>2. id # 0 /\ \A i \in Slots : slots[i].id # id
    BY <2>1, AllocatedIdFresh
  <2>3. /\ slots[cur].state = "READY"
        /\ mpc' = "loop"
        /\ UNCHANGED <<conns, cur, tpc, tslot>>
    BY <1>7 DEF StartClientNoShm, ClaimedSlotFree
  <2>4. ThreadsArrive' /\ ClaimedSlotFree'
    BY <2>3 DEF ThreadsArrive, ClaimedSlotFree, LockFree
  <2>5. \A c \in Conns : Alive(c) => tslot[c] # cur
    BY <2>3 DEF SlotMatchesThread, SlotStates, TypeOK
  <2>6. SlotMatchesThread'
    BY <2>1, <2>3, <2>5 DEF SlotMatchesThread, Alive, Connected, TypeOK
  <2>7. SlotStates'
    BY <2>1, <2>2, <2>3 DEF SlotStates, TypeOK
  <2>8. IdsDistinct'
    BY <2>1, <2>2, <2>3 DEF IdsDistinct, TypeOK
  <2> QED
    BY <2>4, <2>6, <2>7, <2>8
<1> QED
  BY <1>2, <1>3, <1>4, <1>5, <1>6, <1>7 DEF Main

\* The steps of a client thread.
LEMMA SlotInvClient ==
  ASSUME SlotInv, TypeOK', NEW c \in Conns, ClientThread(c)
  PROVE  SlotInv'
<1>1. CASE Detach(c)
  <2> USE DEF SlotInv
  <2> DEFINE i == tslot[c]
  <2>1. /\ tpc[c] = "detach"
        /\ tpc' = [tpc EXCEPT ![c] = "cleanup"]
        /\ slots' = [slots EXCEPT ![i] = [used |-> FALSE, state |-> "STOPPING",
                                          id |-> 0, thread |-> @.thread]]
        /\ UNCHANGED <<conns, mpc, cur, tslot>>
        /\ LockFree /\ LockFree'
    BY <1>1 DEF Detach, Goto, LockFree
  <2>2. i \in Slots /\ Alive(c) /\ slots[i].thread = c
    BY <2>1 DEF TypeOK, Alive, Finished, SlotMatchesThread
  <2>3. ThreadsArrive' /\ ClaimedSlotFree'
    BY <2>1 DEF ThreadsArrive, ClaimedSlotFree, LockFree, TypeOK
  <2>4. SlotMatchesThread'
    <3> SUFFICES ASSUME NEW d \in Conns, Alive(d)'
                 PROVE  /\ slots'[tslot[d]].thread = d
                        /\ d \in Connected' => slots'[tslot[d]].used
                        /\ d \notin Connected' => slots'[tslot[d]].state = "STOPPING"
      BY <2>1 DEF SlotMatchesThread
    <3>1. CASE d = c
      BY <3>1, <2>1, <2>2 DEF Connected, TypeOK
    <3>2. CASE d # c
      <4>1. tpc'[d] = tpc[d]
        BY <3>2, <2>1 DEF TypeOK
      <4>2. Alive(d)
        BY <4>1 DEF Alive
      <4>3. tslot[d] \in Slots /\ tslot[d] # i
        BY <3>2, <4>2, <2>2 DEF SlotMatchesThread, TypeOK
      <4>4. slots'[tslot[d]] = slots[tslot[d]]
        BY <2>1, <4>3 DEF TypeOK
      <4> QED
        BY <4>1, <4>2, <4>4 DEF SlotMatchesThread, Connected
    <3> QED
      BY <3>1, <3>2
  <2>5. SlotStates'
    BY <2>1, <2>2 DEF SlotStates, TypeOK
  <2>6. IdsDistinct'
    BY <2>1, <2>2 DEF IdsDistinct, TypeOK
  <2> QED
    BY <2>3, <2>4, <2>5, <2>6
<1>2. CASE ~Detach(c)
  <2> PICK to \in ThreadPCs :
         /\ tpc' = [tpc EXCEPT ![c] = to]
         /\ tpc[c] \notin Finished
         /\ \/ to \in {"done", "undefined"}
            \/ tpc[c] \in {"start", "serve"} /\ to \in {"serve", "detach"}
            \/ tpc[c] \in {"cleanup", "idle", "arm"} /\ to \in {"idle", "arm", "deactivate"}
    <3>1. CASE EnterClientLoop(c) \/ EpollFails(c) \/ ClientLeaves(c) \/ ServerStops(c)
      BY <3>1 DEF EnterClientLoop, EpollFails, ClientLeaves, ServerStops, Goto,
         ThreadPCs, Finished
    <3>2. CASE DestroySession(c) \/ ArmDelayedExit(c) \/ Deactivate(c) \/ ClientUsesFreed(c)
      BY <3>2 DEF DestroySession, ArmDelayedExit, Deactivate, ClientUsesFreed, Goto,
         ThreadPCs, Finished
    <3>3. CASE CheckIdle(c)
      BY <3>3 DEF CheckIdle, Goto, ThreadPCs, Finished
    <3> QED
      BY <1>2, <3>1, <3>2, <3>3 DEF ClientThread
  <2>1. UNCHANGED <<idGen, slots, conns, mpc, cur, tslot>>
    BY <1>2 DEF ClientThread, EnterClientLoop, EpollFails, ClientLeaves, ServerStops,
       DestroySession, CheckIdle, ArmDelayedExit, Deactivate, ClientUsesFreed
  <2>2. Alive(c) /\ tpc[c] # "none"
    BY DEF Alive, Finished
  <2>3. to \in Finished \/ (c \in Connected <=> c \in Connected')
    BY DEF Finished, Connected, SlotInv, TypeOK
  <2> QED
    BY <2>1, <2>2, <2>3, ThreadMoves
<1> QED
  BY <1>1, <1>2

LEMMA SlotInvStep == SlotInv /\ TypeOK' /\ [Next]_vars => SlotInv'
<1> SUFFICES ASSUME SlotInv, TypeOK', [Next]_vars PROVE SlotInv'
  OBVIOUS
<1>1. ASSUME UNCHANGED <<slots, conns, mpc, cur, tpc, tslot>> PROVE SlotInv'
  BY <1>1 DEF SlotInv, ThreadsArrive, ClaimedSlotFree, SlotMatchesThread, SlotStates,
     IdsDistinct, LockFree, Alive, Connected
<1>2. CASE Main
  BY <1>2, SlotInvMain
<1>3. CASE ShutdownSignal
  BY <1>1, <1>3 DEF ShutdownSignal
<1>4. ASSUME NEW c \in Conns, ClientThread(c) PROVE SlotInv'
  BY <1>4, SlotInvClient
<1>5. ASSUME NEW c \in Conns, DelayThread(c) PROVE SlotInv'
  BY <1>1, <1>5 DEF DelayThread, DelayExpires, DelayedExit, DelayUsesFreed
<1>6. CASE UNCHANGED vars
  BY <1>1, <1>6 DEF vars
<1> QED
  BY <1>2, <1>3, <1>4, <1>5, <1>6 DEF Next

LEMMA SlotInvariant == Spec => []SlotInv
BY SlotInvInit, SlotInvStep, TypeCorrect, PTL DEF Spec

\* However connections, disconnects and cleanups interleave, two live client
\* threads never share an ipc_client_state, for any number of slots and
\* connections.
THEOREM SlotsAreExclusive == Spec => []SlotExclusive
<1>1. SlotInv => SlotExclusive
  BY DEF SlotInv, SlotMatchesThread, SlotExclusive
<1> QED
  BY <1>1, SlotInvariant, PTL

\* The branch of ipc_server_handle_client_connected marked "we should not get
\* here" is dead code.
THEOREM NoManagementError == Spec => []NoStateManagementError
<1>1. SlotInv => NoStateManagementError
  BY DEF SlotInv, SlotStates, NoStateManagementError, TypeOK, Slot, ThreadStates
<1> QED
  BY <1>1, SlotInvariant, PTL

\* The ids of connected clients are non-zero and distinct for every width of
\* the generator, so also across its wrap-around.
THEOREM IdsAreDistinct == Spec => []IdsDistinct
<1>1. SlotInv => IdsDistinct
  BY DEF SlotInv
<1> QED
  BY <1>1, SlotInvariant, PTL

(***************************************************************************)
(* The connected-client counter.                                           *)
(***************************************************************************)

LEMMA ConnectedFinite ==
  IsFiniteSet(Connected) /\ Cardinality(Connected) \in Nat
<1>1. IsFiniteSet(Conns)
  BY MaxConnsAssumption, FS_Interval DEF Conns
<1>2. Connected \subseteq Conns
  BY DEF Connected
<1> QED
  BY <1>1, <1>2, FS_Subset, FS_CardinalityType

LEMMA CountInvStep == SlotInv /\ TypeOK' /\ CountCoversHandled /\ [Next]_vars
                        => CountCoversHandled'
<1> SUFFICES ASSUME SlotInv, TypeOK', CountCoversHandled, [Next]_vars
             PROVE  CountCoversHandled'
  OBVIOUS
<1> USE MaxConnsAssumption DEF SlotInv
<1>1. IsFiniteSet(Connected) /\ Cardinality(Connected) \in Nat
  BY ConnectedFinite
<1>2. IsFiniteSet(Connected') /\ Cardinality(Connected') \in Nat
  <2>1. IsFiniteSet(Conns)
    BY MaxConnsAssumption, FS_Interval DEF Conns
  <2>2. Connected' \subseteq Conns
    BY DEF Connected
  <2> QED
    BY <2>1, <2>2, FS_Subset, FS_CardinalityType
<1>3. ASSUME Connected' \subseteq Connected, count' = count, LockFree' <=> LockFree
      PROVE  CountCoversHandled'
  <2>1. Cardinality(Connected') <= Cardinality(Connected)
    BY <1>1, <1>3, FS_Subset
  <2> QED
    BY <1>1, <1>2, <1>3, <2>1 DEF CountCoversHandled, TypeOK
<1>4. CASE EnterPoll \/ PollNothing \/ LeaveMainLoop
  BY <1>3, <1>4 DEF EnterPoll, PollNothing, LeaveMainLoop, LockFree, Connected
<1>5. CASE RejectClient \/ ClaimSlot
  <2>1. /\ Connected' = Connected
        /\ count' = count + 1
        /\ LockFree
    BY <1>5 DEF RejectClient, ClaimSlot, CountClient, LockFree, Connected
  <2> QED
    BY <1>1, <2>1 DEF CountCoversHandled, TypeOK
<1>6. CASE JoinStopped
  BY <1>3, <1>6 DEF JoinStopped, LockFree, Connected
<1>7. CASE StartClient
  <2>1. conns \in Conns /\ conns \notin Connected
    BY <1>7 DEF StartClient, ThreadsArrive, LockFree, Connected
  <2>2. Connected' = Connected \cup {conns}
    BY <1>7, <2>1 DEF StartClient, Connected, TypeOK
  <2>3. Cardinality(Connected') = Cardinality(Connected) + 1
    BY <1>1, <2>1, <2>2, FS_AddElement
  <2>4. ~LockFree /\ LockFree' /\ count' = count
    BY <1>7 DEF StartClient, LockFree
  <2> QED
    BY <1>1, <2>3, <2>4 DEF CountCoversHandled, TypeOK
<1>8. CASE StartClientNoShm
  <2>1. ~LockFree /\ LockFree' /\ count' = count /\ Connected' = Connected
    BY <1>8 DEF StartClientNoShm, LockFree, Connected
  <2> QED
    BY <1>1, <2>1 DEF CountCoversHandled, TypeOK
<1>9. CASE ShutdownSignal
  BY <1>3, <1>9 DEF ShutdownSignal, LockFree, Connected
<1>10. ASSUME NEW c \in Conns, Detach(c) PROVE CountCoversHandled'
  <2>1. c \in Connected
    BY <1>10 DEF Detach, Goto, Connected
  <2>2. Connected' = Connected \ {c}
    BY <1>10 DEF Detach, Goto, Connected, TypeOK
  <2>3. Cardinality(Connected') = Cardinality(Connected) - 1
    BY <1>1, <2>1, <2>2, FS_RemoveElement
  <2>4. count' = count - 1 /\ LockFree /\ LockFree'
    BY <1>10 DEF Detach, LockFree
  <2> QED
    BY <1>1, <2>3, <2>4 DEF CountCoversHandled, TypeOK
<1>11. ASSUME NEW c \in Conns, ClientThread(c), ~Detach(c) PROVE CountCoversHandled'
  <2>1. count' = count /\ mpc' = mpc
    BY <1>11 DEF ClientThread, EnterClientLoop, EpollFails, ClientLeaves, ServerStops,
       DestroySession, CheckIdle, ArmDelayedExit, Deactivate, ClientUsesFreed
  <2>2. Connected' \subseteq Connected
    <3>1. CASE EnterClientLoop(c) \/ EpollFails(c) \/ ClientLeaves(c) \/ ServerStops(c)
      BY <3>1 DEF EnterClientLoop, EpollFails, ClientLeaves, ServerStops, Goto,
         Connected, TypeOK
    <3>2. CASE DestroySession(c) \/ ArmDelayedExit(c) \/ Deactivate(c) \/ ClientUsesFreed(c)
      BY <3>2 DEF DestroySession, ArmDelayedExit, Deactivate, ClientUsesFreed, Goto,
         Connected, TypeOK
    <3>3. CASE CheckIdle(c)
      BY <3>3 DEF CheckIdle, Goto, Connected, TypeOK
    <3> QED
      BY <1>11, <3>1, <3>2, <3>3 DEF ClientThread
  <2> QED
    BY <1>3, <2>1, <2>2 DEF LockFree
<1>12. ASSUME NEW c \in Conns, DelayThread(c) PROVE CountCoversHandled'
  BY <1>3, <1>12 DEF DelayThread, DelayExpires, DelayedExit, DelayUsesFreed, LockFree, Connected
<1>13. CASE UNCHANGED vars
  BY <1>3, <1>13 DEF vars, LockFree, Connected
<1> QED
  BY <1>4, <1>5, <1>6, <1>7, <1>8, <1>9, <1>10, <1>11, <1>12, <1>13 DEF Next, Main

\* The counter covers the connected clients and the one being handled.
LEMMA CountInvariant == Spec => []CountCoversHandled
<1>1. Init => CountCoversHandled
  <2> SUFFICES ASSUME Init PROVE CountCoversHandled
    OBVIOUS
  <2>1. Connected = {}
    BY DEF Init, Connected
  <2>2. Cardinality(Connected) = 0
    BY <2>1, FS_EmptySet
  <2> QED
    BY <2>2 DEF Init, CountCoversHandled, LockFree
<1> QED
  BY <1>1, CountInvStep, SlotInvariant, TypeCorrect, PTL DEF Spec

\* The counter that gates the idle exit is never below the number of connected
\* clients: connected_client_count == 0 does mean that nobody is connected,
\* whatever start-up failures and rejections have happened before.
THEOREM CountIsUpperBound == Spec => []CountCoversClients
<1>1. SlotInv /\ CountCoversHandled => CountCoversClients
  <2> SUFFICES ASSUME SlotInv, CountCoversHandled PROVE CountCoversClients
    OBVIOUS
  <2> QED
    BY ConnectedFinite DEF CountCoversHandled, CountCoversClients, SlotInv, TypeOK
<1> QED
  BY <1>1, CountInvariant, SlotInvariant, PTL

(***************************************************************************)
(* The idle exit.                                                          *)
(***************************************************************************)

\* Thread or delay thread c is about to notice that the server is idle.
Notices(c) ==
  \/ tpc[c] \in {"cleanup", "idle", "arm"}
  \/ dpc[c] = "sleep" /\ lastDisc > 0
  \/ dpc[c] = "exit"

\* The server is freed only after it has been told to stop.
FreedStopped == mpc = "freed" => ~running

\* Nothing sets running again, so that a freed server stays stopped.
LEMMA FreedStoppedStep == TypeOK /\ FreedStopped /\ [Next]_vars => FreedStopped'
<1> SUFFICES ASSUME TypeOK, FreedStopped, [Next]_vars PROVE FreedStopped'
  OBVIOUS
<1> USE DEF FreedStopped
<1>1. CASE Main
  BY <1>1 DEF Main, EnterPoll, PollNothing, LeaveMainLoop, RejectClient, ClaimSlot,
              CountClient, JoinStopped, StartClient, StartClientNoShm
<1>2. CASE ShutdownSignal
  BY <1>2 DEF ShutdownSignal
<1>3. ASSUME NEW c \in Conns, ClientThread(c) PROVE FreedStopped'
  BY <1>3 DEF ClientThread, EnterClientLoop, EpollFails, ClientLeaves, ServerStops, Detach,
              DestroySession, CheckIdle, ArmDelayedExit, Deactivate, ClientUsesFreed
<1>4. ASSUME NEW c \in Conns, DelayThread(c) PROVE FreedStopped'
  BY <1>4 DEF DelayThread, DelayExpires, DelayedExit, DelayUsesFreed
<1>5. CASE UNCHANGED vars
  BY <1>5 DEF vars
<1> QED
  BY <1>1, <1>2, <1>3, <1>4, <1>5 DEF Next

\* Every step leaves somebody to notice: the thread that makes the counter zero,
\* or whoever was to notice before and has come one step closer.
LEMMA IdleStep ==
  ASSUME SlotInv, CountCoversHandled, FreedStopped, IdleIsNoticed, [Next]_vars
  PROVE  IdleIsNoticed'
<1> SUFFICES ASSUME ExitWhenIdle, conns' > 0, count' = 0, running'
             PROVE  \E c \in Conns : Notices(c)'
  BY DEF IdleIsNoticed, Notices
<1>t. TypeOK /\ ThreadsArrive
  BY DEF SlotInv
<1>0. count \in Int /\ count >= 0
  <2>1. Cardinality(Connected) \in Nat
    BY ConnectedFinite
  <2> QED
    BY <1>t, <2>1 DEF CountCoversHandled, TypeOK
<1>1. ASSUME conns' = conns, count' = count, running
      PROVE  \E c \in Conns : Notices(c)
  BY <1>1 DEF IdleIsNoticed, Notices
<1>2. ASSUME UNCHANGED <<running, conns, count, lastDisc, dpc>>,
             \A c \in Conns : tpc[c] \in {"cleanup", "idle", "arm"} => tpc'[c] = tpc[c]
      PROVE  \E c \in Conns : Notices(c)'
  <2>1. PICK c \in Conns : Notices(c)
    BY <1>1, <1>2
  <2> QED
    BY <1>2, <2>1 DEF Notices
<1>3. CASE EnterPoll \/ PollNothing \/ LeaveMainLoop \/ JoinStopped \/ StartClientNoShm
  BY <1>2, <1>3 DEF EnterPoll, PollNothing, LeaveMainLoop, JoinStopped, StartClientNoShm
<1>4. CASE RejectClient \/ ClaimSlot
  <2>1. count' = count + 1
    BY <1>4 DEF RejectClient, ClaimSlot, CountClient
  <2> QED
    BY <1>0, <2>1
<1>5. CASE StartClient
  <2>1. /\ UNCHANGED <<running, conns, count, lastDisc, dpc>>
        /\ tpc[conns] = "none" /\ conns \in Conns
        /\ tpc' = [tpc EXCEPT ![conns] = "start"]
    BY <1>t, <1>5 DEF StartClient, ThreadsArrive, LockFree
  <2>2. \A c \in Conns : tpc[c] \in {"cleanup", "idle", "arm"} => tpc'[c] = tpc[c]
    BY <1>t, <2>1 DEF TypeOK
  <2> QED
    BY <1>2, <2>1, <2>2
<1>6. CASE ShutdownSignal
  BY <1>6 DEF ShutdownSignal
<1>7. ASSUME NEW c \in Conns, ClientThread(c) PROVE \E d \in Conns : Notices(d)'
  <2>1. CASE EnterClientLoop(c) \/ EpollFails(c) \/ ClientLeaves(c) \/ ServerStops(c)
             \/ Deactivate(c)
    <3>1. /\ UNCHANGED <<running, conns, count, lastDisc, dpc>>
          /\ tpc[c] \notin {"cleanup", "idle", "arm"}
          /\ \A d \in Conns \ {c} : tpc'[d] = tpc[d]
      BY <1>t, <2>1
      DEF EnterClientLoop, EpollFails, ClientLeaves, ServerStops, Deactivate, Goto, TypeOK
    <3> QED
      BY <1>2, <3>1
  <2>2. CASE Detach(c)
    <3>1. tpc'[c] = "cleanup"
      BY <1>t, <2>2 DEF Detach, Goto, TypeOK
    <3> QED
      BY <3>1 DEF Notices
  <2>3. CASE DestroySession(c)
    <3>1. tpc'[c] = "idle"
      BY <1>t, <2>3 DEF DestroySession, Goto, TypeOK
    <3> QED
      BY <3>1 DEF Notices
  <2>4. CASE CheckIdle(c)
    <3>1. tpc'[c] = "arm"
      BY <1>t, <2>4 DEF CheckIdle, Goto, TypeOK
    <3> QED
      BY <3>1 DEF Notices
  <2>5. CASE ArmDelayedExit(c)
    <3>1. dpc'[c] = "sleep" /\ lastDisc' = c
      BY <1>t, <2>5 DEF ArmDelayedExit, TypeOK
    <3>2. c > 0
      BY MaxConnsAssumption DEF Conns
    <3> QED
      BY <3>1, <3>2 DEF Notices
  <2>6. CASE ClientUsesFreed(c)
    BY <2>6 DEF ClientUsesFreed, Freed, FreedStopped
  <2> QED
    BY <1>7, <2>1, <2>2, <2>3, <2>4, <2>5, <2>6 DEF ClientThread
<1>8. ASSUME NEW c \in Conns, DelayThread(c) PROVE \E d \in Conns : Notices(d)'
  <2>1. CASE DelayExpires(c)
    <3>1. /\ UNCHANGED <<running, conns, count, lastDisc, tpc>>
          /\ \A d \in Conns \ {c} : dpc'[d] = dpc[d]
          /\ dpc[c] = "sleep"
          /\ lastDisc > 0 => dpc'[c] = "exit"
      BY <1>t, <2>1 DEF DelayExpires, TypeOK
    <3>2. PICK d \in Conns : Notices(d)
      BY <1>1, <3>1
    <3> QED
      BY <3>1, <3>2 DEF Notices
  <2>2. CASE DelayedExit(c)
    BY <2>2 DEF DelayedExit
  <2>3. CASE DelayUsesFreed(c)
    BY <2>3 DEF DelayUsesFreed, Freed, FreedStopped
  <2> QED
    BY <1>8, <2>1, <2>2, <2>3 DEF DelayThread
<1>9. CASE UNCHANGED vars
  BY <1>2, <1>9 DEF vars
<1> QED
  BY <1>3, <1>4, <1>5, <1>6, <1>7, <1>8, <1>9 DEF Next, Main

\* No order of disconnects, reconnects and delay threads loses the idle exit:
\* as long as the server is idle and not told to stop, some thread is about to
\* find that out.  What is left to fairness is that this thread goes on.
THEOREM IdleExitIsNotLost == Spec => []IdleIsNoticed
<1>1. Init => FreedStopped /\ IdleIsNoticed
  BY DEF Init, FreedStopped, IdleIsNoticed
<1>2. SlotInv => TypeOK
  BY DEF SlotInv
<1>3. SlotInv /\ CountCoversHandled /\ FreedStopped /\ IdleIsNoticed /\ [Next]_vars
        => IdleIsNoticed'
  BY IdleStep
<1> QED
  BY <1>1, <1>2, <1>3, FreedStoppedStep, CountInvariant, SlotInvariant, PTL DEF Spec

(***************************************************************************)
(* The search for an id.                                                   *)
(***************************************************************************)

\* A set of naturals that is not empty has a least element.
LEMMA LeastElement ==
  ASSUME NEW T \in SUBSET Nat, T # {}
  PROVE  \E m \in T : \A k \in T : m <= k
<1> DEFINE R == OpToRel(<, Nat)
<1>1. IsWellFoundedOn(R, Nat)
  BY NatLessThanWellFounded
<1>2. \A x, y \in Nat : <<y, x>> \in R <=> y < x
  BY DEF OpToRel
<1> HIDE DEF R
<1>3. PICK m \in T : \A k \in T : ~(<<k, m>> \in R)
  BY <1>1, WFMin
<1>4. m \in Nat /\ \A k \in T : k \in Nat /\ ~(k < m)
  BY <1>2, <1>3
<1>5. \A k \in T : m <= k
  BY <1>4
<1> QED
  BY <1>5

\* Some id is neither zero nor that of a slot: there are more ids than that.
LEMMA SomeIdFree ==
  \E id \in 0 .. IdWidth - 1 : ~IdTaken(id)
<1> USE MaxClientsAssumption, IdWidthAssumption
<1> DEFINE Ids == {slots[i].id : i \in Slots}
           Taken == Ids \cup {0}
<1>1. IsFiniteSet(Slots) /\ Cardinality(Slots) = MaxClients
  BY FS_Interval DEF Slots
<1>2. IsFiniteSet(Ids) /\ Cardinality(Ids) <= MaxClients
  <2> DEFINE f == [i \in Slots |-> slots[i].id]
  <2>1. f \in Surjection(Slots, Ids)
    BY DEF Surjection
  <2> QED
    BY <1>1, <2>1, FS_Surjection
<1>3. IsFiniteSet(Taken) /\ Cardinality(Taken) <= MaxClients + 1
  <2>1. Cardinality(Ids) \in Nat
    BY <1>2, FS_CardinalityType
  <2> HIDE DEF Ids
  <2>2. /\ IsFiniteSet(Taken)
        /\ \/ Cardinality(Taken) = Cardinality(Ids)
           \/ Cardinality(Taken) = Cardinality(Ids) + 1
    BY <1>2, FS_AddElement
  <2> HIDE DEF Taken
  <2> QED
    BY <1>2, <2>1, <2>2
<1>4. Cardinality(0 .. IdWidth - 1) = IdWidth /\ IsFiniteSet(0 .. IdWidth - 1)
  BY FS_Interval
<1>5. ~(0 .. IdWidth - 1 \subseteq Taken)
  <2> SUFFICES ASSUME 0 .. IdWidth - 1 \subseteq Taken PROVE FALSE
    OBVIOUS
  <2> HIDE DEF Taken
  <2>1. Cardinality(0 .. IdWidth - 1) <= Cardinality(Taken) /\ Cardinality(Taken) \in Nat
    BY <1>3, FS_Subset, FS_CardinalityType
  <2> QED
    BY <1>3, <1>4, <2>1
<1> QED
  BY <1>5 DEF IdTaken

\* allocate_id_locked returns: within one round of the generator it meets an id
\* that is free, and it stops at the first.
LEMMA SearchEnds ==
  ASSUME TypeOK
  PROVE  \E id \in 0 .. IdWidth - 1 : AllocateId(id)
<1> USE MaxClientsAssumption, IdWidthAssumption
<1> DEFINE At(k) == (idGen + k) % IdWidth
           Free == {k \in 1 .. IdWidth : ~IdTaken(At(k))}
<1>1. idGen \in 0 .. IdWidth - 1
  BY DEF TypeOK
<1>2. PICK id \in 0 .. IdWidth - 1 : ~IdTaken(id)
  BY SomeIdFree
<1>3. \E k \in 1 .. IdWidth : At(k) = id
  <2>0. id % IdWidth = id /\ (id + IdWidth) % IdWidth = id
    BY <1>2
  <2>1. CASE id > idGen
    <3>1. id - idGen \in 1 .. IdWidth /\ idGen + (id - idGen) = id
      BY <1>1, <2>1
    <3> QED
      BY <2>0, <3>1
  <2>2. CASE ~(id > idGen)
    <3>1. /\ id - idGen + IdWidth \in 1 .. IdWidth
          /\ idGen + (id - idGen + IdWidth) = id + IdWidth
      BY <1>1, <2>2
    <3> QED
      BY <2>0, <3>1
  <2> QED
    BY <2>1, <2>2
<1>4. Free # {} /\ Free \in SUBSET Nat
  BY <1>2, <1>3
<1>5. PICK k \in Free : \A j \in Free : k <= j
  <2> HIDE DEF Free
  <2> QED
    BY <1>4, LeastElement
<1>6. /\ k \in 1 .. IdWidth /\ ~IdTaken(At(k))
      /\ \A j \in 1 .. k - 1 : IdTaken(At(j))
  BY <1>5
<1>7. At(k) \in 0 .. IdWidth - 1
  BY <1>1, <1>6
<1> QED
  BY <1>6, <1>7 DEF AllocateId

\* A client for which a slot has been found always gets an id, for every width
\* of the generator above the assumed one.
THEOREM IdsAreAlwaysFound == Spec => []IdsAreFound
<1>1. TypeOK => IdsAreFound
  BY SearchEnds DEF IdsAreFound
<1> QED
  BY <1>1, TypeCorrect, PTL
==============================================================================
