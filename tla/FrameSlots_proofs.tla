-------------------------- MODULE FrameSlots_proofs --------------------------
(* Machine-checked proofs about FrameSlots, for every value of its constants. *)
EXTENDS FrameSlots, TLAPS

(***************************************************************************)
(* How a step moves the two threads.                                       *)
(***************************************************************************)

\* Goto moves one thread and leaves the other.
LEMMA GotoMoves ==
  ASSUME TypeOK, NEW from, NEW to
  PROVE  /\ Goto("client", from, to) => pc["client"] = from /\ pc'["client"] = to /\ pc'["wait"] = pc["wait"]
         /\ Goto("wait", from, to) => pc["wait"] = from /\ pc'["wait"] = to /\ pc'["client"] = pc["client"]
BY DEF Goto, TypeOK

\* A signal of the client thread may wake the wait thread.
LEMMA ClientSignals ==
  ASSUME TypeOK, NEW to, SignalAndGoto("client", to), pc["client"] \in {"push", "stop"}
  PROVE  /\ pc'["client"] = to
         /\ pc'["wait"] = pc["wait"] \/ (pc["wait"] = "condwait" /\ pc'["wait"] = "woken")
         /\ pc' = [u \in {"client", "wait"} |-> pc'[u]]
<1>1. "client" \notin Asleep
  BY DEF Asleep, Awake
<1>2. CASE Asleep = {}
  BY <1>2 DEF SignalAndGoto, TypeOK
<1>3. CASE Asleep # {}
  <2>1. PICK u \in Asleep : pc' = [pc EXCEPT !["client"] = to, ![u] = Awake[pc[u]]]
    BY <1>3 DEF SignalAndGoto
  <2>2. u = "wait" /\ pc["wait"] \in DOMAIN Awake /\ pc["wait"] \in WaitPCs
    BY <1>1, <2>1 DEF Asleep, TypeOK
  <2>3. pc["wait"] = "condwait" /\ Awake[pc["wait"]] = "woken"
    BY <2>2 DEF Awake, WaitPCs
  <2> QED
    BY <2>1, <2>2, <2>3 DEF TypeOK
<1> QED
  BY <1>2, <1>3

\* A signal of the wait thread may wake the client thread.
LEMMA WaitSignals ==
  ASSUME TypeOK, NEW to, SignalAndGoto("wait", to), pc["wait"] \in {"start", "release"}
  PROVE  /\ pc'["wait"] = to
         /\ \/ pc'["client"] = pc["client"]
            \/ pc["client"] = "startwait" /\ pc'["client"] = "starting"
            \/ pc["client"] = "blocked" /\ pc'["client"] = "unblocked"
         /\ pc' = [u \in {"client", "wait"} |-> pc'[u]]
<1>1. "wait" \notin Asleep
  BY DEF Asleep, Awake
<1>2. CASE Asleep = {}
  BY <1>2 DEF SignalAndGoto, TypeOK
<1>3. CASE Asleep # {}
  <2>1. PICK u \in Asleep : pc' = [pc EXCEPT !["wait"] = to, ![u] = Awake[pc[u]]]
    BY <1>3 DEF SignalAndGoto
  <2>2. u = "client" /\ pc["client"] \in DOMAIN Awake /\ pc["client"] \in ClientPCs
    BY <1>1, <2>1 DEF Asleep, TypeOK
  <2>3. \/ pc["client"] = "startwait" /\ Awake[pc["client"]] = "starting"
        \/ pc["client"] = "blocked" /\ Awake[pc["client"]] = "unblocked"
    BY <2>2 DEF Awake, ClientPCs
  <2> QED
    BY <2>1, <2>2, <2>3 DEF TypeOK
<1> QED
  BY <1>2, <1>3

\* A spurious wake-up moves a sleeping thread to its test.
LEMMA SpuriousMoves ==
  ASSUME TypeOK, NEW t \in {"client", "wait"}, SpuriousWakeup(t)
  PROVE  /\ pc' = [u \in {"client", "wait"} |-> pc'[u]]
         /\ \/ /\ pc'["wait"] = pc["wait"]
               /\ \/ pc["client"] = "startwait" /\ pc'["client"] = "starting"
                  \/ pc["client"] = "blocked" /\ pc'["client"] = "unblocked"
            \/ /\ pc'["client"] = pc["client"]
               /\ pc["wait"] = "condwait" /\ pc'["wait"] = "woken"
<1>1. pc' = [u \in {"client", "wait"} |-> pc'[u]]
  BY DEF SpuriousWakeup, TypeOK
<1>2. \/ /\ pc'["wait"] = pc["wait"]
         /\ \/ pc["client"] = "startwait" /\ pc'["client"] = "starting"
            \/ pc["client"] = "blocked" /\ pc'["client"] = "unblocked"
      \/ /\ pc'["client"] = pc["client"]
         /\ pc["wait"] = "condwait" /\ pc'["wait"] = "woken"
  BY DEF SpuriousWakeup, Awake, TypeOK, ClientPCs, WaitPCs
<1> QED
  BY <1>1, <1>2

\* The frame in progress always has one owner.
LEMMA HandOffStep == FrameInv /\ [Next]_vars => HandOff'
<1> SUFFICES ASSUME FrameInv, [Next]_vars PROVE HandOff'
  OBVIOUS
<1>0. TypeOK /\ HandOff /\ StartStop
  BY DEF FrameInv
<1>1. CASE AwaitAlive
  BY <1>0, <1>1, GotoMoves DEF AwaitAlive, clientVars, slotVars, waitVars, renderVars,
     HandOff, Cleared, StartStop, TypeOK, Clear
<1>2. CASE WaitForWaitThread
  BY <1>0, <1>2, GotoMoves DEF WaitForWaitThread, IsPushedOrWaiting, clientVars, slotVars,
     waitVars, renderVars, HandOff, Cleared, StartStop, TypeOK, Clear
<1>3. CASE BlockedAgain
  BY <1>0, <1>3, GotoMoves DEF BlockedAgain, clientVars, slotVars, waitVars, renderVars,
     HandOff, Cleared, StartStop, TypeOK, Clear
<1>4. CASE ResetProgress
  BY <1>0, <1>4, GotoMoves DEF ResetProgress, clientVars, slotVars, waitVars, renderVars,
     HandOff, Cleared, StartStop, TypeOK, Clear
<1>5. CASE PushToWaitThread
  BY <1>0, <1>5, ClientSignals DEF PushToWaitThread, clientVars, slotVars, waitVars,
     renderVars, HandOff, Cleared, StartStop, TypeOK, Clear
<1>6. CASE ScheduledFree("client") \/ ScheduledFree("wait")
  BY <1>0, <1>6, GotoMoves DEF ScheduledFree, MayReplace, clientVars, slotVars, waitVars,
     renderVars, HandOff, Cleared, StartStop, TypeOK, Clear
<1>7. CASE MoveToScheduled("client")
  BY <1>0, <1>7, GotoMoves DEF MoveToScheduled, clientVars, slotVars, waitVars, renderVars,
     HandOff, Cleared, StartStop, TypeOK, Clear
<1>8. CASE MoveToScheduled("wait")
  BY <1>0, <1>8, GotoMoves DEF MoveToScheduled, clientVars, slotVars, waitVars, renderVars,
     HandOff, Cleared, StartStop, TypeOK, Clear
<1>9. CASE StopWaitThread
  BY <1>0, <1>9, ClientSignals DEF StopWaitThread, clientVars, slotVars, waitVars,
     renderVars, HandOff, Cleared, StartStop, TypeOK, Clear
<1>10. CASE JoinWaitThread
  BY <1>0, <1>10, GotoMoves DEF JoinWaitThread, clientVars, slotVars, waitVars, renderVars,
     HandOff, Cleared, StartStop, TypeOK, Clear
<1>11. CASE ClearSlots
  BY <1>0, <1>11, GotoMoves DEF ClearSlots, clientVars, slotVars, waitVars, renderVars,
     HandOff, Cleared, StartStop, TypeOK, Clear
<1>12. CASE \E time \in Times : LayerBegin(time)
  BY <1>0, <1>12, GotoMoves DEF LayerBegin, clientVars, slotVars, waitVars, renderVars,
     HandOff, Cleared, StartStop, TypeOK, Clear
<1>13. CASE AddLayer
  BY <1>0, <1>13, GotoMoves DEF AddLayer, clientVars, slotVars, waitVars, renderVars,
     HandOff, Cleared, StartStop, TypeOK, Clear
<1>14. CASE CommitWithoutSync \/ \E s \in Syncs : CommitWithSync(s)
  BY <1>0, <1>14, GotoMoves DEF CommitWithoutSync, CommitWithSync, Syncs, clientVars,
     slotVars, waitVars, renderVars, HandOff, Cleared, StartStop, TypeOK, Clear
<1>15. CASE DiscardFrame
  BY <1>0, <1>15, GotoMoves DEF DiscardFrame, clientVars, slotVars, waitVars, renderVars,
     HandOff, Cleared, StartStop, TypeOK, Clear
<1>16. CASE Unlist
  BY <1>0, <1>16, GotoMoves DEF Unlist, clientVars, slotVars, waitVars, renderVars, HandOff,
     Cleared, StartStop, TypeOK, Clear
<1>17. CASE StartLoop
  BY <1>0, <1>17, WaitSignals DEF StartLoop, LoopHead, clientVars, slotVars, waitVars,
     renderVars, HandOff, Cleared, StartStop, TypeOK, Clear
<1>18. CASE TakeSync
  BY <1>0, <1>18, GotoMoves DEF TakeSync, LoopHead, clientVars, slotVars, waitVars,
     renderVars, HandOff, Cleared, StartStop, TypeOK, Clear
<1>19. CASE SyncDone \/ SyncGivesUp
  BY <1>0, <1>19, GotoMoves DEF SyncDone, SyncGivesUp, clientVars, slotVars, waitVars,
     renderVars, HandOff, Cleared, StartStop, TypeOK, Clear
<1>20. CASE ReleaseClient
  BY <1>0, <1>20, WaitSignals, GotoMoves DEF ReleaseClient, LoopHead, clientVars, slotVars,
     waitVars, renderVars, HandOff, Cleared, StartStop, TypeOK, Clear
<1>21. CASE \E time \in Times : Broadcast(time)
  BY <1>0, <1>21, GotoMoves DEF Broadcast, clientVars, slotVars, waitVars, renderVars,
     HandOff, Cleared, StartStop, TypeOK, Clear
<1>22. CASE Deliver
  BY <1>0, <1>22, GotoMoves DEF Deliver, Due, clientVars, slotVars, waitVars, renderVars,
     HandOff, Cleared, StartStop, TypeOK, Clear
<1>23. CASE DeliverNothing
  BY <1>0, <1>23, GotoMoves DEF DeliverNothing, clientVars, slotVars, waitVars, renderVars,
     HandOff, Cleared, StartStop, TypeOK, Clear
<1>24. CASE DeliverHidden
  BY <1>0, <1>24, GotoMoves DEF DeliverHidden, Due, clientVars, slotVars, waitVars,
     renderVars, HandOff, Cleared, StartStop, TypeOK, Clear
<1>25. CASE Tick
  BY <1>0, <1>25, GotoMoves DEF Tick, clientVars, slotVars, waitVars, renderVars, HandOff,
     Cleared, StartStop, TypeOK, Clear
<1>26. CASE \E t \in {"client", "wait"} : SpuriousWakeup(t)
  <2>1. PICK t \in {"client", "wait"} : SpuriousWakeup(t)
    BY <1>26
  <2>2. UNCHANGED <<clientVars, slotVars, waitVars, renderVars, now>>
    BY <2>1 DEF SpuriousWakeup
  <2> QED
    BY <1>0, <2>1, <2>2, SpuriousMoves DEF clientVars, slotVars, waitVars, renderVars,
       HandOff, Cleared, StartStop, TypeOK, Clear
<1>27. CASE UNCHANGED vars
  BY <1>0, <1>27, GotoMoves DEF vars, clientVars, slotVars, waitVars, renderVars, HandOff,
     Cleared, StartStop, TypeOK, Clear
<1> QED
  BY <1>1, <1>2, <1>3, <1>4, <1>5, <1>6, <1>7, <1>8, <1>9, <1>10, <1>11, <1>12, <1>13,
     <1>14, <1>15, <1>16, <1>17, <1>18, <1>19, <1>20, <1>21, <1>22, <1>23, <1>24, <1>25,
     <1>26, <1>27
  DEF Next, ClientStep, ClientCall, WaitStep, RenderStep

\* The wait thread lives as long as frames can be pushed to it.
LEMMA StartStopStep == FrameInv /\ [Next]_vars => StartStop'
<1> SUFFICES ASSUME FrameInv, [Next]_vars PROVE StartStop'
  OBVIOUS
<1>0. TypeOK /\ HandOff /\ StartStop
  BY DEF FrameInv
<1>1. CASE AwaitAlive
  BY <1>0, <1>1, GotoMoves DEF AwaitAlive, clientVars, slotVars, waitVars, renderVars,
     HandOff, Cleared, StartStop, TypeOK, Clear
<1>2. CASE WaitForWaitThread
  BY <1>0, <1>2, GotoMoves DEF WaitForWaitThread, IsPushedOrWaiting, clientVars, slotVars,
     waitVars, renderVars, HandOff, Cleared, StartStop, TypeOK, Clear
<1>3. CASE BlockedAgain
  BY <1>0, <1>3, GotoMoves DEF BlockedAgain, clientVars, slotVars, waitVars, renderVars,
     HandOff, Cleared, StartStop, TypeOK, Clear
<1>4. CASE ResetProgress
  BY <1>0, <1>4, GotoMoves DEF ResetProgress, clientVars, slotVars, waitVars, renderVars,
     HandOff, Cleared, StartStop, TypeOK, Clear
<1>5. CASE PushToWaitThread
  BY <1>0, <1>5, ClientSignals DEF PushToWaitThread, clientVars, slotVars, waitVars,
     renderVars, HandOff, Cleared, StartStop, TypeOK, Clear
<1>6. CASE ScheduledFree("client") \/ ScheduledFree("wait")
  BY <1>0, <1>6, GotoMoves DEF ScheduledFree, MayReplace, clientVars, slotVars, waitVars,
     renderVars, HandOff, Cleared, StartStop, TypeOK, Clear
<1>7. CASE MoveToScheduled("client")
  BY <1>0, <1>7, GotoMoves DEF MoveToScheduled, clientVars, slotVars, waitVars, renderVars,
     HandOff, Cleared, StartStop, TypeOK, Clear
<1>8. CASE MoveToScheduled("wait")
  BY <1>0, <1>8, GotoMoves DEF MoveToScheduled, clientVars, slotVars, waitVars, renderVars,
     HandOff, Cleared, StartStop, TypeOK, Clear
<1>9. CASE StopWaitThread
  BY <1>0, <1>9, ClientSignals DEF StopWaitThread, clientVars, slotVars, waitVars,
     renderVars, HandOff, Cleared, StartStop, TypeOK, Clear
<1>10. CASE JoinWaitThread
  BY <1>0, <1>10, GotoMoves DEF JoinWaitThread, clientVars, slotVars, waitVars, renderVars,
     HandOff, Cleared, StartStop, TypeOK, Clear
<1>11. CASE ClearSlots
  BY <1>0, <1>11, GotoMoves DEF ClearSlots, clientVars, slotVars, waitVars, renderVars,
     HandOff, Cleared, StartStop, TypeOK, Clear
<1>12. CASE \E time \in Times : LayerBegin(time)
  BY <1>0, <1>12, GotoMoves DEF LayerBegin, clientVars, slotVars, waitVars, renderVars,
     HandOff, Cleared, StartStop, TypeOK, Clear
<1>13. CASE AddLayer
  BY <1>0, <1>13, GotoMoves DEF AddLayer, clientVars, slotVars, waitVars, renderVars,
     HandOff, Cleared, StartStop, TypeOK, Clear
<1>14. CASE CommitWithoutSync \/ \E s \in Syncs : CommitWithSync(s)
  BY <1>0, <1>14, GotoMoves DEF CommitWithoutSync, CommitWithSync, Syncs, clientVars,
     slotVars, waitVars, renderVars, HandOff, Cleared, StartStop, TypeOK, Clear
<1>15. CASE DiscardFrame
  BY <1>0, <1>15, GotoMoves DEF DiscardFrame, clientVars, slotVars, waitVars, renderVars,
     HandOff, Cleared, StartStop, TypeOK, Clear
<1>16. CASE Unlist
  BY <1>0, <1>16, GotoMoves DEF Unlist, clientVars, slotVars, waitVars, renderVars, HandOff,
     Cleared, StartStop, TypeOK, Clear
<1>17. CASE StartLoop
  BY <1>0, <1>17, WaitSignals DEF StartLoop, LoopHead, clientVars, slotVars, waitVars,
     renderVars, HandOff, Cleared, StartStop, TypeOK, Clear
<1>18. CASE TakeSync
  BY <1>0, <1>18, GotoMoves DEF TakeSync, LoopHead, clientVars, slotVars, waitVars,
     renderVars, HandOff, Cleared, StartStop, TypeOK, Clear
<1>19. CASE SyncDone \/ SyncGivesUp
  BY <1>0, <1>19, GotoMoves DEF SyncDone, SyncGivesUp, clientVars, slotVars, waitVars,
     renderVars, HandOff, Cleared, StartStop, TypeOK, Clear
<1>20. CASE ReleaseClient
  BY <1>0, <1>20, WaitSignals, GotoMoves DEF ReleaseClient, LoopHead, clientVars, slotVars,
     waitVars, renderVars, HandOff, Cleared, StartStop, TypeOK, Clear
<1>21. CASE \E time \in Times : Broadcast(time)
  BY <1>0, <1>21, GotoMoves DEF Broadcast, clientVars, slotVars, waitVars, renderVars,
     HandOff, Cleared, StartStop, TypeOK, Clear
<1>22. CASE Deliver
  BY <1>0, <1>22, GotoMoves DEF Deliver, Due, clientVars, slotVars, waitVars, renderVars,
     HandOff, Cleared, StartStop, TypeOK, Clear
<1>23. CASE DeliverNothing
  BY <1>0, <1>23, GotoMoves DEF DeliverNothing, clientVars, slotVars, waitVars, renderVars,
     HandOff, Cleared, StartStop, TypeOK, Clear
<1>24. CASE DeliverHidden
  BY <1>0, <1>24, GotoMoves DEF DeliverHidden, Due, clientVars, slotVars, waitVars,
     renderVars, HandOff, Cleared, StartStop, TypeOK, Clear
<1>25. CASE Tick
  BY <1>0, <1>25, GotoMoves DEF Tick, clientVars, slotVars, waitVars, renderVars, HandOff,
     Cleared, StartStop, TypeOK, Clear
<1>26. CASE \E t \in {"client", "wait"} : SpuriousWakeup(t)
  <2>1. PICK t \in {"client", "wait"} : SpuriousWakeup(t)
    BY <1>26
  <2>2. UNCHANGED <<clientVars, slotVars, waitVars, renderVars, now>>
    BY <2>1 DEF SpuriousWakeup
  <2> QED
    BY <1>0, <2>1, <2>2, SpuriousMoves DEF clientVars, slotVars, waitVars, renderVars,
       HandOff, Cleared, StartStop, TypeOK, Clear
<1>27. CASE UNCHANGED vars
  BY <1>0, <1>27, GotoMoves DEF vars, clientVars, slotVars, waitVars, renderVars, HandOff,
     Cleared, StartStop, TypeOK, Clear
<1> QED
  BY <1>1, <1>2, <1>3, <1>4, <1>5, <1>6, <1>7, <1>8, <1>9, <1>10, <1>11, <1>12, <1>13,
     <1>14, <1>15, <1>16, <1>17, <1>18, <1>19, <1>20, <1>21, <1>22, <1>23, <1>24, <1>25,
     <1>26, <1>27
  DEF Next, ClientStep, ClientCall, WaitStep, RenderStep

\* The ids of frames that have been begun grow.
LEMMA FrameIdsStep == FrameInv /\ [Next]_vars => FrameIds'
<1> SUFFICES ASSUME FrameInv, [Next]_vars PROVE FrameIds'
  OBVIOUS
<1>0. TypeOK /\ FrameIds
  BY DEF FrameInv
<1>1. CASE AwaitAlive
  BY <1>0, <1>1, GotoMoves, BoundsAssumption DEF AwaitAlive, clientVars, slotVars, waitVars,
     renderVars, FrameIds, TypeOK, Frames
<1>2. CASE WaitForWaitThread
  BY <1>0, <1>2, GotoMoves, BoundsAssumption DEF WaitForWaitThread, IsPushedOrWaiting,
     clientVars, slotVars, waitVars, renderVars, FrameIds, TypeOK, Frames
<1>3. CASE BlockedAgain
  BY <1>0, <1>3, GotoMoves, BoundsAssumption DEF BlockedAgain, clientVars, slotVars,
     waitVars, renderVars, FrameIds, TypeOK, Frames
<1>4. CASE ResetProgress
  <2>1. pc["client"] = "reset" /\ pc'["client"] = "layers"
    BY <1>0, <1>4, GotoMoves DEF ResetProgress
  <2>2. begun' = begun \cup {frame} /\ frame' = frame /\ frame \in Nat /\ frame > 0
    BY <1>0, <1>4, <2>1, BoundsAssumption DEF ResetProgress, FrameIds, TypeOK
  <2>3. frame \in 1 .. frame
    BY <2>2
  <2> QED
    BY <1>0, <2>1, <2>2, <2>3 DEF FrameIds
<1>5. CASE PushToWaitThread
  BY <1>0, <1>5, ClientSignals, BoundsAssumption DEF PushToWaitThread, clientVars, slotVars,
     waitVars, renderVars, FrameIds, TypeOK, Frames
<1>6. CASE ScheduledFree("client") \/ ScheduledFree("wait")
  BY <1>0, <1>6, GotoMoves, BoundsAssumption DEF ScheduledFree, MayReplace, clientVars,
     slotVars, waitVars, renderVars, FrameIds, TypeOK, Frames
<1>7. CASE MoveToScheduled("client")
  BY <1>0, <1>7, GotoMoves, BoundsAssumption DEF MoveToScheduled, clientVars, slotVars,
     waitVars, renderVars, FrameIds, TypeOK, Frames
<1>8. CASE MoveToScheduled("wait")
  BY <1>0, <1>8, GotoMoves, BoundsAssumption DEF MoveToScheduled, clientVars, slotVars,
     waitVars, renderVars, FrameIds, TypeOK, Frames
<1>9. CASE StopWaitThread
  BY <1>0, <1>9, ClientSignals, BoundsAssumption DEF StopWaitThread, clientVars, slotVars,
     waitVars, renderVars, FrameIds, TypeOK, Frames
<1>10. CASE JoinWaitThread
  BY <1>0, <1>10, GotoMoves, BoundsAssumption DEF JoinWaitThread, clientVars, slotVars,
     waitVars, renderVars, FrameIds, TypeOK, Frames
<1>11. CASE ClearSlots
  BY <1>0, <1>11, GotoMoves, BoundsAssumption DEF ClearSlots, clientVars, slotVars,
     waitVars, renderVars, FrameIds, TypeOK, Frames
<1>12. CASE \E time \in Times : LayerBegin(time)
  BY <1>0, <1>12, GotoMoves, BoundsAssumption DEF LayerBegin, clientVars, slotVars,
     waitVars, renderVars, FrameIds, TypeOK, Frames
<1>13. CASE AddLayer
  BY <1>0, <1>13, GotoMoves, BoundsAssumption DEF AddLayer, clientVars, slotVars, waitVars,
     renderVars, FrameIds, TypeOK, Frames
<1>14. CASE CommitWithoutSync \/ \E s \in Syncs : CommitWithSync(s)
  BY <1>0, <1>14, GotoMoves, BoundsAssumption DEF CommitWithoutSync, CommitWithSync, Syncs,
     clientVars, slotVars, waitVars, renderVars, FrameIds, TypeOK, Frames
<1>15. CASE DiscardFrame
  BY <1>0, <1>15, GotoMoves, BoundsAssumption DEF DiscardFrame, clientVars, slotVars,
     waitVars, renderVars, FrameIds, TypeOK, Frames
<1>16. CASE Unlist
  BY <1>0, <1>16, GotoMoves, BoundsAssumption DEF Unlist, clientVars, slotVars, waitVars,
     renderVars, FrameIds, TypeOK, Frames
<1>17. CASE StartLoop
  BY <1>0, <1>17, WaitSignals, BoundsAssumption DEF StartLoop, LoopHead, clientVars,
     slotVars, waitVars, renderVars, FrameIds, TypeOK, Frames
<1>18. CASE TakeSync
  BY <1>0, <1>18, GotoMoves, BoundsAssumption DEF TakeSync, LoopHead, clientVars, slotVars,
     waitVars, renderVars, FrameIds, TypeOK, Frames
<1>19. CASE SyncDone \/ SyncGivesUp
  BY <1>0, <1>19, GotoMoves, BoundsAssumption DEF SyncDone, SyncGivesUp, clientVars,
     slotVars, waitVars, renderVars, FrameIds, TypeOK, Frames
<1>20. CASE ReleaseClient
  BY <1>0, <1>20, WaitSignals, GotoMoves, BoundsAssumption DEF ReleaseClient, LoopHead,
     clientVars, slotVars, waitVars, renderVars, FrameIds, TypeOK, Frames
<1>21. CASE \E time \in Times : Broadcast(time)
  BY <1>0, <1>21, GotoMoves, BoundsAssumption DEF Broadcast, clientVars, slotVars, waitVars,
     renderVars, FrameIds, TypeOK, Frames
<1>22. CASE Deliver
  BY <1>0, <1>22, GotoMoves, BoundsAssumption DEF Deliver, Due, clientVars, slotVars,
     waitVars, renderVars, FrameIds, TypeOK, Frames
<1>23. CASE DeliverNothing
  BY <1>0, <1>23, GotoMoves, BoundsAssumption DEF DeliverNothing, clientVars, slotVars,
     waitVars, renderVars, FrameIds, TypeOK, Frames
<1>24. CASE DeliverHidden
  BY <1>0, <1>24, GotoMoves, BoundsAssumption DEF DeliverHidden, Due, clientVars, slotVars,
     waitVars, renderVars, FrameIds, TypeOK, Frames
<1>25. CASE Tick
  BY <1>0, <1>25, GotoMoves, BoundsAssumption DEF Tick, clientVars, slotVars, waitVars,
     renderVars, FrameIds, TypeOK, Frames
<1>26. CASE \E t \in {"client", "wait"} : SpuriousWakeup(t)
  <2>1. PICK t \in {"client", "wait"} : SpuriousWakeup(t)
    BY <1>26
  <2>2. UNCHANGED <<clientVars, slotVars, waitVars, renderVars, now>>
    BY <2>1 DEF SpuriousWakeup
  <2> QED
    BY <1>0, <2>1, <2>2, SpuriousMoves, BoundsAssumption DEF clientVars, slotVars,
       waitVars, renderVars, FrameIds, TypeOK, Frames
<1>27. CASE UNCHANGED vars
  BY <1>0, <1>27, GotoMoves, BoundsAssumption DEF vars, clientVars, slotVars, waitVars,
     renderVars, FrameIds, TypeOK, Frames
<1> QED
  BY <1>1, <1>2, <1>3, <1>4, <1>5, <1>6, <1>7, <1>8, <1>9, <1>10, <1>11, <1>12, <1>13,
     <1>14, <1>15, <1>16, <1>17, <1>18, <1>19, <1>20, <1>21, <1>22, <1>23, <1>24, <1>25,
     <1>26, <1>27
  DEF Next, ClientStep, ClientCall, WaitStep, RenderStep

\* Every frame is in one slot or retired once, and the references are those of the
\* slots: the first two parts of FrameOnce.
FrameBalance ==
  /\ \A f \in Frames :
       retired[f] + Holds(progress, f) + Holds(scheduled, f) + Holds(delivered, f)
         = IF f \in begun THEN 1 ELSE 0
  /\ refs = progress.layers + scheduled.layers + delivered.layers

\* The steps that touch slots, retired frames or references.
LEMMA SlotSteps ==
  ASSUME [Next]_vars
  PROVE  \/ ResetProgress \/ AddLayer \/ DiscardFrame \/ ClearSlots
         \/ \E t \in {"client", "wait"} : MoveToScheduled(t)
         \/ Deliver \/ DeliverHidden
         \/ UNCHANGED <<slotVars, begun>>
<1>1. CASE ClientStep
  BY <1>1 DEF ClientStep, AwaitAlive, WaitForWaitThread, BlockedAgain, PushToWaitThread,
     ScheduledFree, StopWaitThread, JoinWaitThread, clientVars
<1>2. CASE ClientCall
  BY <1>2 DEF ClientCall, LayerBegin, CommitWithSync, CommitWithoutSync, Unlist, clientVars
<1>3. CASE WaitStep \/ SyncDone
  BY <1>3 DEF WaitStep, StartLoop, TakeSync, SyncGivesUp, SyncDone, ScheduledFree,
     ReleaseClient, clientVars
<1>4. CASE RenderStep \/ Tick
  BY <1>4 DEF RenderStep, Broadcast, DeliverNothing, Tick, clientVars
<1>5. CASE \E t \in {"client", "wait"} : SpuriousWakeup(t)
  BY <1>5 DEF SpuriousWakeup, clientVars
<1>6. CASE UNCHANGED vars
  BY <1>6 DEF vars, clientVars
<1> QED
  BY <1>1, <1>2, <1>3, <1>4, <1>5, <1>6 DEF Next

\* Frame ids are positive, and so no frame is in a cleared slot.
LEMMA HoldsFacts ==
  ASSUME NEW f \in Frames
  PROVE  /\ Holds(Cleared, f) = 0
         /\ \A slot : Holds(slot, f) \in {0, 1} /\ (Holds(slot, f) = 1 <=> slot.id = f)
BY BoundsAssumption DEF Holds, Cleared, Frames

\* The frame that is put into progress: nothing was there, and it is new.
LEMMA ResetFacts ==
  ASSUME FrameInv, ResetProgress
  PROVE  /\ progress = Cleared
         /\ progress'.id = frame /\ progress'.layers = 0
         /\ frame \in Frames /\ frame \notin begun
         /\ begun' = begun \cup {frame}
         /\ UNCHANGED <<scheduled, delivered, refs, retired>>
<1>1. TypeOK /\ HandOff /\ FrameIds
  BY DEF FrameInv
<1>2. pc["client"] = "reset"
  BY <1>1, GotoMoves DEF ResetProgress
<1>3. progress = Cleared
  BY <1>1, <1>2 DEF HandOff
<1> QED
  BY <1>1, <1>2, <1>3, BoundsAssumption DEF ResetProgress, FrameIds, TypeOK, Frames

\* Moving a frame from slot to slot keeps the balance.
LEMMA FrameBalanceStep == FrameInv /\ [Next]_vars => FrameBalance'
<1> SUFFICES ASSUME FrameInv, [Next]_vars PROVE FrameBalance'
  OBVIOUS
<1>0. TypeOK /\ FrameBalance
  BY DEF FrameInv, FrameOnce, FrameBalance
<1>1. /\ progress.layers \in Nat /\ scheduled.layers \in Nat /\ delivered.layers \in Nat
      /\ refs \in Nat /\ Cleared.layers = 0
      /\ \A f \in Frames : retired[f] \in Nat
  BY <1>0, BoundsAssumption DEF TypeOK, Slot, Cleared
<1>2. CASE ResetProgress
  <2>1. ASSUME NEW f \in Frames
        PROVE  (retired[f] + Holds(progress, f) + Holds(scheduled, f) + Holds(delivered, f))'
                 = IF f \in begun' THEN 1 ELSE 0
    <3>1. Holds(progress, f) = 0 /\ (Holds(progress', f) = IF f = frame THEN 1 ELSE 0)
      BY <1>2, ResetFacts, HoldsFacts
    <3> QED
      BY <1>0, <1>1, <1>2, <3>1, ResetFacts, HoldsFacts DEF FrameBalance
  <2>2. refs' = progress'.layers + scheduled'.layers + delivered'.layers
    BY <1>0, <1>1, <1>2, ResetFacts DEF FrameBalance
  <2> QED
    BY <2>1, <2>2 DEF FrameBalance
<1>3. CASE AddLayer
  <2>1. /\ progress'.id = progress.id /\ progress'.layers = progress.layers + 1 /\ refs' = refs + 1
        /\ UNCHANGED <<scheduled, delivered, retired, begun>>
    BY <1>0, <1>3 DEF AddLayer, TypeOK, Slot, clientVars
  <2>2. \A f \in Frames : Holds(progress', f) = Holds(progress, f)
    BY <2>1 DEF Holds
  <2> QED
    BY <1>0, <1>1, <2>1, <2>2 DEF FrameBalance
<1>4. CASE DiscardFrame
  BY <1>0, <1>1, <1>4, HoldsFacts DEF DiscardFrame, Clear, FrameBalance
<1>5. CASE ClearSlots
  BY <1>0, <1>1, <1>5, HoldsFacts DEF ClearSlots, FrameBalance, clientVars
<1>6. ASSUME NEW t \in {"client", "wait"}, MoveToScheduled(t) PROVE FrameBalance'
  BY <1>0, <1>1, <1>6, HoldsFacts DEF MoveToScheduled, Clear, FrameBalance, clientVars
<1>7. CASE Deliver
  BY <1>0, <1>1, <1>7, HoldsFacts DEF Deliver, Clear, FrameBalance, clientVars
<1>8. CASE DeliverHidden
  <2>1. CASE Due
    BY <1>0, <1>1, <1>8, <2>1, HoldsFacts DEF DeliverHidden, FrameBalance, clientVars
  <2>2. CASE ~Due
    BY <1>0, <1>1, <1>8, <2>2, HoldsFacts DEF DeliverHidden, Clear, FrameBalance, clientVars
  <2> QED
    BY <2>1, <2>2
<1>9. CASE UNCHANGED <<slotVars, begun>>
  BY <1>0, <1>9 DEF FrameBalance, slotVars
<1> QED
  BY <1>2, <1>3, <1>4, <1>5, <1>6, <1>7, <1>8, <1>9, SlotSteps

\* A frame in a slot, or retired, has been begun.
LEMMA InSlotBegun ==
  ASSUME FrameInv
  PROVE  /\ \A f \in Frames : retired[f] \in Nat /\ (retired[f] > 0 => f \in begun)
         /\ \A slot \in {progress, scheduled, delivered} :
              slot.id \in Nat /\ (Active(slot) => slot.id \in begun)
<1>1. TypeOK /\ FrameBalance
  BY DEF FrameInv, FrameOnce, FrameBalance
<1>2. \A slot \in {progress, scheduled, delivered} : slot.id \in Frames \cup {0}
  BY <1>1 DEF TypeOK, Slot
<1>3. ASSUME NEW f \in Frames, f \notin begun
      PROVE  retired[f] = 0 /\ \A slot \in {progress, scheduled, delivered} : slot.id # f
  <2>1. retired[f] \in Nat
    BY <1>1 DEF TypeOK
  <2> QED
    BY <1>1, <1>3, <2>1, HoldsFacts DEF FrameBalance
<1> QED
  BY <1>1, <1>2, <1>3, BoundsAssumption DEF Active, TypeOK, Frames

\* The slots stay in order.
LEMMA FrameOrderStep == FrameInv /\ [Next]_vars => FrameOrder'
<1> SUFFICES ASSUME FrameInv, [Next]_vars PROVE FrameOrder'
  OBVIOUS
<1>0. TypeOK /\ FrameOrder /\ FrameIds
  BY DEF FrameInv
<1>1. /\ \A f \in Frames : f \in Nat /\ f > 0 /\ retired[f] \in Nat
      /\ \A slot \in {progress, scheduled, delivered} : slot.id \in Nat
      /\ Cleared.id = 0
  BY InSlotBegun, BoundsAssumption DEF Frames, Cleared
<1>2. CASE ResetProgress
  <2>1. \A f \in begun : f < frame
    BY <1>0, <1>2, ResetFacts, BoundsAssumption DEF FrameIds, TypeOK, Frames
  <2>2. scheduled.id < frame /\ delivered.id < frame
    BY <1>1, <1>2, <2>1, InSlotBegun, ResetFacts DEF Active, Frames
  <2> QED
    BY <1>0, <1>1, <1>2, <2>1, <2>2, InSlotBegun, ResetFacts DEF FrameOrder, Active
<1>3. CASE AddLayer
  <2>1. progress'.id = progress.id /\ UNCHANGED <<scheduled, delivered, retired>>
    BY <1>0, <1>3 DEF AddLayer, TypeOK, Slot
  <2> QED
    BY <1>0, <2>1 DEF FrameOrder, Active
<1>4. CASE DiscardFrame
  <2>1. \A f \in Frames : retired'[f] > 0 => retired[f] > 0 \/ f = delivered.id
    BY <1>1, <1>4, HoldsFacts DEF DiscardFrame, Clear
  <2> QED
    BY <1>0, <1>1, <1>4, <2>1 DEF DiscardFrame, FrameOrder, Active
<1>5. CASE ClearSlots
  BY <1>0, <1>1, <1>5 DEF ClearSlots, FrameOrder, Active
<1>6. ASSUME NEW t \in {"client", "wait"}, MoveToScheduled(t) PROVE FrameOrder'
  <2>1. \A f \in Frames : retired'[f] > 0 => retired[f] > 0 \/ f = scheduled.id
    BY <1>1, <1>6, HoldsFacts DEF MoveToScheduled, Clear
  <2> QED
    BY <1>0, <1>1, <1>6, <2>1 DEF MoveToScheduled, FrameOrder, Active
<1>7. CASE Deliver
  <2>1. \A f \in Frames : retired'[f] > 0 => retired[f] > 0 \/ f = delivered.id
    BY <1>1, <1>7, HoldsFacts DEF Deliver, Clear
  <2> QED
    BY <1>0, <1>1, <1>7, <2>1 DEF Deliver, Due, FrameOrder, Active
<1>8. CASE DeliverHidden
  <2>1. /\ \A f \in Frames : retired'[f] > 0 =>
             retired[f] > 0 \/ f = delivered.id \/ (f = scheduled.id /\ ~Active(scheduled'))
        /\ scheduled' = scheduled \/ scheduled' = Cleared
    <3>1. CASE Due
      BY <1>1, <1>8, <3>1, HoldsFacts DEF DeliverHidden, Active
    <3>2. CASE ~Due
      BY <1>1, <1>8, <3>2, HoldsFacts DEF DeliverHidden, Clear
    <3> QED
      BY <3>1, <3>2
  <2> QED
    BY <1>0, <1>1, <1>8, <2>1 DEF DeliverHidden, FrameOrder, Active
<1>9. CASE UNCHANGED <<slotVars, begun>>
  BY <1>0, <1>9 DEF FrameOrder, Active, slotVars
<1> QED
  BY <1>2, <1>3, <1>4, <1>5, <1>6, <1>7, <1>8, <1>9, SlotSteps

\* What a thread has found out about the scheduled slot stays true until it moves.
LEMMA MayMoveStep == FrameInv /\ [Next]_vars => MayMove'
<1> SUFFICES ASSUME FrameInv, [Next]_vars PROVE MayMove'
  OBVIOUS
<1>0. TypeOK /\ MayMove /\ HandOff
  BY DEF FrameInv
<1>1. CASE AwaitAlive
  BY <1>0, <1>1, GotoMoves, BoundsAssumption DEF AwaitAlive, clientVars, slotVars, waitVars,
     renderVars, MayMove, Active, HandOff, TypeOK, Slot, Cleared, Clear, Times
<1>2. CASE WaitForWaitThread
  BY <1>0, <1>2, GotoMoves, BoundsAssumption DEF WaitForWaitThread, IsPushedOrWaiting,
     clientVars, slotVars, waitVars, renderVars, MayMove, Active, HandOff, TypeOK, Slot,
     Cleared, Clear, Times
<1>3. CASE BlockedAgain
  BY <1>0, <1>3, GotoMoves, BoundsAssumption DEF BlockedAgain, clientVars, slotVars,
     waitVars, renderVars, MayMove, Active, HandOff, TypeOK, Slot, Cleared, Clear, Times
<1>4. CASE ResetProgress
  BY <1>0, <1>4, GotoMoves, BoundsAssumption DEF ResetProgress, clientVars, slotVars,
     waitVars, renderVars, MayMove, Active, HandOff, TypeOK, Slot, Cleared, Clear, Times
<1>5. CASE PushToWaitThread
  BY <1>0, <1>5, ClientSignals, BoundsAssumption DEF PushToWaitThread, clientVars, slotVars,
     waitVars, renderVars, MayMove, Active, HandOff, TypeOK, Slot, Cleared, Clear, Times
<1>6. CASE ScheduledFree("client") \/ ScheduledFree("wait")
  BY <1>0, <1>6, GotoMoves, BoundsAssumption DEF ScheduledFree, MayReplace, clientVars,
     slotVars, waitVars, renderVars, MayMove, Active, HandOff, TypeOK, Slot, Cleared, Clear,
     Times
<1>7. CASE MoveToScheduled("client")
  BY <1>0, <1>7, GotoMoves, BoundsAssumption DEF MoveToScheduled, clientVars, slotVars,
     waitVars, renderVars, MayMove, Active, HandOff, TypeOK, Slot, Cleared, Clear, Times
<1>8. CASE MoveToScheduled("wait")
  BY <1>0, <1>8, GotoMoves, BoundsAssumption DEF MoveToScheduled, clientVars, slotVars,
     waitVars, renderVars, MayMove, Active, HandOff, TypeOK, Slot, Cleared, Clear, Times
<1>9. CASE StopWaitThread
  BY <1>0, <1>9, ClientSignals, BoundsAssumption DEF StopWaitThread, clientVars, slotVars,
     waitVars, renderVars, MayMove, Active, HandOff, TypeOK, Slot, Cleared, Clear, Times
<1>10. CASE JoinWaitThread
  BY <1>0, <1>10, GotoMoves, BoundsAssumption DEF JoinWaitThread, clientVars, slotVars,
     waitVars, renderVars, MayMove, Active, HandOff, TypeOK, Slot, Cleared, Clear, Times
<1>11. CASE ClearSlots
  BY <1>0, <1>11, GotoMoves, BoundsAssumption DEF ClearSlots, clientVars, slotVars,
     waitVars, renderVars, MayMove, Active, HandOff, TypeOK, Slot, Cleared, Clear, Times
<1>12. CASE \E time \in Times : LayerBegin(time)
  BY <1>0, <1>12, GotoMoves, BoundsAssumption DEF LayerBegin, clientVars, slotVars,
     waitVars, renderVars, MayMove, Active, HandOff, TypeOK, Slot, Cleared, Clear, Times
<1>13. CASE AddLayer
  BY <1>0, <1>13, GotoMoves, BoundsAssumption DEF AddLayer, clientVars, slotVars, waitVars,
     renderVars, MayMove, Active, HandOff, TypeOK, Slot, Cleared, Clear, Times
<1>14. CASE CommitWithoutSync \/ \E s \in Syncs : CommitWithSync(s)
  BY <1>0, <1>14, GotoMoves, BoundsAssumption DEF CommitWithoutSync, CommitWithSync, Syncs,
     clientVars, slotVars, waitVars, renderVars, MayMove, Active, HandOff, TypeOK, Slot,
     Cleared, Clear, Times
<1>15. CASE DiscardFrame
  BY <1>0, <1>15, GotoMoves, BoundsAssumption DEF DiscardFrame, clientVars, slotVars,
     waitVars, renderVars, MayMove, Active, HandOff, TypeOK, Slot, Cleared, Clear, Times
<1>16. CASE Unlist
  BY <1>0, <1>16, GotoMoves, BoundsAssumption DEF Unlist, clientVars, slotVars, waitVars,
     renderVars, MayMove, Active, HandOff, TypeOK, Slot, Cleared, Clear, Times
<1>17. CASE StartLoop
  BY <1>0, <1>17, WaitSignals, BoundsAssumption DEF StartLoop, LoopHead, clientVars,
     slotVars, waitVars, renderVars, MayMove, Active, HandOff, TypeOK, Slot, Cleared, Clear,
     Times
<1>18. CASE TakeSync
  BY <1>0, <1>18, GotoMoves, BoundsAssumption DEF TakeSync, LoopHead, clientVars, slotVars,
     waitVars, renderVars, MayMove, Active, HandOff, TypeOK, Slot, Cleared, Clear, Times
<1>19. CASE SyncDone \/ SyncGivesUp
  BY <1>0, <1>19, GotoMoves, BoundsAssumption DEF SyncDone, SyncGivesUp, clientVars,
     slotVars, waitVars, renderVars, MayMove, Active, HandOff, TypeOK, Slot, Cleared, Clear,
     Times
<1>20. CASE ReleaseClient
  BY <1>0, <1>20, WaitSignals, GotoMoves, BoundsAssumption DEF ReleaseClient, LoopHead,
     clientVars, slotVars, waitVars, renderVars, MayMove, Active, HandOff, TypeOK, Slot,
     Cleared, Clear, Times
<1>21. CASE \E time \in Times : Broadcast(time)
  BY <1>0, <1>21, GotoMoves, BoundsAssumption DEF Broadcast, clientVars, slotVars, waitVars,
     renderVars, MayMove, Active, HandOff, TypeOK, Slot, Cleared, Clear, Times
<1>22. CASE Deliver
  BY <1>0, <1>22, GotoMoves, BoundsAssumption DEF Deliver, Due, clientVars, slotVars,
     waitVars, renderVars, MayMove, Active, HandOff, TypeOK, Slot, Cleared, Clear, Times
<1>23. CASE DeliverNothing
  BY <1>0, <1>23, GotoMoves, BoundsAssumption DEF DeliverNothing, clientVars, slotVars,
     waitVars, renderVars, MayMove, Active, HandOff, TypeOK, Slot, Cleared, Clear, Times
<1>24. CASE DeliverHidden
  BY <1>0, <1>24, GotoMoves, BoundsAssumption DEF DeliverHidden, Due, clientVars, slotVars,
     waitVars, renderVars, MayMove, Active, HandOff, TypeOK, Slot, Cleared, Clear, Times
<1>25. CASE Tick
  BY <1>0, <1>25, GotoMoves, BoundsAssumption DEF Tick, clientVars, slotVars, waitVars,
     renderVars, MayMove, Active, HandOff, TypeOK, Slot, Cleared, Clear, Times
<1>26. CASE \E t \in {"client", "wait"} : SpuriousWakeup(t)
  <2>1. PICK t \in {"client", "wait"} : SpuriousWakeup(t)
    BY <1>26
  <2>2. UNCHANGED <<clientVars, slotVars, waitVars, renderVars, now>>
    BY <2>1 DEF SpuriousWakeup
  <2> QED
    BY <1>0, <2>1, <2>2, SpuriousMoves, BoundsAssumption DEF clientVars, slotVars,
       waitVars, renderVars, MayMove, Active, HandOff, TypeOK, Slot, Cleared, Clear, Times
<1>27. CASE UNCHANGED vars
  BY <1>0, <1>27, GotoMoves, BoundsAssumption DEF vars, clientVars, slotVars, waitVars,
     renderVars, MayMove, Active, HandOff, TypeOK, Slot, Cleared, Clear, Times
<1> QED
  BY <1>1, <1>2, <1>3, <1>4, <1>5, <1>6, <1>7, <1>8, <1>9, <1>10, <1>11, <1>12, <1>13,
     <1>14, <1>15, <1>16, <1>17, <1>18, <1>19, <1>20, <1>21, <1>22, <1>23, <1>24, <1>25,
     <1>26, <1>27
  DEF Next, ClientStep, ClientCall, WaitStep, RenderStep

\* The slots, the clocks and the flags keep their types, given the balance.
LEMMA SlotTypes ==
  ASSUME FrameInv, [Next]_vars
  PROVE  /\ progress' \in Slot /\ scheduled' \in Slot /\ delivered' \in Slot
         /\ refs' \in Nat
         /\ retired' \in [Frames -> Nat]
<1>0. TypeOK
  BY DEF FrameInv
<1>1. Cleared \in Slot
  BY BoundsAssumption DEF Cleared, Slot
<1>2. progress' \in Slot /\ scheduled' \in Slot /\ delivered' \in Slot
  <2>1. CASE ResetProgress
    BY <1>0, <2>1, BoundsAssumption DEF ResetProgress, TypeOK, Slot
  <2>2. CASE AddLayer
    BY <1>0, <2>2, BoundsAssumption DEF AddLayer, TypeOK, Slot
  <2>3. CASE DiscardFrame \/ ClearSlots \/ Deliver \/ (\E t \in {"client", "wait"} : MoveToScheduled(t))
    BY <1>0, <1>1, <2>3 DEF DiscardFrame, ClearSlots, Deliver, MoveToScheduled, TypeOK
  <2>4. CASE DeliverHidden
    BY <1>0, <1>1, <2>4 DEF DeliverHidden, TypeOK
  <2>5. CASE UNCHANGED <<slotVars, begun>>
    BY <1>0, <2>5 DEF slotVars, TypeOK
  <2> QED
    BY <2>1, <2>2, <2>3, <2>4, <2>5, SlotSteps
<1>3. refs' \in Nat
  BY <1>2, FrameBalanceStep, BoundsAssumption DEF FrameBalance, Slot
<1>4. retired' \in [Frames -> Nat]
  <2>1. \A f \in Frames : retired[f] \in Nat
    BY <1>0 DEF TypeOK
  <2>2. CASE ResetProgress \/ AddLayer \/ UNCHANGED <<slotVars, begun>>
    BY <1>0, <2>2 DEF ResetProgress, AddLayer, slotVars, TypeOK
  <2>3. CASE DiscardFrame \/ Deliver \/ (\E t \in {"client", "wait"} : MoveToScheduled(t))
    BY <2>1, <2>3, HoldsFacts DEF DiscardFrame, Deliver, MoveToScheduled, Clear
  <2>4. CASE ClearSlots
    BY <2>1, <2>4, HoldsFacts DEF ClearSlots
  <2>5. CASE DeliverHidden
    BY <2>1, <2>5, HoldsFacts DEF DeliverHidden, Clear
  <2> QED
    BY <2>2, <2>3, <2>4, <2>5, SlotSteps
<1> QED
  BY <1>2, <1>3, <1>4

\* The two threads stay where they can be.
LEMMA PcTypes == FrameInv /\ [Next]_vars => pc' \in [{"client", "wait"} -> ClientPCs \cup WaitPCs] /\ pc'["client"] \in ClientPCs /\ pc'["wait"] \in WaitPCs
<1> SUFFICES ASSUME FrameInv, [Next]_vars PROVE pc' \in [{"client", "wait"} -> ClientPCs \cup WaitPCs] /\ pc'["client"] \in ClientPCs /\ pc'["wait"] \in WaitPCs
  OBVIOUS
<1>0. TypeOK
  BY DEF FrameInv
<1>1. CASE AwaitAlive
  BY <1>0, <1>1, GotoMoves DEF AwaitAlive, clientVars, slotVars, waitVars, renderVars,
     TypeOK, ClientPCs, WaitPCs, Goto
<1>2. CASE WaitForWaitThread
  BY <1>0, <1>2, GotoMoves DEF WaitForWaitThread, IsPushedOrWaiting, clientVars, slotVars,
     waitVars, renderVars, TypeOK, ClientPCs, WaitPCs, Goto
<1>3. CASE BlockedAgain
  BY <1>0, <1>3, GotoMoves DEF BlockedAgain, clientVars, slotVars, waitVars, renderVars,
     TypeOK, ClientPCs, WaitPCs, Goto
<1>4. CASE ResetProgress
  BY <1>0, <1>4, GotoMoves DEF ResetProgress, clientVars, slotVars, waitVars, renderVars,
     TypeOK, ClientPCs, WaitPCs, Goto
<1>5. CASE PushToWaitThread
  BY <1>0, <1>5, ClientSignals DEF PushToWaitThread, clientVars, slotVars, waitVars,
     renderVars, TypeOK, ClientPCs, WaitPCs, Goto
<1>6. CASE ScheduledFree("client") \/ ScheduledFree("wait")
  BY <1>0, <1>6, GotoMoves DEF ScheduledFree, MayReplace, clientVars, slotVars, waitVars,
     renderVars, TypeOK, ClientPCs, WaitPCs, Goto
<1>7. CASE MoveToScheduled("client")
  BY <1>0, <1>7, GotoMoves DEF MoveToScheduled, clientVars, slotVars, waitVars, renderVars,
     TypeOK, ClientPCs, WaitPCs, Goto
<1>8. CASE MoveToScheduled("wait")
  BY <1>0, <1>8, GotoMoves DEF MoveToScheduled, clientVars, slotVars, waitVars, renderVars,
     TypeOK, ClientPCs, WaitPCs, Goto
<1>9. CASE StopWaitThread
  BY <1>0, <1>9, ClientSignals DEF StopWaitThread, clientVars, slotVars, waitVars,
     renderVars, TypeOK, ClientPCs, WaitPCs, Goto
<1>10. CASE JoinWaitThread
  BY <1>0, <1>10, GotoMoves DEF JoinWaitThread, clientVars, slotVars, waitVars, renderVars,
     TypeOK, ClientPCs, WaitPCs, Goto
<1>11. CASE ClearSlots
  BY <1>0, <1>11, GotoMoves DEF ClearSlots, clientVars, slotVars, waitVars, renderVars,
     TypeOK, ClientPCs, WaitPCs, Goto
<1>12. CASE \E time \in Times : LayerBegin(time)
  BY <1>0, <1>12, GotoMoves DEF LayerBegin, clientVars, slotVars, waitVars, renderVars,
     TypeOK, ClientPCs, WaitPCs, Goto
<1>13. CASE AddLayer
  BY <1>0, <1>13, GotoMoves DEF AddLayer, clientVars, slotVars, waitVars, renderVars,
     TypeOK, ClientPCs, WaitPCs, Goto
<1>14. CASE CommitWithoutSync \/ \E s \in Syncs : CommitWithSync(s)
  BY <1>0, <1>14, GotoMoves DEF CommitWithoutSync, CommitWithSync, Syncs, clientVars,
     slotVars, waitVars, renderVars, TypeOK, ClientPCs, WaitPCs, Goto
<1>15. CASE DiscardFrame
  BY <1>0, <1>15, GotoMoves DEF DiscardFrame, clientVars, slotVars, waitVars, renderVars,
     TypeOK, ClientPCs, WaitPCs, Goto
<1>16. CASE Unlist
  BY <1>0, <1>16, GotoMoves DEF Unlist, clientVars, slotVars, waitVars, renderVars, TypeOK,
     ClientPCs, WaitPCs, Goto
<1>17. CASE StartLoop
  BY <1>0, <1>17, WaitSignals DEF StartLoop, LoopHead, clientVars, slotVars, waitVars,
     renderVars, TypeOK, ClientPCs, WaitPCs, Goto
<1>18. CASE TakeSync
  BY <1>0, <1>18, GotoMoves DEF TakeSync, LoopHead, clientVars, slotVars, waitVars,
     renderVars, TypeOK, ClientPCs, WaitPCs, Goto
<1>19. CASE SyncDone \/ SyncGivesUp
  BY <1>0, <1>19, GotoMoves DEF SyncDone, SyncGivesUp, clientVars, slotVars, waitVars,
     renderVars, TypeOK, ClientPCs, WaitPCs, Goto
<1>20. CASE ReleaseClient
  BY <1>0, <1>20, WaitSignals, GotoMoves DEF ReleaseClient, LoopHead, clientVars, slotVars,
     waitVars, renderVars, TypeOK, ClientPCs, WaitPCs, Goto
<1>21. CASE \E time \in Times : Broadcast(time)
  BY <1>0, <1>21, GotoMoves DEF Broadcast, clientVars, slotVars, waitVars, renderVars,
     TypeOK, ClientPCs, WaitPCs, Goto
<1>22. CASE Deliver
  BY <1>0, <1>22, GotoMoves DEF Deliver, Due, clientVars, slotVars, waitVars, renderVars,
     TypeOK, ClientPCs, WaitPCs, Goto
<1>23. CASE DeliverNothing
  BY <1>0, <1>23, GotoMoves DEF DeliverNothing, clientVars, slotVars, waitVars, renderVars,
     TypeOK, ClientPCs, WaitPCs, Goto
<1>24. CASE DeliverHidden
  BY <1>0, <1>24, GotoMoves DEF DeliverHidden, Due, clientVars, slotVars, waitVars,
     renderVars, TypeOK, ClientPCs, WaitPCs, Goto
<1>25. CASE Tick
  BY <1>0, <1>25, GotoMoves DEF Tick, clientVars, slotVars, waitVars, renderVars, TypeOK,
     ClientPCs, WaitPCs, Goto
<1>26. CASE \E t \in {"client", "wait"} : SpuriousWakeup(t)
  <2>1. PICK t \in {"client", "wait"} : SpuriousWakeup(t)
    BY <1>26
  <2>2. UNCHANGED <<clientVars, slotVars, waitVars, renderVars, now>>
    BY <2>1 DEF SpuriousWakeup
  <2> QED
    BY <1>0, <2>1, <2>2, SpuriousMoves DEF clientVars, slotVars, waitVars, renderVars,
       TypeOK, ClientPCs, WaitPCs, Goto
<1>27. CASE UNCHANGED vars
  BY <1>0, <1>27, GotoMoves DEF vars, clientVars, slotVars, waitVars, renderVars, TypeOK,
     ClientPCs, WaitPCs, Goto
<1> QED
  BY <1>1, <1>2, <1>3, <1>4, <1>5, <1>6, <1>7, <1>8, <1>9, <1>10, <1>11, <1>12, <1>13,
     <1>14, <1>15, <1>16, <1>17, <1>18, <1>19, <1>20, <1>21, <1>22, <1>23, <1>24, <1>25,
     <1>26, <1>27
  DEF Next, ClientStep, ClientCall, WaitStep, RenderStep

\* The steps that begin a frame or count one.
LEMMA FrameTypes ==
  ASSUME FrameInv, [Next]_vars
  PROVE  /\ frame' \in 0 .. MaxFrames
         /\ data' \in [id : Frames \cup {0}, time : Times \cup {0}]
         /\ begun' \in SUBSET Frames
<1>0. TypeOK
  BY DEF FrameInv
<1>1. CASE ResetProgress
  <2>1. UNCHANGED <<frame, data>>
    BY <1>1 DEF ResetProgress
  <2> QED
    BY <1>0, <1>1, <2>1, ResetFacts DEF TypeOK
<1>2. CASE \E time \in Times : LayerBegin(time)
  BY <1>0, <1>2, BoundsAssumption DEF LayerBegin, TypeOK, Frames
<1>3. CASE DiscardFrame
  BY <1>0, <1>3, BoundsAssumption DEF DiscardFrame, TypeOK
<1>4. CASE UNCHANGED <<frame, data, begun>>
  BY <1>0, <1>4 DEF TypeOK
<1>5. CASE ClientStep
  BY <1>1, <1>4, <1>5 DEF ClientStep, AwaitAlive, WaitForWaitThread, BlockedAgain,
     PushToWaitThread, ScheduledFree, MoveToScheduled, StopWaitThread, JoinWaitThread,
     ClearSlots, clientVars
<1>6. CASE ClientCall
  BY <1>2, <1>3, <1>4, <1>6 DEF ClientCall, AddLayer, CommitWithSync, CommitWithoutSync,
     Unlist, clientVars
<1>7. CASE WaitStep \/ SyncDone
  BY <1>4, <1>7 DEF WaitStep, SyncDone, StartLoop, TakeSync, SyncGivesUp, ScheduledFree,
     MoveToScheduled, ReleaseClient, clientVars
<1>8. CASE RenderStep \/ Tick \/ \E t \in {"client", "wait"} : SpuriousWakeup(t)
  BY <1>4, <1>8 DEF RenderStep, Broadcast, Deliver, DeliverNothing, DeliverHidden, Tick,
     SpuriousWakeup, clientVars
<1> QED
  BY <1>4, <1>5, <1>6, <1>7, <1>8 DEF Next, vars, clientVars

\* The flags of the wait thread and the state of the render thread.
WaitTypes ==
  /\ kind \in Syncs \cup {"none"}
  /\ pushed \in Syncs \cup {"none"}
  /\ taken \in Syncs \cup {"none"}
  /\ alive \in BOOLEAN
  /\ running \in BOOLEAN
  /\ waiting \in BOOLEAN
  /\ blocked \in BOOLEAN
  /\ listed \in BOOLEAN
  /\ rpc \in {"predict", "transfer"}
  /\ next \in Times \cup {0}
  /\ now \in 0 .. MaxTime + 1

\* They keep their types.
LEMMA WaitTypesStep == FrameInv /\ [Next]_vars => WaitTypes'
<1> SUFFICES ASSUME FrameInv, [Next]_vars PROVE WaitTypes'
  OBVIOUS
<1>0. TypeOK
  BY DEF FrameInv
<1>1. CASE AwaitAlive
  BY <1>0, <1>1, GotoMoves, BoundsAssumption DEF AwaitAlive, clientVars, slotVars, waitVars,
     renderVars, WaitTypes, TypeOK
<1>2. CASE WaitForWaitThread
  BY <1>0, <1>2, GotoMoves, BoundsAssumption DEF WaitForWaitThread, IsPushedOrWaiting,
     clientVars, slotVars, waitVars, renderVars, WaitTypes, TypeOK
<1>3. CASE BlockedAgain
  BY <1>0, <1>3, GotoMoves, BoundsAssumption DEF BlockedAgain, clientVars, slotVars,
     waitVars, renderVars, WaitTypes, TypeOK
<1>4. CASE ResetProgress
  BY <1>0, <1>4, GotoMoves, BoundsAssumption DEF ResetProgress, clientVars, slotVars,
     waitVars, renderVars, WaitTypes, TypeOK
<1>5. CASE PushToWaitThread
  BY <1>0, <1>5, ClientSignals, BoundsAssumption DEF PushToWaitThread, clientVars, slotVars,
     waitVars, renderVars, WaitTypes, TypeOK
<1>6. CASE ScheduledFree("client") \/ ScheduledFree("wait")
  BY <1>0, <1>6, GotoMoves, BoundsAssumption DEF ScheduledFree, MayReplace, clientVars,
     slotVars, waitVars, renderVars, WaitTypes, TypeOK
<1>7. CASE MoveToScheduled("client")
  BY <1>0, <1>7, GotoMoves, BoundsAssumption DEF MoveToScheduled, clientVars, slotVars,
     waitVars, renderVars, WaitTypes, TypeOK
<1>8. CASE MoveToScheduled("wait")
  BY <1>0, <1>8, GotoMoves, BoundsAssumption DEF MoveToScheduled, clientVars, slotVars,
     waitVars, renderVars, WaitTypes, TypeOK
<1>9. CASE StopWaitThread
  BY <1>0, <1>9, ClientSignals, BoundsAssumption DEF StopWaitThread, clientVars, slotVars,
     waitVars, renderVars, WaitTypes, TypeOK
<1>10. CASE JoinWaitThread
  BY <1>0, <1>10, GotoMoves, BoundsAssumption DEF JoinWaitThread, clientVars, slotVars,
     waitVars, renderVars, WaitTypes, TypeOK
<1>11. CASE ClearSlots
  BY <1>0, <1>11, GotoMoves, BoundsAssumption DEF ClearSlots, clientVars, slotVars,
     waitVars, renderVars, WaitTypes, TypeOK
<1>12. CASE \E time \in Times : LayerBegin(time)
  BY <1>0, <1>12, GotoMoves, BoundsAssumption DEF LayerBegin, clientVars, slotVars,
     waitVars, renderVars, WaitTypes, TypeOK
<1>13. CASE AddLayer
  BY <1>0, <1>13, GotoMoves, BoundsAssumption DEF AddLayer, clientVars, slotVars, waitVars,
     renderVars, WaitTypes, TypeOK
<1>14. CASE CommitWithoutSync \/ \E s \in Syncs : CommitWithSync(s)
  BY <1>0, <1>14, GotoMoves, BoundsAssumption DEF CommitWithoutSync, CommitWithSync, Syncs,
     clientVars, slotVars, waitVars, renderVars, WaitTypes, TypeOK
<1>15. CASE DiscardFrame
  BY <1>0, <1>15, GotoMoves, BoundsAssumption DEF DiscardFrame, clientVars, slotVars,
     waitVars, renderVars, WaitTypes, TypeOK
<1>16. CASE Unlist
  BY <1>0, <1>16, GotoMoves, BoundsAssumption DEF Unlist, clientVars, slotVars, waitVars,
     renderVars, WaitTypes, TypeOK
<1>17. CASE StartLoop
  BY <1>0, <1>17, WaitSignals, BoundsAssumption DEF StartLoop, LoopHead, clientVars,
     slotVars, waitVars, renderVars, WaitTypes, TypeOK
<1>18. CASE TakeSync
  BY <1>0, <1>18, GotoMoves, BoundsAssumption DEF TakeSync, LoopHead, clientVars, slotVars,
     waitVars, renderVars, WaitTypes, TypeOK
<1>19. CASE SyncDone \/ SyncGivesUp
  BY <1>0, <1>19, GotoMoves, BoundsAssumption DEF SyncDone, SyncGivesUp, clientVars,
     slotVars, waitVars, renderVars, WaitTypes, TypeOK
<1>20. CASE ReleaseClient
  BY <1>0, <1>20, WaitSignals, GotoMoves, BoundsAssumption DEF ReleaseClient, LoopHead,
     clientVars, slotVars, waitVars, renderVars, WaitTypes, TypeOK
<1>21. CASE \E time \in Times : Broadcast(time)
  BY <1>0, <1>21, GotoMoves, BoundsAssumption DEF Broadcast, clientVars, slotVars, waitVars,
     renderVars, WaitTypes, TypeOK
<1>22. CASE Deliver
  BY <1>0, <1>22, GotoMoves, BoundsAssumption DEF Deliver, Due, clientVars, slotVars,
     waitVars, renderVars, WaitTypes, TypeOK
<1>23. CASE DeliverNothing
  BY <1>0, <1>23, GotoMoves, BoundsAssumption DEF DeliverNothing, clientVars, slotVars,
     waitVars, renderVars, WaitTypes, TypeOK
<1>24. CASE DeliverHidden
  BY <1>0, <1>24, GotoMoves, BoundsAssumption DEF DeliverHidden, Due, clientVars, slotVars,
     waitVars, renderVars, WaitTypes, TypeOK
<1>25. CASE Tick
  BY <1>0, <1>25, GotoMoves, BoundsAssumption DEF Tick, clientVars, slotVars, waitVars,
     renderVars, WaitTypes, TypeOK
<1>26. CASE \E t \in {"client", "wait"} : SpuriousWakeup(t)
  <2>1. PICK t \in {"client", "wait"} : SpuriousWakeup(t)
    BY <1>26
  <2>2. UNCHANGED <<clientVars, slotVars, waitVars, renderVars, now>>
    BY <2>1 DEF SpuriousWakeup
  <2> QED
    BY <1>0, <2>1, <2>2, SpuriousMoves, BoundsAssumption DEF clientVars, slotVars,
       waitVars, renderVars, WaitTypes, TypeOK
<1>27. CASE UNCHANGED vars
  BY <1>0, <1>27, GotoMoves, BoundsAssumption DEF vars, clientVars, slotVars, waitVars,
     renderVars, WaitTypes, TypeOK
<1> QED
  BY <1>1, <1>2, <1>3, <1>4, <1>5, <1>6, <1>7, <1>8, <1>9, <1>10, <1>11, <1>12, <1>13,
     <1>14, <1>15, <1>16, <1>17, <1>18, <1>19, <1>20, <1>21, <1>22, <1>23, <1>24, <1>25,
     <1>26, <1>27
  DEF Next, ClientStep, ClientCall, WaitStep, RenderStep

\* All of them keep their types.
LEMMA TypeStep == FrameInv /\ [Next]_vars => TypeOK'
BY SlotTypes, PcTypes, FrameTypes, WaitTypesStep DEF TypeOK, WaitTypes

(***************************************************************************)
(* The invariant.                                                          *)
(***************************************************************************)

LEMMA FrameInvInit == Init => FrameInv
<1> SUFFICES ASSUME Init PROVE FrameInv
  OBVIOUS
<1> USE BoundsAssumption
<1>0. pc["client"] = "starting" /\ pc["wait"] = "start"
  BY DEF Init
<1>1. TypeOK
  <2>1. pc \in [{"client", "wait"} -> ClientPCs \cup WaitPCs]
    BY DEF Init, ClientPCs, WaitPCs
  <2>2. pc["client"] \in ClientPCs /\ pc["wait"] \in WaitPCs
    BY <1>0 DEF ClientPCs, WaitPCs
  <2>3. Cleared \in Slot
    BY DEF Cleared, Slot
  <2>4. progress \in Slot /\ scheduled \in Slot /\ delivered \in Slot
    BY <2>3 DEF Init
  <2>5. retired \in [Frames -> Nat] /\ data \in [id : Frames \cup {0}, time : Times \cup {0}]
    BY DEF Init
  <2>6. /\ frame \in 0 .. MaxFrames /\ refs \in Nat /\ begun \in SUBSET Frames
        /\ next \in Times \cup {0} /\ now \in 0 .. MaxTime + 1
    BY DEF Init
  <2>7. /\ kind \in Syncs \cup {"none"}
        /\ pushed \in Syncs \cup {"none"}
        /\ taken \in Syncs \cup {"none"}
        /\ alive \in BOOLEAN /\ running \in BOOLEAN /\ waiting \in BOOLEAN
        /\ blocked \in BOOLEAN /\ listed \in BOOLEAN
        /\ rpc \in {"predict", "transfer"}
    BY DEF Init
  <2> QED
    BY <2>1, <2>2, <2>4, <2>5, <2>6, <2>7 DEF TypeOK
<1>2. HandOff /\ StartStop /\ FrameIds /\ MayMove
  BY <1>0 DEF Init, HandOff, StartStop, FrameIds, MayMove
<1>3. FrameOnce
  <2>1. Cleared.layers = 0 /\ \A f \in Frames : retired[f] = 0
    BY DEF Init, Cleared
  <2> QED
    BY <1>0, <2>1, HoldsFacts DEF Init, FrameOnce
<1>4. FrameOrder
  BY DEF Init, FrameOrder, Active, Cleared
<1> QED
  BY <1>1, <1>2, <1>3, <1>4 DEF FrameInv

LEMMA FrameInvStep == FrameInv /\ [Next]_vars => FrameInv'
<1> SUFFICES ASSUME FrameInv, [Next]_vars PROVE FrameInv'
  OBVIOUS
<1>1. /\ TypeOK' /\ HandOff' /\ StartStop' /\ FrameIds' /\ FrameBalance' /\ FrameOrder' /\ MayMove'
  BY TypeStep, HandOffStep, StartStopStep, FrameIdsStep, FrameBalanceStep, FrameOrderStep,
     MayMoveStep
<1>2. pc'["client"] = "freed" => refs' = 0 /\ \A f \in begun' : retired'[f] = 1
  <2> SUFFICES ASSUME pc'["client"] = "freed"
               PROVE  refs' = 0 /\ \A f \in begun' : retired'[f] = 1
    OBVIOUS
  <2>1. progress' = Cleared /\ scheduled' = Cleared /\ delivered' = Cleared
    BY <1>1 DEF StartStop
  <2>2. refs' = 0
    BY <1>1, <2>1 DEF FrameBalance, Cleared
  <2>3. ASSUME NEW f \in begun' PROVE retired'[f] = 1
    <3>1. f \in Frames /\ retired'[f] \in Nat
      BY <1>1, <2>3 DEF TypeOK
    <3> QED
      BY <1>1, <2>1, <2>3, <3>1, HoldsFacts DEF FrameBalance
  <2> QED
    BY <2>2, <2>3
<1>3. FrameOnce'
  BY <1>1, <1>2 DEF FrameOnce, FrameBalance
<1> QED
  BY <1>1, <1>3 DEF FrameInv

\* FrameInv is an invariant of the frame slots, whatever the application, the GPU
\* and the render thread do.
THEOREM FrameInvariant == Spec => []FrameInv
BY FrameInvInit, FrameInvStep, PTL DEF Spec

\* Every variable of the frame slots keeps its type.
THEOREM TypeCorrect == Spec => []TypeOK
<1>1. FrameInv => TypeOK
  BY DEF FrameInv
<1> QED
  BY <1>1, FrameInvariant, PTL

\* Client and wait thread never have the unlocked slot progress together, and the
\* assertions of layer_begin and of the push functions hold.
THEOREM ProgressIsExclusive == Spec => []ProgressExclusive
<1>1. FrameInv => ProgressExclusive
  BY DEF FrameInv, HandOff, ProgressExclusive
<1> QED
  BY <1>1, FrameInvariant, PTL

\* Every frame is retired exactly once and no swapchain reference leaks.
THEOREM FramesAreRetiredOnce == Spec => []FrameOnce
<1>1. FrameInv => FrameOnce
  BY DEF FrameInv
<1> QED
  BY <1>1, FrameInvariant, PTL

\* The wait thread ends without leaving a fence or a semaphore.
THEOREM NoSyncIsLeft == Spec => []NoSyncLeft
<1>1. FrameInv => NoSyncLeft
  BY DEF FrameInv, HandOff, StartStop, NoSyncLeft
<1> QED
  BY <1>1, FrameInvariant, PTL

\* A scheduled frame is replaced only if it is late or the newer one is due.
THEOREM NoFrameDroppedEarly == Spec => NoEarlyDrop
<1>1. FrameInv /\ [Next]_vars =>
        [Active(scheduled) /\ Active(scheduled') /\ scheduled.id # scheduled'.id
           => scheduled.time < now \/ scheduled'.time <= next]_vars
  <2> SUFFICES ASSUME FrameInv, [Next]_vars, Active(scheduled), Active(scheduled'),
                      scheduled.id # scheduled'.id
               PROVE  scheduled.time < now \/ scheduled'.time <= next
    OBVIOUS
  <2>0. ~Active(Cleared)
    BY DEF Active, Cleared
  <2>1. PICK t \in {"client", "wait"} : MoveToScheduled(t)
    BY <2>0, SlotSteps DEF ResetProgress, AddLayer, DiscardFrame, ClearSlots, Deliver,
       DeliverHidden, slotVars
  <2> QED
    BY <2>1 DEF MoveToScheduled, Goto, FrameInv, MayMove
<1> QED
  BY <1>1, FrameInvariant, PTL DEF Spec, NoEarlyDrop

(***************************************************************************)
(* The slots implement the abstract stream of frames.                      *)
(***************************************************************************)

\* What the stage of a frame says about the slots.
StageIs ==
  /\ Stage = [f \in Frames |-> Stage[f]]
  /\ \A f \in Frames :
       /\ Stage[f] \in {"new", "held", "shown", "retired"}
       /\ Stage[f] = "shown" <=> f = delivered.id
       /\ Stage[f] = "held" <=> f = progress.id \/ f = scheduled.id
       /\ Stage[f] = "retired" <=> retired[f] > 0
       /\ Stage[f] = "new" <=> f \notin begun

\* As a frame is in one slot at most, and not retired while it is in one.
LEMMA StageFacts == FrameInv => StageIs
<1> SUFFICES ASSUME FrameInv PROVE StageIs
  OBVIOUS
<1>1. FrameBalance /\ TypeOK
  BY DEF FrameInv, FrameOnce, FrameBalance
<1>2. Stage = [f \in Frames |-> Stage[f]]
  BY DEF Stage
<1>3. ASSUME NEW f \in Frames
      PROVE  /\ Stage[f] \in {"new", "held", "shown", "retired"}
             /\ Stage[f] = "shown" <=> f = delivered.id
             /\ Stage[f] = "held" <=> f = progress.id \/ f = scheduled.id
             /\ Stage[f] = "retired" <=> retired[f] > 0
             /\ Stage[f] = "new" <=> f \notin begun
  <2>1. retired[f] \in Nat
    BY <1>1 DEF TypeOK
  <2>2. \/ f \notin begun /\ retired[f] = 0 /\ delivered.id # f /\ progress.id # f /\ scheduled.id # f
        \/ f \in begun /\ retired[f] = 1 /\ delivered.id # f /\ progress.id # f /\ scheduled.id # f
        \/ f \in begun /\ retired[f] = 0 /\ delivered.id = f /\ progress.id # f /\ scheduled.id # f
        \/ f \in begun /\ retired[f] = 0 /\ delivered.id # f /\ (progress.id = f \/ scheduled.id = f)
    BY <1>1, <2>1, HoldsFacts DEF FrameBalance
  <2>3. Stage[f] = CASE delivered.id = f -> "shown"
                     [] f \in {progress.id, scheduled.id} /\ delivered.id # f -> "held"
                     [] f \notin {progress.id, scheduled.id, delivered.id} ->
                          IF retired[f] > 0 THEN "retired" ELSE "new"
    BY DEF Stage
  <2> QED
    BY <2>2, <2>3
<1> QED
  BY <1>2, <1>3 DEF StageIs

\* No frame has been begun at first.
LEMMA StreamInit == Init => Stream!Init
<1> SUFFICES ASSUME Init PROVE Stream!Init
  OBVIOUS
<1>1. StageIs /\ begun = {}
  BY FrameInvInit, StageFacts DEF Init
<1> QED
  BY <1>1 DEF Stream!Init, StageIs

\* Every step of a thread is one of the stream's, or changes nothing there.
LEMMA StreamStep == FrameInv /\ [Next]_vars => [Stream!Next]_Stage
<1> SUFFICES ASSUME FrameInv, [Next]_vars PROVE [Stream!Next]_Stage
  OBVIOUS
<1>0. FrameInv'
  BY FrameInvStep
<1>1. StageIs /\ StageIs'
  <2>1. StageIs'
    BY <1>0, StageFacts, PTL
  <2> QED
    BY <2>1, StageFacts
<1>2. /\ \A f \in Frames : f \in Nat /\ f > 0 /\ retired[f] \in Nat
      /\ \A slot \in {progress, scheduled, delivered} : slot.id \in Frames \cup {0}
      /\ FrameOrder /\ FrameIds /\ Cleared.id = 0 /\ frame \in Nat
  BY BoundsAssumption DEF FrameInv, TypeOK, Slot, Frames, Cleared
<1>3. CASE ResetProgress
  <2>1. \A g \in Frames : g >= frame => Stage[g] = "new"
    BY <1>1, <1>2, <1>3, ResetFacts DEF FrameIds, StageIs
  <2>2. \A g \in Frames : Stage'[g] = IF g = frame THEN "held" ELSE Stage[g]
    BY <1>1, <1>2, <1>3, ResetFacts DEF StageIs
  <2>3. Stage' = [Stage EXCEPT ![frame] = "held"]
    BY <1>1, <2>2 DEF StageIs
  <2>4. frame \in Frames
    BY <1>3, ResetFacts
  <2> QED
    BY <2>1, <2>3, <2>4 DEF Stream!Begin, Stream!Next
<1>4. CASE Deliver
  <2> DEFINE f == scheduled.id
  <2>1. f \in Frames /\ f # 0
    BY <1>2, <1>4 DEF Deliver, Due, Active
  <2>2. \A g \in Frames : retired'[g] = retired[g] + Holds(delivered, g)
    BY <1>4 DEF Deliver, Clear
  <2>3. /\ delivered' = scheduled /\ scheduled' = Cleared
        /\ UNCHANGED <<progress, begun>>
    BY <1>4 DEF Deliver, clientVars
  <2>4. \A g \in Frames : Stage'[g] = IF g = f THEN "shown"
                                      ELSE IF Stage[g] = "shown" THEN "retired" ELSE Stage[g]
    BY <1>1, <1>2, <2>1, <2>2, <2>3, HoldsFacts DEF StageIs
  <2>5. \A g \in Frames : Stage[g] = "held" => g >= f
    BY <1>1, <1>2, <2>1 DEF StageIs, FrameOrder, Active
  <2>6. \A g \in Frames : Stage[g] = "shown" => g < f
    BY <1>1, <1>2, <2>1 DEF StageIs, FrameOrder, Active
  <2>7. Stage[f] = "held"
    BY <1>1, <2>1 DEF StageIs
  <2>8. Stage' = [g \in Frames |-> IF g = f THEN "shown"
                                   ELSE IF Stage[g] = "shown" THEN "retired" ELSE Stage[g]]
    BY <1>1, <2>4 DEF StageIs
  <2>9. Stream!Show(f)
    BY <2>5, <2>6, <2>7, <2>8 DEF Stream!Show
  <2> QED
    BY <2>1, <2>9 DEF Stream!Next
<1>5. CASE AddLayer \/ UNCHANGED <<slotVars, begun>>
  <2>1. /\ progress'.id = progress.id
        /\ UNCHANGED <<scheduled, delivered, retired, begun>>
    BY <1>5 DEF AddLayer, slotVars, clientVars, FrameInv, TypeOK, Slot
  <2>2. \A g \in Frames : Stage'[g] = Stage[g]
    BY <1>1, <2>1 DEF StageIs
  <2> QED
    BY <1>1, <2>2 DEF StageIs
<1>6. ASSUME NEW S \in SUBSET Frames,
             \A f \in S : f = progress.id \/ f = scheduled.id \/ f = delivered.id,
             progress.id \in S => scheduled.id \in S \cup {0},
             \A f \in Frames : retired'[f] > 0 <=> retired[f] > 0 \/ f \in S,
             \A f \in Frames \ S : (f = delivered'.id <=> f = delivered.id),
             begun' = begun
      PROVE  [Stream!Next]_Stage
  <2>1. \A f \in S : Stage[f] \in {"held", "shown"}
    BY <1>1, <1>6 DEF StageIs
  <2>2. \A f \in Frames : Stage'[f] = IF f \in S THEN "retired" ELSE Stage[f]
    BY <1>1, <1>6, <2>1 DEF StageIs
  <2>3. Stage' = [f \in Frames |-> IF f \in S THEN "retired" ELSE Stage[f]]
    BY <1>1, <2>2 DEF StageIs
  <2>4. \A f \in S, g \in Frames : Stage[f] = "held" /\ Stage[g] = "held" /\ g < f => g \in S
    BY <1>1, <1>2, <1>6 DEF StageIs, FrameOrder, Active
  <2> QED
    BY <2>1, <2>3, <2>4 DEF Stream!Retire, Stream!Next
<1>7. CASE DiscardFrame
  <2> DEFINE S == {f \in Frames : f = delivered.id}
  <2>1. \A f \in Frames : retired'[f] > 0 <=> retired[f] > 0 \/ f \in S
    BY <1>2, <1>7, HoldsFacts DEF DiscardFrame, Clear
  <2>2. S \in SUBSET Frames /\ (progress.id \in S => scheduled.id \in S \cup {0})
    BY <1>1, <1>2 DEF StageIs
  <2>3. /\ \A f \in Frames \ S : (f = delivered'.id <=> f = delivered.id)
        /\ begun' = begun
    BY <1>2, <1>7 DEF DiscardFrame
  <2> HIDE DEF S
  <2> QED
    BY <1>6, <2>1, <2>2, <2>3 DEF S
<1>8. CASE ClearSlots
  <2> DEFINE S == {f \in Frames : f = delivered.id \/ f = scheduled.id \/ f = progress.id}
  <2>1. \A f \in Frames : retired'[f] > 0 <=> retired[f] > 0 \/ f \in S
    BY <1>2, <1>8, HoldsFacts DEF ClearSlots
  <2>2. S \in SUBSET Frames /\ (progress.id \in S => scheduled.id \in S \cup {0})
    BY <1>1, <1>2 DEF StageIs
  <2>3. /\ \A f \in Frames \ S : (f = delivered'.id <=> f = delivered.id)
        /\ begun' = begun
    BY <1>2, <1>8 DEF ClearSlots, clientVars
  <2> QED
    BY <1>6, <2>1, <2>2, <2>3
<1>9. ASSUME NEW t \in {"client", "wait"}, MoveToScheduled(t) PROVE [Stream!Next]_Stage
  <2> DEFINE S == {f \in Frames : f = scheduled.id}
  <2>1. \A f \in Frames : retired'[f] > 0 <=> retired[f] > 0 \/ f \in S
    BY <1>2, <1>9, HoldsFacts DEF MoveToScheduled, Clear
  <2>2. S \in SUBSET Frames /\ (progress.id \in S => scheduled.id \in S \cup {0})
    BY <1>1, <1>2 DEF StageIs
  <2>3. /\ \A f \in Frames \ S : (f = delivered'.id <=> f = delivered.id)
        /\ begun' = begun
    BY <1>2, <1>9 DEF MoveToScheduled, clientVars
  <2> QED
    BY <1>6, <2>1, <2>2, <2>3
<1>10. CASE DeliverHidden
  <2> DEFINE S == {f \in Frames : f = delivered.id \/ (Due /\ f = scheduled.id)}
  <2>1. \A f \in Frames : retired'[f] > 0 <=> retired[f] > 0 \/ f \in S
    BY <1>2, <1>10, HoldsFacts DEF DeliverHidden, Clear
  <2>2. S \in SUBSET Frames /\ (progress.id \in S => scheduled.id \in S \cup {0})
    BY <1>1, <1>2 DEF StageIs, FrameOrder, Active
  <2>3. /\ \A f \in Frames \ S : (f = delivered'.id <=> f = delivered.id)
        /\ begun' = begun
    BY <1>2, <1>10 DEF DeliverHidden, clientVars
  <2> QED
    BY <1>6, <2>1, <2>2, <2>3
<1> QED
  BY <1>3, <1>4, <1>5, <1>7, <1>8, <1>9, <1>10, SlotSteps

\* The slots and their three threads implement the stream of frames: in order, one
\* shown at a time, none twice and none after it was retired.
THEOREM FrameStreamIsImplemented == Spec => ImplementsFrameStream
BY StreamInit, StreamStep, FrameInvariant, PTL DEF Spec, ImplementsFrameStream, Stream!Spec

(***************************************************************************)
(* The one condition variable of wait_thread.oth loses no wake-up.         *)
(***************************************************************************)

\* What the two threads know when they go to sleep, and what a spurious wake-up
\* in layer_begin must find unchanged: blocked is only raised while there is
\* something to be waited for.
WakeInv ==
  /\ pc["client"] = "startwait" => pc["wait"] = "start"
  /\ pc["client"] = "blocked" => blocked
  /\ pc["client"] \in {"blocked", "unblocked"} /\ blocked => waiting \/ pushed # "none"
  /\ pc["wait"] = "condwait" => pushed = "none" /\ running

\* The client signals while it is awake itself: it is the wait thread that wakes.
LEMMA ClientWakes ==
  ASSUME TypeOK, NEW to, SignalAndGoto("client", to), pc["client"] \in {"push", "stop"},
         pc["wait"] = "condwait"
  PROVE  pc'["wait"] = "woken"
<1>1. Asleep = {"wait"}
  BY DEF Asleep, Awake
<1>2. pc' = [pc EXCEPT !["client"] = to, !["wait"] = Awake[pc["wait"]]]
  BY <1>1 DEF SignalAndGoto
<1>3. Awake[pc["wait"]] = "woken"
  BY DEF Awake
<1> QED
  BY <1>2, <1>3 DEF TypeOK

\* Likewise the wait thread.
LEMMA WaitWakes ==
  ASSUME TypeOK, NEW to, SignalAndGoto("wait", to), pc["wait"] \in {"start", "release"},
         pc["client"] \in {"startwait", "blocked"}
  PROVE  pc'["client"] \in {"starting", "unblocked"}
<1>1. Asleep = {"client"}
  BY DEF Asleep, Awake
<1>2. pc' = [pc EXCEPT !["wait"] = to, !["client"] = Awake[pc["client"]]]
  BY <1>1 DEF SignalAndGoto
<1>3. Awake[pc["client"]] \in {"starting", "unblocked"}
  BY DEF Awake
<1> QED
  BY <1>2, <1>3 DEF TypeOK

\* Whoever makes the condition of a sleeping thread true wakes it.
LEMMA WakeStep == FrameInv /\ WakeInv /\ [Next]_vars => WakeInv'
<1> SUFFICES ASSUME FrameInv, WakeInv, [Next]_vars PROVE WakeInv'
  OBVIOUS
<1>0. TypeOK /\ HandOff /\ StartStop
  BY DEF FrameInv
<1>1. CASE AwaitAlive
  BY <1>0, <1>1, GotoMoves DEF AwaitAlive, StartStop, WakeInv, clientVars, slotVars,
     waitVars, renderVars
<1>2. CASE WaitForWaitThread
  <2>1. pc["client"] = "begin" /\ pc'["wait"] = pc["wait"]
    BY <1>0, <1>2, GotoMoves DEF WaitForWaitThread
  <2>2. pc'["client"] = IF IsPushedOrWaiting THEN "blocked" ELSE "reset"
    BY <1>0, <1>2, GotoMoves DEF WaitForWaitThread
  <2>3. (blocked' <=> IsPushedOrWaiting) /\ UNCHANGED <<pushed, running, waiting>>
    BY <1>2 DEF WaitForWaitThread
  <2>4. IsPushedOrWaiting <=> waiting \/ pushed # "none"
    BY DEF IsPushedOrWaiting
  <2> HIDE DEF IsPushedOrWaiting
  <2> QED
    BY <2>1, <2>2, <2>3, <2>4 DEF WakeInv
<1>3. CASE BlockedAgain
  BY <1>0, <1>3, GotoMoves DEF BlockedAgain, WakeInv, clientVars, slotVars, waitVars,
     renderVars
<1>4. CASE ResetProgress \/ JoinWaitThread \/ ClearSlots \/ Unlist
  BY <1>0, <1>4, GotoMoves DEF ResetProgress, JoinWaitThread, ClearSlots, Unlist, WakeInv,
     clientVars, slotVars, waitVars, renderVars
<1>5. CASE PushToWaitThread
  BY <1>0, <1>5, ClientSignals, ClientWakes DEF PushToWaitThread, WakeInv, clientVars,
     slotVars, waitVars, renderVars
<1>6. CASE StopWaitThread
  BY <1>0, <1>6, ClientSignals, ClientWakes DEF StopWaitThread, WakeInv, clientVars,
     slotVars, waitVars, renderVars
<1>7. CASE \E t \in {"client", "wait"} : ScheduledFree(t) \/ MoveToScheduled(t)
  BY <1>0, <1>7, GotoMoves DEF ScheduledFree, MoveToScheduled, HandOff, WakeInv,
     clientVars, slotVars, waitVars, renderVars
<1>8. CASE \/ \E time \in Times : LayerBegin(time)
           \/ \E s \in Syncs : CommitWithSync(s)
           \/ CommitWithoutSync
  BY <1>0, <1>8, GotoMoves DEF LayerBegin, CommitWithSync, CommitWithoutSync, WakeInv,
     clientVars, slotVars, waitVars, renderVars
<1>9. CASE StartLoop
  BY <1>0, <1>9, WaitSignals, WaitWakes DEF StartLoop, LoopHead, StartStop, WakeInv,
     clientVars, slotVars, waitVars, renderVars
<1>10. CASE TakeSync
  BY <1>0, <1>10, GotoMoves DEF TakeSync, LoopHead, HandOff, WakeInv, clientVars, slotVars,
     waitVars, renderVars
<1>11. CASE SyncDone \/ SyncGivesUp
  BY <1>0, <1>11, GotoMoves DEF SyncDone, SyncGivesUp, WakeInv, clientVars, slotVars,
     waitVars, renderVars
<1>12. CASE ReleaseClient
  BY <1>0, <1>12, WaitSignals, WaitWakes, GotoMoves DEF ReleaseClient, LoopHead, HandOff,
     WakeInv, clientVars, slotVars, waitVars, renderVars
<1>13. CASE \E t \in {"client", "wait"} : SpuriousWakeup(t)
  <2>1. PICK t \in {"client", "wait"} : SpuriousWakeup(t)
    BY <1>13
  <2>2. UNCHANGED waitVars
    BY <2>1 DEF SpuriousWakeup
  <2> QED
    BY <1>0, <2>1, <2>2, SpuriousMoves DEF WakeInv, waitVars
<1>14. CASE UNCHANGED <<pc, waitVars>>
  BY <1>0, <1>14 DEF WakeInv, waitVars
<1>15. CASE ClientStep
  BY <1>1, <1>2, <1>3, <1>4, <1>5, <1>6, <1>7, <1>15 DEF ClientStep
<1>16. CASE ClientCall
  <2>1. AddLayer \/ DiscardFrame => UNCHANGED <<pc, waitVars>>
    BY DEF AddLayer, DiscardFrame, waitVars
  <2> QED
    BY <1>4, <1>8, <1>14, <1>16, <2>1 DEF ClientCall
<1>17. CASE WaitStep \/ SyncDone
  BY <1>7, <1>9, <1>10, <1>11, <1>12, <1>17 DEF WaitStep
<1>18. CASE RenderStep \/ Tick
  BY <1>14, <1>18 DEF RenderStep, Broadcast, Deliver, DeliverNothing, DeliverHidden, Tick
<1> QED
  BY <1>13, <1>14, <1>15, <1>16, <1>17, <1>18 DEF Next, vars

\* Neither thread sleeps through what it waits for, although creation, layer_begin,
\* the wait loop and the stop share one condition variable and its signals wake
\* any one sleeper: the part of BlockedReleased and DestroyReturns that is not
\* fairness.
THEOREM WakeupsAreNotLost == Spec => []NoLostWakeup
<1>1. Init => WakeInv
  BY DEF Init, WakeInv
<1>2. FrameInv /\ WakeInv => NoLostWakeup
  <2> SUFFICES ASSUME FrameInv, WakeInv PROVE NoLostWakeup
    OBVIOUS
  <2>1. TypeOK /\ HandOff /\ StartStop
    BY DEF FrameInv
  <2>2. pushed # "none" /\ pc["client"] = "blocked" => pc["wait"] = "woken"
    BY <2>1 DEF HandOff, StartStop, WakeInv, TypeOK, WaitPCs
  <2> QED
    BY <2>1, <2>2 DEF NoLostWakeup, WakeInv, HandOff
<1> QED
  BY <1>1, <1>2, WakeStep, FrameInvariant, PTL DEF Spec
==============================================================================
