-------------------------- MODULE MultiSystem_proofs --------------------------
(* Machine-checked proofs about MultiSystem, for every value of its constants. *)
EXTENDS MultiSystem, FiniteSetTheorems, TLAPS

(***************************************************************************)
(* The initial states.                                                     *)
(***************************************************************************)

LEMMA MultiInvInit == Init => MultiInv
<1> SUFFICES ASSUME Init PROVE MultiInv
  OBVIOUS
<1> USE ClientsAssumption, MaxListedAssumption, WarmStartAssumption
<1>1. TypeOK
  BY DEF Init, TypeOK, Client, Entries, SystemStates, ClientPCs
<1>2. NativeMatchesState
  BY DEF Init, NativeMatchesState
<1>3. CountActive
  <2>1. Counted = {}
    BY DEF Init, Counted
  <2> QED
    BY <2>1, FS_EmptySet DEF Init, CountActive
<1>4. SessionPhases
  BY DEF Init, SessionPhases
<1>5. ListOfLiving /\ CollectedStay
  BY DEF Init, ListOfLiving, CollectedStay
<1> QED
  BY <1>1, <1>2, <1>3, <1>4, <1>5 DEF MultiInv

(***************************************************************************)
(* The count of active sessions.                                           *)
(***************************************************************************)

\* Counted is finite, and count is a natural number.
LEMMA CountedFinite ==
  ASSUME CountActive PROVE IsFiniteSet(Counted) /\ count \in Nat
<1>1. Counted \subseteq Clients
  BY DEF Counted
<1> QED
  BY <1>1, ClientsAssumption, FS_Subset, FS_CardinalityType DEF CountActive

\* A step of client c that takes it from one place to another, leaves its mark
\* or sets it, and changes no other client's.
LEMMA CountedMoves ==
  ASSUME TypeOK, NEW c \in Clients, NEW to, NEW mark,
         cpc' = [cpc EXCEPT ![c] = to],
         \A d \in Clients : mc'[d].session_active =
            IF d = c THEN mark ELSE mc[d].session_active
  PROVE  Counted' = IF to = "began" \/ (mark /\ to \notin {"ended", "dying"})
                    THEN Counted \cup {c} ELSE Counted \ {c}
<1>1. \A d \in Clients : cpc'[d] = IF d = c THEN to ELSE cpc[d]
  BY DEF TypeOK
<1> QED
  BY <1>1 DEF Counted

LEMMA CountStep == MultiInv /\ [Next]_vars => CountActive'
<1> SUFFICES ASSUME MultiInv, [Next]_vars PROVE CountActive'
  OBVIOUS
<1>0. TypeOK /\ CountActive /\ IsFiniteSet(Counted) /\ count \in Nat
  BY CountedFinite DEF MultiInv
<1>1. CASE RenderStep \/ SpuriousWakeup \/ StopSystem \/ (\E c \in Clients : SetZOrder(c))
  <2>1. /\ UNCHANGED <<count, cpc>>
        /\ \A c \in Clients : mc'[c].session_active = mc[c].session_active
    <3>1. CASE Collect
      BY <3>1, <1>0 DEF Collect, TypeOK, Client, Entries
    <3> QED
      BY <1>1, <3>1 DEF RenderStep, UpdateSessionState, EndLoop, BeginTransfer, SubmitLayers,
         EndTransfer, SpuriousWakeup, StopSystem, SetZOrder
  <2>2. Counted' = Counted
    BY <2>1 DEF Counted
  <2> QED
    BY <1>0, <2>1, <2>2 DEF CountActive
<1>2. CASE \E c \in Clients, visible \in BOOLEAN : SetState(c, visible)
  <2>1. /\ UNCHANGED <<count, cpc>>
        /\ \A c \in Clients : mc'[c].session_active = mc[c].session_active
    BY <1>0, <1>2 DEF SetState, TypeOK, Client
  <2>2. Counted' = Counted
    BY <2>1 DEF Counted
  <2> QED
    BY <1>0, <2>1, <2>2 DEF CountActive
<1>3. ASSUME NEW c \in Clients, ClientStep(c) PROVE CountActive'
  <2>1. ASSUME NEW to, cpc' = [cpc EXCEPT ![c] = to], UNCHANGED <<mc, count>>,
               c \in Counted <=> (to = "began" \/ (mc[c].session_active /\ to \notin {"ended", "dying"}))
        PROVE  CountActive'
    <3>1. \A d \in Clients : mc'[d].session_active =
            IF d = c THEN mc[c].session_active ELSE mc[d].session_active
      BY <2>1
    <3>2. Counted' = IF to = "began" \/ (mc[c].session_active /\ to \notin {"ended", "dying"})
                     THEN Counted \cup {c} ELSE Counted \ {c}
      BY <1>0, <2>1, <3>1, CountedMoves
    <3>3. Counted' = Counted
      BY <2>1, <3>2
    <3> QED
      BY <1>0, <2>1, <3>3 DEF CountActive
  <2>2. CASE CreateClient(c) \/ DestroyInactive(c) \/ Unlist(c)
    BY <2>1, <2>2 DEF CreateClient, DestroyInactive, Unlist, ClientGoto, Counted,
       MultiInv, SessionPhases
  <2>3. CASE BeginSession(c)
    <3>1. Counted' = Counted \cup {c} /\ c \notin Counted
      BY <1>0, <2>3, CountedMoves DEF BeginSession, ClientGoto, Counted
    <3> QED
      BY <1>0, <2>3, <3>1, FS_AddElement DEF BeginSession, CountActive
  <2>4. CASE EndSession(c) \/ DestroyActive(c)
    <3>1. Counted' = Counted \ {c} /\ c \in Counted
      BY <1>0, <2>4, CountedMoves DEF EndSession, DestroyActive, ClientGoto, Counted
    <3> QED
      BY <1>0, <2>4, <3>1, FS_RemoveElement DEF EndSession, DestroyActive, CountActive
  <2>5. CASE SessionBegan(c)
    <3>1. Counted' = Counted \cup {c} /\ c \in Counted
      BY <1>0, <2>5, CountedMoves DEF SessionBegan, ClientGoto, Counted, TypeOK, Client
    <3> QED
      BY <1>0, <2>5, <3>1 DEF SessionBegan, CountActive
  <2>6. CASE SessionEnded(c) \/ DestroyedSession(c)
    <3>1. Counted' = Counted \ {c} /\ c \notin Counted
      BY <1>0, <2>6, CountedMoves DEF SessionEnded, DestroyedSession, ClientGoto, Counted, TypeOK, Client
    <3> QED
      BY <1>0, <2>6, <3>1 DEF SessionEnded, DestroyedSession, CountActive
  <2>7. CASE FreeClient(c)
    <3>1. c \notin Counted /\ ~mc[c].session_active
      BY <2>7 DEF FreeClient, ClientGoto, Counted, MultiInv, SessionPhases
    <3>2. \A d \in Clients : mc'[d].session_active =
            IF d = c THEN FALSE ELSE mc[d].session_active
      BY <1>0, <2>7, <3>1 DEF FreeClient, TypeOK, Client
    <3>3. Counted' = Counted \ {c}
      BY <1>0, <2>7, <3>2, CountedMoves DEF FreeClient, ClientGoto
    <3> QED
      BY <1>0, <2>7, <3>1, <3>3 DEF FreeClient, CountActive
  <2>8. CASE DiscardFrame(c)
    <3>1. \A d \in Clients : mc'[d].session_active = mc[d].session_active
      BY <1>0, <2>8 DEF DiscardFrame, TypeOK, Client
    <3> QED
      BY <1>0, <2>8, <3>1 DEF DiscardFrame, CountActive, Counted
  <2> QED
    BY <1>3, <2>2, <2>3, <2>4, <2>5, <2>6, <2>7, <2>8 DEF ClientStep
<1>4. CASE UNCHANGED vars
  BY <1>0, <1>4 DEF vars, CountActive, Counted
<1> QED
  BY <1>1, <1>2, <1>3, <1>4 DEF Next, ControlStep

(***************************************************************************)
(* Types.                                                                  *)
(***************************************************************************)

LEMMA TypeStep == MultiInv /\ [Next]_vars => TypeOK'
<1> SUFFICES ASSUME MultiInv, [Next]_vars PROVE TypeOK'
  OBVIOUS
<1> USE MaxListedAssumption
<1>0. TypeOK
  BY DEF MultiInv
<1>1. count' \in Nat
  <2>1. CountActive'
    BY CountStep
  <2>2. Counted' \subseteq Clients
    BY DEF Counted
  <2> QED
    BY <2>1, <2>2, ClientsAssumption, FS_Subset, FS_CardinalityType DEF CountActive
<1>2. CASE RenderStep
  <2>1. CASE UpdateSessionState
    <3>1. NextState \in SystemStates
      BY <1>0 DEF NextState, SystemStates, TypeOK
    <3> QED
      BY <1>0, <2>1, <3>1 DEF UpdateSessionState, TypeOK
  <2>2. CASE Collect
    <3>1. CASE list[k] = Nobody
      BY <1>0, <2>2, <3>1 DEF Collect, TypeOK
    <3>2. CASE list[k] # Nobody
      <4>1. list[k] \in Clients
        BY <1>0, <2>2, <3>2 DEF Collect, TypeOK, Entries
      <4>2. mc' \in [Clients -> Client]
        <5>1. mc \in [Clients -> Client] /\ mc[list[k]] \in Client
          BY <1>0, <4>1 DEF TypeOK
        <5>2. PICK b : mc' = [mc EXCEPT ![list[k]].delivered = b] /\ b \in BOOLEAN
          BY <2>2, <3>2, <5>1 DEF Collect, Client
        <5>3. [mc[list[k]] EXCEPT !.delivered = b] \in Client
          BY <5>1, <5>2 DEF Client
        <5> QED
          BY <5>1, <5>2, <5>3
      <4> QED
        BY <1>0, <2>2, <3>2, <4>1, <4>2 DEF Collect, TypeOK
    <3> QED
      BY <3>1, <3>2
  <2> QED
    BY <1>0, <1>2, <2>1, <2>2
    DEF RenderStep, EndLoop, BeginTransfer, SubmitLayers, EndTransfer, TypeOK
<1>3. ASSUME NEW c \in Clients, ClientStep(c) PROVE TypeOK'
  <2>1. cpc' \in [Clients -> ClientPCs]
    BY <1>0, <1>3 DEF TypeOK, ClientStep, ClientGoto, ClientPCs, CreateClient, BeginSession,
       SessionBegan, EndSession, SessionEnded, DestroyActive, DestroyedSession,
       DestroyInactive, Unlist, FreeClient, DiscardFrame
  <2>2. mc' \in [Clients -> Client]
    <3>0. ASSUME NEW b \in BOOLEAN
          PROVE  /\ [mc EXCEPT ![c].session_active = b] \in [Clients -> Client]
                 /\ [mc EXCEPT ![c].delivered = b] \in [Clients -> Client]
      <4>1. mc \in [Clients -> Client] /\ mc[c] \in Client
        BY <1>0 DEF TypeOK
      <4>2. /\ [mc[c] EXCEPT !.session_active = b] \in Client
            /\ [mc[c] EXCEPT !.delivered = b] \in Client
        BY <4>1 DEF Client
      <4> QED
        BY <4>1, <4>2
    <3>1. CASE SessionBegan(c) \/ SessionEnded(c) \/ DestroyedSession(c)
      BY <3>0, <3>1 DEF SessionBegan, SessionEnded, DestroyedSession
    <3>2. CASE FreeClient(c) \/ DiscardFrame(c)
      BY <3>0, <3>2 DEF FreeClient, DiscardFrame
    <3> QED
      BY <1>0, <1>3, <3>1, <3>2 DEF TypeOK, ClientStep, CreateClient, BeginSession,
         EndSession, DestroyActive, DestroyInactive, Unlist
  <2>3. list' \in [Entries -> Clients \cup {Nobody}]
    BY <1>0, <1>3 DEF TypeOK, ClientStep, CreateClient, BeginSession,
       SessionBegan, EndSession, SessionEnded, DestroyActive, DestroyedSession,
       DestroyInactive, Unlist, FreeClient, DiscardFrame
  <2> QED
    BY <1>0, <1>1, <1>3, <2>1, <2>2, <2>3 DEF TypeOK, ClientStep, CreateClient, BeginSession,
       SessionBegan, EndSession, SessionEnded, DestroyActive, DestroyedSession,
       DestroyInactive, Unlist, FreeClient, DiscardFrame, Signalled, renderVars
<1>4. ASSUME NEW c \in Clients, NEW visible \in BOOLEAN, SetState(c, visible) PROVE TypeOK'
  BY <1>0, <1>4 DEF SetState, TypeOK, Client, renderVars
<1>5. CASE SpuriousWakeup \/ StopSystem \/ (\E c \in Clients : SetZOrder(c)) \/ UNCHANGED vars
  BY <1>0, <1>5 DEF SpuriousWakeup, StopSystem, SetZOrder, vars, renderVars, TypeOK, Signalled
<1> QED
  BY <1>2, <1>3, <1>4, <1>5 DEF Next, ControlStep

(***************************************************************************)
(* The native session.                                                     *)
(***************************************************************************)

\* What a step that neither updates nor ends the loop does to it: nothing.
LEMMA NativeStep == MultiInv /\ [Next]_vars => NativeMatchesState'
<1> SUFFICES ASSUME MultiInv, [Next]_vars PROVE NativeMatchesState'
  OBVIOUS
<1>0. NativeMatchesState /\ state \in SystemStates
  BY DEF MultiInv, TypeOK
<1>1. CASE UpdateSessionState
  BY <1>0, <1>1 DEF UpdateSessionState, NativeMatchesState, NextState, BeginsNative,
     EndsNative, SystemStates
<1>2. CASE EndLoop
  BY <1>0, <1>2 DEF EndLoop, NativeMatchesState, SystemStates
<1>3. CASE UNCHANGED <<state, native>> /\ (rpc' = "ended" <=> rpc = "ended")
  BY <1>0, <1>3 DEF NativeMatchesState
<1>4. ASSUME NEW c \in Clients, ClientStep(c)
      PROVE  UNCHANGED <<state, native>> /\ (rpc' = "ended" <=> rpc = "ended")
  BY <1>4 DEF ClientStep, CreateClient, BeginSession, SessionBegan, EndSession, SessionEnded,
     DestroyActive, DestroyedSession, DestroyInactive, Unlist, FreeClient, DiscardFrame, Signalled, renderVars
<1> QED
  BY <1>1, <1>2, <1>3, <1>4
  DEF Next, RenderStep, BeginTransfer, Collect, SubmitLayers, EndTransfer, SpuriousWakeup,
      ControlStep, SetState, SetZOrder, StopSystem, Signalled, renderVars, vars

(***************************************************************************)
(* The session of each client.                                            *)
(***************************************************************************)

LEMMA PhaseStep == MultiInv /\ [Next]_vars => SessionPhases'
<1> SUFFICES ASSUME MultiInv, [Next]_vars PROVE SessionPhases'
  OBVIOUS
<1>0. TypeOK /\ SessionPhases
  BY DEF MultiInv
<1>1. CASE Collect
  <2>1. \A c \in Clients : mc'[c].session_active = mc[c].session_active
    BY <1>0, <1>1 DEF Collect, TypeOK, Client, Entries
  <2> QED
    BY <1>0, <1>1, <2>1 DEF Collect, SessionPhases
<1>2. ASSUME NEW c \in Clients, ClientStep(c) PROVE SessionPhases'
  BY <1>0, <1>2 DEF SessionPhases, TypeOK, Client, ClientStep, ClientGoto, CreateClient,
     BeginSession, SessionBegan, EndSession, SessionEnded, DestroyActive, DestroyedSession,
     DestroyInactive, Unlist, FreeClient, DiscardFrame
<1>3. ASSUME NEW c \in Clients, NEW visible \in BOOLEAN, SetState(c, visible)
      PROVE  SessionPhases'
  BY <1>0, <1>3 DEF SetState, SessionPhases, TypeOK, Client
<1>4. CASE UNCHANGED <<mc, cpc>>
  BY <1>0, <1>4 DEF SessionPhases
<1> QED
  BY <1>1, <1>2, <1>3, <1>4
  DEF Next, RenderStep, UpdateSessionState, EndLoop, BeginTransfer, SubmitLayers, EndTransfer,
      SpuriousWakeup, ControlStep, SetZOrder, StopSystem, vars

(***************************************************************************)
(* The list of clients and the transfer of layers.                         *)
(***************************************************************************)

\* A client keeps its place in the list until it takes itself out.
LEMMA ListStep == MultiInv /\ [Next]_vars => ListOfLiving'
<1> SUFFICES ASSUME MultiInv, [Next]_vars PROVE ListOfLiving'
  OBVIOUS
<1>0. TypeOK /\ ListOfLiving
  BY DEF MultiInv
<1>1. ASSUME NEW c \in Clients, CreateClient(c) PROVE ListOfLiving'
  <2>1. \A i \in Entries : list'[i] = IF IsFirstEmpty(i) THEN c ELSE list[i]
    BY <1>1 DEF CreateClient
  <2>2. \A d \in Clients : cpc'[d] = IF d = c THEN "idle" ELSE cpc[d]
    BY <1>0, <1>1 DEF CreateClient, ClientGoto, TypeOK
  <2>3. \A i \in Entries : list[i] # c
    BY <1>0, <1>1, ClientsAssumption DEF CreateClient, ClientGoto, ListOfLiving
  <2>4. \A i, j \in Entries : IsFirstEmpty(i) /\ IsFirstEmpty(j) => i = j
    BY MaxListedAssumption DEF IsFirstEmpty, Entries
  <2>5. \A i \in Entries : list[i] \in Clients \cup {Nobody}
    BY <1>0 DEF TypeOK
  <2> QED
    BY <1>0, <2>1, <2>2, <2>3, <2>4, <2>5, ClientsAssumption DEF ListOfLiving
<1>2. ASSUME NEW c \in Clients, Unlist(c) PROVE ListOfLiving'
  <2>1. \A i \in Entries : list'[i] = IF list[i] = c THEN Nobody ELSE list[i]
    BY <1>2 DEF Unlist
  <2>2. \A d \in Clients : cpc'[d] = IF d = c THEN "clear" ELSE cpc[d]
    BY <1>0, <1>2 DEF Unlist, ClientGoto, TypeOK
  <2>3. \A i \in Entries : list[i] \in Clients \cup {Nobody}
    BY <1>0 DEF TypeOK
  <2> QED
    BY <1>0, <2>1, <2>2, <2>3, ClientsAssumption DEF ListOfLiving
<1>3. ASSUME NEW c \in Clients, ClientStep(c), ~CreateClient(c), ~Unlist(c) PROVE ListOfLiving'
  <2>1. /\ list' = list
        /\ cpc[c] \in {"none", "clear", "freed"} \/ cpc'[c] \notin {"none", "clear", "freed"}
        /\ \A d \in Clients : d # c => cpc'[d] = cpc[d]
    BY <1>0, <1>3 DEF TypeOK, ClientStep, ClientGoto, BeginSession, SessionBegan, EndSession,
       SessionEnded, DestroyActive, DestroyedSession, DestroyInactive, FreeClient, DiscardFrame
  <2>2. \A i \in Entries : list[i] \in Clients \cup {Nobody}
    BY <1>0 DEF TypeOK
  <2> QED
    BY <1>0, <2>1, <2>2 DEF ListOfLiving
<1>4. CASE UNCHANGED <<list, cpc>>
  BY <1>0, <1>4 DEF ListOfLiving
<1> QED
  BY <1>1, <1>2, <1>3, <1>4
  DEF Next, RenderStep, UpdateSessionState, EndLoop, BeginTransfer, Collect, SubmitLayers,
      EndTransfer, SpuriousWakeup, ControlStep, SetState, SetZOrder,
      StopSystem, vars

\* While the render thread has the lock nobody takes from it what it collected.
LEMMA CollectStep == MultiInv /\ [Next]_vars => CollectedStay'
<1> SUFFICES ASSUME MultiInv, [Next]_vars, lock' = "render"
             PROVE  /\ Transferring'
                    /\ \A c \in array' : mc'[c].delivered /\ \E i \in Entries : i < k' /\ list'[i] = c
  BY DEF CollectedStay
<1>0. TypeOK /\ ListOfLiving /\ CollectedStay
  BY DEF MultiInv
<1>1. CASE BeginTransfer
  BY <1>1 DEF BeginTransfer, Transferring
<1>2. CASE Collect
  <2>0. lock = "render" /\ k \in Entries /\ k' = k + 1 /\ list' = list /\ rpc' = rpc
    BY <1>0, <1>2, MaxListedAssumption DEF Collect, Entries, TypeOK
  <2>1. CASE list[k] = Nobody
    BY <1>0, <1>2, <2>0, <2>1 DEF Collect, CollectedStay, Transferring, Entries, TypeOK
  <2>2. CASE list[k] # Nobody
    <3> DEFINE c == list[k]
    <3>1. c \in Clients
      BY <1>0, <2>0, <2>2 DEF TypeOK
    <3>2. c \notin array
      BY <1>0, <2>0, <2>2 DEF ListOfLiving, CollectedStay, Entries
    <3>3. PICK delivered \in {mc[c].delivered, TRUE} :
            /\ mc' = [mc EXCEPT ![c].delivered = delivered /\ mc[c].visible /\ mc[c].session_active]
            /\ array' = IF delivered /\ mc[c].visible /\ mc[c].session_active
                        THEN array \cup {c} ELSE array
      BY <1>2, <2>2 DEF Collect
    <3>4. \A d \in array : mc'[d].delivered /\ \E i \in Entries : i < k' /\ list'[i] = d
      BY <1>0, <2>0, <3>1, <3>2, <3>3 DEF CollectedStay, TypeOK, Client, Entries
    <3>5. c \in array' => mc'[c].delivered /\ \E i \in Entries : i < k' /\ list'[i] = c
      BY <1>0, <2>0, <3>1, <3>2, <3>3 DEF TypeOK, Client, Entries
    <3> QED
      BY <1>0, <2>0, <3>3, <3>4, <3>5 DEF CollectedStay, Transferring
  <2> QED
    BY <2>1, <2>2
<1>3. CASE SubmitLayers
  BY <1>0, <1>3 DEF SubmitLayers, CollectedStay, Transferring
<1>4. ASSUME NEW c \in Clients, ClientStep(c)
      PROVE  /\ Transferring'
             /\ \A d \in array' : mc'[d].delivered /\ \E i \in Entries : i < k' /\ list'[i] = d
  <2>1. /\ lock = "render" /\ Transferring' /\ UNCHANGED <<k, array, list>>
        /\ \A d \in Clients : mc'[d].delivered = mc[d].delivered
    BY <1>0, <1>4 DEF CollectedStay, Transferring, TypeOK, Client, ClientStep, CreateClient,
       BeginSession, SessionBegan, EndSession, SessionEnded, DestroyActive, DestroyedSession,
       DestroyInactive, Unlist, FreeClient, DiscardFrame, Signalled, renderVars
  <2> QED
    BY <1>0, <2>1 DEF CollectedStay, TypeOK
<1>5. ASSUME NEW c \in Clients, NEW visible \in BOOLEAN, SetState(c, visible)
      PROVE  /\ Transferring'
             /\ \A d \in array' : mc'[d].delivered /\ \E i \in Entries : i < k' /\ list'[i] = d
  BY <1>0, <1>5 DEF SetState, CollectedStay, Transferring, TypeOK, Client, renderVars
<1>6. CASE UNCHANGED <<lock, list, mc, array, k>> /\ (Transferring => Transferring')
  BY <1>0, <1>6 DEF CollectedStay
<1> QED
  BY <1>1, <1>2, <1>3, <1>4, <1>5, <1>6
  DEF Next, RenderStep, UpdateSessionState, EndLoop, EndTransfer, SpuriousWakeup, ControlStep,
      SetZOrder, StopSystem, Signalled, Transferring, renderVars, vars

(***************************************************************************)
(* The theorems.                                                           *)
(***************************************************************************)

\* MultiInv is an invariant of the multi-client system compositor.
THEOREM MultiInvariant == Spec => []MultiInv
<1>1. MultiInv /\ [Next]_vars => MultiInv'
  BY TypeStep, NativeStep, CountStep, PhaseStep, ListStep, CollectStep DEF MultiInv
<1> QED
  BY <1>1, MultiInvInit, PTL DEF Spec

\* The variables keep their types; in particular active_count is never negative.
THEOREM TypeCorrect == Spec => []TypeOK
<1>1. MultiInv => TypeOK
  BY DEF MultiInv
<1> QED
  BY <1>1, MultiInvariant, PTL

\* The native session is begun and ended as sessions.state says, once each, but
\* for a system that is stopped in INIT_WARM_START.
THEOREM NativeSessionMatches == Spec => []NativeMatchesState
<1>1. MultiInv => NativeMatchesState
  BY DEF MultiInv
<1> QED
  BY <1>1, MultiInvariant, PTL

\* active_count is the number of active sessions, for any set of clients.
THEOREM ActiveCountIsExact == Spec => []CountActive
<1>1. MultiInv => CountActive
  BY DEF MultiInv
<1> QED
  BY <1>1, MultiInvariant, PTL

\* No client whose layers are submitted goes away while the render thread really
\* has the lock.
THEOREM CollectedClientsStay == Spec => []ClientsStay
<1>1. MultiInv => ClientsStay
  BY ClientsAssumption DEF MultiInv, ClientsStay, CollectedStay, ListOfLiving, TypeOK
<1> QED
  BY <1>1, MultiInvariant, PTL

\* One step keeps a sleeping render thread idle: whoever gives it work signals it.
LEMMA SleepStep == MultiInv /\ SleepsOnlyIdle /\ [Next]_vars => SleepsOnlyIdle'
<1> SUFFICES ASSUME MultiInv, SleepsOnlyIdle, [Next]_vars PROVE SleepsOnlyIdle'
  OBVIOUS
<1>0. count \in Nat /\ count' \in Nat /\ NativeMatchesState'
  BY TypeStep, NativeStep DEF MultiInv, TypeOK
<1>1. CASE UpdateSessionState
  <2>1. NextState = "STOPPED" => count = 0
    BY <1>0 DEF NextState, MultiInv, TypeOK, SystemStates
  <2>2. /\ running' /\ count' = count /\ state' = NextState
        /\ rpc' = "asleep" => NextState = "STOPPED"
    BY <1>1 DEF UpdateSessionState
  <2>3. rpc' = "asleep" /\ state' = "STOPPED" => native' = 0
    BY <1>0 DEF NativeMatchesState
  <2> QED
    BY <2>1, <2>2, <2>3 DEF SleepsOnlyIdle
<1>2. ASSUME NEW c \in Clients, BeginSession(c) PROVE SleepsOnlyIdle'
  BY <1>2 DEF BeginSession, Signalled, SleepsOnlyIdle
<1>3. ASSUME NEW c \in Clients, EndSession(c) \/ DestroyActive(c) PROVE SleepsOnlyIdle'
  BY <1>0, <1>3 DEF EndSession, DestroyActive, SleepsOnlyIdle, renderVars
<1>4. CASE StopSystem
  BY <1>4 DEF StopSystem, Signalled, SleepsOnlyIdle
<1>5. CASE UNCHANGED <<running, state, count, native, rpc>>
  BY <1>5 DEF SleepsOnlyIdle
<1>6. CASE rpc' # "asleep"
  BY <1>6 DEF SleepsOnlyIdle
<1>7. ASSUME NEW c \in Clients, ClientStep(c) PROVE SleepsOnlyIdle'
  <2>1. \/ BeginSession(c) \/ EndSession(c) \/ DestroyActive(c)
        \/ UNCHANGED <<running, state, count, native, rpc>>
    BY <1>7 DEF ClientStep, CreateClient, SessionBegan, SessionEnded, DiscardFrame,
                DestroyedSession, DestroyInactive, Unlist, FreeClient, renderVars
  <2> QED
    BY <1>2, <1>3, <1>5, <2>1
<1> QED
  BY <1>1, <1>4, <1>5, <1>6, <1>7
  DEF Next, RenderStep, EndLoop, BeginTransfer, Collect, SubmitLayers, EndTransfer,
      SpuriousWakeup, ControlStep, SetState, SetZOrder, renderVars, vars

\* The render thread never sleeps over a session that has begun or a stop that has
\* been asked for: the part of NativeFollows and StopReturns that is not fairness.
THEOREM RenderThreadSleepsIdle == Spec => []SleepsOnlyIdle
<1>1. Init => SleepsOnlyIdle
  BY DEF Init, SleepsOnlyIdle
<1> QED
  BY <1>1, SleepStep, MultiInvariant, PTL DEF Spec
===============================================================================
