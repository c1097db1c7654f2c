-------------------------- MODULE ActiveClient_proofs --------------------------
(* Machine-checked proofs about ActiveClient, for every number of clients. *)
EXTENDS ActiveClient, TLAPS

USE MaxClientsAssumption, OptionsAssumption

(***************************************************************************)
(* What update_server_state_locked does.                                   *)
(***************************************************************************)

\* Clients' states as a locked section may hand them to the update: well typed,
\* and zeroed where there is no client.
WellFormed(k) ==
  /\ k \in [Slots -> Client]
  /\ \A i \in Slots : ~k[i].used => k[i] = NoState

\* Telling the clients of S about the state writes session_visible and
\* session_focused of these clients and nothing else of the table.
LEMMA FlushTypes ==
  ASSUME TypeOK, NEW k \in [Slots -> Client], NEW S \in SUBSET Slots,
         NEW a \in Slots \cup {NoClient}, NEW prev \in Slots \cup {NoClient},
         Flush(k, S, a, prev)
  PROVE  /\ cl' \in [Slots -> Client]
         /\ comp' \in [Slots -> BOOLEAN]
         /\ mainVis' \in [Slots -> BOOLEAN]
         /\ dangling' \in BOOLEAN
         /\ \A i \in Slots :
              /\ cl'[i].used = k[i].used
              /\ cl'[i].overlay = k[i].overlay
              /\ cl'[i].active = k[i].active
              /\ i \in S => (cl'[i].shown <=> (i = a \/ k[i].overlay))
              /\ i \notin S => cl'[i] = k[i]
<1>1. \A i \in Slots : Shown(k, i, a) \in BOOLEAN
  BY DEF Shown
<1>2. cl' \in [Slots -> Client]
  BY <1>1 DEF Flush, Client
<1>3. comp' \in [Slots -> BOOLEAN]
  BY <1>1 DEF Flush, TypeOK
<1>4. mainVis' \in [Slots -> BOOLEAN]
  <2>1. (a >= 0) \in BOOLEAN /\ \A i \in Slots : mainVis[i] \in BOOLEAN
    BY DEF TypeOK
  <2> DEFINE Old(i) == IF i \in S /\ xc[i] # "null" /\ k[i].overlay /\ MainAppEvent(a, prev)
                         THEN a >= 0 ELSE mainVis[i]
  <2>2. \A i \in Slots : Old(i) \in BOOLEAN
    BY <2>1
  <2>3. mainVis' = [i \in Slots |-> Old(i)]
    BY DEF Flush
  <2> HIDE DEF Old
  <2> QED
    BY <2>2, <2>3
<1>5. dangling' \in BOOLEAN
  BY DEF Flush, TypeOK
<1>6. ASSUME NEW i \in Slots
      PROVE  /\ cl'[i].used = k[i].used
             /\ cl'[i].overlay = k[i].overlay
             /\ cl'[i].active = k[i].active
             /\ i \in S => (cl'[i].shown <=> (i = a \/ k[i].overlay))
             /\ i \notin S => cl'[i] = k[i]
  BY <1>1 DEF Flush, Client, Shown
<1> QED
  BY <1>2, <1>3, <1>4, <1>5, <1>6

\* The update returns early with nothing changed, or it ends with an active
\* client that can be displayed, or none, both indices equal, and every running
\* client told.  It ends with none only if no application can be displayed or
\* it was called with none.
LEMMA UpdateResult ==
  ASSUME TypeOK, NEW k, WellFormed(k), NEW a \in Slots \cup {NoClient},
         UpdateServerState(k, a)
  PROVE  /\ cl' \in [Slots -> Client]
         /\ comp' \in [Slots -> BOOLEAN]
         /\ mainVis' \in [Slots -> BOOLEAN]
         /\ dangling' \in BOOLEAN
         /\ active' \in Slots \cup {NoClient}
         /\ last' \in Slots \cup {NoClient}
         /\ \A i \in Slots :
              /\ cl'[i].used = k[i].used
              /\ cl'[i].overlay = k[i].overlay
              /\ cl'[i].active = k[i].active
              /\ ~k[i].used => cl'[i] = k[i]
         /\ \/ /\ NothingChanged(k, a)
               /\ active' = a
               /\ last' = last
               /\ cl' = k
            \/ /\ last' = active'
               /\ active' # NoClient => Displayable(k, active')
               /\ active' = NoClient =>
                    a = NoClient \/ \A i \in Slots : ~Displayable(k, i)
               /\ \A i \in Slots :
                    k[i].used => (cl'[i].shown <=> (i = active' \/ k[i].overlay))
<1> USE DEF WellFormed
<1>1. CASE NothingChanged(k, a) /\ cl' = k /\ active' = a
           /\ UNCHANGED <<last, comp, mainVis, dangling>>
  BY <1>1 DEF TypeOK
<1>2. ASSUME NEW f \in Slots \cup {NoClient},
             IsFallback(k, f),
             active' = NextPrimary(k, a, f),
             last' = active',
             Flush(k, Running(k), active', last)
      PROVE  /\ active' \in Slots \cup {NoClient}
             /\ active' # NoClient => Displayable(k, active')
             /\ active' = NoClient =>
                  a = NoClient \/ \A i \in Slots : ~Displayable(k, i)
  <2>1. CASE f = NoClient
    BY <1>2, <2>1 DEF NextPrimary, IsFallback, Slots, NoClient
  <2>2. CASE f # NoClient /\ a >= 0 /\ ~(~k[a].overlay /\ k[a].active)
    BY <1>2, <2>2 DEF NextPrimary, IsFallback, Slots, NoClient
  <2>3. CASE f # NoClient /\ a >= 0 /\ ~k[a].overlay /\ k[a].active
    <3>1. active' = a /\ a \in Slots
      BY <1>2, <2>3 DEF NextPrimary, Slots, NoClient
    <3>2. k[a].used
      BY <2>3, <3>1 DEF NoState
    <3> QED
      BY <2>3, <3>1, <3>2 DEF Displayable, Slots, NoClient
  <2>4. CASE f # NoClient /\ ~(a >= 0)
    BY <1>2, <2>4 DEF NextPrimary, Slots, NoClient
  <2> QED
    BY <2>1, <2>2, <2>3, <2>4
<1>3. ASSUME NEW f \in Slots \cup {NoClient},
             IsFallback(k, f),
             active' = NextPrimary(k, a, f),
             last' = active',
             Flush(k, Running(k), active', last)
      PROVE  /\ cl' \in [Slots -> Client]
             /\ comp' \in [Slots -> BOOLEAN]
             /\ mainVis' \in [Slots -> BOOLEAN]
             /\ dangling' \in BOOLEAN
             /\ \A i \in Slots :
                  /\ cl'[i].used = k[i].used
                  /\ cl'[i].overlay = k[i].overlay
                  /\ cl'[i].active = k[i].active
                  /\ i \in Running(k) => (cl'[i].shown <=> (i = active' \/ k[i].overlay))
                  /\ i \notin Running(k) => cl'[i] = k[i]
  <2>1. active' \in Slots \cup {NoClient} /\ last \in Slots \cup {NoClient}
    BY <1>2, <1>3 DEF TypeOK
  <2>2. Running(k) \in SUBSET Slots
    BY DEF Running
  <2>3. k \in [Slots -> Client]
    OBVIOUS
  <2>4. Flush(k, Running(k), active', last)
    BY <1>3
  <2> HIDE DEF WellFormed
  <2> QED
    BY <2>1, <2>2, <2>3, <2>4, FlushTypes, ZenonT(30)
<1>4. CASE ~NothingChanged(k, a)
  <2>1. PICK f \in Slots \cup {NoClient} :
          /\ IsFallback(k, f)
          /\ active' = NextPrimary(k, a, f)
          /\ last' = active'
          /\ Flush(k, Running(k), active', last)
    BY <1>4 DEF UpdateServerState
  <2>2. \A i \in Slots :
          /\ k[i].used => (cl'[i].shown <=> (i = active' \/ k[i].overlay))
          /\ ~k[i].used => cl'[i] = k[i]
    BY <2>1, <1>3 DEF Running, Client
  <2>3. /\ active' \in Slots \cup {NoClient}
        /\ active' # NoClient => Displayable(k, active')
        /\ active' = NoClient =>
             a = NoClient \/ \A i \in Slots : ~Displayable(k, i)
    BY <2>1, <1>2
  <2> QED
    BY <2>1, <1>3, <2>2, <2>3
<1> QED
  BY <1>1, <1>4 DEF UpdateServerState

-----------------------------------------------------------------------------
(***************************************************************************)
(* The parts of the invariant that speak about the display, for clients in *)
(* the states k and the primary client a.                                  *)
(***************************************************************************)

\* Whatever the clients' states are, an update that is not cut short leaves
\* exactly the clients shown that should be; the early return is harmless when
\* the display was right already.
LEMMA UpdateSettles ==
  ASSUME TypeOK, NEW k, WellFormed(k), NEW a \in Slots \cup {NoClient},
         UpdateServerState(k, a),
         UNCHANGED made,
         NothingChanged(k, a) =>
           /\ k[a].used /\ k[a].active /\ k[a].shown
           /\ ~k[a].overlay \/ BothKinds(a)
           /\ \A i \in Slots :
                k[i].used /\ ~k[i].overlay /\ k[i].shown => i = a \/ BothKinds(i),
         a = NoClient => \A i \in Slots : ~(Displayable(k, i) /\ ~BothKinds(i))
  PROVE  /\ active' \in Slots \cup {NoClient}
         /\ IndicesAgree'
         /\ OnlyPrimaryShown'
         /\ active' # NoClient =>
              /\ cl'[active'].used /\ cl'[active'].active /\ cl'[active'].shown
              /\ ~cl'[active'].overlay \/ BothKinds(active)'
         /\ NoIdleWithApplications'
<1>0. \A i : BothKinds(i)' <=> BothKinds(i)
  BY DEF BothKinds
<1>1. CASE /\ NothingChanged(k, a)
           /\ active' = a
           /\ last' = last
           /\ cl' = k
  <2>1. a \in Slots /\ a = last
    BY <1>1 DEF NothingChanged, NoClient, Slots
  <2>2. a # NoClient
    BY <2>1 DEF Slots, NoClient
  <2> QED
    BY <1>0, <1>1, <2>1, <2>2
    DEF IndicesAgree, OnlyPrimaryShown, NoIdleWithApplications, BothKinds
<1>2. CASE /\ last' = active'
           /\ active' # NoClient => Displayable(k, active')
           /\ active' = NoClient =>
                a = NoClient \/ \A i \in Slots : ~Displayable(k, i)
           /\ \A i \in Slots :
                k[i].used => (cl'[i].shown <=> (i = active' \/ k[i].overlay))
  <2>1. /\ active' \in Slots \cup {NoClient}
        /\ \A i \in Slots :
             /\ cl'[i].used = k[i].used
             /\ cl'[i].overlay = k[i].overlay
             /\ cl'[i].active = k[i].active
    BY UpdateResult
  <2>2. \A i \in Slots : Displayable(cl', i) <=> Displayable(k, i)
    BY <2>1 DEF Displayable
  <2>3. active' # NoClient =>
          /\ cl'[active'].used /\ cl'[active'].active /\ cl'[active'].shown
          /\ ~cl'[active'].overlay
    BY <1>2, <2>1, <2>2 DEF Displayable
  <2>4. OnlyPrimaryShown'
    BY <1>2, <2>1 DEF OnlyPrimaryShown
  <2>5. NoIdleWithApplications'
    BY <1>0, <1>2, <2>2 DEF NoIdleWithApplications, BothKinds
  <2> QED
    BY <1>2, <2>1, <2>3, <2>4, <2>5 DEF IndicesAgree
<1> QED
  BY <1>1, <1>2, UpdateResult

-----------------------------------------------------------------------------
(***************************************************************************)
(* The table of clients, whatever they do with their sessions.             *)
(***************************************************************************)

\* init_server_state establishes the invariant of the table.
LEMMA TableInit == Init => TableInv
<1> SUFFICES ASSUME Init PROVE TableInv
  OBVIOUS
<1>0. NoState \in Client
  BY DEF NoState, Client
<1>1. TypeOK
  <2>1. cl \in [Slots -> Client]
    BY <1>0 DEF Init
  <2>2. /\ xc \in [Slots -> {"null", "live", "freed"}]
        /\ pc \in [Slots -> PCs]
    BY DEF Init, PCs
  <2>3. /\ comp \in [Slots -> BOOLEAN]
        /\ mainVis \in [Slots -> BOOLEAN]
        /\ arg \in [Slots -> BOOLEAN]
        /\ dangling \in BOOLEAN
    BY DEF Init
  <2>4. made \in [Slots -> 0 .. 3]
    BY DEF Init
  <2> QED
    BY <2>1, <2>2, <2>3, <2>4 DEF Init, TypeOK
<1>2. SlotUse
  BY DEF Init, SlotUse, NoState, NoClient, Slots
<1> QED
  BY <1>1, <1>2 DEF Init, TableInv, IndicesAgree, SessionsMade, PrimaryActive

\* Between sections the table is well formed, only clients of the table render,
\* and the primary client renders unless it is shutting down.
LEMMA Idle ==
  ASSUME TableInv
  PROVE  /\ WellFormed(cl)
         /\ \A i \in Slots : cl[i].active => cl[i].used
         /\ \A i \in Slots : pc[i] = "serve" /\ active = i => cl[i].active
<1>1. WellFormed(cl) /\ \A i \in Slots : cl[i].active => cl[i].used
  BY DEF TableInv, TypeOK, SlotUse, WellFormed, NoState
<1>2. \A i \in Slots : i # NoClient
  BY DEF Slots, NoClient
<1> QED
  BY <1>1, <1>2 DEF TableInv, PrimaryActive, ShuttingDown

\* Steps of a handler between its sections.
LEMMA TableQuietStep ==
  ASSUME TableInv, NEW i \in Slots, NEW to \in PCs,
         UNCHANGED <<active, last, cl>>,
         pc' = [pc EXCEPT ![i] = to],
         pc[i] \in ShuttingDown <=> to \in ShuttingDown,
         pc[i] \in {"serve", "read", "push", "unhook"}
           <=> to \in {"serve", "read", "push", "unhook"},
         to # "free",
         made' = made
  PROVE  IndicesAgree' /\ SlotUse' /\ PrimaryActive'
<1> USE DEF TableInv
<1>1. \A j \in Slots : pc'[j] = IF j = i THEN to ELSE pc[j]
  BY DEF TypeOK
<1>2. SlotUse'
  BY <1>1 DEF SlotUse
<1>3. PrimaryActive'
  BY <1>1 DEF PrimaryActive, TypeOK
<1> QED
  BY <1>2, <1>3 DEF IndicesAgree

\* A step that hands the clients' states k to the update, when k differs from
\* cl at most in which clients have started rendering: a slot that is left free
\* is never the primary one, since the update leaves a client that renders or
\* none.
LEMMA TableUpdateStep ==
  ASSUME TableInv, NEW k, WellFormed(k), NEW a \in Slots \cup {NoClient},
         UpdateServerState(k, a),
         \A j \in Slots :
           /\ k[j].used = cl[j].used
           /\ k[j].overlay = cl[j].overlay
           /\ k[j].active => made[j] > 0,
         pc' \in [Slots -> PCs],
         \A j \in Slots :
           pc'[j] \in {"serve", "read", "push", "unhook"}
             <=> pc[j] \in {"serve", "read", "push", "unhook"},
         UNCHANGED <<xc, arg, made>>
  PROVE  TypeOK' /\ IndicesAgree' /\ SlotUse' /\ PrimaryActive'
<1> USE DEF TableInv
<1>1. /\ cl' \in [Slots -> Client]
      /\ comp' \in [Slots -> BOOLEAN]
      /\ mainVis' \in [Slots -> BOOLEAN]
      /\ dangling' \in BOOLEAN
      /\ active' \in Slots \cup {NoClient}
      /\ last' \in Slots \cup {NoClient}
      /\ \A j \in Slots :
           /\ cl'[j].used = k[j].used
           /\ cl'[j].overlay = k[j].overlay
           /\ cl'[j].active = k[j].active
           /\ ~k[j].used => cl'[j] = k[j]
  BY UpdateResult
<1>2. TypeOK'
  BY <1>1 DEF TypeOK
<1>3. /\ last' = active'
      /\ active' # NoClient => k[active'].active
  <2>1. CASE NothingChanged(k, a) /\ active' = a /\ last' = last /\ cl' = k
    BY <2>1 DEF NothingChanged
  <2>2. CASE last' = active' /\ (active' # NoClient => Displayable(k, active'))
    BY <2>2 DEF Displayable
  <2> QED
    BY <2>1, <2>2, UpdateResult
<1>4. PrimaryActive'
  BY <1>1, <1>3 DEF PrimaryActive
<1>5. \A j \in Slots : pc'[j] = "free" => active' # j
  <2> SUFFICES ASSUME NEW j \in Slots, pc'[j] = "free", active' = j PROVE FALSE
    OBVIOUS
  <2>1. j # NoClient
    BY DEF Slots, NoClient
  <2>2. k[j].active /\ k[j].used
    BY <1>3, <2>1 DEF WellFormed, NoState
  <2>3. pc[j] \in {"serve", "read", "push", "unhook"}
    BY <2>2 DEF SlotUse
  <2> QED
    BY <2>3
<1>6. SlotUse'
  BY <1>1, <1>5 DEF SlotUse, WellFormed
<1> QED
  BY <1>2, <1>3, <1>4, <1>6 DEF IndicesAgree

\* Every step preserves SessionsMade.
LEMMA SessionsMadeStep ==
  ASSUME TypeOK, SessionsMade, [Next]_vars
  PROVE  SessionsMade'
<1> USE DEF TypeOK, SessionsMade
<1>1. CASE UNCHANGED vars
  BY <1>1 DEF vars
<1>2. ASSUME NEW i \in Slots, Connect(i) \/ SessionCreateRead(i) \/ SessionCreatePush(i)
      PROVE  SessionsMade'
  BY <1>2 DEF Connect, SessionCreateRead, SessionCreatePush
<1>3. ASSUME NEW i \in Slots, NEW overlay \in BOOLEAN, SessionCreate(i, overlay)
      PROVE  SessionsMade'
  BY <1>3 DEF SessionCreate, MadeOneMore
<1>4. ASSUME NEW i \in Slots, ActivateSession(i) \/ SetPrimaryClient(i)
      PROVE  SessionsMade'
  BY <1>4 DEF ActivateSession, PredictFrame, SetPrimaryClient, FindClient
<1>5. ASSUME NEW i \in Slots, SessionDestroy(i) \/ SessionDestroyUnhook(i)
      PROVE  SessionsMade'
  BY <1>5 DEF SessionDestroy, SessionDestroyUnhook, Unhook
<1>6. ASSUME NEW i \in Slots, Shutdown(i)
      PROVE  SessionsMade'
  BY <1>6 DEF Shutdown, ShutdownDetach, ShutdownDestroy, ShutdownUnhook, Unhook,
              ShutdownDeactivate
<1> QED
  BY <1>1, <1>2, <1>3, <1>4, <1>5, <1>6 DEF Next, Session

\* A client that deactivates itself has left the table, so that the update sees
\* the clients as they are.
LEMMA DeactivateIsUpdate ==
  ASSUME TypeOK, SlotUse, NEW i \in Slots, pc[i] = "deactivate",
         UpdateServerState([cl EXCEPT ![i].active = FALSE], active)
  PROVE  UpdateServerState(cl, active)
<1>1. cl[i] = NoState
  BY DEF SlotUse
<1>2. [cl EXCEPT ![i].active = FALSE] = cl
  <2> DEFINE k == [cl EXCEPT ![i].active = FALSE]
  <2>1. k[i] = [cl[i] EXCEPT !.active = FALSE]
    BY DEF TypeOK
  <2>2. [NoState EXCEPT !.active = FALSE] = NoState
    <3>1. NoState \in Client /\ NoState.active = FALSE
      BY DEF NoState, Client
    <3> QED
      BY <3>1 DEF Client
  <2>3. k[i] = cl[i]
    BY <1>1, <2>1, <2>2
  <2> QED
    BY <2>3 DEF TypeOK
<1> QED
  BY <1>2

\* Every handler preserves the invariant of the table, case by case.
LEMMA TableStep ==
  ASSUME TableInv, NEW i \in Slots,
         Connect(i) \/ Session(i) \/ SetPrimaryClient(i) \/ Shutdown(i)
  PROVE  TypeOK' /\ IndicesAgree' /\ SlotUse' /\ PrimaryActive'
<1> DEFINE Goal == TypeOK' /\ IndicesAgree' /\ SlotUse' /\ PrimaryActive'
<1> USE DEF TableInv
<1>a. /\ WellFormed(cl)
      /\ \A j \in Slots : cl[j].active => cl[j].used
      /\ pc[i] = "serve" /\ active = i => cl[i].active
  BY Idle
<1>1. ASSUME Connect(i) PROVE Goal
  <2>1. /\ pc[i] = "free"
        /\ cl' = [cl EXCEPT ![i] = [used |-> TRUE, overlay |-> FALSE,
                                    active |-> FALSE, shown |-> FALSE]]
        /\ pc' = [pc EXCEPT ![i] = "serve"]
        /\ UNCHANGED <<active, last, xc, comp, mainVis, arg, made, dangling>>
    BY <1>1 DEF Connect
  <2>2. active # i
    BY <2>1 DEF SlotUse
  <2>3. TypeOK'
    BY <2>1 DEF TypeOK, Client, PCs
  <2>4. /\ \A j \in Slots \ {i} : cl'[j] = cl[j] /\ pc'[j] = pc[j]
        /\ cl'[i].used /\ ~cl'[i].overlay /\ ~cl'[i].active
        /\ pc'[i] = "serve"
    BY <2>1 DEF TypeOK
  <2>5. SlotUse'
    BY <2>1, <2>4 DEF SlotUse
  <2>6. PrimaryActive'
    BY <2>1, <2>2, <2>4 DEF PrimaryActive, TypeOK
  <2> QED
    BY <2>1, <2>3, <2>5, <2>6 DEF IndicesAgree
<1>2. ASSUME NEW overlay \in BOOLEAN, SessionCreate(i, overlay) PROVE Goal
  <2>1. /\ pc[i] = "serve"
        /\ cl' = [cl EXCEPT ![i].overlay = overlay]
        /\ xc' = [xc EXCEPT ![i] = "live"]
        /\ made' = [made EXCEPT ![i] = MadeOneMore(made[i], overlay = cl[i].overlay)]
        /\ pc' = [pc EXCEPT ![i] = "read"]
        /\ UNCHANGED <<active, last, comp, mainVis, arg, dangling>>
    BY <1>2 DEF SessionCreate
  <2>2. /\ \A j \in Slots \ {i} : cl'[j] = cl[j] /\ pc'[j] = pc[j] /\ made'[j] = made[j]
        /\ cl'[i].used = cl[i].used
        /\ cl'[i].active = cl[i].active
        /\ pc'[i] = "read"
        /\ made'[i] > 0
    BY <2>1 DEF TypeOK, Client, MadeOneMore
  <2>3. TypeOK'
    <3>1. cl' \in [Slots -> Client]
      BY <2>1 DEF TypeOK, Client
    <3>2. xc' \in [Slots -> {"null", "live", "freed"}] /\ pc' \in [Slots -> PCs]
      BY <2>1 DEF TypeOK, PCs
    <3>3. made' \in [Slots -> 0 .. 3]
      BY <2>1 DEF TypeOK, MadeOneMore
    <3> QED
      BY <2>1, <3>1, <3>2, <3>3 DEF TypeOK
  <2>4. cl[i].used
    BY <2>1 DEF SlotUse
  <2>5. SlotUse'
    BY <2>1, <2>2, <2>4 DEF SlotUse
  <2>6. PrimaryActive'
    BY <2>1, <2>2 DEF PrimaryActive, TypeOK, ShuttingDown
  <2> QED
    BY <2>1, <2>3, <2>5, <2>6 DEF IndicesAgree
<1>3. ASSUME SessionCreateRead(i) PROVE Goal
  <2>1. TypeOK'
    BY <1>3 DEF SessionCreateRead, TypeOK, PCs, Client
  <2> QED
    BY <1>3, <2>1, TableQuietStep DEF SessionCreateRead, PCs, ShuttingDown
<1>4. ASSUME SessionCreatePush(i) PROVE Goal
  <2>1. TypeOK'
    BY <1>4 DEF SessionCreatePush, TypeOK, PCs
  <2> QED
    BY <1>4, <2>1, TableQuietStep DEF SessionCreatePush, PCs, ShuttingDown
<1>5. ASSUME SessionDestroy(i) PROVE Goal
  <2>1. TypeOK'
    BY <1>5 DEF SessionDestroy, TypeOK, PCs
  <2> QED
    BY <1>5, <2>1, TableQuietStep DEF SessionDestroy, PCs, ShuttingDown
<1>6. ASSUME SessionDestroyUnhook(i) PROVE Goal
  <2>1. TypeOK'
    BY <1>6 DEF SessionDestroyUnhook, Unhook, TypeOK, PCs
  <2> QED
    BY <1>6, <2>1, TableQuietStep DEF SessionDestroyUnhook, Unhook, PCs, ShuttingDown
<1>7. ASSUME ShutdownDestroy(i) PROVE Goal
  <2>1. TypeOK'
    BY <1>7 DEF ShutdownDestroy, TypeOK, PCs
  <2> QED
    BY <1>7, <2>1, TableQuietStep DEF ShutdownDestroy, PCs, ShuttingDown
<1>8. ASSUME ShutdownUnhook(i) PROVE Goal
  <2>1. TypeOK'
    BY <1>8 DEF ShutdownUnhook, Unhook, TypeOK, PCs
  <2> QED
    BY <1>8, <2>1, TableQuietStep DEF ShutdownUnhook, Unhook, PCs, ShuttingDown
<1>9. ASSUME ShutdownDetach(i) PROVE Goal
  <2>1. /\ pc[i] = "serve"
        /\ cl' = [cl EXCEPT ![i] = NoState]
        /\ made' = [made EXCEPT ![i] = 0]
        /\ pc' = [pc EXCEPT ![i] = "cleanup"]
        /\ UNCHANGED <<active, last, xc, comp, mainVis, arg, dangling>>
    BY <1>9 DEF ShutdownDetach
  <2>2. /\ \A j \in Slots \ {i} : cl'[j] = cl[j] /\ pc'[j] = pc[j] /\ made'[j] = made[j]
        /\ cl'[i] = NoState
        /\ pc'[i] = "cleanup"
        /\ made'[i] = 0
    BY <2>1 DEF TypeOK
  <2>3. TypeOK'
    <3>1. NoState \in Client
      BY DEF NoState, Client
    <3>2. cl' \in [Slots -> Client]
      BY <2>1, <3>1 DEF TypeOK
    <3>3. made' \in [Slots -> 0 .. 3] /\ pc' \in [Slots -> PCs]
      BY <2>1 DEF TypeOK, PCs
    <3> QED
      BY <2>1, <3>2, <3>3 DEF TypeOK
  <2>4. SlotUse'
    BY <2>1, <2>2 DEF SlotUse, NoState
  <2>5. PrimaryActive'
    BY <2>1, <2>2 DEF PrimaryActive, ShuttingDown, TypeOK
  <2> QED
    BY <2>1, <2>3, <2>4, <2>5 DEF IndicesAgree
<1>10. ASSUME ActivateSession(i) PROVE Goal
  <2> DEFINE k == [cl EXCEPT ![i].active = TRUE]
  <2>1. /\ pc[i] = "serve" /\ ~cl[i].active
        /\ UNCHANGED <<xc, pc, arg, made>>
    BY <1>10 DEF ActivateSession, PredictFrame
  <2>2. active # i /\ cl[i].used
    BY <1>a, <2>1 DEF SlotUse
  <2>3. k \in [Slots -> Client] /\ WellFormed(k)
        /\ \A j \in Slots :
             /\ k[j].used = cl[j].used
             /\ k[j].overlay = cl[j].overlay
             /\ j # i => k[j] = cl[j]
    <3>1. k \in [Slots -> Client]
      BY DEF TypeOK, Client
    <3>2. \A j \in Slots :
             /\ k[j].used = cl[j].used
             /\ k[j].overlay = cl[j].overlay
             /\ j # i => k[j] = cl[j]
      BY DEF TypeOK, Client
    <3> HIDE DEF k
    <3> QED
      BY <1>a, <2>2, <3>1, <3>2 DEF WellFormed
  <2>4. \A j \in Slots : k[j].active => made[j] > 0
    <3>1. made[i] > 0
      BY <1>10 DEF ActivateSession, PredictFrame, SessionsMade, TypeOK
    <3> QED
      BY <2>3, <3>1 DEF SlotUse
  <2>5. CASE k[i].overlay
    <3>1. Flush(k, {i}, active, last) /\ UNCHANGED <<active, last>>
      BY <1>10, <2>5 DEF ActivateSession
    <3>2. /\ {i} \in SUBSET Slots
          /\ active \in Slots \cup {NoClient} /\ last \in Slots \cup {NoClient}
      BY DEF TypeOK
    <3> HIDE DEF k, TableInv
    <3>3. /\ cl' \in [Slots -> Client]
          /\ comp' \in [Slots -> BOOLEAN]
          /\ mainVis' \in [Slots -> BOOLEAN]
          /\ dangling' \in BOOLEAN
          /\ \A j \in Slots :
               /\ cl'[j].used = k[j].used
               /\ cl'[j].overlay = k[j].overlay
               /\ cl'[j].active = k[j].active
               /\ j \in {i} => (cl'[j].shown <=> (j = active \/ k[j].overlay))
               /\ j \notin {i} => cl'[j] = k[j]
      <4>1. TypeOK
        BY DEF TableInv
      <4> QED
        BY <2>3, <3>1, <3>2, <4>1, FlushTypes
    <3>4. /\ \A j \in Slots \ {i} : cl'[j] = cl[j]
          /\ cl'[i].used /\ cl'[i].overlay
      BY <2>2, <2>3, <2>5, <3>3
    <3>5. TypeOK'
      BY <2>1, <3>1, <3>3 DEF TypeOK, TableInv
    <3>6. SlotUse'
      <4>1. made[i] > 0
        BY <1>10 DEF ActivateSession, PredictFrame, SessionsMade, TypeOK, TableInv
      <4> QED
        BY <2>1, <2>2, <3>1, <3>4, <4>1 DEF SlotUse, TableInv
    <3>7. PrimaryActive'
      BY <2>1, <2>2, <3>1, <3>4 DEF PrimaryActive, TypeOK, TableInv
    <3> QED
      BY <3>1, <3>5, <3>6, <3>7 DEF IndicesAgree, TableInv
  <2>6. CASE ~k[i].overlay
    <3>1. UpdateServerState(k, i)
      BY <1>10, <2>2, <2>6 DEF ActivateSession, SetActiveClient
    <3>2. i \in Slots \cup {NoClient} /\ pc' \in [Slots -> PCs]
      BY <2>1 DEF TypeOK
    <3> HIDE DEF k, TableInv
    <3> QED
      BY <2>1, <2>3, <2>4, <3>1, <3>2, TableUpdateStep
  <2> QED
    BY <2>5, <2>6
<1>11. ASSUME SetPrimaryClient(i) PROVE Goal
  <2>1. UNCHANGED <<xc, pc, arg, made>> /\ SetActiveClient(cl, i)
    BY <1>11 DEF SetPrimaryClient, FindClient
  <2>2. CASE i = active
    <3>1. UNCHANGED <<active, last, cl, comp, mainVis, dangling>>
      BY <2>1, <2>2 DEF SetActiveClient
    <3> QED
      BY <2>1, <3>1 DEF TypeOK, IndicesAgree, SlotUse, PrimaryActive
  <2>3. CASE i # active
    <3>1. UpdateServerState(cl, i)
      BY <2>1, <2>3 DEF SetActiveClient
    <3>2. /\ i \in Slots \cup {NoClient} /\ pc' \in [Slots -> PCs]
          /\ \A j \in Slots : cl[j].active => made[j] > 0
      BY <2>1 DEF TypeOK, SlotUse
    <3> HIDE DEF TableInv
    <3> QED
      BY <1>a, <2>1, <3>1, <3>2, TableUpdateStep
  <2> QED
    BY <2>2, <2>3
<1>12. ASSUME ShutdownDeactivate(i) PROVE Goal
  <2>1. /\ pc[i] = "deactivate"
        /\ UpdateServerState([cl EXCEPT ![i].active = FALSE], active)
        /\ pc' = [pc EXCEPT ![i] = "free"]
        /\ UNCHANGED <<xc, arg, made>>
    BY <1>12 DEF ShutdownDeactivate
  <2>2. UpdateServerState(cl, active)
    BY <2>1, DeactivateIsUpdate
  <2>3. /\ pc' \in [Slots -> PCs]
        /\ \A j \in Slots : pc'[j] = IF j = i THEN "free" ELSE pc[j]
    BY <2>1 DEF TypeOK, PCs
  <2>4. /\ \A j \in Slots : cl[j].active => made[j] > 0
        /\ active \in Slots \cup {NoClient}
    BY DEF SlotUse, TypeOK
  <2>5. \A j \in Slots :
           pc'[j] \in {"serve", "read", "push", "unhook"}
             <=> pc[j] \in {"serve", "read", "push", "unhook"}
    BY <2>1, <2>3
  <2> HIDE DEF TableInv
  <2> QED
    BY <1>a, <2>1, <2>2, <2>3, <2>4, <2>5, TableUpdateStep
<1> QED
  BY <1>1, <1>2, <1>3, <1>4, <1>5, <1>6, <1>7, <1>8, <1>9, <1>10, <1>11, <1>12
  DEF Session, Shutdown

\* The table is consistent in every reachable state, also when sessions are
\* created again as another kind.
THEOREM TableInvariant == Spec => []TableInv
<1>1. TableInv /\ [Next]_vars => TableInv'
  <2> SUFFICES ASSUME TableInv, [Next]_vars PROVE TableInv'
    OBVIOUS
  <2>1. SessionsMade'
    BY SessionsMadeStep DEF TableInv
  <2>2. CASE UNCHANGED vars
    <3>1. UNCHANGED <<active, last, cl, xc, comp, mainVis, pc, arg, made, dangling>>
      BY <2>2 DEF vars
    <3>2. TypeOK'
      BY <3>1 DEF TableInv, TypeOK
    <3> QED
      BY <2>1, <3>1, <3>2 DEF TableInv, IndicesAgree, SlotUse, PrimaryActive
  <2>3. ASSUME NEW i \in Slots,
               Connect(i) \/ Session(i) \/ SetPrimaryClient(i) \/ Shutdown(i)
        PROVE  TableInv'
    BY <2>1, <2>3, TableStep DEF TableInv
  <2> QED
    BY <2>2, <2>3 DEF Next
<1> QED
  BY <1>1, TableInit, PTL DEF Spec

\* Every variable keeps its type; in particular the primary index is that of a slot.
THEOREM PrimaryTypes == Spec => []TypeOK
<1>1. TableInv => TypeOK
  BY DEF TableInv
<1> QED
  BY <1>1, TableInvariant, PTL

-----------------------------------------------------------------------------
(***************************************************************************)
(* The display.                                                            *)
(***************************************************************************)

\* The three properties of the display: the primary application is shown and no
\* other, it can be displayed, and there is one if any can.
DisplayInv == OnlyPrimaryShown /\ PrimaryDisplayable /\ NoIdleWithApplications

\* Steps that change neither the clients' states nor which of them are shutting
\* down.
LEMMA QuietStep ==
  ASSUME TypeOK, DisplayInv, NEW i \in Slots, NEW to \in PCs,
         UNCHANGED <<active, cl, made>>,
         pc' = [pc EXCEPT ![i] = to],
         pc[i] \in ShuttingDown <=> to \in ShuttingDown
  PROVE  DisplayInv'
<1> USE DEF DisplayInv, BothKinds
<1>1. \A j \in Slots : pc'[j] = IF j = i THEN to ELSE pc[j]
  BY DEF TypeOK
<1>2. PrimaryDisplayable'
  BY <1>1 DEF PrimaryDisplayable, Displayable, TypeOK
<1> QED
  BY <1>2 DEF OnlyPrimaryShown, NoIdleWithApplications, Displayable

\* Every handler preserves the display, case by case.  The kind of a session
\* matters in SessionCreate only.
LEMMA DisplayStep ==
  ASSUME TableInv, DisplayInv, NEW i \in Slots,
         Connect(i) \/ Session(i) \/ SetPrimaryClient(i) \/ Shutdown(i)
  PROVE  DisplayInv'
<1> USE DEF DisplayInv, BothKinds
<1>t. TypeOK /\ IndicesAgree /\ SlotUse /\ SessionsMade
  BY DEF TableInv
<1>a. /\ WellFormed(cl)
      /\ \A j \in Slots : cl[j].active => cl[j].used
      /\ pc[i] = "serve" /\ active = i => cl[i].active
  BY Idle
<1>1. ASSUME Connect(i) PROVE DisplayInv'
  <2>1. /\ pc[i] = "free"
        /\ cl' = [cl EXCEPT ![i] = [used |-> TRUE, overlay |-> FALSE,
                                    active |-> FALSE, shown |-> FALSE]]
        /\ pc' = [pc EXCEPT ![i] = "serve"]
        /\ UNCHANGED <<active, made>>
    BY <1>1 DEF Connect
  <2>2. active # i
    BY <1>t, <2>1 DEF SlotUse
  <2>3. /\ \A j \in Slots \ {i} : cl'[j] = cl[j] /\ pc'[j] = pc[j]
        /\ ~cl'[i].active /\ ~cl'[i].shown
    BY <1>t, <2>1 DEF TypeOK
  <2>4. OnlyPrimaryShown'
    BY <2>1, <2>3 DEF OnlyPrimaryShown
  <2>5. PrimaryDisplayable'
    BY <1>t, <2>1, <2>2, <2>3 DEF PrimaryDisplayable, Displayable, TypeOK
  <2>6. NoIdleWithApplications'
    BY <2>1, <2>3 DEF NoIdleWithApplications, Displayable
  <2> QED
    BY <2>4, <2>5, <2>6
<1>2. ASSUME NEW overlay \in BOOLEAN, SessionCreate(i, overlay) PROVE DisplayInv'
  <2>1. /\ pc[i] = "serve"
        /\ made' = [made EXCEPT ![i] = MadeOneMore(made[i], overlay = cl[i].overlay)]
        /\ cl' = [cl EXCEPT ![i].overlay = overlay]
        /\ pc' = [pc EXCEPT ![i] = "read"]
        /\ UNCHANGED active
    BY <1>2 DEF SessionCreate
  <2>2. /\ \A j \in Slots \ {i} : cl'[j] = cl[j] /\ pc'[j] = pc[j]
        /\ cl'[i].overlay = overlay
        /\ cl'[i].used = cl[i].used
        /\ cl'[i].active = cl[i].active
        /\ cl'[i].shown = cl[i].shown
        /\ pc'[i] = "read"
    BY <1>t, <2>1 DEF TypeOK, Client
  <2>k. /\ \A j \in Slots \ {i} : made'[j] = made[j]
        /\ made[i] = 3 => made'[i] = 3
        /\ made[i] # 0 /\ overlay # cl[i].overlay => made'[i] = 3
    BY <1>t, <2>1 DEF TypeOK, MadeOneMore
  <2>3. made[i] = 0 => ~cl[i].active /\ active # i /\ ~cl[i].shown
    BY <1>t, <1>a, <2>1 DEF SlotUse, OnlyPrimaryShown
  <2>4. OnlyPrimaryShown'
    BY <2>1, <2>2, <2>k, <2>3 DEF OnlyPrimaryShown
  <2>5. \A j \in Slots : Displayable(cl', j) /\ made'[j] # 3 => Displayable(cl, j) /\ made[j] # 3
    BY <2>1, <2>2, <2>k, <2>3 DEF Displayable
  <2>6. PrimaryDisplayable'
    BY <1>t, <2>1, <2>2, <2>k, <2>3 DEF PrimaryDisplayable, TypeOK, ShuttingDown
  <2>7. NoIdleWithApplications'
    BY <2>1, <2>5 DEF NoIdleWithApplications
  <2> QED
    BY <2>4, <2>6, <2>7
<1>3. ASSUME SessionCreateRead(i) PROVE DisplayInv'
  BY <1>t, <1>3, QuietStep DEF SessionCreateRead, PCs, ShuttingDown
<1>4. ASSUME SessionCreatePush(i) PROVE DisplayInv'
  BY <1>t, <1>4, QuietStep DEF SessionCreatePush, PCs, ShuttingDown
<1>5. ASSUME SessionDestroy(i) PROVE DisplayInv'
  BY <1>t, <1>5, QuietStep DEF SessionDestroy, PCs, ShuttingDown
<1>6. ASSUME SessionDestroyUnhook(i) PROVE DisplayInv'
  BY <1>t, <1>6, QuietStep DEF SessionDestroyUnhook, PCs, ShuttingDown
<1>7. ASSUME ShutdownDestroy(i) PROVE DisplayInv'
  BY <1>t, <1>7, QuietStep DEF ShutdownDestroy, PCs, ShuttingDown
<1>8. ASSUME ShutdownUnhook(i) PROVE DisplayInv'
  BY <1>t, <1>8, QuietStep DEF ShutdownUnhook, PCs, ShuttingDown
<1>9. ASSUME ShutdownDetach(i) PROVE DisplayInv'
  <2>1. /\ cl' = [cl EXCEPT ![i] = NoState]
        /\ pc' = [pc EXCEPT ![i] = "cleanup"]
        /\ made' = [made EXCEPT ![i] = 0]
        /\ UNCHANGED active
    BY <1>9 DEF ShutdownDetach
  <2>2. /\ \A j \in Slots \ {i} : cl'[j] = cl[j] /\ pc'[j] = pc[j] /\ made'[j] = made[j]
        /\ cl'[i] = NoState
        /\ pc'[i] = "cleanup"
    BY <1>t, <2>1 DEF TypeOK
  <2>3. OnlyPrimaryShown'
    BY <2>1, <2>2 DEF OnlyPrimaryShown, NoState
  <2>4. PrimaryDisplayable'
    BY <1>t, <2>1, <2>2 DEF PrimaryDisplayable, Displayable, ShuttingDown, TypeOK
  <2>5. NoIdleWithApplications'
    BY <2>1, <2>2 DEF NoIdleWithApplications, Displayable, NoState
  <2> QED
    BY <2>3, <2>4, <2>5
<1>10. ASSUME ActivateSession(i) PROVE DisplayInv'
  <2> DEFINE k == [cl EXCEPT ![i].active = TRUE]
  <2>1. pc[i] = "serve" /\ ~cl[i].active /\ UNCHANGED <<pc, made>>
    BY <1>10 DEF ActivateSession, PredictFrame
  <2>2. active # i /\ cl[i].used
    BY <1>t, <1>a, <2>1 DEF SlotUse
  <2>3. /\ k \in [Slots -> Client]
        /\ \A j \in Slots :
             /\ k[j].used = cl[j].used
             /\ k[j].overlay = cl[j].overlay
             /\ j # i => k[j] = cl[j]
    BY <1>t DEF TypeOK, Client
  <2>4. CASE k[i].overlay
    <3>1. Flush(k, {i}, active, last) /\ UNCHANGED <<active, last>>
      BY <1>10, <2>4 DEF ActivateSession
    <3>2. /\ {i} \in SUBSET Slots
          /\ active \in Slots \cup {NoClient} /\ last \in Slots \cup {NoClient}
      BY <1>t DEF TypeOK
    <3> HIDE DEF k, DisplayInv
    <3>3. /\ cl' \in [Slots -> Client]
          /\ comp' \in [Slots -> BOOLEAN]
          /\ mainVis' \in [Slots -> BOOLEAN]
          /\ dangling' \in BOOLEAN
          /\ \A j \in Slots :
               /\ cl'[j].used = k[j].used
               /\ cl'[j].overlay = k[j].overlay
               /\ cl'[j].active = k[j].active
               /\ j \in {i} => (cl'[j].shown <=> (j = active \/ k[j].overlay))
               /\ j \notin {i} => cl'[j] = k[j]
      BY <1>t, <2>3, <3>1, <3>2, FlushTypes
    <3>4. /\ \A j \in Slots \ {i} : cl'[j] = cl[j]
          /\ cl'[i].used /\ cl'[i].overlay
      BY <2>2, <2>3, <2>4, <3>3
    <3> USE DEF DisplayInv
    <3>5. OnlyPrimaryShown'
      BY <2>1, <3>1, <3>4 DEF OnlyPrimaryShown
    <3>6. PrimaryDisplayable'
      BY <1>t, <2>1, <2>2, <3>1, <3>4 DEF PrimaryDisplayable, Displayable, TypeOK
    <3>7. NoIdleWithApplications'
      BY <2>1, <3>1, <3>4 DEF NoIdleWithApplications, Displayable
    <3> QED
      BY <3>5, <3>6, <3>7
  <2>5. CASE ~k[i].overlay
    <3>1. UpdateServerState(k, i)
      BY <1>10, <2>2, <2>5 DEF ActivateSession, SetActiveClient
    <3>2. ~NothingChanged(k, i)
      BY <1>t, <2>2 DEF NothingChanged, IndicesAgree
    <3>3. i # NoClient /\ i \in Slots \cup {NoClient}
      BY DEF Slots, NoClient
    <3> HIDE DEF k
    <3>4. WellFormed(k)
      BY <1>a, <2>2, <2>3 DEF WellFormed
    <3> QED
      BY <1>t, <2>1, <3>1, <3>2, <3>3, <3>4, UpdateSettles DEF PrimaryDisplayable
  <2> QED
    BY <2>4, <2>5
<1>11. ASSUME SetPrimaryClient(i) PROVE DisplayInv'
  <2>1. UNCHANGED <<pc, made>> /\ SetActiveClient(cl, i)
    BY <1>11 DEF SetPrimaryClient, FindClient
  <2>2. CASE i = active
    <3>1. UNCHANGED <<active, cl>>
      BY <2>1, <2>2 DEF SetActiveClient
    <3> QED
      BY <2>1, <3>1
      DEF OnlyPrimaryShown, PrimaryDisplayable, NoIdleWithApplications, Displayable
  <2>3. CASE i # active
    <3>1. UpdateServerState(cl, i)
      BY <2>1, <2>3 DEF SetActiveClient
    <3>2. ~NothingChanged(cl, i)
      BY <1>t, <2>3 DEF NothingChanged, IndicesAgree
    <3>3. i # NoClient /\ i \in Slots \cup {NoClient}
      BY DEF Slots, NoClient
    <3> QED
      BY <1>t, <1>a, <2>1, <3>1, <3>2, <3>3, UpdateSettles DEF PrimaryDisplayable
  <2> QED
    BY <2>2, <2>3
<1>12. ASSUME ShutdownDeactivate(i) PROVE DisplayInv'
  <2>1. UpdateServerState(cl, active) /\ UNCHANGED made
    BY <1>t, <1>12, DeactivateIsUpdate DEF ShutdownDeactivate
  <2>2. active = NoClient => \A j \in Slots : ~(Displayable(cl, j) /\ ~BothKinds(j))
    BY DEF NoIdleWithApplications
  <2>3. ASSUME NothingChanged(cl, active)
        PROVE  /\ cl[active].used /\ cl[active].active /\ cl[active].shown
               /\ ~cl[active].overlay \/ BothKinds(active)
               /\ \A j \in Slots :
                    cl[j].used /\ ~cl[j].overlay /\ cl[j].shown => j = active \/ BothKinds(j)
    <3>1. active \in Slots /\ active # NoClient /\ cl[active].active
      BY <1>t, <2>3 DEF NothingChanged, NoClient, Slots, TypeOK
    <3>2. pc[active] \notin ShuttingDown
      BY <1>t, <1>a, <3>1 DEF SlotUse, ShuttingDown
    <3> QED
      BY <3>1, <3>2 DEF PrimaryDisplayable, OnlyPrimaryShown
  <2>4. active \in Slots \cup {NoClient}
    BY <1>t DEF TypeOK
  <2> QED
    BY <1>t, <1>a, <2>1, <2>2, <2>3, <2>4, UpdateSettles DEF PrimaryDisplayable
<1> QED
  BY <1>1, <1>2, <1>3, <1>4, <1>5, <1>6, <1>7, <1>8, <1>9, <1>10, <1>11, <1>12
  DEF Session, Shutdown

\* The inductive invariant holds in every reachable state.
THEOREM PrimaryInvariant == Spec => []PrimaryInv
<1>1. Init => DisplayInv
  BY DEF Init, DisplayInv, OnlyPrimaryShown, PrimaryDisplayable,
         NoIdleWithApplications, Displayable, NoState
<1>2. TableInv /\ DisplayInv /\ [Next]_vars => DisplayInv'
  <2> SUFFICES ASSUME TableInv, DisplayInv, [Next]_vars PROVE DisplayInv'
    OBVIOUS
  <2>1. CASE UNCHANGED vars
    BY <2>1
    DEF vars, DisplayInv, OnlyPrimaryShown, PrimaryDisplayable,
        NoIdleWithApplications, Displayable, BothKinds
  <2>2. ASSUME NEW i \in Slots,
               Connect(i) \/ Session(i) \/ SetPrimaryClient(i) \/ Shutdown(i)
        PROVE  DisplayInv'
    BY <2>2, DisplayStep
  <2> QED
    BY <2>1, <2>2 DEF Next
<1>3. TableInv /\ DisplayInv => PrimaryInv
  BY DEF PrimaryInv, DisplayInv
<1> QED
  BY <1>1, <1>2, <1>3, TableInvariant, PTL DEF Spec

\* Of the clients whose sessions were all of one kind at most one that is no
\* overlay is told to be visible and focused, and it is the primary one, however
\* many clients there are.
THEOREM OnlyPrimaryIsShown == Spec => []OnlyPrimaryShown
<1>1. PrimaryInv => OnlyPrimaryShown
  BY DEF PrimaryInv
<1> QED
  BY <1>1, PrimaryInvariant, PTL

\* active_client_index never refers to a client that does not render or has not
\* been told to be visible, nor to an overlay that was none in no earlier session,
\* other than one in the middle of its own shutdown.
THEOREM PrimaryIsDisplayable == Spec => []PrimaryDisplayable
<1>1. PrimaryInv => PrimaryDisplayable
  BY DEF PrimaryInv
<1> QED
  BY <1>1, PrimaryInvariant, PTL

\* While an application renders that has not been an overlay before, some client
\* is the primary one.
THEOREM NeverIdleWithApplications == Spec => []NoIdleWithApplications
<1>1. PrimaryInv => NoIdleWithApplications
  BY DEF PrimaryInv
<1> QED
  BY <1>1, PrimaryInvariant, PTL

-----------------------------------------------------------------------------
(***************************************************************************)
(* What the compositors are told.                                          *)
(***************************************************************************)

\* A flush tells the clients of S that have a compositor: the compositor gets
\* what the table gets, and an overlay hears whether there is an application
\* unless there is none and was none.  Nobody else is told anything.
LEMMA FlushTells ==
  ASSUME TypeOK, NEW k \in [Slots -> Client], NEW S \in SUBSET Slots,
         NEW a \in Slots \cup {NoClient}, NEW prev \in Slots \cup {NoClient},
         Flush(k, S, a, prev), NEW i \in Slots
  PROVE  /\ i \notin S \/ xc[i] = "null" => comp'[i] = comp[i] /\ mainVis'[i] = mainVis[i]
         /\ i \in S /\ xc[i] # "null" => comp'[i] = cl'[i].shown
         /\ i \in S /\ xc[i] # "null" /\ k[i].overlay =>
              mainVis'[i] = IF a = NoClient /\ prev = NoClient
                              THEN mainVis[i] ELSE a # NoClient
<1>1. comp'[i] = IF Told(S, i, a) THEN Shown(k, i, a) ELSE comp[i]
  BY DEF Flush
<1>2. i \in S => cl'[i].shown = Shown(k, i, a)
  BY DEF Flush
<1>3. mainVis'[i] = IF i \in S /\ xc[i] # "null" /\ k[i].overlay /\ MainAppEvent(a, prev)
                      THEN a >= 0 ELSE mainVis[i]
  BY DEF Flush
<1>4. /\ (a >= 0) = (a # NoClient)
      /\ MainAppEvent(a, prev) = ~(a = NoClient /\ prev = NoClient)
  BY DEF MainAppEvent, Slots, NoClient
<1>5. i \notin S \/ xc[i] = "null" => comp'[i] = comp[i] /\ mainVis'[i] = mainVis[i]
  BY <1>1, <1>3 DEF Told
<1>6. i \in S /\ xc[i] # "null" => comp'[i] = cl'[i].shown
  BY <1>1, <1>2 DEF Told
<1>7. i \in S /\ xc[i] # "null" /\ k[i].overlay =>
        mainVis'[i] = IF a = NoClient /\ prev = NoClient
                        THEN mainVis[i] ELSE a # NoClient
  BY <1>3, <1>4
<1> QED
  BY <1>5, <1>6, <1>7

\* A step that changes who can be displayed and hands the result k to the update
\* leaves every compositor of a first session in agreement with the table.
LEMMA ToldUpdateStep ==
  ASSUME TableInv, ToldInv, NEW k, WellFormed(k), NEW a \in Slots \cup {NoClient},
         UpdateServerState(k, a),
         NothingChanged(k, a) => k = cl /\ a = active,
         \A j \in Slots :
           /\ k[j].used = cl[j].used
           /\ k[j].overlay = cl[j].overlay
           /\ k[j].active /\ ~cl[j].active => pc[j] = "serve"
           /\ pc'[j] \in {"read", "push"} => pc'[j] = pc[j],
         UNCHANGED <<xc, made>>
  PROVE  ToldInv'
<1>t. TypeOK /\ k \in [Slots -> Client]
  BY DEF TableInv, WellFormed
<1>u. /\ active' \in Slots \cup {NoClient}
      /\ \A j \in Slots :
           /\ cl'[j].used = k[j].used
           /\ cl'[j].overlay = k[j].overlay
           /\ cl'[j].active = k[j].active
  BY <1>t, UpdateResult
<1>1. CASE NothingChanged(k, a)
  <2>1. UNCHANGED <<cl, active, comp, mainVis>>
    BY <1>1 DEF UpdateServerState
  <2> QED
    BY <2>1 DEF ToldInv
<1>2. CASE ~NothingChanged(k, a)
  <2>1. Flush(k, Running(k), active', last)
    BY <1>2 DEF UpdateServerState
  <2>2. last = active /\ last \in Slots \cup {NoClient} /\ Running(k) \in SUBSET Slots
    BY <1>t DEF TableInv, TypeOK, IndicesAgree, Running
  <2> SUFFICES ASSUME NEW i \in Slots
               PROVE  /\ xc'[i] = "null" => ~comp'[i] /\ ~mainVis'[i]
                      /\ ~cl'[i].used => made'[i] = 0
                      /\ pc'[i] \in {"read", "push"} =>
                           xc'[i] = "live" /\ (made'[i] = 1 => ~cl'[i].active)
                      /\ /\ cl'[i].used /\ cl'[i].overlay /\ xc'[i] = "live"
                         /\ active' = NoClient
                         => ~mainVis'[i]
                      /\ cl'[i].used /\ cl'[i].active /\ xc'[i] = "live" /\ made'[i] = 1 =>
                           /\ comp'[i] = cl'[i].shown
                           /\ cl'[i].overlay => mainVis'[i] = (active' # NoClient)
    BY DEF ToldInv
  <2>3. /\ i \notin Running(k) \/ xc[i] = "null"
             => comp'[i] = comp[i] /\ mainVis'[i] = mainVis[i]
        /\ i \in Running(k) /\ xc[i] # "null" => comp'[i] = cl'[i].shown
        /\ i \in Running(k) /\ xc[i] # "null" /\ k[i].overlay =>
             mainVis'[i] = IF active' = NoClient /\ last = NoClient
                             THEN mainVis[i] ELSE active' # NoClient
    BY <1>t, <1>u, <2>1, <2>2, FlushTells
  <2>4. i \in Running(k) <=> k[i].used
    BY DEF Running
  <2>5. xc'[i] = "null" => ~comp'[i] /\ ~mainVis'[i]
    BY <2>3 DEF ToldInv
  <2>6. /\ ~cl'[i].used => made'[i] = 0
        /\ pc'[i] \in {"read", "push"} =>
             xc'[i] = "live" /\ (made'[i] = 1 => ~cl'[i].active)
    BY <1>u DEF ToldInv
  <2>7. ASSUME cl'[i].used, cl'[i].overlay, xc'[i] = "live"
        PROVE  mainVis'[i] = (active' # NoClient)
    <3>1. cl[i].used /\ cl[i].overlay /\ xc[i] = "live" /\ i \in Running(k) /\ k[i].overlay
      BY <1>u, <2>4, <2>7
    <3>2. CASE active' = NoClient /\ last = NoClient
      <4>1. ~mainVis[i]
        BY <2>2, <3>1, <3>2 DEF ToldInv
      <4>2. mainVis[i] \in BOOLEAN
        BY <1>t DEF TypeOK
      <4> QED
        BY <2>3, <3>1, <3>2, <4>1, <4>2
    <3>3. CASE ~(active' = NoClient /\ last = NoClient)
      BY <2>3, <3>1, <3>3
    <3> QED
      BY <3>2, <3>3
  <2>8. cl'[i].used /\ xc'[i] = "live" => comp'[i] = cl'[i].shown
    BY <1>u, <2>3, <2>4
  <2> QED
    BY <2>5, <2>6, <2>7, <2>8
<1> QED
  BY <1>1, <1>2

\* A step of slot i that calls no update: what the other slots have been told
\* and what they are entitled to stays the same.
LEMMA ToldLocalStep ==
  ASSUME TypeOK, ToldInv, NEW i \in Slots,
         active' = active,
         \A j \in Slots \ {i} :
           /\ cl'[j] = cl[j] /\ xc'[j] = xc[j] /\ pc'[j] = pc[j] /\ made'[j] = made[j]
           /\ comp'[j] = comp[j] /\ mainVis'[j] = mainVis[j],
         xc'[i] = "null" => ~comp'[i] /\ ~mainVis'[i],
         ~cl'[i].used => made'[i] = 0,
         pc'[i] \in {"read", "push"} =>
           xc'[i] = "live" /\ (made'[i] = 1 => ~cl'[i].active),
         cl'[i].used /\ cl'[i].overlay /\ xc'[i] = "live" /\ active = NoClient
           => ~mainVis'[i],
         cl'[i].used /\ cl'[i].active /\ xc'[i] = "live" /\ made'[i] = 1 =>
           /\ comp'[i] = cl'[i].shown
           /\ cl'[i].overlay => mainVis'[i] = (active # NoClient)
  PROVE  ToldInv'
<1> SUFFICES ASSUME NEW j \in Slots
             PROVE  /\ xc'[j] = "null" => ~comp'[j] /\ ~mainVis'[j]
                    /\ ~cl'[j].used => made'[j] = 0
                    /\ pc'[j] \in {"read", "push"} =>
                         xc'[j] = "live" /\ (made'[j] = 1 => ~cl'[j].active)
                    /\ /\ cl'[j].used /\ cl'[j].overlay /\ xc'[j] = "live"
                       /\ active' = NoClient
                       => ~mainVis'[j]
                    /\ cl'[j].used /\ cl'[j].active /\ xc'[j] = "live" /\ made'[j] = 1 =>
                         /\ comp'[j] = cl'[j].shown
                         /\ cl'[j].overlay => mainVis'[j] = (active' # NoClient)
  BY DEF ToldInv
<1>1. CASE j = i
  BY <1>1
<1>2. CASE j # i
  BY <1>2 DEF ToldInv
<1> QED
  BY <1>1, <1>2

\* Every handler preserves what the compositors have been told.
LEMMA ToldStep ==
  ASSUME TableInv, ToldInv, NEW i \in Slots
  PROVE  /\ Connect(i) => ToldInv'
         /\ Session(i) => ToldInv'
         /\ SetPrimaryClient(i) => ToldInv'
         /\ Shutdown(i) => ToldInv'
<1>t. TypeOK
  BY DEF TableInv
<1>a. /\ WellFormed(cl)
      /\ \A j \in Slots : cl[j].active => cl[j].used
  BY Idle
<1>b. pc[i] = "serve" => (active = i => cl[i].active)
  BY Idle
<1>c. i \in Slots \cup {NoClient} /\ i # NoClient
  BY DEF Slots, NoClient
<1>1. ASSUME Connect(i) PROVE ToldInv'
  <2>1. xc[i] = "null"
    BY <1>1 DEF Connect, TableInv, SlotUse, SessionsMade, ToldInv
  <2> QED
    BY <1>1, <1>t, <2>1, ToldLocalStep DEF Connect, TypeOK, ToldInv, Client
<1>2. ASSUME NEW overlay \in BOOLEAN, SessionCreate(i, overlay) PROVE ToldInv'
  <2>1. /\ ~comp[i] /\ ~mainVis[i]
        /\ made[i] = 0 => ~cl[i].active
    BY <1>2, <1>t DEF SessionCreate, ToldInv, TableInv, SlotUse, TypeOK
  <2>2. /\ made'[i] = 1 => made[i] = 0
        /\ cl'[i].active = cl[i].active
        /\ xc'[i] = "live"
        /\ comp'[i] = comp[i] /\ mainVis'[i] = mainVis[i]
        /\ active' = active
        /\ cl'[i].used
    BY <1>2, <1>t DEF SessionCreate, TypeOK, Client, TableInv, SlotUse, MadeOneMore
  <2>3. \A j \in Slots \ {i} :
           /\ cl'[j] = cl[j] /\ xc'[j] = xc[j] /\ pc'[j] = pc[j] /\ made'[j] = made[j]
           /\ comp'[j] = comp[j] /\ mainVis'[j] = mainVis[j]
    BY <1>2, <1>t DEF SessionCreate, TypeOK
  <2> QED
    BY <1>t, <2>1, <2>2, <2>3, ToldLocalStep
<1>3. ASSUME SessionCreateRead(i) PROVE ToldInv'
  BY <1>3, <1>t, ToldLocalStep
  DEF SessionCreateRead, TypeOK, ToldInv
<1>4. ASSUME SessionCreatePush(i) PROVE ToldInv'
  <2>1. xc[i] = "live" /\ cl[i].used
    BY <1>4 DEF SessionCreatePush, ToldInv, TableInv, SlotUse
  <2> QED
    BY <1>4, <1>t, <2>1, ToldLocalStep DEF SessionCreatePush, TypeOK, ToldInv
<1>5. ASSUME SessionDestroy(i) PROVE ToldInv'
  BY <1>5, <1>t, ToldLocalStep DEF SessionDestroy, TypeOK, ToldInv
<1>6. ASSUME SessionDestroyUnhook(i) PROVE ToldInv'
  BY <1>6, <1>t, ToldLocalStep DEF SessionDestroyUnhook, Unhook, TypeOK, ToldInv
<1>7. ASSUME ShutdownDestroy(i) PROVE ToldInv'
  <2>1. ~cl[i].used /\ made[i] = 0
    BY <1>7 DEF ShutdownDestroy, TableInv, SlotUse, ToldInv
  <2> QED
    BY <1>7, <1>t, <2>1, ToldLocalStep DEF ShutdownDestroy, TypeOK, ToldInv
<1>8. ASSUME ShutdownUnhook(i) PROVE ToldInv'
  <2>1. ~cl[i].used /\ made[i] = 0
    BY <1>8 DEF ShutdownUnhook, TableInv, SlotUse, ToldInv
  <2> QED
    BY <1>8, <1>t, <2>1, ToldLocalStep DEF ShutdownUnhook, Unhook, TypeOK
<1>9. ASSUME ShutdownDetach(i) PROVE ToldInv'
  BY <1>9, <1>t, ToldLocalStep DEF ShutdownDetach, NoState, TypeOK, ToldInv
<1>10. ASSUME ActivateSession(i) PROVE ToldInv'
  <2> DEFINE k == [cl EXCEPT ![i].active = TRUE]
  <2>1. /\ pc[i] = "serve" /\ xc[i] = "live"
        /\ ~cl[i].active
        /\ UNCHANGED <<xc, pc, arg, made>>
    BY <1>10 DEF ActivateSession, PredictFrame
  <2>2. active # i
    BY <1>b, <2>1
  <2>3. cl[i].used
    BY <2>1 DEF TableInv, SlotUse
  <2>4. /\ k \in [Slots -> Client]
        /\ \A j \in Slots :
             /\ k[j].used = cl[j].used
             /\ k[j].overlay = cl[j].overlay
             /\ j # i => k[j] = cl[j]
        /\ k[i].active
    BY <1>t DEF TypeOK, Client
  <2>5. WellFormed(k)
    BY <1>a, <2>3, <2>4 DEF WellFormed
  <2>6. CASE k[i].overlay
    <3>1. Flush(k, {i}, active, last) /\ UNCHANGED <<active, last>>
      BY <1>10, <2>6 DEF ActivateSession
    <3>2. /\ {i} \in SUBSET Slots
          /\ active \in Slots \cup {NoClient} /\ last \in Slots \cup {NoClient}
          /\ last = active
      BY <1>t DEF TypeOK, TableInv, IndicesAgree
    <3> HIDE DEF k
    <3> DEFINE S == {i}
    <3>s. \A j \in Slots : j \in S <=> j = i
      OBVIOUS
    <3>k. S \in SUBSET Slots /\ k \in [Slots -> Client]
      BY <2>4, <3>2
    <3>f. Flush(k, S, active, last)
      BY <3>1
    <3> HIDE DEF S
    <3>3. \A j \in Slots :
            /\ j \notin S \/ xc[j] = "null" => comp'[j] = comp[j] /\ mainVis'[j] = mainVis[j]
            /\ j \in S /\ xc[j] # "null" => comp'[j] = cl'[j].shown
            /\ j \in S /\ xc[j] # "null" /\ k[j].overlay =>
                 mainVis'[j] = IF active = NoClient /\ last = NoClient
                                 THEN mainVis[j] ELSE active # NoClient
      <4> SUFFICES ASSUME NEW j \in Slots
                   PROVE  /\ j \notin S \/ xc[j] = "null"
                               => comp'[j] = comp[j] /\ mainVis'[j] = mainVis[j]
                          /\ j \in S /\ xc[j] # "null" => comp'[j] = cl'[j].shown
                          /\ j \in S /\ xc[j] # "null" /\ k[j].overlay =>
                               mainVis'[j] = IF active = NoClient /\ last = NoClient
                                               THEN mainVis[j] ELSE active # NoClient
        OBVIOUS
      <4> QED
        BY <1>t, <3>k, <3>2, <3>f, FlushTells
    <3>4. /\ cl' \in [Slots -> Client]
          /\ comp' \in [Slots -> BOOLEAN]
          /\ mainVis' \in [Slots -> BOOLEAN]
          /\ dangling' \in BOOLEAN
          /\ \A j \in Slots :
               /\ cl'[j].used = k[j].used
               /\ cl'[j].overlay = k[j].overlay
               /\ cl'[j].active = k[j].active
               /\ j \in S => (cl'[j].shown <=> (j = active \/ k[j].overlay))
               /\ j \notin S => cl'[j] = k[j]
      BY <1>t, <3>k, <3>2, <3>f, FlushTypes, ZenonT(60)
    <3>5. comp'[i] = cl'[i].shown
      BY <2>1, <3>3, <3>s
    <3>6. mainVis'[i] = (active # NoClient)
      <4>1. cl[i].overlay
        BY <2>4, <2>6
      <4>2. active = NoClient => mainVis[i] = FALSE
        <5>1. active = NoClient => ~mainVis[i]
          BY <2>1, <2>3, <4>1 DEF ToldInv
        <5>2. mainVis[i] \in BOOLEAN
          BY <1>t DEF TypeOK
        <5> QED
          BY <5>1, <5>2
      <4> QED
        BY <2>1, <2>6, <3>2, <3>3, <3>s, <4>2
    <3>7. \A j \in Slots \ {i} :
           /\ cl'[j] = cl[j] /\ xc'[j] = xc[j] /\ pc'[j] = pc[j] /\ made'[j] = made[j]
           /\ comp'[j] = comp[j] /\ mainVis'[j] = mainVis[j]
      BY <2>1, <2>4, <3>3, <3>4, <3>s
    <3>8. cl'[i].used
      BY <2>3, <2>4, <3>4
    <3> QED
      BY <1>t, <2>1, <3>1, <3>5, <3>6, <3>7, <3>8, ToldLocalStep
  <2>7. CASE ~k[i].overlay
    <3>1. UpdateServerState(k, i)
      BY <1>10, <2>2, <2>7 DEF ActivateSession, SetActiveClient
    <3>2. ~NothingChanged(k, i)
      BY <2>2 DEF NothingChanged, TableInv, IndicesAgree
    <3>3. \A j \in Slots :
            /\ k[j].active /\ ~cl[j].active => pc[j] = "serve"
            /\ pc'[j] \in {"read", "push"} => pc'[j] = pc[j]
      BY <2>1, <2>4
    <3> HIDE DEF k
    <3> QED
      BY <1>c, <2>1, <2>4, <2>5, <3>1, <3>2, <3>3, ToldUpdateStep
  <2> QED
    BY <2>6, <2>7
<1>11. ASSUME SetPrimaryClient(i) PROVE ToldInv'
  <2>1. UNCHANGED <<xc, pc, arg, made>> /\ SetActiveClient(cl, i)
    BY <1>11 DEF SetPrimaryClient, FindClient
  <2>2. CASE i = active
    <3>1. UNCHANGED <<active, last, cl, comp, mainVis, dangling>>
      BY <2>1, <2>2 DEF SetActiveClient
    <3> QED
      BY <2>1, <3>1 DEF ToldInv
  <2>3. CASE i # active
    <3>1. UpdateServerState(cl, i)
      BY <2>1, <2>3 DEF SetActiveClient
    <3>2. ~NothingChanged(cl, i)
      BY <2>3 DEF NothingChanged, TableInv, IndicesAgree
    <3> QED
      BY <1>a, <1>c, <2>1, <3>1, <3>2, ToldUpdateStep
  <2> QED
    BY <2>2, <2>3
<1>12. ASSUME ShutdownDeactivate(i) PROVE ToldInv'
  <2>1. /\ pc[i] = "deactivate"
        /\ UpdateServerState([cl EXCEPT ![i].active = FALSE], active)
        /\ pc' = [pc EXCEPT ![i] = "free"]
        /\ UNCHANGED <<xc, arg, made>>
    BY <1>12 DEF ShutdownDeactivate
  <2>2. UpdateServerState(cl, active)
    BY <1>t, <2>1, DeactivateIsUpdate DEF TableInv
  <2>3. active \in Slots \cup {NoClient}
    BY <1>t DEF TypeOK
  <2>4. \A j \in Slots : pc'[j] \in {"read", "push"} => pc'[j] = pc[j]
    BY <1>t, <2>1 DEF TypeOK
  <2> QED
    BY <1>a, <2>1, <2>2, <2>3, <2>4, ToldUpdateStep
<1> QED
  BY <1>1, <1>2, <1>3, <1>4, <1>5, <1>6, <1>7, <1>8, <1>9, <1>10, <1>11, <1>12
  DEF Session, Shutdown

\* What the compositors have been told is an invariant on top of the one about the
\* table, whatever kind a client's later sessions are.
THEOREM ToldInvariant == Spec => []ToldInv
<1>1. Init => ToldInv
  BY DEF Init, ToldInv, NoState
<1>2. TableInv /\ ToldInv /\ [Next]_vars => ToldInv'
  <2> SUFFICES ASSUME TableInv, ToldInv, [Next]_vars
               PROVE  ToldInv'
    OBVIOUS
  <2>1. CASE UNCHANGED vars
    BY <2>1 DEF vars, ToldInv
  <2>2. ASSUME NEW i \in Slots,
               Connect(i) \/ Session(i) \/ SetPrimaryClient(i) \/ Shutdown(i)
        PROVE  ToldInv'
    BY <2>2, ToldStep
  <2> QED
    BY <2>1, <2>2 DEF Next
<1> QED
  BY <1>1, <1>2, TableInvariant, PTL DEF Spec

\* The compositor of a client that renders its first session believes what the
\* server has decided: the unlocked push never outlives the activation.
THEOREM CompositorsAgree == Spec => []CompositorAgrees
<1>1. TableInv /\ ToldInv => CompositorAgrees
  BY DEF TableInv, SlotUse, ToldInv, CompositorAgrees
<1> QED
  BY <1>1, TableInvariant, ToldInvariant, PTL

\* An overlay that renders its first session knows whether there is an
\* application, in whichever order the two came and went.
THEOREM OverlaysKnowMainApp == Spec => []OverlayKnowsMainApp
<1>1. TableInv /\ ToldInv => OverlayKnowsMainApp
  BY DEF TableInv, SlotUse, ToldInv, OverlayKnowsMainApp
<1> QED
  BY <1>1, TableInvariant, ToldInvariant, PTL
==============================================================================
