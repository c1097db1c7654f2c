------------------------ MODULE AndroidMainloop_proofs ------------------------
(* Machine-checked proofs about AndroidMainloop, for every set of clients. *)
EXTENDS AndroidMainloop, SequenceTheorems, TLAPS

USE OptionsAssumption, AddersAssumption

\* A sequence with one element is emptied by Tail.
LEMMA OneElement ==
  ASSUME NEW s \in Seq(Adders), s # <<>>, Len(s) <= 1
  PROVE  Head(s) = s[1] /\ s[1] \in Adders /\ Tail(s) = <<>>
<1>a. \A seq \in Seq(Adders) : seq # <<>> => Len(seq) \in Nat \ {0}
  BY EmptySeq
<1>b. Len(s) \in Nat \ {0}
  BY <1>a
<1>1. Len(s) = 1
  <2> DEFINE n == Len(s)
  <2>1. n \in Nat \ {0} /\ n <= 1
    BY <1>b
  <2> HIDE DEF n
  <2>2. n = 1
    BY <2>1
  <2> QED
    BY <2>2 DEF n
<1>2. Head(s) = s[1] /\ s[1] \in Adders
  BY <1>1
<1>3. Tail(s) \in Seq(Adders) /\ Len(Tail(s)) = 0
  BY <1>1
<1> QED
  BY <1>2, <1>3, EmptySeq

\* The states in which the server is started satisfy the invariant.
LEMMA HandOverInvInit == Init => HandOverInv
<1> SUFFICES ASSUME Init PROVE HandOverInv
  OBVIOUS
<1>1. TypeOK
  <2>1. pipe \in Seq(Adders)
    BY EmptySeq DEF Init
  <2>2. apc \in [Adders -> AdderPCs] /\ ret \in [Adders -> {0, -1}]
    BY DEF Init, AdderPCs
  <2> QED
    BY <2>1, <2>2 DEF Init, TypeOK, MainPCs
<1>2. PushExclusive /\ TakenIsAcknowledged
  BY DEF Init, PushExclusive, TakenIsAcknowledged
<1>3. OneInPipe /\ AckIsWaitedFor /\ PipeInPhase
  BY DEF Init, OneInPipe, AckIsWaitedFor, PipeInPhase, None
<1> QED
  BY <1>1, <1>2, <1>3 DEF HandOverInv

\* Steps of the main thread that touch neither the pipe nor the acknowledgement.
LEMMA MainMoves ==
  ASSUME HandOverInv,
         UNCHANGED <<pipe, last, push, apc, ret, taken>>,
         TypeOK', PipeInPhase'
  PROVE  HandOverInv'
  BY DEF HandOverInv, PushExclusive, OneInPipe, AckIsWaitedFor, TakenIsAcknowledged

\* Every step of the main thread preserves the invariant.
LEMMA HandOverInvMain == HandOverInv /\ MainThread => HandOverInv'
<1> SUFFICES ASSUME HandOverInv, MainThread PROVE HandOverInv'
  OBVIOUS
<1> USE DEF HandOverInv
<1>1. CASE MainloopInit \/ MainloopInitFails
  <2>1. UNCHANGED <<pipe, last, push, apc, ret, taken>> /\ TypeOK' /\ PipeInPhase'
    BY <1>1 DEF MainloopInit, MainloopInitFails, TypeOK, MainPCs, PipeInPhase
  <2> QED
    BY <2>1, MainMoves
<1>2. CASE EnterPoll \/ Poll \/ PollFails
  <2>1. UNCHANGED <<pipe, last, push, apc, ret, taken>> /\ TypeOK' /\ PipeInPhase'
    BY <1>2 DEF EnterPoll, Poll, PollFails, TypeOK, MainPCs, PipeInPhase
  <2> QED
    BY <2>1, MainMoves
<1>3. CASE HandleListenFails \/ LeaveMainLoop
  <2>1. UNCHANGED <<pipe, last, push, apc, ret, taken>> /\ TypeOK' /\ PipeInPhase'
    BY <1>3 DEF HandleListenFails, LeaveMainLoop, TypeOK, MainPCs, PipeInPhase
  <2> QED
    BY <2>1, MainMoves
<1>4. CASE DeinitWait \/ FreeServer
  <2>1. UNCHANGED <<pipe, last, push, apc, ret, taken>> /\ TypeOK' /\ PipeInPhase'
    BY <1>4 DEF DeinitWait, InDeinit, FreeServer, TypeOK, MainPCs, PipeInPhase, Threads
  <2> QED
    BY <2>1, MainMoves
<1>5. CASE HandleListen
  <2>1. /\ pipe # <<>>
        /\ Head(pipe) = pipe[1] /\ pipe[1] \in Adders
        /\ Tail(pipe) = <<>>
    BY <1>5, OneElement DEF HandleListen, PipeInPhase, OneInPipe, TypeOK
  <2> DEFINE a == pipe[1]
  <2>2. /\ mpc' = "loop" /\ last' = a /\ pipe' = <<>> /\ taken' = taken \cup {a}
        /\ waiting' = {}
        /\ UNCHANGED <<running, entered, again, readEnd, push, accept, apc, ret>>
    BY <1>5, <2>1 DEF HandleListen
  <2>3. a \in Adders /\ apc[a] = "wait" /\ last = None
    BY <2>1 DEF OneInPipe
  <2> HIDE DEF a
  <2>4. TypeOK'
    BY <2>2, <2>3 DEF TypeOK, MainPCs
  <2>5. PushExclusive' /\ OneInPipe' /\ AckIsWaitedFor'
    BY <2>2, <2>3 DEF PushExclusive, OneInPipe, AckIsWaitedFor
  <2>6. TakenIsAcknowledged'
    BY <2>2, <2>3 DEF TakenIsAcknowledged
  <2>7. PipeInPhase'
    BY <1>5, <2>2, <2>3 DEF PipeInPhase, HandleListen, SHUTTING_DOWN
  <2> QED
    BY <2>4, <2>5, <2>6, <2>7
<1>6. CASE DeinitClose
  <2>1. TypeOK'
    BY <1>6, EmptySeq DEF DeinitClose, TypeOK, MainPCs
  <2>2. OneInPipe' /\ PipeInPhase'
    BY <1>6 DEF DeinitClose, OneInPipe, PipeInPhase
  <2> QED
    BY <1>6, <2>1, <2>2
    DEF DeinitClose, PushExclusive, AckIsWaitedFor, TakenIsAcknowledged
<1>7. CASE DeinitTell
  <2>1. /\ last = None /\ last' = SHUTTING_DOWN /\ mpc' \in {"close", "done"}
        /\ mpc \in {"deinit", "wait"}
        /\ UNCHANGED <<running, entered, pipe, readEnd, push, accept, apc, ret, taken>>
    BY <1>7 DEF DeinitTell, InDeinit
  <2>2. TypeOK'
    BY <1>7 DEF DeinitTell, TypeOK, MainPCs
  <2>3. pipe = <<>> /\ ~readEnd
    BY <2>1 DEF PipeInPhase
  <2>4. SHUTTING_DOWN \notin Adders /\ None \notin Adders
    BY AddersAssumption
  <2>5. TakenIsAcknowledged' /\ AckIsWaitedFor'
    BY <2>1, <2>4 DEF TakenIsAcknowledged, AckIsWaitedFor
  <2>6. PushExclusive' /\ OneInPipe' /\ PipeInPhase'
    BY <2>1, <2>3 DEF PushExclusive, OneInPipe, PipeInPhase
  <2> QED
    BY <2>2, <2>5, <2>6
<1> QED
  BY <1>1, <1>2, <1>3, <1>4, <1>5, <1>6, <1>7 DEF MainThread

\* Every step of a binder thread preserves the invariant.
LEMMA HandOverInvAdder ==
  ASSUME HandOverInv, NEW a \in Adders, CallAddFd(a) \/ Working(a)
  PROVE  HandOverInv'
<1> USE DEF HandOverInv
<1>a. /\ SHUTTING_DOWN \notin Adders /\ None \notin Adders /\ Nobody \notin Adders
      /\ SHUTTING_DOWN # None
  BY AddersAssumption DEF SHUTTING_DOWN, None
<1>1. CASE CallAddFd(a)
  <2>1. TypeOK'
    BY <1>1 DEF CallAddFd, TypeOK, AdderPCs
  <2>2. /\ apc[a] = "idle"
        /\ apc' = [apc EXCEPT ![a] = "push"]
        /\ UNCHANGED <<mpc, pipe, readEnd, last, push, ret, taken>>
    BY <1>1 DEF CallAddFd
  <2>3. OneInPipe' /\ AckIsWaitedFor'
    BY <2>2 DEF OneInPipe, AckIsWaitedFor, TypeOK
  <2> QED
    BY <2>1, <2>2, <2>3 DEF PushExclusive, TakenIsAcknowledged, PipeInPhase, TypeOK
<1>2. CASE LockPush(a)
  <2>1. TypeOK'
    BY <1>2 DEF LockPush, TypeOK, AdderPCs
  <2>2. /\ apc[a] = "push" /\ push = Nobody /\ push' = a
        /\ apc' = [apc EXCEPT ![a] = "write"]
        /\ UNCHANGED <<mpc, pipe, readEnd, last, ret, taken>>
    BY <1>2 DEF LockPush
  <2>3. OneInPipe' /\ AckIsWaitedFor'
    BY <2>2 DEF OneInPipe, AckIsWaitedFor, TypeOK
  <2>4. PushExclusive'
    BY <1>a, <2>2 DEF PushExclusive, TypeOK
  <2> QED
    BY <2>1, <2>2, <2>3, <2>4 DEF TakenIsAcknowledged, PipeInPhase, TypeOK
<1>3. ASSUME apc[a] \in {"write", "wait"}, pipe = <<>>,
             apc' = [apc EXCEPT ![a] = "returned"], push' = Nobody,
             \A b \in Adders \ {a} : ret'[b] = ret[b],
             ret'[a] = 0 <=> a \in taken,
             (last' = last /\ last # a) \/ (last' = None /\ last = a),
             UNCHANGED <<mpc, pipe, readEnd, taken>>, PipeInPhase', TypeOK'
      PROVE  HandOverInv'
  <2>2. push = a
    BY <1>3 DEF PushExclusive
  <2>3. \A b \in Adders \ {a} :
           /\ apc'[b] = apc[b] /\ ret'[b] = ret[b]
           /\ apc[b] \notin {"write", "wait"}
    BY <1>3, <2>2 DEF PushExclusive, TypeOK
  <2>4. apc'[a] = "returned"
    BY <1>3 DEF TypeOK
  <2>5. PushExclusive' /\ OneInPipe'
    BY <1>3, <2>3, <2>4 DEF PushExclusive, OneInPipe
  <2>6. AckIsWaitedFor'
    BY <1>a, <1>3, <2>3 DEF AckIsWaitedFor
  <2>7. TakenIsAcknowledged'
    BY <1>3, <2>3, <2>4 DEF TakenIsAcknowledged
  <2> QED
    BY <1>3, <2>5, <2>6, <2>7
<1>4. CASE WriteFails(a)
  <2>1. apc[a] = "write" /\ ~readEnd /\ Return(a, -1)
        /\ UNCHANGED <<running, entered, mpc, again, pipe, readEnd, last, accept, waiting, taken>>
    BY <1>4 DEF WriteFails
  <2>2. pipe = <<>> /\ a \notin taken
    BY <2>1 DEF PipeInPhase, TakenIsAcknowledged
  <2>3. TypeOK' /\ PipeInPhase'
    BY <2>1 DEF TypeOK, PipeInPhase, Return, AdderPCs
  <2>4. last # a
    BY <2>1 DEF AckIsWaitedFor
  <2>5. /\ apc' = [apc EXCEPT ![a] = "returned"] /\ push' = Nobody
        /\ \A b \in Adders \ {a} : ret'[b] = ret[b]
        /\ ret'[a] = -1
    BY <2>1 DEF Return, TypeOK
  <2> QED
    BY <2>1, <2>2, <2>3, <2>4, <2>5, <1>3
<1>5. CASE WriteFd(a)
  <2>1. /\ apc[a] = "write" /\ readEnd
        /\ last \notin {a, SHUTTING_DOWN}
        /\ pipe' = Append(pipe, a)
        /\ waiting' = waiting \cup {a}
        /\ apc' = [apc EXCEPT ![a] = "wait"]
        /\ UNCHANGED <<running, entered, mpc, again, readEnd, last, push, accept, ret, taken>>
    BY <1>5 DEF WriteFd
  <2>2. push = a /\ a \notin taken
    BY <2>1 DEF PushExclusive, TakenIsAcknowledged
  <2>3. last = None
    BY <2>1, <2>2 DEF AckIsWaitedFor, PushExclusive, TypeOK
  <2>4. pipe = <<>>
    <3> SUFFICES ASSUME pipe # <<>> PROVE FALSE
      OBVIOUS
    <3>1. pipe[1] \in Adders /\ apc[pipe[1]] = "wait"
      BY OneElement DEF OneInPipe, TypeOK
    <3>2. pipe[1] = a
      BY <3>1, <2>2 DEF PushExclusive
    <3> QED
      BY <3>1, <3>2, <2>1
  <2>5. /\ pipe' \in Seq(Adders) /\ Len(pipe') = 1 /\ pipe'[1] = a /\ pipe' # <<>>
    <3>1. pipe' = <<a>>
      BY <2>1, <2>4
    <3> QED
      BY <3>1
  <2>6. TypeOK'
    BY <2>1, <2>5 DEF TypeOK, AdderPCs, Threads
  <2>7. OneInPipe'
    BY <2>1, <2>2, <2>3, <2>5 DEF OneInPipe, TypeOK
  <2>8. PushExclusive' /\ AckIsWaitedFor'
    BY <1>a, <2>1, <2>2, <2>3 DEF PushExclusive, AckIsWaitedFor, TypeOK
  <2>9. TakenIsAcknowledged'
    BY <1>a, <2>1, <2>2, <2>3 DEF TakenIsAcknowledged, TypeOK
  <2>10. PipeInPhase'
    BY <2>1, <2>5 DEF PipeInPhase
  <2> QED
    BY <2>6, <2>7, <2>8, <2>9, <2>10
<1>6. CASE WaitAgain(a)
  <2>1. TypeOK'
    BY <1>6 DEF WaitAgain, TypeOK, Threads
  <2> QED
    BY <1>6, <2>1
    DEF WaitAgain, PushExclusive, OneInPipe, AckIsWaitedFor, TakenIsAcknowledged, PipeInPhase
<1>7. CASE Accepted(a)
  <2>1. /\ apc[a] = "wait" /\ last = a /\ last' = None /\ Return(a, 0)
        /\ mpc # "freed"
        /\ UNCHANGED <<running, entered, mpc, again, pipe, readEnd, accept, waiting, taken>>
    BY <1>7 DEF Accepted, Woken
  <2>2. pipe = <<>> /\ a \in taken
    BY <1>a, <2>1 DEF OneInPipe, TakenIsAcknowledged
  <2>3. TypeOK'
    BY <2>1 DEF TypeOK, Return, AdderPCs
  <2>4. PipeInPhase'
    BY <1>a, <2>1 DEF PipeInPhase
  <2>5. /\ apc' = [apc EXCEPT ![a] = "returned"] /\ push' = Nobody
        /\ \A b \in Adders \ {a} : ret'[b] = ret[b]
        /\ ret'[a] = 0
    BY <2>1 DEF Return, TypeOK
  <2> QED
    BY <2>1, <2>2, <2>3, <2>4, <2>5, <1>3
<1>8. CASE ShuttingDown(a)
  <2>1. /\ apc[a] = "wait" /\ last = SHUTTING_DOWN /\ Return(a, -1)
        /\ UNCHANGED <<running, entered, mpc, again, pipe, readEnd, last, accept, waiting, taken>>
    BY <1>8 DEF ShuttingDown, Woken
  <2>2. pipe = <<>> /\ a \notin taken
    BY <1>a, <2>1 DEF OneInPipe, TakenIsAcknowledged
  <2>3. TypeOK'
    BY <2>1 DEF TypeOK, Return, AdderPCs
  <2>4. PipeInPhase' /\ last # a
    BY <1>a, <2>1 DEF PipeInPhase
  <2>5. /\ apc' = [apc EXCEPT ![a] = "returned"] /\ push' = Nobody
        /\ \A b \in Adders \ {a} : ret'[b] = ret[b]
        /\ ret'[a] = -1
    BY <2>1 DEF Return, TypeOK
  <2> QED
    BY <2>1, <2>2, <2>3, <2>4, <2>5, <1>3
<1>9. CASE UseFreed(a)
  <2>1. /\ mpc = "freed"
        /\ apc' = [apc EXCEPT ![a] = "undefined"]
        /\ UNCHANGED <<running, entered, mpc, again, pipe, readEnd, last, push, accept, waiting, ret, taken>>
    BY <1>9 DEF UseFreed
  <2>2. last = SHUTTING_DOWN /\ pipe = <<>>
    BY <2>1 DEF PipeInPhase
  <2>3. TypeOK'
    BY <2>1 DEF TypeOK, AdderPCs
  <2>4. PushExclusive' /\ OneInPipe' /\ AckIsWaitedFor'
    BY <1>a, <2>1, <2>2 DEF PushExclusive, OneInPipe, AckIsWaitedFor, TypeOK
  <2>5. TakenIsAcknowledged' /\ PipeInPhase'
    BY <2>1 DEF TakenIsAcknowledged, PipeInPhase, TypeOK
  <2> QED
    BY <2>3, <2>4, <2>5
<1> QED
  BY <1>1, <1>2, <1>4, <1>5, <1>6, <1>7, <1>8, <1>9 DEF Working

\* The inductive invariant holds in every reachable state.
THEOREM HandOverInvariant == Spec => []HandOverInv
<1>1. HandOverInv /\ [Next]_vars => HandOverInv'
  <2> SUFFICES ASSUME HandOverInv, [Next]_vars PROVE HandOverInv'
    OBVIOUS
  <2>1. CASE ShutdownSignal \/ SpuriousWakeup \/ UNCHANGED vars
    <3>1. TypeOK'
      BY <2>1 DEF ShutdownSignal, SpuriousWakeup, vars, HandOverInv, TypeOK
    <3>2. UNCHANGED <<mpc, pipe, readEnd, last, push, apc, ret, taken>>
      BY <2>1 DEF ShutdownSignal, SpuriousWakeup, vars
    <3>3. PipeInPhase'
      BY <3>2 DEF HandOverInv, PipeInPhase
    <3> QED
      BY <3>1, <3>2, <3>3, MainMoves
  <2> QED
    BY <2>1, HandOverInvMain, HandOverInvAdder DEF Next
<1> QED
  BY <1>1, HandOverInvInit, PTL DEF Spec

\* The assert in handle_listen holds: no acknowledgement is dropped, however
\* many clients connect at the same time and whenever the server stops.
THEOREM AcksAreNotDropped == Spec => []NoDroppedAck
<1>1. HandOverInv => NoDroppedAck
  BY DEF HandOverInv, PipeInPhase, OneInPipe, NoDroppedAck
<1> QED
  BY <1>1, HandOverInvariant, PTL

\* add_fd returns 0 for exactly the descriptors that the server has taken.
THEOREM OwnershipIsReported == Spec => []OwnershipIffZero
<1>1. HandOverInv => OwnershipIffZero
  BY DEF HandOverInv, TakenIsAcknowledged, OwnershipIffZero
<1> QED
  BY <1>1, HandOverInvariant, PTL

(***************************************************************************)
(* The refinement.                                                         *)
(***************************************************************************)

\* The initial states are those of the abstract hand-over.
LEMMA HandOverInitMaps == Init => HO!Init
<1>1. PhaseOf("idle") = "idle"
  BY DEF PhaseOf
<1> QED
  BY <1>1 DEF Init, HO!Init, CallPhase

\* A step that moves one call from one place to another, seen from outside.
LEMMA PhaseMoves ==
  ASSUME TypeOK, NEW a \in Adders, NEW to, apc' = [apc EXCEPT ![a] = to]
  PROVE  CallPhase' = [CallPhase EXCEPT ![a] = PhaseOf(to)]
<1>1. ASSUME NEW b \in Adders PROVE apc'[b] = IF b = a THEN to ELSE apc[b]
  BY DEF TypeOK
<1>2. ASSUME NEW b \in Adders
      PROVE  PhaseOf(apc'[b]) = IF b = a THEN PhaseOf(to) ELSE PhaseOf(apc[b])
  BY <1>1
<1>3. CallPhase' = [b \in Adders |-> PhaseOf(apc'[b])]
  BY DEF CallPhase, PhaseOf
<1> QED
  BY <1>2, <1>3 DEF CallPhase

\* A move between two places inside the call is not seen.
LEMMA PhaseStays ==
  ASSUME TypeOK, NEW a \in Adders, NEW to \in {"write", "wait"},
         apc[a] \in {"push", "write", "wait"}, apc' = [apc EXCEPT ![a] = to]
  PROVE  CallPhase' = CallPhase
<1>1. PhaseOf(to) = "calling" /\ CallPhase[a] = "calling"
  BY DEF PhaseOf, CallPhase
<1>2. CallPhase' = [CallPhase EXCEPT ![a] = PhaseOf(to)]
  BY PhaseMoves
<1> QED
  BY <1>1, <1>2 DEF CallPhase

\* Taking a descriptor from the pipe is the abstract Take; everything else the
\* main thread does is a stutter.
LEMMA MainSimulates == HandOverInv /\ MainThread => [HO!Next]_(HO!vars)
<1> SUFFICES ASSUME HandOverInv, MainThread PROVE [HO!Next]_(HO!vars)
  OBVIOUS
<1>1. CASE HandleListen
  <2> DEFINE h == Head(pipe)
  <2>1. pipe # <<>> /\ Len(pipe) <= 1 /\ h = pipe[1] /\ h \in Adders
    BY <1>1 DEF HandleListen, HandOverInv, PipeInPhase, OneInPipe, TypeOK
  <2>2. apc[h] = "wait" /\ h \notin taken /\ push = h
    BY <2>1 DEF HandOverInv, OneInPipe, PushExclusive
  <2>3. CallPhase[h] = "calling"
    BY <2>1, <2>2 DEF CallPhase, PhaseOf
  <2>4. ASSUME NEW e \in Adders, CallPhase[e] = "calling" PROVE e \notin taken
    <3>1. apc[e] \in {"push", "write", "wait"}
      BY <2>4 DEF CallPhase, PhaseOf, HandOverInv, TypeOK, AdderPCs
    <3>2. CASE apc[e] = "wait"
      BY <3>2, <2>2 DEF HandOverInv, PushExclusive
    <3>3. CASE apc[e] \in {"push", "write"}
      BY <3>3 DEF HandOverInv, TakenIsAcknowledged
    <3> QED
      BY <3>1, <3>2, <3>3
  <2>5. HO!Take(h)
    <3>1. CallPhase' = CallPhase
      BY <1>1 DEF HandleListen, CallPhase
    <3> QED
      BY <1>1, <2>3, <2>4, <3>1 DEF HandleListen, HO!Take
  <2> QED
    BY <2>1, <2>5 DEF HO!Next
<1>2. CASE UNCHANGED <<apc, taken, ret>>
  BY <1>2 DEF HO!vars, CallPhase
<1> QED
  BY <1>1, <1>2 DEF MainThread, MainloopInit, MainloopInitFails, EnterPoll, Poll, PollFails,
     HandleListenFails, LeaveMainLoop, DeinitClose, DeinitWait, DeinitTell, FreeServer

\* A step of a binder thread is the abstract Return or Lose, or a stutter.
LEMMA AdderSimulates ==
  ASSUME HandOverInv, NEW a \in Adders, CallAddFd(a) \/ Working(a)
  PROVE  [HO!Next]_(HO!vars)
<1>0. TypeOK
  BY DEF HandOverInv
<1>1. CASE CallAddFd(a)
  <2>1. CallPhase' = [CallPhase EXCEPT ![a] = "calling"] /\ CallPhase[a] = "idle"
    BY <1>0, <1>1, PhaseMoves DEF CallAddFd, CallPhase, PhaseOf
  <2> QED
    BY <1>1, <2>1 DEF CallAddFd, HO!Next, HO!Call
<1>2. CASE LockPush(a) \/ WriteFd(a)
  <2>1. CallPhase' = CallPhase
    BY <1>0, <1>2, PhaseStays DEF LockPush, WriteFd
  <2> QED
    BY <1>2, <2>1 DEF LockPush, WriteFd, HO!vars
<1>3. CASE WaitAgain(a)
  BY <1>3 DEF WaitAgain, HO!vars, CallPhase
<1>4. CASE Accepted(a)
  <2>1. CallPhase' = [CallPhase EXCEPT ![a] = "returned"] /\ CallPhase[a] = "calling"
    BY <1>0, <1>4, PhaseMoves DEF Accepted, Woken, Return, CallPhase, PhaseOf
  <2>2. a \in taken
    BY <1>4 DEF Accepted, Woken, HandOverInv, TakenIsAcknowledged
  <2> QED
    BY <1>4, <2>1, <2>2 DEF Accepted, Return, HO!Next, HO!Return
<1>5. CASE WriteFails(a) \/ ShuttingDown(a)
  <2>1. CallPhase' = [CallPhase EXCEPT ![a] = "returned"] /\ CallPhase[a] = "calling"
    BY <1>0, <1>5, PhaseMoves DEF WriteFails, ShuttingDown, Woken, Return, CallPhase, PhaseOf
  <2>2. a \notin taken
    BY <1>5, AddersAssumption
    DEF WriteFails, ShuttingDown, Woken, HandOverInv, TakenIsAcknowledged, SHUTTING_DOWN
  <2> QED
    BY <1>5, <2>1, <2>2 DEF WriteFails, ShuttingDown, Return, HO!Next, HO!Return
<1>6. CASE UseFreed(a)
  <2>1. CallPhase' = [CallPhase EXCEPT ![a] = "lost"] /\ CallPhase[a] = "calling"
    BY <1>0, <1>6, PhaseMoves DEF UseFreed, CallPhase, PhaseOf
  <2> QED
    BY <1>6, <2>1 DEF UseFreed, HO!Next, HO!Lose
<1> QED
  BY <1>1, <1>2, <1>3, <1>4, <1>5, <1>6 DEF Working

\* The hand-over of ipc_server_mainloop_android.c implements the abstract one:
\* descriptors are taken one at a time, during their own call, and the return
\* value of add_fd says so, for any set of binder threads.
THEOREM HandOverIsImplemented == Spec => ImplementsHandOver
<1>1. Init => HO!Init
  BY HandOverInitMaps
<1>2. HandOverInv /\ [Next]_vars => [HO!Next]_(HO!vars)
  <2> SUFFICES ASSUME HandOverInv, [Next]_vars PROVE [HO!Next]_(HO!vars)
    OBVIOUS
  <2>1. CASE MainThread
    BY <2>1, MainSimulates
  <2>2. CASE ShutdownSignal \/ SpuriousWakeup \/ UNCHANGED vars
    BY <2>2 DEF ShutdownSignal, SpuriousWakeup, vars, HO!vars, CallPhase
  <2>3. CASE \E a \in Adders : CallAddFd(a) \/ Working(a)
    BY <2>3, AdderSimulates
  <2> QED
    BY <2>1, <2>2, <2>3 DEF Next
<1> QED
  BY <1>1, <1>2, HandOverInvariant, PTL DEF Spec, ImplementsHandOver, HO!Spec

\* The type invariant of the hand-over, a part of the inductive invariant.
THEOREM HandOverTypes == Spec => []TypeOK
<1>1. HandOverInv => TypeOK
  BY DEF HandOverInv
<1> QED
  BY <1>1, HandOverInvariant, PTL

(***************************************************************************)
(* No thread in add_fd sleeps through what it waits for.                   *)
(***************************************************************************)

\* While an adder waits and is not the one acknowledged, nothing else is.
LEMMA NothingElseAcknowledged ==
  ASSUME HandOverInv, NEW a \in Adders, apc[a] \in {"write", "wait"},
         last \notin {a, SHUTTING_DOWN}
  PROVE  last = None
  BY DEF HandOverInv, AckIsWaitedFor, PushExclusive, TypeOK

\* The main thread wakes everybody in the step that makes a reason to go on.
LEMMA SleepersMain ==
  HandOverInv /\ SleepersAreServed /\ WaitsForReason /\ MainThread
    => SleepersAreServed' /\ WaitsForReason'
<1> SUFFICES ASSUME HandOverInv, SleepersAreServed, WaitsForReason, MainThread
             PROVE  SleepersAreServed' /\ WaitsForReason'
  OBVIOUS
<1> USE DEF SleepersAreServed, WaitsForReason
<1>a. SHUTTING_DOWN # None /\ None \notin Adders /\ Main \notin Adders
  BY AddersAssumption DEF SHUTTING_DOWN, None
<1>1. CASE UNCHANGED <<pipe, last, apc, waiting>> /\ mpc # "deinit"
  BY <1>1
<1>2. CASE HandleListen
  <2>1. Head(pipe) \in Adders
    BY <1>2, OneElement DEF HandleListen, HandOverInv, PipeInPhase, OneInPipe, TypeOK
  <2>2. last' = Head(pipe) /\ waiting' = {}
    BY <1>2 DEF HandleListen
  <2> QED
    BY <1>a, <2>1, <2>2
<1>3. CASE DeinitClose
  BY <1>3 DEF DeinitClose
<1>4. CASE DeinitWait
  <2>1. last # None /\ last' = last /\ waiting' = waiting \cup {Main}
    BY <1>4 DEF DeinitWait
  <2> QED
    BY <1>a, <2>1
<1>5. CASE DeinitTell
  <2>1. last' = SHUTTING_DOWN /\ waiting' = {}
    BY <1>5 DEF DeinitTell
  <2> QED
    BY <1>a, <2>1
<1> QED
  BY <1>1, <1>2, <1>3, <1>4, <1>5
  DEF MainThread, MainloopInit, MainloopInitFails, EnterPoll, Poll, PollFails,
      HandleListenFails, LeaveMainLoop, FreeServer

\* Nor does a binder thread take away the reason of another.
LEMMA SleepersAdder ==
  ASSUME HandOverInv, SleepersAreServed, WaitsForReason,
         NEW a \in Adders, CallAddFd(a) \/ Working(a)
  PROVE  SleepersAreServed' /\ WaitsForReason'
<1> USE DEF SleepersAreServed, WaitsForReason
<1>a. SHUTTING_DOWN # None /\ None \notin Adders
  BY AddersAssumption DEF SHUTTING_DOWN, None
<1>b. apc \in [Adders -> AdderPCs]
  BY DEF HandOverInv, TypeOK
<1>c. apc[a] \in {"write", "wait"} => \A b \in Adders \ {a} : apc[b] # "wait"
  BY DEF HandOverInv, PushExclusive
<1>1. CASE CallAddFd(a) \/ LockPush(a)
  <2>1. /\ UNCHANGED <<pipe, last, waiting, mpc>>
        /\ apc[a] # "wait"
        /\ \E pc \in {"push", "write"} : apc' = [apc EXCEPT ![a] = pc]
    BY <1>1 DEF CallAddFd, LockPush
  <2>2. \A b \in Adders : apc'[b] = "wait" <=> apc[b] = "wait"
    BY <1>b, <2>1
  <2> QED
    BY <2>1, <2>2
<1>2. CASE WriteFails(a) \/ Accepted(a) \/ ShuttingDown(a)
  <2>1. /\ UNCHANGED <<pipe, waiting, mpc>>
        /\ apc[a] \in {"write", "wait"}
        /\ apc' = [apc EXCEPT ![a] = "returned"]
        /\ a \notin waiting
    BY <1>2 DEF WriteFails, Accepted, ShuttingDown, Woken, Return
  <2>2. \A b \in Adders : apc'[b] # "wait"
    BY <1>b, <1>c, <2>1
  <2>3. \A b \in Adders : b \notin waiting
    BY <1>c, <2>1
  <2> QED
    BY <2>1, <2>2, <2>3
<1>3. CASE WriteFd(a)
  <2>1. /\ apc[a] = "write" /\ last = None /\ readEnd
        /\ UNCHANGED last
        /\ waiting' = waiting \cup {a}
        /\ apc' = [apc EXCEPT ![a] = "wait"]
        /\ pipe' = Append(pipe, a)
    BY <1>3, NothingElseAcknowledged DEF WriteFd
  <2>2. pipe = <<>>
    <3> SUFFICES ASSUME pipe # <<>> PROVE FALSE
      OBVIOUS
    <3>1. pipe[1] \in Adders /\ apc[pipe[1]] = "wait"
      BY OneElement DEF HandOverInv, OneInPipe, TypeOK
    <3> QED
      BY <1>c, <2>1, <3>1
  <2>3. pipe' = <<a>>
    BY <2>1, <2>2
  <2>4. \A b \in Adders : apc'[b] = "wait" <=> b = a
    BY <1>b, <1>c, <2>1
  <2>5. \A b \in Adders : b \in waiting' <=> b = a
    BY <1>c, <2>1
  <2> QED
    BY <2>1, <2>3, <2>4, <2>5
<1>4. CASE WaitAgain(a)
  <2>1. /\ apc[a] = "wait" /\ last = None
        /\ waiting' = waiting \cup {a}
        /\ UNCHANGED <<apc, last, pipe, mpc>>
    BY <1>4, NothingElseAcknowledged DEF WaitAgain, Woken
  <2> QED
    BY <2>1
<1>5. CASE UseFreed(a)
  <2>1. last = SHUTTING_DOWN /\ UNCHANGED <<last, waiting>>
    BY <1>5 DEF UseFreed, HandOverInv, PipeInPhase
  <2> QED
    BY <1>a, <2>1
<1> QED
  BY <1>1, <1>2, <1>3, <1>4, <1>5 DEF Working

\* No acknowledgement and no shutdown passes by a thread that sleeps in add_fd:
\* the part of AddFdReturns that is not fairness.
THEOREM NoSleeperIsForgotten == Spec => []SleepersAreServed
<1>1. Init => SleepersAreServed /\ WaitsForReason
  BY DEF Init, SleepersAreServed, WaitsForReason
<1>2. HandOverInv /\ SleepersAreServed /\ WaitsForReason /\ [Next]_vars
        => SleepersAreServed' /\ WaitsForReason'
  <2> SUFFICES ASSUME HandOverInv, SleepersAreServed, WaitsForReason, [Next]_vars
               PROVE  SleepersAreServed' /\ WaitsForReason'
    OBVIOUS
  <2>1. CASE ShutdownSignal \/ SpuriousWakeup \/ UNCHANGED vars
    <3>1. UNCHANGED <<apc, last, pipe, mpc>> /\ waiting' \subseteq waiting
      BY <2>1 DEF ShutdownSignal, SpuriousWakeup, vars
    <3> QED
      BY <3>1 DEF SleepersAreServed, WaitsForReason
  <2> QED
    BY <2>1, SleepersMain, SleepersAdder DEF Next
<1> QED
  BY <1>1, <1>2, HandOverInvariant, PTL DEF Spec
==============================================================================
