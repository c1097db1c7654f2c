--------------------------- MODULE AndroidMainloop ---------------------------
(***************************************************************************)
(* The hand-over of a client's file descriptor from a binder thread, in    *)
(* ipc_server_mainloop_add_fd, through a pipe to the server's main thread, *)
(* and the shutdown of that hand-over.                                     *)
(*                                                                         *)
(* Sources: ipc_server_mainloop_android.c, and the way ipc_server_process.c*)
(* calls it (init_all, main_loop, teardown_all).                           *)
(*                                                                         *)
(* A section of accept_mutex that neither waits nor leaves the mutex       *)
(* locked is one step.  pthread_cond_wait is two: the thread releases the  *)
(* mutex and joins "waiting", and goes on when a broadcast (or a spurious  *)
(* wake-up) has taken it out and the mutex is free.                        *)
(***************************************************************************)
EXTENDS Integers, Sequences

CONSTANTS
  Adders,       \* the descriptors, each with the binder thread that adds it
  InitMayFail,  \* may pipe2, epoll_create1 or epoll_ctl fail?
  IoMayFail     \* may epoll_wait or the read of the pipe fail?

ASSUME OptionsAssumption == InitMayFail \in BOOLEAN /\ IoMayFail \in BOOLEAN

Main == "main"
Nobody == "nobody"
SHUTTING_DOWN == "shutting_down"
None == "zero"      \* last_accepted_fd = 0

ASSUME AddersAssumption ==
  {Main, Nobody, SHUTTING_DOWN, None} \cap Adders = {}

Threads == Adders \cup {Main}

VARIABLES
  running,   \* ipc_server::running
  entered,   \* has mainloop_entering given the service the server?
  mpc,       \* where the main thread is
  again,     \* will teardown_all deinit a main loop that init has deinited?
  pipe,      \* the descriptors in the pipe
  readEnd,   \* is pipe_read open?
  last,      \* last_accepted_fd
  push,      \* the holder of client_push_mutex
  accept,    \* the holder of accept_mutex (between steps)
  waiting,   \* threads in pthread_cond_wait on accept_cond, not yet woken
  apc,       \* where each adder is
  ret,       \* what add_fd returned
  taken      \* descriptors given to ipc_server_handle_client_connected

vars == <<running, entered, mpc, again, pipe, readEnd, last, push, accept, waiting, apc, ret, taken>>

MainPCs == {"init", "loop", "poll", "listen", "close", "deinit", "wait", "done", "freed"}

AdderPCs == {"idle", "push", "write", "wait", "returned", "undefined"}

TypeOK ==
  /\ running \in BOOLEAN
  /\ entered \in BOOLEAN
  /\ mpc \in MainPCs
  /\ again \in BOOLEAN
  /\ pipe \in Seq(Adders)
  /\ readEnd \in BOOLEAN
  /\ last \in Adders \cup {None, SHUTTING_DOWN}
  /\ push \in Adders \cup {Nobody}
  /\ accept \in {Main, Nobody}
  /\ waiting \in SUBSET Threads
  /\ apc \in [Adders -> AdderPCs]
  /\ ret \in [Adders -> {0, -1}]
  /\ taken \in SUBSET Adders

\* The server has been allocated with zeroes and running has been set.
Init ==
  /\ running = TRUE
  /\ entered = FALSE
  /\ mpc = "init"
  /\ again = FALSE
  /\ pipe = <<>>
  /\ readEnd = FALSE
  /\ last = None
  /\ push = Nobody
  /\ accept = Nobody
  /\ waiting = {}
  /\ apc = [a \in Adders |-> "idle"]
  /\ ret = [a \in Adders |-> 0]
  /\ taken = {}

-----------------------------------------------------------------------------
(***************************************************************************)
(* The main thread.                                                        *)
(***************************************************************************)

\* ipc_server_mainloop_init, then the callback mainloop_entering.
MainloopInit ==
  /\ mpc = "init"
  /\ readEnd' = TRUE
  /\ entered' = TRUE
  /\ mpc' = "loop"
  /\ UNCHANGED <<running, again, pipe, last, push, accept, waiting, apc, ret, taken>>

\* It deinits what it has, and so does the teardown_all of init_all after it.
MainloopInitFails ==
  /\ InitMayFail
  /\ mpc = "init"
  /\ again' = TRUE
  /\ mpc' = "close"
  /\ UNCHANGED <<running, entered, pipe, readEnd, last, push, accept, waiting, apc, ret, taken>>

\* main_loop tests running, sleeps and polls.
EnterPoll ==
  /\ mpc = "loop"
  /\ running
  /\ mpc' = "poll"
  /\ UNCHANGED <<running, entered, again, pipe, readEnd, last, push, accept, waiting, apc, ret, taken>>

\* ipc_server_mainloop_poll: epoll_wait does not sleep.
Poll ==
  /\ mpc = "poll"
  /\ mpc' = IF pipe = <<>> THEN "loop" ELSE "listen"
  /\ UNCHANGED <<running, entered, again, pipe, readEnd, last, push, accept, waiting, apc, ret, taken>>

PollFails ==
  /\ IoMayFail
  /\ mpc = "poll"
  /\ mpc' = "loop"
  /\ running' = FALSE
  /\ UNCHANGED <<entered, again, pipe, readEnd, last, push, accept, waiting, apc, ret, taken>>

\* Mutant of HandleListen: nobody is woken.
HandleListenQuiet ==
  /\ mpc = "listen"
  /\ accept = Nobody
  /\ last' = Head(pipe)
  /\ pipe' = Tail(pipe)
  /\ taken' = taken \cup {Head(pipe)}
  /\ mpc' = "loop"
  /\ UNCHANGED <<running, entered, again, readEnd, push, accept, waiting, apc, ret>>

\* handle_listen, all of it under accept_mutex.
HandleListen ==
  /\ mpc = "listen"
  /\ accept = Nobody
  /\ last' = Head(pipe)
  /\ pipe' = Tail(pipe)
  /\ taken' = taken \cup {Head(pipe)}
  /\ waiting' = {}
  /\ mpc' = "loop"
  /\ UNCHANGED <<running, entered, again, readEnd, push, accept, apc, ret>>

\* "error on pipe read": the function returns without unlocking accept_mutex.
HandleListenFails ==
  /\ IoMayFail
  /\ mpc = "listen"
  /\ accept = Nobody
  /\ accept' = Main
  /\ running' = FALSE
  /\ mpc' = "loop"
  /\ UNCHANGED <<entered, again, pipe, readEnd, last, push, waiting, apc, ret, taken>>

\* main_loop returns and teardown_all comes to the main loop.
LeaveMainLoop ==
  /\ mpc = "loop"
  /\ ~running
  /\ mpc' = "close"
  /\ UNCHANGED <<running, entered, again, pipe, readEnd, last, push, accept, waiting, apc, ret, taken>>

\* ipc_server_mainloop_deinit: first the read end is closed, with no lock; the
\* descriptors still in the pipe are lost with it.
DeinitClose ==
  /\ mpc = "close"
  /\ readEnd' = FALSE
  /\ pipe' = <<>>
  /\ mpc' = "deinit"
  /\ UNCHANGED <<running, entered, again, last, push, accept, waiting, apc, ret, taken>>

InDeinit ==
  \/ mpc = "deinit"
  \/ mpc = "wait" /\ Main \notin waiting

\* ... an acknowledgement that has not been picked up is waited for ...
DeinitWait ==
  /\ InDeinit
  /\ accept = Nobody
  /\ last # None
  /\ waiting' = waiting \cup {Main}
  /\ mpc' = "wait"
  /\ UNCHANGED <<running, entered, again, pipe, readEnd, last, push, accept, apc, ret, taken>>

\* Mutant of DeinitTell: a pending acknowledgement is overwritten.
DeinitTellAtOnce ==
  /\ InDeinit
  /\ accept = Nobody
  /\ last' = SHUTTING_DOWN
  /\ waiting' = {}
  /\ mpc' = IF again THEN "close" ELSE "done"
  /\ again' = FALSE
  /\ UNCHANGED <<running, entered, pipe, readEnd, push, accept, apc, ret, taken>>

\* ... and everybody is told to go away.
DeinitTell ==
  /\ InDeinit
  /\ accept = Nobody
  /\ last = None
  /\ last' = SHUTTING_DOWN
  /\ waiting' = {}
  /\ mpc' = IF again THEN "close" ELSE "done"
  /\ again' = FALSE
  /\ UNCHANGED <<running, entered, pipe, readEnd, push, accept, apc, ret, taken>>

\* ipc_server_main_common frees the server, whoever is still in add_fd.
FreeServer ==
  /\ mpc = "done"
  /\ mpc' = "freed"
  /\ UNCHANGED <<running, entered, again, pipe, readEnd, last, push, accept, waiting, apc, ret, taken>>

\* ipc_server_handle_shutdown_signal, from the service or the idle exit.
ShutdownSignal ==
  /\ entered
  /\ mpc # "freed"
  /\ running
  /\ running' = FALSE
  /\ UNCHANGED <<entered, mpc, again, pipe, readEnd, last, push, accept, waiting, apc, ret, taken>>

-----------------------------------------------------------------------------
(***************************************************************************)
(* ipc_server_mainloop_add_fd, run by the binder thread of descriptor a.   *)
(***************************************************************************)

\* A client is added once the server has announced that it enters its main
\* loop; the service keeps the pointer, also when the server ends by itself.
CallAddFd(a) ==
  /\ entered
  /\ apc[a] = "idle"
  /\ apc' = [apc EXCEPT ![a] = "push"]
  /\ UNCHANGED <<running, entered, mpc, again, pipe, readEnd, last, push, accept, waiting, ret, taken>>

\* Mutant of LockPush: the clients are not serialised.
LockPushShared(a) ==
  /\ mpc # "freed"
  /\ apc[a] = "push"
  /\ push' = a
  /\ apc' = [apc EXCEPT ![a] = "write"]
  /\ UNCHANGED <<running, entered, mpc, again, pipe, readEnd, last, accept, waiting, ret, taken>>

LockPush(a) ==
  /\ mpc # "freed"
  /\ apc[a] = "push"
  /\ push = Nobody
  /\ push' = a
  /\ apc' = [apc EXCEPT ![a] = "write"]
  /\ UNCHANGED <<running, entered, mpc, again, pipe, readEnd, last, accept, waiting, ret, taken>>

\* Mutant of Return: a success is reported by the descriptor.
ReturnFd(a, value) ==
  /\ apc' = [apc EXCEPT ![a] = "returned"]
  /\ ret' = [ret EXCEPT ![a] = IF value = 0 THEN a ELSE value]
  /\ push' = Nobody

\* The end of add_fd: client_push_mutex is released last.
Return(a, value) ==
  /\ apc' = [apc EXCEPT ![a] = "returned"]
  /\ ret' = [ret EXCEPT ![a] = value]
  /\ push' = Nobody

\* The pipe has no reader any more.
WriteFails(a) ==
  /\ mpc # "freed"
  /\ apc[a] = "write"
  /\ accept = Nobody
  /\ ~readEnd
  /\ Return(a, -1)
  /\ UNCHANGED <<running, entered, mpc, again, pipe, readEnd, last, accept, waiting, taken>>

\* The descriptor is written and the thread waits, having seen neither its own
\* acknowledgement nor SHUTTING_DOWN.
WriteFd(a) ==
  /\ mpc # "freed"
  /\ apc[a] = "write"
  /\ accept = Nobody
  /\ readEnd
  /\ last \notin {a, SHUTTING_DOWN}
  /\ pipe' = Append(pipe, a)
  /\ waiting' = waiting \cup {a}
  /\ apc' = [apc EXCEPT ![a] = "wait"]
  /\ UNCHANGED <<running, entered, mpc, again, readEnd, last, push, accept, ret, taken>>

Woken(a) ==
  /\ mpc # "freed"
  /\ apc[a] = "wait"
  /\ a \notin waiting
  /\ accept = Nobody

WaitAgain(a) ==
  /\ Woken(a)
  /\ last \notin {a, SHUTTING_DOWN}
  /\ waiting' = waiting \cup {a}
  /\ UNCHANGED <<running, entered, mpc, again, pipe, readEnd, last, push, accept, apc, ret, taken>>

\* "OK, we have now been accepted."  last_accepted_fd is written, accept_cond is
\* not signalled.
Accepted(a) ==
  /\ Woken(a)
  /\ last = a
  /\ last' = None
  /\ Return(a, 0)
  /\ UNCHANGED <<running, entered, mpc, again, pipe, readEnd, accept, waiting, taken>>

\* "we actually didn't hand off our client"
ShuttingDown(a) ==
  /\ Woken(a)
  /\ last = SHUTTING_DOWN
  /\ Return(a, -1)
  /\ UNCHANGED <<running, entered, mpc, again, pipe, readEnd, last, accept, waiting, taken>>

\* Undefined behaviour: the mutexes were in the server that has been freed.
UseFreed(a) ==
  /\ mpc = "freed"
  /\ apc[a] \in {"push", "write", "wait"}
  /\ apc' = [apc EXCEPT ![a] = "undefined"]
  /\ UNCHANGED <<running, entered, mpc, again, pipe, readEnd, last, push, accept, waiting, ret, taken>>

\* POSIX allows a condition variable to wake a thread for no reason.
SpuriousWakeup ==
  /\ \E t \in waiting : waiting' = waiting \ {t}
  /\ UNCHANGED <<running, entered, mpc, again, pipe, readEnd, last, push, accept, apc, ret, taken>>

MainThread ==
  \/ MainloopInit \/ MainloopInitFails
  \/ EnterPoll \/ Poll \/ PollFails \/ HandleListen \/ HandleListenFails
  \/ LeaveMainLoop \/ DeinitClose \/ DeinitWait \/ DeinitTell \/ FreeServer

Working(a) ==
  \/ LockPush(a) \/ WriteFails(a) \/ WriteFd(a)
  \/ WaitAgain(a) \/ Accepted(a) \/ ShuttingDown(a) \/ UseFreed(a)

Next ==
  \/ MainThread
  \/ ShutdownSignal
  \/ SpuriousWakeup
  \/ \E a \in Adders : CallAddFd(a) \/ Working(a)

\* Threads that can go on do; nobody has to call add_fd, ask for a shutdown or
\* wake up without a reason.
Fairness ==
  /\ WF_vars(MainThread)
  /\ \A a \in Adders : WF_vars(Working(a))

Spec == Init /\ [][Next]_vars

FairSpec == Spec /\ Fairness

-----------------------------------------------------------------------------
(***************************************************************************)
(* Properties.                                                             *)
(***************************************************************************)

\* "client_push_mutex should prevent dropping acknowledgements": whenever the
\* main thread is about to acknowledge a descriptor, the previous
\* acknowledgement has been picked up.  This is the assert in handle_listen.
NoDroppedAck == mpc = "listen" => last = None

\* "If and only if we get a 0 return, has the server taken ownership"
\* (service_target.cpp:252), whenever add_fd returns at all, through every race
\* of the hand-over with the shutdown.
OwnershipIffZero ==
  \A a \in Adders : apc[a] = "returned" => (ret[a] = 0 <=> a \in taken)

\* A call of add_fd returns, unless the main thread has left accept_mutex locked
\* or the server has been freed under the call.
AddFdReturns ==
  \A a \in Adders :
    apc[a] \in {"push", "write", "wait"}
      ~> (apc[a] \in {"returned", "undefined"} \/ accept = Main)

\* A binder thread that sleeps in add_fd does so for a reason: nothing has been
\* acknowledged, and its descriptor is in the pipe, or the pipe has been closed
\* and the main thread is about to tell everybody.  No broadcast of accept_cond
\* comes before the thread listens.
SleepersAreServed ==
  \A a \in Adders \cap waiting :
    /\ apc[a] = "wait" /\ last = None
    /\ pipe = <<a>> \/ mpc = "deinit"

\* The abstract hand-over that add_fd implements: what a caller sees of a call
\* that is at p.
PhaseOf(p) ==
  CASE p = "idle" -> "idle"
    [] p \in {"push", "write", "wait"} -> "calling"
    [] p = "returned" -> "returned"
    [] p = "undefined" -> "lost"

CallPhase == [a \in Adders |-> PhaseOf(apc[a])]

HO == INSTANCE HandOver WITH Descriptors <- Adders, phase <- CallPhase,
                             server <- taken, result <- ret

\* ipc_server_mainloop_add_fd and handle_listen, with their pipe, their two
\* mutexes, the condition variable and the shutdown, are an atomic hand-over:
\* a descriptor is taken during its own call, one at a time, never after the
\* call has returned, and the value returned tells whether it was.
ImplementsHandOver == HO!Spec

\* accept_cond is "Signalled when last_accepted_fd is updated" (ipc_server.h:267):
\* a shutdown that waits for an acknowledgement to be picked up comes to its end.
DeinitReturns == mpc \in {"close", "deinit", "wait"} ~> mpc = "done"

-----------------------------------------------------------------------------
(***************************************************************************)
(* The inductive invariant behind NoDroppedAck and OwnershipIffZero.       *)
(***************************************************************************)

\* Only the holder of client_push_mutex is past it.
PushExclusive == \A a \in Adders : apc[a] \in {"write", "wait"} => push = a

\* At most one descriptor is in the pipe: that of the holder, who waits for it
\* to be acknowledged while nothing else is.
OneInPipe ==
  /\ Len(pipe) <= 1
  /\ pipe # <<>> =>
       /\ apc[pipe[1]] = "wait"
       /\ pipe[1] \notin taken
       /\ last = None

\* An acknowledgement is for a thread that is waiting for it.
AckIsWaitedFor == last \in Adders => apc[last] = "wait"

\* The server has taken a descriptor exactly if its thread is about to see the
\* acknowledgement or has returned 0.
TakenIsAcknowledged ==
  \A a \in Adders :
    /\ apc[a] \in {"idle", "push", "write"} => a \notin taken
    /\ apc[a] = "wait" => (a \in taken <=> last = a)
    /\ apc[a] = "returned" => (ret[a] = 0 <=> a \in taken)

\* What the main thread has done to the pipe at each point.
PipeInPhase ==
  /\ readEnd => mpc \in {"loop", "poll", "listen", "close"}
  /\ ~readEnd => pipe = <<>>
  /\ mpc = "listen" => pipe # <<>>
  /\ mpc \in {"done", "freed"} => last = SHUTTING_DOWN

HandOverInv ==
  /\ TypeOK
  /\ PushExclusive
  /\ OneInPipe
  /\ AckIsWaitedFor
  /\ TakenIsAcknowledged
  /\ PipeInPhase

\* The reason for which a thread in add_fd may go back to sleep: with nothing
\* acknowledged, its descriptor is still to be read or the end to be told.
WaitsForReason ==
  \A a \in Adders :
    apc[a] = "wait" /\ last = None => pipe = <<a>> \/ mpc = "deinit"
==============================================================================
