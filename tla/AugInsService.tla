---------------------------- MODULE AugInsService ----------------------------
(***************************************************************************)
(* The Android service around the IPC server: the creation and destruction *)
(* of the service (IpcServerHelper in service_target.cpp), the Aug-Ins     *)
(* modules that it loads before the server starts and unloads after it has *)
(* stopped (loader.cpp, lifecycle.cpp), the dispatch registry              *)
(* (dispatch.cpp), and the client threads that call the modules            *)
(* (adapters.cpp).                                                         *)
(*                                                                         *)
(* MonadoService creates and destroys the service on one thread, here      *)
(* "ui".  The server's own workings are in ClientSlots and AndroidMainloop;*)
(* of them only the start, the end and the client threads are here.        *)
(*                                                                         *)
(* One function name stands for the keys of the registry.  Modules are     *)
(* numbered in the order of list_augins_files, which sorts the paths.      *)
(***************************************************************************)
EXTENDS Integers, Sequences, FiniteSets, Functions

CONSTANTS
  NumModules,   \* .augins files in the modules directory
  Priority,     \* the manifest's Priority of each module
  Listed,       \* how often each manifest lists the function, 0 if the .so lacks it
  MaxChain,     \* kMaxChain of the adapters
  Clients,      \* client threads, each used for one connection
  MaxStarts,    \* bound: how often the service is created
  InitMayFail   \* may init_all fail?

Modules == 1 .. NumModules

\* The modules that are called for the function.
Implements == {m \in Modules : Listed[m] > 0}

ASSUME ModulesAssumption ==
  /\ NumModules \in Nat
  /\ Priority \in [Modules -> Int]
  /\ Listed \in [Modules -> Nat]
ASSUME BoundsAssumption ==
  /\ MaxChain \in Nat \ {0}
  /\ MaxStarts \in Nat \ {0}
  /\ InitMayFail \in BOOLEAN

VARIABLES
  upc,          \* where the ui thread is
  starts,       \* services created so far
  result,       \* what the last shutdownServer returned
  server,       \* IpcServerHelper::server: null, live, or freed meanwhile
  thread,       \* is server_thread set?
  startup,      \* startup_complete
  spc,          \* where the server thread is
  running,      \* ipc_server::running
  initialised,  \* g_initialised
  file,         \* the next file of augins_loader_init
  loaded,       \* g_loaded
  chain,        \* the vector of the function in g_map
  mapped,       \* modules whose .so is mapped
  hooked,       \* modules between aug_on_module_load and aug_on_module_unload
  cpc,          \* where each client thread is
  snap,         \* what is left of its copy of the chain; the head is executing
  orphans,      \* client threads whose server has been freed
  hung          \* which of the ui and the server thread never goes on

vars == <<upc, starts, result, server, thread, startup, spc, running, initialised, file,
          loaded, chain, mapped, hooked, cpc, snap, orphans, hung>>

helper == <<result, server, thread, startup>>
loader == <<initialised, file, loaded, chain, mapped, hooked>>
clients == <<cpc, snap, orphans>>

UiPCs == {"destroyed", "loading", "spawn", "created", "joining", "unload", "clear", "dlclose"}

TypeOK ==
  /\ upc \in UiPCs
  /\ starts \in 0 .. MaxStarts
  /\ result \in {0, -1}
  /\ server \in {"null", "live", "freed"}
  /\ thread \in BOOLEAN
  /\ startup \in BOOLEAN
  /\ spc \in {"none", "init", "loop", "teardown", "ended"}
  /\ running \in BOOLEAN
  /\ initialised \in BOOLEAN
  /\ file \in 1 .. NumModules + 1
  /\ loaded \in Seq(Modules)
  /\ chain \in Seq(Implements)
  /\ mapped \subseteq Modules
  /\ hooked \subseteq Modules
  /\ cpc \in [Clients -> {"none", "serve", "locate", "call", "undefined", "done"}]
  /\ snap \in [Clients -> Seq(Implements)]
  /\ orphans \subseteq Clients
  /\ hung \subseteq {"ui", "server"}

Init ==
  /\ upc = "destroyed"
  /\ starts = 0
  /\ result = 0
  /\ server = "null"
  /\ thread = FALSE
  /\ startup = FALSE
  /\ spc = "none"
  /\ running = FALSE
  /\ initialised = FALSE
  /\ file = 1
  /\ loaded = <<>>
  /\ chain = <<>>
  /\ mapped = {}
  /\ hooked = {}
  /\ cpc = [c \in Clients |-> "none"]
  /\ snap = [c \in Clients |-> <<>>]
  /\ orphans = {}
  /\ hung = {}

\* startServer and shutdownServer hold server_mutex while they load and join.
MutexFree == upc \notin {"loading", "spawn", "joining"}

-----------------------------------------------------------------------------
(***************************************************************************)
(* Creating the service: nativeStartServer.                                *)
(***************************************************************************)

\* augins_loader_init does nothing if it has run and not been undone.
LoaderInit ==
  /\ upc' = IF initialised THEN "spawn" ELSE "loading"
  /\ initialised' = TRUE
  /\ file' = 1

\* startServer does nothing if there is a server or a thread already.
StartServer ==
  /\ upc = "destroyed"
  /\ starts < MaxStarts
  /\ starts' = starts + 1
  /\ \/ /\ server # "null" \/ thread
        /\ upc' = "created"
        /\ UNCHANGED <<initialised, file>>
     \/ /\ server = "null" /\ ~thread
        /\ LoaderInit
  /\ UNCHANGED <<helper, spc, running, loaded, chain, mapped, hooked, clients, hung>>

\* augins_lifecycle_register_module, for a module that has been opened.
RegisterModule(m) ==
  /\ mapped' = mapped \cup {m}
  /\ loaded' = Append(loaded, m)

\* aug_dispatch_register, once for every time the manifest lists the function:
\* neither the manifest nor the registry drops a name that is there already.
Register(s, m) == s \o [i \in 1 .. Listed[m] |-> m]

\* load_one: the module is opened, registered, and so is its function.
LoadOne ==
  /\ upc = "loading"
  /\ "ui" \notin hung
  /\ file <= NumModules
  /\ RegisterModule(file)
  /\ chain' = Register(chain, file)
  /\ file' = file + 1
  /\ UNCHANGED <<upc, starts, helper, spc, running, initialised, hooked, clients, hung>>

\* Mutant of SkipFile: the iteration advances twice.
SkipTwoFiles ==
  /\ upc = "loading"
  /\ "ui" \notin hung
  /\ file <= NumModules
  /\ file' = file + 2
  /\ UNCHANGED <<upc, starts, helper, spc, running, initialised, loaded, chain, mapped,
                 hooked, clients, hung>>

\* The file cannot be unpacked, its manifest is not valid or dlopen fails.
SkipFile ==
  /\ upc = "loading"
  /\ "ui" \notin hung
  /\ file <= NumModules
  /\ file' = file + 1
  /\ UNCHANGED <<upc, starts, helper, spc, running, initialised, loaded, chain, mapped,
                 hooked, clients, hung>>

\* Mutant of SortByPriority: the vector stays in the order of registration.
SortNot(s) == s

\* The order of the sort in aug_dispatch_sort_by_priority, which is stable: equal
\* priorities stay in the order of registration.
Precedes(s, i, j) ==
  \/ Priority[s[i]] < Priority[s[j]]
  \/ Priority[s[i]] = Priority[s[j]] /\ i < j

\* Where the sort puts the i-th entry: behind all that precede it.
Rank(s, i) == Cardinality({j \in DOMAIN s : Precedes(s, j, i)}) + 1

SortByPriority(s) == [p \in DOMAIN s |-> s[CHOOSE i \in DOMAIN s : Rank(s, i) = p]]

\* augins_lifecycle_fire_load: aug_on_module_load of every module.  What it
\* returns is only counted: a module that refuses stays in the registry.
FireLoad == hooked' = Range(loaded)

\* The rest of augins_loader_init.
FinishLoad ==
  /\ upc = "loading"
  /\ "ui" \notin hung
  /\ file > NumModules
  /\ chain' = SortByPriority(chain)
  /\ FireLoad
  /\ upc' = "spawn"
  /\ UNCHANGED <<starts, helper, spc, running, initialised, file, loaded, mapped, clients,
                 hung>>

SpawnServer ==
  /\ upc = "spawn"
  /\ thread' = TRUE
  /\ spc' = "init"
  /\ running' = TRUE
  /\ upc' = "created"
  /\ UNCHANGED <<starts, result, server, startup, loader, clients, hung>>

-----------------------------------------------------------------------------
(***************************************************************************)
(* The server thread: ipc_server_main_common.                              *)
(***************************************************************************)

\* init_all succeeds; mainloop_entering is signalStartupComplete(s).
EnterMainloop ==
  /\ spc = "init"
  /\ MutexFree
  /\ startup' = TRUE
  /\ server' = "live"
  /\ spc' = "loop"
  /\ UNCHANGED <<upc, starts, result, thread, running, loader, clients, hung>>

\* init_failed is signalStartupComplete(nullptr).
InitFails ==
  /\ InitMayFail
  /\ spc = "init"
  /\ MutexFree
  /\ startup' = TRUE
  /\ server' = "null"
  /\ spc' = "ended"
  /\ UNCHANGED <<upc, starts, result, thread, running, loader, clients, hung>>

\* ipc_server_handle_failure, or the exit of an idle server.
ServerStopsItself ==
  /\ spc = "loop"
  /\ running
  /\ running' = FALSE
  /\ UNCHANGED <<upc, starts, helper, spc, loader, clients, hung>>

\* The main loop is left; teardown_all begins.
LeaveMainloop ==
  /\ spc = "loop"
  /\ ~running
  /\ "server" \notin hung
  /\ spc' = "teardown"
  /\ UNCHANGED <<upc, starts, helper, running, loader, clients, hung>>

\* The server is freed.  No client thread is joined.
TeardownAll ==
  /\ spc = "teardown"
  /\ "server" \notin hung
  /\ spc' = "ended"
  /\ server' = "freed"
  /\ orphans' = orphans \cup {c \in Clients : cpc[c] \in {"serve", "locate", "call"}}
  /\ UNCHANGED <<upc, starts, result, thread, startup, running, loader, cpc, snap, hung>>

\* The server thread waits for good: in the main loop for a client thread that is
\* being joined, in the teardown for an add_fd that nobody signals (ClientSlots and
\* AndroidMainloop show how).
ServerHangs ==
  /\ spc \in {"loop", "teardown"}
  /\ hung' = hung \cup {"server"}
  /\ UNCHANGED <<upc, starts, helper, spc, running, loader, clients>>

-----------------------------------------------------------------------------
(***************************************************************************)
(* Destroying the service: nativeShutdownServer.                           *)
(***************************************************************************)

\* Mutant of ShutdownServer: the thread is joined whether or not the server has
\* reported that it is up.
ShutdownServerEarly ==
  /\ upc = "created"
  /\ upc' = "joining"
  /\ running' = FALSE
  /\ UNCHANGED <<starts, helper, spc, loader, clients, hung>>

\* "shutdownServer called before server started up!" is followed by the unload
\* of the modules all the same.  (If the server has stopped by itself, the write
\* of running goes to freed memory; the model lets it have no effect.)
ShutdownServer ==
  /\ upc = "created"
  /\ \/ /\ server = "null" \/ ~thread
        /\ result' = -1
        /\ upc' = "unload"
        /\ UNCHANGED running
     \/ /\ server # "null" /\ thread
        /\ running' = FALSE
        /\ upc' = "joining"
        /\ UNCHANGED result
  /\ UNCHANGED <<starts, server, thread, startup, spc, loader, clients, hung>>

\* Mutant of JoinServer: the thread object is not reset.
JoinServerKeeps ==
  /\ upc = "joining"
  /\ spc = "ended"
  /\ spc' = "none"
  /\ server' = "null"
  /\ startup' = FALSE
  /\ result' = 0
  /\ upc' = "unload"
  /\ UNCHANGED <<starts, thread, running, loader, clients, hung>>

JoinServer ==
  /\ upc = "joining"
  /\ spc = "ended"
  /\ spc' = "none"
  /\ thread' = FALSE
  /\ server' = "null"
  /\ startup' = FALSE
  /\ result' = 0
  /\ upc' = "unload"
  /\ UNCHANGED <<starts, running, loader, clients, hung>>

\* A module's code does not return to the loader: a hook, or what dlopen and
\* dlclose run.
ModuleHangs ==
  /\ \/ upc = "loading"
     \/ upc \in {"unload", "dlclose"} /\ loaded # <<>>
  /\ hung' = hung \cup {"ui"}
  /\ UNCHANGED <<upc, starts, helper, spc, running, loader, clients>>

\* augins_lifecycle_fire_unload: aug_on_module_unload of every module.
FireUnload == hooked' = {}

\* augins_loader_shutdown, if there is anything to undo: the hooks ...
LoaderShutdown ==
  /\ upc = "unload"
  /\ "ui" \notin hung
  /\ initialised' = FALSE
  /\ \/ ~initialised /\ upc' = "destroyed" /\ UNCHANGED hooked
     \/ initialised /\ upc' = "clear" /\ FireUnload
  /\ UNCHANGED <<starts, helper, spc, running, file, loaded, chain, mapped, clients, hung>>

\* Mutant of ClearDispatch: the registry is kept for the next start.
ClearDispatchNot ==
  /\ upc = "clear"
  /\ upc' = "dlclose"
  /\ UNCHANGED <<starts, helper, spc, running, loader, clients, hung>>

\* ... aug_dispatch_clear ...
ClearDispatch ==
  /\ upc = "clear"
  /\ chain' = <<>>
  /\ upc' = "dlclose"
  /\ UNCHANGED <<starts, helper, spc, running, initialised, file, loaded, mapped, hooked,
                 clients, hung>>

\* ... and augins_lifecycle_dlclose_all.
DlcloseAll ==
  /\ upc = "dlclose"
  /\ "ui" \notin hung
  /\ mapped' = mapped \ Range(loaded)
  /\ loaded' = <<>>
  /\ upc' = "destroyed"
  /\ UNCHANGED <<starts, helper, spc, running, initialised, file, chain, hooked, clients,
                 hung>>

-----------------------------------------------------------------------------
(***************************************************************************)
(* A client thread.                                                        *)
(***************************************************************************)

\* The server has started and is not freed.
Up == spc \in {"loop", "teardown"}

Serving(c) == Up /\ c \notin orphans

\* addClient has seen startup_complete and the server, and the main loop takes
\* the connection.
Connect(c) ==
  /\ startup
  /\ server = "live"
  /\ spc = "loop"
  /\ "server" \notin hung
  /\ cpc[c] = "none"
  /\ cpc' = [cpc EXCEPT ![c] = "serve"]
  /\ UNCHANGED <<upc, starts, helper, spc, running, loader, snap, orphans, hung>>

\* The dispatcher asks aug_has_modules_for and calls the adapter, which calls
\* the default handler first.  (Without modules the default handler is all.)
Dispatch(c) ==
  /\ Serving(c)
  /\ cpc[c] = "serve"
  /\ chain # <<>>
  /\ cpc' = [cpc EXCEPT ![c] = "locate"]
  /\ UNCHANGED <<upc, starts, helper, spc, running, loader, snap, orphans, hung>>

\* The default handler fails: no module is called.
DefaultFails(c) ==
  /\ Serving(c)
  /\ cpc[c] = "locate"
  /\ cpc' = [cpc EXCEPT ![c] = "serve"]
  /\ UNCHANGED <<upc, starts, helper, spc, running, loader, snap, orphans, hung>>

\* aug_adapter_space_locate_device: modules are called for the head only.
NotHead(c) ==
  /\ Serving(c)
  /\ cpc[c] = "locate"
  /\ cpc' = [cpc EXCEPT ![c] = "serve"]
  /\ UNCHANGED <<upc, starts, helper, spc, running, loader, snap, orphans, hung>>

\* Mutant of GetModules: a chain that is too long loses its first entries.
GetModulesLast(c) ==
  LET n == IF Len(chain) < MaxChain THEN Len(chain) ELSE MaxChain
  IN  /\ Serving(c)
      /\ cpc[c] = "locate"
      /\ snap' = [snap EXCEPT ![c] = SubSeq(chain, Len(chain) - n + 1, Len(chain))]
      /\ cpc' = [cpc EXCEPT ![c] = IF n = 0 THEN "serve" ELSE "call"]
      /\ UNCHANGED <<upc, starts, helper, spc, running, loader, orphans, hung>>

\* aug_get_modules_for copies at most kMaxChain entries, and the first module
\* is called.
GetModules(c) ==
  LET n == IF Len(chain) < MaxChain THEN Len(chain) ELSE MaxChain
  IN  /\ Serving(c)
      /\ cpc[c] = "locate"
      /\ snap' = [snap EXCEPT ![c] = SubSeq(chain, 1, n)]
      /\ cpc' = [cpc EXCEPT ![c] = IF n = 0 THEN "serve" ELSE "call"]
      /\ UNCHANGED <<upc, starts, helper, spc, running, loader, orphans, hung>>

\* A module returns XR_SUCCESS: the next one is called, or the reply is packed.
ModuleReturns(c) ==
  /\ cpc[c] = "call"
  /\ snap' = [snap EXCEPT ![c] = Tail(@)]
  /\ cpc' = [cpc EXCEPT ![c] = IF Len(snap[c]) = 1 THEN "serve" ELSE "call"]
  /\ UNCHANGED <<upc, starts, helper, spc, running, loader, orphans, hung>>

\* A module returns an error: the chain is aborted.
ModuleFails(c) ==
  /\ cpc[c] = "call"
  /\ snap' = [snap EXCEPT ![c] = <<>>]
  /\ cpc' = [cpc EXCEPT ![c] = "serve"]
  /\ UNCHANGED <<upc, starts, helper, spc, running, loader, orphans, hung>>

ClientEnds(c) ==
  /\ Serving(c)
  /\ cpc[c] = "serve"
  /\ cpc' = [cpc EXCEPT ![c] = "done"]
  /\ UNCHANGED <<upc, starts, helper, spc, running, loader, snap, orphans, hung>>

\* Undefined behaviour: what the client thread uses of the server is torn down, or
\* ics->server points to the server that has been freed.
UseFreed(c) ==
  /\ spc = "teardown" \/ c \in orphans
  /\ cpc[c] \in {"serve", "locate"}
  /\ cpc' = [cpc EXCEPT ![c] = "undefined"]
  /\ UNCHANGED <<upc, starts, helper, spc, running, loader, snap, orphans, hung>>

NativeStartServer == StartServer \/ LoadOne \/ SkipFile \/ FinishLoad \/ SpawnServer

NativeShutdownServer ==
  ShutdownServer \/ JoinServer \/ LoaderShutdown \/ ClearDispatch \/ DlcloseAll

Server == EnterMainloop \/ InitFails \/ LeaveMainloop \/ TeardownAll

Client(c) ==
  \/ Connect(c) \/ Dispatch(c) \/ DefaultFails(c) \/ NotHead(c) \/ GetModules(c)
  \/ ModuleReturns(c) \/ ModuleFails(c) \/ ClientEnds(c) \/ UseFreed(c)

Next ==
  \/ NativeStartServer \/ NativeShutdownServer \/ ModuleHangs
  \/ Server \/ ServerStopsItself \/ ServerHangs
  \/ \E c \in Clients : Client(c)

\* A shutdown goes on with what it has begun and so does a server that has been
\* stopped, unless one of them hangs.  Whether the service is created or destroyed,
\* init_all, and what clients and modules do, is up to them.
Fairness ==
  /\ WF_vars(JoinServer \/ LoaderShutdown \/ ClearDispatch \/ DlcloseAll)
  /\ WF_vars(LeaveMainloop \/ TeardownAll)

Spec == Init /\ [][Next]_vars

FairSpec == Spec /\ Fairness

-----------------------------------------------------------------------------
(***************************************************************************)
(* Properties.                                                             *)
(***************************************************************************)

\* Each entry comes before the later ones: lower priority, or equal and loaded
\* no later.
InOrder(s) ==
  \A i, j \in DOMAIN s :
    i < j => \/ Priority[s[i]] < Priority[s[j]]
             \/ Priority[s[i]] = Priority[s[j]] /\ s[i] <= s[j]

\* A client calls the modules "lower-priority first" (Manifest-Schema.md), in
\* load order where priorities are equal, also after the service has been
\* destroyed and created again.  A module that lists a function twice is called
\* twice.
ChainInOrder == \A c \in Clients : InOrder(snap[c])

\* How many calls come before those of module m: one for each time a loaded module
\* that is to be called before m lists the function.
CallsBefore(m) ==
  Cardinality(UNION {{k} \X (1 .. Listed[k]) :
                       k \in {j \in Range(loaded) :
                               \/ Priority[j] < Priority[m]
                               \/ Priority[j] = Priority[m] /\ j < m}})

\* With more calls than kMaxChain a client leaves out the last ones: it begins
\* with a copy that has, of the modules in g_loaded, those before which there
\* are fewer than kMaxChain calls, and no others.  No earlier life of the service
\* and no skipped file leaves anything in their way.
FirstModulesCalled ==
  [][\A c \in Clients :
       cpc[c] = "locate" /\ cpc'[c] = "call" =>
         Range(snap'[c]) =
           {m \in Range(loaded) \cap Implements : CallsBefore(m) < MaxChain}]_vars

\* Outside the loader's own functions every module in the registry is mapped
\* and has had aug_on_module_load: neither a start, a shutdown, a shutdown that
\* found no server nor a new start leaves a dead function pointer in g_map.
RegistryConsistent ==
  upc \in {"created", "joining", "destroyed"} => Range(chain) \subseteq mapped \cap hooked

\* After a shutdown that returned 0 the service can be created again: there is
\* a server thread and the modules have been loaded for it.
StartsAgain == upc = "created" /\ result = 0 => thread /\ initialised

\* Whoever joins the server thread has told it to stop, and finds it in its main
\* loop or past it: not in init_all, after which it would want server_mutex in
\* signalStartupComplete, and not in a loop that nothing ends.
JoinMeetsNoMutex ==
  upc = "joining" => spc \in {"teardown", "ended"} \/ (spc = "loop" /\ ~running)

\* nativeShutdownServer returns, unless the server thread hangs in its main loop
\* or its teardown or a module does not return: joining the server thread with
\* server_mutex held cannot meet that thread at the mutex in signalStartupComplete.
ShutdownReturns ==
  /\ upc = "joining" ~> upc = "unload" \/ "server" \in hung
  /\ upc = "unload" ~> upc = "destroyed" \/ "ui" \in hung

\* "so no module function is mid-call when its .so gets unmapped"
\* (service_target.cpp:278), here for shutdowns that have stopped the server.
NoCallUnmapped ==
  \A c \in Clients : cpc[c] = "call" /\ result = 0 => Head(snap[c]) \in mapped

\* What remains of that promise: as long as the server has not been freed under
\* a client thread, a shutdown that stopped the server finds the thread in no
\* module that is unmapped.
ServedCallsMapped ==
  \A c \in Clients \ orphans :
    cpc[c] = "call" /\ result = 0 => Range(snap[c]) \subseteq mapped

-----------------------------------------------------------------------------
(***************************************************************************)
(* The inductive invariant behind these properties.                        *)
(***************************************************************************)

\* The server thread and the helper.  A shutdown that returned 0 has joined the
\* thread, one that returned -1 may have left it behind; modules are loaded only
\* while there is no thread.
ThreadInv ==
  /\ thread <=> spc # "none"
  /\ ~thread => server = "null"
  /\ upc \in {"loading", "spawn"} => ~thread
  /\ result = 0 =>
       /\ upc \in {"unload", "clear", "dlclose", "destroyed"} => ~thread
       /\ upc \in {"created", "joining"} => thread /\ initialised

\* The loader.  g_loaded, g_map and the mapped modules describe the same set
\* while the loader is initialised, and are empty when it is not, other than
\* within augins_loader_shutdown.  The chain is in load order while modules are
\* being registered and in order of priority afterwards.
LoaderInv ==
  /\ upc \in {"loading", "spawn"} => initialised
  /\ upc \in {"destroyed", "clear", "dlclose"} => ~initialised
  /\ mapped = Range(loaded)
  /\ Range(chain) \subseteq Range(loaded)
  /\ initialised /\ upc # "loading" => hooked = Range(loaded)
  /\ ~initialised /\ upc \notin {"clear", "dlclose"} => loaded = <<>> /\ chain = <<>>
  /\ upc = "dlclose" => chain = <<>>
  /\ upc = "loading" =>
       /\ \A i \in DOMAIN chain : chain[i] < file
       /\ \A i, j \in DOMAIN chain : i < j => chain[i] <= chain[j]
  /\ upc # "loading" => InOrder(chain)

\* The client threads.  A thread that is in no freed server has a server in its
\* main loop or its teardown, and its copy of the chain is a part of the chain until a shutdown
\* gives up on the server.
CallInv ==
  \A c \in Clients :
    /\ cpc[c] = "call" => snap[c] # <<>>
    /\ c \notin orphans /\ cpc[c] \in {"serve", "locate", "call"} => Up
    /\ c \notin orphans /\ cpc[c] = "call" /\ result = 0
         => Range(snap[c]) \subseteq Range(chain)

ServiceInv == TypeOK /\ ThreadInv /\ LoaderInv /\ CallInv /\ ChainInOrder
==============================================================================
