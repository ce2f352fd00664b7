------------------------------ MODULE Lifecycle ------------------------------
(***************************************************************************)
(* One plugin from activate() to its destructor: GodotDistrhoPlugin with   *)
(* its client and server in the host process, and the plugin process the   *)
(* client launches, from main() to the unloading of the extension.         *)
(*                                                                         *)
(* activate() creates the segment of shared memory with its four buffers,  *)
(* launches the process and polls until two of its threads have announced  *)
(* themselves.  The destructor asks the process to shut down, joins the    *)
(* thread of the server, kills and awaits the process, and removes the     *)
(* segment.  The process watches for the death of its parent: on Linux by  *)
(* PR_SET_PDEATHSIG, which is about the thread that launched it, on Apple  *)
(* by a thread and a kqueue, on Windows not at all.                        *)
(*                                                                         *)
(* What is exchanged meanwhile is in AudioExchange, RpcChannel, StatePush  *)
(* and ParameterSync.                                                      *)
(***************************************************************************)
EXTENDS Naturals

CONSTANTS
    Platforms,      \* platforms looked at
    MayFail,        \* whether launching or starting Godot may fail
    MayCrash        \* whether either process may die on its own

ASSUME PlatformsAssumption == Platforms \subseteq {"linux", "apple", "windows"}
ASSUME FaultsAssumption == MayFail \in BOOLEAN /\ MayCrash \in BOOLEAN

VARIABLES
    platform,
    adopter,        \* the process that adopts orphans
    \* The host process.
    host,           \* where activate() or the destructor is
    launcher,       \* whether the thread that launched the process still runs
    server,         \* the RPC thread of GodotDistrhoPluginServer
    server_exit,    \*   and its exit_thread
    \* The shared memory.
    segment,        \* the buffers in it; none: there is no segment
    ready,          \* the threads that announced themselves
    request,        \* whether the shutdown request waits to be handled
    lost,           \* whether a process died holding a mutex
    \* The plugin process.
    child,          \* its main thread
    parent_pid,     \* what getppid() told it
    watcher,        \* the thread that watches the parent (Apple)
    threads,        \* the audio, RPC and client threads
    exit_thread, quit,
    mapped,         \* whether the segment is mapped
    sigterm         \* whether a SIGTERM is on its way

envVars == <<platform, adopter>>
hostVars == <<host, launcher, server, server_exit>>
memoryVars == <<segment, ready, request, lost>>
mainVars == <<child, parent_pid, watcher, mapped>>
childVars == <<mainVars, threads, exit_thread, quit, sigterm>>
vars == <<envVars, hostVars, memoryVars, childVars>>

Buffers == {"AudioBuffer", "RPCBuffer", "GodotRPCBuffer", "SharedMemoryRegion"}
ThreadNames == {"audio", "rpc", "client"}
Gone == {"none", "exited", "killed", "aborted"}
Adopters == {"init", "subreaper"}
Polling == {"polling audio", "polling rpc"}
Deleting == {"shutting down", "joining", "deleting", "removing"}

NoThreads == [t \in ThreadNames |-> "none"]
Alive == child \notin Gone
Running == {t \in ThreadNames : threads[t] \in {"booting", "looping"}}

Init ==
    /\ platform \in Platforms
    /\ adopter \in IF platform = "linux" THEN Adopters ELSE {"init"}
    /\ host = "inactive" /\ launcher = TRUE
    /\ server = "none" /\ server_exit = FALSE
    /\ segment = {} /\ ready = {} /\ request = FALSE /\ lost = FALSE
    /\ child = "none" /\ parent_pid = "unread" /\ watcher = "none"
    /\ threads = NoThreads
    /\ exit_thread = FALSE /\ quit = FALSE
    /\ mapped = FALSE /\ sigterm = FALSE

-----------------------------------------------------------------------------
(* The host.                                                               *)

HostStep(from, to) == host = from /\ host' = to

(* Mutant: the region is left out.                                         *)
CreateMemoryWithoutRegion ==
    /\ HostStep("inactive", "launching")
    /\ segment' = Buffers \ {"SharedMemoryRegion"}
    /\ UNCHANGED <<envVars, launcher, server, server_exit, ready, request, lost,
                   childVars>>

(* activate() with no client: a new segment under a new name, and all its  *)
(* buffers, before anybody else is told its name.                          *)
CreateMemory ==
    /\ HostStep("inactive", "launching")
    /\ segment' = Buffers
    /\ UNCHANGED <<envVars, launcher, server, server_exit, ready, request, lost,
                   childVars>>

Launch ==
    /\ HostStep("launching", "polling audio")
    /\ child' = "launched"
    /\ UNCHANGED <<envVars, launcher, server, server_exit, memoryVars,
                   parent_pid, watcher, mapped, threads, exit_thread, quit, sigterm>>

(* The executable is not found: child's constructor throws, the members of *)
(* the client are destroyed, and the plugin has no client.                 *)
LaunchFails ==
    /\ MayFail
    /\ HostStep("launching", "inactive")
    /\ segment' = {}
    /\ UNCHANGED <<envVars, launcher, server, server_exit, ready, request, lost,
                   childVars>>

(* The two loops that poll, one after the other, without a timeout.        *)
PollAudio ==
    /\ HostStep("polling audio", "polling rpc")
    /\ "audio" \in ready
    /\ UNCHANGED <<envVars, launcher, server, server_exit, memoryVars, childVars>>

(* activate() goes on to create the server, with its thread.               *)
PollRpc ==
    /\ HostStep("polling rpc", "active")
    /\ "rpc" \in ready
    /\ server' = "booting"
    /\ UNCHANGED <<envVars, launcher, server_exit, memoryVars, childVars>>

(* The destructor.  Nothing was activated: there is nothing to do.         *)
DeleteInactive ==
    /\ HostStep("inactive", "deleted")
    /\ UNCHANGED <<envVars, launcher, server, server_exit, memoryVars, childVars>>

(* client->shutdown().                                                     *)
ShutDown ==
    /\ HostStep("active", "shutting down")
    /\ ~lost
    /\ request' = TRUE
    /\ UNCHANGED <<envVars, launcher, server, server_exit, segment, ready, lost,
                   childVars>>

(* Mutant: the flag is not set.                                            *)
DeleteServerOnly ==
    /\ HostStep("shutting down", "joining")
    /\ ~lost
    /\ UNCHANGED <<envVars, launcher, server, server_exit, memoryVars, childVars>>

(* The call has returned, in time or not: delete server.                   *)
DeleteServer ==
    /\ HostStep("shutting down", "joining")
    /\ ~lost
    /\ server_exit' = TRUE
    /\ UNCHANGED <<envVars, launcher, server, memoryVars, childVars>>

JoinServer ==
    /\ HostStep("joining", "deleting")
    /\ server = "exited"
    /\ UNCHANGED <<envVars, launcher, server, server_exit, memoryVars, childVars>>

(* delete client: a process that still runs is killed and awaited.         *)
KillChild ==
    /\ HostStep("deleting", "removing")
    /\ child' = IF Alive THEN "killed" ELSE child
    /\ threads' = NoThreads /\ mapped' = FALSE
    /\ UNCHANGED <<envVars, launcher, server, server_exit, memoryVars,
                   parent_pid, watcher, exit_thread, quit, sigterm>>

(* The client's members are destroyed.                                     *)
RemoveMemory ==
    /\ HostStep("removing", "deleted")
    /\ segment' = {}
    /\ UNCHANGED <<envVars, launcher, server, server_exit, ready, request, lost,
                   childVars>>

-----------------------------------------------------------------------------
(* rpc_thread_func of the host's server; StatePush has its work.           *)

ServerStep(from, to) ==
    /\ host # "dead"
    /\ ~lost
    /\ server = from /\ server' = to
    /\ UNCHANGED <<envVars, host, launcher, server_exit, memoryVars, childVars>>

ServerBoots == ServerStep("booting", "looping")

ServerExits == server_exit /\ ServerStep("looping", "exited")

-----------------------------------------------------------------------------
(* main() of the plugin process.                                           *)

MainStep(from, to) == child = from /\ child' = to

(* getppid().                                                              *)
Parent == IF host = "dead" THEN adopter ELSE "host"

(* Linux: PR_SET_PDEATHSIG ...                                             *)
SetDeathSignal ==
    /\ platform = "linux"
    /\ MainStep("launched", "armed")
    /\ UNCHANGED <<envVars, hostVars, memoryVars, parent_pid, watcher, mapped,
                   threads, exit_thread, quit, sigterm>>

(* Mutant: the parent may have died before the signal was asked for.       *)
TrustParent ==
    /\ platform = "linux"
    /\ MainStep("armed", "starting")
    /\ UNCHANGED <<envVars, hostVars, memoryVars, parent_pid, watcher, mapped,
                   threads, exit_thread, quit, sigterm>>

(* ... and then the look whether there still is a parent, which takes any  *)
(* process but init for one.                                               *)
CheckParent ==
    /\ platform = "linux"
    /\ MainStep("armed", IF Parent = "init" THEN "exited" ELSE "starting")
    /\ parent_pid' = Parent
    /\ UNCHANGED <<envVars, hostVars, memoryVars, watcher, mapped, threads,
                   exit_thread, quit, sigterm>>

(* Apple: the parent is read before the thread starts that watches it.     *)
StartWatcher ==
    /\ platform = "apple"
    /\ MainStep("launched", "starting")
    /\ parent_pid' = Parent
    /\ watcher' = "started"
    /\ UNCHANGED <<envVars, hostVars, memoryVars, mapped, threads, exit_thread,
                   quit, sigterm>>

(* Windows: nothing.                                                       *)
DoNotWatch ==
    /\ platform = "windows"
    /\ MainStep("launched", "starting")
    /\ UNCHANGED <<envVars, hostVars, memoryVars, parent_pid, watcher, mapped,
                   threads, exit_thread, quit, sigterm>>

(* watch_parent_with_kqueue: a parent that is no more ends the process.    *)
Watch ==
    /\ Alive
    /\ watcher = "started"
    /\ watcher' = "watching"
    /\ sigterm' = (parent_pid # Parent)
    /\ UNCHANGED <<envVars, hostVars, memoryVars, child, parent_pid, mapped,
                   threads, exit_thread, quit>>

(* Creating the Godot instance fails.                                      *)
StartFails ==
    /\ MayFail
    /\ MainStep("starting", "exited")
    /\ UNCHANGED <<envVars, hostVars, memoryVars, parent_pid, watcher, mapped,
                   threads, exit_thread, quit, sigterm>>

(* Opening the segment throws when there is none.  A buffer that is not in *)
(* it is a null pointer, which initialize() would use: such a process is   *)
(* taken to end here as well.                                              *)
Found == segment = Buffers

(* The extension is initialized: DistrhoPluginServer opens the segment and *)
(* finds the buffers.                                                      *)
ConstructServer ==
    /\ MainStep("starting", IF Found THEN "created" ELSE "aborted")
    /\ mapped' = Found
    /\ UNCHANGED <<envVars, hostVars, memoryVars, parent_pid, watcher, threads,
                   exit_thread, quit, sigterm>>

(* initialize(), deferred to the first iteration, starts the threads.      *)
Initialize ==
    /\ MainStep("created", "running")
    /\ threads' = [t \in ThreadNames |-> "booting"]
    /\ UNCHANGED <<envVars, hostVars, memoryVars, parent_pid, watcher, mapped,
                   exit_thread, quit, sigterm>>

(* A script calls quit().                                                  *)
ScriptQuits ==
    /\ child = "running" /\ ~quit
    /\ quit' = TRUE
    /\ UNCHANGED <<envVars, hostVars, memoryVars, mainVars, threads, exit_thread,
                   sigterm>>

(* The loop over iteration() ends, and the extension is unloaded: finish() *)
Finish ==
    /\ MainStep("running", "finishing")
    /\ quit
    /\ exit_thread' = TRUE
    /\ UNCHANGED <<envVars, hostVars, memoryVars, parent_pid, watcher, mapped,
                   threads, quit, sigterm>>

(* Mutant: the thread that was added last is not waited for.               *)
UnloadWithoutClientThread ==
    /\ MainStep("finishing", "exited")
    /\ Running \subseteq {"client"}
    /\ mapped' = FALSE
    /\ UNCHANGED <<envVars, hostVars, memoryVars, parent_pid, watcher, threads,
                   exit_thread, quit, sigterm>>

(* ... waits for the threads, and the destructor gives up the segment,     *)
(* which is the host's to remove.                                          *)
Unload ==
    /\ MainStep("finishing", "exited")
    /\ Running = {}
    /\ mapped' = FALSE
    /\ UNCHANGED <<envVars, hostVars, memoryVars, parent_pid, watcher, threads,
                   exit_thread, quit, sigterm>>

-----------------------------------------------------------------------------
(* The threads of the plugin process.  Each locks the mutex of its buffer  *)
(* to announce itself, except the client thread, which has nothing to say. *)

(* Mutant: only the audio thread announces itself.                         *)
BootAudioOnly(t) ==
    /\ Alive /\ ~lost
    /\ threads[t] = "booting"
    /\ threads' = [threads EXCEPT ![t] = "looping"]
    /\ ready' = ready \cup ({t} \cap {"audio"})
    /\ UNCHANGED <<envVars, hostVars, segment, request, lost, mainVars,
                   exit_thread, quit, sigterm>>

Boot(t) ==
    /\ Alive /\ ~lost
    /\ threads[t] = "booting"
    /\ threads' = [threads EXCEPT ![t] = "looping"]
    /\ ready' = ready \cup ({t} \ {"client"})
    /\ UNCHANGED <<envVars, hostVars, segment, request, lost, mainVars,
                   exit_thread, quit, sigterm>>

(* while (!exit_thread), once per wait or sleep.                           *)
Exit(t) ==
    /\ Alive /\ ~lost
    /\ threads[t] = "looping"
    /\ exit_thread
    /\ threads' = [threads EXCEPT ![t] = "exited"]
    /\ UNCHANGED <<envVars, hostVars, memoryVars, mainVars, exit_thread, quit,
                   sigterm>>

(* The RPC thread handles the shutdown request, perhaps after its caller   *)
(* has stopped waiting.                                                    *)
HandleShutdown ==
    /\ Alive /\ ~lost
    /\ threads["rpc"] = "looping"
    /\ request
    /\ request' = FALSE
    /\ exit_thread' = TRUE /\ quit' = TRUE
    /\ UNCHANGED <<envVars, hostVars, segment, ready, lost, mainVars, threads,
                   sigterm>>

-----------------------------------------------------------------------------
(* Signals and deaths.                                                     *)

(* Whether the kernel would tell the process of the end of its launcher.   *)
Armed == platform = "linux" /\ Alive /\ child # "launched"

(* The thread of the host that called activate() ends, the host does not.  *)
LauncherEnds ==
    /\ host \in {"active"} \cup Deleting \cup {"deleted"}
    /\ launcher
    /\ launcher' = FALSE
    /\ sigterm' = (sigterm \/ Armed)
    /\ UNCHANGED <<envVars, host, server, server_exit, memoryVars, mainVars,
                   threads, exit_thread, quit>>

(* The process is gone from one moment to the next.                        *)
ChildEnds(how) ==
    /\ Alive
    /\ child' = how
    /\ threads' = NoThreads /\ mapped' = FALSE
    /\ lost' \in {lost, lost \/ Running # {}}
    /\ UNCHANGED <<envVars, hostVars, segment, ready, request, parent_pid,
                   watcher, exit_thread, quit, sigterm>>

SigTerm == sigterm /\ ChildEnds("killed")

ChildDies == MayCrash /\ ChildEnds("killed")

(* The host dies.  The name of the segment stays, but on Windows, where a  *)
(* segment is there as long as somebody has it open.                       *)
HostDies ==
    /\ MayCrash
    /\ host # "dead"
    /\ host' = "dead"
    /\ server' = IF server = "none" THEN "none" ELSE "exited"
    /\ segment' = IF platform = "windows" /\ ~mapped THEN {} ELSE segment
    /\ lost' \in {lost, lost \/ mapped}
    /\ sigterm' = (sigterm \/ Armed \/ (watcher = "watching" /\ parent_pid = "host"))
    /\ UNCHANGED <<envVars, launcher, server_exit, ready, request, mainVars,
                   threads, exit_thread, quit>>

-----------------------------------------------------------------------------
HostThread ==
    \/ Launch \/ LaunchFails \/ PollAudio \/ PollRpc
    \/ DeleteServer \/ JoinServer \/ KillChild \/ RemoveMemory

ServerThread == ServerBoots \/ ServerExits

MainThread ==
    \/ SetDeathSignal \/ CheckParent \/ StartWatcher \/ DoNotWatch
    \/ StartFails \/ ConstructServer \/ Initialize \/ Finish \/ Unload

Thread(t) == Boot(t) \/ Exit(t)

Next ==
    \/ CreateMemory \/ DeleteInactive \/ ShutDown \/ HostThread
    \/ ServerThread
    \/ MainThread \/ Watch \/ ScriptQuits
    \/ \E t \in ThreadNames : Thread(t)
    \/ HandleShutdown
    \/ LauncherEnds \/ SigTerm \/ ChildDies \/ HostDies

Spec == Init /\ [][Next]_vars

(* Threads run and signals arrive.  Nothing obliges the host to activate   *)
(* or to delete, scripts to quit, or anything to fail.                     *)
FairSpec ==
    /\ Spec
    /\ WF_vars(HostThread) /\ WF_vars(ServerThread)
    /\ WF_vars(MainThread) /\ WF_vars(Watch) /\ WF_vars(SigTerm)
    /\ \A t \in ThreadNames : WF_vars(Thread(t))

-----------------------------------------------------------------------------
HostStates ==
    {"inactive", "launching", "active", "deleted", "dead"} \cup Polling \cup Deleting

(* Every variable keeps its type.                                          *)
TypeOK ==
    /\ platform \in Platforms /\ adopter \in Adopters
    /\ host \in HostStates
    /\ launcher \in BOOLEAN
    /\ server \in {"none", "booting", "looping", "exited"}
    /\ server_exit \in BOOLEAN
    /\ segment \subseteq Buffers /\ ready \subseteq ThreadNames
    /\ request \in BOOLEAN /\ lost \in BOOLEAN
    /\ child \in Gone \cup {"launched", "armed", "starting", "created",
                            "running", "finishing"}
    /\ parent_pid \in {"unread", "host"} \cup Adopters
    /\ watcher \in {"none", "started", "watching"}
    /\ threads \in [ThreadNames -> {"none", "booting", "looping", "exited"}]
    /\ exit_thread \in BOOLEAN /\ quit \in BOOLEAN
    /\ mapped \in BOOLEAN /\ sigterm \in BOOLEAN

(* As long as a thread or a process uses the shared memory it is there:    *)
(* the plugin process has it mapped while one of its threads runs, and the *)
(* host removes it after the process and the thread of its server.         *)
(* ~DistrhoPluginServer frees what finish() has stopped, and               *)
(* ~GodotDistrhoPluginClient what ~GodotDistrhoPluginServer has.           *)
MemoryOutlivesItsUsers ==
    /\ Running # {} => mapped
    /\ host # "dead" /\ segment = {} => ~Alive /\ server \in {"none", "exited"}
    /\ host = "deleted" => segment = {}

(* The plugin process finds the segment and every buffer, unless the host  *)
(* died: memory is created before the launch and removed after the end.    *)
OpensItsMemory == child = "aborted" => host = "dead"

(* activate() comes back, or the plugin process is gone (and then it polls *)
(* for ever): a process that lives announces both threads it waits for.    *)
ActivateEnds == host \in Polling ~> host \notin Polling \/ ~Alive

(* The destructor ends, whatever state the process is in and whoever ended *)
(* it, unless a mutex was lost with it.                                    *)
DeleteEnds == host \in Deleting ~> host \notin Deleting \/ lost

(* No plugin process outlives a dead host, at whatever point of main() the *)
(* host died, unless it takes the process that adopted it for its parent   *)
(* (a subreaper on Linux; launchd on Apple), or runs on Windows.           *)
NoOrphan ==
    host = "dead" /\ platform # "windows"
        ~> ~Alive \/ parent_pid = adopter

=============================================================================
