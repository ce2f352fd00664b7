------------------------------ MODULE UISession ------------------------------
(***************************************************************************)
(* The life of the user interface: GodotDistrhoUI opens its window by      *)
(* making a client, which creates shared memory and launches the UI        *)
(* process, and a server, whose two threads use that memory; it closes it  *)
(* by a shutdown call, deleting the server (joining the threads) and       *)
(* deleting the client (killing the process, freeing the memory).          *)
(*                                                                         *)
(* Two RPCBuffers are between the processes.  Over "rpc" the host calls    *)
(* the UI process, over "godot_rpc" the UI process calls the host; both    *)
(* directions use rpc_call, whose callers wait 100 ms at most.  The UI     *)
(* process may quit on its own (its Godot window is closed), or die.       *)
(*                                                                         *)
(* Abstraction: a request is its kind, all messages fit (RpcChannel and    *)
(* StatePush have those that do not), and threads that wait with a         *)
(* predicate are not woken spuriously.                                     *)
(***************************************************************************)
EXTENDS Integers

CONSTANTS
    MaxSessions,        \* bound: how often the window is opened
    MaxSpurious,        \* bound: spurious wakeups
    MayCrash            \* whether the UI process may die on its own

ASSUME UISessionAssumption ==
    MaxSessions \in Nat /\ MaxSpurious \in Nat /\ MayCrash \in BOOLEAN

VARIABLES
    \* GodotDistrhoUI, on the host's UI thread.
    ui_pc,
    call,               \* what it calls the UI process for
    client,             \* whether there is a client, and so the memory
    godot_window_id,    \* the session whose window it is, 0 if not known
    destroyed,
    \* GodotDistrhoUIServer, its threads.
    exit_thread,
    process_thread,
    rpc_thread,
    \* The buffer of calls to the UI process.
    ready,
    mutex,
    request_id,
    response,
    \* The buffer of calls to the host.
    godot_ready,
    godot_mutex,
    godot_request_id,
    \* The UI process.
    child,              \* its main thread; "none": there is no process
    child_rpc,          \* its RPC thread
    child_exit,         \* DistrhoUIServer::exit_thread
    \* History.
    sessions,
    early,              \* the window was closed before its process was ready
    spurious

uiVars == <<ui_pc, call, client, godot_window_id, destroyed>>
serverVars == <<exit_thread, process_thread, rpc_thread>>
rpcVars == <<ready, mutex, request_id, response>>
godotVars == <<godot_ready, godot_mutex, godot_request_id>>
childVars == <<child, child_rpc, child_exit>>
historyVars == <<sessions, early, spurious>>
vars == <<uiVars, serverVars, rpcVars, godotVars, childVars, historyVars>>

Calls == {"window_id", "notify", "shutdown"}

\* A mutex is "lost" when its owner died.
Free == "free"
Lost == "lost"

Init ==
    /\ ui_pc = "idle" /\ call = "none" /\ client = FALSE
    /\ godot_window_id = 0 /\ destroyed = FALSE
    /\ exit_thread = FALSE
    /\ process_thread = "none" /\ rpc_thread = "none"
    /\ ready = FALSE /\ mutex = Free
    /\ request_id = "none" /\ response = "none"
    /\ godot_ready = FALSE /\ godot_mutex = Free /\ godot_request_id = "none"
    /\ child = "none" /\ child_rpc = "none" /\ child_exit = FALSE
    /\ sessions = 0 /\ early = FALSE /\ spurious = 0

-----------------------------------------------------------------------------
(* GodotDistrhoUI.                                                         *)

(* The client's memory before anybody has used it; also what is left of it *)
(* when there is no client.                                                *)
FreshMemory ==
    /\ ready' = FALSE /\ mutex' = Free
    /\ request_id' = "none" /\ response' = "none"
    /\ godot_ready' = FALSE /\ godot_mutex' = Free /\ godot_request_id' = "none"

(* Becoming visible: the client's constructor creates the memory and       *)
(* launches the process, without waiting for it; the server's starts the   *)
(* threads.                                                                *)
Open ==
    /\ ui_pc = "idle" /\ ~client /\ ~destroyed
    /\ sessions < MaxSessions
    /\ client' = TRUE
    /\ FreshMemory
    /\ child' = "booting" /\ child_rpc' = "none" /\ child_exit' = FALSE
    /\ exit_thread' = FALSE
    /\ process_thread' = "looping" /\ rpc_thread' = "booting"
    /\ sessions' = sessions + 1
    /\ early' = FALSE
    /\ UNCHANGED <<ui_pc, call, godot_window_id, destroyed, spurious>>

(* rpc_call up to the lock; "ready" is tested without it.                  *)
StartCall(kind) ==
    /\ ready
    /\ call' = kind
    /\ ui_pc' = "locking"

(* Mutant: the call is made whether the process is ready or not.           *)
IdleUnready ==
    /\ ui_pc = "idle" /\ client
    /\ godot_window_id = 0
    /\ \/ StartCall("window_id")
       \/ ~ready /\ ui_pc' \in {"idle", "aborted"} /\ UNCHANGED call
    /\ UNCHANGED <<client, godot_window_id, destroyed, serverVars, rpcVars,
                   godotVars, childVars, historyVars>>

(* uiIdle: asks for the window of the UI process once that is ready.       *)
Idle ==
    /\ ui_pc = "idle" /\ client
    /\ godot_window_id = 0
    /\ StartCall("window_id")
    /\ UNCHANGED <<client, godot_window_id, destroyed, serverVars, rpcVars,
                   godotVars, childVars, historyVars>>

(* programLoaded, parameterChanged, stateChanged.  They ignore the result  *)
(* of the call, and are no call when the process is not ready.             *)
Notify ==
    /\ ui_pc = "idle" /\ client
    /\ StartCall("notify")
    /\ UNCHANGED <<client, godot_window_id, destroyed, serverVars, rpcVars,
                   godotVars, childVars, historyVars>>

(* Becoming invisible, or the destructor, which does the same before       *)
(* Destroy: shutdown().  When the process is not ready rpc_call does not   *)
(* set "result".  If that happens to be true, the reply is read out of an  *)
(* empty message: the reader throws, and the host dies.                    *)
Close ==
    /\ ui_pc = "idle" /\ client
    /\ \/ /\ StartCall("shutdown")
          /\ UNCHANGED early
       \/ /\ ~ready
          /\ early' = TRUE
          /\ ui_pc' \in {"shut", "aborted"}
          /\ UNCHANGED call
    /\ UNCHANGED <<client, godot_window_id, destroyed, serverVars, rpcVars,
                   godotVars, childVars, sessions, spurious>>

(* The rest of the destructor: there is no window to open any more.        *)
Destroy ==
    /\ ui_pc = "idle" /\ ~client /\ ~destroyed
    /\ destroyed' = TRUE
    /\ UNCHANGED <<ui_pc, call, client, godot_window_id, serverVars, rpcVars,
                   godotVars, childVars, historyVars>>

(* Lock, write the request, notify, wait.                                  *)
WriteRequest ==
    /\ ui_pc = "locking"
    /\ mutex = Free
    /\ request_id' = call
    /\ child_rpc' = IF child_rpc = "waiting" THEN "woken" ELSE child_rpc
    /\ ui_pc' = "waiting"
    /\ UNCHANGED <<call, client, godot_window_id, destroyed, serverVars, ready,
                   mutex, response, godotVars, child, child_exit, historyVars>>

CallTimeout ==
    /\ ui_pc = "waiting"
    /\ ui_pc' = "expired"
    /\ UNCHANGED <<call, client, godot_window_id, destroyed, serverVars,
                   rpcVars, godotVars, childVars, historyVars>>

(* The wait of rpc_call has no predicate.                                  *)
CallSpuriousWakeup ==
    /\ ui_pc = "waiting"
    /\ spurious < MaxSpurious
    /\ ui_pc' = "woken"
    /\ spurious' = spurious + 1
    /\ UNCHANGED <<call, client, godot_window_id, destroyed, serverVars,
                   rpcVars, godotVars, childVars, sessions, early>>

(* After a call the window is open still, or its shutdown goes on.         *)
AfterCall == IF call = "shutdown" THEN "shut" ELSE "idle"

(* The reply is read, but for notifications: a reply that was never        *)
(* written has no root, and one of another kind no id.                     *)
CallReturns ==
    /\ ui_pc = "woken"
    /\ mutex = Free
    /\ ui_pc' = IF response = "none" /\ call # "notify"
                THEN "aborted" ELSE AfterCall
    /\ godot_window_id' = IF call = "window_id" /\ response = "window_id"
                          THEN sessions ELSE godot_window_id
    /\ call' = "none"
    /\ UNCHANGED <<client, destroyed, serverVars, rpcVars, godotVars,
                   childVars, historyVars>>

CallFails ==
    /\ ui_pc = "expired"
    /\ mutex = Free
    /\ ui_pc' = AfterCall
    /\ call' = "none"
    /\ UNCHANGED <<client, godot_window_id, destroyed, serverVars, rpcVars,
                   godotVars, childVars, historyVars>>

(* delete server: the flag, and two joins.                                 *)
DeleteServer ==
    /\ ui_pc = "shut"
    /\ exit_thread' = TRUE
    /\ ui_pc' = "joining"
    /\ UNCHANGED <<call, client, godot_window_id, destroyed, process_thread,
                   rpc_thread, rpcVars, godotVars, childVars, historyVars>>

Join ==
    /\ ui_pc = "joining"
    /\ process_thread = "exited" /\ rpc_thread = "exited"
    /\ ui_pc' = "deleting"
    /\ UNCHANGED <<call, client, godot_window_id, destroyed, serverVars,
                   rpcVars, godotVars, childVars, historyVars>>

(* Mutant: the process is left to end by itself.                           *)
DeleteClientOnly ==
    /\ ui_pc = "deleting"
    /\ client' = FALSE
    /\ FreshMemory
    /\ ui_pc' = "idle"
    /\ UNCHANGED <<call, godot_window_id, destroyed, serverVars, childVars,
                   historyVars>>

(* delete client: kill the process if it runs and wait for its end; then   *)
(* the members are destroyed, the memory among them.                       *)
DeleteClient ==
    /\ ui_pc = "deleting"
    /\ client' = FALSE
    /\ child' = "none" /\ child_rpc' = "none"
    /\ FreshMemory
    /\ ui_pc' = "idle"
    /\ UNCHANGED <<call, godot_window_id, destroyed, serverVars, child_exit,
                   historyVars>>

-----------------------------------------------------------------------------
(* GodotDistrhoUIServer.  Its threads end with the host.                   *)

(* process_thread_func; what it does meanwhile is in UIParameters.         *)
ProcessThreadExit ==
    /\ ui_pc # "aborted"
    /\ process_thread = "looping"
    /\ exit_thread
    /\ process_thread' = "exited"
    /\ UNCHANGED <<uiVars, exit_thread, rpc_thread, rpcVars, godotVars,
                   childVars, historyVars>>

(* A step of rpc_thread_func.                                              *)
RpcThread(from, to) ==
    /\ ui_pc # "aborted"
    /\ rpc_thread \in from
    /\ rpc_thread' = to
    /\ UNCHANGED <<uiVars, exit_thread, process_thread, rpcVars, godot_mutex,
                   child_rpc, child_exit, historyVars>>

RpcThreadBoot ==
    /\ RpcThread({"booting"}, "looping")
    /\ godot_mutex = Free
    /\ godot_ready' = TRUE
    /\ UNCHANGED <<godot_request_id, child>>

(* while (!exit_thread), without the mutex.                                *)
RpcThreadLoop ==
    /\ RpcThread({"looping"}, IF exit_thread THEN "exited" ELSE "locking")
    /\ UNCHANGED <<godot_ready, godot_request_id, child>>

RpcThreadWait ==
    /\ RpcThread({"locking", "woken"}, "waiting")
    /\ godot_mutex = Free
    /\ godot_request_id = "none"
    /\ UNCHANGED <<godot_ready, godot_request_id, child>>

(* Mutant: a wait without a timeout.                                       *)
RpcThreadNeverTimesOut == FALSE

RpcThreadTimeout ==
    /\ RpcThread({"waiting"}, "expired")
    /\ UNCHANGED <<godot_ready, godot_request_id, child>>

RpcThreadSkip ==
    /\ RpcThread({"expired"}, "looping")
    /\ godot_mutex = Free
    /\ godot_request_id = "none"
    /\ UNCHANGED <<godot_ready, godot_request_id, child>>

(* editParameter, sendNote or setState of the host, and the answer.        *)
RpcThreadHandle ==
    /\ RpcThread({"locking", "woken", "expired"}, "looping")
    /\ godot_mutex = Free
    /\ godot_request_id # "none"
    /\ child' = IF child = "waiting" THEN "woken" ELSE child
    /\ godot_request_id' = "none"
    /\ UNCHANGED godot_ready

-----------------------------------------------------------------------------
(* DistrhoUIServer in the UI process: its main thread.                     *)

ChildMain(from, to) ==
    /\ child \in from
    /\ child' = to
    /\ UNCHANGED <<uiVars, exit_thread, process_thread, rpcVars, godot_ready,
                   godot_mutex, historyVars>>

(* initialize(), deferred: start().                                        *)
ChildInitialize ==
    /\ ChildMain({"booting"}, "idle")
    /\ child_rpc' = "booting"
    /\ UNCHANGED <<rpc_thread, godot_request_id, child_exit>>

(* A script calls send_note_on, send_note_off or set_state_value.          *)
ScriptCall ==
    /\ ChildMain({"idle"}, "locking")
    /\ godot_ready
    /\ UNCHANGED <<rpc_thread, godot_request_id, child_rpc, child_exit>>

ScriptWrite ==
    /\ ChildMain({"locking"}, "waiting")
    /\ godot_mutex = Free
    /\ godot_request_id' = "request"
    /\ rpc_thread' = IF rpc_thread = "waiting" THEN "woken" ELSE rpc_thread
    /\ UNCHANGED <<child_rpc, child_exit>>

ScriptTimeout ==
    /\ ChildMain({"waiting"}, "expired")
    /\ UNCHANGED <<rpc_thread, godot_request_id, child_rpc, child_exit>>

ScriptReturns ==
    /\ ChildMain({"woken", "expired"}, "idle")
    /\ godot_mutex = Free
    /\ UNCHANGED <<rpc_thread, godot_request_id, child_rpc, child_exit>>

(* Godot ends and the extension is unloaded: finish()...                   *)
ChildQuit ==
    /\ ChildMain({"booting", "idle"}, "finishing")
    /\ child_exit' = TRUE
    /\ UNCHANGED <<rpc_thread, godot_request_id, child_rpc>>

(* ... which waits for the thread, if there is one...                      *)
ChildFinish ==
    /\ ChildMain({"finishing"}, "destroying")
    /\ child_rpc \in {"none", "exited"}
    /\ UNCHANGED <<rpc_thread, godot_request_id, child_rpc, child_exit>>

(* ... and the destructor, which locks the buffer of calls to the host.    *)
ChildDestroy ==
    /\ ChildMain({"destroying"}, "none")
    /\ godot_mutex = Free
    /\ rpc_thread' = IF rpc_thread = "waiting" THEN "woken" ELSE rpc_thread
    /\ child_rpc' = "none"
    /\ UNCHANGED <<godot_request_id, child_exit>>

-----------------------------------------------------------------------------
(* Its RPC thread.                                                         *)

ChildRpc(from, to) ==
    /\ child_rpc \in from
    /\ child_rpc' = to
    /\ UNCHANGED <<call, client, godot_window_id, destroyed, serverVars, mutex,
                   godotVars, child, child_exit, historyVars>>

ChildRpcBoot ==
    /\ ChildRpc({"booting"}, "looping")
    /\ mutex = Free
    /\ ready' = TRUE
    /\ UNCHANGED <<ui_pc, request_id, response>>

ChildRpcLoop ==
    /\ ChildRpc({"looping"}, IF child_exit THEN "exited" ELSE "locking")
    /\ UNCHANGED <<ui_pc, ready, request_id, response>>

ChildRpcWait ==
    /\ ChildRpc({"locking", "woken"}, "waiting")
    /\ mutex = Free
    /\ request_id = "none"
    /\ UNCHANGED <<ui_pc, ready, request_id, response>>

(* Mutant: a wait without a timeout.                                       *)
ChildRpcNeverTimesOut == FALSE

ChildRpcTimeout ==
    /\ ChildRpc({"waiting"}, "expired")
    /\ UNCHANGED <<ui_pc, ready, request_id, response>>

ChildRpcSkip ==
    /\ ChildRpc({"expired"}, "looping")
    /\ mutex = Free
    /\ request_id = "none"
    /\ UNCHANGED <<ui_pc, ready, request_id, response>>

(* Every request is answered; shutdown does nothing else.                  *)
ChildRpcHandle ==
    /\ ChildRpc({"locking", "woken", "expired"}, "looping")
    /\ mutex = Free
    /\ request_id # "none"
    /\ response' = request_id
    /\ request_id' = "none"
    /\ ui_pc' = IF ui_pc = "waiting" THEN "woken" ELSE ui_pc
    /\ UNCHANGED ready

(* The process dies, perhaps while one of its threads, or both, hold a     *)
(* mutex: nobody releases it.                                              *)
ChildDie ==
    /\ MayCrash
    /\ child # "none"
    /\ \/ UNCHANGED mutex
       \/ /\ child_rpc \in {"booting", "locking", "woken", "expired"}
          /\ mutex' = Lost
    /\ \/ UNCHANGED godot_mutex
       \/ /\ child \in {"locking", "woken", "expired", "destroying"}
          /\ godot_mutex' = Lost
    /\ child' = "none" /\ child_rpc' = "none"
    /\ UNCHANGED <<uiVars, serverVars, ready, request_id, response,
                   godot_ready, godot_request_id, child_exit, historyVars>>

-----------------------------------------------------------------------------
UIThread ==
    \/ WriteRequest \/ CallTimeout \/ CallReturns \/ CallFails
    \/ DeleteServer \/ Join \/ DeleteClient

HostRpcThread ==
    \/ RpcThreadBoot \/ RpcThreadLoop \/ RpcThreadWait \/ RpcThreadTimeout
    \/ RpcThreadSkip \/ RpcThreadHandle

ChildMainThread ==
    \/ ChildInitialize \/ ScriptWrite \/ ScriptTimeout \/ ScriptReturns
    \/ ChildFinish \/ ChildDestroy

ChildRpcThread ==
    \/ ChildRpcBoot \/ ChildRpcLoop \/ ChildRpcWait \/ ChildRpcTimeout
    \/ ChildRpcSkip \/ ChildRpcHandle

Next ==
    \/ Open \/ Idle \/ Notify \/ Close \/ Destroy
    \/ UIThread \/ CallSpuriousWakeup
    \/ ProcessThreadExit
    \/ HostRpcThread
    \/ ScriptCall \/ ChildQuit
    \/ ChildMainThread
    \/ ChildRpcThread
    \/ ChildDie

Spec == Init /\ [][Next]_vars

(* Every thread that can run does, and waits end in time.  Nothing obliges *)
(* the user to open or close, scripts to call, or anything to fail.        *)
FairSpec ==
    /\ Spec
    /\ WF_vars(UIThread)
    /\ WF_vars(ProcessThreadExit)
    /\ WF_vars(HostRpcThread)
    /\ WF_vars(ChildMainThread)
    /\ WF_vars(ChildRpcThread)

-----------------------------------------------------------------------------
ThreadStates == {"none", "booting", "looping", "locking", "waiting", "woken",
                 "expired", "exited"}

(* Every variable keeps its type.                                          *)
TypeOK ==
    /\ ui_pc \in {"idle", "locking", "waiting", "woken", "expired", "shut",
                  "joining", "deleting", "aborted"}
    /\ call \in Calls \cup {"none"}
    /\ client \in BOOLEAN /\ destroyed \in BOOLEAN
    /\ godot_window_id \in 0..sessions
    /\ exit_thread \in BOOLEAN
    /\ process_thread \in {"none", "looping", "exited"}
    /\ rpc_thread \in ThreadStates
    /\ ready \in BOOLEAN /\ mutex \in {Free, Lost}
    /\ request_id \in Calls \cup {"none"} /\ response \in Calls \cup {"none"}
    /\ godot_ready \in BOOLEAN /\ godot_mutex \in {Free, Lost}
    /\ godot_request_id \in {"none", "request"}
    /\ child \in {"none", "booting", "idle", "locking", "waiting", "woken",
                  "expired", "finishing", "destroying"}
    /\ child_rpc \in ThreadStates /\ child_exit \in BOOLEAN
    /\ sessions \in 0..MaxSessions
    /\ early \in BOOLEAN
    /\ spurious \in 0..MaxSpurious

(* When the client and with it the shared memory are gone, so are the      *)
(* threads that use it and the process that was launched with it: the next *)
(* window never meets the process of an earlier one.                       *)
NothingOutlivesItsMemory ==
    ~client =>
        /\ process_thread \in {"none", "exited"}
        /\ rpc_thread \in {"none", "exited"}
        /\ child = "none" /\ child_rpc = "none"

(* The host does not die reading a reply, whatever the UI process does,    *)
(* quits or dies, unless the window is closed before its process is ready  *)
(* (the result of that call is not set), or a wakeup came with no reply.   *)
OnlyEarlyCloseAborts == ui_pc = "aborted" => early \/ spurious > 0

MutexLost == mutex = Lost \/ godot_mutex = Lost

(* Closing the window ends, whatever the UI process and the host's threads *)
(* are doing, unless the process died with a mutex.                        *)
CloseEnds ==
    call = "shutdown" \/ ui_pc \in {"shut", "joining", "deleting"}
        ~> ~client \/ ui_pc = "aborted" \/ MutexLost

(* The UI process gets on: one that quits ends, although nothing wakes its *)
(* RPC thread, and a script's call to the host returns, also when the      *)
(* host's thread has exited, or the host is calling, or dead itself.       *)
ChildGetsOn ==
    child \notin {"none", "booting", "idle"}
        ~> child \in {"none", "idle"} \/ MutexLost

=============================================================================
