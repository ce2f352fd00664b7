------------------------------- MODULE StatePush -----------------------------
(***************************************************************************)
(* State changes pushed from the plugin process to the host process:       *)
(* DistrhoPluginServer::update_state_value queues them, client_thread_func *)
(* sends them in batches through the Godot RPCBuffer (rpc_call), and       *)
(* GodotDistrhoPluginServer::rpc_thread_func, in the host, takes them.     *)
(*                                                                         *)
(* The server's wait has no predicate and it handles a request only when   *)
(* the wait timed out ("if (!result)"): a notify sends it round its loop   *)
(* once more, and it is the timeout of a later wait (10 ms, the first one  *)
(* 1000 ms) that delivers.  The client waits 100 ms and ignores the result *)
(* of the call, so an update whose call fails is not sent again.           *)
(*                                                                         *)
(* Data abstraction: an update is its number and whether its message fits. *)
(***************************************************************************)
EXTENDS Integers, Sequences, SequencesExt

CONSTANTS
    MaxUpdates,         \* bound: updates the scripts make
    MaxSpurious,        \* bound: spurious wakeups of the condition variables
    MayCrash            \* whether the plugin process may die on its own

ASSUME BoundsAssumption ==
    MaxUpdates \in Nat /\ MaxSpurious \in Nat /\ MayCrash \in BOOLEAN

VARIABLES
    \* The Godot RPCBuffer in shared memory.
    ready,
    mutex,
    pending,            \* request_id # 0
    request,            \* request_buffer
    empty,              \* size = 0
    \* The plugin process.
    state_queue,
    client_pc,
    states,             \* the batch being sent
    exit_thread,
    \* The host process.
    server_pc,
    is_shutting_down,
    \* History.
    updates,            \* updates made
    delivered,          \* numbers of those given to the host, in order
    failed,             \* numbers of those whose call returned false
    spurious            \* spurious wakeups so far

bufferVars == <<ready, mutex, pending, request, empty>>
clientVars == <<state_queue, client_pc, states, exit_thread, updates, failed>>
serverVars == <<server_pc, is_shutting_down, delivered>>
pushVars == <<bufferVars, clientVars, serverVars, spurious>>

Update == [number : Nat \ {0}, fits : BOOLEAN]

Nobody == "nobody"
Client == "client"
Server == "server"

ClientStates == {"sleeping", "calling", "locking", "waiting", "woken",
                 "expired", "exited", "dead"}
ServerStates == {"booting", "looping", "locking", "waiting", "woken",
                 "expired", "exited", "dead"}

Notified(pc) == IF pc = "waiting" THEN "woken" ELSE pc

-----------------------------------------------------------------------------
PushInit ==
    /\ ready = FALSE
    /\ mutex = Nobody
    /\ pending = FALSE
    /\ request = 0
    /\ empty = TRUE
    /\ state_queue = <<>>
    /\ client_pc = "sleeping"
    /\ states = <<>>
    /\ exit_thread = FALSE
    /\ server_pc = "booting"
    /\ is_shutting_down = FALSE
    /\ updates = 0
    /\ delivered = <<>>
    /\ failed = {}
    /\ spurious = 0

-----------------------------------------------------------------------------
(* The plugin process.                                                     *)

(* update_state_value, on any thread that runs a script.                   *)
UpdateStateValue ==
    /\ client_pc # "dead"
    /\ updates < MaxUpdates
    /\ updates' = updates + 1
    /\ \E fits \in BOOLEAN :
          state_queue' = Append(state_queue, [number |-> updates + 1, fits |-> fits])
    /\ UNCHANGED <<bufferVars, client_pc, states, exit_thread, failed,
                   serverVars, spurious>>

(* Every 16 ms: the whole queue becomes the batch.                         *)
TakeBatch ==
    /\ client_pc = "sleeping"
    /\ ~exit_thread
    /\ states' = state_queue
    /\ state_queue' = <<>>
    /\ client_pc' = "calling"
    /\ UNCHANGED <<bufferVars, exit_thread, updates, failed, serverVars,
                   spurious>>

ClientExit ==
    /\ client_pc = "sleeping"
    /\ exit_thread
    /\ client_pc' = "exited"
    /\ UNCHANGED <<bufferVars, state_queue, states, exit_thread, updates,
                   failed, serverVars, spurious>>

(* rpc_call for the next update of the batch.  "ready" is tested without   *)
(* the mutex; while the host's thread has not started the update is gone.  *)
CallNext ==
    /\ client_pc = "calling"
    /\ \/ /\ states = <<>>
          /\ client_pc' = "sleeping"
          /\ UNCHANGED <<states, failed>>
       \/ /\ states # <<>>
          /\ ready
          /\ client_pc' = "locking"
          /\ UNCHANGED <<states, failed>>
       \/ /\ states # <<>>
          /\ ~ready
          /\ failed' = failed \cup {Head(states).number}
          /\ states' = Tail(states)
          /\ UNCHANGED client_pc
    /\ UNCHANGED <<bufferVars, state_queue, exit_thread, updates, serverVars,
                   spurious>>

(* Mutant: an update that does not fit leaves the buffer as it was.        *)
WriteRequestOrNothing ==
    /\ client_pc = "locking"
    /\ mutex = Nobody
    /\ LET update == Head(states)
       IN  IF update.fits
           THEN pending' = TRUE /\ request' = update.number /\ empty' = FALSE
           ELSE UNCHANGED <<pending, request, empty>>
    /\ server_pc' = Notified(server_pc)
    /\ client_pc' = "waiting"
    /\ UNCHANGED <<ready, mutex, state_queue, states, exit_thread, updates,
                   failed, is_shutting_down, delivered, spurious>>


(* Lock, write_request, notify, release the mutex in timed_wait.  A        *)
(* request that does not fit leaves request_id and the previous request.   *)
WriteRequest ==
    /\ client_pc = "locking"
    /\ mutex = Nobody
    /\ LET update == Head(states)
       IN  IF update.fits
           THEN pending' = TRUE /\ request' = update.number /\ empty' = FALSE
           ELSE empty' = TRUE /\ UNCHANGED <<pending, request>>
    /\ server_pc' = Notified(server_pc)
    /\ client_pc' = "waiting"
    /\ UNCHANGED <<ready, mutex, state_queue, states, exit_thread, updates,
                   failed, is_shutting_down, delivered, spurious>>

ClientTimeout ==
    /\ client_pc = "waiting"
    /\ client_pc' = "expired"
    /\ UNCHANGED <<bufferVars, state_queue, states, exit_thread, updates,
                   failed, serverVars, spurious>>

ClientSpuriousWakeup ==
    /\ client_pc = "waiting"
    /\ spurious < MaxSpurious
    /\ client_pc' = "woken"
    /\ spurious' = spurious + 1
    /\ UNCHANGED <<bufferVars, state_queue, states, exit_thread, updates,
                   failed, serverVars>>

(* rpc_call returns; update_state_value does not look at the result.       *)
CallReturns ==
    /\ client_pc \in {"woken", "expired"}
    /\ mutex = Nobody
    /\ failed' = IF client_pc = "expired" THEN failed \cup {Head(states).number}
                                          ELSE failed
    /\ states' = Tail(states)
    /\ client_pc' = "calling"
    /\ UNCHANGED <<bufferVars, state_queue, exit_thread, updates, serverVars,
                   spurious>>

(* The shutdown request, or finish().                                      *)
RequestExit ==
    /\ ~exit_thread
    /\ exit_thread' = TRUE
    /\ UNCHANGED <<bufferVars, state_queue, client_pc, states, updates, failed,
                   serverVars, spurious>>

(* The process dies, perhaps while it holds the mutex.                     *)
ClientDie ==
    /\ MayCrash \/ is_shutting_down
    /\ client_pc # "dead"
    /\ \/ UNCHANGED mutex
       \/ /\ client_pc \in {"locking", "woken", "expired"}
          /\ mutex = Nobody
          /\ mutex' = Client
    /\ client_pc' = "dead"
    /\ UNCHANGED <<ready, pending, request, empty, state_queue, states,
                   exit_thread, updates, failed, serverVars, spurious>>

-----------------------------------------------------------------------------
(* The host process.                                                       *)

ServerBoot ==
    /\ server_pc = "booting"
    /\ mutex = Nobody
    /\ ready' = TRUE
    /\ server_pc' = "looping"
    /\ UNCHANGED <<mutex, pending, request, empty, clientVars,
                   is_shutting_down, delivered, spurious>>

(* The destructor sets exit_thread together with is_shutting_down.         *)
ServerLoop ==
    /\ server_pc = "looping"
    /\ server_pc' = IF is_shutting_down THEN "exited" ELSE "locking"
    /\ UNCHANGED <<bufferVars, clientVars, is_shutting_down, delivered,
                   spurious>>

(* "ready" is TRUE here.                                                   *)
ServerWait ==
    /\ server_pc = "locking"
    /\ mutex = Nobody
    /\ server_pc' = "waiting"
    /\ UNCHANGED <<bufferVars, clientVars, is_shutting_down, delivered,
                   spurious>>

(* Mutant: a wait without a timeout.                                       *)
ServerNeverTimesOut ==
    /\ FALSE
    /\ UNCHANGED pushVars

ServerTimeout ==
    /\ server_pc = "waiting"
    /\ server_pc' = "expired"
    /\ UNCHANGED <<bufferVars, clientVars, is_shutting_down, delivered,
                   spurious>>

ServerSpuriousWakeup ==
    /\ server_pc = "waiting"
    /\ spurious < MaxSpurious
    /\ server_pc' = "woken"
    /\ spurious' = spurious + 1
    /\ UNCHANGED <<bufferVars, clientVars, is_shutting_down, delivered>>

(* The wait is over and the server is being destroyed.                     *)
ServerLeave ==
    /\ server_pc \in {"woken", "expired"}
    /\ mutex = Nobody
    /\ is_shutting_down
    /\ server_pc' = "exited"
    /\ UNCHANGED <<bufferVars, clientVars, is_shutting_down, delivered,
                   spurious>>

(* Mutant: request_id is cleared on either way out of the wait.            *)
ServerSkipAndClear ==
    /\ server_pc = "woken"
    /\ mutex = Nobody
    /\ ~is_shutting_down
    /\ server_pc' = "looping"
    /\ pending' = FALSE
    /\ UNCHANGED <<ready, mutex, request, empty, clientVars, is_shutting_down,
                   delivered, spurious>>

(* Notified: leave the request for a wait that times out.                  *)
ServerSkip ==
    /\ server_pc = "woken"
    /\ mutex = Nobody
    /\ ~is_shutting_down
    /\ server_pc' = "looping"
    /\ UNCHANGED <<bufferVars, clientVars, is_shutting_down, delivered,
                   spurious>>

(* Mutant: request_id is not cleared.                                      *)
ServerHandleAndKeep ==
    /\ server_pc = "expired"
    /\ mutex = Nobody
    /\ ~is_shutting_down
    /\ pending => ~empty
    /\ IF pending
       THEN /\ delivered' = Append(delivered, request)
            /\ client_pc' = Notified(client_pc)
       ELSE UNCHANGED <<delivered, client_pc>>
    /\ server_pc' = "looping"
    /\ UNCHANGED <<bufferVars, state_queue, states, exit_thread, updates,
                   failed, is_shutting_down, spurious>>

(* Timed out: give the request, if there is one, to the plugin instance    *)
(* (updateStateValue), answer, clear request_id.                           *)
ServerHandle ==
    /\ server_pc = "expired"
    /\ mutex = Nobody
    /\ ~is_shutting_down
    /\ pending => ~empty
    /\ IF pending
       THEN /\ delivered' = Append(delivered, request)
            /\ client_pc' = Notified(client_pc)
       ELSE UNCHANGED <<delivered, client_pc>>
    /\ pending' = FALSE
    /\ server_pc' = "looping"
    /\ UNCHANGED <<ready, mutex, request, empty, state_queue, states,
                   exit_thread, updates, failed, is_shutting_down, spurious>>

(* An empty message has no root: the reader throws, nothing catches it,    *)
(* and it is the host process that is terminated.                          *)
ServerAbort ==
    /\ server_pc = "expired"
    /\ mutex = Nobody
    /\ ~is_shutting_down
    /\ pending /\ empty
    /\ server_pc' = "dead"
    /\ mutex' \in {Nobody, Server}
    /\ UNCHANGED <<ready, pending, request, empty, clientVars,
                   is_shutting_down, delivered, spurious>>

(* ~GodotDistrhoPluginServer: the flags, then notify_all, without the mutex*)
(* ("then join": ThreadsEnd says that it returns).                         *)
ShutDown ==
    /\ ~is_shutting_down
    /\ server_pc # "dead"
    /\ is_shutting_down' = TRUE
    /\ server_pc' = Notified(server_pc)
    /\ UNCHANGED <<bufferVars, clientVars, delivered, spurious>>

ClientStep ==
    \/ TakeBatch
    \/ ClientExit
    \/ CallNext
    \/ WriteRequest
    \/ ClientTimeout
    \/ CallReturns

ServerStep ==
    \/ ServerBoot
    \/ ServerLoop
    \/ ServerWait
    \/ ServerTimeout
    \/ ServerLeave
    \/ ServerSkip
    \/ ServerHandle
    \/ ServerAbort

PushNext ==
    \/ UpdateStateValue
    \/ ClientStep
    \/ ClientSpuriousWakeup
    \/ RequestExit
    \/ ClientDie
    \/ ServerStep
    \/ ServerSpuriousWakeup
    \/ ShutDown

PushSpec == PushInit /\ [][PushNext]_pushVars

(***************************************************************************)
(* A thread that has something to do does it: timeouts expire, and a       *)
(* thread that waits for a mutex nobody keeps gets it.  A wait of the      *)
(* server also times out in the end although it may be notified first:     *)
(* the client notifies once per call and a call takes up to 100 ms.        *)
(***************************************************************************)
PushFairness ==
    /\ WF_pushVars(ClientStep)
    /\ WF_pushVars(ServerStep)

PushFairSpec == PushSpec /\ PushFairness

-----------------------------------------------------------------------------
(* Every variable keeps its type.                                          *)
PushTypeOK ==
    /\ ready \in BOOLEAN
    /\ mutex \in {Nobody, Client, Server}
    /\ pending \in BOOLEAN
    /\ request \in Nat
    /\ empty \in BOOLEAN
    /\ state_queue \in Seq(Update)
    /\ client_pc \in ClientStates
    /\ states \in Seq(Update)
    /\ exit_thread \in BOOLEAN
    /\ server_pc \in ServerStates
    /\ is_shutting_down \in BOOLEAN
    /\ updates \in Nat
    /\ delivered \in Seq(Nat)
    /\ failed \subseteq Nat
    /\ spurious \in Nat

(* The host sees updates in the order in which the scripts made them, and  *)
(* none twice, whatever is lost in between: a value it has been given is   *)
(* never replaced by an older one.                                         *)
DeliveredInOrder ==
    \A i, j \in 1..Len(delivered) : i < j => delivered[i] < delivered[j]

Numbers(seq) == {seq[i].number : i \in 1..Len(seq)}

(* An update is lost only if its call failed: each one made is still in    *)
(* the plugin, or in the buffer, or has been delivered, or its call        *)
(* returned false (which nobody looks at).                                 *)
NoSilentLoss ==
    spurious = 0 =>
        \A n \in 1..updates :
            \/ n \in Numbers(state_queue)
            \/ n \in Numbers(states)
            \/ n \in ToSet(delivered)
            \/ n \in failed

(* The last update that was written and fits arrives, even if its notify   *)
(* was lost and its call has timed out, unless the host side ends.         *)
LastArrives ==
    \A n \in 1..MaxUpdates :
        pending /\ request = n ~>
            \/ n \in ToSet(delivered)
            \/ request > n
            \/ server_pc \in {"exited", "dead"}
            \/ mutex # Nobody

(* The destructor can join the server thread and finish() the client       *)
(* thread, whatever the other process does, unless one of them died while  *)
(* it held the mutex.                                                      *)
ThreadsEnd ==
    /\ is_shutting_down ~> server_pc \in {"exited", "dead"} \/ mutex # Nobody
    /\ exit_thread ~> client_pc \in {"exited", "dead"} \/ mutex # Nobody

=============================================================================
