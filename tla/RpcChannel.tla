------------------------------ MODULE RpcChannel -----------------------------
(***************************************************************************)
(* Remote calls from the host process to the plugin process through one    *)
(* RPCBuffer: DistrhoCommon::rpc_call in threads of the host (callers),    *)
(* DistrhoPluginServer::rpc_thread_func in the plugin (the server).        *)
(*                                                                         *)
(* The buffer holds one request, one response, and one size for both.  A   *)
(* caller writes its request, notifies input_condition and waits up to     *)
(* 100 ms on output_condition, without a predicate.  The server waits with *)
(* one (request_id # 0), so it needs no notify to find a request.  The     *)
(* caller reads the response after rpc_call has released the mutex.        *)
(*                                                                         *)
(* Data abstraction: one state key (keys do not interact); a message is    *)
(* its fields, and "size" says which message it is the size of.            *)
(***************************************************************************)
EXTENDS Integers, Sequences, FiniteSets

CONSTANTS
    Callers,            \* threads of the host that call
    Values,             \* values a state may be set to
    OversizedValues,    \* those whose SetStateValueRequest does not fit
    OversizedReplies,   \* those whose GetStateValueResponse does not fit
    NoValue,            \* the value of a state that was never set
    MaxCalls,           \* bound: requests written
    MaxSpurious,        \* bound: spurious wakeups of the condition variables
    MayCrash            \* whether the plugin process may die on its own

(* The response (a bool and the value) is shorter than the request (the    *)
(* key and the value).                                                     *)
ASSUME ValuesAssumption ==
    /\ OversizedValues \subseteq Values
    /\ OversizedReplies \subseteq OversizedValues
    /\ NoValue \notin Values
ASSUME BoundsAssumption ==
    MaxCalls \in Nat /\ MaxSpurious \in Nat /\ MayCrash \in BOOLEAN

VARIABLES
    \* The RPCBuffer in shared memory.
    ready,              \* set by the server, never reset
    mutex,
    request_id,         \* the kind of the request to handle, or NoRequest
    request,            \* request_buffer
    response,           \* response_buffer
    size,               \* of the latest message written
    \* The plugin process.
    server_pc,
    exit_thread,
    state_value,        \* state_values[key]
    \* The host process.
    caller_pc,
    calling,            \* what each caller asks
    reader,             \* what each reader of a response was made over: the
                        \*   size, and the call of the response that was there
    result,             \* what each caller's latest call returned
    \* History.
    issued,             \* requests written
    handled,            \* the calls handled, in order
    replies,            \* calls that returned true
    timeouts,           \* calls that returned false
    spurious            \* spurious wakeups so far

bufferVars  == <<ready, mutex, request_id, request, response, size>>
messageVars == <<request_id, request, response, size>>
serverVars  == <<server_pc, exit_thread, state_value, handled>>
callerVars  == <<caller_pc, calling, reader, result, issued, replies, timeouts>>
vars == <<bufferVars, serverVars, callerVars, spurious>>

Nobody == "nobody"
Server == "server"
Host == "host"
NoRequest == "none"
Nothing == [kind |-> NoRequest, value |-> NoValue]
Readers == [size : {"none", "request", "response"}, call : Nat]
NoReader == [size |-> "none", call |-> 0]
Failure == [ok |-> FALSE, value |-> NoValue]

Requests ==
    [kind : {"LoadProgram", "GetStateValue", "Shutdown"}, value : {NoValue}]
        \cup [kind : {"SetStateValue"}, value : Values]

Fits(r) == r.value \notin OversizedValues

(* "waiting": in the wait set of a condition variable, mutex released.     *)
(* "woken": notified, "expired": timed out; both need the mutex back.      *)
(* "aborted": the host process has ended.                                  *)
CallerStates == {"idle", "locking", "waiting", "woken", "expired", "reading",
                 "aborted"}
ServerStates == {"booting", "looping", "locking", "waiting", "woken",
                 "expired", "exited", "dead"}

-----------------------------------------------------------------------------
Init ==
    /\ ready = FALSE
    /\ mutex = Nobody
    /\ request_id = NoRequest
    /\ request = [call |-> 0, body |-> Nothing]
    /\ response = [call |-> 0, value |-> NoValue]
    /\ size = "none"
    /\ server_pc = "booting"
    /\ exit_thread = FALSE
    /\ state_value = NoValue
    /\ caller_pc = [c \in Callers |-> "idle"]
    /\ calling = [c \in Callers |-> Nothing]
    /\ reader = [c \in Callers |-> NoReader]
    /\ result = [c \in Callers |-> Failure]
    /\ issued = 0
    /\ handled = <<>>
    /\ replies = 0
    /\ timeouts = 0
    /\ spurious = 0

-----------------------------------------------------------------------------
(* rpc_call.                                                               *)

(* "ready" is tested without the mutex; the client's constructor has       *)
(* waited for it, so the branch that leaves "result" unset is not taken.   *)
Call(c) ==
    /\ caller_pc[c] = "idle"
    /\ ready
    /\ issued < MaxCalls
    /\ \E r \in Requests : calling' = [calling EXCEPT ![c] = r]
    /\ caller_pc' = [caller_pc EXCEPT ![c] = "locking"]
    /\ UNCHANGED <<bufferVars, serverVars, reader, result, issued, replies,
                   timeouts, spurious>>

(* Mutant: a request that does not fit is dropped and nothing else.        *)
WriteRequestOrNothing(c) ==
    /\ caller_pc[c] = "locking"
    /\ mutex = Nobody
    /\ IF Fits(calling[c])
       THEN /\ request' = [call |-> issued + 1, body |-> calling[c]]
            /\ request_id' = calling[c].kind
            /\ size' = "request"
       ELSE UNCHANGED <<request, request_id, size>>
    /\ issued' = issued + 1
    /\ server_pc' = IF server_pc = "waiting" THEN "woken" ELSE server_pc
    /\ caller_pc' = [caller_pc EXCEPT ![c] = "waiting"]
    /\ UNCHANGED <<ready, mutex, response, exit_thread, state_value, handled,
                   calling, reader, result, replies, timeouts, spurious>>

(* Lock, write_request, notify the server, release the mutex in timed_wait.*)
(* A request that does not fit leaves request_id and the previous request, *)
(* and claims that there is none.                                          *)
WriteRequest(c) ==
    /\ caller_pc[c] = "locking"
    /\ mutex = Nobody
    /\ IF Fits(calling[c])
       THEN /\ request' = [call |-> issued + 1, body |-> calling[c]]
            /\ request_id' = calling[c].kind
            /\ size' = "request"
       ELSE /\ size' = "none"
            /\ UNCHANGED <<request, request_id>>
    /\ issued' = issued + 1
    /\ server_pc' = IF server_pc = "waiting" THEN "woken" ELSE server_pc
    /\ caller_pc' = [caller_pc EXCEPT ![c] = "waiting"]
    /\ UNCHANGED <<ready, mutex, response, exit_thread, state_value, handled,
                   calling, reader, result, replies, timeouts, spurious>>

(* Mutant: a wait without a timeout.                                       *)
CallerNeverTimesOut(c) == FALSE

CallerTimeout(c) ==
    /\ caller_pc[c] = "waiting"
    /\ caller_pc' = [caller_pc EXCEPT ![c] = "expired"]
    /\ UNCHANGED <<bufferVars, serverVars, calling, reader, result, issued,
                   replies, timeouts, spurious>>

CallerSpuriousWakeup(c) ==
    /\ caller_pc[c] = "waiting"
    /\ spurious < MaxSpurious
    /\ caller_pc' = [caller_pc EXCEPT ![c] = "woken"]
    /\ spurious' = spurious + 1
    /\ UNCHANGED <<bufferVars, serverVars, calling, reader, result, issued,
                   replies, timeouts>>

(* Mutant: the outcome of timed_wait is not looked at.                     *)
ReadResponseAnyway(c) ==
    /\ caller_pc[c] \in {"woken", "expired"}
    /\ mutex = Nobody
    /\ reader' = [reader EXCEPT ![c] = [size |-> size, call |-> response.call]]
    /\ caller_pc' = [caller_pc EXCEPT ![c] = "reading"]
    /\ UNCHANGED <<bufferVars, serverVars, calling, result, issued, replies,
                   timeouts, spurious>>

(* timed_wait returned true: make a reader over the response buffer, of    *)
(* the size that is there now, and release the mutex.                      *)
ReadResponse(c) ==
    /\ caller_pc[c] = "woken"
    /\ mutex = Nobody
    /\ reader' = [reader EXCEPT ![c] = [size |-> size, call |-> response.call]]
    /\ caller_pc' = [caller_pc EXCEPT ![c] = "reading"]
    /\ UNCHANGED <<bufferVars, serverVars, calling, result, issued, replies,
                   timeouts, spurious>>

(* get_state_value and shutdown look into the reply, the others do not.    *)
TakesRoot(c) == calling[c].kind \in {"GetStateValue", "Shutdown"}

(* The reader was made over nothing: over no words, or fresh memory.       *)
NoRoot(c) == reader[c].size = "none" \/ reader[c].call = 0

(* The reader was made over a response, which is still there.              *)
Whole(c) == reader[c] = [size |-> "response", call |-> response.call]

(* The caller takes the value out of the reader: out of shared memory,     *)
(* without the mutex.  If the reader is over something else than a whole   *)
(* response, what it finds is whatever the bytes say.                      *)
Return(c) ==
    /\ caller_pc[c] = "reading"
    /\ TakesRoot(c) => ~NoRoot(c)
    /\ \E v \in IF calling[c].kind # "GetStateValue" THEN {NoValue}
                 ELSE IF Whole(c) THEN {response.value}
                 ELSE Values \cup {NoValue} :
          result' = [result EXCEPT ![c] = [ok |-> TRUE, value |-> v]]
    /\ replies' = replies + 1
    /\ reader' = [reader EXCEPT ![c] = NoReader]
    /\ caller_pc' = [caller_pc EXCEPT ![c] = "idle"]
    /\ UNCHANGED <<bufferVars, serverVars, calling, issued, timeouts, spurious>>

(* An exception that nothing catches ends the host process with all its    *)
(* threads and what they hold; one that had the mutex, the one that threw  *)
(* or another, may leave it locked.                                        *)
HostTerminates ==
    /\ caller_pc' = [d \in Callers |-> "aborted"]
    /\ calling' = [d \in Callers |-> Nothing]
    /\ reader' = [d \in Callers |-> NoReader]
    /\ result' = [d \in Callers |-> Failure]
    /\ \/ UNCHANGED mutex
       \/ /\ mutex = Nobody
          /\ \E d \in Callers : caller_pc[d] \in {"locking", "woken", "expired"}
          /\ mutex' = Host
    /\ UNCHANGED <<ready, messageVars, serverVars, issued, replies, timeouts,
                   spurious>>

(* The reader's constructor throws if the response that is there is longer *)
(* than the size, which is that of a request: read_reponse, in the lock.   *)
ReaderThrows(c) ==
    /\ caller_pc[c] = "woken"
    /\ mutex = Nobody
    /\ size = "request"
    /\ response.call # 0
    /\ HostTerminates

(* getRoot, or a field of it, throws: always if there is no root, perhaps  *)
(* if there is something else than the whole response.                     *)
RootThrows(c) ==
    /\ caller_pc[c] = "reading"
    /\ TakesRoot(c)
    /\ ~Whole(c)
    /\ HostTerminates

(* timed_wait returned false: the call fails, its request stays where it is*)
GiveUp(c) ==
    /\ caller_pc[c] = "expired"
    /\ mutex = Nobody
    /\ result' = [result EXCEPT ![c] = Failure]
    /\ timeouts' = timeouts + 1
    /\ caller_pc' = [caller_pc EXCEPT ![c] = "idle"]
    /\ UNCHANGED <<bufferVars, serverVars, calling, reader, issued, replies,
                   spurious>>

-----------------------------------------------------------------------------
(* rpc_thread_func.                                                        *)

ServerBoot ==
    /\ server_pc = "booting"
    /\ mutex = Nobody
    /\ ready' = TRUE
    /\ server_pc' = "looping"
    /\ UNCHANGED <<mutex, messageVars, exit_thread, state_value, handled,
                   callerVars, spurious>>

(* while (!exit_thread), tested without the mutex.                         *)
ServerLoop ==
    /\ server_pc = "looping"
    /\ server_pc' = IF exit_thread THEN "exited" ELSE "locking"
    /\ UNCHANGED <<bufferVars, exit_thread, state_value, handled, callerVars,
                   spurious>>

(* Mutant: the predicate looks at the size of the message.                 *)
PendingBySize == size = "request"

(* The predicate of the wait.                                              *)
Pending == request_id # NoRequest

(* timed_wait with a predicate: waits, and waits again, while there is no  *)
(* request...                                                              *)
ServerWait ==
    /\ server_pc \in {"locking", "woken"}
    /\ mutex = Nobody
    /\ ~Pending
    /\ server_pc' = "waiting"
    /\ UNCHANGED <<bufferVars, exit_thread, state_value, handled, callerVars,
                   spurious>>

ServerTimeout ==
    /\ server_pc = "waiting"
    /\ server_pc' = "expired"
    /\ UNCHANGED <<bufferVars, exit_thread, state_value, handled, callerVars,
                   spurious>>

ServerSpuriousWakeup ==
    /\ server_pc = "waiting"
    /\ spurious < MaxSpurious
    /\ server_pc' = "woken"
    /\ spurious' = spurious + 1
    /\ UNCHANGED <<bufferVars, exit_thread, state_value, handled, callerVars>>

(* ... returns false when the time is over and there still is none...      *)
ServerSkip ==
    /\ server_pc = "expired"
    /\ mutex = Nobody
    /\ ~Pending
    /\ server_pc' = "looping"
    /\ UNCHANGED <<bufferVars, exit_thread, state_value, handled, callerVars,
                   spurious>>

(* ... and true as soon as there is one, before or after any wait.         *)
HasRequest ==
    /\ server_pc \in {"locking", "woken", "expired"}
    /\ mutex = Nobody
    /\ Pending

(* Mutant: notify_all.                                                     *)
NotifyCallers ==
    caller_pc' = [c \in Callers |-> IF caller_pc[c] = "waiting" THEN "woken"
                                                             ELSE caller_pc[c]]

(* notify_one: one of the callers that wait, if any, is woken.             *)
NotifyCaller ==
    IF \E c \in Callers : caller_pc[c] = "waiting"
    THEN \E c \in Callers :
            /\ caller_pc[c] = "waiting"
            /\ caller_pc' = [caller_pc EXCEPT ![c] = "woken"]
    ELSE UNCHANGED caller_pc

(* What the handlers do to the plugin.  Signals to the scripts are left    *)
(* out.                                                                    *)
HandleRequest ==
    state_value' = IF request_id = "SetStateValue" THEN request.body.value
                                                  ELSE state_value

(* write_reponse: a response that does not fit leaves the previous one.    *)
WriteResponse(value) ==
    IF value \in OversizedReplies
    THEN size' = "none" /\ UNCHANGED response
    ELSE size' = "response" /\ response' = [call |-> request.call, value |-> value]

(* Mutant: request_id is not cleared.                                      *)
HandleAndKeep ==
    /\ HasRequest
    /\ size # "none"
    /\ HandleRequest
    /\ WriteResponse(IF request_id = "GetStateValue" THEN state_value ELSE NoValue)
    /\ exit_thread' = (exit_thread \/ request_id = "Shutdown")
    /\ NotifyCaller
    /\ handled' = Append(handled, request.call)
    /\ server_pc' = "looping"
    /\ UNCHANGED <<ready, mutex, request_id, request, calling, reader, result,
                   issued, replies, timeouts, spurious>>

(* Dispatch on request_id, answer, clear request_id, release the mutex.    *)
Handle ==
    /\ HasRequest
    /\ size # "none"
    /\ HandleRequest
    /\ WriteResponse(IF request_id = "GetStateValue" THEN state_value ELSE NoValue)
    /\ exit_thread' = (exit_thread \/ request_id = "Shutdown")
    /\ NotifyCaller
    /\ request_id' = NoRequest
    /\ handled' = Append(handled, request.call)
    /\ server_pc' = "looping"
    /\ UNCHANGED <<ready, mutex, request, calling, reader, result, issued,
                   replies, timeouts, spurious>>

(* An empty message has no root: the reader throws, nothing catches it and *)
(* the process is terminated, with or without unwinding the lock.          *)
Abort ==
    /\ HasRequest
    /\ size = "none"
    /\ server_pc' = "dead"
    /\ mutex' \in {Nobody, Server}
    /\ UNCHANGED <<ready, messageVars, exit_thread, state_value, handled,
                   callerVars, spurious>>

(* finish(), when the module is unloaded.                                  *)
RequestExit ==
    /\ ~exit_thread
    /\ exit_thread' = TRUE
    /\ UNCHANGED <<bufferVars, server_pc, state_value, handled, callerVars,
                   spurious>>

(* The process dies, perhaps inside its critical section: the mutex is not *)
(* robust, what a dead process holds stays held.                           *)
ServerDie ==
    /\ MayCrash
    /\ server_pc # "dead"
    /\ \/ UNCHANGED mutex
       \/ /\ server_pc \in {"booting", "locking", "woken", "expired"}
          /\ mutex = Nobody
          /\ mutex' = Server
    /\ server_pc' = "dead"
    /\ UNCHANGED <<ready, messageVars, exit_thread, state_value, handled,
                   callerVars, spurious>>

CallerStep(c) ==
    \/ WriteRequest(c)
    \/ CallerTimeout(c)
    \/ ReadResponse(c)
    \/ ReaderThrows(c)
    \/ Return(c)
    \/ RootThrows(c)
    \/ GiveUp(c)

ServerStep ==
    \/ ServerBoot
    \/ ServerLoop
    \/ ServerWait
    \/ ServerTimeout
    \/ ServerSkip
    \/ Handle
    \/ Abort

Next ==
    \/ \E c \in Callers : Call(c) \/ CallerStep(c) \/ CallerSpuriousWakeup(c)
    \/ ServerStep
    \/ ServerSpuriousWakeup
    \/ RequestExit
    \/ ServerDie

Spec == Init /\ [][Next]_vars

(***************************************************************************)
(* A thread that has something to do does it: timeouts expire, and a       *)
(* thread that waits for a mutex nobody keeps gets it.  Nothing makes a    *)
(* host thread start a call, or anyone shut down.                          *)
(***************************************************************************)
Fairness ==
    /\ \A c \in Callers : WF_vars(CallerStep(c))
    /\ WF_vars(ServerStep)

FairSpec == Spec /\ Fairness

-----------------------------------------------------------------------------
(* Every variable keeps its type.                                          *)
TypeOK ==
    /\ ready \in BOOLEAN
    /\ mutex \in {Nobody, Server, Host}
    /\ request_id \in {NoRequest, "LoadProgram", "GetStateValue",
                       "SetStateValue", "Shutdown"}
    /\ request \in [call : Nat, body : Requests \cup {Nothing}]
    /\ response \in [call : Nat, value : Values \cup {NoValue}]
    /\ size \in {"none", "request", "response"}
    /\ server_pc \in ServerStates
    /\ exit_thread \in BOOLEAN
    /\ state_value \in Values \cup {NoValue}
    /\ caller_pc \in [Callers -> CallerStates]
    /\ calling \in [Callers -> Requests \cup {Nothing}]
    /\ reader \in [Callers -> Readers]
    /\ result \in [Callers -> [ok : BOOLEAN, value : Values \cup {NoValue}]]
    /\ issued \in Nat
    /\ handled \in Seq(Nat)
    /\ replies \in Nat /\ timeouts \in Nat /\ spurious \in Nat

Single == \A c, d \in Callers : c = d

(* No request is handled twice, and only the latest one can be: once       *)
(* another call has written its own, or failed to fit, one that timed out  *)
(* cannot come back.  So they are handled in the order in which they were  *)
(* written, whoever calls and whatever times out.                          *)
HandledInOrder ==
    [][handled' # handled =>
         /\ handled' = Append(handled, issued)
         /\ \A i \in DOMAIN handled : handled[i] < issued]_vars

(* notify_one wakes one caller per request handled: without spurious       *)
(* wakeups no more calls return true, or are about to, than the server has *)
(* handled, whichever caller each notify went to.                          *)
Succeeding == {c \in Callers : caller_pc[c] \in {"woken", "reading"}}
RepliesAccounted ==
    spurious = 0 => replies + Cardinality(Succeeding) <= Len(handled)

(* A lone caller that is given a reply is given its own, complete and not  *)
(* overwritten since, although it reads it without the mutex: the reader   *)
(* is over the reply to the call it waits on, and that is what is there.   *)
(* So it never throws, whatever does not fit (read_reponse, getRoot).      *)
OwnReply ==
    Single /\ spurious = 0 =>
        \A c \in Callers :
            /\ caller_pc[c] # "aborted"
            /\ caller_pc[c] = "reading" =>
                  /\ reader[c] = [size |-> "response", call |-> issued]
                  /\ size = "response" /\ response.call = issued

(* The server meets an empty request, which kills it, only after a lone    *)
(* caller has given up on a call: one oversized value alone does no harm.  *)
OnlyTimeoutsAbort ==
    Single /\ spurious = 0 /\ timeouts = 0 => ~(HasRequest /\ size = "none")

(* One caller at a time sees the plugin's state as StateStore describes.   *)
TheCaller == CHOOSE c \in Callers : TRUE
Store == INSTANCE StateStore WITH
            store   <- state_value,
            calling <- IF caller_pc[TheCaller] \in {"idle", "locking"}
                       THEN Nothing ELSE calling[TheCaller],
            open    <- IF request_id = NoRequest \/ size = "none"
                       THEN Nothing ELSE request.body,
            served  <- handled # <<>> /\ handled[Len(handled)] = issued,
            result  <- result[TheCaller]
ImplementsStateStore == Store!Spec

(* A process has ended inside its critical section.                        *)
MutexLost == mutex # Nobody

(* Every call returns, answered or not, unless the mutex is lost, or the   *)
(* host has ended of what another call, or a wakeup without a notify, made *)
(* it read (RootThrows, ReaderThrows; OwnReply says when that cannot be).  *)
CallReturns ==
    \A c \in Callers :
        caller_pc[c] # "idle" ~> caller_pc[c] \in {"idle", "aborted"} \/ MutexLost

(* A request that is there is handled as long as the server runs, even if  *)
(* its notify came when the server was not waiting, unless the host ended  *)
(* in its critical section.                                                *)
RequestHandled ==
    request_id # NoRequest ~>
        request_id = NoRequest \/ server_pc \in {"exited", "dead"} \/ MutexLost

=============================================================================
