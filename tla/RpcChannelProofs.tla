--------------------------- MODULE RpcChannelProofs --------------------------
(***************************************************************************)
(* Proofs about RpcChannel, for any callers, any values and any bounds:    *)
(* the order of the requests, the number of the replies, and what a lone   *)
(* caller may count on.                                                    *)
(***************************************************************************)
EXTENDS RpcChannel, FiniteSetTheorems, SequenceTheorems, TLAPS

-----------------------------------------------------------------------------
(* Types.                                                                  *)

LEMMA RequestFields ==
  ASSUME NEW r \in Requests \cup {Nothing}
  PROVE  /\ r.kind \in {NoRequest, "LoadProgram", "GetStateValue",
                        "SetStateValue", "Shutdown"}
         /\ r.value \in Values \cup {NoValue}
         /\ r \in Requests => r.kind # NoRequest /\ r # Nothing
         /\ r.kind = NoRequest => r = Nothing
  BY DEF Requests, Nothing, NoRequest

LEMMA InitTypes == Init => TypeOK
  <1>. SUFFICES ASSUME Init PROVE TypeOK
    OBVIOUS
  <1>1. ready \in BOOLEAN /\ exit_thread \in BOOLEAN
    BY Zenon DEF Init
  <1>2. request \in [call : Nat, body : Requests \cup {Nothing}]
    BY DEF Init
  <1>3. response \in [call : Nat, value : Values \cup {NoValue}]
    BY DEF Init
  <1>4. result \in [Callers -> [ok : BOOLEAN, value : Values \cup {NoValue}]]
    BY DEF Init, Failure
  <1>5. caller_pc \in [Callers -> CallerStates]
        /\ reader \in [Callers -> Readers]
        /\ calling \in [Callers -> Requests \cup {Nothing}]
    BY DEF Init, CallerStates, NoReader, Readers
  <1>. QED
    BY <1>1, <1>2, <1>3, <1>4, <1>5
       DEF Init, TypeOK, Nobody, NoRequest, ServerStates

LEMMA WriteTypes ==
  ASSUME TypeOK, NEW c \in Callers, WriteRequest(c)
  PROVE  /\ request' \in [call : Nat, body : Requests \cup {Nothing}]
         /\ request_id' \in {NoRequest, "LoadProgram", "GetStateValue",
                             "SetStateValue", "Shutdown"}
         /\ size' \in {"none", "request", "response"}
  <1>1. issued \in Nat /\ calling[c] \in Requests \cup {Nothing}
    BY DEF TypeOK
  <1>2. CASE Fits(calling[c])
    <2>1. /\ request' = [call |-> issued + 1, body |-> calling[c]]
          /\ request_id' = calling[c].kind /\ size' = "request"
      BY <1>2 DEF WriteRequest
    <2> QED BY <1>1, <2>1, RequestFields
  <1>3. CASE ~Fits(calling[c])
    BY <1>3 DEF WriteRequest, TypeOK
  <1>. QED BY <1>2, <1>3

LEMMA HandleTypes ==
  ASSUME TypeOK, Handle
  PROVE  /\ state_value' \in Values \cup {NoValue}
         /\ response' \in [call : Nat, value : Values \cup {NoValue}]
         /\ size' \in {"none", "request", "response"}
         /\ exit_thread' \in BOOLEAN
         /\ caller_pc' \in [Callers -> CallerStates]
         /\ handled' \in Seq(Nat)
  <1>1. /\ request.call \in Nat /\ request.body \in Requests \cup {Nothing}
        /\ state_value \in Values \cup {NoValue}
    BY DEF TypeOK
  <1>2. request.body.value \in Values \cup {NoValue}
    BY <1>1, RequestFields
  <1>3. state_value' \in Values \cup {NoValue}
    BY <1>1, <1>2 DEF Handle, HandleRequest
  <1>4. PICK v \in Values \cup {NoValue} : WriteResponse(v)
    BY <1>1 DEF Handle
  <1>5. /\ response' \in [call : Nat, value : Values \cup {NoValue}]
        /\ size' \in {"none", "request", "response"}
    BY <1>1, <1>4 DEF WriteResponse, TypeOK
  <1>6. exit_thread' \in BOOLEAN
    BY Zenon DEF Handle
  <1>7. caller_pc' \in [Callers -> CallerStates]
    BY DEF Handle, NotifyCaller, TypeOK, CallerStates
  <1>8. handled' \in Seq(Nat)
    BY <1>1 DEF Handle, TypeOK
  <1>. QED BY <1>3, <1>5, <1>6, <1>7, <1>8

LEMMA HostTerminatesTypes ==
  ASSUME TypeOK, HostTerminates
  PROVE  TypeOK'
  <1>1. /\ caller_pc' \in [Callers -> CallerStates]
        /\ calling' \in [Callers -> Requests \cup {Nothing}]
        /\ reader' \in [Callers -> Readers]
    BY DEF HostTerminates, CallerStates, NoReader, Readers
  <1>2. result' \in [Callers -> [ok : BOOLEAN, value : Values \cup {NoValue}]]
    BY DEF HostTerminates, Failure
  <1>3. mutex' \in {Nobody, Server, Host}
    BY DEF HostTerminates, TypeOK
  <1>. QED
    BY <1>1, <1>2, <1>3
       DEF HostTerminates, TypeOK, messageVars, serverVars

LEMMA StepTypes ==
  ASSUME TypeOK, [Next]_vars
  PROVE  TypeOK'
  <1>a. ServerBoot => ready' \in BOOLEAN
    BY Zenon DEF ServerBoot
  <1>b. RequestExit => exit_thread' \in BOOLEAN
    BY Zenon DEF RequestExit
  <1>. USE DEF TypeOK, bufferVars, messageVars, serverVars, callerVars,
               CallerStates, ServerStates
  <1>1. ASSUME NEW c \in Callers, Call(c) PROVE TypeOK'
    BY <1>1 DEF Call
  <1>2. ASSUME NEW c \in Callers, WriteRequest(c) PROVE TypeOK'
    <2>1. caller_pc' \in [Callers -> CallerStates]
      BY <1>2 DEF WriteRequest
    <2>2. server_pc' \in ServerStates /\ issued' \in Nat
      BY <1>2 DEF WriteRequest
    <2>3. UNCHANGED <<ready, mutex, response, exit_thread, state_value, handled,
                      calling, reader, result, replies, timeouts, spurious>>
      BY <1>2 DEF WriteRequest
    <2> QED BY <1>2, <2>1, <2>2, <2>3, WriteTypes
  <1>3. ASSUME NEW c \in Callers, CallerTimeout(c) PROVE TypeOK'
    BY <1>3 DEF CallerTimeout
  <1>4. ASSUME NEW c \in Callers, CallerSpuriousWakeup(c) PROVE TypeOK'
    BY <1>4 DEF CallerSpuriousWakeup
  <1>5. ASSUME NEW c \in Callers, ReadResponse(c) PROVE TypeOK'
    <2>1. [size |-> size, call |-> response.call] \in Readers
      BY DEF Readers
    <2>2. reader' \in [Callers -> Readers]
      BY <1>5, <2>1 DEF ReadResponse
    <2> QED BY <1>5, <2>2 DEF ReadResponse
  <1>6. ASSUME NEW c \in Callers, Return(c) PROVE TypeOK'
    <2>1. PICK v \in Values \cup {NoValue} :
             result' = [result EXCEPT ![c] = [ok |-> TRUE, value |-> v]]
      BY <1>6 DEF Return
    <2>4. reader' \in [Callers -> Readers]
      BY <1>6 DEF Return, NoReader, Readers
    <2>2. [ok |-> TRUE, value |-> v] \in [ok : BOOLEAN, value : Values \cup {NoValue}]
      OBVIOUS
    <2>3. result' \in [Callers -> [ok : BOOLEAN, value : Values \cup {NoValue}]]
      BY <2>1, <2>2
    <2> QED BY <1>6, <2>3, <2>4 DEF Return
  <1>7. ASSUME NEW c \in Callers, GiveUp(c) PROVE TypeOK'
    <2>1. [ok |-> FALSE, value |-> NoValue] \in [ok : BOOLEAN, value : Values \cup {NoValue}]
      OBVIOUS
    <2>2. result' \in [Callers -> [ok : BOOLEAN, value : Values \cup {NoValue}]]
      BY <1>7, <2>1 DEF GiveUp, Failure
    <2> QED BY <1>7, <2>2 DEF GiveUp
  <1>8. CASE ServerBoot
    BY <1>8, <1>a DEF ServerBoot
  <1>9. CASE ServerLoop \/ ServerWait
    BY <1>9 DEF ServerLoop, ServerWait
  <1>10. CASE ServerTimeout \/ ServerSkip
    BY <1>10 DEF ServerTimeout, ServerSkip
  <1>11. CASE Handle
    BY <1>11, HandleTypes DEF Handle
  <1>12. CASE Abort
    BY <1>12 DEF Abort
  <1>13. CASE ServerSpuriousWakeup
    BY <1>13 DEF ServerSpuriousWakeup
  <1>14. CASE RequestExit
    BY <1>14, <1>b DEF RequestExit
  <1>15. CASE ServerDie
    BY <1>15 DEF ServerDie
  <1>16. CASE UNCHANGED vars
    BY <1>16 DEF vars
  <1>17. ASSUME NEW c \in Callers, ReaderThrows(c) \/ RootThrows(c) PROVE TypeOK'
    BY <1>17, HostTerminatesTypes DEF ReaderThrows, RootThrows
  <1>. QED
    BY <1>1, <1>2, <1>3, <1>4, <1>5, <1>6, <1>7, <1>8, <1>9, <1>10, <1>11,
       <1>12, <1>13, <1>14, <1>15, <1>16, <1>17 DEF Next, CallerStep, ServerStep

(* Every variable keeps its type.                                          *)
THEOREM RpcTypeCorrect == Spec => []TypeOK
  <1>1. TypeOK /\ [Next]_vars => TypeOK'
    BY StepTypes
  <1>. QED BY InitTypes, <1>1, PTL DEF Spec

-----------------------------------------------------------------------------
(* The order of the requests.                                              *)

(* Calls are numbered as they are written; what can be handled is the      *)
(* latest one, and it was not handled before.                              *)
CallsInv ==
    /\ request.call <= issued
    /\ \A i \in DOMAIN handled : handled[i] <= issued
    /\ Pending /\ size # "none" =>
          /\ request.call = issued
          /\ \A i \in DOMAIN handled : handled[i] < issued

LEMMA StepCalls ==
  ASSUME TypeOK, CallsInv, [Next]_vars
  PROVE  CallsInv'
  <1>. USE DEF bufferVars, messageVars, serverVars, callerVars, Pending
  <1>1. /\ issued \in Nat /\ request.call \in Nat /\ handled \in Seq(Nat)
        /\ \A i \in DOMAIN handled : handled[i] \in Nat
    BY DEF TypeOK
  <1>2. ASSUME UNCHANGED <<request, request_id, size, issued, handled>>
        PROVE  CallsInv'
    BY <1>2 DEF CallsInv
  <1>3. ASSUME NEW c \in Callers,
               \/ Call(c) \/ CallerTimeout(c) \/ CallerSpuriousWakeup(c)
               \/ ReadResponse(c) \/ ReaderThrows(c)
               \/ Return(c) \/ RootThrows(c) \/ GiveUp(c)
        PROVE  CallsInv'
    BY <1>2, <1>3 DEF Call, CallerTimeout, CallerSpuriousWakeup, ReadResponse,
                      ReaderThrows, Return, RootThrows, GiveUp, HostTerminates
  <1>4. ASSUME NEW c \in Callers, WriteRequest(c) PROVE CallsInv'
    <2>1. /\ issued' = issued + 1 /\ UNCHANGED handled
          /\ \/ request'.call = issued + 1
             \/ size' = "none" /\ UNCHANGED request
      BY <1>4 DEF WriteRequest
    <2> QED BY <1>1, <2>1 DEF CallsInv
  <1>5. CASE Handle
    <2>1. /\ handled' = Append(handled, request.call)
          /\ UNCHANGED <<request, issued>> /\ request_id' = NoRequest
      BY <1>5 DEF Handle
    <2>2. \A i \in DOMAIN handled' : handled'[i] <= issued
      <3>1. request.call <= issued
        BY DEF CallsInv
      <3>2. /\ Len(handled') = Len(handled) + 1 /\ Len(handled) \in Nat
            /\ DOMAIN handled = 1..Len(handled)
            /\ DOMAIN handled' = 1..Len(handled')
            /\ \A i \in 1..Len(handled) : handled'[i] = handled[i]
            /\ handled'[Len(handled) + 1] = request.call
        BY <1>1, <2>1, AppendProperties
      <3> QED BY <3>1, <3>2 DEF CallsInv
    <2> QED BY <1>1, <2>1, <2>2 DEF CallsInv
  <1>6. CASE ServerBoot \/ ServerLoop \/ ServerWait \/ ServerTimeout \/ ServerSkip
    BY <1>2, <1>6 DEF ServerBoot, ServerLoop, ServerWait, ServerTimeout, ServerSkip
  <1>7. CASE Abort \/ ServerSpuriousWakeup \/ RequestExit \/ ServerDie
    BY <1>2, <1>7 DEF Abort, ServerSpuriousWakeup, RequestExit, ServerDie
  <1>8. CASE UNCHANGED vars
    BY <1>2, <1>8 DEF vars
  <1>. QED
    BY <1>3, <1>4, <1>5, <1>6, <1>7, <1>8 DEF Next, CallerStep, ServerStep

LEMMA CallsInvariant == Spec => [](TypeOK /\ CallsInv)
  <1>1. Init => CallsInv
    BY DEF Init, CallsInv, Pending
  <1>2. TypeOK /\ CallsInv /\ [Next]_vars => (TypeOK /\ CallsInv)'
    BY StepTypes, StepCalls
  <1>. QED BY InitTypes, <1>1, <1>2, PTL DEF Spec

(* Whoever calls and whatever times out, requests are handled in the order *)
(* in which they were written, none twice, and only the latest.            *)
THEOREM RpcHandledInOrder == Spec => HandledInOrder
  <1>1. TypeOK /\ CallsInv /\ [Next]_vars =>
          [handled' # handled =>
             /\ handled' = Append(handled, issued)
             /\ \A i \in DOMAIN handled : handled[i] < issued]_vars
    <2>. SUFFICES ASSUME TypeOK, CallsInv, Next, handled' # handled
                  PROVE  /\ handled' = Append(handled, issued)
                         /\ \A i \in DOMAIN handled : handled[i] < issued
      OBVIOUS
    <2>1. Handle
      BY DEF Next, CallerStep, ServerStep, Call, WriteRequest, CallerTimeout,
             CallerSpuriousWakeup, ReadResponse, ReaderThrows, Return,
             RootThrows, HostTerminates, GiveUp, ServerBoot, ServerLoop,
             ServerWait, ServerTimeout, ServerSkip, Abort,
             ServerSpuriousWakeup, RequestExit, ServerDie, serverVars
    <2>2. handled' = Append(handled, request.call) /\ Pending /\ size # "none"
      BY <2>1 DEF Handle, HasRequest
    <2>. QED BY <2>2 DEF CallsInv
  <1>. QED BY CallsInvariant, <1>1, PTL DEF Spec, HandledInOrder

-----------------------------------------------------------------------------
(* The number of the replies.                                              *)

AccountInv ==
    /\ IsFiniteSet(Succeeding)
    /\ RepliesAccounted

(* A caller that neither starts nor stops succeeding.                      *)
LEMMA SameSucceeding ==
  ASSUME caller_pc \in [Callers -> CallerStates], NEW c \in Callers,
         NEW pc, caller_pc' = [caller_pc EXCEPT ![c] = pc],
         caller_pc[c] \in {"woken", "reading"} <=> pc \in {"woken", "reading"}
  PROVE  Succeeding' = Succeeding
  BY DEF Succeeding

LEMMA StepAccount ==
  ASSUME TypeOK, AccountInv, [Next]_vars
  PROVE  AccountInv'
  <1>. USE DEF bufferVars, messageVars, serverVars, callerVars
  <1>1. /\ replies \in Nat /\ spurious \in Nat /\ handled \in Seq(Nat)
        /\ caller_pc \in [Callers -> CallerStates]
    BY DEF TypeOK
  <1>2. IsFiniteSet(Succeeding) /\ Cardinality(Succeeding) \in Nat
    BY FS_CardinalityType DEF AccountInv
  <1>3. ASSUME Succeeding' = Succeeding, UNCHANGED <<replies, handled>>,
               spurious' = spurious
        PROVE  AccountInv'
    BY <1>3 DEF AccountInv, RepliesAccounted
  <1>4. ASSUME NEW c \in Callers, Call(c) \/ WriteRequest(c) \/ CallerTimeout(c)
        PROVE  AccountInv'
    <2>1. PICK pc \in CallerStates :
             /\ caller_pc' = [caller_pc EXCEPT ![c] = pc]
             /\ pc \notin {"woken", "reading"}
      BY <1>4 DEF Call, WriteRequest, CallerTimeout, CallerStates
    <2>2. caller_pc[c] \notin {"woken", "reading"}
      BY <1>4 DEF Call, WriteRequest, CallerTimeout
    <2>3. Succeeding' = Succeeding
      BY <1>1, <2>1, <2>2, SameSucceeding
    <2> QED BY <1>3, <1>4, <2>3 DEF Call, WriteRequest, CallerTimeout
  <1>5. ASSUME NEW c \in Callers, ReadResponse(c) PROVE AccountInv'
    <2>1. Succeeding' = Succeeding
      BY <1>1, <1>5, SameSucceeding DEF ReadResponse
    <2> QED BY <1>3, <1>5, <2>1 DEF ReadResponse
  <1>6. ASSUME NEW c \in Callers, GiveUp(c) PROVE AccountInv'
    <2>1. Succeeding' = Succeeding
      BY <1>1, <1>6, SameSucceeding DEF GiveUp
    <2> QED BY <1>3, <1>6, <2>1 DEF GiveUp
  <1>7. ASSUME NEW c \in Callers, CallerSpuriousWakeup(c) PROVE AccountInv'
    <2>1. Succeeding' = Succeeding \cup {c} /\ spurious' = spurious + 1
      BY <1>1, <1>7 DEF CallerSpuriousWakeup, Succeeding
    <2>2. IsFiniteSet(Succeeding')
      BY <1>2, <2>1, FS_AddElement
    <2> QED BY <1>1, <2>1, <2>2 DEF AccountInv, RepliesAccounted
  <1>8. ASSUME NEW c \in Callers, Return(c) PROVE AccountInv'
    <2>1. /\ Succeeding' = Succeeding \ {c} /\ c \in Succeeding
          /\ replies' = replies + 1 /\ UNCHANGED <<handled, spurious>>
      BY <1>1, <1>8 DEF Return, Succeeding
    <2>2. /\ IsFiniteSet(Succeeding')
          /\ Cardinality(Succeeding') = Cardinality(Succeeding) - 1
      BY <1>2, <2>1, FS_RemoveElement
    <2> QED BY <1>1, <1>2, <2>1, <2>2 DEF AccountInv, RepliesAccounted
  <1>9. CASE Handle
    <2>1. UNCHANGED <<replies, spurious>> /\ Len(handled') = Len(handled) + 1
          /\ Len(handled) \in Nat
      BY <1>1, <1>9 DEF Handle, TypeOK
    <2>2. CASE UNCHANGED caller_pc
      <3>1. Succeeding' = Succeeding
        BY <2>2 DEF Succeeding
      <3> QED BY <1>1, <1>2, <2>1, <3>1 DEF AccountInv, RepliesAccounted
    <2>3. ASSUME NEW c \in Callers, caller_pc[c] = "waiting",
                 caller_pc' = [caller_pc EXCEPT ![c] = "woken"]
          PROVE  AccountInv'
      <3>1. Succeeding' = Succeeding \cup {c} /\ c \notin Succeeding
        BY <1>1, <2>3 DEF Succeeding
      <3>2. /\ IsFiniteSet(Succeeding')
            /\ Cardinality(Succeeding') = Cardinality(Succeeding) + 1
        BY <1>2, <3>1, FS_AddElement
      <3> QED BY <1>1, <1>2, <2>1, <3>2 DEF AccountInv, RepliesAccounted
    <2> QED BY <1>9, <2>2, <2>3 DEF Handle, NotifyCaller
  <1>10. CASE ServerBoot \/ ServerLoop \/ ServerWait \/ ServerTimeout \/ ServerSkip
    BY <1>3, <1>10 DEF ServerBoot, ServerLoop, ServerWait, ServerTimeout,
                       ServerSkip, Succeeding
  <1>11. CASE Abort \/ RequestExit \/ ServerDie
    BY <1>3, <1>11 DEF Abort, RequestExit, ServerDie, Succeeding
  <1>12. CASE ServerSpuriousWakeup
    BY <1>1, <1>12 DEF ServerSpuriousWakeup, AccountInv, RepliesAccounted, Succeeding
  <1>13. CASE UNCHANGED vars
    BY <1>3, <1>13 DEF vars, Succeeding
  <1>14. ASSUME NEW c \in Callers, ReaderThrows(c) \/ RootThrows(c)
         PROVE  AccountInv'
    <2>1. Succeeding' = {} /\ UNCHANGED <<replies, handled, spurious>>
      BY <1>14 DEF ReaderThrows, RootThrows, HostTerminates, Succeeding
    <2>2. IsFiniteSet(Succeeding') /\ Cardinality(Succeeding') = 0
      BY <2>1, FS_EmptySet
    <2>3. Len(handled) \in Nat
      BY <1>1
    <2>4. spurious = 0 => replies <= Len(handled)
      BY <1>1, <1>2, <2>3 DEF AccountInv, RepliesAccounted
    <2> QED BY <1>1, <2>1, <2>2, <2>3, <2>4 DEF AccountInv, RepliesAccounted
  <1>. QED
    BY <1>4, <1>5, <1>6, <1>7, <1>8, <1>9, <1>10, <1>11, <1>12, <1>13, <1>14
       DEF Next, CallerStep, ServerStep

(* However many threads call, no more calls return true than were handled. *)
THEOREM RpcRepliesAccounted == Spec => []RepliesAccounted
  <1>1. Init => AccountInv
    <2>. SUFFICES ASSUME Init PROVE AccountInv
      OBVIOUS
    <2>1. Succeeding = {}
      BY DEF Init, Succeeding
    <2>. QED BY <2>1, FS_EmptySet DEF Init, AccountInv, RepliesAccounted
  <1>2. TypeOK /\ AccountInv /\ [Next]_vars => (TypeOK /\ AccountInv)'
    BY StepTypes, StepAccount
  <1>3. AccountInv => RepliesAccounted
    BY DEF AccountInv
  <1>. QED BY InitTypes, <1>1, <1>2, <1>3, PTL DEF Spec

-----------------------------------------------------------------------------
(* A lone caller.                                                          *)

(* Only values whose request fits are ever set, so every reply fits too.   *)
StateFits ==
    /\ state_value \notin OversizedValues
    /\ request.body.value \notin OversizedValues

(* The reply a lone caller has been notified of stays until it is read.    *)
ReplyInv ==
    Single /\ spurious = 0 =>
        \A c \in Callers :
            /\ caller_pc[c] # "aborted"
            /\ caller_pc[c] \in {"woken", "reading"} =>
                  ~Pending /\ size = "response" /\ response.call = issued
            /\ caller_pc[c] = "reading" =>
                  reader[c] = [size |-> "response", call |-> issued]

(* Until a call fails the channel is empty between two calls.              *)
CleanInv ==
    Single /\ spurious = 0 /\ timeouts = 0 =>
        /\ \A c \in Callers : caller_pc[c] \in {"idle", "locking"} => ~Pending
        /\ Pending => size # "none"

LEMMA InitFits == Init => StateFits
  BY ValuesAssumption DEF Init, StateFits, Nothing

LEMMA StepFits ==
  ASSUME StateFits, [Next]_vars
  PROVE  StateFits'
  <1>. USE DEF StateFits, bufferVars, messageVars, serverVars, callerVars
  <1>1. ASSUME NEW c \in Callers, WriteRequest(c) PROVE StateFits'
    <2>1. CASE Fits(calling[c])
      <3>1. request'.body = calling[c] /\ UNCHANGED state_value
        BY <1>1, <2>1 DEF WriteRequest
      <3> QED BY <2>1, <3>1 DEF Fits
    <2>2. CASE ~Fits(calling[c])
      BY <1>1, <2>2 DEF WriteRequest
    <2> QED BY <2>1, <2>2
  <1>2. CASE Handle
    BY <1>2 DEF Handle, HandleRequest
  <1>3. ASSUME NEW c \in Callers,
               \/ Call(c) \/ CallerTimeout(c) \/ CallerSpuriousWakeup(c)
               \/ ReadResponse(c) \/ ReaderThrows(c)
               \/ Return(c) \/ RootThrows(c) \/ GiveUp(c)
        PROVE  StateFits'
    BY <1>3 DEF Call, CallerTimeout, CallerSpuriousWakeup, ReadResponse,
                ReaderThrows, Return, RootThrows, GiveUp, HostTerminates
  <1>4. CASE ServerBoot \/ ServerLoop \/ ServerWait \/ ServerTimeout \/ ServerSkip
    BY <1>4 DEF ServerBoot, ServerLoop, ServerWait, ServerTimeout, ServerSkip
  <1>5. CASE Abort \/ ServerSpuriousWakeup \/ RequestExit \/ ServerDie
    BY <1>5 DEF Abort, ServerSpuriousWakeup, RequestExit, ServerDie
  <1>6. CASE UNCHANGED vars
    BY <1>6 DEF vars
  <1>. QED
    BY <1>1, <1>2, <1>3, <1>4, <1>5, <1>6 DEF Next, CallerStep, ServerStep

(* What a lone caller reads makes no reader throw.                         *)
LEMMA NothingThrows ==
  ASSUME ReplyInv, Single, spurious = 0, NEW c \in Callers,
         ReaderThrows(c) \/ RootThrows(c)
  PROVE  FALSE
  BY DEF ReplyInv, ReaderThrows, RootThrows, Whole

(* What handling a request leaves in the buffer and does to a lone caller. *)
LEMMA HandleReplies ==
  ASSUME TypeOK, CallsInv, StateFits, Handle
  PROVE  /\ ~Pending' /\ size' = "response" /\ response'.call = issued'
         /\ response'.value = IF request_id = "GetStateValue" THEN state_value
                                                              ELSE NoValue
         /\ handled' = Append(handled, issued)
         /\ UNCHANGED <<calling, reader, result, issued, replies, timeouts, spurious>>
  <1>1. Pending /\ size # "none"
    BY DEF Handle, HasRequest
  <1>2. request.call = issued
    BY <1>1 DEF CallsInv
  <1>3. DEFINE v == IF request_id = "GetStateValue" THEN state_value ELSE NoValue
  <1>4. v \notin OversizedReplies
    BY ValuesAssumption DEF StateFits
  <1>5. WriteResponse(v)
    BY DEF Handle
  <1>6. size' = "response" /\ response' = [call |-> request.call, value |-> v]
    <2>. HIDE DEF v
    <2>. QED BY <1>4, <1>5 DEF WriteResponse
  <1>7. /\ ~Pending' /\ handled' = Append(handled, request.call)
        /\ UNCHANGED <<calling, reader, result, issued, replies, timeouts, spurious>>
    BY DEF Handle, Pending
  <1>. QED BY <1>2, <1>6, <1>7

LEMMA StepReply ==
  ASSUME TypeOK, CallsInv, StateFits, ReplyInv, [Next]_vars
  PROVE  ReplyInv'
  <1>. SUFFICES ASSUME Single, spurious' = 0 PROVE ReplyInv'
    BY DEF ReplyInv, Single
  <1>. USE DEF bufferVars, messageVars, serverVars, callerVars
  <1>1. /\ spurious \in Nat /\ caller_pc \in [Callers -> CallerStates]
        /\ reader \in [Callers -> Readers]
    BY DEF TypeOK
  <1>2. ASSUME NEW c \in Callers,
               Call(c) \/ WriteRequest(c) \/ CallerTimeout(c) \/ GiveUp(c)
        PROVE  ReplyInv'
    <2>1. caller_pc'[c] \notin {"woken", "reading", "aborted"}
      BY <1>1, <1>2 DEF Call, WriteRequest, CallerTimeout, GiveUp
    <2> QED BY <2>1 DEF ReplyInv, Single
  <1>3. ASSUME NEW c \in Callers, CallerSpuriousWakeup(c) PROVE FALSE
    BY <1>1, <1>3 DEF CallerSpuriousWakeup
  <1>4. ASSUME NEW c \in Callers, ReadResponse(c) PROVE ReplyInv'
    <2>1. /\ caller_pc[c] = "woken" /\ caller_pc'[c] = "reading"
          /\ reader'[c] = [size |-> size, call |-> response.call]
          /\ UNCHANGED <<request_id, size, response, issued, spurious>>
      BY <1>1, <1>4 DEF ReadResponse
    <2> QED BY <2>1 DEF ReplyInv, Single, Pending
  <1>5. ASSUME NEW c \in Callers, Return(c) PROVE ReplyInv'
    <2>1. caller_pc'[c] = "idle"
      BY <1>1, <1>5 DEF Return
    <2> QED BY <2>1 DEF ReplyInv, Single
  <1>6. CASE Handle
    <2>1. ~Pending' /\ size' = "response" /\ response'.call = issued'
          /\ UNCHANGED <<reader, spurious>>
      BY <1>6, HandleReplies
    <2>2. ASSUME NEW c \in Callers, caller_pc'[c] \in {"reading", "aborted"}
          PROVE  caller_pc[c] = caller_pc'[c]
      BY <1>1, <1>6, <2>2 DEF Handle, NotifyCaller
    <2>3. UNCHANGED issued
      BY <1>6 DEF Handle
    <2> QED BY <2>1, <2>2, <2>3 DEF ReplyInv
  <1>7. ASSUME UNCHANGED <<request_id, response, size, caller_pc, reader, issued>>,
               spurious' \in {spurious, spurious + 1}
        PROVE  ReplyInv'
    BY <1>1, <1>7 DEF ReplyInv, Pending
  <1>8. CASE ServerBoot \/ ServerLoop \/ ServerWait \/ ServerTimeout \/ ServerSkip
    BY <1>7, <1>8 DEF ServerBoot, ServerLoop, ServerWait, ServerTimeout, ServerSkip
  <1>9. CASE Abort \/ ServerSpuriousWakeup \/ RequestExit \/ ServerDie
    BY <1>7, <1>9 DEF Abort, ServerSpuriousWakeup, RequestExit, ServerDie
  <1>10. CASE UNCHANGED vars
    BY <1>7, <1>10 DEF vars
  <1>11. ASSUME NEW c \in Callers, ReaderThrows(c) \/ RootThrows(c) PROVE FALSE
    <2>1. spurious = 0
      BY <1>11 DEF ReaderThrows, RootThrows, HostTerminates
    <2> QED BY <1>11, <2>1, NothingThrows
  <1>. QED
    BY <1>2, <1>3, <1>4, <1>5, <1>6, <1>8, <1>9, <1>10, <1>11
       DEF Next, CallerStep, ServerStep

LEMMA StepClean ==
  ASSUME TypeOK, CallsInv, StateFits, ReplyInv, CleanInv, [Next]_vars
  PROVE  CleanInv'
  <1>. SUFFICES ASSUME Single, spurious' = 0, timeouts' = 0 PROVE CleanInv'
    BY DEF CleanInv, Single
  <1>. USE DEF bufferVars, messageVars, serverVars, callerVars
  <1>1. /\ spurious \in Nat /\ timeouts \in Nat
        /\ caller_pc \in [Callers -> CallerStates]
    BY DEF TypeOK
  <1>2. ASSUME UNCHANGED <<request_id, size>>,
               spurious' \in {spurious, spurious + 1}, UNCHANGED timeouts,
               \A c \in Callers : caller_pc'[c] \in {"idle", "locking"} =>
                    caller_pc[c] \in {"idle", "locking"} \/ ~Pending
        PROVE  CleanInv'
    BY <1>1, <1>2 DEF CleanInv, Pending
  <1>3. ASSUME NEW c \in Callers,
               Call(c) \/ CallerTimeout(c) \/ CallerSpuriousWakeup(c) \/ ReadResponse(c)
        PROVE  CleanInv'
    <2>1. \A d \in Callers : caller_pc'[d] \in {"idle", "locking"} =>
                                 caller_pc[d] \in {"idle", "locking"}
      BY <1>1, <1>3 DEF Call, CallerTimeout, CallerSpuriousWakeup, ReadResponse
    <2> QED
      BY <1>1, <1>2, <1>3, <2>1
         DEF Call, CallerTimeout, CallerSpuriousWakeup, ReadResponse
  <1>4. ASSUME NEW c \in Callers, WriteRequest(c) PROVE CleanInv'
    <2>1. caller_pc[c] = "locking" /\ caller_pc'[c] = "waiting"
          /\ UNCHANGED <<spurious, timeouts>>
      BY <1>1, <1>4 DEF WriteRequest
    <2>2. ~Pending
      BY <2>1 DEF CleanInv
    <2>3. size' = "request" \/ UNCHANGED request_id
      BY <1>4 DEF WriteRequest
    <2>4. Pending' => size' # "none"
      BY <2>2, <2>3 DEF Pending
    <2> QED BY <2>1, <2>4 DEF CleanInv, Single
  <1>5. ASSUME NEW c \in Callers, Return(c) PROVE CleanInv'
    <2>1. caller_pc[c] = "reading" /\ UNCHANGED <<request_id, size, spurious, timeouts>>
      BY <1>5 DEF Return
    <2>2. ~Pending
      BY <2>1 DEF ReplyInv
    <2> QED BY <1>2, <2>1, <2>2
  <1>6. ASSUME NEW c \in Callers, GiveUp(c) PROVE FALSE
    BY <1>1, <1>6 DEF GiveUp
  <1>7. CASE Handle
    <2>1. ~Pending'
      BY <1>7, HandleReplies
    <2> QED BY <2>1 DEF CleanInv
  <1>8. CASE ServerBoot \/ ServerLoop \/ ServerWait \/ ServerTimeout \/ ServerSkip
    BY <1>2, <1>8 DEF ServerBoot, ServerLoop, ServerWait, ServerTimeout, ServerSkip
  <1>9. CASE Abort \/ ServerSpuriousWakeup \/ RequestExit \/ ServerDie
    BY <1>2, <1>9 DEF Abort, ServerSpuriousWakeup, RequestExit, ServerDie
  <1>10. CASE UNCHANGED vars
    BY <1>2, <1>10 DEF vars
  <1>11. ASSUME NEW c \in Callers, ReaderThrows(c) \/ RootThrows(c) PROVE FALSE
    <2>1. spurious = 0
      BY <1>11 DEF ReaderThrows, RootThrows, HostTerminates
    <2> QED BY <1>11, <2>1, NothingThrows
  <1>. QED
    BY <1>3, <1>4, <1>5, <1>6, <1>7, <1>8, <1>9, <1>10, <1>11
       DEF Next, CallerStep, ServerStep

LoneInv == TypeOK /\ CallsInv /\ StateFits /\ ReplyInv /\ CleanInv

LEMMA InitLone == Init => LoneInv
  <1>. SUFFICES ASSUME Init PROVE LoneInv
    OBVIOUS
  <1>1. CallsInv /\ ReplyInv /\ CleanInv
    BY DEF Init, CallsInv, ReplyInv, CleanInv, Pending
  <1>. QED BY <1>1, InitTypes, InitFits DEF LoneInv

LEMMA LoneInvariant == Spec => []LoneInv
  <1>1. LoneInv /\ [Next]_vars => LoneInv'
    BY StepTypes, StepCalls, StepFits, StepReply, StepClean DEF LoneInv
  <1>. QED BY InitLone, <1>1, PTL DEF Spec

(* A lone caller that is given a reply is given its own, although it reads *)
(* it without the mutex; and no reply makes it throw.                      *)
THEOREM RpcOwnReply == Spec => []OwnReply
  <1>1. LoneInv => OwnReply
    BY DEF LoneInv, ReplyInv, OwnReply
  <1>. QED BY <1>1, LoneInvariant, PTL

(* As long as no call of a lone caller fails, the server meets no empty    *)
(* message, whatever does not fit.                                         *)
THEOREM RpcOnlyTimeoutsAbort == Spec => []OnlyTimeoutsAbort
  <1>1. LoneInv => OnlyTimeoutsAbort
    BY DEF LoneInv, CleanInv, OnlyTimeoutsAbort, HasRequest
  <1>. QED BY <1>1, LoneInvariant, PTL

-----------------------------------------------------------------------------
(* A lone caller sees the plugin's state as StateStore describes.          *)

(* A reply that has arrived is for the call that waits, and brings what is *)
(* in the plugin still; a request that can be handled is that of the call. *)
EffectInv ==
    /\ spurious <= MaxSpurious
    /\ Single /\ spurious = 0 =>
          \A c \in Callers :
              /\ caller_pc[c] # "idle" => calling[c] \in Requests
              /\ caller_pc[c] \in {"woken", "reading"} =>
                    /\ handled # <<>> /\ handled[Len(handled)] = issued
                    /\ calling[c].kind = "GetStateValue" =>
                          response.value = state_value
              /\ Pending /\ size # "none" =>
                    /\ request.body.kind = request_id
                    /\ caller_pc[c] = "waiting" => request.body = calling[c]

LEMMA InitEffect == Init => EffectInv
  BY BoundsAssumption DEF Init, EffectInv, Pending

LEMMA StepEffect ==
  ASSUME LoneInv, EffectInv, [Next]_vars
  PROVE  EffectInv'
  <1>1. /\ TypeOK /\ CallsInv /\ StateFits /\ ReplyInv
        /\ spurious \in Nat /\ MaxSpurious \in Nat /\ handled \in Seq(Nat)
        /\ caller_pc \in [Callers -> CallerStates]
        /\ calling \in [Callers -> Requests \cup {Nothing}]
    BY BoundsAssumption DEF LoneInv, TypeOK
  <1>2. spurious' <= MaxSpurious /\ (spurious' = 0 => spurious = 0)
    BY <1>1 DEF EffectInv, Next, CallerStep, ServerStep, Call, WriteRequest,
                CallerTimeout, CallerSpuriousWakeup, ReadResponse,
                ReaderThrows, Return, RootThrows, HostTerminates, GiveUp,
                ServerBoot, ServerLoop, ServerWait, ServerTimeout,
                ServerSkip, Handle, Abort, ServerSpuriousWakeup, RequestExit,
                ServerDie, vars
  <1>3. SUFFICES ASSUME Single, spurious = 0, spurious' = 0 PROVE EffectInv'
    BY <1>2 DEF EffectInv, Single
  <1>4. \A c \in Callers :
           /\ caller_pc[c] # "idle" => calling[c] \in Requests
           /\ caller_pc[c] \in {"woken", "reading"} =>
                 /\ ~Pending
                 /\ handled # <<>> /\ handled[Len(handled)] = issued
                 /\ calling[c].kind = "GetStateValue" =>
                       response.value = state_value
           /\ Pending /\ size # "none" =>
                 /\ request.body.kind = request_id
                 /\ caller_pc[c] = "waiting" => request.body = calling[c]
    BY <1>1, <1>3 DEF EffectInv, ReplyInv
  <1>. USE DEF bufferVars, messageVars, serverVars, callerVars
  <1>5. ASSUME UNCHANGED <<request_id, request, response, size, state_value,
                           handled, issued, calling>>,
               \A c \in Callers :
                   /\ caller_pc'[c] # "idle" => caller_pc[c] # "idle"
                   /\ caller_pc'[c] \in {"woken", "reading"} =>
                         caller_pc[c] \in {"woken", "reading"}
                   /\ caller_pc'[c] = "waiting" => caller_pc[c] = "waiting"
        PROVE  EffectInv'
    BY <1>2, <1>4, <1>5 DEF EffectInv, Pending
  <1>6. ASSUME NEW c \in Callers, Call(c) PROVE EffectInv'
    <2>1. /\ calling'[c] \in Requests /\ caller_pc'[c] = "locking"
          /\ UNCHANGED <<request_id, request, size>>
      BY <1>1, <1>6 DEF Call
    <2> QED BY <1>2, <1>3, <1>4, <2>1 DEF EffectInv, Pending, Single
  <1>7. ASSUME NEW c \in Callers, WriteRequest(c) PROVE EffectInv'
    <2>1. /\ caller_pc[c] = "locking" /\ caller_pc'[c] = "waiting"
          /\ UNCHANGED calling
      BY <1>1, <1>7 DEF WriteRequest
    <2>2. \/ request'.body = calling[c] /\ request_id' = calling[c].kind
          \/ size' = "none"
      BY <1>7 DEF WriteRequest
    <2> QED BY <1>2, <1>3, <1>4, <2>1, <2>2 DEF EffectInv, Pending, Single
  <1>8. ASSUME NEW c \in Callers, CallerSpuriousWakeup(c) PROVE FALSE
    BY <1>3, <1>8 DEF CallerSpuriousWakeup
  <1>9. ASSUME NEW c \in Callers,
               CallerTimeout(c) \/ ReadResponse(c) \/ Return(c) \/ GiveUp(c)
        PROVE  EffectInv'
    <2>1. CASE CallerTimeout(c)
      BY <1>1, <1>5, <2>1 DEF CallerTimeout
    <2>2. CASE ReadResponse(c)
      BY <1>1, <1>5, <2>2 DEF ReadResponse
    <2>3. CASE Return(c)
      BY <1>1, <1>5, <2>3 DEF Return
    <2>4. CASE GiveUp(c)
      BY <1>1, <1>5, <2>4 DEF GiveUp
    <2> QED BY <1>9, <2>1, <2>2, <2>3, <2>4
  <1>10. CASE Handle
    <2>1. /\ ~Pending' /\ handled' = Append(handled, issued)
          /\ response'.value = IF request_id = "GetStateValue" THEN state_value
                                                               ELSE NoValue
          /\ UNCHANGED <<calling, issued>>
      BY <1>1, <1>10, HandleReplies
    <2>2. handled' # <<>> /\ handled'[Len(handled')] = issued'
      <3>1. issued \in Nat
        BY <1>1 DEF TypeOK
      <3>2. /\ Append(handled, issued) # <<>>
            /\ Len(Append(handled, issued)) = Len(handled) + 1
            /\ Append(handled, issued)[Len(handled) + 1] = issued
        BY <1>1, <3>1, AppendProperties
      <3> QED BY <2>1, <3>2
    <2>3. Pending /\ size # "none"
      BY <1>10 DEF Handle, HasRequest
    <2>4. ASSUME NEW c \in Callers
          PROVE  /\ caller_pc'[c] # "idle" => caller_pc[c] # "idle"
                 /\ caller_pc'[c] \in {"woken", "reading"} =>
                       caller_pc[c] \in {"waiting", "woken", "reading"}
      BY <1>1, <1>10 DEF Handle, NotifyCaller
    <2>5. ASSUME NEW c \in Callers, caller_pc'[c] \in {"woken", "reading"},
                 calling[c].kind = "GetStateValue"
          PROVE  response'.value = state_value'
      <3>1. caller_pc[c] = "waiting"
        BY <1>4, <2>3, <2>4, <2>5
      <3>2. request_id = "GetStateValue"
        BY <1>4, <2>3, <2>5, <3>1
      <3>3. state_value' = state_value
        BY <1>10, <3>2 DEF Handle, HandleRequest
      <3> QED BY <2>1, <3>2, <3>3
    <2> QED BY <1>2, <1>4, <2>1, <2>2, <2>4, <2>5 DEF EffectInv
  <1>11. CASE ServerBoot \/ ServerLoop \/ ServerWait \/ ServerTimeout \/ ServerSkip
    BY <1>5, <1>11 DEF ServerBoot, ServerLoop, ServerWait, ServerTimeout, ServerSkip
  <1>12. CASE Abort \/ ServerSpuriousWakeup \/ RequestExit \/ ServerDie
    BY <1>5, <1>12 DEF Abort, ServerSpuriousWakeup, RequestExit, ServerDie
  <1>13. CASE UNCHANGED vars
    BY <1>5, <1>13 DEF vars
  <1>14. ASSUME NEW c \in Callers, ReaderThrows(c) \/ RootThrows(c) PROVE FALSE
    BY <1>1, <1>3, <1>14, NothingThrows
  <1>. QED
    BY <1>6, <1>7, <1>8, <1>9, <1>10, <1>11, <1>12, <1>13, <1>14
       DEF Next, CallerStep, ServerStep

(* What StateStore calls calling, open and served.                         *)
InProgress == IF caller_pc[TheCaller] \in {"idle", "locking"}
              THEN Nothing ELSE calling[TheCaller]
OpenRequest == IF request_id = NoRequest \/ size = "none"
               THEN Nothing ELSE request.body
Served == handled # <<>> /\ handled[Len(handled)] = issued

LEMMA StoreStutter ==
  ASSUME UNCHANGED <<state_value, InProgress, OpenRequest, Served>>,
         UNCHANGED result
  PROVE  UNCHANGED Store!vars
  BY DEF Store!vars, InProgress, OpenRequest, Served

LEMMA StoreStep ==
  ASSUME Callers # {}, Single, MaxSpurious = 0,
         LoneInv, EffectInv, [Next]_vars
  PROVE  [Store!Next]_(Store!vars)
  <1>. DEFINE t == TheCaller
  <1>1. t \in Callers /\ \A c \in Callers : c = t
    BY DEF TheCaller, Single
  <1>2. /\ TypeOK /\ CallsInv /\ StateFits /\ ReplyInv
        /\ spurious = 0
        /\ handled \in Seq(Nat) /\ issued \in Nat
        /\ caller_pc \in [Callers -> CallerStates]
        /\ calling \in [Callers -> Requests \cup {Nothing}]
        /\ result \in [Callers -> [ok : BOOLEAN, value : Values \cup {NoValue}]]
        /\ request.body \in Requests \cup {Nothing}
    BY DEF LoneInv, TypeOK, EffectInv
  <1>3. /\ caller_pc[t] # "idle" => calling[t] \in Requests
        /\ caller_pc[t] \in {"woken", "reading"} =>
              /\ ~Pending /\ Served
              /\ calling[t].kind = "GetStateValue" => response.value = state_value
        /\ Pending /\ size # "none" => request.body.kind = request_id
    BY <1>1, <1>2 DEF EffectInv, ReplyInv, Served
  <1>. USE DEF bufferVars, messageVars, serverVars, callerVars
  <1>4. ASSUME UNCHANGED <<request_id, request, size, state_value, handled,
                           issued, calling, result>>,
               caller_pc'[t] \in {"idle", "locking"} <=>
                   caller_pc[t] \in {"idle", "locking"}
        PROVE  UNCHANGED Store!vars
    <2>1. UNCHANGED <<InProgress, OpenRequest, Served>>
      BY <1>4 DEF InProgress, OpenRequest, Served
    <2> QED BY <1>4, <2>1, StoreStutter
  <1>5. ASSUME Call(t) PROVE UNCHANGED Store!vars
    <2>1. caller_pc[t] = "idle" /\ caller_pc'[t] = "locking"
      BY <1>1, <1>2, <1>5 DEF Call
    <2>2. UNCHANGED <<InProgress, OpenRequest, Served, state_value>>
      BY <1>5, <2>1 DEF Call, InProgress, OpenRequest, Served
    <2> QED BY <1>5, <2>2, StoreStutter DEF Call
  <1>6. ASSUME WriteRequest(t) PROVE Store!Request(calling[t])
    <2>1. /\ caller_pc[t] = "locking" /\ caller_pc'[t] = "waiting"
          /\ UNCHANGED <<calling, state_value, result, handled>>
          /\ issued' = issued + 1
      BY <1>1, <1>2, <1>6 DEF WriteRequest
    <2>2. InProgress = Nothing /\ InProgress' = calling[t]
      BY <2>1 DEF InProgress
    <2>3. calling[t].kind # NoRequest
      BY <1>3, <2>1, RequestFields
    <2>4. OpenRequest' = IF Fits(calling[t]) THEN calling[t] ELSE Nothing
      BY <1>6, <2>3 DEF WriteRequest, OpenRequest
    <2>5. Served' = FALSE
      <3>1. ASSUME handled # <<>> PROVE handled[Len(handled)] <= issued
        <4>1. Len(handled) \in DOMAIN handled
          BY <1>2, <3>1, HeadTailProperties, ElementOfSeq
        <4> QED BY <1>2, <4>1 DEF CallsInv
      <3>2. handled # <<>> => handled[Len(handled)] \in Nat
        BY <1>2, HeadTailProperties, ElementOfSeq
      <3> QED BY <1>2, <2>1, <3>1, <3>2 DEF Served
    <2> QED
      BY <2>1, <2>2, <2>4, <2>5
         DEF Store!Request, Store!None, Nothing, NoRequest, InProgress,
             OpenRequest, Served
  <1>7. ASSUME Return(t) PROVE Store!Return
    <2>0. caller_pc[t] = "reading" => Whole(t)
      BY <1>1, <1>2 DEF ReplyInv, Whole
    <2>1. /\ caller_pc[t] = "reading" /\ caller_pc'[t] = "idle"
          /\ result'[t] = [ok |-> TRUE,
                           value |-> IF calling[t].kind = "GetStateValue"
                                     THEN response.value ELSE NoValue]
          /\ UNCHANGED <<state_value, handled, issued, request_id, request, size>>
      BY <1>1, <1>2, <1>7, <2>0 DEF Return
    <2>2. /\ InProgress = calling[t] /\ InProgress' = Nothing /\ Served
          /\ UNCHANGED <<OpenRequest, Served>>
      BY <1>3, <2>1 DEF InProgress, OpenRequest, Served
    <2>3. InProgress # Nothing
      BY <1>3, <2>1, <2>2, RequestFields
    <2>4. result'[t] = [ok |-> TRUE,
                        value |-> IF InProgress.kind = "GetStateValue"
                                  THEN state_value ELSE NoValue]
      BY <1>3, <2>1, <2>2
    <2> QED
      BY <2>1, <2>2, <2>3, <2>4
         DEF Store!Return, Store!None, Nothing, NoRequest, InProgress,
             OpenRequest, Served
  <1>8. ASSUME GiveUp(t) PROVE Store!GiveUp
    <2>1. /\ caller_pc[t] = "expired" /\ caller_pc'[t] = "idle"
          /\ result'[t] = [ok |-> FALSE, value |-> NoValue]
          /\ UNCHANGED <<state_value, handled, issued, request_id, request, size>>
      BY <1>1, <1>2, <1>8 DEF GiveUp, Failure
    <2>2. /\ InProgress = calling[t] /\ InProgress' = Nothing
          /\ UNCHANGED <<OpenRequest, Served>>
      BY <2>1 DEF InProgress, OpenRequest, Served
    <2>3. InProgress # Nothing
      BY <1>3, <2>1, <2>2, RequestFields
    <2> QED
      BY <2>1, <2>2, <2>3
         DEF Store!GiveUp, Store!None, Store!Failure, Nothing, NoRequest,
             InProgress, OpenRequest, Served
  <1>9. CASE CallerTimeout(t) \/ ReadResponse(t)
    <2>1. CASE CallerTimeout(t)
      BY <1>1, <1>2, <1>4, <2>1 DEF CallerTimeout
    <2>2. CASE ReadResponse(t)
      BY <1>1, <1>2, <1>4, <2>2 DEF ReadResponse
    <2> QED BY <1>9, <2>1, <2>2
  <1>10. ASSUME CallerSpuriousWakeup(t) PROVE FALSE
    BY <1>2, <1>10 DEF CallerSpuriousWakeup
  <1>11. CASE Handle
    <2>1. /\ ~Pending' /\ handled' = Append(handled, issued)
          /\ UNCHANGED <<calling, result, issued>>
      BY <1>2, <1>11, HandleReplies
    <2>2. Served'
      BY <1>2, <2>1, AppendProperties DEF Served
    <2>3. Pending /\ size # "none"
      BY <1>11 DEF Handle, HasRequest
    <2>4. /\ OpenRequest = request.body /\ OpenRequest' = Nothing
          /\ OpenRequest.kind = request_id /\ request_id # NoRequest
      BY <1>3, <2>1, <2>3 DEF OpenRequest, Pending
    <2>5. OpenRequest # Nothing
      BY <2>4 DEF Nothing
    <2>6. state_value' = IF OpenRequest.kind = "SetStateValue"
                         THEN OpenRequest.value ELSE state_value
      BY <1>11, <2>4 DEF Handle, HandleRequest
    <2>7. caller_pc'[t] \in {"idle", "locking"} <=>
              caller_pc[t] \in {"idle", "locking"}
      BY <1>1, <1>2, <1>11 DEF Handle, NotifyCaller
    <2>8. UNCHANGED InProgress
      BY <2>1, <2>7 DEF InProgress
    <2>9. Store!TakeEffect
      BY <2>1, <2>2, <2>4, <2>5, <2>6, <2>8
         DEF Store!TakeEffect, Store!None, Nothing, NoRequest, InProgress,
             OpenRequest, Served
    <2> QED BY <2>9 DEF Store!Next
  <1>12. CASE ServerBoot \/ ServerLoop \/ ServerWait \/ ServerTimeout \/ ServerSkip
    BY <1>4, <1>12 DEF ServerBoot, ServerLoop, ServerWait, ServerTimeout, ServerSkip
  <1>13. CASE Abort \/ ServerSpuriousWakeup \/ RequestExit \/ ServerDie
    BY <1>4, <1>13 DEF Abort, ServerSpuriousWakeup, RequestExit, ServerDie
  <1>14. CASE UNCHANGED vars
    BY <1>4, <1>14 DEF vars
  <1>15. WriteRequest(t) => Store!Next
    <2>. SUFFICES ASSUME WriteRequest(t) PROVE Store!Next
      OBVIOUS
    <2>1. calling[t] \in Requests
      BY <1>3 DEF WriteRequest
    <2>. QED BY <1>6, <2>1 DEF Store!Next
  <1>16. Return(t) \/ GiveUp(t) => Store!Next
    BY <1>7, <1>8 DEF Store!Next
  <1>17. CASE \E c \in Callers : Call(c) \/ CallerStep(c) \/ CallerSpuriousWakeup(c)
    <2>1. Call(t) \/ CallerStep(t) \/ CallerSpuriousWakeup(t)
      BY <1>1, <1>17
    <2>2. ~(ReaderThrows(t) \/ RootThrows(t))
      BY <1>1, <1>2, NothingThrows
    <2> QED BY <1>5, <1>9, <1>10, <1>15, <1>16, <2>1, <2>2 DEF CallerStep
  <1>. QED
    BY <1>11, <1>12, <1>13, <1>14, <1>17 DEF Next, ServerStep

(* One caller at a time sees a store: a call takes effect at most once, a  *)
(* reply means that it did and brings what is in the plugin, and a call    *)
(* that failed may take effect until the next one, not later.              *)
THEOREM RpcIsStateStore ==
  ASSUME Callers # {}, Single, MaxSpurious = 0
  PROVE  Spec => ImplementsStateStore
  <1>1. Init => Store!Init
    <2>. SUFFICES ASSUME Init PROVE Store!Init
      OBVIOUS
    <2>1. TheCaller \in Callers
      BY DEF TheCaller
    <2>2. /\ state_value = NoValue /\ InProgress = Nothing
          /\ OpenRequest = Nothing /\ Served = FALSE
          /\ result[TheCaller] = [ok |-> FALSE, value |-> NoValue]
      BY <2>1 DEF Init, InProgress, OpenRequest, Served, Failure
    <2>. QED
      BY <2>2 DEF Store!Init, Store!None, Store!Failure, Nothing, NoRequest,
                  InProgress, OpenRequest, Served
  <1>2. LoneInv /\ EffectInv /\ [Next]_vars => EffectInv'
    BY StepEffect
  <1>3. LoneInv /\ EffectInv /\ [Next]_vars => [Store!Next]_(Store!vars)
    BY StoreStep
  <1>. QED
    BY InitEffect, LoneInvariant, <1>1, <1>2, <1>3, PTL
       DEF Spec, ImplementsStateStore, Store!Spec

=============================================================================
