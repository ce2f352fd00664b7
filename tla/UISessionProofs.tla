--------------------------- MODULE UISessionProofs ---------------------------
(***************************************************************************)
(* Theorems about UISession: type correctness, that nothing that uses the  *)
(* shared memory outlives it, and when the host can die reading a reply.   *)
(* Theorems about UIParameters: that the host is told what the UI process  *)
(* wrote, each value once and in order.                                    *)
(***************************************************************************)
EXTENDS UISession, UIParameters, SequenceTheorems, TLAPS

-----------------------------------------------------------------------------
(* What makes NothingOutlivesItsMemory inductive: the client is deleted    *)
(* after the joins, and while it is there nothing else is begun.           *)
OwnerInv ==
    /\ NothingOutlivesItsMemory
    /\ ui_pc # "idle" => client
    /\ ui_pc = "deleting" => process_thread = "exited" /\ rpc_thread = "exited"

(* What makes OnlyEarlyCloseAborts inductive: who is woken has a reply.    *)
ReplyInv ==
    /\ OnlyEarlyCloseAborts
    /\ ui_pc = "woken" => response # "none" \/ spurious > 0

(* The typing of the variables holds in every reachable state, for any     *)
(* number of windows (all variables of UISession).                         *)
THEOREM SessionTypeCorrect == Spec => []TypeOK
<1>1. Init => TypeOK
  <2>1. 0 \in 0..MaxSessions /\ 0 \in 0..MaxSpurious /\ 0 \in 0..0
    BY UISessionAssumption
  <2>2. QED
    BY <2>1, Zenon DEF Init, TypeOK, Calls, Free, Lost, ThreadStates
<1>2. TypeOK /\ [Next]_vars => TypeOK'
  <2> SUFFICES ASSUME TypeOK, [Next]_vars PROVE TypeOK'
    OBVIOUS
  <2>7. CASE DeleteClient
    <3>1. FreshMemory /\ client' = FALSE
      BY <2>7, Zenon DEF DeleteClient
    <3>2. /\ client' \in BOOLEAN
          /\ ready' \in BOOLEAN /\ godot_ready' \in BOOLEAN
      BY <3>1, Zenon DEF FreshMemory
    <3>3. /\ mutex' = Free /\ godot_mutex' = Free
          /\ request_id' = "none" /\ response' = "none"
          /\ godot_request_id' = "none"
      BY <3>1 DEF FreshMemory
    <3>4. /\ ui_pc' = "idle" /\ child' = "none" /\ child_rpc' = "none"
          /\ UNCHANGED <<call, godot_window_id, destroyed, child_exit>>
          /\ UNCHANGED <<serverVars, historyVars>>
      BY <2>7 DEF DeleteClient
    <3>5. QED
      BY <3>2, <3>3, <3>4, UISessionAssumption
         DEF TypeOK, Calls, Free, Lost, ThreadStates, serverVars, historyVars
  <2> USE UISessionAssumption DEF TypeOK, Calls, Free, Lost, ThreadStates
  <2>1. CASE Open
    <3>1. sessions' \in 0..MaxSessions /\ godot_window_id' \in 0..sessions'
      BY <2>1 DEF Open
    <3>2. QED
      BY <2>1, <3>1 DEF Open, FreshMemory
  <2>2. CASE Idle \/ Notify \/ Close \/ Destroy
    BY <2>2 DEF Idle, Notify, Close, Destroy, StartCall, serverVars, rpcVars,
                godotVars, childVars, historyVars
  <2>3. CASE WriteRequest
    BY <2>3 DEF WriteRequest, serverVars, godotVars, historyVars
  <2>4. CASE CallTimeout \/ CallSpuriousWakeup
    BY <2>4 DEF CallTimeout, CallSpuriousWakeup, serverVars, rpcVars,
                godotVars, childVars, historyVars
  <2>5. CASE CallReturns \/ CallFails
    BY <2>5 DEF CallReturns, CallFails, AfterCall, serverVars, rpcVars,
                godotVars, childVars, historyVars
  <2>6. CASE DeleteServer \/ Join
    BY <2>6 DEF DeleteServer, Join, serverVars, rpcVars, godotVars, childVars,
                historyVars
  <2>8. CASE ProcessThreadExit
    BY <2>8 DEF ProcessThreadExit, uiVars, rpcVars, godotVars, childVars,
                historyVars
  <2>9. CASE HostRpcThread
    BY <2>9 DEF HostRpcThread, RpcThread, RpcThreadBoot, RpcThreadLoop,
                RpcThreadWait, RpcThreadTimeout, RpcThreadSkip,
                RpcThreadHandle, uiVars, rpcVars, historyVars
  <2>10. CASE ChildMainThread \/ ScriptCall \/ ChildQuit
    BY <2>10 DEF ChildMainThread, ChildMain, ChildInitialize, ScriptWrite,
                ScriptTimeout, ScriptReturns, ChildFinish, ChildDestroy,
                ScriptCall, ChildQuit, uiVars, rpcVars, historyVars
  <2>11. CASE ChildRpcThread
    BY <2>11 DEF ChildRpcThread, ChildRpc, ChildRpcBoot, ChildRpcLoop,
                ChildRpcWait, ChildRpcTimeout, ChildRpcSkip, ChildRpcHandle,
                serverVars, godotVars, historyVars
  <2>12. CASE ChildDie
    BY <2>12 DEF ChildDie, uiVars, serverVars, historyVars
  <2>13. CASE UNCHANGED vars
    BY <2>13 DEF vars, uiVars, serverVars, rpcVars, godotVars, childVars,
                 historyVars
  <2>14. QED
    BY <2>1, <2>2, <2>3, <2>4, <2>5, <2>6, <2>7, <2>8, <2>9, <2>10, <2>11,
       <2>12, <2>13 DEF Next, UIThread
<1>3. QED
  BY <1>1, <1>2, PTL DEF Spec

(* The host's threads and the UI process are gone whenever the client and  *)
(* with it the shared memory is: the order of the destructor and of        *)
(* visibilityChanged.                                                      *)
THEOREM NothingOutlives == Spec => []NothingOutlivesItsMemory
<1>1. Init => OwnerInv
  BY DEF Init, OwnerInv, NothingOutlivesItsMemory
<1>2. OwnerInv /\ [Next]_vars => OwnerInv'
  <2> SUFFICES ASSUME OwnerInv, [Next]_vars PROVE OwnerInv'
    OBVIOUS
  <2> USE DEF OwnerInv, NothingOutlivesItsMemory
  <2>1. CASE Open
    BY <2>1 DEF Open
  <2>2. CASE Idle \/ Notify \/ Close \/ Destroy
    BY <2>2 DEF Idle, Notify, Close, Destroy, StartCall, serverVars, childVars
  <2>3. CASE WriteRequest
    BY <2>3 DEF WriteRequest, serverVars
  <2>4. CASE CallTimeout \/ CallSpuriousWakeup \/ CallReturns \/ CallFails
    BY <2>4 DEF CallTimeout, CallSpuriousWakeup, CallReturns, CallFails,
                AfterCall, serverVars, childVars
  <2>5. CASE DeleteServer \/ Join
    BY <2>5 DEF DeleteServer, Join, serverVars, childVars
  <2>6. CASE DeleteClient
    BY <2>6 DEF DeleteClient, serverVars
  <2>7. CASE ProcessThreadExit
    BY <2>7 DEF ProcessThreadExit, uiVars, childVars
  <2>8. CASE HostRpcThread
    <3>1. /\ rpc_thread \notin {"none", "exited"}
          /\ UNCHANGED <<uiVars, process_thread, child_rpc>>
          /\ child' # child => child = "waiting"
      BY <2>8 DEF HostRpcThread, RpcThread, RpcThreadBoot, RpcThreadLoop,
                  RpcThreadWait, RpcThreadTimeout, RpcThreadSkip,
                  RpcThreadHandle
    <3>2. QED
      BY <3>1 DEF uiVars
  <2>9. CASE ChildMainThread \/ ScriptCall \/ ChildQuit
    <3>1. /\ child # "none"
          /\ UNCHANGED <<uiVars, process_thread>>
          /\ rpc_thread' # rpc_thread => rpc_thread = "waiting"
      BY <2>9 DEF ChildMainThread, ChildMain, ChildInitialize, ScriptWrite,
                  ScriptTimeout, ScriptReturns, ChildFinish, ChildDestroy,
                  ScriptCall, ChildQuit
    <3>2. QED
      BY <3>1 DEF uiVars
  <2>10. CASE ChildRpcThread
    <3>1. /\ child_rpc # "none"
          /\ UNCHANGED <<client, serverVars, child>>
          /\ ui_pc' # ui_pc => ui_pc = "waiting" /\ ui_pc' = "woken"
      BY <2>10 DEF ChildRpcThread, ChildRpc, ChildRpcBoot, ChildRpcLoop,
                   ChildRpcWait, ChildRpcTimeout, ChildRpcSkip, ChildRpcHandle
    <3>2. QED
      BY <3>1 DEF serverVars
  <2>11. CASE ChildDie
    BY <2>11 DEF ChildDie, uiVars, serverVars
  <2>12. CASE UNCHANGED vars
    BY <2>12 DEF vars, uiVars, serverVars, childVars
  <2>13. QED
    BY <2>1, <2>2, <2>3, <2>4, <2>5, <2>6, <2>7, <2>8, <2>9, <2>10, <2>11,
       <2>12 DEF Next, UIThread
<1>3. OwnerInv => NothingOutlivesItsMemory
  BY DEF OwnerInv
<1>4. QED
  BY <1>1, <1>2, <1>3, PTL DEF Spec

(* The host dies reading a reply only when the window is closed before the *)
(* UI process is ready, or after a spurious wakeup of rpc_call's wait:     *)
(* whoever is woken by the UI process finds a reply.                       *)
THEOREM AbortsOnlyEarly == Spec => []OnlyEarlyCloseAborts
<1>1. Init => ReplyInv
  BY DEF Init, ReplyInv, OnlyEarlyCloseAborts
<1>2. TypeOK /\ ReplyInv /\ [Next]_vars => ReplyInv'
  <2> SUFFICES ASSUME TypeOK, ReplyInv, [Next]_vars PROVE ReplyInv'
    OBVIOUS
  <2> USE DEF ReplyInv, OnlyEarlyCloseAborts
  <2>1. CASE Open
    BY <2>1 DEF Open
  <2>2. CASE Idle \/ Notify \/ Close \/ Destroy
    BY <2>2 DEF Idle, Notify, Close, Destroy, StartCall, rpcVars, historyVars
  <2>3. CASE WriteRequest \/ CallTimeout
    BY <2>3 DEF WriteRequest, CallTimeout, historyVars
  <2>4. CASE CallSpuriousWakeup
    BY <2>4, UISessionAssumption DEF CallSpuriousWakeup, TypeOK
  <2>5. CASE CallReturns \/ CallFails
    BY <2>5 DEF CallReturns, CallFails, AfterCall, historyVars
  <2>6. CASE DeleteServer \/ Join \/ DeleteClient
    BY <2>6 DEF DeleteServer, Join, DeleteClient
  <2>7. CASE ProcessThreadExit
    BY <2>7 DEF ProcessThreadExit, uiVars, rpcVars, historyVars
  <2>8. CASE HostRpcThread
    BY <2>8 DEF HostRpcThread, RpcThread, RpcThreadBoot, RpcThreadLoop,
                RpcThreadWait, RpcThreadTimeout, RpcThreadSkip,
                RpcThreadHandle, uiVars, rpcVars, historyVars
  <2>9. CASE ChildMainThread \/ ScriptCall \/ ChildQuit
    BY <2>9 DEF ChildMainThread, ChildMain, ChildInitialize, ScriptWrite,
                ScriptTimeout, ScriptReturns, ChildFinish, ChildDestroy,
                ScriptCall, ChildQuit, uiVars, rpcVars, historyVars
  <2>10. CASE ChildRpcThread
    BY <2>10 DEF ChildRpcThread, ChildRpc, ChildRpcBoot, ChildRpcLoop,
                 ChildRpcWait, ChildRpcTimeout, ChildRpcSkip, ChildRpcHandle,
                 historyVars
  <2>11. CASE ChildDie
    BY <2>11 DEF ChildDie, uiVars, historyVars
  <2>12. CASE UNCHANGED vars
    BY <2>12 DEF vars, uiVars, rpcVars, historyVars
  <2>13. QED
    BY <2>1, <2>2, <2>3, <2>4, <2>5, <2>6, <2>7, <2>8, <2>9, <2>10, <2>11,
       <2>12 DEF Next, UIThread
<1>3. ReplyInv => OnlyEarlyCloseAborts
  BY DEF ReplyInv
<1>4. QED
  BY <1>1, <1>2, <1>3, SessionTypeCorrect, PTL DEF Spec

-----------------------------------------------------------------------------
(* UIParameters: types.                                                    *)

LEMMA ForwardInitTypes == ForwardInit => ForwardTypeOK
  <1>. SUFFICES ASSUME ForwardInit PROVE ForwardTypeOK
    OBVIOUS
  <1>1. exit_poller \in BOOLEAN
    BY Zenon DEF ForwardInit
  <1>2. 0 \in Values
    BY UIParametersAssumption
  <1>3. <<0>> \in Seq(Values) /\ <<>> \in Seq(Values)
    BY <1>2
  <1>4. count = 0 /\ main_index = 0 /\ index = 0
    BY DEF ForwardInit
  <1>5. /\ count \in Counts \cup {0}
        /\ main_index \in 0..count /\ index \in 0..count /\ Indices = {}
    BY <1>4 DEF Indices
  <1>6. parameters \in [Indices -> Values] /\ signals \subseteq Indices
    BY <1>5 DEF ForwardInit
  <1>. QED BY <1>1, <1>2, <1>3, <1>4, <1>5, <1>6 DEF ForwardInit, ForwardTypeOK

(* A parameter has a slot if its index is below the number of slots.       *)
LEMMA IndexTypes ==
  ASSUME ForwardTypeOK
  PROVE  /\ count \in Nat /\ MAX_PARAMS \in Nat
         /\ \A i \in Indices : i \in Nat /\ (i < MAX_PARAMS <=> i \in Slots)
  BY UIParametersAssumption DEF ForwardTypeOK, Indices, Slots

(* Every read gives a value, that of the slot if there is one.             *)
LEMMA ForwardReadTypes ==
  ASSUME ForwardTypeOK, NEW i \in Indices
  PROVE  /\ ReadParameterValue(i) \in Values
         /\ i \in Slots => ReadParameterValue(i) = region[i]
  <1>1. region \in [Slots -> Values] /\ 0 \in Values
    BY UIParametersAssumption DEF ForwardTypeOK
  <1>. QED BY <1>1, IndexTypes DEF ReadParameterValue

LEMMA ForwardWriteTypes ==
  ASSUME ForwardTypeOK, NEW i \in Indices, NEW v \in Values,
         WriteParameterValue(i, v)
  PROVE  /\ region' \in [Slots -> Values]
         /\ history' \in [Slots -> Seq(Values)]
  <1>1. /\ history \in [Slots -> Seq(Values)]
        /\ region \in [Slots -> Values]
    BY DEF ForwardTypeOK
  <1>2. CASE i < MAX_PARAMS
    <2>1. i \in Slots
      BY <1>2, IndexTypes
    <2>2. Append(history[i], v) \in Seq(Values)
      BY <1>1, <2>1
    <2> QED BY <1>1, <1>2, <2>1, <2>2 DEF WriteParameterValue
  <1>3. CASE ~(i < MAX_PARAMS)
    BY <1>1, <1>3 DEF WriteParameterValue
  <1>. QED BY <1>2, <1>3

LEMMA ForwardStepTypes ==
  ASSUME ForwardTypeOK, [ForwardNext]_forwardVars
  PROVE  ForwardTypeOK'
  <1>a. ShutDown => exit_poller' \in BOOLEAN
    BY Zenon DEF ShutDown
  <1>. USE UIParametersAssumption
       DEF ForwardTypeOK, regionVars, mainVars, pollerVars
  <1>1. ASSUME NEW size \in Counts, Initialize(size)
        PROVE  ForwardTypeOK'
    <2>1. size \in Nat /\ count' = size /\ count = 0
      BY <1>1 DEF Initialize
    <2>2. Indices' = 0..(size - 1) /\ Indices = {}
      BY <2>1 DEF Indices
    <2>3. /\ main_index' \in 0..count' /\ index' \in 0..count'
          /\ poller \notin {"comparing", "overrun"}
      BY <1>1, <2>1, <2>2 DEF Initialize
    <2>4. parameters' \in [Indices' -> Values] /\ signals' \subseteq Indices'
      BY <1>1, <2>2 DEF Initialize
    <2> QED BY <1>1, <2>1, <2>3, <2>4 DEF Initialize
  <1>2. CASE InitializeParameter
    <2>1. main_index \in Indices /\ main_index' \in 0..count
      BY <1>2, IndexTypes DEF InitializeParameter, Indices
    <2>2. WriteParameterValue(main_index, Default)
      BY <1>2 DEF InitializeParameter
    <2>3. /\ region' \in [Slots -> Values]
          /\ history' \in [Slots -> Seq(Values)]
      BY <2>1, <2>2, ForwardWriteTypes
    <2>4. parameters' \in [Indices -> Values]
      BY <1>2, <2>1 DEF InitializeParameter
    <2> QED BY <1>2, <2>1, <2>3, <2>4 DEF InitializeParameter, Indices
  <1>3. CASE Start
    BY <1>3 DEF Start, Indices
  <1>4. ASSUME NEW i \in Indices, NEW v \in Values, SetParameterValue(i, v)
        PROVE  ForwardTypeOK'
    <2>1. WriteParameterValue(i, v)
      BY <1>4 DEF SetParameterValue
    <2>2. /\ region' \in [Slots -> Values]
          /\ history' \in [Slots -> Seq(Values)]
      BY <2>1, ForwardWriteTypes
    <2>3. parameters' \in [Indices -> Values]
      BY <1>4 DEF SetParameterValue
    <2> QED BY <1>4, <2>2, <2>3 DEF SetParameterValue, Indices
  <1>5. CASE Process
    <2>1. parameters' \in [Indices -> Values]
      BY <1>5, ForwardReadTypes DEF Process
    <2>2. signals' \subseteq Indices
      BY <1>5 DEF Process
    <2> QED BY <1>5, <2>1, <2>2 DEF Process, Indices
  <1>6. CASE PollStart
    BY <1>6, IndexTypes DEF PollStart, Indices
  <1>7. CASE PollRead
    <2>1. index \in Indices /\ UNCHANGED <<count, index>>
      BY <1>7, IndexTypes DEF PollRead, Indices
    <2>2. value' \in Values
      BY <1>7, <2>1, ForwardReadTypes DEF PollRead
    <2> QED BY <1>7, <2>1, <2>2 DEF PollRead, Indices
  <1>8. CASE PollCompare
    <2>1. /\ index \in Indices /\ index \in Slots /\ poller' = "polling"
          /\ index' \in 0..count
      BY <1>8, IndexTypes DEF PollCompare, Indices
    <2>2. Append(forwarded[index], value) \in Seq(Values)
      BY <2>1
    <2>3. /\ host_parameters' \in [Slots -> Values]
          /\ forwarded' \in [Slots -> Seq(Values)]
      BY <1>8, <2>1, <2>2 DEF PollCompare
    <2> QED BY <1>8, <2>1, <2>3 DEF PollCompare, Indices
  <1>9. CASE PollOverrun
    BY <1>9 DEF PollOverrun, Indices
  <1>10. CASE PollEnd \/ PollExit
    BY <1>10 DEF PollEnd, PollExit, Indices
  <1>11. CASE ShutDown
    BY <1>11, <1>a DEF ShutDown, Indices
  <1>12. CASE UNCHANGED forwardVars
    BY <1>12 DEF forwardVars, Indices
  <1>. QED
    BY <1>1, <1>2, <1>3, <1>4, <1>5, <1>6, <1>7, <1>8, <1>9, <1>10, <1>11,
       <1>12 DEF ForwardNext, MainThread, Poller

(* Every variable keeps its type, for any number of parameters, more than  *)
(* the region holds included.                                              *)
THEOREM ForwardTypeCorrect == ForwardSpec => []ForwardTypeOK
  <1>1. ForwardTypeOK /\ [ForwardNext]_forwardVars => ForwardTypeOK'
    BY ForwardStepTypes
  <1>. QED BY ForwardInitTypes, <1>1, PTL DEF ForwardSpec

(* The thread of the host stays in its array, whatever it reads and        *)
(* whenever the number of parameters becomes known, if the script has no   *)
(* more parameters than that array.                                        *)
THEOREM ForwardStaysInArray == ForwardSpec => []OnlyTooManyOverrun
  <1>1. ForwardTypeOK => OnlyTooManyOverrun
    BY IndexTypes DEF ForwardTypeOK, OnlyTooManyOverrun, Indices
  <1>. QED BY ForwardTypeCorrect, <1>1, PTL

-----------------------------------------------------------------------------
(* UIParameters: the order in which the host is told.                      *)

(* The values told are values held, at rising positions.                   *)
Embeds(told, held, position) ==
    /\ position \in [1..Len(told) -> 1..Len(held)]
    /\ \A n \in 1..Len(told) : told[n] = held[position[n]]
    /\ \A m, n \in 1..Len(told) : m < n => position[m] < position[n]

LEMMA EmbedsInMore ==
  ASSUME NEW told \in Seq(Values), NEW held \in Seq(Values), NEW v \in Values,
         NEW position, Embeds(told, held, position)
  PROVE  Embeds(told, Append(held, v), position)
  <1>1. /\ Len(Append(held, v)) = Len(held) + 1 /\ Len(held) \in Nat
        /\ \A n \in 1..Len(held) : Append(held, v)[n] = held[n]
    BY AppendProperties
  <1>. QED BY <1>1 DEF Embeds

(* A value that is held no earlier than the last that was told, and that   *)
(* is another one, may be told next.                                       *)
LEMMA EmbedsNext ==
  ASSUME NEW told \in Seq(Values), NEW held \in Seq(Values), NEW position,
         Embeds(told, held, position),
         NEW p \in 1..Len(held), held[p] \in Values,
         \A n \in 1..Len(told) : position[n] <= p,
         told # <<>> => told[Len(told)] # held[p]
  PROVE  \E next : Embeds(Append(told, held[p]), held, next)
  <1>. DEFINE new == Append(told, held[p])
              next == [n \in 1..Len(told) + 1 |->
                          IF n = Len(told) + 1 THEN p ELSE position[n]]
  <1>1. /\ Len(new) = Len(told) + 1 /\ Len(told) \in Nat /\ Len(held) \in Nat
        /\ new[Len(told) + 1] = held[p]
        /\ \A n \in 1..Len(told) : new[n] = told[n]
    BY AppendProperties
  <1>2. \A n \in 1..Len(told) : position[n] \in 1..Len(held)
    BY DEF Embeds
  <1>3. \A n \in 1..Len(told) : position[n] < p
    <2>. SUFFICES ASSUME NEW n \in 1..Len(told) PROVE position[n] < p
      OBVIOUS
    <2>1. Len(told) \in 1..Len(told) /\ told # <<>>
      BY <1>1
    <2>2. position[Len(told)] # p
      BY <2>1 DEF Embeds
    <2>3. position[Len(told)] < p
      BY <1>2, <2>1, <2>2
    <2>4. n < Len(told) => position[n] < position[Len(told)]
      BY <2>1 DEF Embeds
    <2>. QED BY <1>1, <1>2, <2>1, <2>3, <2>4
  <1>4. /\ next \in [1..Len(new) -> 1..Len(held)]
        /\ next[Len(told) + 1] = p
        /\ \A n \in 1..Len(told) : next[n] = position[n]
    BY <1>1, <1>2
  <1>. HIDE DEF next, new
  <1>5. \A n \in 1..Len(new) : n \in 1..Len(told) \/ n = Len(told) + 1
    BY <1>1
  <1>6. \A n \in 1..Len(new) : new[n] = held[next[n]]
    BY <1>1, <1>4, <1>5 DEF Embeds
  <1>7. ASSUME NEW m \in 1..Len(new), NEW n \in 1..Len(new), m < n
        PROVE  next[m] < next[n]
    <2>1. m \in 1..Len(told)
      BY <1>1, <1>7
    <2>2. CASE n = Len(told) + 1
      BY <1>3, <1>4, <2>1, <2>2
    <2>3. CASE n \in 1..Len(told)
      BY <1>4, <1>7, <2>1, <2>3 DEF Embeds
    <2> QED BY <1>5, <2>2, <2>3
  <1>8. Embeds(new, held, next)
    BY <1>4, <1>6, <1>7 DEF Embeds
  <1>. QED BY <1>8 DEF new

(* The copy of the host is what it was told last; what the poller has read *)
(* was held no earlier than that.                                          *)
TellsInOrder(i) ==
    \E position :
        /\ Embeds(forwarded[i], history[i], position)
        /\ poller = "comparing" /\ index = i =>
              \E p \in 1..Len(history[i]) :
                  /\ value = history[i][p]
                  /\ \A n \in 1..Len(forwarded[i]) : position[n] <= p

ForwardInv ==
    \A i \in Slots :
        /\ history[i] # <<>> /\ history[i][Len(history[i])] = region[i]
        /\ forwarded[i] # <<>> =>
              host_parameters[i] = forwarded[i][Len(forwarded[i])]
        /\ TellsInOrder(i)

LEMMA InitForward == ForwardInit => ForwardInv
  <1>. SUFFICES ASSUME ForwardInit, NEW i \in Slots
                PROVE  /\ history[i] # <<>>
                       /\ history[i][Len(history[i])] = region[i]
                       /\ forwarded[i] = <<>> /\ TellsInOrder(i)
    BY DEF ForwardInv
  <1>1. /\ history[i] = <<0>> /\ region[i] = 0 /\ forwarded[i] = <<>>
        /\ poller = "sleeping"
    BY DEF ForwardInit
  <1>2. Embeds(<<>>, <<0>>, [n \in 1..0 |-> 1])
    BY DEF Embeds
  <1>. QED BY <1>1, <1>2 DEF TellsInOrder

(* A write of the region, by anyone, is the latest value held.             *)
LEMMA WriteForward ==
  ASSUME ForwardTypeOK, ForwardInv, NEW i \in Slots, NEW v \in Values,
         WriteParameterValue(i, v), UNCHANGED pollerVars
  PROVE  ForwardInv'
  <1>1. /\ history \in [Slots -> Seq(Values)]
        /\ region \in [Slots -> Values]
        /\ forwarded \in [Slots -> Seq(Values)]
        /\ i < MAX_PARAMS
    BY UIParametersAssumption DEF ForwardTypeOK, Slots
  <1>2. /\ history'[i] = Append(history[i], v) /\ region'[i] = v
        /\ \A j \in Slots : j # i =>
              history'[j] = history[j] /\ region'[j] = region[j]
    BY <1>1 DEF WriteParameterValue
  <1>3. /\ UNCHANGED <<forwarded, host_parameters, poller, index, value>>
        /\ history[i] \in Seq(Values) /\ forwarded[i] \in Seq(Values)
    BY <1>1 DEF pollerVars
  <1>4. /\ Len(history'[i]) = Len(history[i]) + 1 /\ Len(history[i]) \in Nat
        /\ history'[i][Len(history'[i])] = v
        /\ \A n \in 1..Len(history[i]) : history'[i][n] = history[i][n]
    BY <1>2, <1>3, AppendProperties
  <1>5. history'[i] # <<>> /\ history'[i][Len(history'[i])] = region'[i]
    BY <1>2, <1>4
  <1>6. TellsInOrder(i)'
    <2>1. PICK position :
            /\ Embeds(forwarded[i], history[i], position)
            /\ poller = "comparing" /\ index = i =>
                  \E p \in 1..Len(history[i]) :
                      /\ value = history[i][p]
                      /\ \A n \in 1..Len(forwarded[i]) : position[n] <= p
      BY DEF ForwardInv, TellsInOrder
    <2>2. Embeds(forwarded'[i], history'[i], position)
      BY <1>2, <1>3, <2>1, EmbedsInMore
    <2>3. 1..Len(history[i]) \subseteq 1..Len(history'[i])
      BY <1>4
    <2>4. poller' = "comparing" /\ index' = i =>
             \E p \in 1..Len(history'[i]) :
                 /\ value' = history'[i][p]
                 /\ \A n \in 1..Len(forwarded'[i]) : position[n] <= p
      BY <1>3, <1>4, <2>1, <2>3
    <2> QED BY <2>2, <2>4 DEF TellsInOrder
  <1>7. ASSUME NEW j \in Slots, j # i PROVE TellsInOrder(j)'
    BY <1>2, <1>3, <1>7 DEF ForwardInv, TellsInOrder
  <1>. QED BY <1>2, <1>3, <1>5, <1>6, <1>7 DEF ForwardInv

LEMMA StepForward ==
  ASSUME ForwardTypeOK, ForwardInv, [ForwardNext]_forwardVars
  PROVE  ForwardInv'
  <1>1. /\ history \in [Slots -> Seq(Values)]
        /\ forwarded \in [Slots -> Seq(Values)]
        /\ host_parameters \in [Slots -> Values]
        /\ region \in [Slots -> Values]
        /\ main_index \in 0..count /\ index \in 0..count /\ count \in Nat
        /\ value \in Values /\ Default \in Values
        /\ poller = "comparing" => index \in Indices
    BY UIParametersAssumption, IndexTypes DEF ForwardTypeOK
  <1>. USE DEF regionVars, mainVars, pollerVars
  <1>2. ASSUME UNCHANGED <<region, history, forwarded, host_parameters>>,
               \/ poller' # "comparing"
               \/ UNCHANGED <<poller, index, value>>
        PROVE  ForwardInv'
    BY <1>2 DEF ForwardInv, TellsInOrder
  <1>3. CASE (\E size \in Counts : Initialize(size)) \/ Start \/ Process
    BY <1>2, <1>3 DEF Initialize, Start, Process
  <1>a. ASSUME NEW i \in Indices, NEW v \in Values,
               WriteParameterValue(i, v), UNCHANGED pollerVars
        PROVE  ForwardInv'
    <2>1. CASE i \in Slots
      BY <1>a, <2>1, WriteForward
    <2>2. CASE i \notin Slots
      <3>1. UNCHANGED <<region, history>>
        BY <1>a, <2>2, IndexTypes DEF WriteParameterValue
      <3> QED BY <1>2, <1>a, <3>1
    <2> QED BY <2>1, <2>2
  <1>4. CASE InitializeParameter
    <2>1. main_index \in Indices
      BY <1>1, <1>4 DEF InitializeParameter, Indices
    <2> QED BY <1>1, <1>4, <1>a, <2>1 DEF InitializeParameter
  <1>5. ASSUME NEW i \in Indices, NEW v \in Values, SetParameterValue(i, v)
        PROVE  ForwardInv'
    BY <1>5, <1>a DEF SetParameterValue
  <1>6. CASE PollStart \/ PollOverrun \/ PollEnd \/ PollExit
    BY <1>2, <1>6 DEF PollStart, PollOverrun, PollEnd, PollExit
  <1>7. CASE PollRead
    <2>1. /\ index \in Slots => value' = region[index]
          /\ UNCHANGED index /\ poller = "polling"
          /\ UNCHANGED <<region, history, forwarded, host_parameters>>
      <3>1. index \in Indices
        BY <1>1, <1>7 DEF PollRead, Indices
      <3> QED BY <1>7, <3>1, ForwardReadTypes DEF PollRead
    <2>2. ASSUME NEW i \in Slots, i # index PROVE TellsInOrder(i)'
      BY <2>1, <2>2 DEF ForwardInv, TellsInOrder
    <2>3. ASSUME NEW i \in Slots, i = index PROVE TellsInOrder(i)'
      <3>1. PICK position : Embeds(forwarded[i], history[i], position)
        BY DEF ForwardInv, TellsInOrder
      <3>2. PICK p \in 1..Len(history[i]) : p = Len(history[i])
        <4>1. Len(history[i]) \in Nat \ {0}
          BY <1>1 DEF ForwardInv
        <4> QED BY <4>1
      <3>3. value' = history[i][p]
        BY <2>1, <2>3, <3>2 DEF ForwardInv
      <3>4. \A n \in 1..Len(forwarded[i]) : position[n] <= p
        BY <3>1, <3>2 DEF Embeds
      <3> QED BY <2>1, <3>1, <3>3, <3>4 DEF TellsInOrder
    <2> QED BY <2>1, <2>2, <2>3 DEF ForwardInv
  <1>8. CASE PollCompare
    <2>1. CASE UNCHANGED <<host_parameters, forwarded>>
      BY <1>2, <1>8, <2>1 DEF PollCompare
    <2>2. ASSUME host_parameters[index] # value,
                 host_parameters' = [host_parameters EXCEPT ![index] = value],
                 forwarded' = [forwarded EXCEPT ![index] =
                                   Append(forwarded[index], value)]
          PROVE  ForwardInv'
      <3>1. /\ index \in Slots /\ poller = "comparing" /\ poller' = "polling"
            /\ UNCHANGED <<region, history>>
        BY <1>1, <1>8, IndexTypes DEF PollCompare
      <3>2. ASSUME NEW i \in Slots, i # index
            PROVE  TellsInOrder(i)' /\ UNCHANGED <<forwarded[i], host_parameters[i]>>
        BY <1>1, <2>2, <3>1, <3>2 DEF ForwardInv, TellsInOrder
      <3>3. ASSUME NEW i \in Slots, i = index
            PROVE  /\ TellsInOrder(i)'
                   /\ host_parameters'[i] = forwarded'[i][Len(forwarded'[i])]
        <4>1. /\ forwarded'[i] = Append(forwarded[i], value)
              /\ host_parameters'[i] = value
              /\ forwarded[i] \in Seq(Values) /\ history[i] \in Seq(Values)
          BY <1>1, <2>2, <3>1, <3>3
        <4>2. forwarded'[i][Len(forwarded'[i])] = value
          <5>1. /\ Len(Append(forwarded[i], value)) = Len(forwarded[i]) + 1
                /\ Append(forwarded[i], value)[Len(forwarded[i]) + 1] = value
            BY <1>1, <4>1, AppendProperties
          <5> QED BY <4>1, <5>1
        <4>3. PICK position :
                /\ Embeds(forwarded[i], history[i], position)
                /\ \E p \in 1..Len(history[i]) :
                       /\ value = history[i][p]
                       /\ \A n \in 1..Len(forwarded[i]) : position[n] <= p
          BY <3>1, <3>3 DEF ForwardInv, TellsInOrder
        <4>4. PICK p \in 1..Len(history[i]) :
                /\ value = history[i][p]
                /\ \A n \in 1..Len(forwarded[i]) : position[n] <= p
          BY <4>3
        <4>5. forwarded[i] # <<>> => forwarded[i][Len(forwarded[i])] # history[i][p]
          BY <2>2, <3>3, <4>4 DEF ForwardInv
        <4>6. \E next : Embeds(Append(forwarded[i], history[i][p]), history[i], next)
          BY <1>1, <4>1, <4>3, <4>4, <4>5, EmbedsNext
        <4>7. \E next : Embeds(forwarded'[i], history'[i], next)
          BY <3>1, <4>1, <4>4, <4>6
        <4> QED BY <3>1, <4>1, <4>2, <4>7 DEF TellsInOrder
      <3> QED BY <3>1, <3>2, <3>3 DEF ForwardInv
    <2> QED BY <1>8, <2>1, <2>2 DEF PollCompare
  <1>9. CASE ShutDown
    BY <1>2, <1>9 DEF ShutDown
  <1>10. CASE UNCHANGED forwardVars
    BY <1>2, <1>10 DEF forwardVars
  <1>. QED
    BY <1>3, <1>4, <1>5, <1>6, <1>7, <1>8, <1>9, <1>10
       DEF ForwardNext, MainThread, Poller

(* Whatever scripts write while the host polls, and whatever the array     *)
(* nobody initializes holds, the host is told values the UI process wrote, *)
(* each once and in their order.                                           *)
THEOREM ForwardsInOrder == ForwardSpec => []ForwardedInOrder
  <1>1. ForwardTypeOK /\ ForwardInv /\ [ForwardNext]_forwardVars =>
            (ForwardTypeOK /\ ForwardInv)'
    BY ForwardStepTypes, StepForward
  <1>2. ForwardInv => ForwardedInOrder
    BY DEF ForwardInv, TellsInOrder, Embeds, ForwardedInOrder
  <1>. QED
    BY ForwardInitTypes, InitForward, <1>1, <1>2, PTL DEF ForwardSpec

-----------------------------------------------------------------------------
(* UIParameters: what scripts in the UI process are told.                  *)

(* The copy of process() is the region, where that has a slot, at every    *)
(* step: both are written together, and nobody else writes the region.     *)
CopyIsRegion ==
    /\ \A i \in Indices \cap Slots : parameters[i] = region[i]
    /\ \A i \in Slots : main = "booting" => region[i] = 0
    /\ ProcessIsSilent

LEMMA StepCopies ==
  ASSUME ForwardTypeOK, CopyIsRegion, [ForwardNext]_forwardVars
  PROVE  CopyIsRegion'
  <1>1. /\ parameters \in [Indices -> Values] /\ region \in [Slots -> Values]
        /\ main_index \in 0..count
    BY DEF ForwardTypeOK
  <1>. USE DEF CopyIsRegion, ProcessIsSilent, regionVars, mainVars
  <1>2. ASSUME NEW size \in Counts, Initialize(size)
        PROVE  CopyIsRegion'
    <2>1. \A i \in Indices' : parameters'[i] = 0
      BY <1>2 DEF Initialize, Indices
    <2> QED BY <1>2, <2>1 DEF Initialize
  <1>3. ASSUME NEW i \in Indices, NEW v \in Values, WriteParameterValue(i, v),
               parameters' = [parameters EXCEPT ![i] = v],
               UNCHANGED <<count, signals>>, main' # "booting"
        PROVE  CopyIsRegion'
    <2>1. UNCHANGED Indices
      BY <1>3 DEF Indices
    <2>2. i < MAX_PARAMS <=> i \in Slots
      BY IndexTypes
    <2>3. \A j \in Indices \cap Slots : parameters'[j] = region'[j]
      BY <1>1, <1>3, <2>2 DEF WriteParameterValue
    <2> QED BY <1>3, <2>1, <2>3
  <1>4. CASE InitializeParameter
    <2>1. main_index \in Indices
      BY <1>1, <1>4, IndexTypes DEF InitializeParameter, Indices
    <2>2. Default \in Values
      BY UIParametersAssumption
    <2> QED BY <1>3, <1>4, <2>1, <2>2 DEF InitializeParameter
  <1>5. ASSUME NEW i \in Indices, NEW v \in Values, SetParameterValue(i, v)
        PROVE  CopyIsRegion'
    BY <1>3, <1>5 DEF SetParameterValue
  <1>6. CASE Process
    <2>1. UNCHANGED <<Indices, region, main>> /\ main # "booting"
      BY <1>6 DEF Process, Indices
    <2>2. \A i \in Indices : parameters'[i] = ReadParameterValue(i)
      BY <1>6 DEF Process
    <2>3. \A i \in Indices \cap Slots : parameters'[i] = region[i]
      BY <2>2, ForwardReadTypes
    <2>4. ASSUME NEW i \in signals' PROVE i >= MAX_PARAMS
      <3>1. \/ i \in signals
            \/ i \in Indices /\ parameters'[i] # parameters[i]
        <4>1. signals' = signals \cup
                 {j \in Indices : parameters'[j] # parameters[j]}
          BY <1>6 DEF Process
        <4> QED BY <2>4, <4>1
      <3>2. i \in Indices /\ i \notin Slots => i >= MAX_PARAMS
        BY IndexTypes
      <3> QED BY <2>3, <3>1, <3>2
    <2> QED BY <2>1, <2>3, <2>4
  <1>7. CASE Poller \/ Start \/ ShutDown \/ UNCHANGED forwardVars
    BY <1>7 DEF Poller, PollStart, PollRead, PollCompare, PollOverrun, PollEnd,
                PollExit, Start, ShutDown, forwardVars, Indices
  <1>. QED
    BY <1>2, <1>4, <1>5, <1>6, <1>7 DEF ForwardNext, MainThread

(* parameter_changed never fires in the UI process, whatever is written,   *)
(* but for a parameter the region does not hold.                           *)
THEOREM ForwardStaysSilent == ForwardSpec => []ProcessIsSilent
  <1>1. ForwardInit => CopyIsRegion
    BY DEF ForwardInit, CopyIsRegion, ProcessIsSilent, Indices
  <1>2. ForwardTypeOK /\ CopyIsRegion /\ [ForwardNext]_forwardVars =>
            (ForwardTypeOK /\ CopyIsRegion)'
    BY ForwardStepTypes, StepCopies
  <1>3. CopyIsRegion => ProcessIsSilent
    BY DEF CopyIsRegion
  <1>. QED
    BY ForwardInitTypes, <1>1, <1>2, <1>3, PTL DEF ForwardSpec

=============================================================================
