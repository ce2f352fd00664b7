----------------------------- MODULE ValueProofs -----------------------------
(***************************************************************************)
(* Proofs about the values the two processes tell each other, for any      *)
(* numbers of them: StatePush, the states a script sets, and               *)
(* ParameterSync, the parameters.                                          *)
(***************************************************************************)
EXTENDS ParameterSync, StatePush, SequenceTheorems, TLAPS

-----------------------------------------------------------------------------
(* StatePush.                                                              *)

(* A call is made for the first update of the batch, which stays there     *)
(* until the call returns.                                                 *)
BatchInv ==
    /\ client_pc \in {"locking", "waiting", "woken", "expired"} => states # <<>>
    /\ client_pc = "sleeping" => states = <<>>

-----------------------------------------------------------------------------
(* Types and the batch, in every step of either process.                   *)

LEMMA PushHead ==
  ASSUME NEW s \in Seq(Update), s # <<>>
  PROVE  /\ Head(s).number \in Nat \ {0} /\ Head(s).fits \in BOOLEAN
         /\ Tail(s) \in Seq(Update)
  <1>1. Head(s) \in Update /\ Tail(s) \in Seq(Update)
    BY HeadTailProperties
  <1>. QED BY <1>1 DEF Update

LEMMA PushNumbers ==
  ASSUME NEW s \in Seq(Update), NEW i \in 1..Len(s)
  PROVE  s[i].number \in Nat \ {0}
  <1>1. s[i] \in Update
    BY ElementOfSeq
  <1>. QED BY <1>1 DEF Update

LEMMA PushHandleTypes ==
  ASSUME delivered \in Seq(Nat), request \in Nat, ServerHandle
  PROVE  pending' \in BOOLEAN /\ delivered' \in Seq(Nat)
  <1>1. pending' \in BOOLEAN
    BY Zenon DEF ServerHandle
  <1>2. delivered' = delivered \/ delivered' = Append(delivered, request)
    BY Zenon DEF ServerHandle
  <1>3. Append(delivered, request) \in Seq(Nat)
    OBVIOUS
  <1>. QED BY <1>1, <1>2, <1>3, Zenon

LEMMA PushStepTypes ==
  ASSUME PushTypeOK, BatchInv, [PushNext]_pushVars
  PROVE  PushTypeOK' /\ BatchInv'
  <1>a. WriteRequest /\ pending \in BOOLEAN => pending' \in BOOLEAN /\ empty' \in BOOLEAN
    BY Zenon DEF WriteRequest
  <1>. USE DEF PushTypeOK, BatchInv, Nobody, Client, Server,
               ClientStates, ServerStates, bufferVars,
               clientVars, serverVars, Notified
  <1>1. CASE UpdateStateValue
    <2>1. PICK fits \in BOOLEAN :
            state_queue' = Append(state_queue, [number |-> updates + 1, fits |-> fits])
      BY <1>1 DEF UpdateStateValue
    <2>2. [number |-> updates + 1, fits |-> fits] \in Update
      BY DEF Update
    <2>3. state_queue' \in Seq(Update)
      BY <2>1, <2>2
    <2> QED BY <1>1, <2>3 DEF UpdateStateValue
  <1>2. CASE TakeBatch
    BY <1>2 DEF TakeBatch
  <1>3. CASE ClientExit \/ ClientTimeout
    BY <1>3 DEF ClientExit, ClientTimeout
  <1>4. CASE RequestExit
    BY <1>4 DEF RequestExit
  <1>5. CASE CallNext
    <2>1. states # <<>> => Head(states).number \in Nat /\ Tail(states) \in Seq(Update)
      BY PushHead
    <2>2. failed' \subseteq Nat /\ states' \in Seq(Update)
      BY <1>5, <2>1 DEF CallNext
    <2>3. client_pc' \in ClientStates /\ BatchInv'
      BY <1>5 DEF CallNext
    <2> QED BY <1>5, <2>2, <2>3 DEF CallNext
  <1>6. CASE WriteRequest
    <2>1. Head(states).number \in Nat
      BY <1>6, PushHead DEF WriteRequest
    <2>2. pending' \in BOOLEAN /\ empty' \in BOOLEAN
      BY <1>6, <1>a
    <2>3. request' \in Nat
      BY <1>6, <2>1 DEF WriteRequest
    <2> QED BY <1>6, <2>2, <2>3 DEF WriteRequest
  <1>7. CASE CallReturns
    <2>1. Head(states).number \in Nat /\ Tail(states) \in Seq(Update)
      BY <1>7, PushHead DEF CallReturns
    <2>2. failed' \subseteq Nat
      BY <1>7, <2>1 DEF CallReturns
    <2> QED BY <1>7, <2>1, <2>2 DEF CallReturns
  <1>8. CASE ClientDie
    BY <1>8 DEF ClientDie
  <1>9. CASE ClientSpuriousWakeup
    BY <1>9 DEF ClientSpuriousWakeup
  <1>10. CASE ServerBoot \/ ServerLoop \/ ServerWait
    BY <1>10 DEF ServerBoot, ServerLoop, ServerWait
  <1>11. CASE ServerTimeout \/ ServerLeave \/ ServerSkip
    BY <1>11 DEF ServerTimeout, ServerLeave, ServerSkip
  <1>12. CASE ServerHandle
    <2>1. pending' \in BOOLEAN /\ delivered' \in Seq(Nat)
      BY <1>12, PushHandleTypes
    <2>2. client_pc' \in ClientStates /\ BatchInv'
      BY <1>12 DEF ServerHandle
    <2> QED BY <1>12, <2>1, <2>2 DEF ServerHandle
  <1>13. CASE ServerAbort
    BY <1>13 DEF ServerAbort
  <1>14. CASE ServerSpuriousWakeup
    BY <1>14 DEF ServerSpuriousWakeup
  <1>15. CASE ShutDown
    BY <1>15 DEF ShutDown
  <1>16. CASE UNCHANGED pushVars
    BY <1>16 DEF pushVars
  <1>. QED
    BY <1>1, <1>2, <1>3, <1>4, <1>5, <1>6, <1>7, <1>8, <1>9, <1>10, <1>11,
       <1>12, <1>13, <1>14, <1>15, <1>16 DEF PushNext, ClientStep, ServerStep

LEMMA PushInitTypes == PushInit => PushTypeOK /\ BatchInv
  <1>. SUFFICES ASSUME PushInit PROVE PushTypeOK /\ BatchInv
    OBVIOUS
  <1>1. ready \in BOOLEAN /\ pending \in BOOLEAN /\ empty \in BOOLEAN
        /\ exit_thread \in BOOLEAN /\ is_shutting_down \in BOOLEAN
    BY Zenon DEF PushInit
  <1>. QED
    BY <1>1 DEF PushInit, PushTypeOK, BatchInv, Nobody, ClientStates,
                ServerStates

(* Every variable keeps its type, and rpc_call always has an update to send.*)
THEOREM PushTypeCorrect == PushSpec => []PushTypeOK
<1>1. PushInit => PushTypeOK /\ BatchInv
  BY PushInitTypes
<1>2. PushTypeOK /\ BatchInv /\ [PushNext]_pushVars => (PushTypeOK /\ BatchInv)'
  BY PushStepTypes
<1> QED
  BY <1>1, <1>2, PTL DEF PushSpec

-----------------------------------------------------------------------------
(* Every update made is older than those made after it, wherever it is: in *)
(* the queue, in the batch, in the buffer or in the host.                  *)

Ascending(seq) ==
    \A i, j \in 1..Len(seq) : i < j => seq[i].number < seq[j].number

(* The queue is younger than the batch.                                    *)
QueuesInv ==
    /\ Ascending(states)
    /\ Ascending(state_queue)
    /\ \A i \in 1..Len(states), j \in 1..Len(state_queue) :
          states[i].number < state_queue[j].number
    /\ \A i \in 1..Len(states) : states[i].number <= updates
    /\ \A j \in 1..Len(state_queue) : state_queue[j].number <= updates

(* Where the first update of the batch may already be in the buffer.       *)
Written == {"waiting", "woken", "expired", "dead"}

(* What is not written yet is younger than the request in the buffer...    *)
RequestInv ==
    /\ request <= updates
    /\ \A j \in 1..Len(state_queue) : request < state_queue[j].number
    /\ \A i \in 1..Len(states) :
          i > 1 \/ client_pc \notin Written => request < states[i].number

(* ... and what was delivered is older, or it is the request.              *)
HostInv ==
    \A i \in 1..Len(delivered) :
        /\ delivered[i] <= request
        /\ pending => delivered[i] < request

OrderInv ==
    /\ QueuesInv
    /\ RequestInv
    /\ HostInv
    /\ DeliveredInOrder

LEMMA PushInitOrder == PushInit => OrderInv
  BY DEF PushInit, OrderInv, QueuesInv, RequestInv, HostInv, Ascending,
         DeliveredInOrder

LEMMA PushQuietOrder ==
  ASSUME OrderInv,
         UNCHANGED <<pending, request, state_queue, states, updates, delivered>>,
         client_pc' \in Written \/ client_pc \notin Written
  PROVE  OrderInv'
  BY DEF OrderInv, QueuesInv, RequestInv, HostInv, Ascending,
         DeliveredInOrder

LEMMA PushUpdateOrder ==
  ASSUME PushTypeOK, OrderInv, UpdateStateValue
  PROVE  OrderInv'
  <1>1. PICK u \in Update :
          u.number = updates + 1 /\ state_queue' = Append(state_queue, u)
    <2>1. PICK fits \in BOOLEAN :
            state_queue' = Append(state_queue, [number |-> updates + 1, fits |-> fits])
      BY DEF UpdateStateValue
    <2>2. [number |-> updates + 1, fits |-> fits] \in Update
      BY DEF Update, PushTypeOK
    <2> QED BY <2>1, <2>2
  <1>2. state_queue \in Seq(Update) /\ states \in Seq(Update)
        /\ updates \in Nat /\ request \in Nat
    BY DEF PushTypeOK
  <1>3. /\ Len(state_queue') = Len(state_queue) + 1
        /\ state_queue'[Len(state_queue) + 1] = u
        /\ \A i \in 1..Len(state_queue) : state_queue'[i] = state_queue[i]
    BY <1>1, <1>2, AppendProperties
  <1>4. \A i \in 1..Len(state_queue) : state_queue[i].number \in Nat
    BY <1>2, PushNumbers
  <1>5. \A i \in 1..Len(states) : states[i].number \in Nat
    BY <1>2, PushNumbers
  <1>6. /\ updates' = updates + 1
        /\ UNCHANGED <<pending, request, states, client_pc, delivered>>
    BY DEF UpdateStateValue, bufferVars, serverVars
  <1>7. Len(state_queue) \in Nat
    BY <1>2
  <1>8. QueuesInv'
    <2>1. PICK m \in Nat : m = Len(state_queue)
      BY <1>7
    <2>2. ASSUME NEW j \in 1..m
          PROVE  state_queue[j].number < updates + 1
      BY <1>2, <1>4, <2>1 DEF OrderInv, QueuesInv
    <2>3. ASSUME NEW i \in 1..Len(states)
          PROVE  states[i].number < updates + 1
      BY <1>2, <1>5 DEF OrderInv, QueuesInv
    <2>4. Ascending(state_queue')
      BY <1>1, <1>3, <2>1, <2>2 DEF OrderInv, QueuesInv, Ascending
    <2>5. \A i \in 1..Len(states), j \in 1..Len(state_queue') :
             states[i].number < state_queue'[j].number
      BY <1>1, <1>3, <2>1, <2>3 DEF OrderInv, QueuesInv
    <2>6. \A j \in 1..Len(state_queue') : state_queue'[j].number <= updates + 1
      BY <1>1, <1>2, <1>3, <1>4, <2>1, <2>2
    <2>7. \A i \in 1..Len(states) : states[i].number <= updates + 1
      BY <1>2, <1>5, <2>3
    <2> QED
      BY <1>6, <2>4, <2>5, <2>6, <2>7 DEF OrderInv, QueuesInv, Ascending
  <1>9. RequestInv'
    BY <1>1, <1>3, <1>4, <1>6, <1>7, <1>2 DEF OrderInv, RequestInv
  <1>10. HostInv' /\ DeliveredInOrder'
    BY <1>6 DEF OrderInv, HostInv, DeliveredInOrder
  <1>. QED BY <1>8, <1>9, <1>10 DEF OrderInv

LEMMA PushTakeOrder ==
  ASSUME PushTypeOK, BatchInv, OrderInv, TakeBatch
  PROVE  OrderInv'
  BY DEF TakeBatch, bufferVars, serverVars, OrderInv, QueuesInv,
         RequestInv, HostInv, Ascending, DeliveredInOrder, Written,
         PushTypeOK

(* The call for the first update of the batch is over.                     *)
LEMMA PushNextOrder ==
  ASSUME PushTypeOK, OrderInv, states # <<>>, states' = Tail(states),
         UNCHANGED <<pending, request, state_queue, updates, delivered>>
  PROVE  OrderInv'
  <1>1. states \in Seq(Update)
    BY DEF PushTypeOK
  <1>2. /\ Len(states') = Len(states) - 1
        /\ \A i \in 1..Len(states') : states'[i] = states[i + 1]
    BY <1>1, HeadTailProperties
  <1>3. Len(states) \in Nat /\ Len(states') \in Nat
    BY <1>1, <1>2, EmptySeq, HeadTailProperties
  <1>4. \A i \in 1..Len(states') : i + 1 \in 1..Len(states) /\ i + 1 > 1
    BY <1>2, <1>3
  <1>5. QueuesInv'
    BY <1>2, <1>3, <1>4 DEF OrderInv, QueuesInv, Ascending
  <1>6. RequestInv'
    BY <1>2, <1>3, <1>4 DEF OrderInv, RequestInv
  <1>7. HostInv' /\ DeliveredInOrder'
    BY DEF OrderInv, HostInv, DeliveredInOrder
  <1>. QED BY <1>5, <1>6, <1>7 DEF OrderInv

LEMMA PushWriteOrder ==
  ASSUME PushTypeOK, BatchInv, OrderInv, WriteRequest
  PROVE  OrderInv'
  <1>1. states \in Seq(Update) /\ states # <<>>
    BY DEF PushTypeOK, BatchInv, WriteRequest
  <1>2. /\ 1 \in 1..Len(states) /\ Head(states) = states[1]
        /\ \A i \in 1..Len(states) : states[i].number \in Nat
    BY <1>1, PushNumbers
  <1>3. /\ UNCHANGED <<state_queue, states, updates, delivered>>
        /\ client_pc = "locking" /\ client_pc' = "waiting"
        /\ \/ request' = Head(states).number
           \/ UNCHANGED <<pending, request>>
    BY Zenon DEF WriteRequest
  <1>4. request \in Nat /\ delivered \in Seq(Nat)
    BY DEF PushTypeOK
  <1>5. \A i \in 1..Len(delivered) : delivered[i] \in Nat
    BY <1>4, ElementOfSeq
  <1>6. QueuesInv' /\ DeliveredInOrder'
    BY <1>3 DEF OrderInv, QueuesInv, Ascending, DeliveredInOrder
  <1>7. CASE UNCHANGED <<pending, request>>
    BY <1>3, <1>7, PushQuietOrder DEF Written
  <1>8. CASE request' = Head(states).number
    <2>1. request < request' /\ request' <= updates
      BY <1>2, <1>3, <1>8 DEF OrderInv, QueuesInv, RequestInv, Written
    <2>2. RequestInv'
      BY <1>1, <1>2, <1>3, <1>8, <2>1 DEF OrderInv, RequestInv, QueuesInv, Ascending, Written
    <2>3. HostInv'
      BY <1>2, <1>3, <1>4, <1>5, <1>8, <2>1 DEF OrderInv, HostInv
    <2> QED BY <1>6, <2>2, <2>3 DEF OrderInv
  <1>. QED BY <1>3, <1>7, <1>8

LEMMA PushHandleOrder ==
  ASSUME PushTypeOK, OrderInv, ServerHandle
  PROVE  OrderInv'
  <1>1. /\ UNCHANGED <<request, state_queue, states, updates>>
        /\ client_pc' \in Written \/ client_pc' = client_pc
        /\ ~pending'
        /\ \/ pending /\ delivered' = Append(delivered, request)
           \/ UNCHANGED delivered
    BY DEF ServerHandle, Notified, Written
  <1>2. request \in Nat /\ delivered \in Seq(Nat)
    BY DEF PushTypeOK
  <1>3. QueuesInv' /\ RequestInv'
    BY <1>1 DEF OrderInv, QueuesInv, RequestInv, Ascending
  <1>4. CASE UNCHANGED delivered
    BY <1>1, <1>3, <1>4 DEF OrderInv, HostInv, DeliveredInOrder
  <1>5. CASE pending /\ delivered' = Append(delivered, request)
    <2>1. /\ Len(delivered) \in Nat
          /\ Len(delivered') = Len(delivered) + 1
          /\ delivered'[Len(delivered) + 1] = request
          /\ \A i \in 1..Len(delivered) : delivered'[i] = delivered[i]
      BY <1>2, <1>5, AppendProperties
    <2>2. \A i \in 1..Len(delivered) : delivered[i] < request
      BY <1>5 DEF OrderInv, HostInv
    <2>3. HostInv'
      BY <1>1, <1>2, <2>1, <2>2 DEF OrderInv, HostInv
    <2>4. DeliveredInOrder'
      BY <2>1, <2>2 DEF OrderInv, DeliveredInOrder
    <2> QED BY <1>3, <2>3, <2>4 DEF OrderInv
  <1>. QED BY <1>1, <1>4, <1>5

LEMMA PushStepOrder ==
  ASSUME PushTypeOK, BatchInv, OrderInv, [PushNext]_pushVars
  PROVE  OrderInv'
  <1>. USE DEF bufferVars, clientVars, serverVars, Written
  <1>1. CASE UpdateStateValue
    BY <1>1, PushUpdateOrder
  <1>2. CASE TakeBatch
    BY <1>2, PushTakeOrder
  <1>3. CASE ClientExit \/ ClientTimeout \/ RequestExit
    BY <1>3, PushQuietOrder DEF ClientExit, ClientTimeout, RequestExit
  <1>4. CASE CallNext
    BY <1>4, PushQuietOrder, PushNextOrder DEF CallNext
  <1>5. CASE WriteRequest
    BY <1>5, PushWriteOrder
  <1>6. CASE CallReturns
    BY <1>6, PushNextOrder DEF CallReturns, BatchInv
  <1>7. CASE ClientDie \/ ClientSpuriousWakeup
    BY <1>7, PushQuietOrder DEF ClientDie, ClientSpuriousWakeup
  <1>8. CASE ServerBoot \/ ServerLoop \/ ServerWait
    BY <1>8, PushQuietOrder DEF ServerBoot, ServerLoop, ServerWait
  <1>9. CASE ServerTimeout \/ ServerLeave \/ ServerSkip
    BY <1>9, PushQuietOrder DEF ServerTimeout, ServerLeave, ServerSkip
  <1>10. CASE ServerHandle
    BY <1>10, PushHandleOrder
  <1>11. CASE ServerAbort \/ ServerSpuriousWakeup \/ ShutDown
    BY <1>11, PushQuietOrder
       DEF ServerAbort, ServerSpuriousWakeup, ShutDown
  <1>12. CASE UNCHANGED pushVars
    BY <1>12, PushQuietOrder DEF pushVars
  <1>. QED
    BY <1>1, <1>2, <1>3, <1>4, <1>5, <1>6, <1>7, <1>8, <1>9, <1>10, <1>11,
       <1>12 DEF PushNext, ClientStep, ServerStep

(* The host is given updates in the order in which they were made, and none *)
(* twice, whatever times out, is lost or dies.                             *)
THEOREM PushDeliveredInOrder == PushSpec => []DeliveredInOrder
<1>1. PushInit => PushTypeOK /\ BatchInv /\ OrderInv
  BY PushInitTypes, PushInitOrder
<1>2. PushTypeOK /\ BatchInv /\ OrderInv /\ [PushNext]_pushVars
        => (PushTypeOK /\ BatchInv /\ OrderInv)'
  BY PushStepTypes, PushStepOrder
<1>3. OrderInv => DeliveredInOrder
  BY DEF OrderInv
<1> QED
  BY <1>1, <1>2, <1>3, PTL DEF PushSpec

-----------------------------------------------------------------------------
(* No update is lost unless its call failed.                               *)

(* The call waits on the request that is in the buffer, if there is one;   *)
(* the notify that ends it says that it was delivered.                     *)
AnswerInv ==
    /\ client_pc = "waiting" /\ ~empty => request = Head(states).number
    /\ spurious = 0 /\ client_pc = "woken" =>
          Head(states).number \in ToSet(delivered)

(* Where an update may be.                                                 *)
Known == Numbers(state_queue) \cup Numbers(states)
            \cup ToSet(delivered) \cup failed

KeepsAll == spurious = 0 => 1..updates \subseteq Known

LEMMA NumbersAppend ==
  ASSUME NEW s \in Seq(Update), NEW u \in Update
  PROVE  Numbers(Append(s, u)) = Numbers(s) \cup {u.number}
  <1>1. /\ Len(Append(s, u)) = Len(s) + 1 /\ Len(s) \in Nat
        /\ Append(s, u)[Len(s) + 1] = u
        /\ \A i \in 1..Len(s) : Append(s, u)[i] = s[i]
    BY AppendProperties
  <1>. QED BY <1>1 DEF Numbers

LEMMA NumbersTail ==
  ASSUME NEW s \in Seq(Update), s # <<>>
  PROVE  Numbers(s) = Numbers(Tail(s)) \cup {Head(s).number}
  <1>1. /\ Len(Tail(s)) = Len(s) - 1 /\ Len(s) \in Nat /\ Len(s) > 0
        /\ Head(s) = s[1]
        /\ \A i \in 1..Len(Tail(s)) : Tail(s)[i] = s[i + 1]
    BY HeadTailProperties, EmptySeq
  <1>2. ASSUME NEW i \in 1..Len(s)
        PROVE  s[i].number \in Numbers(Tail(s)) \cup {Head(s).number}
    <2>1. CASE i = 1
      BY <1>1, <2>1
    <2>2. CASE i # 1
      <3>1. i - 1 \in 1..Len(Tail(s)) /\ Tail(s)[i - 1] = s[i]
        BY <1>1, <2>2
      <3> QED BY <3>1 DEF Numbers
    <2> QED BY <2>1, <2>2
  <1>3. ASSUME NEW i \in 1..Len(Tail(s)) PROVE Tail(s)[i].number \in Numbers(s)
    <2>1. i + 1 \in 1..Len(s)
      BY <1>1
    <2> QED BY <1>1, <2>1 DEF Numbers
  <1>4. Head(s).number \in Numbers(s)
    BY <1>1 DEF Numbers
  <1>. QED BY <1>2, <1>3, <1>4 DEF Numbers

LEMMA ToSetAppend ==
  ASSUME NEW s \in Seq(Nat), NEW x \in Nat
  PROVE  ToSet(Append(s, x)) = ToSet(s) \cup {x}
  <1>1. /\ Len(Append(s, x)) = Len(s) + 1 /\ Len(s) \in Nat
        /\ Append(s, x)[Len(s) + 1] = x
        /\ \A i \in 1..Len(s) : Append(s, x)[i] = s[i]
        /\ DOMAIN s = 1..Len(s) /\ DOMAIN Append(s, x) = 1..Len(Append(s, x))
    BY AppendProperties
  <1>. QED BY <1>1 DEF ToSet

LEMMA PushInitKept == PushInit => AnswerInv /\ KeepsAll
  BY DEF PushInit, AnswerInv, KeepsAll

LEMMA PushStepAnswer ==
  ASSUME PushTypeOK, BatchInv, AnswerInv, [PushNext]_pushVars
  PROVE  AnswerInv'
  <1>. USE DEF bufferVars, clientVars, serverVars
  <1>0. spurious \in Nat /\ request \in Nat /\ delivered \in Seq(Nat)
    BY DEF PushTypeOK
  <1>1. CASE UpdateStateValue \/ RequestExit \/ ClientExit
    BY <1>1 DEF UpdateStateValue, RequestExit, ClientExit, AnswerInv
  <1>2. CASE TakeBatch \/ CallNext \/ ClientTimeout
    BY <1>2 DEF TakeBatch, CallNext, ClientTimeout, AnswerInv
  <1>3. CASE WriteRequest
    BY <1>3 DEF WriteRequest, AnswerInv
  <1>4. CASE CallReturns \/ ClientDie
    BY <1>4 DEF CallReturns, ClientDie, AnswerInv
  <1>5. CASE ClientSpuriousWakeup
    BY <1>0, <1>5 DEF ClientSpuriousWakeup, AnswerInv
  <1>6. CASE ServerBoot \/ ServerLoop \/ ServerWait
    BY <1>6 DEF ServerBoot, ServerLoop, ServerWait, AnswerInv
  <1>7. CASE ServerTimeout \/ ServerLeave \/ ServerSkip
    BY <1>7 DEF ServerTimeout, ServerLeave, ServerSkip, AnswerInv
  <1>8. CASE ServerHandle
    <2>1. UNCHANGED <<request, empty, states, spurious>>
      BY <1>8 DEF ServerHandle
    <2>2. CASE ~pending
      BY <1>8, <2>1, <2>2 DEF ServerHandle, AnswerInv
    <2>3. CASE pending
      <3>1. /\ delivered' = Append(delivered, request) /\ ~empty
            /\ client_pc' = Notified(client_pc)
        BY <1>8, <2>3 DEF ServerHandle
      <3>2. ToSet(delivered') = ToSet(delivered) \cup {request}
        BY <1>0, <3>1, ToSetAppend
      <3> QED BY <2>1, <3>1, <3>2 DEF Notified, AnswerInv
    <2> QED BY <2>2, <2>3
  <1>9. CASE ServerAbort \/ ShutDown
    BY <1>9 DEF ServerAbort, ShutDown, AnswerInv
  <1>10. CASE ServerSpuriousWakeup
    BY <1>0, <1>10 DEF ServerSpuriousWakeup, AnswerInv
  <1>11. CASE UNCHANGED pushVars
    BY <1>11 DEF pushVars, AnswerInv
  <1>. QED
    BY <1>1, <1>2, <1>3, <1>4, <1>5, <1>6, <1>7, <1>8, <1>9, <1>10, <1>11
       DEF PushNext, ClientStep, ServerStep

LEMMA PushStepKept ==
  ASSUME PushTypeOK, BatchInv, AnswerInv, KeepsAll, [PushNext]_pushVars
  PROVE  KeepsAll'
  <1>. USE DEF bufferVars, clientVars, serverVars
  <1>0. /\ spurious \in Nat /\ updates \in Nat /\ request \in Nat
        /\ delivered \in Seq(Nat)
        /\ states \in Seq(Update) /\ state_queue \in Seq(Update)
    BY DEF PushTypeOK
  <1>1. CASE UpdateStateValue
    <2>1. PICK fits \in BOOLEAN :
            state_queue' = Append(state_queue, [number |-> updates + 1, fits |-> fits])
      BY <1>1 DEF UpdateStateValue
    <2>2. [number |-> updates + 1, fits |-> fits] \in Update
      BY <1>0 DEF Update
    <2>3. Numbers(state_queue') = Numbers(state_queue) \cup {updates + 1}
      BY <1>0, <2>1, <2>2, NumbersAppend
    <2>4. UNCHANGED <<spurious, states, delivered, failed>> /\ updates' = updates + 1
      BY <1>1 DEF UpdateStateValue
    <2> QED BY <1>0, <2>3, <2>4 DEF KeepsAll, Known
  <1>2. CASE TakeBatch
    <2>1. Numbers(states) = {}
      BY <1>2 DEF TakeBatch, BatchInv, Numbers
    <2> QED BY <1>2, <2>1 DEF TakeBatch, KeepsAll, Known
  <1>3. ASSUME UNCHANGED <<state_queue, states, failed, updates, delivered>>,
               spurious' \in {spurious, spurious + 1}
        PROVE  KeepsAll'
    BY <1>0, <1>3 DEF KeepsAll, Known, Numbers, ToSet
  <1>4. CASE ClientExit \/ ClientTimeout \/ RequestExit
    BY <1>4, <1>3 DEF ClientExit, ClientTimeout, RequestExit
  <1>5. ASSUME states # <<>>, states' = Tail(states), failed \subseteq failed',
               spurious = 0 => Head(states).number \in failed' \cup ToSet(delivered),
               UNCHANGED <<state_queue, updates, delivered, spurious>>
        PROVE  KeepsAll'
    <2>1. Numbers(states) = Numbers(states') \cup {Head(states).number}
      BY <1>0, <1>5, NumbersTail
    <2> QED BY <1>5, <2>1 DEF KeepsAll, Known
  <1>6. CASE CallNext
    BY <1>6, <1>3, <1>5 DEF CallNext
  <1>7. CASE WriteRequest
    BY <1>7, <1>3 DEF WriteRequest
  <1>8. CASE CallReturns
    BY <1>8, <1>5 DEF CallReturns, BatchInv, AnswerInv
  <1>9. CASE ClientDie \/ ClientSpuriousWakeup
    BY <1>9, <1>3 DEF ClientDie, ClientSpuriousWakeup
  <1>10. CASE ServerBoot \/ ServerLoop \/ ServerWait
    BY <1>10, <1>3 DEF ServerBoot, ServerLoop, ServerWait
  <1>11. CASE ServerTimeout \/ ServerLeave \/ ServerSkip
    BY <1>11, <1>3 DEF ServerTimeout, ServerLeave, ServerSkip
  <1>12. CASE ServerHandle
    <2>1. UNCHANGED <<state_queue, states, failed, updates, spurious>>
      BY <1>12 DEF ServerHandle
    <2>2. delivered' = delivered \/ delivered' = Append(delivered, request)
      BY <1>12 DEF ServerHandle
    <2>3. ToSet(delivered) \subseteq ToSet(delivered')
      BY <1>0, <2>2, ToSetAppend
    <2> QED BY <2>1, <2>3 DEF KeepsAll, Known
  <1>13. CASE ServerAbort \/ ServerSpuriousWakeup \/ ShutDown
    BY <1>13, <1>3 DEF ServerAbort, ServerSpuriousWakeup, ShutDown
  <1>14. CASE UNCHANGED pushVars
    BY <1>14, <1>3 DEF pushVars
  <1>. QED
    BY <1>1, <1>2, <1>4, <1>6, <1>7, <1>8, <1>9, <1>10, <1>11, <1>12, <1>13,
       <1>14 DEF PushNext, ClientStep, ServerStep

(* An update that is gone was delivered or its call returned false.        *)
THEOREM PushNoSilentLoss == PushSpec => []NoSilentLoss
<1>1. PushInit => PushTypeOK /\ BatchInv /\ AnswerInv /\ KeepsAll
  BY PushInitTypes, PushInitKept
<1>2. PushTypeOK /\ BatchInv /\ AnswerInv /\ KeepsAll /\ [PushNext]_pushVars
        => (PushTypeOK /\ BatchInv /\ AnswerInv /\ KeepsAll)'
  BY PushStepTypes, PushStepAnswer, PushStepKept
<1>3. KeepsAll => NoSilentLoss
  BY DEF KeepsAll, Known, NoSilentLoss
<1> QED
  BY <1>1, <1>2, <1>3, PTL DEF PushSpec

-----------------------------------------------------------------------------
(* ParameterSync.                                                          *)

LEMMA SyncHead ==
  ASSUME NEW s \in Seq(Indices \X Values), s # <<>>
  PROVE  /\ Head(s)[1] \in Indices /\ Head(s)[2] \in Values
         /\ Tail(s) \in Seq(Indices \X Values)
  <1>1. Head(s) \in Indices \X Values /\ Tail(s) \in Seq(Indices \X Values)
    BY HeadTailProperties
  <1>. QED BY <1>1

(* A write of the region keeps the types, in it or past its end.           *)
LEMMA SyncWriteTypes ==
  ASSUME region \in [Stored -> Values],
         writer \in [Stored -> {"nobody", "default", "host", "script"}],
         NEW i, NEW v \in Values, NEW who \in {"default", "host", "script"},
         WriteParameterValue(i, v, who)
  PROVE  /\ region' \in [Stored -> Values]
         /\ writer' \in [Stored -> {"nobody", "default", "host", "script"}]
  BY DEF WriteParameterValue

LEMMA SyncInitTypes == Init => TypeOK
  <1>. SUFFICES ASSUME Init PROVE TypeOK
    OBVIOUS
  <1>1. booted \in BOOLEAN /\ raced \in BOOLEAN
    BY Zenon DEF Init
  <1>. QED BY <1>1, ParametersAssumption DEF Init, TypeOK, Nothing

LEMMA SyncStepTypes ==
  ASSUME TypeOK, [Next]_vars
  PROVE  TypeOK'
  <1>a. ThreadsReady => booted' \in BOOLEAN
    BY Zenon DEF ThreadsReady
  <1>b. Process => raced' \in BOOLEAN
    BY Zenon DEF Process
  <1>c. ASSUME NEW i \in Indices, NEW v \in Values, ScriptSets(i, v)
        PROVE  raced' \in BOOLEAN
    BY <1>c, Zenon DEF ScriptSets
  <1>. USE ParametersAssumption DEF TypeOK, mainVars
  <1>1. CASE Activate
    BY <1>1 DEF Activate
  <1>2. CASE Activated
    BY <1>2 DEF Activated
  <1>3. ASSUME NEW i \in Indices, NEW v \in Values, SetParameterValue(i, v)
        PROVE  TypeOK'
    <2>1. WriteParameterValue(i, v, "host")
      BY <1>3 DEF SetParameterValue
    <2> QED BY <1>3, <2>1, SyncWriteTypes DEF SetParameterValue
  <1>4. CASE Initialize
    BY <1>4 DEF Initialize
  <1>5. CASE InitializeParameter
    <2>1. index \in Indices /\ index' \in 0..Count
      BY <1>5 DEF InitializeParameter, Indices
    <2>2. WriteParameterValue(index, Default, "default")
      BY <1>5 DEF InitializeParameter
    <2> QED BY <1>5, <2>1, <2>2, SyncWriteTypes DEF InitializeParameter
  <1>6. CASE Start
    BY <1>6 DEF Start
  <1>7. CASE ThreadsReady
    BY <1>7, <1>a DEF ThreadsReady
  <1>8. CASE Process
    BY <1>8, <1>b DEF Process
  <1>9. CASE ReadParameter
    <2>1. index \in Indices
      BY <1>9 DEF ReadParameter, Indices
    <2>2. value' \in Values
      BY <1>9, <2>1 DEF ReadParameter, ReadParameterValue, Stored
    <2> QED BY <1>9, <2>1, <2>2 DEF ReadParameter
  <1>10. CASE CompareParameter
    <2>1. index \in Indices /\ index' \in 0..Count /\ main' = "polling"
      BY <1>10 DEF CompareParameter, Indices
    <2>2. /\ parameters' \in [Indices -> Values]
          /\ setter' \in [Indices -> {"nobody", "default", "process", "script"}]
          /\ deferred' \in Seq(Indices \X Values)
      <3>1. CASE UNCHANGED <<parameters, deferred, setter>>
        BY <3>1
      <3>2. ASSUME parameters' = [parameters EXCEPT ![index] = value],
                   setter' = [setter EXCEPT ![index] = "process"],
                   deferred' = Append(deferred, <<index, value>>)
            PROVE  /\ parameters' \in [Indices -> Values]
                   /\ setter' \in [Indices ->
                                   {"nobody", "default", "process", "script"}]
                   /\ deferred' \in Seq(Indices \X Values)
        <4>1. <<index, value>> \in Indices \X Values
          BY <2>1
        <4>2. Append(deferred, <<index, value>>) \in Seq(Indices \X Values)
          BY <4>1
        <4> QED BY <2>1, <3>2, <4>2
      <3> QED BY <1>10, <3>1, <3>2 DEF CompareParameter
    <2> QED BY <1>10, <2>1, <2>2 DEF CompareParameter
  <1>11. CASE EndProcess
    BY <1>11 DEF EndProcess
  <1>12. CASE EmitSignal
    <2>1. deferred \in Seq(Indices \X Values) /\ deferred # <<>>
      BY <1>12 DEF EmitSignal
    <2>2. /\ Head(deferred)[1] \in Indices /\ Head(deferred)[2] \in Values
          /\ deferred' \in Seq(Indices \X Values)
      BY <1>12, <2>1, SyncHead DEF EmitSignal
    <2>3. heard' \in [Indices -> Values]
      BY <1>12, <2>2 DEF EmitSignal
    <2> QED BY <1>12, <2>2, <2>3 DEF EmitSignal
  <1>13. ASSUME NEW i \in Indices, NEW v \in Values, ScriptSets(i, v)
         PROVE  TypeOK'
    BY <1>13, <1>c DEF ScriptSets
  <1>14. CASE ScriptWrites
    <2>1. script \in Indices \X Values
      BY <1>14 DEF ScriptWrites
    <2>2. script[1] \in Indices /\ script[2] \in Values
      BY <2>1
    <2>3. WriteParameterValue(script[1], script[2], "script")
      BY <1>14 DEF ScriptWrites
    <2> QED BY <1>14, <2>2, <2>3, SyncWriteTypes DEF ScriptWrites
  <1>15. CASE UNCHANGED vars
    BY <1>15 DEF vars
  <1>. QED
    BY <1>1, <1>2, <1>3, <1>4, <1>5, <1>6, <1>7, <1>8, <1>9, <1>10, <1>11,
       <1>12, <1>13, <1>14, <1>15 DEF Next, MainThread

(* Every variable keeps its type.                                          *)
THEOREM SyncTypeCorrect == Spec => []TypeOK
  <1>1. TypeOK /\ [Next]_vars => TypeOK'
    BY SyncStepTypes
  <1>. QED BY SyncInitTypes, <1>1, PTL DEF Spec

-----------------------------------------------------------------------------
(* The defaults.                                                           *)

Started == main \notin {"booting", "initializing"}

(* The flags are set by threads that are started after the last default,   *)
(* and activate() waits for the flags.                                     *)
BootInv ==
    /\ host = "active" => booted
    /\ booted => Started
    /\ main = "booting" => index = 0
    /\ main = "initializing" => \A i \in Stored : i < index => writer[i] # "nobody"
    /\ Started => \A i \in Stored : writer[i] # "nobody"

(* A written value stays somebody's.                                       *)
LEMMA SyncWriteStays ==
  ASSUME writer \in [Stored -> {"nobody", "default", "host", "script"}],
         NEW i, NEW v, NEW who \in {"default", "host", "script"},
         WriteParameterValue(i, v, who)
  PROVE  /\ \A j \in Stored : writer[j] # "nobody" => writer'[j] # "nobody"
         /\ i \in Stored => writer'[i] # "nobody"
  BY DEF WriteParameterValue, Stored

LEMMA StepBoot ==
  ASSUME TypeOK, BootInv, [Next]_vars
  PROVE  BootInv'
  <1>1. /\ writer \in [Stored -> {"nobody", "default", "host", "script"}]
        /\ index \in 0..Count /\ Count \in Nat
        /\ script \in {Nothing} \cup (Indices \X Values)
    BY ParametersAssumption DEF TypeOK
  <1>. USE DEF BootInv, Started, mainVars
  <1>2. CASE Activate \/ Activated \/ ThreadsReady
    BY <1>2 DEF Activate, Activated, ThreadsReady
  <1>3. ASSUME NEW i \in Indices, NEW v \in Values, SetParameterValue(i, v)
        PROVE  BootInv'
    <2>1. \A j \in Stored : writer[j] # "nobody" => writer'[j] # "nobody"
      BY <1>1, <1>3, SyncWriteStays DEF SetParameterValue
    <2> QED BY <1>3, <2>1 DEF SetParameterValue
  <1>4. CASE Initialize
    BY <1>4 DEF Initialize, Stored, Indices
  <1>5. CASE InitializeParameter
    <2>1. /\ \A j \in Stored : writer[j] # "nobody" => writer'[j] # "nobody"
          /\ index \in Stored => writer'[index] # "nobody"
      BY <1>1, <1>5, SyncWriteStays DEF InitializeParameter
    <2>2. \A j \in Stored : j < index + 1 => j < index \/ j = index
      BY <1>1 DEF Stored, Indices
    <2>3. \A j \in Stored : j < index' => writer'[j] # "nobody"
      BY <1>5, <2>1, <2>2 DEF InitializeParameter
    <2> QED BY <1>5, <2>3 DEF InitializeParameter
  <1>6. CASE Start
    <2>1. \A i \in Stored : writer[i] # "nobody"
      BY <1>1, <1>6 DEF Start, Stored, Indices
    <2> QED BY <1>6, <2>1 DEF Start
  <1>7. CASE Process \/ ReadParameter \/ CompareParameter \/ EndProcess \/ EmitSignal
    BY <1>7 DEF Process, ReadParameter, CompareParameter, EndProcess, EmitSignal
  <1>8. ASSUME NEW i \in Indices, NEW v \in Values, ScriptSets(i, v)
        PROVE  BootInv'
    BY <1>8 DEF ScriptSets
  <1>9. CASE ScriptWrites
    <2>1. \A j \in Stored : writer[j] # "nobody" => writer'[j] # "nobody"
      BY <1>1, <1>9, SyncWriteStays DEF ScriptWrites
    <2> QED BY <1>9, <2>1 DEF ScriptWrites
  <1>10. CASE UNCHANGED vars
    BY <1>10 DEF vars
  <1>. QED
    BY <1>2, <1>3, <1>4, <1>5, <1>6, <1>7, <1>8, <1>9, <1>10
       DEF Next, MainThread

(* However many parameters there are and the region holds, the host never  *)
(* reads the zeros of fresh memory and none of its values is replaced by a *)
(* default.                                                                *)
THEOREM SyncDefaultsBeforeHost == Spec => []DefaultsBeforeHost
  <1>1. Init => BootInv
    BY DEF Init, BootInv, Started
  <1>2. TypeOK /\ BootInv /\ [Next]_vars => (TypeOK /\ BootInv)'
    BY SyncStepTypes, StepBoot
  <1>3. BootInv => DefaultsBeforeHost
    BY DEF BootInv, Started, DefaultsBeforeHost
  <1>. QED BY SyncInitTypes, <1>1, <1>2, <1>3, PTL DEF Spec

-----------------------------------------------------------------------------
(* What scripts are told.                                                  *)

(* The n-th deferred call is the last that tells of parameter i.           *)
LastOf(i, n) ==
    /\ deferred[n][1] = i
    /\ \A m \in 1..Len(deferred) : m > n => deferred[m][1] # i

(* What process() took over last for a parameter is told by the last of    *)
(* the deferred calls about it, or there are none and it was.              *)
ToldInv ==
    \A i \in Indices : setter[i] = "process" =>
        \/ \E n \in 1..Len(deferred) :
              LastOf(i, n) /\ deferred[n][2] = parameters[i]
        \/ /\ heard[i] = parameters[i]
           /\ \A m \in 1..Len(deferred) : deferred[m][1] # i

LEMMA StepTold ==
  ASSUME TypeOK, ToldInv, [Next]_vars
  PROVE  ToldInv'
  <1>1. /\ deferred \in Seq(Indices \X Values) /\ index \in Nat
        /\ parameters \in [Indices -> Values]
        /\ setter \in [Indices -> {"nobody", "default", "process", "script"}]
        /\ heard \in [Indices -> Values]
        /\ main = "comparing" => index \in Indices
    BY ParametersAssumption DEF TypeOK
  <1>. USE DEF mainVars
  <1>2. ASSUME UNCHANGED <<deferred, heard>>,
               \A i \in Indices : setter'[i] = "process" =>
                    setter[i] = "process" /\ parameters'[i] = parameters[i]
        PROVE  ToldInv'
    BY <1>2 DEF ToldInv, LastOf
  <1>3. CASE Activate \/ Activated \/ ThreadsReady
    BY <1>2, <1>3 DEF Activate, Activated, ThreadsReady
  <1>4. ASSUME NEW i \in Indices, NEW v \in Values, SetParameterValue(i, v)
        PROVE  ToldInv'
    BY <1>2, <1>4 DEF SetParameterValue
  <1>5. CASE Initialize \/ Start \/ Process \/ ReadParameter \/ EndProcess
    BY <1>2, <1>5 DEF Initialize, Start, Process, ReadParameter, EndProcess
  <1>6. CASE InitializeParameter
    BY <1>1, <1>2, <1>6 DEF InitializeParameter
  <1>7. CASE CompareParameter
    <2>1. CASE UNCHANGED <<parameters, deferred, setter>>
      BY <1>2, <1>7, <2>1 DEF CompareParameter
    <2>2. ASSUME parameters' = [parameters EXCEPT ![index] = value],
                 setter' = [setter EXCEPT ![index] = "process"],
                 deferred' = Append(deferred, <<index, value>>)
          PROVE  ToldInv'
      <3>1. index \in Indices /\ value \in Values /\ UNCHANGED heard
        BY <1>7 DEF CompareParameter, TypeOK
      <3>2. /\ Len(deferred') = Len(deferred) + 1 /\ Len(deferred) \in Nat
            /\ deferred'[Len(deferred) + 1] = <<index, value>>
            /\ \A m \in 1..Len(deferred) : deferred'[m] = deferred[m]
        BY <1>1, <2>2, <3>1, AppendProperties
      <3>3. ASSUME NEW i \in Indices, setter'[i] = "process", i # index
            PROVE  \/ \E n \in 1..Len(deferred') :
                         LastOf(i, n)' /\ deferred'[n][2] = parameters'[i]
                   \/ /\ heard'[i] = parameters'[i]
                      /\ \A m \in 1..Len(deferred') : deferred'[m][1] # i
        <4>1. setter[i] = "process" /\ parameters'[i] = parameters[i]
          BY <1>1, <2>2, <3>3
        <4>2. ASSUME NEW n \in 1..Len(deferred), LastOf(i, n),
                     deferred[n][2] = parameters[i]
              PROVE  n \in 1..Len(deferred') /\ LastOf(i, n)'
                     /\ deferred'[n][2] = parameters'[i]
          BY <3>2, <3>3, <4>1, <4>2 DEF LastOf
        <4>3. ASSUME \A m \in 1..Len(deferred) : deferred[m][1] # i
              PROVE  \A m \in 1..Len(deferred') : deferred'[m][1] # i
          BY <3>2, <3>3, <4>3
        <4> QED BY <3>1, <4>1, <4>2, <4>3 DEF ToldInv
      <3>4. ASSUME NEW i \in Indices, i = index
            PROVE  \E n \in 1..Len(deferred') :
                      LastOf(i, n)' /\ deferred'[n][2] = parameters'[i]
        <4>1. PICK n \in 1..Len(deferred') : n = Len(deferred')
          BY <3>2
        <4>2. deferred'[n][1] = i /\ deferred'[n][2] = value
          BY <3>2, <3>4, <4>1
        <4>3. \A m \in 1..Len(deferred') : ~(m > n)
          BY <3>2, <4>1
        <4>4. parameters'[i] = value
          BY <1>1, <2>2, <3>4
        <4> QED BY <4>2, <4>3, <4>4 DEF LastOf
      <3>5. ASSUME NEW i \in Indices, setter'[i] = "process"
            PROVE  \/ \E n \in 1..Len(deferred') :
                         LastOf(i, n)' /\ deferred'[n][2] = parameters'[i]
                   \/ /\ heard'[i] = parameters'[i]
                      /\ \A m \in 1..Len(deferred') : deferred'[m][1] # i
        BY <3>3, <3>4, <3>5
      <3> QED BY <3>5 DEF ToldInv
    <2> QED BY <1>7, <2>1, <2>2 DEF CompareParameter
  <1>8. CASE EmitSignal
    <2>1. /\ deferred # <<>> /\ deferred' = Tail(deferred)
          /\ heard' = [heard EXCEPT ![Head(deferred)[1]] = Head(deferred)[2]]
          /\ UNCHANGED <<parameters, setter>>
      BY <1>8 DEF EmitSignal
    <2>2. /\ Len(deferred') = Len(deferred) - 1 /\ Len(deferred) \in Nat \ {0}
          /\ Head(deferred) = deferred[1]
          /\ \A m \in 1..Len(deferred') : deferred'[m] = deferred[m + 1]
      BY <1>1, <2>1, HeadTailProperties
    <2>3. ASSUME NEW i \in Indices, setter[i] = "process"
          PROVE  \/ \E n \in 1..Len(deferred') :
                       LastOf(i, n)' /\ deferred'[n][2] = parameters[i]
                 \/ /\ heard'[i] = parameters[i]
                    /\ \A m \in 1..Len(deferred') : deferred'[m][1] # i
      <3>1. ASSUME NEW n \in 1..Len(deferred), LastOf(i, n), n # 1,
                   deferred[n][2] = parameters[i]
            PROVE  n - 1 \in 1..Len(deferred') /\ LastOf(i, n - 1)'
                   /\ deferred'[n - 1][2] = parameters[i]
        <4>1. n - 1 \in 1..Len(deferred') /\ deferred'[n - 1] = deferred[n]
          BY <2>2, <3>1
        <4>2. ASSUME NEW m \in 1..Len(deferred'), m > n - 1
              PROVE  deferred'[m][1] # i
          <5>1. m + 1 \in 1..Len(deferred) /\ m + 1 > n
            BY <2>2, <4>2
          <5> QED BY <2>2, <3>1, <5>1 DEF LastOf
        <4> QED BY <3>1, <4>1, <4>2 DEF LastOf
      <3>2. ASSUME \A m \in 1..Len(deferred) : m > 1 => deferred[m][1] # i
            PROVE  \A m \in 1..Len(deferred') : deferred'[m][1] # i
        <4>1. \A m \in 1..Len(deferred') : m + 1 \in 1..Len(deferred) /\ m + 1 > 1
          BY <2>2
        <4> QED BY <2>2, <3>2, <4>1
      <3>3. ASSUME LastOf(i, 1), deferred[1][2] = parameters[i]
            PROVE  heard'[i] = parameters[i]
        BY <1>1, <2>1, <2>2, <2>3, <3>3 DEF LastOf
      <3>4. ASSUME heard[i] = parameters[i],
                   \A m \in 1..Len(deferred) : deferred[m][1] # i
            PROVE  heard'[i] = parameters[i]
        <4>1. Head(deferred)[1] # i
          BY <2>2, <3>4
        <4> QED BY <1>1, <2>1, <3>4, <4>1
      <3> QED BY <2>3, <3>1, <3>2, <3>3, <3>4 DEF ToldInv, LastOf
    <2> QED BY <2>1, <2>3 DEF ToldInv
  <1>9. ASSUME NEW i \in Indices, NEW v \in Values, ScriptSets(i, v)
        PROVE  ToldInv'
    BY <1>1, <1>2, <1>9 DEF ScriptSets
  <1>10. CASE ScriptWrites
    BY <1>2, <1>10 DEF ScriptWrites
  <1>11. CASE UNCHANGED vars
    BY <1>2, <1>11 DEF vars
  <1>. QED
    BY <1>3, <1>4, <1>5, <1>6, <1>7, <1>8, <1>9, <1>10, <1>11
       DEF Next, MainThread

(* Whatever the host and scripts write and whenever, no change process()   *)
(* takes over is kept from scripts or told after a newer one.              *)
THEOREM SyncScriptsAreTold == Spec => []ScriptsAreTold
  <1>1. Init => ToldInv
    BY DEF Init, ToldInv
  <1>2. TypeOK /\ ToldInv /\ [Next]_vars => (TypeOK /\ ToldInv)'
    BY SyncStepTypes, StepTold
  <1>3. ToldInv => ScriptsAreTold
    BY DEF ToldInv, ScriptsAreTold
  <1>. QED BY SyncInitTypes, <1>1, <1>2, <1>3, PTL DEF Spec

-----------------------------------------------------------------------------
(* What scripts are not told.                                              *)

(* As long as no script meets process(), the region differs from the copy  *)
(* only where the host wrote it or where a script is about to.             *)
EchoInv ==
    /\ ~Started => script = Nothing
    /\ ~raced =>
          /\ \A i \in Stored : \/ region[i] = parameters[i]
                               \/ writer[i] = "host"
                               \/ script # Nothing /\ script[1] = i
          /\ main \in {"polling", "comparing"} => script = Nothing
          /\ script # Nothing => parameters[script[1]] = script[2]
          /\ main = "comparing" =>
                IF index < MAX_PARAMS
                THEN value = parameters[index] \/ writer[index] = "host"
                ELSE value = 0

LEMMA StepEcho ==
  ASSUME TypeOK, EchoInv, [Next]_vars
  PROVE  EchoInv'
  <1>1. /\ region \in [Stored -> Values] /\ index \in 0..Count
        /\ Count \in Nat /\ MAX_PARAMS \in Nat
        /\ writer \in [Stored -> {"nobody", "default", "host", "script"}]
        /\ parameters \in [Indices -> Values]
        /\ script \in {Nothing} \cup (Indices \X Values)
        /\ main = "comparing" => index \in Indices
    BY ParametersAssumption DEF TypeOK
  <1>. USE DEF mainVars, Started
  <1>2. CASE Activate \/ Activated \/ ThreadsReady
    BY <1>2 DEF EchoInv, Activate, Activated, ThreadsReady
  <1>3. ASSUME NEW i \in Indices, NEW v \in Values, SetParameterValue(i, v)
        PROVE  EchoInv'
    <2>1. \A j \in Stored : /\ writer[j] = "host" => writer'[j] = "host"
                            /\ region'[j] = region[j] \/ writer'[j] = "host"
      BY <1>1, <1>3 DEF SetParameterValue, WriteParameterValue, Stored
    <2>2. index \in Indices /\ index < MAX_PARAMS => index \in Stored
      BY DEF Stored
    <2> QED BY <1>1, <1>3, <2>1, <2>2 DEF SetParameterValue, EchoInv
  <1>4. CASE Initialize \/ Start \/ EndProcess \/ EmitSignal
    BY <1>4 DEF EchoInv, Initialize, Start, EndProcess, EmitSignal
  <1>5. CASE InitializeParameter
    <2>1. index \in Indices
      BY <1>1, <1>5 DEF InitializeParameter, Indices
    <2>2. \A i \in Stored : /\ i = index => region'[i] = parameters'[i]
                            /\ i # index => /\ region'[i] = region[i]
                                            /\ parameters'[i] = parameters[i]
                                            /\ writer'[i] = writer[i]
      BY <1>1, <1>5, <2>1 DEF InitializeParameter, WriteParameterValue, Stored
    <2> QED BY <1>5, <2>2 DEF EchoInv, InitializeParameter
  <1>6. CASE Process
    <2>1. ~raced' => ~raced /\ script = Nothing
      BY <1>6 DEF Process
    <2>2. script \in {Nothing} \cup (Indices \X Values) /\ main' = "polling"
          /\ main = "idle" /\ UNCHANGED <<region, parameters, script, writer>>
      BY <1>1, <1>6 DEF Process
    <2> QED BY <2>1, <2>2 DEF EchoInv
  <1>7. CASE ReadParameter
    <2>1. index \in Indices /\ (index < MAX_PARAMS => index \in Stored)
      BY <1>1, <1>7 DEF ReadParameter, Indices, Stored
    <2> QED BY <1>7, <2>1 DEF EchoInv, ReadParameter, ReadParameterValue
  <1>8. CASE CompareParameter
    <2>1. CASE UNCHANGED <<parameters, deferred, setter>>
      BY <1>8, <2>1 DEF EchoInv, CompareParameter
    <2>2. ASSUME parameters[index] # value,
                 parameters' = [parameters EXCEPT ![index] = value]
          PROVE  EchoInv'
      <3>1. ~raced => \A i \in Stored : i = index => writer[i] = "host"
        BY <1>8, <2>2 DEF EchoInv, CompareParameter, Stored
      <3>2. \A i \in Stored : i # index => parameters'[i] = parameters[i]
        BY <1>1, <2>2 DEF Stored
      <3> QED BY <1>8, <3>1, <3>2 DEF EchoInv, CompareParameter
    <2> QED BY <1>8, <2>1, <2>2 DEF CompareParameter
  <1>9. ASSUME NEW i \in Indices, NEW v \in Values, ScriptSets(i, v)
        PROVE  EchoInv'
    <2>1. /\ script' = <<i, v>> /\ script = Nothing /\ parameters'[i] = v
          /\ \A j \in Stored : j # i => parameters'[j] = parameters[j]
          /\ UNCHANGED <<region, writer, main, index, value>> /\ Started
          /\ raced' = (raced \/ main # "idle")
      BY <1>1, <1>9 DEF ScriptSets, Stored
    <2>2. script'[1] = i /\ script'[2] = v /\ script' # Nothing
      BY <2>1 DEF Nothing
    <2> QED BY <2>1, <2>2 DEF EchoInv
  <1>10. CASE ScriptWrites
    <2>1. /\ script # Nothing /\ script' = Nothing
          /\ WriteParameterValue(script[1], script[2], "script")
          /\ UNCHANGED <<main, index, value, parameters, raced>>
      BY <1>10 DEF ScriptWrites
    <2>2. \A i \in Stored :
             /\ i = script[1] => region'[i] = script[2]
             /\ i # script[1] => region'[i] = region[i] /\ writer'[i] = writer[i]
      BY <1>1, <2>1 DEF WriteParameterValue, Stored
    <2>3. \A i \in Stored : ~raced => region'[i] = parameters[i] \/ writer'[i] = "host"
      BY <2>1, <2>2 DEF EchoInv
    <2>4. main = "comparing" => raced
      BY <2>1 DEF EchoInv
    <2> QED BY <2>1, <2>3, <2>4 DEF EchoInv
  <1>11. CASE UNCHANGED vars
    BY <1>11 DEF vars, EchoInv
  <1>. QED
    BY <1>2, <1>3, <1>4, <1>5, <1>6, <1>7, <1>8, <1>9, <1>10, <1>11
       DEF Next, MainThread

(* As long as no script sets a parameter while process() runs, what        *)
(* parameter_changed tells was written by the host, or is the 0 of a       *)
(* parameter past the end of the region.                                   *)
THEOREM SyncNoEcho == Spec => NoEcho
  <1>1. Init => EchoInv
    BY DEF Init, EchoInv, Started, Stored
  <1>2. TypeOK /\ EchoInv /\ [Next]_vars => (TypeOK /\ EchoInv)'
    BY SyncStepTypes, StepEcho
  <1>3. TypeOK /\ EchoInv /\ [Next]_vars =>
          [~raced /\ Len(deferred') > Len(deferred) =>
              IF index < MAX_PARAMS THEN writer[index] = "host" ELSE value = 0]_vars
    <2>. SUFFICES ASSUME TypeOK, EchoInv, Next, ~raced,
                         Len(deferred') > Len(deferred)
                  PROVE  IF index < MAX_PARAMS THEN writer[index] = "host"
                                               ELSE value = 0
      OBVIOUS
    <2>1. deferred \in Seq(Indices \X Values) /\ Len(deferred) \in Nat
      BY DEF TypeOK
    <2>2. CASE EmitSignal
      <3>1. Len(deferred') = Len(deferred) - 1
        BY <2>1, <2>2, HeadTailProperties DEF EmitSignal
      <3> QED BY <2>1, <3>1
    <2>3. CASE CompareParameter /\ parameters[index] # value
      BY <2>3 DEF CompareParameter, EchoInv
    <2>4. EmitSignal \/ (CompareParameter /\ parameters[index] # value)
      <3>1. deferred' # deferred
        BY <2>1
      <3> QED
        BY <3>1 DEF Next, MainThread, Activate, Activated, SetParameterValue,
                    Initialize, InitializeParameter, Start, ThreadsReady,
                    Process, ReadParameter, CompareParameter, EndProcess,
                    ScriptSets, ScriptWrites, mainVars
    <2>. QED BY <2>2, <2>3, <2>4
  <1>. QED BY SyncInitTypes, <1>1, <1>2, <1>3, PTL DEF Spec, NoEcho

=============================================================================
