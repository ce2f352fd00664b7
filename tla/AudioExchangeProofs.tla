------------------------- MODULE AudioExchangeProofs -------------------------
(***************************************************************************)
(* Proofs about AudioExchange, for every set of block sizes and event      *)
(* counts and every bound.                                                 *)
(***************************************************************************)
EXTENDS AudioExchange, TLAPS

-----------------------------------------------------------------------------
(* What the operations on a ring do to its positions.                      *)

(* advance_*_write_index and advance_*_read_index: the ring of an audio    *)
(* channel moves one of its two positions.                                 *)
LEMMA AudioRingOps ==
    ASSUME NEW ring \in AudioRing, NEW n \in Nat
    PROVE  /\ AdvanceWrite(ring, n) \in AudioRing
           /\ AdvanceRead(ring, n) \in AudioRing
           /\ Backlog(ring) \in Int
           /\ Backlog(AdvanceWrite(ring, n)) = Backlog(ring) + n
           /\ Backlog(AdvanceRead(ring, n)) = Backlog(ring) - n
BY DEF AudioRing, AdvanceWrite, AdvanceRead, Backlog

(* write_*_midi and read_*_midi: a write leaves its own event count behind,*)
(* a read takes as many events as that count says.                         *)
LEMMA MidiRingOps ==
    ASSUME NEW ring \in MidiRing, NEW n \in Nat
    PROVE  /\ WriteMidi(ring, n) \in MidiRing
           /\ ReadMidi(ring) \in MidiRing
           /\ Backlog(ring) \in Int
           /\ Backlog(WriteMidi(ring, n)) = Backlog(ring) + n
           /\ WriteMidi(ring, n).count = n
           /\ Backlog(ReadMidi(ring)) = Backlog(ring) - ring.count
           /\ ReadMidi(ring).count = ring.count
<1>1. WriteMidi(ring, n) =
          [written |-> ring.written + n, read |-> ring.read, count |-> n]
  BY DEF WriteMidi
<1>2. ReadMidi(ring) = [written |-> ring.written, read |-> ring.read + ring.count,
                        count |-> ring.count]
  BY DEF MidiRing, ReadMidi
<1>3. ring.written \in Nat /\ ring.read \in Nat /\ ring.count \in Nat
  BY DEF MidiRing
<1>4. WriteMidi(ring, n) \in MidiRing
  BY <1>1, <1>3 DEF MidiRing
<1>5. ReadMidi(ring) \in MidiRing
  BY <1>2, <1>3 DEF MidiRing
<1> QED
  BY <1>1, <1>2, <1>3, <1>4, <1>5 DEF Backlog

-----------------------------------------------------------------------------
(* Type correctness.                                                       *)

(* Every variable of the audio exchange keeps its type in every behaviour  *)
(* of run() and the audio thread.                                          *)
THEOREM TypeCorrect == Spec => []TypeOK
<1>1. Init => TypeOK
  <2> SUFFICES ASSUME Init PROVE TypeOK
    OBVIOUS
  <2>1. input \in AudioRing /\ output \in AudioRing
    BY DEF Init, AudioRing
  <2>2. midi_input \in MidiRing /\ midi_output \in MidiRing
    BY DEF Init, MidiRing
  <2>3. missed \in [runs : Nat, frames : Nat]
    BY DEF Init
  <2> QED
    BY <2>1, <2>2, <2>3 DEF Init, TypeOK, HostStates, PluginStates, Nobody, Plugin
<1>2. TypeOK /\ [Next]_vars => TypeOK'
  <2> SUFFICES ASSUME TypeOK, [Next]_vars PROVE TypeOK'
    OBVIOUS
  <2> USE DEF TypeOK, HostStates, PluginStates, bufferVars, pluginVars, hostVars
  <2>1. CASE HostStart
    BY <2>1 DEF HostStart
  <2>2. CASE HostEnter
    BY <2>2 DEF HostEnter
  <2>3. CASE HostHandOver
    <3>1. PICK n \in BlockSizes, e \in EventCounts :
             /\ num_samples' = n
             /\ input' = AdvanceWrite(input, n)
             /\ midi_input' = WriteMidi(midi_input, e)
      BY <2>3 DEF HostHandOver
    <3>2. n \in Nat /\ e \in Nat
      BY SizesAssumption
    <3>3. input' \in AudioRing /\ midi_input' \in MidiRing
      BY <3>1, <3>2, AudioRingOps, MidiRingOps
    <3> QED
      BY <2>3, <3>1, <3>2, <3>3 DEF HostHandOver, Notified
  <2>4. CASE HostTimeout
    BY <2>4 DEF HostTimeout
  <2>5. CASE HostSpuriousWakeup
    BY <2>5 DEF HostSpuriousWakeup
  <2>6. CASE HostDeliver
    BY <2>6, AudioRingOps, MidiRingOps DEF HostDeliver
  <2>7. CASE HostMiss
    BY <2>7 DEF HostMiss
  <2>8. CASE HostShutDown
    BY <2>8 DEF HostShutDown, Notified
  <2>9. CASE PluginBoot
    BY <2>9 DEF PluginBoot
  <2>10. CASE PluginLoop
    BY <2>10 DEF PluginLoop
  <2>11. CASE PluginMix
    BY <2>11 DEF PluginMix, Nobody, Plugin
  <2>12. CASE PluginWait
    BY <2>12 DEF PluginWait, Nobody, Plugin
  <2>13. CASE PluginTimeout
    BY <2>13 DEF PluginTimeout
  <2>14. CASE PluginSpuriousWakeup
    BY <2>14 DEF PluginSpuriousWakeup
  <2>15. CASE PluginPass
    <3>1. input' \in AudioRing /\ output' \in AudioRing
      BY <2>15, AudioRingOps DEF PluginPass
    <3>2. midi_input' \in MidiRing /\ midi_output' \in MidiRing
      BY <2>15, MidiRingOps DEF PluginPass
    <3>3. midi_input_queue' \in Nat
      BY <2>15 DEF PluginPass, MidiRing
    <3> QED
      BY <2>15, <3>1, <3>2, <3>3 DEF PluginPass, Notified
  <2>16. CASE PluginSkip
    BY <2>16 DEF PluginSkip
  <2>17. CASE RequestExit
    BY <2>17 DEF RequestExit
  <2>18. CASE SendMidi
    BY <2>18 DEF SendMidi
  <2>19. CASE EmitMidi
    BY <2>19 DEF EmitMidi
  <2>20. CASE PluginDie
    BY <2>20 DEF PluginDie
  <2>21. CASE UNCHANGED vars
    BY <2>21 DEF vars
  <2> HIDE DEF TypeOK
  <2> QED
    BY <2>1, <2>2, <2>3, <2>4, <2>5, <2>6, <2>7, <2>8, <2>9, <2>10, <2>11,
       <2>12, <2>13, <2>14, <2>15, <2>16, <2>17, <2>18, <2>19, <2>20, <2>21
       DEF Next, HostNext, PluginNext
<1>3. QED
  BY <1>1, <1>2, PTL DEF Spec

-----------------------------------------------------------------------------
(* Neither side reads ahead.  NoReadAhead alone is not inductive: a side   *)
(* that has been woken must find what it is about to read, even if other   *)
(* runs and passes have overwritten num_samples and the counts since.      *)
PluginFindsBlock ==
    plugin_pc = "woken" =>
        /\ Backlog(input) >= num_samples
        /\ Backlog(midi_input) >= midi_input.count
HostFindsReply ==
    host_pc = "woken" /\ ~is_shutting_down =>
        /\ Backlog(output) >= num_samples
        /\ Backlog(midi_output) >= midi_output.count
ReadInv == NoReadAhead /\ (spurious = 0 => PluginFindsBlock /\ HostFindsReply)

LEMMA ReadInvStep ==
    ASSUME TypeOK, ReadInv, [Next]_vars
    PROVE  ReadInv'
<1> USE DEF ReadInv, NoReadAhead, PluginFindsBlock, HostFindsReply,
            bufferVars, pluginVars, hostVars
<1>0. /\ input \in AudioRing /\ output \in AudioRing
      /\ midi_input \in MidiRing /\ midi_output \in MidiRing
      /\ num_samples \in Nat /\ midi_output_queue \in Nat /\ spurious \in Nat
  BY DEF TypeOK
<1>1. /\ Backlog(input) \in Int /\ Backlog(output) \in Int
      /\ Backlog(midi_input) \in Int /\ Backlog(midi_output) \in Int
      /\ midi_input.count \in Nat /\ midi_output.count \in Nat
  BY <1>0, AudioRingOps, MidiRingOps DEF MidiRing
<1>2. CASE HostHandOver
  <2>1. PICK n \in BlockSizes, e \in EventCounts :
           /\ num_samples' = n
           /\ input' = AdvanceWrite(input, n)
           /\ midi_input' = WriteMidi(midi_input, e)
    BY <1>2 DEF HostHandOver
  <2>2. n \in Nat /\ e \in Nat
    BY SizesAssumption
  <2>3. /\ Backlog(input)' = Backlog(input) + n
        /\ Backlog(midi_input)' = Backlog(midi_input) + e
        /\ midi_input'.count = e
    BY <1>0, <2>1, <2>2, AudioRingOps, MidiRingOps DEF Backlog
  <2>4. /\ Backlog(output)' = Backlog(output)
        /\ Backlog(midi_output)' = Backlog(midi_output)
    BY <1>2 DEF HostHandOver, Backlog
  <2> QED
    BY <1>1, <1>2, <2>1, <2>2, <2>3, <2>4 DEF HostHandOver
<1>3. CASE HostDeliver
  <2>1. /\ Backlog(output)' = Backlog(output) - num_samples
        /\ Backlog(midi_output)' = Backlog(midi_output) - midi_output.count
    BY <1>0, <1>3, AudioRingOps, MidiRingOps DEF HostDeliver, Backlog
  <2>2. /\ Backlog(input)' = Backlog(input)
        /\ Backlog(midi_input)' = Backlog(midi_input)
    BY <1>3 DEF HostDeliver, Backlog
  <2> QED
    BY <1>0, <1>1, <1>3, <2>1, <2>2 DEF HostDeliver
<1>4. CASE PluginPass
  <2>1. /\ Backlog(input)' = Backlog(input) - num_samples
        /\ Backlog(midi_input)' = Backlog(midi_input) - midi_input.count
        /\ Backlog(output)' = Backlog(output) + num_samples
        /\ Backlog(midi_output)' = Backlog(midi_output) + midi_output_queue
        /\ midi_output'.count = midi_output_queue
    BY <1>0, <1>4, AudioRingOps, MidiRingOps DEF PluginPass, Backlog
  <2> QED
    BY <1>0, <1>1, <1>4, <2>1 DEF PluginPass
<1>5. CASE HostSpuriousWakeup \/ PluginSpuriousWakeup
  <2>1. spurious' # 0
    BY <1>0, <1>5 DEF HostSpuriousWakeup, PluginSpuriousWakeup
  <2> QED
    BY <2>1
<1>6. ASSUME UNCHANGED <<num_samples, input, output, midi_input, midi_output, spurious>>,
             plugin_pc' = "woken" => plugin_pc = "woken",
             host_pc' = "woken" /\ ~is_shutting_down' =>
                 host_pc = "woken" /\ ~is_shutting_down
      PROVE  ReadInv'
  <2>1. /\ Backlog(input)' = Backlog(input) /\ Backlog(output)' = Backlog(output)
        /\ Backlog(midi_input)' = Backlog(midi_input)
        /\ Backlog(midi_output)' = Backlog(midi_output)
    BY <1>6 DEF Backlog
  <2> QED
    BY <1>6, <2>1
<1>7. CASE HostStart \/ HostEnter \/ HostTimeout \/ HostMiss \/ HostShutDown
  BY <1>6, <1>7 DEF HostStart, HostEnter, HostTimeout, HostMiss, HostShutDown
<1>8. CASE PluginBoot \/ PluginLoop \/ PluginMix \/ PluginWait \/ PluginTimeout
  BY <1>6, <1>8 DEF PluginBoot, PluginLoop, PluginMix, PluginWait, PluginTimeout
<1>9. CASE PluginSkip \/ RequestExit \/ SendMidi \/ EmitMidi \/ PluginDie
  BY <1>6, <1>9 DEF PluginSkip, RequestExit, SendMidi, EmitMidi, PluginDie
<1>10. CASE UNCHANGED vars
  BY <1>6, <1>10 DEF vars
<1> QED
  BY <1>2, <1>3, <1>4, <1>5, <1>7, <1>8, <1>9, <1>10 DEF Next, HostNext, PluginNext

(* However runs and passes interleave, time out or lose their notifies,    *)
(* run() and the audio thread only read what the other has written.        *)
THEOREM NeverReadsAhead == Spec => []NoReadAhead
<1>1. Init => ReadInv
  BY DEF Init, ReadInv, NoReadAhead, PluginFindsBlock, HostFindsReply, Backlog
<1>2. TypeOK /\ ReadInv /\ [Next]_vars => ReadInv'
  BY ReadInvStep
<1>3. ReadInv => NoReadAhead
  BY DEF ReadInv
<1>4. QED
  BY <1>1, <1>2, <1>3, TypeCorrect, PTL DEF Spec

-----------------------------------------------------------------------------
(* Lock step.  While no run has been missed the rings can only be in three *)
(* conditions, and which one follows from where run() is.                  *)
NothingInFlight ==
    /\ Backlog(input) = 0 /\ Backlog(midi_input) = 0
    /\ Backlog(output) = 0 /\ Backlog(midi_output) = 0
BlockInFlight ==
    /\ Backlog(input) = num_samples /\ Backlog(midi_input) = midi_input.count
    /\ Backlog(output) = 0 /\ Backlog(midi_output) = 0
ReplyInFlight ==
    /\ Backlog(input) = 0 /\ Backlog(midi_input) = 0
    /\ Backlog(output) = num_samples /\ Backlog(midi_output) = midi_output.count
LockStepInv ==
    missed.runs = 0 /\ spurious = 0 =>
        /\ host_pc \in {"starting", "idle", "locking"} =>
               NothingInFlight /\ plugin_pc # "woken"
        /\ host_pc = "waiting" => BlockInFlight
        /\ host_pc = "woken" /\ ~is_shutting_down =>
               ReplyInFlight /\ plugin_pc # "woken"

LEMMA LockStepStep ==
    ASSUME TypeOK, LockStepInv, [Next]_vars
    PROVE  LockStepInv'
<1> USE DEF LockStepInv, bufferVars, pluginVars, hostVars
<1>0. /\ input \in AudioRing /\ output \in AudioRing
      /\ midi_input \in MidiRing /\ midi_output \in MidiRing
      /\ num_samples \in Nat /\ midi_output_queue \in Nat
      /\ spurious \in Nat /\ missed.runs \in Nat /\ missed.frames \in Nat
  BY DEF TypeOK
<1>1. /\ Backlog(input) \in Int /\ Backlog(output) \in Int
      /\ Backlog(midi_input) \in Int /\ Backlog(midi_output) \in Int
      /\ midi_input.count \in Nat /\ midi_output.count \in Nat
  BY <1>0, AudioRingOps, MidiRingOps DEF MidiRing
<1>2. CASE HostHandOver
  <2>1. PICK n \in BlockSizes, e \in EventCounts :
           /\ num_samples' = n
           /\ input' = AdvanceWrite(input, n)
           /\ midi_input' = WriteMidi(midi_input, e)
    BY <1>2 DEF HostHandOver
  <2>2. n \in Nat /\ e \in Nat
    BY SizesAssumption
  <2>3. /\ Backlog(input)' = Backlog(input) + n
        /\ Backlog(midi_input)' = Backlog(midi_input) + e
        /\ midi_input'.count = e
    BY <1>0, <2>1, <2>2, AudioRingOps, MidiRingOps DEF Backlog
  <2>4. /\ Backlog(output)' = Backlog(output)
        /\ Backlog(midi_output)' = Backlog(midi_output)
        /\ host_pc = "locking" /\ host_pc' = "waiting"
        /\ missed' = missed /\ spurious' = spurious
    BY <1>2 DEF HostHandOver, Backlog
  <2>5. missed'.runs = 0 /\ spurious' = 0 => NothingInFlight
    BY <2>4
  <2>6. missed'.runs = 0 /\ spurious' = 0 => BlockInFlight'
    BY <2>1, <2>2, <2>3, <2>4, <2>5 DEF NothingInFlight, BlockInFlight
  <2> QED
    BY <2>4, <2>6
<1>3. CASE HostDeliver
  <2>1. /\ Backlog(output)' = Backlog(output) - num_samples
        /\ Backlog(midi_output)' = Backlog(midi_output) - midi_output.count
    BY <1>0, <1>3, AudioRingOps, MidiRingOps DEF HostDeliver, Backlog
  <2>2. /\ Backlog(input)' = Backlog(input)
        /\ Backlog(midi_input)' = Backlog(midi_input)
        /\ host_pc = "woken" /\ ~is_shutting_down /\ host_pc' = "idle"
        /\ missed' = missed /\ spurious' = spurious /\ plugin_pc' = plugin_pc
    BY <1>3 DEF HostDeliver, Backlog
  <2>3. missed'.runs = 0 /\ spurious' = 0 => ReplyInFlight /\ plugin_pc # "woken"
    BY <2>2
  <2>4. missed'.runs = 0 /\ spurious' = 0 => NothingInFlight'
    BY <1>0, <1>1, <2>1, <2>2, <2>3 DEF ReplyInFlight, NothingInFlight
  <2> QED
    BY <2>2, <2>3, <2>4
<1>4. CASE PluginPass
  <2>1. /\ Backlog(input)' = Backlog(input) - num_samples
        /\ Backlog(midi_input)' = Backlog(midi_input) - midi_input.count
        /\ Backlog(output)' = Backlog(output) + num_samples
        /\ Backlog(midi_output)' = Backlog(midi_output) + midi_output_queue
        /\ midi_output'.count = midi_output_queue
    BY <1>0, <1>4, AudioRingOps, MidiRingOps DEF PluginPass, Backlog
  <2>2. /\ plugin_pc = "woken" /\ plugin_pc' = "looping"
        /\ host_pc' = IF host_pc = "waiting" THEN "woken" ELSE host_pc
        /\ is_shutting_down' = is_shutting_down /\ num_samples' = num_samples
        /\ missed' = missed /\ spurious' = spurious
    BY <1>4 DEF PluginPass, Notified
  <2>3. missed.runs = 0 /\ spurious = 0 /\ host_pc = "waiting" => BlockInFlight
    OBVIOUS
  <2>4. missed.runs = 0 /\ spurious = 0 /\ host_pc = "waiting" => ReplyInFlight'
    BY <1>0, <1>1, <2>1, <2>2, <2>3 DEF BlockInFlight, ReplyInFlight
  <2> QED
    BY <2>2, <2>4
<1>5. CASE HostSpuriousWakeup \/ PluginSpuriousWakeup
  <2>1. spurious' # 0
    BY <1>0, <1>5 DEF HostSpuriousWakeup, PluginSpuriousWakeup
  <2> QED
    BY <2>1
<1>6. CASE HostMiss
  <2>1. missed'.runs # 0
    BY <1>0, <1>6 DEF HostMiss
  <2> QED
    BY <2>1
<1>7. ASSUME UNCHANGED <<num_samples, input, output, midi_input, midi_output, missed, spurious>>,
             plugin_pc' = "woken" => plugin_pc = "woken",
             \/ host_pc' = host_pc /\ is_shutting_down' = is_shutting_down
             \/ host_pc \in {"starting", "idle"} /\ host_pc' \in {"idle", "locking"}
             \/ host_pc' = "expired"
             \/ is_shutting_down' /\ host_pc' = Notified(host_pc)
      PROVE  LockStepInv'
  <2>1. /\ Backlog(input)' = Backlog(input) /\ Backlog(output)' = Backlog(output)
        /\ Backlog(midi_input)' = Backlog(midi_input)
        /\ Backlog(midi_output)' = Backlog(midi_output)
    BY <1>7 DEF Backlog
  <2>2. /\ NothingInFlight => NothingInFlight'
        /\ BlockInFlight => BlockInFlight'
        /\ ReplyInFlight => ReplyInFlight'
    BY <1>7, <2>1 DEF NothingInFlight, BlockInFlight, ReplyInFlight
  <2> QED
    BY <1>7, <2>2 DEF Notified
<1>8. CASE HostStart \/ HostEnter \/ HostTimeout \/ HostShutDown
  BY <1>7, <1>8 DEF HostStart, HostEnter, HostTimeout, HostShutDown
<1>9. CASE PluginBoot \/ PluginLoop \/ PluginMix \/ PluginWait \/ PluginTimeout
  BY <1>7, <1>9 DEF PluginBoot, PluginLoop, PluginMix, PluginWait, PluginTimeout
<1>10. CASE PluginSkip \/ RequestExit \/ SendMidi \/ EmitMidi \/ PluginDie
  BY <1>7, <1>10 DEF PluginSkip, RequestExit, SendMidi, EmitMidi, PluginDie
<1>11. CASE UNCHANGED vars
  BY <1>7, <1>11 DEF vars
<1> QED
  BY <1>2, <1>3, <1>4, <1>5, <1>6, <1>8, <1>9, <1>10, <1>11
     DEF Next, HostNext, PluginNext

(* Until a run is missed, run() returns with nothing left in flight: the   *)
(* plugin has taken what was handed over and the host what was answered.   *)
THEOREM StaysInLockStep == Spec => []LockStep
<1>1. Init => LockStepInv
  BY DEF Init, LockStepInv, NothingInFlight, Backlog
<1>2. TypeOK /\ LockStepInv /\ [Next]_vars => LockStepInv'
  BY LockStepStep
<1>3. LockStepInv => LockStep
  BY DEF LockStepInv, LockStep, NothingInFlight
<1>4. QED
  BY <1>1, <1>2, <1>3, TypeCorrect, PTL DEF Spec

-----------------------------------------------------------------------------
(* The round trip, in the presence of every timeout and spurious wakeup.   *)

(* Every step of the exchange is a step of RoundTrip or leaves it alone.   *)
LEMMA RoundTripStep ==
    ASSUME TypeOK, [Next]_vars
    PROVE  [Trip!Next]_(Trip!vars)
<1> USE DEF bufferVars, pluginVars, hostVars, Trip!vars
<1>0. /\ input \in AudioRing /\ output \in AudioRing
      /\ num_samples \in Nat /\ missed.frames \in Nat
  BY DEF TypeOK
<1>1. Backlog(input) \in Int /\ Backlog(output) \in Int
  BY <1>0, AudioRingOps
<1>2. CASE HostHandOver
  <2>1. PICK n \in BlockSizes : num_samples' = n /\ input' = AdvanceWrite(input, n)
    BY <1>2 DEF HostHandOver
  <2>2. Backlog(input)' = Backlog(input) + n /\ Backlog(output)' = Backlog(output)
    BY <1>0, <1>2, <2>1, SizesAssumption, AudioRingOps DEF HostHandOver, Backlog
  <2>3. n \in Nat
    BY SizesAssumption
  <2>4. (Backlog(input) + Backlog(output))' = Backlog(input) + Backlog(output) + n
    BY <1>1, <2>2, <2>3
  <2>5. Trip!HandOver(n)
    BY <1>2, <2>1, <2>4 DEF HostHandOver, Trip!HandOver, InRun
  <2> QED
    BY <2>5 DEF Trip!Next
<1>3. CASE HostDeliver
  <2>1. Backlog(output)' = Backlog(output) - num_samples /\ Backlog(input)' = Backlog(input)
    BY <1>0, <1>3, AudioRingOps DEF HostDeliver, Backlog
  <2>2. (Backlog(input) + Backlog(output))' = (Backlog(input) + Backlog(output)) - num_samples
    BY <1>0, <1>1, <2>1
  <2>3. InRun /\ InRun' = FALSE /\ num_samples' = num_samples /\ missed' = missed
    BY <1>3 DEF HostDeliver, InRun
  <2>4. Trip!Deliver
    BY <2>2, <2>3 DEF Trip!Deliver
  <2> QED
    BY <2>4 DEF Trip!Next
<1>4. CASE HostMiss
  <2>1. Trip!Miss
    BY <1>4 DEF HostMiss, Trip!Miss, InRun, Backlog
  <2> QED
    BY <2>1 DEF Trip!Next
<1>5. CASE PluginPass
  <2>1. /\ Backlog(input)' = Backlog(input) - num_samples
        /\ Backlog(output)' = Backlog(output) + num_samples
    BY <1>0, <1>5, AudioRingOps DEF PluginPass, Backlog
  <2>2. (Backlog(input) + Backlog(output))' = Backlog(input) + Backlog(output)
    BY <1>0, <1>1, <2>1
  <2> QED
    BY <1>5, <2>2 DEF PluginPass, InRun, Notified
<1>6. ASSUME UNCHANGED <<num_samples, input, output, missed>>, UNCHANGED InRun
      PROVE  UNCHANGED Trip!vars
  BY <1>6 DEF Backlog
<1>7. CASE HostStart \/ HostEnter \/ HostTimeout \/ HostSpuriousWakeup \/ HostShutDown
  BY <1>6, <1>7 DEF HostStart, HostEnter, HostTimeout, HostSpuriousWakeup,
                    HostShutDown, InRun, Notified
<1>8. CASE PluginBoot \/ PluginLoop \/ PluginMix \/ PluginWait \/ PluginTimeout
  BY <1>6, <1>8 DEF PluginBoot, PluginLoop, PluginMix, PluginWait, PluginTimeout, InRun
<1>9. CASE PluginSpuriousWakeup \/ PluginSkip \/ PluginDie
  BY <1>6, <1>9 DEF PluginSpuriousWakeup, PluginSkip, PluginDie, InRun
<1>10. CASE RequestExit \/ SendMidi \/ EmitMidi
  BY <1>6, <1>10 DEF RequestExit, SendMidi, EmitMidi, InRun
<1>11. CASE UNCHANGED vars
  BY <1>6, <1>11 DEF vars, InRun
<1> QED
  BY <1>2, <1>3, <1>4, <1>5, <1>7, <1>8, <1>9, <1>10, <1>11
     DEF Next, HostNext, PluginNext

(* run() and the audio thread together are the relay RoundTrip describes.  *)
THEOREM IsRoundTrip == Spec => ImplementsRoundTrip
<1>1. Init => Trip!Init
  BY DEF Init, Trip!Init, InRun, Backlog
<1>2. TypeOK /\ [Next]_vars => [Trip!Next]_(Trip!vars)
  BY RoundTripStep
<1>3. QED
  BY <1>1, <1>2, TypeCorrect, PTL DEF Spec, ImplementsRoundTrip, Trip!Spec

(* What is in flight is what missed runs left behind plus the run in       *)
(* progress: latency grows by a missed block and by nothing else.          *)
THEOREM LatencyIsMissedRuns == Spec => []LatencyAccounted
<1>1. Init => LatencyAccounted
  BY DEF Init, LatencyAccounted, InRun, Backlog
<1>2. ASSUME TypeOK, LatencyAccounted, [Trip!Next]_(Trip!vars)
      PROVE  LatencyAccounted'
  <2>0. /\ Backlog(input) \in Int /\ Backlog(output) \in Int
        /\ num_samples \in Nat /\ missed.frames \in Nat
    BY <1>2, AudioRingOps DEF TypeOK
  <2>1. ASSUME NEW n \in BlockSizes, Trip!HandOver(n) PROVE LatencyAccounted'
    BY <1>2, <2>0, <2>1, SizesAssumption DEF LatencyAccounted, Trip!HandOver
  <2>2. CASE Trip!Deliver
    BY <1>2, <2>0, <2>2 DEF LatencyAccounted, Trip!Deliver
  <2>3. CASE Trip!Miss
    BY <1>2, <2>0, <2>3 DEF LatencyAccounted, Trip!Miss
  <2>4. CASE UNCHANGED Trip!vars
    BY <1>2, <2>4 DEF LatencyAccounted, Trip!vars
  <2> QED
    BY <1>2, <2>1, <2>2, <2>3, <2>4 DEF Trip!Next
<1>3. TypeOK /\ LatencyAccounted /\ [Next]_vars => LatencyAccounted'
  BY <1>2, RoundTripStep
<1>4. QED
  BY <1>1, <1>3, TypeCorrect, PTL DEF Spec

=============================================================================
