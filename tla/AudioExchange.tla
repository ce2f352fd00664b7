---------------------------- MODULE AudioExchange ----------------------------
(***************************************************************************)
(* The audio exchange between the host process (GodotDistrhoPluginClient,  *)
(* inside the DAW) and the plugin process (DistrhoPluginServer, inside     *)
(* Godot) over the shared AudioBuffer.                                     *)
(*                                                                         *)
(* Once per audio callback the host's run() writes a block and its MIDI    *)
(* events, notifies input_condition and waits up to 100 ms on              *)
(* output_condition.  The plugin's audio thread lets Godot mix, waits up   *)
(* to 100 ms (1000 ms the first time) on input_condition and answers.      *)
(* Both waits are bare timed_waits: no predicate is tested, so a notify    *)
(* that comes while the other side is not waiting is lost, and a spurious  *)
(* wakeup is taken for a notify.                                           *)
(*                                                                         *)
(* Data abstraction: a ring of the AudioBuffer is a pair of positions in   *)
(* the stream that goes through it, the number of frames (or events) ever  *)
(* written and ever read.  The code's index is the position modulo the     *)
(* size of the ring; RingBuffer relates the two and says what a read       *)
(* returns.  Channels advance together and are not told apart.             *)
(***************************************************************************)
EXTENDS Integers

CONSTANTS
    BlockSizes,     \* numbers of frames a run may be asked for
    EventCounts,    \* numbers of MIDI events a run may come with
    MaxRuns,        \* bound: runs the host makes
    MaxSends,       \* bound: MIDI events the plugin's scripts send
    MaxSpurious,    \* bound: spurious wakeups of the condition variables
    MayCrash        \* whether the plugin process may die on its own

ASSUME SizesAssumption ==
    /\ BlockSizes \subseteq Nat
    /\ EventCounts \subseteq Nat
ASSUME BoundsAssumption ==
    /\ MaxRuns \in Nat
    /\ MaxSends \in Nat
    /\ MaxSpurious \in Nat
    /\ MayCrash \in BOOLEAN

VARIABLES
    \* The AudioBuffer in shared memory.
    ready,              \* set by the audio thread, never reset
    mutex,              \* who holds the interprocess mutex
    num_samples,        \* size of the block of the latest run
    input, output,      \* audio rings: [written, read] positions
    midi_input,         \* MIDI rings: positions, and the event count the
    midi_output,        \*   latest writer left for the next reader
    \* The plugin process.
    plugin_pc,
    exit_thread,
    midi_input_queue,   \* events read from the host, not yet emitted
    midi_output_queue,  \* events sent by scripts, not yet written
    \* The host process.
    host_pc,
    is_shutting_down,
    \* History.
    runs,               \* blocks handed over
    missed,             \* the runs that returned without a reply, their frames
    spurious            \* spurious wakeups so far

bufferVars == <<num_samples, input, output, midi_input, midi_output>>
pluginVars == <<plugin_pc, exit_thread, midi_input_queue, midi_output_queue>>
hostVars   == <<host_pc, is_shutting_down, runs, missed>>
vars == <<ready, mutex, bufferVars, pluginVars, hostVars, spurious>>

Nobody == "nobody"
Plugin == "plugin"

(***************************************************************************)
(* "waiting": in the wait set of a condition variable, mutex released.     *)
(* "woken": notified, "expired": timed out; both need the mutex back.      *)
(***************************************************************************)
HostStates == {"starting", "idle", "locking", "waiting", "woken", "expired"}
PluginStates == {"booting", "looping", "locking", "mixing", "waiting",
                 "woken", "expired", "exited", "dead"}

Backlog(ring) == ring.written - ring.read

(* Mutant: a count that adds up.                                           *)
WriteMidiAdding(ring, events) ==
    [written |-> ring.written + events, read |-> ring.read,
     count |-> ring.count + events]

(***************************************************************************)
(* The operations on a ring.  write_input_midi and write_output_midi       *)
(* overwrite the event count, which is all read_input_midi and             *)
(* read_output_midi go by.                                                 *)
(***************************************************************************)
AdvanceWrite(ring, frames) == [ring EXCEPT !.written = @ + frames]
AdvanceRead(ring, frames)  == [ring EXCEPT !.read = @ + frames]
WriteMidi(ring, events) ==
    [written |-> ring.written + events, read |-> ring.read, count |-> events]
ReadMidi(ring) == [ring EXCEPT !.read = @ + ring.count]

(* A run has handed its block over and has not returned.                   *)
InRun == host_pc \in {"waiting", "woken", "expired"}

(* notify_one on a condition variable with one possible waiter.            *)
Notified(pc) == IF pc = "waiting" THEN "woken" ELSE pc

-----------------------------------------------------------------------------
Init ==
    /\ ready = FALSE
    /\ mutex = Nobody
    /\ num_samples = 0
    /\ input = [written |-> 0, read |-> 0]
    /\ output = [written |-> 0, read |-> 0]
    /\ midi_input = [written |-> 0, read |-> 0, count |-> 0]
    /\ midi_output = [written |-> 0, read |-> 0, count |-> 0]
    /\ plugin_pc = "booting"
    /\ exit_thread = FALSE
    /\ midi_input_queue = 0
    /\ midi_output_queue = 0
    /\ host_pc = "starting"
    /\ is_shutting_down = FALSE
    /\ runs = 0
    /\ missed = [runs |-> 0, frames |-> 0]
    /\ spurious = 0

-----------------------------------------------------------------------------
(* The host's audio callback.                                              *)

(* The client's constructor returns when it has seen "ready".              *)
HostStart ==
    /\ host_pc = "starting"
    /\ ready
    /\ host_pc' = "idle"
    /\ UNCHANGED <<ready, mutex, bufferVars, pluginVars, is_shutting_down,
                   runs, missed, spurious>>

(* run() tests "ready" before it takes the mutex.  The branch that writes  *)
(* silence cannot be taken: HostStart has seen "ready" and nothing resets  *)
(* it.  A host does not call into a plugin it is deleting.                 *)
HostEnter ==
    /\ host_pc = "idle"
    /\ ready
    /\ ~is_shutting_down
    /\ runs < MaxRuns
    /\ host_pc' = "locking"
    /\ UNCHANGED <<ready, mutex, bufferVars, pluginVars, is_shutting_down,
                   runs, missed, spurious>>

(* Lock, write the block and the events, notify, release the mutex in      *)
(* timed_wait: nobody else can see the buffer in between.                  *)
HostHandOver ==
    /\ host_pc = "locking"
    /\ mutex = Nobody
    /\ \E n \in BlockSizes, e \in EventCounts :
          /\ num_samples' = n
          /\ input' = AdvanceWrite(input, n)
          /\ midi_input' = WriteMidi(midi_input, e)
    /\ plugin_pc' = Notified(plugin_pc)
    /\ host_pc' = "waiting"
    /\ runs' = runs + 1
    /\ UNCHANGED <<ready, mutex, output, midi_output, exit_thread,
                   midi_input_queue, midi_output_queue, is_shutting_down,
                   missed, spurious>>

(* Mutant: a wait without a timeout.                                       *)
HostNeverTimesOut == FALSE

(* The 100 ms are over; time is not modelled, so they may be at any point. *)
HostTimeout ==
    /\ host_pc = "waiting"
    /\ host_pc' = "expired"
    /\ UNCHANGED <<ready, mutex, bufferVars, pluginVars, is_shutting_down,
                   runs, missed, spurious>>

HostSpuriousWakeup ==
    /\ host_pc = "waiting"
    /\ spurious < MaxSpurious
    /\ host_pc' = "woken"
    /\ spurious' = spurious + 1
    /\ UNCHANGED <<ready, mutex, bufferVars, pluginVars, is_shutting_down,
                   runs, missed>>

(* Mutant: the outcome of timed_wait is not looked at.                     *)
HostDeliverAnyway ==
    /\ host_pc \in {"woken", "expired"}
    /\ mutex = Nobody
    /\ ~is_shutting_down
    /\ output' = AdvanceRead(output, num_samples)
    /\ midi_output' = ReadMidi(midi_output)
    /\ host_pc' = "idle"
    /\ UNCHANGED <<ready, mutex, num_samples, input, midi_input, pluginVars,
                   is_shutting_down, runs, missed, spurious>>

(* timed_wait returned true: read the reply and leave.                     *)
HostDeliver ==
    /\ host_pc = "woken"
    /\ mutex = Nobody
    /\ ~is_shutting_down
    /\ output' = AdvanceRead(output, num_samples)
    /\ midi_output' = ReadMidi(midi_output)
    /\ host_pc' = "idle"
    /\ UNCHANGED <<ready, mutex, num_samples, input, midi_input, pluginVars,
                   is_shutting_down, runs, missed, spurious>>

(* timed_wait returned false, or the client is being destroyed: leave      *)
(* with the outputs untouched.                                             *)
HostMiss ==
    /\ \/ host_pc = "expired"
       \/ host_pc = "woken" /\ is_shutting_down
    /\ mutex = Nobody
    /\ host_pc' = "idle"
    /\ missed' = [runs |-> missed.runs + 1, frames |-> missed.frames + num_samples]
    /\ UNCHANGED <<ready, mutex, bufferVars, pluginVars, is_shutting_down,
                   runs, spurious>>

(* The client's destructor, on another thread: the flag, then notify_all,  *)
(* without the mutex.                                                      *)
HostShutDown ==
    /\ host_pc # "starting"
    /\ ~is_shutting_down
    /\ is_shutting_down' = TRUE
    /\ host_pc' = Notified(host_pc)
    /\ UNCHANGED <<ready, mutex, bufferVars, pluginVars, runs, missed,
                   spurious>>

-----------------------------------------------------------------------------
(* The plugin's audio thread.                                              *)

PluginBoot ==
    /\ plugin_pc = "booting"
    /\ mutex = Nobody
    /\ ready' = TRUE
    /\ plugin_pc' = "looping"
    /\ UNCHANGED <<mutex, bufferVars, exit_thread, midi_input_queue,
                   midi_output_queue, hostVars, spurious>>

(* while (!exit_thread), tested without the mutex.                         *)
PluginLoop ==
    /\ plugin_pc = "looping"
    /\ plugin_pc' = IF exit_thread THEN "exited" ELSE "locking"
    /\ UNCHANGED <<ready, mutex, bufferVars, exit_thread, midi_input_queue,
                   midi_output_queue, hostVars, spurious>>

(* The mutex is held while Godot mixes num_samples frames (when the server *)
(* is initialized), which touches nothing of the AudioBuffer.              *)
PluginMix ==
    /\ plugin_pc = "locking"
    /\ mutex = Nobody
    /\ mutex' = Plugin
    /\ plugin_pc' = "mixing"
    /\ UNCHANGED <<ready, bufferVars, exit_thread, midi_input_queue,
                   midi_output_queue, hostVars, spurious>>

PluginWait ==
    /\ plugin_pc = "mixing"
    /\ mutex' = Nobody
    /\ plugin_pc' = "waiting"
    /\ UNCHANGED <<ready, bufferVars, exit_thread, midi_input_queue,
                   midi_output_queue, hostVars, spurious>>

(* Mutant: a wait without a timeout.                                       *)
PluginNeverTimesOut == FALSE

PluginTimeout ==
    /\ plugin_pc = "waiting"
    /\ plugin_pc' = "expired"
    /\ UNCHANGED <<ready, mutex, bufferVars, exit_thread, midi_input_queue,
                   midi_output_queue, hostVars, spurious>>

PluginSpuriousWakeup ==
    /\ plugin_pc = "waiting"
    /\ spurious < MaxSpurious
    /\ plugin_pc' = "woken"
    /\ spurious' = spurious + 1
    /\ UNCHANGED <<ready, mutex, bufferVars, exit_thread, midi_input_queue,
                   midi_output_queue, hostVars>>

(* timed_wait returned true: one pass.  The frames read go into the input  *)
(* channels and the frames written come from the output channels, so those *)
(* advance with input.read and output.written.                             *)
PluginPass ==
    /\ plugin_pc = "woken"
    /\ mutex = Nobody
    /\ input' = AdvanceRead(input, num_samples)
    /\ midi_input' = ReadMidi(midi_input)
    /\ midi_input_queue' = midi_input_queue + midi_input.count
    /\ output' = AdvanceWrite(output, num_samples)
    /\ midi_output' = WriteMidi(midi_output, midi_output_queue)
    /\ midi_output_queue' = 0
    /\ host_pc' = Notified(host_pc)
    /\ plugin_pc' = "looping"
    /\ UNCHANGED <<ready, mutex, num_samples, exit_thread, is_shutting_down,
                   runs, missed, spurious>>

(* Mutant: the audio thread answers although nothing was asked.            *)
PluginSkipAnswering ==
    /\ plugin_pc = "expired"
    /\ mutex = Nobody
    /\ output' = AdvanceWrite(output, num_samples)
    /\ host_pc' = Notified(host_pc)
    /\ plugin_pc' = "looping"
    /\ UNCHANGED <<ready, mutex, num_samples, input, midi_input, midi_output,
                   exit_thread, midi_input_queue, midi_output_queue,
                   is_shutting_down, runs, missed, spurious>>

(* timed_wait returned false: nothing, and round again.                    *)
PluginSkip ==
    /\ plugin_pc = "expired"
    /\ mutex = Nobody
    /\ plugin_pc' = "looping"
    /\ UNCHANGED <<ready, mutex, bufferVars, exit_thread, midi_input_queue,
                   midi_output_queue, hostVars, spurious>>

-----------------------------------------------------------------------------
(* The other threads of the plugin process, and its death.                 *)

(* The shutdown request, or finish() when the module is unloaded.          *)
RequestExit ==
    /\ ~exit_thread
    /\ exit_thread' = TRUE
    /\ UNCHANGED <<ready, mutex, bufferVars, plugin_pc, midi_input_queue,
                   midi_output_queue, hostVars, spurious>>

(* note_on, control_change, ...: any thread that runs a script.            *)
SendMidi ==
    /\ plugin_pc # "dead"
    /\ midi_output.written + midi_output_queue < MaxSends
    /\ midi_output_queue' = midi_output_queue + 1
    /\ UNCHANGED <<ready, mutex, bufferVars, plugin_pc, exit_thread,
                   midi_input_queue, hostVars, spurious>>

(* process(), once per frame on the main thread: emit all that is queued.  *)
EmitMidi ==
    /\ plugin_pc # "dead"
    /\ midi_input_queue > 0
    /\ midi_input_queue' = 0
    /\ UNCHANGED <<ready, mutex, bufferVars, plugin_pc, exit_thread,
                   midi_output_queue, hostVars, spurious>>

(* A crash, or the client's destructor terminating the child.  The mutex   *)
(* is not robust: what a dead process holds stays held.                    *)
PluginDie ==
    /\ plugin_pc # "dead"
    /\ MayCrash \/ is_shutting_down
    /\ plugin_pc' = "dead"
    /\ UNCHANGED <<ready, mutex, bufferVars, exit_thread, midi_input_queue,
                   midi_output_queue, hostVars, spurious>>

HostNext ==
    \/ HostStart
    \/ HostEnter
    \/ HostHandOver
    \/ HostTimeout
    \/ HostSpuriousWakeup
    \/ HostDeliver
    \/ HostMiss
    \/ HostShutDown

PluginNext ==
    \/ PluginBoot
    \/ PluginLoop
    \/ PluginMix
    \/ PluginWait
    \/ PluginTimeout
    \/ PluginSpuriousWakeup
    \/ PluginPass
    \/ PluginSkip
    \/ RequestExit
    \/ SendMidi
    \/ EmitMidi
    \/ PluginDie

Next == HostNext \/ PluginNext

Spec == Init /\ [][Next]_vars

(***************************************************************************)
(* Threads keep running, timeouts expire, and a thread that wants the      *)
(* mutex gets it if it is free again and again: each side gives the mutex  *)
(* up for a wait of up to 100 ms in every round.  Nothing makes the host   *)
(* start a run, a script send an event, or anyone shut down.               *)
(***************************************************************************)
Fairness ==
    /\ WF_vars(HostStart)
    /\ SF_vars(HostHandOver)
    /\ WF_vars(HostTimeout)
    /\ SF_vars(HostDeliver)
    /\ SF_vars(HostMiss)
    /\ SF_vars(PluginBoot)
    /\ WF_vars(PluginLoop)
    /\ SF_vars(PluginMix)
    /\ WF_vars(PluginWait)
    /\ WF_vars(PluginTimeout)
    /\ SF_vars(PluginPass)
    /\ SF_vars(PluginSkip)

FairSpec == Spec /\ Fairness

-----------------------------------------------------------------------------
AudioRing == [written : Nat, read : Nat]
MidiRing  == [written : Nat, read : Nat, count : Nat]

(* Every variable keeps its type: the positions and counts of the          *)
(* AudioBuffer and the states of the two audio threads.                    *)
TypeOK ==
    /\ ready \in BOOLEAN
    /\ mutex \in {Nobody, Plugin}
    /\ num_samples \in Nat
    /\ input \in AudioRing /\ output \in AudioRing
    /\ midi_input \in MidiRing /\ midi_output \in MidiRing
    /\ plugin_pc \in PluginStates
    /\ exit_thread \in BOOLEAN
    /\ midi_input_queue \in Nat /\ midi_output_queue \in Nat
    /\ host_pc \in HostStates
    /\ is_shutting_down \in BOOLEAN
    /\ runs \in Nat /\ spurious \in Nat
    /\ missed \in [runs : Nat, frames : Nat]

(* As long as no wakeup is spurious, neither side reads what the other has *)
(* not written yet, whatever timeouts, lost notifies and deaths there      *)
(* were: run() never returns frames or events of a reply that does not     *)
(* exist, and the audio thread never takes frames or events that no run    *)
(* has handed over.                                                        *)
NoReadAhead ==
    spurious = 0 =>
        /\ Backlog(input) >= 0
        /\ Backlog(output) >= 0
        /\ Backlog(midi_input) >= 0
        /\ Backlog(midi_output) >= 0

(* Until a run is missed (and no wakeup is spurious) the two sides work in *)
(* lock step: when run() returns, the plugin has read exactly what this    *)
(* and all earlier runs handed over, and the host has read exactly what it *)
(* answered, although a notify that nobody waits for is lost.              *)
LockStep ==
    missed.runs = 0 /\ spurious = 0 /\ host_pc = "idle" =>
        /\ Backlog(input) = 0
        /\ Backlog(output) = 0
        /\ Backlog(midi_input) = 0
        /\ Backlog(midi_output) = 0

(* The frames in flight between the two processes are those of the missed  *)
(* runs and of the run in progress: a timeout of run() costs its block in  *)
(* latency, nothing else does (no lost notify, no spurious wakeup, no      *)
(* timeout of the audio thread), and nothing ever wins it back.            *)
LatencyAccounted ==
    Backlog(input) + Backlog(output) =
        missed.frames + (IF InRun THEN num_samples ELSE 0)

(* The audio thread is a relay: each call of run() hands over one block    *)
(* and then delivers one of the same size or is missed, and all that the   *)
(* audio thread does in between only moves frames from one ring to the     *)
(* other.                                                                  *)
Trip == INSTANCE RoundTrip WITH
            running <- InRun,
            block   <- num_samples,
            latency <- Backlog(input) + Backlog(output),
            missed  <- missed.frames
ImplementsRoundTrip == Trip!Spec

(* The plugin died inside its critical section.                            *)
MutexLost == plugin_pc = "dead" /\ mutex = Plugin

(* run() returns to the host, whether the plugin answers, is too late, has *)
(* left its loop or has died, unless it died holding the mutex.            *)
RunReturns == (host_pc = "locking" \/ InRun) ~> (host_pc = "idle" \/ MutexLost)

(* The audio thread ends after exit_thread is set, so finish() can join it,*)
(* even if the host never calls again.                                     *)
ThreadEnds == exit_thread ~> plugin_pc \in {"exited", "dead"}

=============================================================================
