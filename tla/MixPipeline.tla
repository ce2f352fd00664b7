----------------------------- MODULE MixPipeline -----------------------------
(***************************************************************************)
(* What happens to a frame inside the plugin process: the audio thread     *)
(* writes the host's block to input_channels and takes its answer from     *)
(* output_channels; Godot's mix, which the audio thread runs in every      *)
(* round, reads input_channels (process_sample), passes the frames through *)
(* a bus and, in AudioEffectSetDistrhoChannel, writes output_channels      *)
(* (set_channel_sample).  The mix runs in every round, the exchange only   *)
(* in those in which the host called.                                      *)
(*                                                                         *)
(* Data abstraction: one channel; a frame is its position in the stream    *)
(* the audio thread reads from the host, silence is a negative number.     *)
(* Godot is external: it hands the frames the stream produced to the       *)
(* effect.  A ring is the numbers of frames ever written to it and ever    *)
(* read from it (RingBuffer); "source" is what was written at which        *)
(* position of the output channel's stream.                                *)
(***************************************************************************)
EXTENDS Ring

CONSTANTS
    BlockSizes,         \* numbers of frames a run may be asked for
    MaxFrames           \* bound: frames passed, frames mixed

(* temp_buffer holds half a ring.                                          *)
ASSUME BlockSizesAssumption ==
    /\ BlockSizes \subseteq Nat
    /\ \A n \in BlockSizes : n <= Size
    /\ MaxFrames \in Nat

VARIABLES
    num_samples,
    thread,             \* the audio thread
    initialized,        \* DistrhoPluginServer::initialized
    has_data,           \* of the effect
    input_channel,
    output_channel,
    source,
    output,             \* the latest answer: its frames, and the position
                        \* of the first frame of the block it is given for
    gated,              \* history: frames the effect has dropped
    steady              \* history: frames exchanged since the latest Skip

vars == <<num_samples, thread, initialized, has_data, input_channel,
          output_channel, source, output, gated, steady>>

Init ==
    /\ num_samples = 0
    /\ thread = "looping"
    /\ initialized = FALSE
    /\ has_data = FALSE
    /\ input_channel = [written |-> 0, read |-> 0]
    /\ output_channel = [written |-> 0, read |-> 0]
    /\ source = [position \in {} |-> 0]
    /\ output = [first |-> 0, frames |-> [frame \in {} |-> 0]]
    /\ gated = 0
    /\ steady = 0

(* The main thread starts the audio thread and then sets the flag.         *)
Initialize ==
    /\ ~initialized
    /\ initialized' = TRUE
    /\ UNCHANGED <<num_samples, thread, has_data, input_channel,
                   output_channel, source, output, gated, steady>>

(* The host writes a block and notifies: AudioExchange.  It may do so, and *)
(* with another block size, before the audio thread has mixed the last.    *)
HandOver ==
    /\ num_samples' \in BlockSizes
    /\ thread' = IF thread = "waiting" THEN "woken" ELSE thread
    /\ UNCHANGED <<initialized, has_data, input_channel, output_channel,
                   source, output, gated, steady>>

(* Godot mixing blocks of a length of its own.                             *)
FramesOfOne == IF initialized THEN 1 ELSE 0

(* process_external: frames to mix.                                        *)
Frames == IF initialized THEN num_samples ELSE 0

(* Playing the newest frames rather than the next ones.                    *)
MixedNewest(frame) == (input_channel.written - Frames) + frame

(* What process_sample reads.                                              *)
Mixed(frame) == Latest(input_channel.written, input_channel.read + frame)

(* set_channel_sample.                                                     *)
WriteOutputChannel ==
    /\ output_channel' = [output_channel EXCEPT !.written = @ + Frames]
    /\ source' = [position \in 0..(output_channel.written + Frames - 1) |->
                     IF position < output_channel.written
                     THEN source[position]
                     ELSE Mixed(position - output_channel.written)]

(* Until a frame was louder than silence the effect drops whole blocks.    *)
Mix ==
    /\ thread = "looping"
    /\ input_channel.read + Frames <= MaxFrames
    /\ input_channel' = [input_channel EXCEPT !.read = @ + Frames]
    /\ \/ has_data' = has_data
       \/ /\ \E frame \in 0..(Frames - 1) : Mixed(frame) >= 0
          /\ has_data' = TRUE
    /\ IF has_data'
       THEN WriteOutputChannel /\ UNCHANGED gated
       ELSE gated' = gated + Frames /\ UNCHANGED <<output_channel, source>>
    /\ thread' = "waiting"
    /\ UNCHANGED <<num_samples, initialized, output, steady>>

(* What the audio thread reads from output_channels.                       *)
Heard(frame) ==
    LET position == Latest(output_channel.written, output_channel.read + frame)
    IN  IF position >= 0 THEN source[position] ELSE position

(* Waiting for the effect before reading.                                  *)
ReadOutputChannelOnceHeard ==
    /\ output_channel' = IF has_data
                         THEN [output_channel EXCEPT !.read = @ + num_samples]
                         ELSE output_channel
    /\ output' = [first  |-> input_channel.written,
                  frames |-> [frame \in 0..(num_samples - 1) |-> Heard(frame)]]

ReadOutputChannel ==
    /\ output_channel' = [output_channel EXCEPT !.read = @ + num_samples]
    /\ output' = [first  |-> input_channel.written,
                  frames |-> [frame \in 0..(num_samples - 1) |-> Heard(frame)]]

(* timed_wait returned true: one exchange.                                 *)
Pass ==
    /\ thread = "woken"
    /\ input_channel.written + num_samples <= MaxFrames
    /\ input_channel' = [input_channel EXCEPT !.written = @ + num_samples]
    /\ ReadOutputChannel
    /\ steady' = steady + num_samples
    /\ thread' = "looping"
    /\ UNCHANGED <<num_samples, initialized, has_data, source, gated>>

(* timed_wait returned false: nothing, but the next round mixes again.     *)
Skip ==
    /\ thread = "waiting"
    /\ thread' = "looping"
    /\ steady' = 0
    /\ UNCHANGED <<num_samples, initialized, has_data, input_channel,
                   output_channel, source, output, gated>>

(* A spurious wakeup is an exchange like any other.                        *)
SpuriousWakeup ==
    /\ thread = "waiting"
    /\ thread' = "woken"
    /\ UNCHANGED <<num_samples, initialized, has_data, input_channel,
                   output_channel, source, output, gated, steady>>

Next ==
    \/ Initialize
    \/ HandOver
    \/ Mix
    \/ Pass
    \/ Skip
    \/ SpuriousWakeup

Spec == Init /\ [][Next]_vars

-----------------------------------------------------------------------------
ChannelRing == [written : Nat, read : Nat]

(* Every variable keeps its type.                                          *)
TypeOK ==
    /\ num_samples \in BlockSizes \cup {0}
    /\ thread \in {"looping", "waiting", "woken"}
    /\ initialized \in BOOLEAN
    /\ has_data \in BOOLEAN
    /\ input_channel \in ChannelRing
    /\ output_channel \in ChannelRing
    /\ source \in [0..(output_channel.written - 1) -> Int]
    /\ output.first \in Nat
    /\ output.frames \in [DOMAIN output.frames -> Int]
    /\ gated \in Nat
    /\ steady \in Nat

(* The delay of the plugin is fixed modulo the ring: whatever timeouts,    *)
(* extra mixes and changes of block size there were, a frame comes out a   *)
(* whole number of rings after it went in, less the frames the effect had  *)
(* dropped before it heard anything.                                       *)
DelayIsWholeRings ==
    \A frame \in DOMAIN output.frames :
        output.frames[frame] >= 0 =>
            Slot(output.frames[frame]) = Slot(output.first + frame + gated)

(* The host asks for one block size and the ring holds whole blocks.       *)
OneSize == \E n \in BlockSizes : BlockSizes = {n} /\ Size % n = 0

(* How late the plugin is when no exchange was missed.                     *)
Delay == Size - Slot(gated)

(* With one block size the delay of process_sample and set_channel_sample  *)
(* is one ring, less what the effect dropped, and no sequence of timeouts, *)
(* each with a mix of its own, moves it by more than one further ring; if  *)
(* the effect dropped whole rings they do not move it at all.              *)
DelayIsExact ==
    OneSize =>
        \A frame \in DOMAIN output.frames :
            output.frames[frame] >= 0 =>
               LET delay == (output.first + frame) - output.frames[frame] IN
               delay \in IF Slot(gated) = 0 THEN {Delay} ELSE {Delay, Delay + Size}

(* What an extra mix after a timeout (audio_thread_func mixes before every *)
(* wait, answered or not) tears apart comes together again: one ring of    *)
(* frames after the latest timeout, each answer continues the one before.  *)
Settles ==
    [][OneSize /\ output.first < output'.first /\ steady >= Size =>
         \A frame \in DOMAIN output.frames :
            output.frames[frame] >= 0 /\ output'.frames[frame] >= 0
              => output'.frames[frame] = output.frames[frame] + num_samples]_vars

=============================================================================
