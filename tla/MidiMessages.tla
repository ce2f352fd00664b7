----------------------------- MODULE MidiMessages -----------------------------
(***************************************************************************)
(* MIDI from a script of the plugin to the audio host and back: the        *)
(* message a call of DistrhoPluginServer makes and the frame it is given,  *)
(* the queues between the main thread and the audio thread, the rings of   *)
(* the AudioBuffer and the signals a script hears.                         *)
(*                                                                         *)
(* The audio host is external.  It routes what the plugin sends to the     *)
(* input of the plugin: what a script sends is what a script hears.        *)
(*                                                                         *)
(* Data abstraction: time is counted in frames since the audio thread      *)
(* began its round.  A ring is the stream that went through it; what a     *)
(* read returns is given by Latest.  The exchange has no spurious wakeups  *)
(* here (AudioExchange has).                                               *)
(***************************************************************************)
EXTENDS Ring, Sequences

CONSTANTS
    Calls,              \* what scripts may call
    BlockSizes,         \* numbers of frames a run may be asked for
    DefaultFrameSize,   \* 1024: process_sample_frame_size before any mix
    FrameModulus,       \* 2^32: a frame is a uint32_t
    MaxSends,           \* bound: calls scripts make
    MaxElapsed          \* bound: frames that pass in a round

ASSUME FramesAssumption ==
    /\ BlockSizes \subseteq Nat
    /\ DefaultFrameSize \in Nat
    /\ FrameModulus \in Nat
    /\ DefaultFrameSize < FrameModulus
    /\ \A n \in BlockSizes : n < FrameModulus
    /\ MaxSends \in Nat
    /\ MaxElapsed \in Nat

-----------------------------------------------------------------------------
(* The messages.                                                           *)

Status == [note_off |-> 128, note_on |-> 144, midi_poly_aftertouch |-> 160,
           control_change |-> 176, program_change |-> 192,
           channel_pressure |-> 208, pitch_bend |-> 224]

(* The signal a script hears for each.                                     *)
Signal == [note_off |-> "midi_note_off", note_on |-> "midi_note_on",
           midi_poly_aftertouch |-> "midi_poly_aftertouch",
           control_change |-> "midi_cc",
           program_change |-> "midi_program_change",
           channel_pressure |-> "midi_channel_pressure",
           pitch_bend |-> "midi_pitch_bend"]

Kinds == DOMAIN Status

Channels    == 0..15
DataBytes   == 0..127
StatusBytes == 128..239
MaxBend     == 16383

(* The calls whose arguments MIDI allows; pitch_bend and channel_pressure  *)
(* take any.  A DistrhoMidiEvent must have the channel in its status: its  *)
(* own channel is not sent.                                                *)
LegalCalls ==
    [name : {"note_off", "note_on", "midi_poly_aftertouch", "control_change",
             "program_change"},
     channel : Channels, data1 : DataBytes, data2 : DataBytes]
        \cup
    [name : {"channel_pressure", "pitch_bend"},
     channel : Channels, data1 : Int, data2 : {0}]
        \cup
    [name : {"send_midi_event"}, status : StatusBytes,
     channel : Channels, data1 : DataBytes, data2 : DataBytes]

ASSUME CallsAssumption == Calls \subseteq LegalCalls

Clamp(value, low, high) ==
    IF value < low THEN low ELSE IF value > high THEN high ELSE value

Message(size, data0, data1, data2) ==
    [size |-> size, data |-> <<data0, data1, data2>>]

BendMessage(channel, value) ==
    Message(3, Status.pitch_bend + (channel % 16), value % 128,
            (value \div 128) % 128)

(* The bytes a call puts into a MidiEvent.                                 *)
Encoded(call) ==
    LET data0 == Status[call.name] + (call.channel % 16)
    IN  CASE call.name \in {"note_off", "note_on", "control_change"} ->
                Message(3, data0, call.data1 % 128, call.data2 % 128)
          [] call.name = "program_change" ->
                Message(2, data0, call.data1 % 128, 0)
          [] call.name = "channel_pressure" ->
                Message(2, data0, Clamp(call.data1, 0, 127) % 128, 0)
          [] call.name = "pitch_bend" ->
                BendMessage(call.channel, Clamp(call.data1, 0, MaxBend))
          [] call.name = "midi_poly_aftertouch" ->
                Message(3, data0, call.data1 % 256, call.data2 % 256)
          [] call.name = "send_midi_event" ->
                Message(3, call.status % 256, call.data1 % 256,
                        call.data2 % 256)

(* The signal emit_midi_event emits, before midi_event with the same bytes *)
(* and the frame.                                                          *)
Emitted(status, channel, data1, data2) ==
    CASE status = 144 /\ data2 > 0 ->
            <<"midi_note_on", channel, data1, data2>>
      [] status = 128 \/ (status = 144 /\ data2 = 0) ->
            <<"midi_note_off", channel, data1, data2>>
      [] status = 176 -> <<"midi_cc", channel, data1, data2>>
      [] status = 192 -> <<"midi_program_change", channel, data1>>
      [] status = 208 -> <<"midi_channel_pressure", channel, data1>>
      [] status = 224 -> <<"midi_pitch_bend", channel,
                           ((data2 % 128) * 128) + (data1 % 128)>>
      [] status = 160 -> <<"midi_poly_aftertouch", channel, data1, data2>>
      [] OTHER -> <<>>

Decoded(message) ==
    LET channel == message.data[1] % 16
    IN  Emitted(message.data[1] - channel, channel, message.data[2],
                message.data[3])

(* What a call of that kind means to who hears it; a note on of no         *)
(* velocity is a note off.                                                 *)
MeantBy(kind, channel, data1, data2) ==
    CASE kind = "note_on" /\ data2 = 0 ->
            <<Signal.note_off, channel, data1, data2>>
      [] kind \in {"program_change"} -> <<Signal[kind], channel, data1>>
      [] kind = "channel_pressure" ->
            <<Signal[kind], channel, Clamp(data1, 0, 127)>>
      [] kind = "pitch_bend" ->
            <<Signal[kind], channel, Clamp(data1, 0, MaxBend)>>
      [] OTHER -> <<Signal[kind], channel, data1, data2>>

KindOf(status) == CHOOSE kind \in Kinds : Status[kind] = status

Meant(call) ==
    IF call.name = "send_midi_event"
    THEN LET kind == KindOf(call.status - (call.status % 16))
             value == IF kind = "pitch_bend"
                      THEN (call.data2 * 128) + call.data1 ELSE call.data1
         IN  MeantBy(kind, call.status % 16, value, call.data2)
    ELSE MeantBy(call.name, call.channel, call.data1, call.data2)

-----------------------------------------------------------------------------
VARIABLES
    \* The main thread of the plugin process.
    calling,            \* calls under way: none or one, and its time
    sent,               \* history: the calls made
    heard,              \* history: the signals emitted
    \* Between the threads.
    midi_output_queue,
    midi_input_queue,
    \* The audio thread.
    initialized,
    thread,
    elapsed,            \* frames since buffer_start_time_usec
    process_sample_frame_size,
    crashed,            \* wrote past the end of its array midi_output
    \* The AudioBuffer.
    num_samples,
    midi_output,        \* rings: what was written, how much of it was read,
    midi_input,         \*   and the event count the latest writer left
    lapped,             \* history: a ring had more in flight than it holds
    \* The host.
    host,
    routed              \* what the latest run of the host was given

scriptVars == <<calling, sent, heard>>
queueVars  == <<midi_output_queue, midi_input_queue>>
roundVars  == <<initialized, thread, elapsed, process_sample_frame_size,
                crashed>>
bufferVars == <<num_samples, midi_output, midi_input, lapped>>
hostVars   == <<host, routed>>
vars == <<scriptVars, queueVars, roundVars, bufferVars, hostVars>>

Sizes == BlockSizes \cup {0, DefaultFrameSize}

(* "mixed" is history: the process_sample_frame_size the frame was         *)
(* computed from, 0 if it changed in between.                              *)
Events == [message : [size : {0, 2, 3}, data : Seq(0..255)],
           frame : 0..(FrameModulus - 1), mixed : Sizes]

RingOf(events) == [stream : Seq(events), read : Nat, count : Nat]

(* A call that has its time or its event.                                  *)
CallingOf(events) ==
    [call : Calls, time : -1..MaxElapsed] \cup [call : Calls, event : events]

(* What a ring holds where nothing was written.                            *)
NoEvent == [message |-> Message(0, 0, 0, 0), frame |-> 0, mixed |-> 0]

EmptyRing == [stream |-> <<>>, read |-> 0, count |-> 0]

Init ==
    /\ calling = {}
    /\ sent = <<>>
    /\ heard = <<>>
    /\ midi_output_queue = <<>>
    /\ midi_input_queue = <<>>
    /\ initialized = FALSE
    /\ thread = "looping"
    /\ elapsed = MaxElapsed
    /\ process_sample_frame_size = DefaultFrameSize
    /\ crashed = FALSE
    /\ num_samples = 0
    /\ midi_output = EmptyRing
    /\ midi_input = EmptyRing
    /\ lapped = FALSE
    /\ host = "idle"
    /\ routed = <<>>

-----------------------------------------------------------------------------
(* The rings: write_output_midi and read_input_midi, and their likes.      *)

Write(ring, events) ==
    [stream |-> ring.stream \o events, read |-> ring.read,
     count |-> Len(events)]

EventAt(ring, position) ==
    LET latest == Latest(Len(ring.stream), position)
    IN  IF latest >= 0 THEN ring.stream[latest + 1] ELSE NoEvent

(* Mutant: an answer is read where the ring is being written.              *)
ReadNewest(ring) ==
    [i \in 1..ring.count |->
        EventAt(ring, Len(ring.stream) - ring.count + i - 1)]

(* The code reads on from where it stopped, however much there is.         *)
Read(ring) == [i \in 1..ring.count |-> EventAt(ring, ring.read + i - 1)]

AdvanceRead(ring) == [ring EXCEPT !.read = @ + ring.count]

Laps(ring) == Len(ring.stream) - ring.read > Size

-----------------------------------------------------------------------------
(* The main thread.                                                        *)

(* A script calls: the time is taken.                                      *)
Call(call) ==
    /\ calling = {}
    /\ Len(sent) < MaxSends
    /\ calling' = {[call |-> call, time |-> elapsed]}
    /\ UNCHANGED <<sent, heard, queueVars, roundVars, bufferVars, hostVars>>

(* Mutant: the last frame is the one after the block.                      *)
FrameOffsetOfEnd(time, size, again) ==
    IF time < 0 THEN 0 ELSE IF time < size THEN time ELSE again

(* The time may be before the beginning of the round.  The size is read    *)
(* twice, to compare and to clamp; 0 - 1 is the largest uint32_t.          *)
FrameOffset(time, size, again) ==
    IF time < 0 THEN 0
    ELSE IF time < size THEN time
    ELSE (again - 1) % FrameModulus

(* get_frame_offset_for_event, without a lock: if a mix is about to set    *)
(* the size the second read may see it.                                    *)
Stamp ==
    /\ \E c \in calling :
          /\ "time" \in DOMAIN c
          /\ \E again \in {process_sample_frame_size}
                  \cup (IF thread = "looping" THEN {num_samples} ELSE {}) :
                calling' = {[call |-> c.call,
                             event |->
                               [message |-> Encoded(c.call),
                                frame |-> FrameOffset(c.time,
                                            process_sample_frame_size, again),
                                mixed |-> IF again = process_sample_frame_size
                                          THEN again ELSE 0]]}
    /\ UNCHANGED <<sent, heard, queueVars, roundVars, bufferVars, hostVars>>

(* Under midi_output_mutex.                                                *)
Push ==
    /\ \E c \in calling :
          /\ "event" \in DOMAIN c
          /\ midi_output_queue' = Append(midi_output_queue, c.event)
          /\ sent' = Append(sent, c.call)
    /\ calling' = {}
    /\ UNCHANGED <<heard, midi_input_queue, roundVars, bufferVars, hostVars>>

(* process() empties the queue under midi_input_mutex.                     *)
Process ==
    /\ calling = {}
    /\ midi_input_queue # <<>>
    /\ heard' = heard \o [i \in 1..Len(midi_input_queue) |->
                             Decoded(midi_input_queue[i].message)]
    /\ midi_input_queue' = <<>>
    /\ UNCHANGED <<calling, sent, midi_output_queue, roundVars, bufferVars,
                   hostVars>>

(* The main thread has started the audio thread.                           *)
Initialize ==
    /\ ~initialized
    /\ initialized' = TRUE
    /\ UNCHANGED <<scriptVars, queueVars, thread, elapsed,
                   process_sample_frame_size, crashed, bufferVars, hostVars>>

-----------------------------------------------------------------------------
(* The audio thread.                                                       *)

(* start_buffer_processing: a time taken before is before the round.       *)
StartBuffer ==
    /\ elapsed' = 0
    /\ calling' = {IF "time" \in DOMAIN c THEN [c EXCEPT !.time = -1] ELSE c :
                      c \in calling}

(* Godot mixes num_samples frames.  It need not call process_sample for no *)
(* frames.                                                                 *)
Mix ==
    /\ thread = "looping"
    /\ IF initialized
       THEN /\ StartBuffer
            /\ \/ process_sample_frame_size' = num_samples
               \/ /\ num_samples = 0
                  /\ UNCHANGED process_sample_frame_size
       ELSE UNCHANGED <<elapsed, calling, process_sample_frame_size>>
    /\ thread' = "waiting"
    /\ UNCHANGED <<sent, heard, queueVars, initialized, crashed, bufferVars,
                   hostVars>>

WaitTimeout ==
    /\ thread = "waiting"
    /\ thread' = "looping"
    /\ UNCHANGED <<scriptVars, queueVars, initialized, elapsed,
                   process_sample_frame_size, crashed, bufferVars, hostVars>>

(* The host's notify: the events move both ways.  The array midi_output    *)
(* has as many entries as the ring; the queue may be longer.               *)
Answer ==
    /\ thread = "woken"
    /\ midi_input_queue' = midi_input_queue \o Read(midi_input)
    /\ midi_input' = AdvanceRead(midi_input)
    /\ midi_output' = Write(midi_output, midi_output_queue)
    /\ midi_output_queue' = <<>>
    /\ crashed' = (Len(midi_output_queue) > Size)
    /\ lapped' = (lapped \/ Laps(midi_output'))
    /\ host' = IF host = "waiting" THEN "woken" ELSE host
    /\ thread' = "looping"
    /\ UNCHANGED <<scriptVars, initialized, elapsed,
                   process_sample_frame_size, num_samples, routed>>

-----------------------------------------------------------------------------
(* The host.                                                               *)

(* run() hands over a block and the events the host has for the plugin.    *)
(* The audio thread may be anywhere but in a round under the mutex.        *)
HandOver ==
    /\ host = "idle"
    /\ num_samples' \in BlockSizes
    /\ midi_input' = Write(midi_input, routed)
    /\ lapped' = (lapped \/ Laps(midi_input'))
    /\ routed' = <<>>
    /\ host' = "waiting"
    /\ thread' = IF thread = "waiting" THEN "woken" ELSE thread
    /\ UNCHANGED <<scriptVars, queueVars, initialized, elapsed,
                   process_sample_frame_size, crashed, midi_output>>

(* The answer has come: the host is given the events.                      *)
Deliver ==
    /\ host = "woken"
    /\ routed' = Read(midi_output)
    /\ midi_output' = AdvanceRead(midi_output)
    /\ host' = "idle"
    /\ UNCHANGED <<scriptVars, queueVars, roundVars, num_samples, midi_input,
                   lapped>>

(* No answer within 100 ms: the host is given no events.                   *)
Miss ==
    /\ host = "waiting"
    /\ host' = "idle"
    /\ UNCHANGED <<scriptVars, queueVars, roundVars, bufferVars, routed>>

Tick ==
    /\ elapsed < MaxElapsed
    /\ elapsed' = elapsed + 1
    /\ UNCHANGED <<scriptVars, queueVars, initialized, thread,
                   process_sample_frame_size, crashed, bufferVars, hostVars>>

-----------------------------------------------------------------------------
(* What a write past the end of the array does is undefined: nothing is    *)
(* said of what follows.                                                   *)
Step ==
    \/ \E call \in Calls : Call(call)
    \/ Stamp
    \/ Push
    \/ Process
    \/ Initialize
    \/ Mix
    \/ WaitTimeout
    \/ Answer
    \/ HandOver
    \/ Deliver
    \/ Miss
    \/ Tick

Next == ~crashed /\ Step

Spec == Init /\ [][Next]_vars

-----------------------------------------------------------------------------
(* As long as no ring was lapped and no array overflowed, what scripts     *)
(* hear is what was sent, in the order it was sent: nothing is lost,       *)
(* doubled or misread through three queues, two rings, any number of       *)
(* missed runs and whatever kind of call sent it                           *)
(* (send_midi_event .. midi_poly_aftertouch, emit_midi_event).             *)
HeardAsSent ==
    ~lapped /\ ~crashed =>
        /\ Len(heard) <= Len(sent)
        /\ \A i \in 1..Len(heard) : heard[i] = Meant(sent[i])

(* The frame of an event lies in the block it is delivered with, if the    *)
(* block has the size the mix had when the event was made                  *)
(* (get_frame_offset_for_event).                                           *)
FramesFitBlock ==
    \A i \in 1..Len(routed) :
        routed[i].mixed = num_samples /\ num_samples > 0
            => routed[i].frame < num_samples

(* Every variable keeps its type: what is in a queue or a ring is a        *)
(* message of bytes with a frame that fits its width.                      *)
TypeOK ==
    /\ calling \subseteq CallingOf(Events)
    /\ sent \in Seq(Calls)
    /\ Len(heard) \in Nat
    /\ midi_output_queue \in Seq(Events)
    /\ midi_input_queue \in Seq(Events)
    /\ initialized \in BOOLEAN
    /\ thread \in {"looping", "waiting", "woken"}
    /\ elapsed \in 0..MaxElapsed
    /\ process_sample_frame_size \in Sizes
    /\ crashed \in BOOLEAN
    /\ num_samples \in Sizes
    /\ midi_output \in RingOf(Events)
    /\ midi_input \in RingOf(Events)
    /\ lapped \in BOOLEAN
    /\ host \in {"idle", "waiting", "woken"}
    /\ routed \in Seq(Events)

=============================================================================
