-------------------------- MODULE MidiMessagesProofs --------------------------
(***************************************************************************)
(* Proofs about MidiMessages, for any calls, sizes and bounds: a message   *)
(* says to who hears it what the call meant, a frame fits its block, and   *)
(* messages arrive in the order they were sent, as bytes.                  *)
(***************************************************************************)
EXTENDS MidiMessages, SequenceTheorems, TLAPS

(* The slot of a position, and that of one of the ring before.             *)
LEMMA DivMod ==
    ASSUME NEW a \in Int
    PROVE  /\ a \div Size \in Int
           /\ Slot(a) \in Int /\ 0 <= Slot(a) /\ Slot(a) < Size
           /\ a = (Size * (a \div Size)) + Slot(a)
BY SizeAssumption, Z3 DEF Slot

LEMMA SlotBefore ==
    ASSUME NEW b \in Int, b + Size >= 0, b < 0
    PROVE  Slot(b) = b + Size
<1>1. PICK q \in Int, s \in Int :
         s = Slot(b) /\ 0 <= s /\ s < Size /\ b = (Size * q) + s
  BY DivMod
<1>2. PICK r \in Int : r = q + 1
  OBVIOUS
<1>3. Size * r = (Size * q) + Size /\ Size \in Nat
  BY <1>2, SizeAssumption, Z3
<1>4. PICK m \in Int, size \in Nat : m = Size * q /\ size = Size
  BY <1>3, SizeAssumption, Z3
<1>5. Size * r < Size /\ Size * r > -Size
  BY <1>1, <1>3, <1>4
<1>6. r = 0
  BY <1>5, SizeAssumption, Z3
<1>7. m + size = 0
  BY <1>3, <1>4, <1>6
<1> QED
  BY <1>1, <1>4, <1>7

-----------------------------------------------------------------------------
(* The messages.                                                           *)

LEMMA Clamped ==
    ASSUME NEW value \in Int, NEW high \in Nat
    PROVE  Clamp(value, 0, high) \in 0..high
BY DEF Clamp

LEMMA ClampedBend ==
    ASSUME NEW value \in Int
    PROVE  Clamp(value, 0, MaxBend) \in 0..MaxBend
<1>1. MaxBend \in Nat
  BY DEF MaxBend
<1> QED
  BY <1>1, Clamped

Statuses == {128, 144, 160, 176, 192, 208, 224}
Bends    == 0..MaxBend

(* What stays of a number that is in range.                                *)
LEMMA Bits ==
    /\ \A n \in DataBytes : n % 128 = n /\ n % 256 = n
    /\ \A n \in Channels : n % 16 = n
    /\ \A n \in Channels : \A base \in Statuses : (base + n) % 16 = n
BY Z3 DEF DataBytes, Channels, Statuses

(* Splitting a pitch bend and putting it together again.                   *)
LEMMA Bend ==
    ASSUME NEW n \in Bends
    PROVE  /\ n % 128 \in DataBytes
           /\ (n \div 128) % 128 = n \div 128
           /\ n \div 128 \in DataBytes
           /\ ((n \div 128) * 128) + (n % 128) = n
BY Z3 DEF Bends, MaxBend, DataBytes

LEMMA ClampsNothing ==
    /\ \A n \in DataBytes : Clamp(n, 0, 127) = n
    /\ \A low, high \in DataBytes :
          Clamp((high * 128) + low, 0, MaxBend) = (high * 128) + low
BY DEF Clamp, DataBytes, MaxBend

(* What is heard of three bytes.                                           *)
LEMMA DecodedBytes ==
    ASSUME NEW size, NEW channel \in Channels, NEW data1, NEW data2,
           NEW status \in Statuses
    PROVE  Decoded(Message(size, status + channel, data1, data2)) =
                Emitted(status, channel, data1, data2)
<1> DEFINE m == Message(size, status + channel, data1, data2)
<1>1. m.data[1] = status + channel /\ m.data[2] = data1 /\ m.data[3] = data2
  BY DEF Message
<1>2. m.data[1] % 16 = channel
  BY <1>1, Bits
<1>3. m.data[1] - (m.data[1] % 16) = status
  BY <1>1, <1>2 DEF Channels, Statuses
<1>4. Decoded(m) = Emitted(m.data[1] - (m.data[1] % 16), m.data[1] % 16,
                          m.data[2], m.data[3])
  BY Zenon DEF Decoded
<1> HIDE DEF m
<1> QED
  <2>1. Decoded(m) = Emitted(status, channel, data1, data2)
    BY <1>1, <1>2, <1>3, <1>4, Zenon
  <2> QED
    BY <2>1, Zenon DEF m

PlainKinds == Kinds \ {"channel_pressure", "pitch_bend"}

(* The signal of each kind of call.                                        *)
LEMMA PlainCall ==
    ASSUME NEW kind \in PlainKinds, NEW channel \in Channels,
           NEW data1 \in DataBytes, NEW data2 \in DataBytes
    PROVE  Emitted(Status[kind], channel, data1, data2) =
                MeantBy(kind, channel, data1, data2)
<1>1. CASE kind = "note_off"
  BY <1>1 DEF Emitted, MeantBy, Status, Signal
<1>2. CASE kind = "note_on"
  <2>1. CASE data2 = 0
    BY <1>2, <2>1 DEF Emitted, MeantBy, Status, Signal
  <2>2. CASE data2 > 0 /\ data2 # 0
    BY <1>2, <2>2 DEF Emitted, MeantBy, Status, Signal
  <2> QED
    BY <2>1, <2>2 DEF DataBytes
<1>3. CASE kind = "midi_poly_aftertouch"
  BY <1>3 DEF Emitted, MeantBy, Status, Signal
<1>4. CASE kind = "control_change"
  BY <1>4 DEF Emitted, MeantBy, Status, Signal
<1>5. CASE kind = "program_change"
  BY <1>5 DEF Emitted, MeantBy, Status, Signal
<1> QED
  BY <1>1, <1>2, <1>3, <1>4, <1>5 DEF PlainKinds, Kinds, Status

LEMMA PressureCall ==
    ASSUME NEW channel \in Channels, NEW data1 \in DataBytes, NEW data2
    PROVE  Emitted(208, channel, data1, data2) =
                <<"midi_channel_pressure", channel, data1>>
BY DEF Emitted

LEMMA BendCall ==
    ASSUME NEW channel \in Channels, NEW data1 \in DataBytes,
           NEW data2 \in DataBytes
    PROVE  Emitted(224, channel, data1, data2) =
                <<"midi_pitch_bend", channel, (data2 * 128) + data1>>
<1>1. data1 % 128 = data1 /\ data2 % 128 = data2
  BY Bits
<1> QED
  BY <1>1 DEF Emitted

(* The status of a DistrhoMidiEvent has a kind and a channel.              *)
LEMMA SplitStatus ==
    ASSUME NEW status \in StatusBytes
    PROVE  /\ status % 16 \in Channels
           /\ status - (status % 16) \in Statuses
           /\ (status - (status % 16)) + (status % 16) = status
           /\ status % 256 = status
BY Z3 DEF StatusBytes, Channels, Statuses

LEMMA KindOfStatus ==
    ASSUME NEW status \in Statuses
    PROVE  KindOf(status) \in Kinds /\ Status[KindOf(status)] = status
<1>1. \E kind \in Kinds : Status[kind] = status
  BY DEF Kinds, Status, Statuses
<1> QED
  BY <1>1, Zenon DEF KindOf

LEMMA StatusOfKind ==
    /\ \A kind \in Kinds : Status[kind] \in Statuses
    /\ 192 \in Statuses /\ 208 \in Statuses /\ 224 \in Statuses
BY DEF Kinds, Status, Statuses

LEMMA NoteEncoded ==
    ASSUME NEW call \in LegalCalls,
           call.name \in {"note_off", "note_on", "midi_poly_aftertouch",
                         "control_change"}
    PROVE  Decoded(Encoded(call)) = Meant(call)
<1>1. PICK channel \in Channels : channel = call.channel
  BY DEF LegalCalls
<1>2. PICK data1 \in DataBytes : data1 = call.data1
  BY DEF LegalCalls
<1>3. PICK data2 \in DataBytes : data2 = call.data2
  BY DEF LegalCalls
<1>4. PICK kind \in PlainKinds : kind = call.name
  BY DEF PlainKinds, Kinds, Status
<1>5. PICK status \in Statuses :
         status = Status[kind]
  BY StatusOfKind DEF PlainKinds
<1>6. /\ channel % 16 = channel
      /\ data1 % 128 = data1 /\ data1 % 256 = data1
      /\ data2 % 128 = data2 /\ data2 % 256 = data2
  BY Bits
<1>7. Encoded(call) = Message(3, status + channel, data1, data2)
  BY <1>1, <1>2, <1>3, <1>4, <1>5, <1>6 DEF Encoded
<1>8. Decoded(Message(3, status + channel, data1, data2)) =
          Emitted(status, channel, data1, data2)
  BY StatusOfKind, DecodedBytes
<1>9. Emitted(status, channel, data1, data2) =
          MeantBy(kind, channel, data1, data2)
  BY <1>5, PlainCall, Zenon
<1>10. call.name # "send_midi_event"
  OBVIOUS
<1>11. Meant(call) = MeantBy(kind, channel, data1, data2)
  BY <1>1, <1>2, <1>3, <1>4, <1>10, Zenon DEF Meant
<1> QED
  BY <1>7, <1>8, <1>9, <1>11, Zenon

LEMMA ProgramEncoded ==
    ASSUME NEW call \in LegalCalls, call.name = "program_change"
    PROVE  Decoded(Encoded(call)) = Meant(call)
<1>1. PICK channel \in Channels : channel = call.channel
  BY DEF LegalCalls
<1>2. PICK data1 \in DataBytes : data1 = call.data1
  BY DEF LegalCalls
<1>3. channel % 16 = channel /\ data1 % 128 = data1
  BY Bits
<1>4. Encoded(call) = Message(2, 192 + channel, data1, 0)
  BY <1>1, <1>2, <1>3 DEF Encoded, Status
<1>5. Decoded(Message(2, 192 + channel, data1, 0)) =
          Emitted(192, channel, data1, 0)
  BY StatusOfKind, DecodedBytes
<1>6. Emitted(192, channel, data1, 0) =
          <<"midi_program_change", channel, data1>>
  BY DEF Emitted
<1>7. Meant(call) = <<"midi_program_change", channel, data1>>
  BY <1>1, <1>2 DEF Meant, MeantBy, Signal
<1> QED
  BY <1>4, <1>5, <1>6, <1>7, Zenon

LEMMA PressureEncoded ==
    ASSUME NEW call \in LegalCalls, call.name = "channel_pressure"
    PROVE  Decoded(Encoded(call)) = Meant(call)
<1>1. PICK channel \in Channels : channel = call.channel
  BY DEF LegalCalls
<1>2. PICK value \in Int : value = call.data1
  BY DEF LegalCalls
<1>3. PICK pressure \in DataBytes : pressure = Clamp(value, 0, 127)
  BY Clamped DEF DataBytes
<1>4. channel % 16 = channel /\ pressure % 128 = pressure
  BY Bits
<1>5. Encoded(call) = Message(2, 208 + channel, pressure, 0)
  BY <1>1, <1>2, <1>3, <1>4 DEF Encoded, Status
<1>6. Decoded(Message(2, 208 + channel, pressure, 0)) =
          Emitted(208, channel, pressure, 0)
  BY StatusOfKind, DecodedBytes
<1>7. Emitted(208, channel, pressure, 0) =
          <<"midi_channel_pressure", channel, pressure>>
  BY PressureCall
<1>8. Meant(call) = <<"midi_channel_pressure", channel, pressure>>
  BY <1>1, <1>2, <1>3 DEF Meant, MeantBy, Signal
<1> QED
  BY <1>5, <1>6, <1>7, <1>8, Zenon

LEMMA BendEncoded ==
    ASSUME NEW call \in LegalCalls, call.name = "pitch_bend"
    PROVE  Decoded(Encoded(call)) = Meant(call)
<1>1. PICK channel \in Channels : channel = call.channel
  BY DEF LegalCalls
<1>2. PICK value \in Int : value = call.data1
  BY DEF LegalCalls
<1>3. PICK bend \in Bends : bend = Clamp(value, 0, MaxBend)
  BY ClampedBend DEF Bends
<1>4. PICK low \in DataBytes : low = bend % 128
  BY Bend
<1>5. PICK high \in DataBytes : high = bend \div 128
  BY Bend
<1>6. /\ channel % 16 = channel
      /\ (bend \div 128) % 128 = high
      /\ (high * 128) + low = bend
  BY <1>4, <1>5, Bits, Bend
<1>7. Encoded(call) = BendMessage(channel, bend)
  BY <1>1, <1>2, <1>3 DEF Encoded
<1>8. BendMessage(channel, bend) = Message(3, 224 + channel, low, high)
  BY <1>4, <1>6 DEF BendMessage, Status
<1>9. Decoded(Message(3, 224 + channel, low, high)) =
          Emitted(224, channel, low, high)
  BY StatusOfKind, DecodedBytes
<1>10. Emitted(224, channel, low, high) =
          <<"midi_pitch_bend", channel, bend>>
  BY <1>6, BendCall
<1>11. Meant(call) = <<"midi_pitch_bend", channel, bend>>
  BY <1>1, <1>2, <1>3 DEF Meant, MeantBy, Signal
<1> QED
  BY <1>7, <1>8, <1>9, <1>10, <1>11, Zenon

LEMMA EventEncoded ==
    ASSUME NEW call \in LegalCalls, call.name = "send_midi_event"
    PROVE  Decoded(Encoded(call)) = Meant(call)
<1>1. PICK whole \in StatusBytes : whole = call.status
  BY DEF LegalCalls
<1>2. PICK data1 \in DataBytes : data1 = call.data1
  BY DEF LegalCalls
<1>3. PICK data2 \in DataBytes : data2 = call.data2
  BY DEF LegalCalls
<1>4. PICK channel \in Channels : channel = whole % 16
  BY SplitStatus
<1>5. PICK status \in Statuses :
         status = whole - (whole % 16)
  BY SplitStatus
<1>6. /\ status + channel = whole /\ whole % 256 = whole
      /\ data1 % 256 = data1 /\ data2 % 256 = data2
  BY <1>4, <1>5, SplitStatus, Bits
<1>7. PICK kind \in Kinds :
         /\ kind = KindOf(status)
         /\ Status[kind] = status
  BY KindOfStatus
<1>8. Meant(call) =
          MeantBy(kind, channel,
                  IF kind = "pitch_bend"
                  THEN (data2 * 128) + data1 ELSE data1, data2)
  BY <1>1, <1>2, <1>3, <1>4, <1>5, <1>7, Zenon DEF Meant
<1>9. Encoded(call) = Message(3, status + channel, data1, data2)
  BY <1>1, <1>2, <1>3, <1>6 DEF Encoded
<1>10. Decoded(Message(3, status + channel, data1, data2)) =
          Emitted(status, channel, data1, data2)
  BY StatusOfKind, DecodedBytes
<1>11. CASE kind \notin {"channel_pressure", "pitch_bend"}
  <2>1. Emitted(Status[kind], channel, data1, data2) =
            MeantBy(kind, channel, data1, data2)
    BY <1>11, PlainCall, Zenon DEF PlainKinds
  <2>2. Meant(call) = MeantBy(kind, channel, data1, data2)
    BY <1>8, <1>11
  <2> QED
    BY <1>7, <1>9, <1>10, <2>1, <2>2, Zenon
<1>12. CASE kind = "channel_pressure"
  <2>1. Clamp(data1, 0, 127) = data1
    BY ClampsNothing
  <2>2. Meant(call) = <<"midi_channel_pressure", channel, data1>>
    BY <1>8, <1>12, <2>1 DEF MeantBy, Signal
  <2>5. Status["channel_pressure"] = 208
    BY DEF Status
  <2>3. status = 208
    BY <1>7, <1>12, <2>5, Zenon
  <2>4. Emitted(208, channel, data1, data2) =
            <<"midi_channel_pressure", channel, data1>>
    BY PressureCall
  <2> QED
    BY <1>9, <1>10, <2>2, <2>3, <2>4, Zenon
<1>13. CASE kind = "pitch_bend"
  <2>1. Clamp((data2 * 128) + data1, 0, MaxBend) = (data2 * 128) + data1
    BY ClampsNothing
  <2>2. Meant(call) = <<"midi_pitch_bend", channel, (data2 * 128) + data1>>
    BY <1>8, <1>13, <2>1 DEF MeantBy, Signal
  <2>5. Status["pitch_bend"] = 224
    BY DEF Status
  <2>3. status = 224
    BY <1>7, <1>13, <2>5, Zenon
  <2>4. Emitted(224, channel, data1, data2) =
            <<"midi_pitch_bend", channel, (data2 * 128) + data1>>
    BY BendCall
  <2> QED
    BY <1>9, <1>10, <2>2, <2>3, <2>4, Zenon
<1> QED
  BY <1>11, <1>12, <1>13

(* Whatever a script sends with arguments MIDI allows, the signal another  *)
(* script hears of its bytes is the one the call meant: note_on ..         *)
(* send_midi_event against emit_midi_event.                                *)
THEOREM DecodesWhatIsEncoded ==
    \A call \in LegalCalls : Decoded(Encoded(call)) = Meant(call)
<1> SUFFICES ASSUME NEW call \in LegalCalls
             PROVE  Decoded(Encoded(call)) = Meant(call)
  OBVIOUS
<1>1. call.name \in {"note_off", "note_on", "midi_poly_aftertouch",
                    "control_change", "program_change", "channel_pressure",
                    "pitch_bend", "send_midi_event"}
  BY DEF LegalCalls
<1> QED
  BY <1>1, NoteEncoded, ProgramEncoded, PressureEncoded, BendEncoded,
     EventEncoded

-----------------------------------------------------------------------------
(* The frames.                                                             *)

Good(event) ==
    /\ event.frame \in Nat
    /\ event.mixed \in Nat
    /\ event.mixed > 0 => event.frame < event.mixed

GoodEvents ==
    {event \in [message : {Encoded(call) : call \in Calls}
                            \cup {Message(0, 0, 0, 0)},
                frame : 0..(FrameModulus - 1), mixed : Sizes] : Good(event)}

Rings == RingOf(GoodEvents)

Callings == CallingOf(GoodEvents)

(* Why a frame fits: wherever an event is kept, its frame is less than the *)
(* size it was computed from.                                              *)
Inv ==
    /\ calling \subseteq Callings
    /\ elapsed \in 0..MaxElapsed
    /\ process_sample_frame_size \in Sizes
    /\ num_samples \in Sizes
    /\ midi_output_queue \in Seq(GoodEvents)
    /\ midi_output \in Rings
    /\ midi_input \in Rings
    /\ routed \in Seq(GoodEvents)

LEMMA SizesFit ==
    /\ Sizes \subseteq Nat
    /\ \A n \in Sizes : n < FrameModulus
    /\ FrameModulus \in Nat \ {0}
    /\ 0 \in Sizes
BY FramesAssumption DEF Sizes

LEMMA StampedFits ==
    ASSUME NEW time \in Int, NEW size \in Sizes, NEW again \in Sizes
    PROVE  /\ FrameOffset(time, size, again) \in 0..(FrameModulus - 1)
           /\ again = size /\ size > 0 =>
                 FrameOffset(time, size, again) < size
<1>1. /\ FrameModulus \in Nat \ {0} /\ size \in Nat /\ again \in Nat
      /\ size < FrameModulus
  BY SizesFit
<1>2. (again - 1) % FrameModulus \in 0..(FrameModulus - 1)
  BY <1>1, Z3
<1>3. ASSUME again > 0
      PROVE  (again - 1) % FrameModulus <= again - 1
  BY <1>1, <1>3, Z3
<1> QED
  BY <1>1, <1>2, <1>3 DEF FrameOffset

LEMMA ReadIsGood ==
    ASSUME NEW ring \in Rings
    PROVE  /\ Read(ring) \in Seq(GoodEvents)
           /\ AdvanceRead(ring) \in Rings
<1>1. NoEvent \in GoodEvents
  BY SizesFit DEF NoEvent, GoodEvents, Good
<1>2. ASSUME NEW position \in Int
      PROVE  EventAt(ring, position) \in GoodEvents
  <2>1. PICK stream \in Seq(GoodEvents) : stream = ring.stream
    BY DEF Rings, RingOf
  <2>2. PICK latest \in Int :
           /\ latest = Latest(Len(stream), position)
           /\ latest < Len(stream)
    <3>1. PICK written \in Nat : written = Len(stream)
      OBVIOUS
    <3>2. PICK offset \in Int : offset = position - written
      OBVIOUS
    <3>3. PICK slot \in Int : slot = Slot(offset) /\ slot < Size
      BY DivMod
    <3> QED
      BY <3>1, <3>2, <3>3, SizeAssumption DEF Latest
  <2>3. CASE latest >= 0
    <3>1. stream[latest + 1] \in GoodEvents
      BY <2>2, <2>3
    <3> QED
      BY <2>1, <2>2, <2>3, <3>1 DEF EventAt
  <2>4. CASE ~(latest >= 0)
    BY <1>1, <2>1, <2>2, <2>4 DEF EventAt
  <2> QED
    BY <2>3, <2>4
<1>3. ring.count \in Nat /\ ring.read \in Nat
  BY DEF Rings, RingOf
<1>4. \A i \in 1..ring.count : EventAt(ring, ring.read + i - 1) \in GoodEvents
  BY <1>2, <1>3
<1>5. Read(ring) \in Seq(GoodEvents)
  BY <1>3, <1>4, IsASeq DEF Read
<1>6. AdvanceRead(ring) \in Rings
  BY <1>3 DEF AdvanceRead, Rings, RingOf
<1> QED
  BY <1>5, <1>6

LEMMA WriteIsGood ==
    ASSUME NEW ring \in Rings, NEW events \in Seq(GoodEvents)
    PROVE  Write(ring, events) \in Rings
BY DEF Write, Rings, RingOf

-----------------------------------------------------------------------------
LEMMA InvInit == Init => Inv
BY SizesFit, FramesAssumption
   DEF Init, Inv, EmptyRing, Rings, RingOf, Sizes

LEMMA InvNext ==
    ASSUME Inv
    PROVE  [Next]_vars => Inv'
<1> USE DEF Inv
<1>1. ASSUME NEW call \in Calls
      PROVE  Call(call) => Inv'
  BY DEF Call, Callings, CallingOf, queueVars, roundVars, bufferVars, hostVars
<1>2. Stamp => Inv'
  <2> SUFFICES ASSUME Stamp
               PROVE  Inv'
    OBVIOUS
  <2>1. PICK c \in calling :
           /\ "time" \in DOMAIN c
           /\ \E again \in {process_sample_frame_size, num_samples} :
                calling' = {[call |-> c.call,
                             event |->
                               [message |-> Encoded(c.call),
                                frame |-> FrameOffset(c.time,
                                            process_sample_frame_size, again),
                                mixed |-> IF again = process_sample_frame_size
                                          THEN again ELSE 0]]}
    BY DEF Stamp
  <2>2. c.call \in Calls /\ c.time \in -1..MaxElapsed /\ c.time \in Int
    BY <2>1 DEF Callings, CallingOf
  <2>3. PICK again \in Sizes :
           calling' = {[call |-> c.call,
                        event |->
                          [message |-> Encoded(c.call),
                           frame |-> FrameOffset(c.time,
                                       process_sample_frame_size, again),
                           mixed |-> IF again = process_sample_frame_size
                                     THEN again ELSE 0]]}
    BY <2>1
  <2>4. PICK frame \in 0..(FrameModulus - 1) :
           /\ frame = FrameOffset(c.time, process_sample_frame_size, again)
           /\ again = process_sample_frame_size /\ again > 0 => frame < again
    BY <2>2, StampedFits, SizesFit
  <2>5. PICK mixed \in Sizes :
           /\ mixed = IF again = process_sample_frame_size THEN again ELSE 0
           /\ mixed > 0 => frame < mixed
    BY <2>4, SizesFit
  <2>6. [message |-> Encoded(c.call), frame |-> frame, mixed |-> mixed]
            \in GoodEvents
    <3>1. mixed \in Nat /\ frame \in Nat
      BY <2>5, SizesFit
    <3> QED
      BY <2>2, <2>5, <3>1 DEF GoodEvents, Good
  <2>7. calling' \subseteq Callings
    BY <2>2, <2>3, <2>4, <2>5, <2>6 DEF Callings, CallingOf
  <2> QED
    BY <2>7 DEF Stamp, queueVars, roundVars, bufferVars, hostVars
<1>3. Push => Inv'
  <2> SUFFICES ASSUME Push
               PROVE  Inv'
    OBVIOUS
  <2>1. PICK c \in calling :
           /\ "event" \in DOMAIN c
           /\ midi_output_queue' = Append(midi_output_queue, c.event)
    BY DEF Push
  <2>2. c.event \in GoodEvents
    BY <2>1 DEF Callings, CallingOf
  <2>3. midi_output_queue' \in Seq(GoodEvents)
    BY <2>1, <2>2
  <2> QED
    BY <2>3 DEF Push, roundVars, bufferVars, hostVars
<1>4. Process => Inv'
  BY DEF Process, roundVars, bufferVars, hostVars
<1>5. Initialize => Inv'
  BY DEF Initialize, scriptVars, queueVars, bufferVars, hostVars
<1>6. Mix => Inv'
  <2> SUFFICES ASSUME Mix
               PROVE  Inv'
    OBVIOUS
  <2>1. ASSUME NEW c \in Callings, "time" \in DOMAIN c
        PROVE  [c EXCEPT !.time = -1] \in Callings
    <3>1. -1 \in -1..MaxElapsed
      BY FramesAssumption
    <3> QED
      BY <2>1, <3>1 DEF Callings, CallingOf
  <2>2. calling' \subseteq Callings
    BY <2>1 DEF Mix, StartBuffer
  <2>3. elapsed' \in 0..MaxElapsed /\ process_sample_frame_size' \in Sizes
    BY FramesAssumption DEF Mix, StartBuffer
  <2> QED
    BY <2>2, <2>3 DEF Mix, queueVars, bufferVars, hostVars
<1>7. WaitTimeout => Inv'
  BY DEF WaitTimeout, scriptVars, queueVars, bufferVars, hostVars
<1>8. Answer => Inv'
  BY ReadIsGood, WriteIsGood DEF Answer, scriptVars
<1>9. HandOver => Inv'
  BY WriteIsGood, SizesFit DEF HandOver, scriptVars, queueVars, Sizes
<1>10. Deliver => Inv'
  BY ReadIsGood DEF Deliver, scriptVars, queueVars, roundVars
<1>11. Miss => Inv'
  BY DEF Miss, scriptVars, queueVars, roundVars, bufferVars
<1>12. Tick => Inv'
  BY FramesAssumption DEF Tick, scriptVars, queueVars, bufferVars, hostVars
<1>13. UNCHANGED vars => Inv'
  BY DEF vars, scriptVars, queueVars, roundVars, bufferVars, hostVars
<1> QED
  BY <1>1, <1>2, <1>3, <1>4, <1>5, <1>6, <1>7, <1>8, <1>9, <1>10, <1>11,
     <1>12, <1>13 DEF Next, Step

LEMMA InvFits == Inv => FramesFitBlock
<1> SUFFICES ASSUME Inv, NEW i \in 1..Len(routed)
             PROVE  routed[i].mixed = num_samples /\ num_samples > 0
                        => routed[i].frame < num_samples
  BY DEF FramesFitBlock
<1>1. routed[i] \in GoodEvents
  BY DEF Inv
<1> QED
  BY <1>1 DEF Inv, GoodEvents, Good

(* The frame of an event lies in its block whenever the block has the size *)
(* the frame was computed from (get_frame_offset_for_event): for blocks of *)
(* any size, rings of any size, any calls and any loss of time.            *)
THEOREM FramesFit == Spec => []FramesFitBlock
<1>1. Inv /\ [Next]_vars => Inv'
  BY InvNext
<1> QED
  BY InvInit, <1>1, InvFits, PTL DEF Spec

-----------------------------------------------------------------------------
(* The order of the events.                                                *)

(* What lies in the ring is what is read.                                  *)
LEMMA EventAtPosition ==
    ASSUME NEW ring \in Rings, NEW position \in Nat,
           position < Len(ring.stream), Len(ring.stream) - position <= Size
    PROVE  EventAt(ring, position) = ring.stream[position + 1]
<1>1. PICK stream \in Seq(GoodEvents) : stream = ring.stream
  BY DEF Rings, RingOf
<1>2. PICK written \in Nat : written = Len(stream)
  BY LenProperties
<1>3. PICK back \in Int : back = position - written
  OBVIOUS
<1>4. Size \in Nat /\ back + Size >= 0 /\ back < 0
  <2>1. PICK size \in Nat : size = Size
    BY SizeAssumption
  <2>2. position < written /\ written - position <= size
    BY <1>1, <1>2, <2>1
  <2>3. back + size >= 0 /\ back < 0
    BY <1>2, <1>3, <2>2
  <2> QED
    BY <2>1, <2>3
<1>5. Slot(back) = back + Size
  BY <1>4, SlotBefore
<1>6. Latest(written, position) = position
  <2>1. Latest(written, position) = (written - Size) + Slot(back)
    BY <1>3 DEF Latest
  <2>2. PICK slot \in Int : slot = Slot(back) /\ slot = back + Size
    BY <1>4, <1>5
  <2>3. PICK size \in Nat : size = Size
    BY <1>4
  <2>4. Latest(written, position) = (written - size) + (back + size)
    BY <2>1, <2>2, <2>3
  <2> QED
    BY <1>3, <2>4
<1> QED
  BY <1>1, <1>2, <1>6 DEF EventAt

LEMMA ReadInOrder ==
    ASSUME NEW ring \in Rings,
           ring.read + ring.count <= Len(ring.stream),
           Len(ring.stream) - ring.read <= Size
    PROVE  /\ Len(Read(ring)) = ring.count
           /\ \A i \in 1..ring.count :
                 Read(ring)[i] = ring.stream[ring.read + i]
<1>1. PICK read \in Nat, count \in Nat, length \in Nat :
         /\ read = ring.read /\ count = ring.count
         /\ length = Len(ring.stream)
  BY DEF Rings, RingOf
<1>2. Read(ring) = [i \in 1..count |-> EventAt(ring, read + i - 1)]
  BY <1>1 DEF Read
<1>3. Len(Read(ring)) = count
  <2>1. Read(ring) \in Seq(GoodEvents)
    BY ReadIsGood
  <2>2. DOMAIN Read(ring) = 1..count
    BY <1>2
  <2> QED
    BY <1>1, <2>1, <2>2, LenProperties
<1>4. ASSUME NEW i \in 1..count
      PROVE  EventAt(ring, read + i - 1) = ring.stream[read + i]
  <2>1. PICK position \in Nat : position = read + i - 1
    BY <1>1
  <2>2. position < length /\ length - position <= Size
    <3>1. PICK size \in Nat : size = Size
      BY SizeAssumption
    <3>2. read + count <= length /\ length - read <= size
      BY <1>1, <3>1
    <3>3. position < length /\ length - position <= size
      BY <2>1, <3>2
    <3> QED
      BY <3>1, <3>3
  <2>3. EventAt(ring, position) = ring.stream[position + 1]
    BY <1>1, <2>2, EventAtPosition
  <2>4. position + 1 = read + i
    BY <2>1
  <2> QED
    BY <2>1, <2>3, <2>4
<1> QED
  BY <1>1, <1>2, <1>3, <1>4

(* The events of scripts are those in the ring and the queue, in order.    *)
SentInOrder ==
    /\ Len(sent) = Len(midi_output.stream) + Len(midi_output_queue)
    /\ \A i \in 1..Len(midi_output.stream) :
          midi_output.stream[i].message = Encoded(sent[i])
    /\ \A i \in 1..Len(midi_output_queue) :
          midi_output_queue[i].message =
              Encoded(sent[Len(midi_output.stream) + i])
    /\ \A c \in calling :
          "event" \in DOMAIN c => c.event.message = Encoded(c.call)

(* Nobody reads further than the other has written.                        *)
ReadsInOrder ==
    /\ midi_output.read <= Len(midi_output.stream)
    /\ Len(midi_output.stream) - midi_output.read <= Size
    /\ host = "woken" =>
          midi_output.read + midi_output.count <= Len(midi_output.stream)
    /\ midi_input.read <= Len(midi_input.stream)
    /\ Len(midi_input.stream) - midi_input.read <= Size
    /\ thread = "woken" =>
          midi_input.read + midi_input.count <= Len(midi_input.stream)

(* What was read of the one ring is in the other, or on its way.           *)
RoutedInOrder ==
    /\ midi_output.read = Len(midi_input.stream) + Len(routed)
    /\ \A i \in 1..Len(midi_input.stream) :
          midi_input.stream[i].message = midi_output.stream[i].message
    /\ \A i \in 1..Len(routed) :
          routed[i].message =
              midi_output.stream[Len(midi_input.stream) + i].message
    /\ host # "idle" => routed = <<>>

(* What was read of that one was heard, or is about to be.                 *)
HeardInOrder ==
    /\ midi_input.read = Len(heard) + Len(midi_input_queue)
    /\ \A i \in 1..Len(heard) :
          heard[i] = Decoded(midi_input.stream[i].message)
    /\ \A i \in 1..Len(midi_input_queue) :
          midi_input_queue[i].message =
              midi_input.stream[Len(heard) + i].message

Signals == {Decoded(event.message) : event \in GoodEvents}

(* Why what is heard is what was sent: at each point between the script    *)
(* that calls and the script that hears, the events are those of the point *)
(* before, from the first on.                                              *)
FlowInv ==
    /\ Inv
    /\ sent \in Seq(Calls)
    /\ heard \in Seq(Signals)
    /\ midi_input_queue \in Seq(GoodEvents)
    /\ SentInOrder
    /\ ~lapped => ReadsInOrder /\ RoutedInOrder /\ HeardInOrder

LEMMA FlowInit == Init => FlowInv
<1> SUFFICES ASSUME Init
             PROVE  FlowInv
  OBVIOUS
<1>1. Inv
  BY InvInit
<1>2. SentInOrder
  BY DEF Init, SentInOrder, EmptyRing
<1>3. ReadsInOrder
  BY SizeAssumption DEF Init, ReadsInOrder, EmptyRing
<1>4. RoutedInOrder /\ HeardInOrder
  BY DEF Init, RoutedInOrder, HeardInOrder, EmptyRing
<1> QED
  BY <1>1, <1>2, <1>3, <1>4 DEF Init, FlowInv

(* The steps that move no event.                                           *)
LEMMA FlowStays ==
    ASSUME FlowInv, Inv',
           UNCHANGED <<sent, heard, queueVars, midi_output, midi_input,
                       lapped, routed>>,
           host' = host \/ host' = "idle",
           thread' = thread \/ thread' # "woken",
           \A c \in calling' :
              "event" \in DOMAIN c => c.event.message = Encoded(c.call)
    PROVE  FlowInv'
<1>1. SentInOrder'
  BY DEF FlowInv, SentInOrder, queueVars
<1>2. ~lapped => ReadsInOrder' /\ RoutedInOrder' /\ HeardInOrder'
  BY DEF FlowInv, ReadsInOrder, RoutedInOrder, HeardInOrder, queueVars
<1> QED
  BY <1>1, <1>2 DEF FlowInv, queueVars

(* The elements of a sequence put behind another.                          *)
LEMMA Joined ==
    ASSUME NEW S, NEW first \in Seq(S), NEW second \in Seq(S)
    PROVE  /\ first \o second \in Seq(S)
           /\ Len(first) \in Nat /\ Len(second) \in Nat
           /\ Len(first \o second) = Len(first) + Len(second)
           /\ \A i \in 1..Len(first) : (first \o second)[i] = first[i]
           /\ \A i \in 1..Len(second) :
                 (first \o second)[Len(first) + i] = second[i]
           /\ \A i \in 1..Len(first \o second) :
                 \/ i \in 1..Len(first)
                 \/ \E j \in 1..Len(second) : i = Len(first) + j
<1>1. PICK m \in Nat, n \in Nat : m = Len(first) /\ n = Len(second)
  BY LenProperties
<1>2. /\ first \o second \in Seq(S)
      /\ Len(first \o second) = m + n
      /\ \A i \in 1..(m + n) : (first \o second)[i] =
            IF i <= m THEN first[i] ELSE second[i - m]
  BY <1>1, ConcatProperties
<1>3. ASSUME NEW i \in 1..m
      PROVE  (first \o second)[i] = first[i]
  BY <1>2
<1>4. ASSUME NEW i \in 1..n
      PROVE  (first \o second)[m + i] = second[i]
  <2>1. m + i \in 1..(m + n) /\ ~(m + i <= m) /\ (m + i) - m = i
    OBVIOUS
  <2> QED
    BY <1>2, <2>1
<1>5. ASSUME NEW i \in 1..(m + n), i \notin 1..m
      PROVE  \E j \in 1..n : i = m + j
  <2>1. i - m \in 1..n /\ i = m + (i - m)
    BY <1>5
  <2> QED
    BY <2>1
<1> QED
  BY <1>1, <1>2, <1>3, <1>4, <1>5

LEMMA FlowPush ==
    ASSUME FlowInv, Inv', Push
    PROVE  FlowInv'
<1>1. PICK c \in calling :
         /\ "event" \in DOMAIN c
         /\ midi_output_queue' = Append(midi_output_queue, c.event)
         /\ sent' = Append(sent, c.call)
  BY DEF Push
<1>2. PICK event \in GoodEvents, made \in Calls :
         /\ event = c.event /\ made = c.call
         /\ event.message = Encoded(made)
  <2>1. c \in Callings
    BY DEF FlowInv, Inv
  <2>2. c.event \in GoodEvents /\ c.call \in Calls
    BY <1>1, <2>1 DEF Callings, CallingOf
  <2>3. c.event.message = Encoded(c.call)
    BY <1>1 DEF FlowInv, SentInOrder
  <2> QED
    BY <2>2, <2>3
<1>3. PICK stream \in Seq(GoodEvents) : stream = midi_output.stream
  BY DEF FlowInv, Inv, Rings, RingOf
<1>4. /\ midi_output_queue \in Seq(GoodEvents)
      /\ sent \in Seq(Calls)
      /\ midi_output' = midi_output
      /\ calling' = {}
      /\ midi_output_queue' = Append(midi_output_queue, event)
      /\ sent' = Append(sent, made)
  BY <1>1, <1>2 DEF FlowInv, Inv, Push, bufferVars
<1>5. SentInOrder'
  <2>1. PICK m \in Nat, n \in Nat :
           /\ m = Len(stream) /\ n = Len(midi_output_queue)
           /\ m + n = Len(sent)
    <3>1. Len(stream) \in Nat /\ Len(midi_output_queue) \in Nat
      BY <1>4
    <3>2. Len(sent) = Len(stream) + Len(midi_output_queue)
      BY <1>3 DEF FlowInv, SentInOrder
    <3> QED
      BY <3>1, <3>2
  <2>2. /\ \A i \in 1..m : stream[i].message = Encoded(sent[i])
        /\ \A i \in 1..n :
              midi_output_queue[i].message = Encoded(sent[m + i])
    BY <1>3, <2>1 DEF FlowInv, SentInOrder
  <2>3. /\ Len(midi_output_queue') = n + 1
        /\ \A i \in 1..n : midi_output_queue'[i] = midi_output_queue[i]
        /\ midi_output_queue'[n + 1] = event
    BY <1>4, <2>1, AppendProperties
  <2>4. /\ Len(sent') = m + n + 1
        /\ \A i \in 1..(m + n) : sent'[i] = sent[i]
        /\ sent'[m + n + 1] = made
    <3>1. sent \in Seq(Calls) /\ sent' = Append(sent, made)
      BY <1>4
    <3>2. PICK k \in Nat : k = Len(sent)
      BY <3>1
    <3>3. /\ Len(sent') = k + 1
          /\ \A i \in 1..k : sent'[i] = sent[i]
          /\ sent'[k + 1] = made
      BY <3>1, <3>2, AppendProperties
    <3>4. k = m + n
      BY <2>1, <3>2
    <3> QED
      BY <3>3, <3>4
  <2>5. \A i \in 1..m : stream[i].message = Encoded(sent'[i])
    BY <2>2, <2>4
  <2>6. ASSUME NEW i \in 1..(n + 1)
        PROVE  midi_output_queue'[i].message = Encoded(sent'[m + i])
    <3>1. CASE i \in 1..n
      <4>1. sent'[m + i] = sent[m + i]
        BY <2>4, <3>1
      <4> QED
        BY <2>2, <2>3, <3>1, <4>1
    <3>2. CASE i = n + 1
      <4>1. m + i = m + n + 1
        BY <3>2
      <4>2. sent'[m + i] = made
        BY <2>4, <4>1
      <4> QED
        BY <1>2, <2>3, <3>2, <4>2
    <3> QED
      BY <3>1, <3>2
  <2>7. Len(sent') = Len(stream) + Len(midi_output_queue')
    BY <2>1, <2>3, <2>4
  <2> QED
    BY <1>3, <1>4, <2>1, <2>3, <2>5, <2>6, <2>7 DEF SentInOrder
<1>6. /\ UNCHANGED <<heard, midi_input_queue, midi_output, midi_input, lapped,
                     host, thread, routed>>
  BY DEF Push, roundVars, bufferVars, hostVars
<1>7. ~lapped => ReadsInOrder' /\ RoutedInOrder' /\ HeardInOrder'
  BY <1>6 DEF FlowInv, ReadsInOrder, RoutedInOrder, HeardInOrder
<1>8. sent' \in Seq(Calls)
  BY <1>4
<1> QED
  BY <1>5, <1>6, <1>7, <1>8 DEF FlowInv

(* The signals the main thread emits are the next ones.                    *)
LEMMA FlowProcess ==
    ASSUME FlowInv, Inv', Process
    PROVE  FlowInv'
<1> DEFINE signals == [i \in 1..Len(midi_input_queue) |->
                          Decoded(midi_input_queue[i].message)]
<1>1. /\ heard \in Seq(Signals)
      /\ midi_input_queue \in Seq(GoodEvents)
      /\ heard' = heard \o signals
      /\ midi_input_queue' = <<>>
  BY DEF FlowInv, Process
<1>2. signals \in Seq(Signals) /\ Len(signals) = Len(midi_input_queue)
  <2>1. PICK length \in Nat : length = Len(midi_input_queue)
    BY <1>1
  <2>2. \A i \in 1..length : Decoded(midi_input_queue[i].message) \in Signals
    BY <1>1, <2>1 DEF Signals
  <2>3. signals \in Seq(Signals)
    BY <2>1, <2>2, IsASeq
  <2>4. DOMAIN signals = 1..length
    BY <2>1
  <2> QED
    BY <2>1, <2>3, <2>4, LenProperties
<1>3. /\ UNCHANGED <<calling, sent, midi_output_queue, midi_output,
                     midi_input, lapped, host, thread, routed>>
  BY DEF Process, roundVars, bufferVars, hostVars
<1>4. SentInOrder' /\ (~lapped => ReadsInOrder' /\ RoutedInOrder')
  BY <1>3 DEF FlowInv, SentInOrder, ReadsInOrder, RoutedInOrder
<1>5. ASSUME ~lapped
      PROVE  HeardInOrder'
  <2>1. PICK stream \in Seq(GoodEvents) : stream = midi_input.stream
    BY DEF FlowInv, Inv, Rings, RingOf
  <2>2. /\ midi_input.read = Len(heard) + Len(midi_input_queue)
        /\ \A i \in 1..Len(heard) : heard[i] = Decoded(stream[i].message)
        /\ \A i \in 1..Len(midi_input_queue) :
              midi_input_queue[i].message = stream[Len(heard) + i].message
    BY <1>5, <2>1 DEF FlowInv, HeardInOrder
  <2>3. /\ Len(heard') = Len(heard) + Len(midi_input_queue)
        /\ \A i \in 1..Len(heard) : heard'[i] = heard[i]
        /\ \A i \in 1..Len(midi_input_queue) :
              heard'[Len(heard) + i] = signals[i]
    <3> HIDE DEF signals
    <3>1. /\ Len(heard \o signals) = Len(heard) + Len(signals)
          /\ \A i \in 1..Len(heard) : (heard \o signals)[i] = heard[i]
          /\ \A i \in 1..Len(signals) :
                (heard \o signals)[Len(heard) + i] = signals[i]
      BY <1>1, <1>2, Joined
    <3> QED
      BY <1>1, <1>2, <3>1, Zenon
  <2>4. ASSUME NEW i \in 1..Len(heard')
        PROVE  heard'[i] = Decoded(stream[i].message)
    <3>1. CASE i \in 1..Len(heard)
      BY <2>2, <2>3, <3>1
    <3>2. CASE i \notin 1..Len(heard)
      <4>1. PICK j \in 1..Len(midi_input_queue) : i = Len(heard) + j
        <5> HIDE DEF signals
        <5> QED
          BY <1>1, <1>2, <3>2, Joined
      <4>2. heard'[i] = Decoded(midi_input_queue[j].message)
        BY <2>3, <4>1
      <4>3. midi_input_queue[j].message = stream[i].message
        BY <2>2, <4>1
      <4> QED
        BY <4>2, <4>3
    <3> QED
      BY <3>1, <3>2
  <2>5. midi_input'.read = Len(heard') + Len(midi_input_queue')
    <3>1. Len(heard) + Len(midi_input_queue) \in Nat
      BY <1>1
    <3>2. Len(midi_input_queue') = 0
      BY <1>1
    <3> QED
      BY <1>3, <2>2, <2>3, <3>1, <3>2
  <2>6. /\ \A i \in 1..Len(heard') :
              heard'[i] = Decoded(midi_input'.stream[i].message)
        /\ \A i \in 1..Len(midi_input_queue') : FALSE
    <3>1. \A i \in 1..Len(midi_input_queue') : FALSE
      BY <1>1
    <3>2. midi_input'.stream = stream
      BY <1>3, <2>1
    <3> QED
      BY <2>4, <3>1, <3>2, Zenon
  <2> QED
    BY <2>5, <2>6 DEF HeardInOrder
<1>6. heard' \in Seq(Signals)
  BY <1>1, <1>2
<1> QED
  BY <1>1, <1>3, <1>4, <1>5, <1>6 DEF FlowInv

(* What a write and a read leave of a ring.                                *)
LEMMA RingParts ==
    ASSUME NEW ring \in Rings, NEW events \in Seq(GoodEvents)
    PROVE  /\ ring.stream \in Seq(GoodEvents)
           /\ ring.read \in Nat /\ ring.count \in Nat
           /\ Write(ring, events).stream = ring.stream \o events
           /\ Write(ring, events).read = ring.read
           /\ Write(ring, events).count = Len(events)
           /\ AdvanceRead(ring).stream = ring.stream
           /\ AdvanceRead(ring).read = ring.read + ring.count
BY DEF Rings, RingOf, Write, AdvanceRead

LEMMA FlowHandOver ==
    ASSUME FlowInv, Inv', HandOver
    PROVE  FlowInv'
<1>1. /\ midi_input' = Write(midi_input, routed)
      /\ lapped' = (lapped \/ Laps(midi_input'))
      /\ routed' = <<>>
      /\ host = "idle" /\ host' = "waiting"
      /\ UNCHANGED <<calling, sent, heard, midi_output_queue,
                     midi_input_queue, midi_output>>
  BY DEF HandOver, scriptVars, queueVars
<1>2. SentInOrder'
  BY <1>1 DEF FlowInv, SentInOrder
<1>3. ASSUME ~lapped'
      PROVE  ReadsInOrder' /\ RoutedInOrder' /\ HeardInOrder'
  <2>1. ReadsInOrder /\ RoutedInOrder /\ HeardInOrder /\ ~Laps(midi_input')
    BY <1>1, <1>3 DEF FlowInv
  <2>2. /\ midi_input \in Rings /\ midi_output \in Rings
        /\ routed \in Seq(GoodEvents)
        /\ heard \in Seq(Signals) /\ midi_input_queue \in Seq(GoodEvents)
    BY DEF FlowInv, Inv
  <2>3. PICK output \in Seq(GoodEvents), input \in Seq(GoodEvents) :
           output = midi_output.stream /\ input = midi_input.stream
    BY <2>2, RingParts
  <2>4. PICK o \in Nat, d \in Nat, h \in Nat, q \in Nat :
           /\ o = Len(output) /\ d = Len(routed)
           /\ h = Len(heard) /\ q = Len(midi_input_queue)
    BY <2>2, LenProperties
  <2>5. PICK i \in Nat, read \in Nat, back \in Nat :
           /\ i = Len(input) /\ read = midi_output.read
           /\ back = midi_input.read
    BY <2>2, <2>3, LenProperties, RingParts
  <2>6. /\ midi_input'.stream = input \o routed
        /\ midi_input'.read = back
        /\ midi_input'.count = d
    BY <1>1, <2>2, <2>3, <2>4, <2>5, RingParts
  <2>7. /\ Len(input \o routed) = i + d
        /\ \A k \in 1..i : (input \o routed)[k] = input[k]
        /\ \A k \in 1..d : (input \o routed)[i + k] = routed[k]
        /\ \A k \in 1..(i + d) :
              k \in 1..i \/ \E j \in 1..d : k = i + j
    <3>1. /\ Len(input \o routed) = Len(input) + Len(routed)
          /\ \A k \in 1..Len(input) : (input \o routed)[k] = input[k]
          /\ \A k \in 1..Len(routed) :
                (input \o routed)[Len(input) + k] = routed[k]
          /\ \A k \in 1..Len(input \o routed) :
                \/ k \in 1..Len(input)
                \/ \E j \in 1..Len(routed) : k = Len(input) + j
      <4>1. routed \in Seq(GoodEvents)
        BY <2>2
      <4> QED
        BY <4>1, Joined
    <3> QED
      BY <2>4, <2>5, <3>1
  <2>8. /\ read <= o /\ o - read <= Size /\ back <= i
        /\ read = i + d /\ back = h + q
    BY <2>1, <2>3, <2>4, <2>5 DEF ReadsInOrder, RoutedInOrder, HeardInOrder
  <2>9. (i + d) - back <= Size
    <3>1. ~((i + d) - back > Size)
      BY <2>1, <2>6, <2>7 DEF Laps
    <3>2. PICK size \in Nat : size = Size
      BY SizeAssumption
    <3> QED
      BY <3>1, <3>2
  <2>10. ReadsInOrder'
    <3>1. back <= i + d /\ back + d <= i + d
      BY <2>8
    <3>2. host' # "woken"
      BY <1>1
    <3> QED
      BY <1>1, <2>3, <2>4, <2>5, <2>6, <2>7, <2>8, <2>9, <3>1, <3>2
         DEF ReadsInOrder
  <2>11. RoutedInOrder'
    <3>1. /\ \A k \in 1..i : input[k].message = output[k].message
          /\ \A k \in 1..d : routed[k].message = output[i + k].message
      BY <2>1, <2>3, <2>4, <2>5 DEF RoutedInOrder
    <3>2. ASSUME NEW k \in 1..(i + d)
          PROVE  (input \o routed)[k].message = output[k].message
      <4>1. CASE k \in 1..i
        BY <2>7, <3>1, <4>1
      <4>2. CASE \E j \in 1..d : k = i + j
        <5>1. PICK j \in 1..d : k = i + j
          BY <4>2
        <5>2. (input \o routed)[k] = routed[j]
          BY <2>7, <5>1
        <5> QED
          BY <3>1, <5>1, <5>2
      <4> QED
        BY <2>7, <4>1, <4>2
    <3>3. /\ \A k \in 1..Len(midi_input'.stream) :
                midi_input'.stream[k].message = midi_output'.stream[k].message
      BY <1>1, <2>3, <2>6, <2>7, <3>2
    <3>4. Len(routed') = 0 /\ read = Len(midi_input'.stream) + 0
      BY <1>1, <2>6, <2>7, <2>8
    <3> QED
      BY <1>1, <2>5, <3>3, <3>4 DEF RoutedInOrder
  <2>12. HeardInOrder'
    <3>1. /\ \A k \in 1..h : heard[k] = Decoded(input[k].message)
          /\ \A k \in 1..q :
                midi_input_queue[k].message = input[h + k].message
      BY <2>1, <2>3, <2>4 DEF HeardInOrder
    <3>2. ASSUME NEW k \in 1..h
          PROVE  heard[k] = Decoded((input \o routed)[k].message)
      <4>1. k \in 1..i
        BY <2>8
      <4> QED
        BY <2>7, <3>1, <4>1
    <3>3. ASSUME NEW k \in 1..q
          PROVE  midi_input_queue[k].message = (input \o routed)[h + k].message
      <4>1. h + k \in 1..i
        BY <2>8
      <4> QED
        BY <2>7, <3>1, <4>1
    <3> QED
      BY <1>1, <2>4, <2>6, <2>8, <3>2, <3>3 DEF HeardInOrder
  <2> QED
    BY <2>10, <2>11, <2>12
<1> QED
  BY <1>1, <1>2, <1>3 DEF FlowInv

LEMMA FlowDeliver ==
    ASSUME FlowInv, Inv', Deliver
    PROVE  FlowInv'
<1>1. /\ midi_output' = AdvanceRead(midi_output)
      /\ routed' = Read(midi_output)
      /\ host = "woken" /\ host' = "idle"
      /\ UNCHANGED <<calling, sent, heard, midi_output_queue,
                     midi_input_queue, midi_input, lapped, thread>>
  BY DEF Deliver, scriptVars, queueVars, roundVars
<1>2. midi_output \in Rings /\ midi_input \in Rings
  BY DEF FlowInv, Inv
<1>3. PICK output \in Seq(GoodEvents), input \in Seq(GoodEvents) :
         output = midi_output.stream /\ input = midi_input.stream
  BY <1>2 DEF Rings, RingOf
<1>4. midi_output'.stream = output
  BY <1>1, <1>2, <1>3 DEF AdvanceRead
<1>5. SentInOrder'
  BY <1>1, <1>3, <1>4 DEF FlowInv, SentInOrder
<1>6. ASSUME ~lapped
      PROVE  ReadsInOrder' /\ RoutedInOrder' /\ HeardInOrder'
  <2>1. ReadsInOrder /\ RoutedInOrder /\ HeardInOrder
    BY <1>6 DEF FlowInv
  <2>2. PICK o \in Nat, i \in Nat, read \in Nat, count \in Nat :
           /\ o = Len(output) /\ i = Len(input)
           /\ read = midi_output.read /\ count = midi_output.count
    BY <1>2, <1>3, LenProperties DEF Rings, RingOf
  <2>3. midi_output'.read = read + count
    BY <1>1, <1>2, <2>2 DEF AdvanceRead
  <2>4. /\ read + count <= o /\ o - read <= Size
        /\ read = i + 0
    <3>1. routed = <<>>
      BY <1>1, <2>1 DEF RoutedInOrder
    <3> QED
      BY <1>1, <1>3, <2>1, <2>2, <3>1 DEF ReadsInOrder, RoutedInOrder
  <2>5. /\ Len(routed') = count
        /\ \A k \in 1..count : routed'[k] = output[i + k]
    <3>1. /\ midi_output.read + midi_output.count <= Len(midi_output.stream)
          /\ Len(midi_output.stream) - midi_output.read <= Size
      BY <1>3, <2>2, <2>4
    <3>2. /\ Len(Read(midi_output)) = count
          /\ \A k \in 1..count : Read(midi_output)[k] = output[read + k]
      BY <1>2, <1>3, <2>2, <3>1, ReadInOrder
    <3>3. \A k \in 1..count : read + k = i + k
      BY <2>4
    <3> QED
      BY <1>1, <3>2, <3>3
  <2>6. ReadsInOrder'
    <3>1. PICK size \in Nat : size = Size
      BY SizeAssumption
    <3>2. o - (read + count) <= size
      BY <2>4, <3>1
    <3> QED
      BY <1>1, <1>3, <1>4, <2>1, <2>2, <2>3, <2>4, <3>1, <3>2
         DEF ReadsInOrder
  <2>7. RoutedInOrder'
    <3>1. \A k \in 1..i : input[k].message = output[k].message
      BY <1>3, <2>1, <2>2 DEF RoutedInOrder
    <3>2. midi_output'.read = i + Len(routed')
      BY <2>3, <2>4, <2>5
    <3> QED
      BY <1>1, <1>3, <1>4, <2>2, <2>5, <3>1, <3>2 DEF RoutedInOrder
  <2>8. HeardInOrder'
    BY <1>1, <2>1 DEF HeardInOrder
  <2> QED
    BY <2>6, <2>7, <2>8
<1> QED
  BY <1>1, <1>5, <1>6 DEF FlowInv

LEMMA FlowAnswer ==
    ASSUME FlowInv, Inv', Answer
    PROVE  FlowInv'
<1>1. /\ thread = "woken" /\ thread' = "looping"
      /\ midi_input_queue' = midi_input_queue \o Read(midi_input)
      /\ midi_input' = AdvanceRead(midi_input)
      /\ midi_output' = Write(midi_output, midi_output_queue)
      /\ midi_output_queue' = <<>>
      /\ lapped' = (lapped \/ Laps(midi_output'))
      /\ host' = IF host = "waiting" THEN "woken" ELSE host
      /\ UNCHANGED <<calling, sent, heard, routed>>
  BY DEF Answer, scriptVars
<1>2. /\ midi_input \in Rings /\ midi_output \in Rings
      /\ midi_output_queue \in Seq(GoodEvents)
      /\ midi_input_queue \in Seq(GoodEvents)
      /\ routed \in Seq(GoodEvents) /\ heard \in Seq(Signals)
  BY DEF FlowInv, Inv
<1>3. PICK output \in Seq(GoodEvents), input \in Seq(GoodEvents),
           received \in Seq(GoodEvents) :
         /\ output = midi_output.stream /\ input = midi_input.stream
         /\ received = Read(midi_input)
  BY <1>2, ReadIsGood DEF Rings, RingOf
<1>4. PICK o \in Nat, d \in Nat, i \in Nat, read \in Nat, back \in Nat,
           count \in Nat :
         /\ o = Len(output) /\ d = Len(midi_output_queue)
         /\ i = Len(input) /\ read = midi_output.read
         /\ back = midi_input.read /\ count = midi_input.count
  BY <1>2, <1>3, LenProperties DEF Rings, RingOf
<1>5. /\ midi_output'.stream = output \o midi_output_queue
      /\ midi_output'.read = read
      /\ midi_output'.count = d
      /\ midi_input'.stream = input
      /\ midi_input'.read = back + count
  <2>1. /\ midi_output'.stream = output \o midi_output_queue
        /\ midi_output'.read = read /\ midi_output'.count = d
    BY <1>1, <1>3, <1>4 DEF Write
  <2>2. midi_input'.stream = input /\ midi_input'.read = back + count
    BY <1>1, <1>2, <1>3, <1>4 DEF AdvanceRead, Rings, RingOf
  <2> QED
    BY <2>1, <2>2
<1>6. /\ Len(output \o midi_output_queue) = o + d
      /\ \A k \in 1..o : (output \o midi_output_queue)[k] = output[k]
      /\ \A k \in 1..d :
            (output \o midi_output_queue)[o + k] = midi_output_queue[k]
      /\ \A k \in 1..(o + d) :
            k \in 1..o \/ \E j \in 1..d : k = o + j
  <2>1. /\ Len(output \o midi_output_queue) =
              Len(output) + Len(midi_output_queue)
        /\ \A k \in 1..Len(output) :
              (output \o midi_output_queue)[k] = output[k]
        /\ \A k \in 1..Len(midi_output_queue) :
              (output \o midi_output_queue)[Len(output) + k] =
                  midi_output_queue[k]
        /\ \A k \in 1..Len(output \o midi_output_queue) :
              \/ k \in 1..Len(output)
              \/ \E j \in 1..Len(midi_output_queue) : k = Len(output) + j
    BY <1>2, Joined
  <2> QED
    BY <1>4, <2>1
<1>7. SentInOrder'
  <2>1. /\ Len(sent) = o + d
        /\ \A k \in 1..o : output[k].message = Encoded(sent[k])
        /\ \A k \in 1..d : midi_output_queue[k].message = Encoded(sent[o + k])
        /\ \A c \in calling :
              "event" \in DOMAIN c => c.event.message = Encoded(c.call)
    BY <1>3, <1>4 DEF FlowInv, SentInOrder
  <2>2. ASSUME NEW k \in 1..(o + d)
        PROVE  (output \o midi_output_queue)[k].message = Encoded(sent[k])
    <3>1. CASE k \in 1..o
      BY <1>6, <2>1, <3>1
    <3>2. CASE \E j \in 1..d : k = o + j
      <4>1. PICK j \in 1..d : k = o + j
        BY <3>2
      <4>2. (output \o midi_output_queue)[k] = midi_output_queue[j]
        BY <1>6, <4>1
      <4> QED
        BY <2>1, <4>1, <4>2
    <3> QED
      BY <1>6, <3>1, <3>2
  <2>3. Len(midi_output_queue') = 0 /\ Len(sent') = (o + d) + 0
    BY <1>1, <2>1
  <2>4. \A k \in 1..Len(midi_output'.stream) :
           midi_output'.stream[k].message = Encoded(sent'[k])
    BY <1>1, <1>5, <1>6, <2>2
  <2> QED
    BY <1>1, <1>5, <1>6, <2>1, <2>3, <2>4 DEF SentInOrder
<1>8. ASSUME ~lapped'
      PROVE  ReadsInOrder' /\ RoutedInOrder' /\ HeardInOrder'
  <2>1. ReadsInOrder /\ RoutedInOrder /\ HeardInOrder /\ ~Laps(midi_output')
    BY <1>1, <1>8 DEF FlowInv
  <2>2. PICK h \in Nat, q \in Nat, r \in Nat, size \in Nat :
           /\ h = Len(heard) /\ q = Len(midi_input_queue)
           /\ r = Len(routed) /\ size = Size
    BY <1>2, SizeAssumption, LenProperties
  <2>3. /\ read <= o /\ back + count <= i /\ i - back <= size
        /\ read = i + r /\ back = h + q
    BY <1>1, <1>3, <1>4, <2>1, <2>2
       DEF ReadsInOrder, RoutedInOrder, HeardInOrder
  <2>4. ReadsInOrder'
    <3>1. (o + d) - read <= size
      BY <1>5, <1>6, <2>1, <2>2 DEF Laps
    <3>2. /\ read <= o + d /\ read + d <= o + d
          /\ back + count <= i /\ i - (back + count) <= size
      BY <2>3
    <3> QED
      BY <1>1, <1>4, <1>5, <1>6, <2>2, <3>1, <3>2 DEF ReadsInOrder
  <2>5. RoutedInOrder'
    <3>1. /\ \A k \in 1..i : input[k].message = output[k].message
          /\ \A k \in 1..r : routed[k].message = output[i + k].message
          /\ host # "idle" => routed = <<>>
      BY <1>3, <1>4, <2>1, <2>2 DEF RoutedInOrder
    <3>2. ASSUME NEW k \in 1..i
          PROVE  input[k].message = (output \o midi_output_queue)[k].message
      <4>1. k \in 1..o
        BY <2>3
      <4> QED
        BY <1>6, <3>1, <4>1
    <3>3. ASSUME NEW k \in 1..r
          PROVE  routed[k].message =
                     (output \o midi_output_queue)[i + k].message
      <4>1. i + k \in 1..o
        BY <2>3
      <4> QED
        BY <1>6, <3>1, <4>1
    <3>4. host' # "idle" => routed' = <<>>
      BY <1>1, <3>1
    <3>5. /\ midi_output'.read = i + r /\ Len(routed') = r
          /\ Len(midi_input'.stream) = i
      BY <1>1, <1>4, <1>5, <2>2, <2>3
    <3>6. /\ midi_output'.stream = output \o midi_output_queue
          /\ midi_input'.stream = input /\ routed' = routed
      BY <1>1, <1>5
    <3> QED
      BY <3>2, <3>3, <3>4, <3>5, <3>6, Zenon DEF RoutedInOrder
  <2>6. HeardInOrder'
    <3>1. /\ \A k \in 1..h : heard[k] = Decoded(input[k].message)
          /\ \A k \in 1..q :
                midi_input_queue[k].message = input[h + k].message
      BY <1>3, <2>1, <2>2 DEF HeardInOrder
    <3>2. /\ Len(received) = count
          /\ \A k \in 1..count : received[k] = input[back + k]
      <4>1. /\ midi_input.read + midi_input.count <= Len(midi_input.stream)
            /\ Len(midi_input.stream) - midi_input.read <= Size
        BY <1>3, <1>4, <2>2, <2>3
      <4> QED
        BY <1>2, <1>3, <1>4, <4>1, ReadInOrder
    <3>3. /\ Len(midi_input_queue') = q + count
          /\ \A k \in 1..q : midi_input_queue'[k] = midi_input_queue[k]
          /\ \A k \in 1..count : midi_input_queue'[q + k] = received[k]
          /\ \A k \in 1..(q + count) :
                k \in 1..q \/ \E j \in 1..count : k = q + j
      <4>1. /\ Len(midi_input_queue \o received) =
                  Len(midi_input_queue) + Len(received)
            /\ \A k \in 1..Len(midi_input_queue) :
                  (midi_input_queue \o received)[k] = midi_input_queue[k]
            /\ \A k \in 1..Len(received) :
                  (midi_input_queue \o received)[Len(midi_input_queue) + k] =
                      received[k]
            /\ \A k \in 1..Len(midi_input_queue \o received) :
                  \/ k \in 1..Len(midi_input_queue)
                  \/ \E j \in 1..Len(received) :
                        k = Len(midi_input_queue) + j
        BY <1>2, <1>3, Joined
      <4>2. midi_input_queue' = midi_input_queue \o received
        BY <1>1, <1>3
      <4> QED
        BY <2>2, <3>2, <4>1, <4>2
    <3>4. ASSUME NEW k \in 1..(q + count)
          PROVE  midi_input_queue'[k].message = input[h + k].message
      <4>1. CASE k \in 1..q
        BY <3>1, <3>3, <4>1
      <4>2. CASE \E j \in 1..count : k = q + j
        <5>1. PICK j \in 1..count : k = q + j
          BY <4>2
        <5>2. h + k = back + j
          BY <2>3, <5>1
        <5>3. midi_input_queue'[k] = received[j]
          BY <3>3, <5>1
        <5> QED
          BY <3>2, <5>2, <5>3
      <4> QED
        BY <3>3, <4>1, <4>2
    <3>5. back + count = h + (q + count)
      BY <2>3
    <3> QED
      BY <1>1, <1>5, <2>2, <3>1, <3>3, <3>4, <3>5 DEF HeardInOrder
  <2> QED
    BY <2>4, <2>5, <2>6
<1>9. midi_input_queue' \in Seq(GoodEvents)
  BY <1>1, <1>2, <1>3
<1> QED
  BY <1>1, <1>7, <1>8, <1>9 DEF FlowInv

LEMMA FlowNext ==
    ASSUME FlowInv
    PROVE  [Next]_vars => FlowInv'
<1> SUFFICES ASSUME [Next]_vars
             PROVE  FlowInv'
  OBVIOUS
<1> USE DEF scriptVars, queueVars, roundVars, bufferVars, hostVars
<1>1. Inv'
  BY InvNext DEF FlowInv
<1>2. \A c \in calling :
         "event" \in DOMAIN c => c.event.message = Encoded(c.call)
  BY DEF FlowInv, SentInOrder
<1>3. ASSUME NEW call \in Calls, Call(call)
      PROVE  FlowInv'
  BY <1>1, <1>3, FlowStays DEF Call
<1>4. CASE Stamp
  <2>1. \A c \in calling' :
           "event" \in DOMAIN c => c.event.message = Encoded(c.call)
    BY <1>4 DEF Stamp
  <2> QED
    BY <1>1, <1>4, <2>1, FlowStays DEF Stamp
<1>5. CASE Mix
  <2>1. \A c \in calling' :
           "event" \in DOMAIN c => c.event.message = Encoded(c.call)
    <3>1. CASE calling' = calling
      BY <1>2, <3>1
    <3>2. CASE StartBuffer
      <4>1. ASSUME NEW c \in Callings, "time" \in DOMAIN c
            PROVE  "event" \notin DOMAIN [c EXCEPT !.time = -1]
        BY <4>1 DEF Callings, CallingOf
      <4> QED
        BY <1>2, <3>2, <4>1 DEF StartBuffer, FlowInv, Inv
    <3> QED
      BY <1>5, <3>1, <3>2 DEF Mix
  <2> QED
    BY <1>1, <1>5, <2>1, FlowStays DEF Mix
<1>6. CASE Initialize
  BY <1>1, <1>2, <1>6, FlowStays DEF Initialize
<1>7. CASE WaitTimeout
  BY <1>1, <1>2, <1>7, FlowStays DEF WaitTimeout
<1>8. CASE Miss
  BY <1>1, <1>2, <1>8, FlowStays DEF Miss
<1>9. CASE Tick
  BY <1>1, <1>2, <1>9, FlowStays DEF Tick
<1>10. CASE UNCHANGED vars
  BY <1>1, <1>2, <1>10, FlowStays DEF vars
<1> QED
  BY <1>1, <1>3, <1>4, <1>5, <1>6, <1>7, <1>8, <1>9, <1>10, FlowPush,
     FlowProcess, FlowAnswer, FlowHandOver, FlowDeliver DEF Next, Step

(* What was heard of the second ring was routed from the first, and what   *)
(* was written into that was sent.                                         *)
LEMMA FlowHeard == FlowInv => HeardAsSent
<1> SUFFICES ASSUME FlowInv, ~lapped
             PROVE  /\ Len(heard) <= Len(sent)
                    /\ \A i \in 1..Len(heard) : heard[i] = Meant(sent[i])
  BY DEF HeardAsSent
<1>1. SentInOrder /\ ReadsInOrder /\ RoutedInOrder /\ HeardInOrder
  BY DEF FlowInv
<1>2. PICK output \in Seq(GoodEvents), input \in Seq(GoodEvents) :
         output = midi_output.stream /\ input = midi_input.stream
  BY DEF FlowInv, Inv, Rings, RingOf
<1>3. PICK o \in Nat, i \in Nat, h \in Nat, s \in Nat :
         /\ o = Len(output) /\ i = Len(input)
         /\ h = Len(heard) /\ s = Len(sent)
  BY LenProperties DEF FlowInv
<1>4. h <= i /\ i <= o /\ o <= s
  <2>1. PICK d \in Nat, q \in Nat, r \in Nat :
           /\ d = Len(midi_output_queue) /\ q = Len(midi_input_queue)
           /\ r = Len(routed)
    BY LenProperties DEF FlowInv, Inv
  <2>2. /\ s = o + d /\ midi_output.read <= o
        /\ midi_output.read = i + r
        /\ midi_input.read <= i /\ midi_input.read = h + q
    BY <1>1, <1>2, <1>3, <2>1
       DEF SentInOrder, ReadsInOrder, RoutedInOrder, HeardInOrder
  <2> QED
    BY <2>1, <2>2
<1>5. ASSUME NEW k \in 1..h
      PROVE  heard[k] = Meant(sent[k])
  <2>1. k \in 1..i /\ k \in 1..o /\ k \in 1..s
    BY <1>4
  <2>2. heard[k] = Decoded(input[k].message)
    BY <1>1, <1>2, <1>3 DEF HeardInOrder
  <2>3. input[k].message = output[k].message
    BY <1>1, <1>2, <1>3, <2>1 DEF RoutedInOrder
  <2>4. output[k].message = Encoded(sent[k])
    BY <1>1, <1>2, <1>3, <2>1 DEF SentInOrder
  <2>5. sent[k] \in LegalCalls
    BY <1>3, <2>1, CallsAssumption DEF FlowInv
  <2> QED
    BY <2>2, <2>3, <2>4, <2>5, DecodesWhatIsEncoded
<1> QED
  BY <1>3, <1>4, <1>5

(* Unless more is in flight than a ring holds, what scripts hear is what   *)
(* was sent, in that order (update_midi, write_output_midi,                *)
(* read_input_midi, process): for rings of any size, any calls and any     *)
(* runs the host misses.                                                   *)
THEOREM MessagesArrive == Spec => []HeardAsSent
<1>1. FlowInv /\ [Next]_vars => FlowInv'
  BY FlowNext
<1> QED
  BY FlowInit, <1>1, FlowHeard, PTL DEF Spec

-----------------------------------------------------------------------------
(* Types.                                                                  *)

Messages == [size : {0, 2, 3}, data : Seq(0..255)]

LEMMA BitsType ==
  ASSUME NEW n \in Int
  PROVE  n % 128 \in 0..255 /\ n % 256 \in 0..255 /\ 0 \in 0..255
BY Z3

LEMMA EncodedType ==
  ASSUME NEW call \in LegalCalls
  PROVE  Encoded(call) \in Messages
<1>1. CASE call.name = "send_midi_event"
  <2>1. PICK status \in Int, data1 \in Int, data2 \in Int :
           status = call.status /\ data1 = call.data1 /\ data2 = call.data2
    <3>1. /\ call.status \in StatusBytes /\ call.data1 \in DataBytes
          /\ call.data2 \in DataBytes
      BY <1>1 DEF LegalCalls
    <3>2. StatusBytes \subseteq Int /\ DataBytes \subseteq Int
      BY DEF StatusBytes, DataBytes
    <3> QED
      BY <3>1, <3>2
  <2>2. Encoded(call) = Message(3, status % 256, data1 % 256, data2 % 256)
    BY <1>1, <2>1 DEF Encoded
  <2> QED
    BY <2>2, BitsType DEF Message, Messages
<1>2. ASSUME call.name # "send_midi_event"
      PROVE  Encoded(call) \in Messages
  <2>1. PICK name \in Kinds, channel \in Channels, data1 \in Int, data2 \in Int :
           /\ name = call.name /\ channel = call.channel
           /\ data1 = call.data1 /\ data2 = call.data2
    BY <1>2 DEF LegalCalls, DataBytes, Kinds, Status
  <2>2. PICK data0 \in 0..255 : data0 = Status[name] + (channel % 16)
    <3>1. Status[name] \in Statuses
      BY DEF Kinds, Status, Statuses
    <3>2. channel % 16 = channel
      BY Bits
    <3> QED
      BY <3>1, <3>2 DEF Statuses, Channels
  <2>3. \A n \in Int :
           n % 128 \in 0..255 /\ n % 256 \in 0..255 /\ 0 \in 0..255
    BY BitsType
  <2>4. CASE name \in {"note_off", "note_on", "control_change"}
    <3>1. Encoded(call) = Message(3, data0, data1 % 128, data2 % 128)
      BY <2>1, <2>2, <2>4 DEF Encoded
    <3> QED
      BY <2>3, <3>1 DEF Message, Messages
  <2>5. CASE name = "program_change"
    <3>1. Encoded(call) = Message(2, data0, data1 % 128, 0)
      BY <2>1, <2>2, <2>5 DEF Encoded
    <3> QED
      BY <2>3, <3>1 DEF Message, Messages
  <2>6. CASE name = "channel_pressure"
    <3>1. PICK value \in Int : value = Clamp(data1, 0, 127)
      BY Clamped
    <3>2. Encoded(call) = Message(2, data0, value % 128, 0)
      BY <2>1, <2>2, <2>6, <3>1 DEF Encoded
    <3> QED
      BY <2>3, <3>2 DEF Message, Messages
  <2>7. CASE name = "pitch_bend"
    <3>1. PICK value \in Int : value = Clamp(data1, 0, MaxBend)
      BY ClampedBend
    <3>2. value \div 128 \in Int
      BY Z3
    <3>3. Encoded(call) =
             Message(3, data0, value % 128, (value \div 128) % 128)
      BY <2>1, <2>2, <2>7, <3>1 DEF Encoded, BendMessage, Status
    <3> QED
      BY <2>3, <3>2, <3>3 DEF Message, Messages
  <2>8. CASE name = "midi_poly_aftertouch"
    <3>1. Encoded(call) = Message(3, data0, data1 % 256, data2 % 256)
      BY <2>1, <2>2, <2>8 DEF Encoded
    <3> QED
      BY <2>3, <3>1 DEF Message, Messages
  <2> QED
    BY <2>4, <2>5, <2>6, <2>7, <2>8 DEF Kinds, Status
<1> QED
  BY <1>1, <1>2

LEMMA GoodTypes == GoodEvents \subseteq Events
<1>1. ASSUME NEW call \in Calls
      PROVE  Encoded(call) \in Messages
  BY EncodedType, CallsAssumption
<1>2. Message(0, 0, 0, 0) \in Messages
  BY BitsType DEF Message, Messages
<1> QED
  BY <1>1, <1>2 DEF GoodEvents, Events, Messages

ControlTypes ==
    /\ initialized \in BOOLEAN
    /\ thread \in {"looping", "waiting", "woken"}
    /\ crashed \in BOOLEAN
    /\ lapped \in BOOLEAN
    /\ host \in {"idle", "waiting", "woken"}

LEMMA StepControl == ControlTypes /\ [Next]_vars => ControlTypes'
<1> SUFFICES ASSUME ControlTypes, [Next]_vars
             PROVE  ControlTypes'
  OBVIOUS
<1> USE DEF ControlTypes, scriptVars, queueVars, roundVars, bufferVars, hostVars
<1>1. CASE \E call \in Calls : Call(call)
  BY <1>1 DEF Call
<1>2. CASE Stamp \/ Push \/ Process
  BY <1>2 DEF Stamp, Push, Process
<1>3. CASE Initialize \/ Mix \/ WaitTimeout
  BY <1>3 DEF Initialize, Mix, WaitTimeout
<1>4. CASE Answer
  <2>1. /\ crashed' = (Len(midi_output_queue) > Size)
        /\ lapped' = (lapped \/ Laps(midi_output'))
    BY <1>4 DEF Answer
  <2>2. /\ thread' = "looping" /\ initialized' = initialized
        /\ host' \in {"woken", host}
    BY <1>4 DEF Answer
  <2>3. crashed' \in BOOLEAN /\ lapped' \in BOOLEAN
    BY <2>1
  <2> QED
    BY <2>2, <2>3
<1>5. CASE HandOver
  <2>1. lapped' = (lapped \/ Laps(midi_input')) /\ crashed' = crashed
    BY <1>5 DEF HandOver
  <2>2. /\ thread' \in {"woken", thread} /\ initialized' = initialized
        /\ host' = "waiting"
    BY <1>5 DEF HandOver
  <2>3. lapped' \in BOOLEAN
    BY <2>1, Zenon
  <2> QED
    BY <2>1, <2>2, <2>3
<1>6. CASE Deliver \/ Miss \/ Tick
  BY <1>6 DEF Deliver, Miss, Tick
<1>7. CASE UNCHANGED vars
  BY <1>7 DEF vars
<1> QED
  BY <1>1, <1>2, <1>3, <1>4, <1>5, <1>6, <1>7 DEF Next, Step

(* Every variable keeps its type, for any legal calls and sizes: what is   *)
(* in flight are messages of bytes, and no frame exceeds its width.        *)
THEOREM MidiTypeCorrect == Spec => []TypeOK
<1>1. Init => ControlTypes
  BY DEF Init, ControlTypes
<1>2. FlowInv /\ [Next]_vars => FlowInv'
  BY FlowNext
<1>3. FlowInv /\ ControlTypes => TypeOK
  <2> SUFFICES ASSUME FlowInv, ControlTypes
               PROVE  TypeOK
    OBVIOUS
  <2>1. \A seq \in Seq(GoodEvents) : seq \in Seq(Events)
    BY GoodTypes
  <2>2. Callings \subseteq CallingOf(Events) /\ Rings \subseteq RingOf(Events)
    BY GoodTypes, <2>1 DEF Callings, CallingOf, Rings, RingOf
  <2>3. Len(heard) \in Nat /\ sent \in Seq(Calls)
    BY DEF FlowInv
  <2> QED
    BY <2>1, <2>2, <2>3 DEF FlowInv, Inv, ControlTypes, TypeOK
<1> QED
  BY FlowInit, StepControl, <1>1, <1>2, <1>3, PTL DEF Spec

=============================================================================
