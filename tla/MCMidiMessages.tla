--------------------------- MODULE MCMidiMessages ---------------------------
EXTENDS MidiMessages

Played(name, channel, data1, data2) ==
    [name |-> name, channel |-> channel, data1 |-> data1, data2 |-> data2]

Sent(status, data1, data2) ==
    [name |-> "send_midi_event", status |-> status, channel |-> 7,
     data1 |-> data1, data2 |-> data2]

(* For the run: a note off as one call makes it, and a note on of another. *)
MCCalls == {Played("note_on", 15, 127, 0), Sent(145, 60, 100)}

(* For the messages alone: every kind, every channel, and the values at    *)
(* the edges of what MIDI and the arguments allow.                         *)
Edges == {0, 1, 126, 127}
Beyond == {-1, 0, 127, 128, 129, 8192, 16383, 16384}

EdgeCalls ==
    {Played(name, channel, data1, data2) :
        name \in Kinds \ {"channel_pressure", "pitch_bend"},
        channel \in Channels, data1 \in Edges, data2 \in Edges}
        \cup
    {Played(name, channel, data1, 0) :
        name \in {"channel_pressure", "pitch_bend"},
        channel \in Channels, data1 \in Beyond}
        \cup
    {Sent(status, data1, data2) :
        status \in StatusBytes, data1 \in Edges, data2 \in Edges}

(* Each is decoded as what it means.                                       *)
ASSUME EdgesDecode == \A call \in EdgeCalls : Decoded(Encoded(call)) = Meant(call)
=============================================================================
