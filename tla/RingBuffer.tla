------------------------------ MODULE RingBuffer -----------------------------
(***************************************************************************)
(* The one data structure everything that streams goes through: a fixed    *)
(* array with a write index and a read index that wrap, and no test for    *)
(* full or empty.  DistrhoCircularBuffer is one (2048 frames), and so is   *)
(* each channel (4096 frames) and each MIDI direction (2048 events) of the *)
(* AudioBuffer in shared memory.                                           *)
(*                                                                         *)
(* Data abstraction: a frame is its position in the stream that is written *)
(* to the ring.  The array starts out as zeros: silence, the frames at     *)
(* negative positions.                                                     *)
(***************************************************************************)
EXTENDS Ring

CONSTANTS
    Blocks,             \* numbers of frames a call may be for
    MaxStream           \* bound: frames written and frames read

ASSUME BlocksAssumption == Blocks \subseteq Nat /\ MaxStream \in Nat

VARIABLES
    buffer,
    write_index,
    read_index,
    out,                \* what the latest read returned
    written,            \* history: frames ever written
    read                \* history: frames ever read

ringVars == <<buffer, write_index, read_index, out, written, read>>

RingInit ==
    /\ buffer = [i \in Slots |-> i - Size]
    /\ write_index = 0
    /\ read_index = 0
    /\ out = [frame \in {} |-> 0]
    /\ written = 0
    /\ read = 0

(* The frames of a block of p_frames that the loop puts into slot i.  If   *)
(* the block is longer than the ring it goes round, and the last one stays.*)
FramesFor(i, p_frames) ==
    {frame \in 0..(p_frames - 1) : Slot(write_index + frame) = i}
LastFor(i, p_frames) ==
    CHOOSE frame \in FramesFor(i, p_frames) : frame >= p_frames - Size

(* Mutant: at the end of the array the index starts over.                  *)
WriteChannelRestarting(p_frames) ==
    /\ written + p_frames <= MaxStream
    /\ buffer' = [i \in Slots |-> IF FramesFor(i, p_frames) # {}
                                  THEN written + LastFor(i, p_frames)
                                  ELSE buffer[i]]
    /\ write_index' = IF write_index + p_frames < Size
                      THEN write_index + p_frames ELSE 0
    /\ written' = written + p_frames
    /\ UNCHANGED <<read_index, out, read>>

WriteChannel(p_frames) ==
    /\ written + p_frames <= MaxStream
    /\ buffer' = [i \in Slots |-> IF FramesFor(i, p_frames) # {}
                                  THEN written + LastFor(i, p_frames)
                                  ELSE buffer[i]]
    /\ write_index' = Slot(write_index + p_frames)
    /\ written' = written + p_frames
    /\ UNCHANGED <<read_index, out, read>>

(* Mutant: the read starts at the write index, the oldest slot.            *)
ReadChannelOldest(p_frames) ==
    /\ read + p_frames <= MaxStream
    /\ out' = [frame \in 0..(p_frames - 1) |-> buffer[Slot(write_index + frame)]]
    /\ read_index' = Slot(read_index + p_frames)
    /\ read' = read + p_frames
    /\ UNCHANGED <<buffer, write_index, written>>

ReadChannel(p_frames) ==
    /\ read + p_frames <= MaxStream
    /\ out' = [frame \in 0..(p_frames - 1) |-> buffer[Slot(read_index + frame)]]
    /\ read_index' = Slot(read_index + p_frames)
    /\ read' = read + p_frames
    /\ UNCHANGED <<buffer, write_index, written>>

RingNext ==
    \E p_frames \in Blocks : WriteChannel(p_frames) \/ ReadChannel(p_frames)

RingSpec == RingInit /\ [][RingNext]_ringVars

-----------------------------------------------------------------------------
(* The positions the ring can hold: the latest Size frames.                *)
Window == (written - Size)..(written - 1)

(* Every variable keeps its type.                                          *)
RingTypeOK ==
    /\ buffer \in [Slots -> Int]
    /\ write_index \in Slots
    /\ read_index \in Slots
    /\ written \in Nat
    /\ read \in Nat

(* However blocks of any length were written, the ring holds the latest    *)
(* Size frames of its stream, each in the slot of its position.            *)
HoldsLatest == \A p \in Window : buffer[Slot(p)] = p

(* A read returns the frames that come next in the stream if the ring      *)
(* still, and already, holds them.  A reader that is too late, or too      *)
(* early, is not told: it gets frames of the ring that are a whole number  *)
(* of rings later, or earlier, than those it should get.                   *)
ReadsNext ==
    [][read' # read =>
          \A frame \in 0..(read' - read - 1) :
             /\ out'[frame] \in Window
             /\ Slot(out'[frame]) = Slot(read + frame)
             /\ read + frame \in Window => out'[frame] = read + frame]_ringVars

=============================================================================
