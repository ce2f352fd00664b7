--------------------------------- MODULE Ring --------------------------------
(***************************************************************************)
(* Positions in a stream that goes through a ring, and the slots of the    *)
(* ring they are kept in.                                                  *)
(***************************************************************************)
EXTENDS Integers

CONSTANT Size           \* CIRCULAR_BUFFER_SIZE, BUFFER_SIZE, MIDI_BUFFER_SIZE

ASSUME SizeAssumption == Size \in Nat \ {0}

Slots == 0..(Size - 1)
Slot(index) == index % Size

(* Of the latest Size positions of a stream of which "written" are written *)
(* to a ring, the one that is in the slot of "position": what a read at    *)
(* "position" returns (RingProofs, RingReadsNext).                         *)
Latest(written, position) == (written - Size) + Slot(position - written)

=============================================================================
