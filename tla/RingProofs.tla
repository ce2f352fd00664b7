------------------------------ MODULE RingProofs -----------------------------
(***************************************************************************)
(* Proofs about what streams through rings, for rings of any size:         *)
(* RingBuffer, under blocks of any length, longer than the ring included,  *)
(* and MixPipeline, two rings in a row: its delay under any blocks, and    *)
(* its exact delay and recovery with one block size.                       *)
(***************************************************************************)
EXTENDS RingBuffer, MixPipeline, TLAPS

-----------------------------------------------------------------------------
(* The arithmetic of wrapping indices.                                     *)

LEMMA Product ==
    ASSUME NEW q \in Int
    PROVE  Size * q \in Int
BY SizeAssumption, Z3

LEMMA DivMod ==
    ASSUME NEW a \in Int
    PROVE  /\ a \div Size \in Int
           /\ Slot(a) \in Int /\ 0 <= Slot(a) /\ Slot(a) < Size
           /\ a = (Size * (a \div Size)) + Slot(a)
BY SizeAssumption, Z3 DEF Slot

LEMMA SmallMultiple ==
    ASSUME NEW q \in Int, Size * q < Size, Size * q > -Size
    PROVE  q = 0
BY SizeAssumption, Z3

(* Two positions less than a ring apart share a slot only if they are one. *)
LEMMA SlotUnique ==
    ASSUME NEW a \in Int, NEW b \in Int, Slot(a) = Slot(b),
           a - b < Size, b - a < Size
    PROVE  a = b
<1> DEFINE q == (a \div Size) - (b \div Size)
<1>1. /\ a \div Size \in Int /\ b \div Size \in Int /\ Size \in Int
      /\ Slot(a) \in Int /\ Slot(b) \in Int /\ q \in Int
  BY DivMod, SizeAssumption
<1>2. /\ a = (Size * (a \div Size)) + Slot(a)
      /\ b = (Size * (b \div Size)) + Slot(b)
  BY DivMod
<1>3. a - b = (Size * (a \div Size)) - (Size * (b \div Size))
  <2>1. Size * (a \div Size) \in Int /\ Size * (b \div Size) \in Int
    BY <1>1, Product
  <2> HIDE DEF q
  <2> QED BY <1>1, <1>2, <2>1
<1>4. a - b = Size * q
  BY <1>1, <1>3, Z3
<1>5. q = 0
  <2> HIDE DEF q
  <2> QED BY <1>1, <1>4, SmallMultiple
<1> QED
  BY <1>1, <1>4, <1>5

(* Wrapping early and wrapping late lead to the same slot.                 *)
LEMMA SlotShift ==
    ASSUME NEW a \in Int, NEW n \in Int
    PROVE  Slot(Slot(a) + n) = Slot(a + n)
<1>1. Slot(a) \in Int /\ Size \in Int
  BY DivMod, SizeAssumption
<1>2. PICK c \in Int : c = Slot(a) + n
  BY <1>1
<1>3. PICK d \in Int : d = a + n
  OBVIOUS
<1>4. /\ a \div Size \in Int /\ c \div Size \in Int /\ d \div Size \in Int
      /\ Slot(c) \in Int /\ Slot(d) \in Int
      /\ 0 <= Slot(c) /\ Slot(c) < Size /\ 0 <= Slot(d) /\ Slot(d) < Size
  BY DivMod
<1>5. PICK q \in Int : q = ((d \div Size) - (a \div Size)) - (c \div Size)
  BY <1>4
<1>6. Slot(c) - Slot(d) = Size * q
  <2>1. /\ c = (Size * (c \div Size)) + Slot(c)
        /\ d = (Size * (d \div Size)) + Slot(d)
        /\ a = (Size * (a \div Size)) + Slot(a)
    BY DivMod
  <2>2. /\ Size * (c \div Size) \in Int /\ Size * (d \div Size) \in Int
        /\ Size * (a \div Size) \in Int
    BY <1>4, Product
  <2>3. Slot(a) + n = (Size * (c \div Size)) + Slot(c)
    BY <1>2, <2>1
  <2>4. a + n = (Size * (d \div Size)) + Slot(d)
    BY <1>3, <2>1
  <2>5. PICK x \in Int, y \in Int, z \in Int :
           /\ x = Size * (a \div Size)
           /\ y = Size * (c \div Size)
           /\ z = Size * (d \div Size)
    BY <2>2
  <2>6. PICK sa \in Int, sc \in Int, sd \in Int :
           sa = Slot(a) /\ sc = Slot(c) /\ sd = Slot(d)
    BY <1>1, <1>4
  <2>7. sc - sd = (z - x) - y
    <3>1. a = x + sa /\ sa + n = y + sc /\ a + n = z + sd
      BY <2>1, <2>3, <2>4, <2>5, <2>6
    <3> QED
      BY <3>1
  <2> QED
    BY <1>1, <1>4, <1>5, <2>5, <2>6, <2>7, Z3
<1>7. q = 0
  BY <1>1, <1>4, <1>6, SmallMultiple
<1>8. Slot(c) = Slot(d)
  BY <1>1, <1>4, <1>6, <1>7
<1> QED
  BY <1>2, <1>3, <1>8

(* Going round the ring leads back to the same slot.                       *)
LEMMA SlotRound ==
    ASSUME NEW a \in Int, NEW q \in Int
    PROVE  Slot(a + (Size * q)) = Slot(a)
<1>1. PICK m \in Int : m = Size * q
  BY Product
<1>2. PICK b \in Int : b = a + m
  OBVIOUS
<1>3. PICK da \in Int, db \in Int, sa \in Int, sb \in Int :
         /\ sa = Slot(a) /\ a = (Size * da) + sa /\ 0 <= sa /\ sa < Size
         /\ sb = Slot(b) /\ b = (Size * db) + sb /\ 0 <= sb /\ sb < Size
  <2>1. /\ a \div Size \in Int /\ Slot(a) \in Int
        /\ a = (Size * (a \div Size)) + Slot(a)
        /\ 0 <= Slot(a) /\ Slot(a) < Size
    BY DivMod
  <2>2. /\ b \div Size \in Int /\ Slot(b) \in Int
        /\ b = (Size * (b \div Size)) + Slot(b)
        /\ 0 <= Slot(b) /\ Slot(b) < Size
    BY DivMod
  <2> QED
    BY <2>1, <2>2
<1>4. PICK r \in Int : r = (q + da) - db
  OBVIOUS
<1>5. sb - sa = Size * r
  <2>1. PICK x \in Int, y \in Int : x = Size * da /\ y = Size * db
    BY Product
  <2>2. a = x + sa /\ b = y + sb
    BY <1>3, <2>1
  <2>3. sb - sa = (m + x) - y
    BY <1>2, <2>2
  <2>4. Size * r = ((Size * q) + (Size * da)) - (Size * db)
    BY <1>4, SizeAssumption, Z3
  <2> QED
    BY <1>1, <2>1, <2>3, <2>4
<1>6. r = 0
  <2>1. Size * r < Size /\ Size * r > -Size
    BY <1>3, <1>5, SizeAssumption
  <2> QED
    BY <2>1, SmallMultiple
<1>7. sb = sa
  <2>1. Size * 0 = 0
    BY SizeAssumption
  <2> QED
    BY <1>5, <1>6, <2>1
<1> QED
  BY <1>1, <1>2, <1>3, <1>7

-----------------------------------------------------------------------------
(* RingBuffer.                                                             *)

(* A slot that a block reaches is reached by one of its last Size frames.  *)
LEMMA LastExists ==
    ASSUME NEW n \in Nat, NEW i, write_index \in Int, FramesFor(i, n) # {}
    PROVE  /\ LastFor(i, n) \in FramesFor(i, n)
           /\ LastFor(i, n) >= n - Size
<1>1. PICK f \in 0..(n - 1) : Slot(write_index + f) = i
  BY DEF FramesFor
<1>2. PICK d \in Nat : d = (n - 1) - f
  OBVIOUS
<1>3. PICK q \in Int, s \in Int :
         /\ q = d \div Size /\ s = Slot(d)
         /\ 0 <= s /\ s < Size
         /\ d = (Size * q) + s
  BY DivMod
<1>4. PICK m \in Int : m = Size * q
  BY Product
<1>5. f + m = (n - 1) - s
  BY <1>2, <1>3, <1>4
<1>6. f + m >= 0
  <2>1. CASE n >= Size
    BY <1>3, <1>5, <2>1, SizeAssumption
  <2>2. CASE n < Size
    <3>1. Size * q < Size /\ Size * q > -Size
      BY <1>2, <1>3, <1>4, <2>2, SizeAssumption
    <3>2. q = 0
      BY <3>1, SmallMultiple
    <3> QED
      BY <1>4, <3>2, SizeAssumption
  <2> QED
    BY <2>1, <2>2, SizeAssumption
<1>7. f + m \in 0..(n - 1) /\ f + m >= n - Size
  BY <1>3, <1>5, <1>6, SizeAssumption
<1>8. Slot(write_index + (f + m)) = i
  <2>1. PICK a \in Int : a = write_index + f
    OBVIOUS
  <2>2. Slot(a + (Size * q)) = i
    BY <1>1, <2>1, SlotRound
  <2>3. write_index + (f + m) = a + (Size * q)
    BY <1>4, <2>1
  <2> QED
    BY <2>2, <2>3
<1>9. f + m \in FramesFor(i, n)
  BY <1>7, <1>8 DEF FramesFor
<1> QED
  BY <1>7, <1>9 DEF LastFor

-----------------------------------------------------------------------------
(* The ring.  HoldsLatest is inductive together with what the two indices  *)
(* are: the positions in the stream, wrapped.                              *)
RingInv ==
    /\ RingTypeOK
    /\ write_index = Slot(written)
    /\ read_index = Slot(read)
    /\ HoldsLatest

LEMMA InitRing == RingInit => RingInv
<1> SUFFICES ASSUME RingInit PROVE RingInv
  OBVIOUS
<1>1. Size \in Int /\ Size > 0
  BY SizeAssumption
<1>2. Slot(0) = 0
  BY <1>1, DivMod, SlotUnique DEF Slot
<1>3. RingTypeOK
  BY <1>1 DEF RingInit, RingTypeOK, Slots
<1>4. ASSUME NEW p \in Window PROVE buffer[Slot(p)] = p
  <2>1. p \in Int /\ -Size <= p /\ p < 0
    BY <1>1, <1>4 DEF RingInit, Window
  <2>2. PICK i \in Int : i = p + Size
    BY <1>1, <2>1
  <2>3. Slot(i) = Slot(p)
    <3>1. Size * 1 = Size
      BY <1>1
    <3> QED
      BY <2>1, <2>2, <3>1, SlotRound
  <2>4. Slot(Slot(i)) = Slot(i)
    <3>1. Slot(i) \in Int /\ Slot(i) + 0 = Slot(i) /\ i + 0 = i
      BY DivMod
    <3> QED
      BY <3>1, SlotShift
  <2>5. i = Slot(i)
    <3>1. Slot(i) \in Int /\ 0 <= Slot(i) /\ Slot(i) < Size
      BY DivMod
    <3>2. 0 <= i /\ i < Size
      BY <1>1, <2>1, <2>2
    <3> QED
      BY <1>1, <2>4, <3>1, <3>2, SlotUnique
  <2>6. i \in Slots
    BY <1>1, <2>1, <2>2 DEF Slots
  <2> QED
    BY <1>1, <2>1, <2>2, <2>3, <2>5, <2>6 DEF RingInit
<1> QED
  BY <1>2, <1>3, <1>4 DEF RingInit, RingInv, HoldsLatest

(* Writing a block keeps the latest Size frames: a slot the block reaches  *)
(* gets the last of the block's frames that belong there, and a position   *)
(* of the new window that is older than the block is in a slot the block   *)
(* does not reach.                                                         *)
LEMMA WriteStep ==
    ASSUME RingInv, NEW n \in Nat, WriteChannel(n)
    PROVE  RingInv'
<1>1. Size \in Int /\ Size > 0
  BY SizeAssumption
<1>2. /\ written \in Nat /\ write_index \in Int /\ write_index = Slot(written)
      /\ buffer \in [Slots -> Int]
  BY <1>1 DEF RingInv, RingTypeOK, Slots
<1>3. written' = written + n /\ write_index' = Slot(write_index + n)
  BY DEF WriteChannel
<1>4. ASSUME NEW f \in Int PROVE Slot(write_index + f) = Slot(written + f)
  BY <1>2, SlotShift
<1>5. ASSUME NEW i \in Slots
      PROVE  /\ FramesFor(i, n) # {} =>
                    /\ LastFor(i, n) \in 0..(n - 1) /\ LastFor(i, n) >= n - Size
                    /\ Slot(written + LastFor(i, n)) = i
                    /\ buffer'[i] = written + LastFor(i, n)
             /\ FramesFor(i, n) = {} => buffer'[i] = buffer[i]
  <2>1. CASE FramesFor(i, n) # {}
    <3>1. LastFor(i, n) \in FramesFor(i, n) /\ LastFor(i, n) >= n - Size
      BY <1>2, <2>1, LastExists
    <3>2. LastFor(i, n) \in 0..(n - 1) /\ Slot(write_index + LastFor(i, n)) = i
      BY <3>1 DEF FramesFor
    <3>3. Slot(written + LastFor(i, n)) = i
      BY <1>4, <3>2
    <3>4. buffer'[i] = written + LastFor(i, n)
      BY <2>1 DEF WriteChannel
    <3> QED
      BY <2>1, <3>1, <3>2, <3>3, <3>4
  <2>2. CASE FramesFor(i, n) = {}
    BY <2>2 DEF WriteChannel
  <2> QED
    BY <2>1, <2>2
<1>6. ASSUME NEW p \in Window' PROVE buffer'[Slot(p)] = p
  <2>1. p \in Int /\ (written + n) - Size <= p /\ p < written + n
    BY <1>1, <1>2, <1>3 DEF Window
  <2>2. Slot(p) \in Slots
    <3>1. Slot(p) \in Int /\ 0 <= Slot(p) /\ Slot(p) < Size
      BY <2>1, DivMod
    <3> QED
      BY <1>1, <3>1 DEF Slots
  <2>3. CASE p >= written
    <3>1. PICK f \in 0..(n - 1) : f = p - written
      BY <1>2, <2>1, <2>3
    <3>2. Slot(write_index + f) = Slot(p)
      <4>1. written + f = p
        BY <1>2, <2>1, <3>1
      <4> QED
        BY <1>4, <3>1, <4>1
    <3>3. FramesFor(Slot(p), n) # {}
      BY <3>1, <3>2 DEF FramesFor
    <3>4. PICK last \in 0..(n - 1) :
             /\ last = LastFor(Slot(p), n) /\ last >= n - Size
             /\ Slot(written + last) = Slot(p)
             /\ buffer'[Slot(p)] = written + last
      BY <1>5, <2>2, <3>3
    <3>5. written + last = p
      <4>1. PICK a \in Int : a = written + last
        BY <1>2, <3>4
      <4>2. a - p < Size /\ p - a < Size
        BY <1>1, <1>2, <2>1, <3>4, <4>1
      <4> QED
        BY <2>1, <3>4, <4>1, <4>2, SlotUnique
    <3> QED
      BY <3>4, <3>5
  <2>4. CASE p < written
    <3>1. FramesFor(Slot(p), n) = {}
      <4> SUFFICES ASSUME NEW f \in 0..(n - 1), Slot(write_index + f) = Slot(p)
                   PROVE  FALSE
        BY DEF FramesFor
      <4>1. PICK a \in Int : a = written + f
        BY <1>2
      <4>2. Slot(a) = Slot(p)
        BY <1>4, <4>1
      <4>3. a - p < Size /\ p - a < Size /\ a # p
        BY <1>1, <1>2, <2>1, <2>4, <4>1
      <4> QED
        BY <2>1, <4>2, <4>3, SlotUnique
    <3>2. p \in Window
      BY <1>1, <1>2, <2>1, <2>4 DEF Window
    <3> QED
      BY <1>5, <2>2, <3>1, <3>2 DEF RingInv, HoldsLatest
  <2> QED
    BY <1>2, <2>1, <2>3, <2>4
<1>7. RingTypeOK'
  <2>1. ASSUME NEW i \in Slots PROVE buffer'[i] \in Int
    BY <1>2, <1>5
  <2>2. buffer' \in [Slots -> Int]
    BY <2>1 DEF WriteChannel
  <2>3. write_index' \in Slots
    <3>1. PICK a \in Int : a = write_index + n
      BY <1>2
    <3>2. Slot(a) \in Int /\ 0 <= Slot(a) /\ Slot(a) < Size
      BY DivMod
    <3> QED
      BY <1>1, <1>3, <3>1, <3>2 DEF Slots
  <2> QED
    BY <1>2, <1>3, <2>2, <2>3 DEF RingInv, RingTypeOK, WriteChannel, Slots
<1>8. write_index' = Slot(written') /\ read_index' = Slot(read')
  BY <1>3, <1>4 DEF RingInv, WriteChannel
<1> QED
  BY <1>6, <1>7, <1>8 DEF RingInv, HoldsLatest, Slot

LEMMA ReadStep ==
    ASSUME RingInv, NEW n \in Nat, ReadChannel(n)
    PROVE  RingInv'
<1>1. Size \in Int /\ Size > 0
  BY SizeAssumption
<1>2. read \in Nat /\ read_index \in Int /\ read_index = Slot(read)
  BY <1>1 DEF RingInv, RingTypeOK, Slots
<1>3. read' = read + n /\ read_index' = Slot(read_index + n)
  BY DEF ReadChannel
<1>4. read_index' = Slot(read')
  BY <1>2, <1>3, SlotShift
<1>5. read_index' \in Slots
  <2>1. PICK a \in Int : a = read_index + n
    BY <1>2
  <2>2. Slot(a) \in Int /\ 0 <= Slot(a) /\ Slot(a) < Size
    BY DivMod
  <2> QED
    BY <1>1, <1>3, <2>1, <2>2 DEF Slots
<1> QED
  BY <1>2, <1>3, <1>4, <1>5
  DEF RingInv, RingTypeOK, HoldsLatest, Window, ReadChannel, Slots, Slot

(* Whatever slot is read, it holds a frame of the window, and the one at   *)
(* the position asked for if that is in the window.                        *)
LEMMA SlotHolds ==
    ASSUME RingInv, NEW q \in Int
    PROVE  /\ buffer[Slot(q)] \in Window
           /\ Slot(buffer[Slot(q)]) = Slot(q)
           /\ q \in Window => buffer[Slot(q)] = q
<1>1. Size \in Int /\ Size > 0 /\ written \in Nat
  BY SizeAssumption DEF RingInv, RingTypeOK
<1>2. PICK first \in Int : first = written - Size
  BY <1>1
<1>3. PICK e \in Int : e = Slot(q - first)
  <2>1. q - first \in Int
    OBVIOUS
  <2> QED
    BY <2>1, DivMod
<1>4. PICK d \in Int : d = q - first
  OBVIOUS
<1>5. 0 <= e /\ e < Size
  BY <1>3, <1>4, DivMod
<1>6. PICK p \in Int : p = first + e
  OBVIOUS
<1>7. Slot(p) = Slot(q)
  <2>1. Slot(Slot(d) + first) = Slot(d + first)
    BY SlotShift
  <2>2. Slot(d) = e /\ d + first = q /\ e + first = p
    BY <1>3, <1>4, <1>6
  <2> QED
    BY <2>1, <2>2
<1>8. p \in Window
  BY <1>1, <1>2, <1>5, <1>6 DEF Window
<1>9. buffer[Slot(p)] = p
  BY <1>8 DEF RingInv, HoldsLatest
<1> QED
  BY <1>7, <1>8, <1>9 DEF RingInv, HoldsLatest

-----------------------------------------------------------------------------
LEMMA RingInvariant == RingSpec => []RingInv
<1>1. RingInit => RingInv
  BY InitRing
<1>2. RingInv /\ [RingNext]_ringVars => RingInv'
  <2> SUFFICES ASSUME RingInv, [RingNext]_ringVars PROVE RingInv'
    OBVIOUS
  <2>1. ASSUME NEW n \in Blocks, WriteChannel(n) PROVE RingInv'
    BY <2>1, WriteStep, BlocksAssumption
  <2>2. ASSUME NEW n \in Blocks, ReadChannel(n) PROVE RingInv'
    BY <2>2, ReadStep, BlocksAssumption
  <2>3. CASE UNCHANGED ringVars
    BY <2>3 DEF RingInv, RingTypeOK, HoldsLatest, Window, ringVars, Slots, Slot
  <2> QED
    BY <2>1, <2>2, <2>3 DEF RingNext
<1> QED
  BY <1>1, <1>2, PTL DEF RingSpec

(* The indices of a ring of any size stay inside it.                       *)
THEOREM RingTypeCorrect == RingSpec => []RingTypeOK
<1>1. RingInv => RingTypeOK
  BY DEF RingInv
<1> QED
  BY <1>1, RingInvariant, PTL

(* However blocks are written, a ring of any size holds the latest Size    *)
(* frames, each in its slot: AudioBuffer's channels and its MIDI arrays,   *)
(* and DistrhoCircularBuffer.                                              *)
THEOREM RingHoldsLatest == RingSpec => []HoldsLatest
<1>1. RingInv => HoldsLatest
  BY DEF RingInv
<1> QED
  BY <1>1, RingInvariant, PTL

(* A read of any length from a ring of any size returns the next frames of *)
(* the stream wherever the ring holds them.                                *)
THEOREM RingReadsNext == RingSpec => ReadsNext
<1>1. RingInv /\ [RingNext]_ringVars =>
         [read' # read =>
             \A frame \in 0..(read' - read - 1) :
                /\ out'[frame] \in Window
                /\ Slot(out'[frame]) = Slot(read + frame)
                /\ read + frame \in Window => out'[frame] = read + frame]_ringVars
  <2> SUFFICES ASSUME RingInv, RingNext, read' # read,
                      NEW frame \in 0..(read' - read - 1)
               PROVE  /\ out'[frame] \in Window
                      /\ Slot(out'[frame]) = Slot(read + frame)
                      /\ read + frame \in Window => out'[frame] = read + frame
    BY DEF ringVars
  <2>1. PICK n \in Blocks : ReadChannel(n)
    BY DEF RingNext, WriteChannel
  <2>2. n \in Nat /\ read \in Nat /\ read_index \in Int
    BY BlocksAssumption, SizeAssumption DEF RingInv, RingTypeOK, Slots
  <2>3. frame \in 0..(n - 1)
    BY <2>1, <2>2 DEF ReadChannel
  <2>4. out'[frame] = buffer[Slot(read_index + frame)]
    BY <2>1, <2>3 DEF ReadChannel
  <2>5. Slot(read_index + frame) = Slot(read + frame)
    BY <2>2, <2>3, SlotShift DEF RingInv
  <2> QED
    BY <2>2, <2>3, <2>4, <2>5, SlotHolds
<1> QED
  BY <1>1, RingInvariant, PTL DEF RingSpec, ReadsNext

-----------------------------------------------------------------------------
(* MixPipeline.                                                            *)

LEMMA NonNegative ==
    ASSUME NEW n \in BlockSizes
    PROVE  n \in Nat
BY BlockSizesAssumption

(* A read at a position finds a written frame of the position's slot.      *)
LEMMA LatestOfSlot ==
    ASSUME NEW w \in Nat, NEW p \in Int
    PROVE  /\ Latest(w, p) \in Int
           /\ Latest(w, p) < w
           /\ Slot(Latest(w, p)) = Slot(p)
<1>1. PICK s \in Int : s = Slot(p - w) /\ 0 <= s /\ s < Size
  BY DivMod
<1>2. Size \in Int
  BY SizeAssumption
<1>3. Latest(w, p) = (w - Size) + s
  BY <1>1 DEF Latest
<1>4. Slot(Latest(w, p)) = Slot(s + (w - Size))
  BY <1>1, <1>2, <1>3
<1>5. Slot(s + (w - Size)) = Slot((p - w) + (w - Size))
  <2>1. PICK a \in Int : a = p - w
    OBVIOUS
  <2>2. PICK n \in Int : n = w - Size
    BY <1>2
  <2> QED
    BY <1>1, <2>1, <2>2, SlotShift
<1>6. Slot((p - w) + (w - Size)) = Slot(p)
  <2>1. (p - w) + (w - Size) = p + (Size * (-1))
    BY <1>2
  <2> QED
    BY <2>1, SlotRound
<1> QED
  BY <1>1, <1>2, <1>3, <1>4, <1>5, <1>6

(* Positions that share a slot still share one when both are moved.        *)
LEMMA SlotMoved ==
    ASSUME NEW a \in Int, NEW b \in Int, NEW n \in Int, Slot(a) = Slot(b)
    PROVE  Slot(a + n) = Slot(b + n)
<1>1. Slot(a + n) = Slot(Slot(a) + n)
  BY SlotShift
<1>2. Slot(b + n) = Slot(Slot(b) + n)
  BY SlotShift
<1> QED
  BY <1>1, <1>2

-----------------------------------------------------------------------------
(* What keeps the delay: both channels are read and written in step, but   *)
(* for the frames the effect dropped; it only dropped frames before it     *)
(* wrote any; and what it wrote is in the slot it came from, moved by what *)
(* was dropped.                                                            *)
InStep ==
    /\ input_channel.read = output_channel.written + gated
    /\ output_channel.read = input_channel.written

NothingHeard ==
    ~has_data =>
        /\ output_channel.written = 0
        /\ \A frame \in DOMAIN output.frames : output.frames[frame] < 0

SourceAligned ==
    \A position \in 0..(output_channel.written - 1) :
        source[position] >= 0 =>
            Slot(source[position]) = Slot(position + gated)

PipelineInv ==
    TypeOK /\ InStep /\ NothingHeard /\ SourceAligned /\ DelayIsWholeRings

LEMMA InitInv == Init => PipelineInv
<1> SUFFICES ASSUME Init PROVE PipelineInv
  OBVIOUS
<1>1. TypeOK
  <2>1. /\ num_samples \in BlockSizes \cup {0}
        /\ thread \in {"looping", "waiting", "woken"}
        /\ initialized \in BOOLEAN /\ has_data \in BOOLEAN
        /\ input_channel \in ChannelRing /\ output_channel \in ChannelRing
        /\ gated \in Nat /\ steady \in Nat
    BY DEF Init, ChannelRing
  <2>2. source \in [0..(output_channel.written - 1) -> Int]
    BY DEF Init
  <2>3. output.first \in Nat /\ output.frames \in [DOMAIN output.frames -> Int]
    BY DEF Init
  <2> QED
    BY <2>1, <2>2, <2>3 DEF TypeOK
<1>2. InStep /\ NothingHeard /\ SourceAligned /\ DelayIsWholeRings
  BY DEF Init, InStep, NothingHeard, SourceAligned, DelayIsWholeRings
<1> QED
  BY <1>1, <1>2 DEF PipelineInv

LEMMA FramesNat == TypeOK => Frames \in Nat
BY BlockSizesAssumption DEF TypeOK, Frames

(* What process_sample reads is of the slot the effect writes it to.       *)
LEMMA MixedAligned ==
    ASSUME TypeOK, InStep, NEW frame \in Nat
    PROVE  /\ Mixed(frame) \in Int
           /\ Slot(Mixed(frame)) = Slot((output_channel.written + frame) + gated)
<1>1. /\ input_channel.written \in Nat /\ input_channel.read \in Nat
      /\ output_channel.written \in Nat /\ gated \in Nat
  BY DEF TypeOK, ChannelRing
<1>2. PICK p \in Int : p = input_channel.read + frame
  BY <1>1
<1>3. p = (output_channel.written + frame) + gated
  BY <1>1, <1>2 DEF InStep
<1>4. Mixed(frame) = Latest(input_channel.written, p)
  BY <1>2 DEF Mixed
<1> QED
  BY <1>1, <1>3, <1>4, LatestOfSlot

(* What the audio thread reads is of the slot of the block it answers.     *)
LEMMA HeardAligned ==
    ASSUME PipelineInv, NEW frame \in Nat
    PROVE  /\ Heard(frame) \in Int
           /\ ~has_data => Heard(frame) < 0
           /\ Heard(frame) >= 0 =>
                 Slot(Heard(frame)) = Slot((input_channel.written + frame) + gated)
<1>1. /\ output_channel.written \in Nat /\ output_channel.read \in Nat
      /\ input_channel.written \in Nat /\ gated \in Nat
      /\ source \in [0..(output_channel.written - 1) -> Int]
  BY DEF PipelineInv, TypeOK, ChannelRing
<1>0. PICK r \in Int : r = output_channel.read + frame
  BY <1>1
<1>2. PICK p \in Int : p = Latest(output_channel.written, r)
  BY <1>1, LatestOfSlot
<1>3. p < output_channel.written /\ Slot(p) = Slot(r)
  BY <1>1, <1>2, LatestOfSlot
<1>4. Heard(frame) = IF p >= 0 THEN source[p] ELSE p
  BY <1>0, <1>2 DEF Heard
<1>5. CASE p >= 0
  <2>1. p \in 0..(output_channel.written - 1)
    BY <1>1, <1>3, <1>5
  <2>2. Heard(frame) = source[p] /\ source[p] \in Int
    BY <1>1, <1>4, <1>5, <2>1
  <2>3. has_data
    BY <1>1, <2>1 DEF PipelineInv, NothingHeard
  <2>4. source[p] >= 0 => Slot(source[p]) = Slot(p + gated)
    BY <2>1 DEF PipelineInv, SourceAligned
  <2>5. Slot(p + gated) = Slot(r + gated)
    <3>1. gated \in Int
      BY <1>1
    <3>2. Slot(p) = Slot(r)
      BY <1>3
    <3> QED
      BY <3>1, <3>2, SlotMoved
  <2>6. r + gated = (input_channel.written + frame) + gated
    BY <1>0, <1>1 DEF PipelineInv, InStep
  <2> QED
    BY <2>2, <2>3, <2>4, <2>5, <2>6
<1>6. CASE p < 0
  BY <1>4, <1>6
<1> QED
  BY <1>5, <1>6

-----------------------------------------------------------------------------
(* A mix: the frames it reads are dropped, or they are written and keep    *)
(* their slot.                                                             *)
LEMMA MixStep == PipelineInv /\ Mix => PipelineInv'
<1> SUFFICES ASSUME PipelineInv, Mix PROVE PipelineInv'
  OBVIOUS
<1> USE DEF PipelineInv
<1>1. PICK n \in Nat : n = Frames
  BY FramesNat
<1>2. /\ input_channel.written \in Nat /\ input_channel.read \in Nat
      /\ output_channel.written \in Nat /\ output_channel.read \in Nat
      /\ gated \in Nat /\ has_data \in BOOLEAN
      /\ input_channel \in ChannelRing /\ output_channel \in ChannelRing
      /\ source \in [0..(output_channel.written - 1) -> Int]
  BY DEF TypeOK, ChannelRing
<1>3. /\ input_channel' \in ChannelRing
      /\ input_channel'.read = input_channel.read + n
      /\ input_channel'.written = input_channel.written
      /\ UNCHANGED <<num_samples, initialized, output, steady>>
      /\ thread' = "waiting"
  BY <1>1, <1>2 DEF Mix, ChannelRing
<1>4. has_data' \in BOOLEAN /\ (has_data => has_data')
  BY <1>2 DEF Mix
<1>5. CASE has_data'
  <2>1. /\ output_channel' = [output_channel EXCEPT !.written = @ + n]
        /\ source' = [position \in 0..(output_channel.written + n - 1) |->
                         IF position < output_channel.written
                         THEN source[position]
                         ELSE Mixed(position - output_channel.written)]
        /\ gated' = gated
    BY <1>1, <1>5 DEF Mix, WriteOutputChannel
  <2>2. /\ output_channel' \in ChannelRing
        /\ output_channel'.written = output_channel.written + n
        /\ output_channel'.read = output_channel.read
    BY <1>2, <2>1, SMTT(30) DEF ChannelRing
  <2>3. ASSUME NEW position \in 0..(output_channel.written + n - 1)
        PROVE  /\ source'[position] \in Int
               /\ source'[position] >= 0 =>
                     Slot(source'[position]) = Slot(position + gated)
    <3>1. CASE position < output_channel.written
      <4>1. position \in 0..(output_channel.written - 1)
        BY <1>2, <3>1
      <4>2. source'[position] = source[position]
        BY <2>1, <3>1
      <4> QED
        BY <1>2, <4>1, <4>2 DEF SourceAligned
    <3>2. CASE position >= output_channel.written
      <4>1. PICK frame \in Nat : frame = position - output_channel.written
        BY <1>2, <3>2
      <4>2. source'[position] = Mixed(frame)
        BY <1>2, <2>1, <3>2, <4>1
      <4>3. (output_channel.written + frame) + gated = position + gated
        BY <1>2, <4>1
      <4> QED
        BY <4>2, <4>3, MixedAligned
    <3> QED
      BY <1>2, <3>1, <3>2
  <2> DEFINE Positions == 0..(output_channel.written + n - 1)
  <2>0. 0..(output_channel'.written - 1) = Positions
    <3>1. output_channel'.written - 1 = output_channel.written + n - 1
      BY <1>2, <2>2
    <3> QED
      BY <3>1
  <2>4. source' \in [0..(output_channel'.written - 1) -> Int]
    <3>1. source' = [position \in Positions |-> source'[position]]
      BY <2>1
    <3>2. \A position \in Positions : source'[position] \in Int
      BY <2>3
    <3> HIDE DEF Positions
    <3> QED
      BY <2>0, <3>1, <3>2
  <2>5. TypeOK'
    BY <1>3, <1>4, <2>1, <2>2, <2>4 DEF TypeOK
  <2>6. InStep'
    BY <1>2, <1>3, <2>1, <2>2 DEF InStep
  <2>7. SourceAligned'
    <3>1. \A position \in Positions :
             source'[position] >= 0 =>
                Slot(source'[position]) = Slot(position + gated')
      BY <2>1, <2>3
    <3> HIDE DEF Positions
    <3> QED
      BY <2>0, <3>1 DEF SourceAligned
  <2>8. DelayIsWholeRings' /\ NothingHeard'
    BY <1>3, <1>5, <2>1 DEF DelayIsWholeRings, NothingHeard
  <2> QED
    BY <2>5, <2>6, <2>7, <2>8
<1>6. CASE ~has_data'
  <2>1. /\ gated' = gated + n
        /\ UNCHANGED <<output_channel, source>>
    BY <1>1, <1>6 DEF Mix
  <2>2. ~has_data /\ output_channel.written = 0
    BY <1>4, <1>6 DEF NothingHeard
  <2>3. TypeOK'
    BY <1>2, <1>3, <1>4, <2>1 DEF TypeOK
  <2>4. InStep'
    BY <1>2, <1>3, <2>1 DEF InStep
  <2>5. SourceAligned'
    BY <2>1, <2>2 DEF SourceAligned
  <2>6. NothingHeard'
    BY <1>3, <2>1, <2>2 DEF NothingHeard
  <2>7. DelayIsWholeRings'
    <3>1. output' = output
      BY <1>3
    <3>2. \A frame \in DOMAIN output.frames :
             output.frames[frame] \in Int /\ output.frames[frame] < 0
      BY <2>2 DEF TypeOK, NothingHeard
    <3>3. \A frame \in DOMAIN output.frames : ~(output.frames[frame] >= 0)
      BY <3>2
    <3> QED
      BY <3>1, <3>3 DEF DelayIsWholeRings
  <2> QED
    BY <2>3, <2>4, <2>5, <2>6, <2>7
<1> QED
  BY <1>4, <1>5, <1>6

(* An exchange: what it answers is of the slot of what it brings.          *)
LEMMA PassStep == PipelineInv /\ Pass => PipelineInv'
<1> SUFFICES ASSUME PipelineInv, Pass PROVE PipelineInv'
  OBVIOUS
<1> USE DEF PipelineInv
<1>1. PICK n \in Nat : n = num_samples
  BY BlockSizesAssumption DEF TypeOK
<1>2. /\ input_channel.written \in Nat /\ input_channel.read \in Nat
      /\ output_channel.written \in Nat /\ output_channel.read \in Nat
      /\ gated \in Nat
      /\ input_channel \in ChannelRing /\ output_channel \in ChannelRing
  BY DEF TypeOK, ChannelRing
<1>3. /\ input_channel' \in ChannelRing
      /\ input_channel'.written = input_channel.written + n
      /\ input_channel'.read = input_channel.read
  BY <1>1, <1>2 DEF Pass, ChannelRing
<1>4. /\ output_channel' \in ChannelRing
      /\ output_channel'.read = output_channel.read + n
      /\ output_channel'.written = output_channel.written
  BY <1>1, <1>2 DEF Pass, ReadOutputChannel, ChannelRing
<1>5. /\ UNCHANGED <<num_samples, initialized, has_data, source, gated>>
      /\ thread' = "looping"
      /\ steady' \in Nat
  BY <1>1 DEF Pass, TypeOK
<1>6. /\ output'.first = input_channel.written
      /\ output'.frames = [frame \in 0..(n - 1) |-> Heard(frame)]
  BY <1>1 DEF Pass, ReadOutputChannel
<1>7. ASSUME NEW frame \in DOMAIN output'.frames
      PROVE  /\ output'.frames[frame] \in Int
             /\ ~has_data => output'.frames[frame] < 0
             /\ output'.frames[frame] >= 0 =>
                   Slot(output'.frames[frame])
                      = Slot((output'.first + frame) + gated)
  <2>1. frame \in 0..(n - 1) /\ frame \in Nat
    BY <1>6
  <2>2. output'.frames[frame] = Heard(frame)
    BY <1>6, <2>1
  <2> QED
    BY <1>6, <2>1, <2>2, HeardAligned
<1>8. TypeOK'
  <2>1. output'.first \in Nat
    BY <1>2, <1>6
  <2>2. output'.frames \in [DOMAIN output'.frames -> Int]
    <3>1. DOMAIN output'.frames = 0..(n - 1)
      BY <1>6
    <3> QED
      BY <1>6, <1>7, <3>1
  <2> QED
    BY <1>3, <1>4, <1>5, <2>1, <2>2 DEF TypeOK
<1>9. InStep'
  BY <1>2, <1>3, <1>4, <1>5 DEF InStep
<1>10. SourceAligned'
  BY <1>4, <1>5 DEF SourceAligned
<1>11. NothingHeard'
  BY <1>4, <1>5, <1>7 DEF NothingHeard
<1>12. DelayIsWholeRings'
  BY <1>5, <1>7 DEF DelayIsWholeRings
<1> QED
  BY <1>8, <1>9, <1>10, <1>11, <1>12

(* The other steps touch neither channel.                                  *)
LEMMA QuietStep ==
    PipelineInv /\ (Initialize \/ HandOver \/ Skip \/ SpuriousWakeup)
      => PipelineInv'
<1> SUFFICES ASSUME PipelineInv,
                    Initialize \/ HandOver \/ Skip \/ SpuriousWakeup
             PROVE  PipelineInv'
  OBVIOUS
<1> USE DEF PipelineInv
<1>1. /\ num_samples \in BlockSizes \cup {0}
      /\ thread \in {"looping", "waiting", "woken"}
      /\ initialized \in BOOLEAN /\ steady \in Nat
  BY DEF TypeOK
<1>2. /\ num_samples' \in BlockSizes \cup {0}
      /\ thread' \in {"looping", "waiting", "woken"}
      /\ initialized' \in BOOLEAN /\ steady' \in Nat
  <2>1. CASE Initialize
    BY <1>1, <2>1 DEF Initialize
  <2>2. CASE HandOver
    BY <1>1, <2>2 DEF HandOver
  <2>3. CASE Skip
    BY <1>1, <2>3 DEF Skip
  <2>4. CASE SpuriousWakeup
    BY <1>1, <2>4 DEF SpuriousWakeup
  <2> QED
    BY <2>1, <2>2, <2>3, <2>4
<1>3. UNCHANGED <<has_data, input_channel, output_channel, source, output, gated>>
  BY DEF Initialize, HandOver, Skip, SpuriousWakeup
<1>4. TypeOK'
  BY <1>2, <1>3 DEF TypeOK
<1>5. InStep' /\ NothingHeard' /\ SourceAligned' /\ DelayIsWholeRings'
  BY <1>3 DEF InStep, NothingHeard, SourceAligned, DelayIsWholeRings
<1> QED
  BY <1>4, <1>5

LEMMA PipelineStep ==
  ASSUME PipelineInv, [Next]_vars
  PROVE  PipelineInv'
<1>1. CASE Initialize \/ HandOver \/ Skip \/ SpuriousWakeup
  BY <1>1, QuietStep
<1>2. CASE Mix
  BY <1>2, MixStep
<1>3. CASE Pass
  BY <1>3, PassStep
<1>4. CASE UNCHANGED vars
  BY <1>4 DEF PipelineInv, vars, TypeOK, InStep, NothingHeard, SourceAligned,
              DelayIsWholeRings
<1> QED
  BY <1>1, <1>2, <1>3, <1>4 DEF Next

LEMMA PipelineInvariant == Spec => []PipelineInv
<1>1. PipelineInv /\ [Next]_vars => PipelineInv'
  BY PipelineStep
<1> QED
  BY <1>1, InitInv, PTL DEF Spec

(* Every variable keeps its type, whatever blocks the host asks for.       *)
THEOREM PipelineTypeCorrect == Spec => []TypeOK
<1>1. PipelineInv => TypeOK
  BY DEF PipelineInv
<1> QED
  BY <1>1, PipelineInvariant, PTL

(* With a ring of any size and blocks of any lengths, mixed and changing,  *)
(* no timeout, extra mix or dropped block changes the delay from the       *)
(* host's block through process_sample and set_channel_sample to the       *)
(* answer by anything but whole rings.                                     *)
THEOREM PipelineDelay == Spec => []DelayIsWholeRings
<1>1. PipelineInv => DelayIsWholeRings
  BY DEF PipelineInv
<1> QED
  BY <1>1, PipelineInvariant, PTL

-----------------------------------------------------------------------------
(* MixPipeline with one block size, whole blocks to the ring.              *)

Block == CHOOSE n \in BlockSizes : TRUE
Regular == OneSize /\ Block # 0

(* Where blocks begin.                                                     *)
Whole(position) == \E k \in Int : position = Block * k

LEMMA BlockOfOneSize ==
  ASSUME OneSize
  PROVE  BlockSizes = {Block} /\ Block \in Nat /\ Size % Block = 0
<1>1. PICK n \in BlockSizes : BlockSizes = {n} /\ Size % n = 0
  BY DEF OneSize
<1>2. Block = n
  BY <1>1 DEF Block
<1> QED
  BY <1>1, <1>2, NonNegative

LEMMA RegularBlock ==
  ASSUME Regular
  PROVE  Block \in Nat \ {0} /\ Size \in Nat \ {0} /\ Whole(Size)
<1>1. Block \in Nat \ {0} /\ Size \in Nat \ {0} /\ Size % Block = 0
  BY BlockOfOneSize, SizeAssumption DEF Regular
<1>2. Size \div Block \in Int /\ Size = Block * (Size \div Block)
  BY <1>1, Z3
<1> QED
  BY <1>1, <1>2 DEF Whole

LEMMA WholeZero ==
  ASSUME Regular
  PROVE  Whole(0) /\ Whole(Block)
<1>1. 0 = Block * 0 /\ Block = Block * 1
  BY RegularBlock
<1> QED
  BY <1>1 DEF Whole

LEMMA WholeSum ==
  ASSUME Regular, NEW a \in Int, NEW b \in Int, Whole(a), Whole(b)
  PROVE  Whole(a + b) /\ Whole(a - b)
<1>1. PICK j \in Int, k \in Int : a = Block * j /\ b = Block * k
  BY DEF Whole
<1>2. Block \in Int
  BY RegularBlock
<1>3. a + b = Block * (j + k) /\ a - b = Block * (j - k)
  BY <1>1, <1>2, Z3
<1>4. j + k \in Int /\ j - k \in Int
  OBVIOUS
<1> QED
  BY <1>3, <1>4 DEF Whole

LEMMA WholeLeast ==
  ASSUME Regular, NEW a \in Int, Whole(a), a > -Block
  PROVE  a >= 0
<1>1. PICK k \in Int : a = Block * k
  BY DEF Whole
<1>2. Block \in Nat \ {0}
  BY RegularBlock
<1>3. k > -1
  BY <1>1, <1>2, Z3
<1>4. k \in Nat
  BY <1>3
<1> QED
  BY <1>1, <1>2, <1>4, Z3

(* Positions that share a slot are whole blocks apart.                     *)
LEMMA WholeOfSlot ==
  ASSUME Regular, NEW a \in Int, NEW b \in Int, Slot(a) = Slot(b)
  PROVE  Whole(a - b)
<1>1. PICK j \in Int, k \in Int, t \in Int :
         a = (Size * j) + t /\ b = (Size * k) + t
  <2>1. /\ a \div Size \in Int /\ Slot(a) \in Int
        /\ a = (Size * (a \div Size)) + Slot(a)
    BY DivMod
  <2>2. b \div Size \in Int /\ b = (Size * (b \div Size)) + Slot(a)
    BY DivMod
  <2> QED
    BY <2>1, <2>2
<1>2. PICK m \in Int : Size = Block * m
  BY RegularBlock DEF Whole
<1>3. Block \in Int
  BY RegularBlock
<1>4. PICK q \in Int : q = m * (j - k)
  OBVIOUS
<1>5. a - b = Block * q
  BY <1>1, <1>2, <1>3, <1>4, Z3
<1> QED
  BY <1>5 DEF Whole

(* The position in a block is the position in the block of the slot.       *)
LEMMA WholeStart ==
  ASSUME Regular, NEW a \in Int, NEW b \in Int, NEW frame \in Int,
         Whole(b), Slot(a) = Slot(b + frame)
  PROVE  Whole(a - frame)
<1>1. PICK c \in Int : c = b + frame
  OBVIOUS
<1>2. Whole(a - c)
  BY <1>1, WholeOfSlot
<1>3. Whole((a - c) + b)
  BY <1>2, WholeSum
<1>4. (a - c) + b = a - frame
  BY <1>1
<1> QED
  BY <1>3, <1>4

LEMMA LatestBounds ==
  ASSUME NEW w \in Int, NEW p \in Int
  PROVE  Latest(w, p) \in Int /\ w - Size <= Latest(w, p) /\ Latest(w, p) < w
<1>1. PICK t \in Int : t = Slot(p - w) /\ 0 <= t /\ t < Size
  BY DivMod
<1> QED
  BY <1>1, SizeAssumption DEF Latest

LEMMA LatestMoved ==
  ASSUME NEW w \in Int, NEW p \in Int, NEW n \in Int
  PROVE  Latest(w + n, p + n) = Latest(w, p) + n
<1>1. PICK t \in Int : t = Slot(p - w)
  BY DivMod
<1>2. (p + n) - (w + n) = p - w
  OBVIOUS
<1> QED
  BY <1>1, <1>2, SizeAssumption DEF Latest

(* A delay of less than two rings that keeps the slot is one of two.       *)
LEMMA DelayRounds ==
  ASSUME NEW a \in Int, NEW d \in Int, NEW g \in Int,
         Slot(a) = Slot((a + d) + g), 0 < d, d < 2 * Size
  PROVE  d \in IF Slot(g) = 0 THEN {Size - Slot(g)}
                              ELSE {Size - Slot(g), (Size - Slot(g)) + Size}
<1>1. PICK b \in Int : b = (a + d) + g
  OBVIOUS
<1>2. Slot(a - a) = Slot(b - a)
  <2>1. -a \in Int /\ Slot(a) = Slot(b)
    BY <1>1
  <2>2. Slot(a + (-a)) = Slot(b + (-a))
    BY <2>1, SlotMoved
  <2> QED
    BY <2>2
<1>3. a - a = 0 /\ b - a = d + g
  BY <1>1
<1>4. Size \in Nat \ {0}
  BY SizeAssumption
<1>5. PICK s \in Int, k \in Int : s = Slot(g) /\ 0 <= s /\ s < Size /\ g = (Size * k) + s
  BY DivMod
<1>6. PICK j \in Int : d + g = Size * j
  <2>1. PICK e \in Int : e = d + g
    OBVIOUS
  <2>2. Slot(e) = 0
    <3>1. Slot(0) = 0
      BY <1>4, Z3 DEF Slot
    <3> QED
      BY <1>2, <1>3, <2>1, <3>1
  <2>3. e \div Size \in Int /\ e = (Size * (e \div Size)) + Slot(e)
    BY DivMod
  <2>4. e = Size * (e \div Size)
    BY <1>4, <2>2, <2>3
  <2> QED
    BY <2>1, <2>3, <2>4
<1>7. PICK m \in Int : m = j - k
  OBVIOUS
<1>8. d + s = Size * m
  BY <1>4, <1>5, <1>6, <1>7, Z3
<1>9. 0 < Size * m /\ Size * m < 3 * Size
  BY <1>4, <1>5, <1>8
<1>10. m = 1 \/ m = 2
  <2>1. m > 0 /\ m < 3
    BY <1>4, <1>9, Z3
  <2> QED
    BY <2>1
<1>11. d + s = Size \/ d + s = Size + Size
  BY <1>4, <1>8, <1>10
<1>12. s = 0 => d = Size
  BY <1>4, <1>11
<1> QED
  BY <1>4, <1>5, <1>11, <1>12

-----------------------------------------------------------------------------
(* What keeps the delay exact.                                             *)

(* A block that was mixed but not exchanged yet.                           *)
Lag == IF thread = "looping" THEN 0 ELSE Block

WholeBlocks ==
    /\ Whole(input_channel.written) /\ Whole(output_channel.written)
    /\ Whole(gated)
    /\ num_samples = 0 =>
          input_channel.written = 0 /\ output_channel.written = 0 /\ steady = 0
    /\ ~initialized => output_channel.written = 0
    /\ steady > 0 => output.first = input_channel.written - Block

Begins(first) ==
    first \in 0..(output_channel.written - 1) /\ Whole(first)

(* When a block was written the latest Size frames of the host were there  *)
(* to write from, and no more blocks came from the host since than were    *)
(* written.                                                                *)
SourceBounds ==
    \A first \in Nat, frame \in 0..(Block - 1) :
        Begins(first) /\ source[first + frame] >= 0 =>
            /\ source[first + frame] < input_channel.written
            /\ source[first + frame] - frame >=
                  (input_channel.written + Lag)
                     - (output_channel.written - first) - Size

(* Since the latest timeout as many blocks came as were written.           *)
SteadySource ==
    \A first \in Nat, frame \in 0..(Block - 1) :
        Begins(first) /\ first >= output_channel.written - steady - Lag =>
            source[first + frame] =
                Latest(first + ((input_channel.written + Lag)
                                   - output_channel.written),
                       (first + gated) + frame)

(* Where the latest answer is from, if no timeout came after it.           *)
Answered(frame) == Latest(output_channel.written - Lag, output.first + frame)
SteadyOutput ==
    steady > 0 =>
        \A frame \in DOMAIN output.frames :
            output.frames[frame] >= 0 =>
                Answered(frame) >= 0 /\ output.frames[frame] = source[Answered(frame)]

OutputBlock == OneSize => DOMAIN output.frames \subseteq 0..(Block - 1)

BlocksInv == WholeBlocks /\ SourceBounds /\ SteadySource /\ SteadyOutput
ExactInv ==
    PipelineInv /\ OutputBlock /\ DelayIsExact /\ (Regular => BlocksInv)

LEMMA LagType ==
  ASSUME Regular
  PROVE  Lag \in {0, Block} /\ Lag \in Nat
BY RegularBlock DEF Lag

(* A block that has begun is written to its end.                           *)
LEMMA BlockWritten ==
  ASSUME Regular, NEW w \in Nat, Whole(w), NEW first \in Nat, Whole(first),
         first < w
  PROVE  first + Block <= w
<1>1. Block \in Nat
  BY RegularBlock
<1>2. PICK d \in Int : d = w - first - Block
  BY <1>1
<1>3. Whole(d)
  <2>1. Whole(w - first)
    BY WholeSum
  <2>2. PICK e \in Int : e = w - first
    OBVIOUS
  <2>3. Whole(e - Block)
    BY <1>1, <2>1, <2>2, WholeZero, WholeSum
  <2> QED
    BY <1>2, <2>2, <2>3
<1>4. d >= 0
  BY <1>1, <1>2, <1>3, WholeLeast
<1> QED
  BY <1>1, <1>2, <1>4

(* The newest of the values that a new block may be given.                 *)
LEMMA MixedFrom ==
  ASSUME Regular, PipelineInv, WholeBlocks, NEW frame \in 0..(Block - 1)
  PROVE  /\ Mixed(frame) \in Int /\ Mixed(frame) < input_channel.written
         /\ Mixed(frame) - frame >= input_channel.written - Size
<1>1. PICK w \in Nat, r \in Nat, o \in Nat, g \in Nat :
         /\ w = input_channel.written /\ r = input_channel.read
         /\ o = output_channel.written /\ g = gated /\ r = o + g
  BY DEF PipelineInv, TypeOK, ChannelRing, InStep
<1>2. PICK q \in Int : q = r + frame
  BY RegularBlock
<1>3. PICK x \in Int : x = Latest(w, q)
  BY LatestBounds
<1>4. Mixed(frame) = x
  BY <1>1, <1>2, <1>3 DEF Mixed
<1>5. w - Size <= x /\ x < w /\ Slot(x) = Slot(r + frame)
  <2>1. Slot(Latest(w, q)) = Slot(q)
    BY LatestOfSlot
  <2>2. w - Size <= x /\ x < w
    BY <1>3, LatestBounds
  <2>3. Slot(x) = Slot(q)
    BY <1>3, <2>1
  <2>4. Slot(x) = Slot(r + frame)
    BY <1>2, <2>3, Zenon
  <2> QED
    BY <2>2, <2>4
<1>6. Whole(r) /\ Whole(w)
  <2>1. Whole(w) /\ Whole(o) /\ Whole(g)
    BY <1>1 DEF WholeBlocks
  <2>2. Whole(o + g)
    BY <2>1, WholeSum
  <2> QED
    BY <1>1, <2>1, <2>2
<1>7. frame \in Int /\ Block \in Nat /\ Size \in Nat /\ Whole(Size)
  BY RegularBlock
<1>8. PICK e \in Int : e = x - frame
  BY <1>7
<1>9. Whole(e)
  BY <1>1, <1>5, <1>6, <1>7, <1>8, WholeStart
<1>10. PICK d \in Int : d = w - Size
  BY <1>7
<1>11. Whole(e - d)
  <2>1. Whole(d)
    BY <1>6, <1>7, <1>10, WholeSum
  <2> QED
    BY <1>9, <2>1, WholeSum
<1>12. e - d > -Block
  BY <1>5, <1>7, <1>8, <1>10
<1>13. e - d >= 0
  <2>1. PICK c \in Int : c = e - d
    OBVIOUS
  <2> QED
    BY <1>11, <1>12, <2>1, WholeLeast
<1> QED
  BY <1>1, <1>4, <1>5, <1>8, <1>10, <1>13

(* While nothing is written there is nothing to say of it.                 *)
LEMMA NothingWritten ==
  ASSUME Regular, PipelineInv, SteadyOutput, OutputBlock,
         output_channel.written = 0,
         output_channel'.written = 0, UNCHANGED <<output, steady>>
  PROVE  SourceBounds' /\ SteadySource' /\ SteadyOutput'
<1>1. \A first : ~Begins(first)'
  BY DEF Begins
<1>2. SteadyOutput'
  <2>. SUFFICES ASSUME steady > 0, NEW frame \in DOMAIN output.frames,
                       output.frames[frame] >= 0
                PROVE  FALSE
    BY DEF SteadyOutput
  <2>1. Answered(frame) >= 0
    BY DEF SteadyOutput
  <2>2. Answered(frame) < 0
    <3>1. PICK w \in Int : w = output_channel.written - Lag /\ w <= 0
      BY LagType
    <3>2. frame \in Int /\ output.first \in Nat
      BY RegularBlock DEF PipelineInv, TypeOK, OutputBlock, Regular
    <3>3. PICK q \in Int : q = output.first + frame
      BY <3>2
    <3>4. Latest(w, q) \in Int /\ Latest(w, q) < w
      BY LatestBounds
    <3> QED
      BY <3>1, <3>3, <3>4 DEF Answered
  <2>3. Answered(frame) \in Int
    <3>1. PICK w \in Int : w = output_channel.written - Lag
      BY LagType
    <3>2. frame \in Int /\ output.first \in Nat
      BY RegularBlock DEF PipelineInv, TypeOK, OutputBlock, Regular
    <3>3. PICK q \in Int : q = output.first + frame
      BY <3>2
    <3> QED
      BY <3>1, <3>3, LatestBounds DEF Answered
  <2>. QED BY <2>1, <2>2, <2>3
<1> QED
  BY <1>1, <1>2 DEF SourceBounds, SteadySource

LEMMA MixBlocks ==
  ASSUME Regular, PipelineInv, OutputBlock, BlocksInv, Mix
  PROVE  BlocksInv'
<1>. USE DEF BlocksInv
<1>1. PICK n \in Nat : n = Frames
  BY FramesNat DEF PipelineInv
<1>2. n = 0 \/ n = Block
  BY <1>1, BlockOfOneSize DEF Frames, PipelineInv, TypeOK, Regular
<1>3. /\ input_channel.written \in Nat /\ input_channel.read \in Nat
      /\ output_channel.written \in Nat /\ gated \in Nat /\ steady \in Nat
      /\ input_channel \in ChannelRing /\ output_channel \in ChannelRing
      /\ output.first \in Nat
  BY DEF PipelineInv, TypeOK, ChannelRing
<1>4. Block \in Nat \ {0} /\ Whole(0) /\ Whole(Block)
  BY RegularBlock, WholeZero
<1>5. /\ input_channel'.written = input_channel.written
      /\ UNCHANGED <<num_samples, initialized, output, steady>>
      /\ thread = "looping" /\ thread' = "waiting"
  BY <1>3 DEF Mix, ChannelRing
<1>6. Lag = 0 /\ Lag' = Block
  BY <1>5 DEF Lag
<1>7. CASE ~has_data'
  <2>1. gated' = gated + n /\ UNCHANGED output_channel
    BY <1>1, <1>7 DEF Mix
  <2>2. output_channel.written = 0
    <3>1. ~has_data
      BY <1>7 DEF Mix
    <3> QED
      BY <3>1 DEF PipelineInv, NothingHeard
  <2>3. Whole(gated')
    <3>1. Whole(gated) /\ Whole(n) /\ gated \in Int /\ n \in Int
      BY <1>2, <1>3, <1>4 DEF WholeBlocks
    <3> QED
      BY <2>1, <3>1, WholeSum
  <2>4. WholeBlocks'
    BY <1>5, <2>1, <2>2, <2>3 DEF WholeBlocks
  <2> QED
    BY <1>5, <2>1, <2>2, <2>4, NothingWritten
<1>8. ASSUME has_data'
      PROVE  /\ output_channel'.written = output_channel.written + n
             /\ source' = [position \in 0..(output_channel.written + n - 1) |->
                              IF position < output_channel.written
                              THEN source[position]
                              ELSE Mixed(position - output_channel.written)]
             /\ gated' = gated
  <2>1. /\ output_channel' = [output_channel EXCEPT !.written = @ + n]
        /\ source' = [position \in 0..(output_channel.written + n - 1) |->
                         IF position < output_channel.written
                         THEN source[position]
                         ELSE Mixed(position - output_channel.written)]
        /\ gated' = gated
    BY <1>1, <1>8 DEF Mix, WriteOutputChannel
  <2> QED
    BY <1>3, <2>1 DEF ChannelRing
<1>9. CASE has_data' /\ n = 0
  <2>1. output_channel.written = 0
    BY <1>1, <1>4, <1>9 DEF Frames, WholeBlocks
  <2>2. output_channel'.written = 0 /\ gated' = gated
    BY <1>8, <1>9, <2>1
  <2>3. WholeBlocks'
    BY <1>4, <1>5, <2>1, <2>2 DEF WholeBlocks
  <2> QED
    BY <1>5, <2>1, <2>2, <2>3, NothingWritten
<1>10. CASE has_data' /\ n = Block
  <2>1. PICK a \in Nat, w \in Nat, g \in Nat :
           a = input_channel.written /\ w = output_channel.written /\ g = gated
    BY <1>3
  <2>2. /\ output_channel'.written = w + Block /\ gated' = g
        /\ input_channel'.written = a /\ input_channel.read = w + g
    BY <1>5, <1>8, <1>10, <2>1 DEF PipelineInv, InStep
  <2>3. /\ \A q \in 0..(w - 1) : source'[q] = source[q]
        /\ \A frame \in 0..(Block - 1) : source'[w + frame] = Mixed(frame)
    <3>1. source' = [position \in 0..(w + Block - 1) |->
                        IF position < w THEN source[position]
                                        ELSE Mixed(position - w)]
      BY <1>8, <1>10, <2>1
    <3>2. ASSUME NEW frame \in 0..(Block - 1)
          PROVE  source'[w + frame] = Mixed(frame)
      <4>1. PICK q \in 0..(w + Block - 1) : q = w + frame
        BY <1>4
      <4>2. ~(q < w) /\ q - w = frame
        BY <1>4, <4>1
      <4> QED
        BY <3>1, <4>1, <4>2
    <3>3. 0..(w - 1) \subseteq 0..(w + Block - 1)
      BY <1>4
    <3> QED
      BY <3>1, <3>2, <3>3
  <2>4. Whole(w) /\ Whole(a) /\ Whole(g)
    BY <2>1 DEF WholeBlocks
  <2>5. initialized /\ num_samples # 0
    BY <1>1, <1>4, <1>10 DEF Frames
  <2>6. WholeBlocks'
    <3>1. Whole(w + Block)
      BY <1>4, <2>4, WholeSum
    <3> QED
      BY <1>5, <2>1, <2>2, <2>4, <2>5, <3>1 DEF WholeBlocks
  <2>7. ASSUME NEW first \in Nat, Begins(first)'
        PROVE  Whole(first) /\ (first + Block <= w \/ first = w)
    <3>1. Whole(first) /\ first < w + Block
      BY <1>4, <2>2, <2>7 DEF Begins
    <3>2. CASE first < w
      BY <2>4, <3>1, <3>2, BlockWritten
    <3>3. CASE first >= w
      <4>1. PICK d \in Int : d = w - first
        OBVIOUS
      <4>2. Whole(d)
        BY <2>4, <3>1, <4>1, WholeSum
      <4>3. d >= 0
        BY <1>4, <3>1, <4>1, <4>2, WholeLeast
      <4> QED
        BY <3>1, <3>3, <4>1, <4>3
    <3> QED
      BY <3>2, <3>3
  <2>8. ASSUME NEW first \in Nat, Begins(first)', first + Block <= w,
               NEW frame \in 0..(Block - 1)
        PROVE  Begins(first) /\ source'[first + frame] = source[first + frame]
    <3>1. first + frame \in 0..(w - 1) /\ first \in 0..(w - 1)
      BY <1>4, <2>8
    <3> QED
      BY <2>1, <2>3, <2>7, <2>8, <3>1 DEF Begins
  <2>9. SourceBounds'
    <3>. SUFFICES ASSUME NEW first \in Nat, NEW frame \in 0..(Block - 1),
                         Begins(first)', source'[first + frame] >= 0
                  PROVE  /\ source'[first + frame] < a
                         /\ source'[first + frame] - frame >=
                               (a + Block) - ((w + Block) - first) - Size
      BY <1>6, <2>2 DEF SourceBounds
    <3>1. CASE first + Block <= w
      <4>1. /\ source[first + frame] < a
            /\ source[first + frame] - frame >= (a + 0) - (w - first) - Size
        BY <1>6, <2>1, <2>8, <3>1 DEF SourceBounds
      <4>2. (a + 0) - (w - first) - Size =
               (a + Block) - ((w + Block) - first) - Size
        BY <1>4, SizeAssumption
      <4> QED
        BY <2>8, <3>1, <4>1, <4>2
    <3>2. CASE first = w
      <4>1. source'[first + frame] = Mixed(frame)
        BY <2>3, <3>2
      <4>2. Mixed(frame) < a /\ Mixed(frame) - frame >= a - Size
        BY <2>1, MixedFrom
      <4>3. (a + Block) - ((w + Block) - first) - Size = a - Size
        BY <1>4, <3>2, SizeAssumption
      <4> QED
        BY <4>1, <4>2, <4>3
    <3> QED
      BY <2>7, <3>1, <3>2
  <2>10. SteadySource'
    <3>. SUFFICES ASSUME NEW first \in Nat, NEW frame \in 0..(Block - 1),
                         Begins(first)',
                         first >= (w + Block) - steady - Block
                  PROVE  source'[first + frame] =
                            Latest(first + ((a + Block) - (w + Block)),
                                   (first + g) + frame)
      BY <1>5, <1>6, <2>2 DEF SteadySource
    <3>1. (a + Block) - (w + Block) = a - w
      BY <1>4
    <3>2. CASE first + Block <= w
      <4>1. first >= w - steady - 0
        BY <1>3, <1>4
      <4>2. source[first + frame] =
               Latest(first + ((a + 0) - w), (first + g) + frame)
        BY <1>6, <2>1, <2>8, <3>2, <4>1 DEF SteadySource
      <4>3. (a + 0) - w = a - w
        OBVIOUS
      <4> QED
        BY <2>8, <3>1, <3>2, <4>2, <4>3
    <3>3. CASE first = w
      <4>1. source'[first + frame] = Mixed(frame)
        BY <2>3, <3>3
      <4>2. Mixed(frame) = Latest(a, (w + g) + frame)
        BY <2>1, <2>2 DEF Mixed
      <4>3. first + (a - w) = a
        BY <3>3
      <4> QED
        BY <3>1, <3>3, <4>1, <4>2, <4>3
    <3> QED
      BY <2>7, <3>2, <3>3
  <2>11. SteadyOutput'
    <3>. SUFFICES ASSUME steady > 0, NEW frame \in DOMAIN output.frames,
                         output.frames[frame] >= 0
                  PROVE  /\ Answered(frame)' >= 0
                         /\ output.frames[frame] = source'[Answered(frame)']
      BY <1>5 DEF SteadyOutput
    <3>1. /\ Answered(frame) >= 0
          /\ output.frames[frame] = source[Answered(frame)]
      BY DEF SteadyOutput
    <3>2. frame \in Int
      BY <1>4 DEF OutputBlock, Regular
    <3>3. PICK q \in Int : q = output.first + frame
      BY <1>3, <3>2
    <3>4. Answered(frame) = Latest(w, q)
      <4>1. w - 0 = w
        OBVIOUS
      <4> QED
        BY <1>6, <2>1, <3>3, <4>1 DEF Answered
    <3>5. Answered(frame)' = Latest(w, q)
      <4>1. (w + Block) - Block = w
        BY <1>4
      <4> QED
        BY <1>5, <1>6, <2>2, <3>3, <4>1 DEF Answered
    <3>6. Latest(w, q) \in 0..(w - 1)
      BY <3>1, <3>4, LatestBounds
    <3> QED
      BY <2>3, <3>1, <3>4, <3>5, <3>6
  <2> QED
    BY <2>6, <2>9, <2>10, <2>11
<1> QED
  BY <1>2, <1>7, <1>9, <1>10

LEMMA PassBlocks ==
  ASSUME Regular, PipelineInv, OutputBlock, BlocksInv, Pass
  PROVE  BlocksInv'
<1>. USE DEF BlocksInv
<1>1. num_samples = 0 \/ num_samples = Block
  BY BlockOfOneSize DEF PipelineInv, TypeOK, Regular
<1>2. /\ input_channel.written \in Nat /\ output_channel.read \in Nat
      /\ output_channel.written \in Nat /\ gated \in Nat /\ steady \in Nat
      /\ input_channel \in ChannelRing /\ output_channel \in ChannelRing
  BY DEF PipelineInv, TypeOK, ChannelRing
<1>3. Block \in Nat \ {0} /\ Whole(0) /\ Whole(Block)
  BY RegularBlock, WholeZero
<1>4. /\ input_channel'.written = input_channel.written + num_samples
      /\ steady' = steady + num_samples
      /\ UNCHANGED <<num_samples, initialized, source, gated>>
      /\ output'.first = input_channel.written
      /\ output'.frames = [frame \in 0..(num_samples - 1) |-> Heard(frame)]
  BY <1>2 DEF Pass, ReadOutputChannel, ChannelRing
<1>5. output_channel'.written = output_channel.written
  BY <1>2 DEF Pass, ReadOutputChannel, ChannelRing
<1>6. Lag = Block /\ Lag' = 0
  BY DEF Pass, Lag
<1>7. CASE num_samples = 0
  <2>1. /\ input_channel'.written = 0 /\ output_channel'.written = 0
        /\ steady' = 0 /\ num_samples' = 0
    BY <1>2, <1>4, <1>5, <1>7 DEF WholeBlocks
  <2>2. WholeBlocks'
    BY <1>3, <1>4, <2>1 DEF WholeBlocks
  <2>3. \A first : ~Begins(first)'
    BY <2>1 DEF Begins
  <2>4. SteadyOutput'
    BY <2>1 DEF SteadyOutput
  <2> QED
    BY <2>2, <2>3, <2>4 DEF SourceBounds, SteadySource
<1>8. CASE num_samples = Block
  <2>1. PICK a \in Nat, w \in Nat, g \in Nat :
           a = input_channel.written /\ w = output_channel.written /\ g = gated
    BY <1>2
  <2>2. /\ output_channel'.written = w /\ gated' = g
        /\ input_channel'.written = a + Block /\ steady' = steady + Block
    BY <1>4, <1>5, <1>8, <2>1
  <2>3. WholeBlocks'
    <3>1. Whole(a + Block)
      <4>1. Whole(a) /\ Block \in Int
        BY <1>3, <2>1 DEF WholeBlocks
      <4> QED
        BY <1>3, <4>1, WholeSum
    <3>2. output'.first = (a + Block) - Block
      BY <1>3, <1>4, <2>1
    <3> QED
      BY <1>3, <1>4, <1>8, <2>1, <2>2, <3>1, <3>2 DEF WholeBlocks
  <2>4. \A first : Begins(first)' <=> Begins(first)
    BY <2>1, <2>2 DEF Begins
  <2>5. SourceBounds'
    <3>. SUFFICES ASSUME NEW first \in Nat, NEW frame \in 0..(Block - 1),
                         Begins(first), source[first + frame] >= 0
                  PROVE  /\ source[first + frame] < a + Block
                         /\ source[first + frame] - frame >=
                               ((a + Block) + 0) - (w - first) - Size
      BY <1>4, <1>6, <2>2, <2>4 DEF SourceBounds
    <3>1. /\ source[first + frame] < a
          /\ source[first + frame] - frame >= (a + Block) - (w - first) - Size
      BY <1>6, <2>1 DEF SourceBounds
    <3>2. source[first + frame] \in Int
      <4>1. Whole(first) /\ first < w /\ Whole(w)
        BY <2>1 DEF Begins, WholeBlocks
      <4>2. first + Block <= w
        BY <4>1, BlockWritten
      <4>3. first + frame \in 0..(w - 1)
        BY <1>3, <4>2
      <4> QED
        BY <2>1, <4>3 DEF PipelineInv, TypeOK
    <3>3. PICK x \in Int : x = source[first + frame]
      BY <3>2
    <3> QED
      BY <1>3, <3>1, <3>3, SizeAssumption
  <2>6. SteadySource'
    <3>. SUFFICES ASSUME NEW first \in Nat, NEW frame \in 0..(Block - 1),
                         Begins(first), first >= w - (steady + Block) - 0
                  PROVE  source[first + frame] =
                            Latest(first + (((a + Block) + 0) - w),
                                   (first + g) + frame)
      BY <1>4, <1>6, <2>2, <2>4 DEF SteadySource
    <3>1. first >= w - steady - Block /\ ((a + Block) + 0) - w = (a + Block) - w
      BY <1>2, <1>3
    <3> QED
      BY <1>6, <2>1, <3>1 DEF SteadySource
  <2>7. SteadyOutput'
    <3>. SUFFICES ASSUME NEW frame \in DOMAIN output'.frames,
                         output'.frames[frame] >= 0
                  PROVE  /\ Answered(frame)' >= 0
                         /\ output'.frames[frame] = source[Answered(frame)']
      BY <1>4 DEF SteadyOutput
    <3>1. frame \in 0..(Block - 1) /\ output'.frames[frame] = Heard(frame)
      BY <1>4, <1>8
    <3>2. PICK q \in Int : q = a + frame
      BY <1>3, <3>1
    <3>3. PICK x \in Int : x = Latest(w, q)
      BY LatestBounds
    <3>4. Heard(frame) = IF x >= 0 THEN source[x] ELSE x
      BY <2>1, <3>2, <3>3 DEF Heard, PipelineInv, InStep
    <3>5. Answered(frame)' = x
      <4>1. w - 0 = w
        OBVIOUS
      <4> QED
        BY <1>4, <1>6, <2>1, <2>2, <3>2, <3>3, <4>1 DEF Answered
    <3> QED
      BY <3>1, <3>3, <3>4, <3>5
  <2> QED
    BY <2>3, <2>5, <2>6, <2>7
<1> QED
  BY <1>1, <1>7, <1>8

(* A timeout starts a new count of steady frames.                          *)
LEMMA SkipBlocks ==
  ASSUME Regular, PipelineInv, BlocksInv, Skip
  PROVE  BlocksInv'
<1>. USE DEF BlocksInv
<1>1. /\ UNCHANGED <<num_samples, initialized, has_data, input_channel,
                     output_channel, source, output, gated>>
      /\ steady' = 0 /\ Lag = Block /\ Lag' = 0
  BY DEF Skip, Lag
<1>2. Block \in Nat /\ Size \in Nat /\ input_channel.written \in Nat
      /\ output_channel.written \in Nat
      /\ source \in [0..(output_channel.written - 1) -> Int]
      /\ Whole(output_channel.written)
  BY RegularBlock DEF PipelineInv, TypeOK, ChannelRing, WholeBlocks
<1>3. WholeBlocks'
  BY <1>1 DEF WholeBlocks
<1>4. SourceBounds'
  <2>. SUFFICES ASSUME NEW first \in Nat, NEW frame \in 0..(Block - 1),
                       Begins(first), source[first + frame] >= 0
                PROVE  /\ source[first + frame] < input_channel.written
                       /\ source[first + frame] - frame >=
                             (input_channel.written + 0)
                                - (output_channel.written - first) - Size
    BY <1>1 DEF SourceBounds, Begins
  <2>1. /\ source[first + frame] < input_channel.written
        /\ source[first + frame] - frame >=
              (input_channel.written + Block)
                 - (output_channel.written - first) - Size
    BY <1>1 DEF SourceBounds
  <2>2. source[first + frame] \in Int
    <3>1. first + Block <= output_channel.written
      BY <1>2, BlockWritten DEF Begins
    <3>2. first + frame \in 0..(output_channel.written - 1)
      BY <1>2, <3>1
    <3> QED
      BY <1>2, <3>2
  <2>3. PICK x \in Int, a \in Nat, w \in Nat :
           /\ x = source[first + frame] /\ a = input_channel.written
           /\ w = output_channel.written
    BY <1>2, <2>2
  <2>4. x < a /\ x - frame >= (a + Block) - (w - first) - Size
    BY <2>1, <2>3
  <2>5. x - frame >= (a + 0) - (w - first) - Size
    BY <1>2, <2>4
  <2>. QED
    BY <2>3, <2>4, <2>5
<1>5. SteadySource'
  <2>1. ASSUME NEW first \in Nat, Begins(first)'
        PROVE  ~(first >= output_channel'.written - steady' - Lag')
    BY <1>1, <1>2, <2>1 DEF Begins
  <2> QED
    BY <2>1 DEF SteadySource
<1>6. SteadyOutput'
  BY <1>1 DEF SteadyOutput
<1> QED
  BY <1>3, <1>4, <1>5, <1>6

LEMMA QuietBlocks ==
  ASSUME Regular, PipelineInv, BlocksInv,
         Initialize \/ HandOver \/ SpuriousWakeup \/ UNCHANGED vars
  PROVE  BlocksInv'
<1>. USE DEF BlocksInv
<1>1. /\ UNCHANGED <<input_channel, output_channel, source, output, gated, steady>>
      /\ Lag' = Lag
      /\ initialized => initialized'
      /\ num_samples' = num_samples \/ num_samples' \in BlockSizes
  BY DEF Initialize, HandOver, SpuriousWakeup, vars, Lag
<1>2. num_samples' = num_samples \/ num_samples' # 0
  BY <1>1, BlockOfOneSize DEF Regular
<1>3. WholeBlocks'
  BY <1>1, <1>2 DEF WholeBlocks
<1>4. SourceBounds' /\ SteadySource' /\ SteadyOutput'
  BY <1>1 DEF SourceBounds, SteadySource, SteadyOutput, Begins, Answered
<1> QED
  BY <1>3, <1>4

(* Where an answer is read from: a block that has begun, at most a ring    *)
(* back.                                                                   *)
LEMMA AnswerStart ==
  ASSUME Regular, NEW w \in Nat, NEW a \in Nat, Whole(w), Whole(a),
         NEW frame \in 0..(Block - 1), Latest(w, a + frame) >= 0
  PROVE  \E first \in Nat :
            /\ Latest(w, a + frame) = first + frame
            /\ Whole(first) /\ first < w /\ first >= w - Size
<1>1. Block \in Nat \ {0} /\ Size \in Nat /\ Whole(Size) /\ frame \in Int
  BY RegularBlock
<1>2. PICK p \in Int : p = a + frame
  BY <1>1
<1>3. PICK x \in Int : x = Latest(w, p)
  BY LatestBounds
<1>4. w - Size <= x /\ x < w
  BY <1>3, LatestBounds
<1>5. Slot(x) = Slot(a + frame)
  <2>1. Slot(Latest(w, p)) = Slot(p)
    BY LatestOfSlot
  <2> QED
    BY <1>2, <1>3, <2>1
<1>6. PICK first \in Int : first = x - frame
  BY <1>1
<1>7. Whole(first)
  <2>1. a \in Int
    OBVIOUS
  <2>2. Whole(x - frame)
    BY <1>1, <1>5, <2>1, WholeStart
  <2> QED
    BY <1>6, <2>2
<1>8. first >= 0
  <2>1. first > -Block
    BY <1>1, <1>2, <1>3, <1>6
  <2> QED
    BY <1>7, <2>1, WholeLeast
<1>9. first >= w - Size
  <2>1. PICK d \in Int : d = w - Size
    BY <1>1
  <2>2. Whole(d)
    BY <1>1, <2>1, WholeSum
  <2>3. PICK e \in Int : e = first - d
    OBVIOUS
  <2>4. Whole(e)
    BY <1>7, <2>2, <2>3, WholeSum
  <2>5. e > -Block
    BY <1>1, <1>4, <1>6, <2>1, <2>3
  <2>6. e >= 0
    BY <2>4, <2>5, WholeLeast
  <2> QED
    BY <2>1, <2>3, <2>6
<1>10. x = first + frame /\ first < w
  BY <1>1, <1>4, <1>6
<1>11. first \in Nat
  BY <1>8
<1> QED
  BY <1>2, <1>3, <1>7, <1>9, <1>10, <1>11

LEMMA PassExact ==
  ASSUME PipelineInv, BlocksInv, Regular, Pass,
         NEW frame \in 0..(Block - 1), Heard(frame) >= 0
  PROVE  (input_channel.written + frame) - Heard(frame) \in
            IF Slot(gated) = 0 THEN {Delay} ELSE {Delay, Delay + Size}
<1>1. PICK a \in Nat, w \in Nat, g \in Nat :
         /\ a = input_channel.written /\ w = output_channel.written
         /\ g = gated
  BY DEF PipelineInv, TypeOK, ChannelRing
<1>2. Block \in Nat \ {0} /\ Size \in Nat \ {0} /\ frame \in Int
      /\ Whole(a) /\ Whole(w) /\ Lag = Block
  BY <1>1, RegularBlock DEF BlocksInv, WholeBlocks, Pass, Lag
<1>3. PICK p \in Int : p = Latest(w, a + frame)
  BY <1>2, LatestBounds
<1>4. Heard(frame) = IF p >= 0 THEN source[p] ELSE p
  BY <1>1, <1>3 DEF Heard, PipelineInv, InStep
<1>5. p >= 0 /\ Heard(frame) = source[p]
  BY <1>3, <1>4
<1>6. PICK first \in Nat :
         p = first + frame /\ Whole(first) /\ first < w /\ first >= w - Size
  BY <1>2, <1>3, <1>5, AnswerStart
<1>7. Heard(frame) \in Int
      /\ Slot(Heard(frame)) = Slot((a + frame) + g)
  BY <1>1, <1>2, HeardAligned
<1>8. PICK x \in Int : x = Heard(frame)
  BY <1>7
<1>9. x < a /\ x - frame >= (a + Block) - (w - first) - Size
  <2>1. Begins(first)
    BY <1>1, <1>6 DEF Begins
  <2>2. source[first + frame] >= 0
    BY <1>5, <1>6
  <2> QED
    BY <1>1, <1>2, <1>5, <1>6, <1>8, <2>1, <2>2 DEF BlocksInv, SourceBounds
<1>10. PICK d \in Int : d = (a + frame) - x
  BY <1>2
<1>11. 0 < d /\ d < 2 * Size
  BY <1>2, <1>6, <1>9, <1>10
<1>12. Slot(x) = Slot((x + d) + g)
  <2>1. x + d = a + frame
    BY <1>2, <1>10
  <2> QED
    BY <1>7, <1>8, <2>1
<1> QED
  BY <1>1, <1>8, <1>10, <1>11, <1>12, DelayRounds DEF Delay

LEMMA StepExact ==
  ASSUME ExactInv, [Next]_vars
  PROVE  OutputBlock' /\ DelayIsExact' /\ (Regular => BlocksInv')
<1>. USE DEF ExactInv
<1>1. Regular => BlocksInv'
  <2>1. CASE Mix
    BY <2>1, MixBlocks
  <2>2. CASE Pass
    BY <2>2, PassBlocks
  <2>3. CASE Skip
    BY <2>3, SkipBlocks
  <2>4. CASE Initialize \/ HandOver \/ SpuriousWakeup \/ UNCHANGED vars
    BY <2>4, QuietBlocks
  <2> QED
    BY <2>1, <2>2, <2>3, <2>4 DEF Next
<1>2. CASE Pass
  <2>1. /\ output'.first = input_channel.written /\ gated' = gated
        /\ output'.frames = [frame \in 0..(num_samples - 1) |-> Heard(frame)]
    BY <1>2 DEF Pass, ReadOutputChannel
  <2>2. num_samples = 0 \/ num_samples \in BlockSizes
    BY DEF PipelineInv, TypeOK
  <2>3. ASSUME OneSize
        PROVE  /\ Block \in Nat
               /\ num_samples = 0 \/ num_samples = Block
    BY <2>2, <2>3, BlockOfOneSize
  <2>4. OutputBlock'
    <3>. SUFFICES ASSUME OneSize
                  PROVE  0..(num_samples - 1) \subseteq 0..(Block - 1)
      BY <2>1 DEF OutputBlock
    <3>. QED BY <2>3
  <2>5. DelayIsExact'
    <3>. SUFFICES ASSUME OneSize, NEW frame \in 0..(num_samples - 1),
                         Heard(frame) >= 0
                  PROVE  (input_channel.written + frame) - Heard(frame) \in
                            IF Slot(gated) = 0 THEN {Delay}
                                               ELSE {Delay, Delay + Size}
      BY <2>1 DEF DelayIsExact, Delay
    <3>1. frame \in 0..(Block - 1) /\ Regular
      BY <2>3 DEF Regular
    <3>. QED BY <1>2, <3>1, PassExact
  <2> QED
    BY <1>1, <2>4, <2>5
<1>3. ASSUME UNCHANGED <<output, gated>>
      PROVE  OutputBlock' /\ DelayIsExact'
  BY <1>3 DEF OutputBlock, DelayIsExact, Delay
<1>4. CASE Mix
  <2>1. UNCHANGED output
    BY <1>4 DEF Mix
  <2>2. CASE has_data'
    BY <1>1, <1>3, <1>4, <2>1, <2>2 DEF Mix
  <2>3. CASE ~has_data'
    <3>1. ~has_data
      BY <1>4, <2>3 DEF Mix
    <3>2. \A frame \in DOMAIN output.frames :
             output.frames[frame] \in Int /\ output.frames[frame] < 0
      BY <3>1 DEF PipelineInv, TypeOK, NothingHeard
    <3>3. \A frame \in DOMAIN output.frames : ~(output.frames[frame] >= 0)
      BY <3>2
    <3> QED
      BY <1>1, <2>1, <3>3 DEF OutputBlock, DelayIsExact
  <2> QED
    BY <1>1, <2>2, <2>3
<1>5. CASE Skip \/ Initialize \/ HandOver \/ SpuriousWakeup \/ UNCHANGED vars
  BY <1>1, <1>3, <1>5 DEF Skip, Initialize, HandOver, SpuriousWakeup, vars
<1> QED
  BY <1>1, <1>2, <1>4, <1>5 DEF Next

LEMMA InitExact == Init => ExactInv
<1>. SUFFICES ASSUME Init PROVE ExactInv
  OBVIOUS
<1>1. /\ input_channel.written = 0 /\ output_channel.written = 0
      /\ gated = 0 /\ steady = 0 /\ ~initialized
      /\ DOMAIN output.frames = {}
  BY DEF Init
<1>2. Regular => WholeBlocks
  BY <1>1, WholeZero DEF WholeBlocks
<1>3. SourceBounds /\ SteadySource /\ SteadyOutput
  BY <1>1 DEF SourceBounds, SteadySource, SteadyOutput, Begins
<1>4. OutputBlock /\ DelayIsExact
  BY <1>1 DEF OutputBlock, DelayIsExact
<1> QED
  BY <1>2, <1>3, <1>4, InitInv DEF ExactInv, BlocksInv

LEMMA ExactInvariant == Spec => []ExactInv
<1>1. ExactInv /\ [Next]_vars => ExactInv'
  BY PipelineStep, StepExact DEF ExactInv
<1> QED
  BY <1>1, InitExact, PTL DEF Spec

(* With one block size, of which a ring of any size holds whole blocks, no *)
(* sequence of timeouts and extra mixes delays a frame by more than one    *)
(* ring beyond the delay of the effect, and by none if the effect dropped  *)
(* whole rings.                                                            *)
THEOREM PipelineDelayExact == Spec => []DelayIsExact
<1>1. ExactInv => DelayIsExact
  BY DEF ExactInv
<1> QED
  BY <1>1, ExactInvariant, PTL

(* An exchange at least a ring of frames after the latest timeout answers  *)
(* with the frames after those of the exchange before it.                  *)
LEMMA PassSettles ==
  ASSUME ExactInv, OneSize, Pass, output.first < output'.first, steady >= Size,
         NEW frame \in DOMAIN output.frames,
         output.frames[frame] >= 0, output'.frames[frame] >= 0
  PROVE  output'.frames[frame] = output.frames[frame] + num_samples
<1>1. frame \in 0..(Block - 1) /\ Regular /\ BlocksInv /\ PipelineInv
  <2>1. Block \in Nat
    BY BlockOfOneSize
  <2>2. frame \in 0..(Block - 1)
    BY DEF ExactInv, OutputBlock
  <2>3. Block # 0
    BY <2>1, <2>2
  <2> QED
    BY <2>2, <2>3 DEF ExactInv, Regular
<1>2. PICK a \in Nat, w \in Nat, g \in Nat, n \in Nat :
         /\ a = input_channel.written /\ w = output_channel.written
         /\ g = gated /\ n = steady
  BY <1>1 DEF PipelineInv, TypeOK, ChannelRing
<1>3. /\ Block \in Nat \ {0} /\ Size \in Nat \ {0} /\ frame \in Int
      /\ Whole(a) /\ Whole(w) /\ Whole(Block) /\ Lag = Block
  BY <1>1, <1>2, RegularBlock, WholeZero DEF BlocksInv, WholeBlocks, Pass, Lag
<1>4. n >= Size /\ steady > 0
  BY <1>2, <1>3
<1>5. num_samples = Block
  <2>1. num_samples # 0
    BY <1>1, <1>4 DEF BlocksInv, WholeBlocks
  <2>2. num_samples \in BlockSizes \cup {0}
    BY <1>1 DEF PipelineInv, TypeOK
  <2> QED
    BY <2>1, <2>2, BlockOfOneSize
<1>6. output.first = a - Block
  <2>1. steady > 0 => output.first = input_channel.written - Block
    BY <1>1 DEF BlocksInv, WholeBlocks
  <2> QED
    BY <1>2, <1>4, <2>1
<1>7. PICK p \in Int : p = Latest(w, a + frame)
  <2>1. frame \in Int
    BY <1>3
  <2>2. a + frame \in Int
    BY <2>1
  <2> QED
    BY <2>2, LatestBounds
<1>8. output'.frames[frame] = IF p >= 0 THEN source[p] ELSE p
  <2>1. output'.frames[frame] = Heard(frame)
    BY <1>1, <1>5 DEF Pass, ReadOutputChannel
  <2> QED
    BY <1>1, <1>2, <1>7, <2>1 DEF Heard, PipelineInv, InStep
<1>9. p >= 0 /\ output'.frames[frame] = source[p]
  BY <1>7, <1>8
<1>10. Answered(frame) = p - Block
  <2>1. PICK c \in Int, q \in Int : c = w - Block /\ q = (a - Block) + frame
    BY <1>3
  <2>2. Latest(c + Block, q + Block) = Latest(c, q) + Block
    BY <1>3, LatestMoved
  <2>3. c + Block = w /\ q + Block = a + frame
    BY <1>3, <2>1
  <2>4. Latest(c, q) \in Int
    BY LatestBounds
  <2>5. p = Latest(c, q) + Block
    BY <1>7, <2>2, <2>3
  <2>6. Latest(c, q) = p - Block
    BY <1>3, <2>4, <2>5
  <2> QED
    BY <1>2, <1>3, <1>6, <2>1, <2>6 DEF Answered
<1>11. p - Block >= 0 /\ output.frames[frame] = source[p - Block]
  BY <1>1, <1>4, <1>10 DEF BlocksInv, SteadyOutput
<1>12. PICK first \in Nat :
          p = first + frame /\ Whole(first) /\ first < w /\ first >= w - Size
  BY <1>1, <1>3, <1>7, <1>9, AnswerStart
<1>13. PICK before \in Int : before = first - Block
  BY <1>3
<1>14. before \in Nat /\ Whole(before)
  <2>1. Whole(before)
    BY <1>1, <1>3, <1>12, <1>13, WholeSum
  <2>2. before > -Block
    BY <1>1, <1>3, <1>11, <1>12, <1>13
  <2>3. before >= 0
    BY <1>1, <2>1, <2>2, WholeLeast
  <2> QED
    BY <2>1, <2>3
<1>15. Begins(first) /\ Begins(before)
  BY <1>2, <1>3, <1>12, <1>13, <1>14 DEF Begins
<1>16. PICK c \in Int : c = (a + Block) - w
  BY <1>3
<1>17. source[first + frame] = Latest(first + c, (first + g) + frame)
  <2>1. first >= w - n - Block
    BY <1>3, <1>4, <1>12
  <2> QED
    BY <1>1, <1>2, <1>3, <1>15, <1>16, <2>1 DEF BlocksInv, SteadySource
<1>18. source[before + frame] = Latest(before + c, (before + g) + frame)
  <2>1. before >= w - n - Block
    BY <1>3, <1>4, <1>12, <1>13
  <2> QED
    BY <1>1, <1>2, <1>3, <1>14, <1>15, <1>16, <2>1 DEF BlocksInv, SteadySource
<1>19. source[first + frame] = source[before + frame] + Block
  <2>1. PICK x \in Int, y \in Int : x = before + c /\ y = (before + g) + frame
    BY <1>3
  <2>2. first + c = x + Block /\ (first + g) + frame = y + Block
    BY <1>3, <1>13, <2>1
  <2>3. Latest(x + Block, y + Block) = Latest(x, y) + Block
    BY <1>3, LatestMoved
  <2> QED
    BY <1>17, <1>18, <2>1, <2>2, <2>3
<1>20. before + frame = p - Block
  BY <1>3, <1>12, <1>13
<1> QED
  BY <1>5, <1>9, <1>11, <1>12, <1>19, <1>20

(* What timeouts tear apart comes together again: one ring of frames after *)
(* the latest timeout, whatever came before it, each answer continues the  *)
(* one before.                                                             *)
THEOREM PipelineSettles == Spec => Settles
<1>1. ExactInv /\ [Next]_vars =>
        [OneSize /\ output.first < output'.first /\ steady >= Size =>
           \A frame \in DOMAIN output.frames :
              output.frames[frame] >= 0 /\ output'.frames[frame] >= 0
                => output'.frames[frame] = output.frames[frame] + num_samples]_vars
  <2>. SUFFICES ASSUME ExactInv, Next, OneSize, output.first < output'.first,
                       steady >= Size, NEW frame \in DOMAIN output.frames,
                       output.frames[frame] >= 0, output'.frames[frame] >= 0
                PROVE  output'.frames[frame] = output.frames[frame] + num_samples
    OBVIOUS
  <2>1. Pass
    <3>1. output' # output
      <4>1. output.first \in Nat
        BY DEF ExactInv, PipelineInv, TypeOK
      <4> QED
        BY <4>1
    <3> QED
      BY <3>1 DEF Next, Initialize, HandOver, Mix, Skip, SpuriousWakeup
  <2>. QED BY <2>1, PassSettles
<1> QED
  BY <1>1, ExactInvariant, PTL DEF Spec, Settles

=============================================================================
