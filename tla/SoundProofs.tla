------------------------------ MODULE SoundProofs ------------------------------
(***************************************************************************)
(* What is proved of Sound for all rates, samples, batches and sizes of    *)
(* block and ring: the two rates keep step, a full ring loses only the     *)
(* ends of blocks, and what is heard is one stream, resampled.             *)
(***************************************************************************)
EXTENDS Sound, SequenceTheorems, TLAPS

(* A frame for the ring.                                                   *)
Piece == [at : Nat, value : Int]

(* Frames made for the ring so far, handed over or not.                    *)
Produced == offered + Len(out)

TypeInv ==
  /\ g_core_rate \in Nat \ {0} /\ g_ring_rate \in Nat \ {0}
  /\ g_resample_position \in Nat /\ g_resample_last \in Int
  /\ pc \in {"run", "batch", "write"}
  /\ data \in Seq(Int) /\ stream \in Seq(Int)
  /\ out \in Seq(Piece) /\ writing \in Seq(Piece) /\ ring \in Seq(Piece)
  /\ offered \in Nat /\ played \in Int

(* The ring never holds more than it has room for.                         *)
RoomInv == Len(ring) + Len(writing) <= Room

(* What is empty outside a batch, and outside a write.                     *)
PhaseInv ==
  /\ pc = "run" => data = <<>> /\ out = <<>>
  /\ pc = "batch" => data # <<>>
  /\ pc = "write" => data # <<>> /\ out = <<>>
  /\ pc # "write" => writing = <<>>

(* The position is where the next frame for the ring lies in the core's    *)
(* sound, counted from the frame before data[0]; the last frame made lies  *)
(* within what the core has given.                                         *)
PositionInv ==
  /\ g_resample_position = Produced * g_core_rate - Len(stream) * g_ring_rate
  /\ Produced > 0 => g_resample_position - g_core_rate < Len(data) * g_ring_rate
  /\ g_resample_last = IF stream = <<>> THEN 0 ELSE stream[Len(stream)]

(* What is on its way: numbered in order, each with the value of its       *)
(* number, and after a gap only the first of a block.                      *)
AtBefore(i) == IF i = 1 THEN played ELSE OnItsWay[i - 1].at
OrderInv ==
  /\ played < Produced
  /\ \A i \in 1 .. Len(out) : out[i].at = offered + (i - 1)
  /\ \A i \in 1 .. Len(OnItsWay) : OnItsWay[i].at > AtBefore(i) /\ OnItsWay[i].at < Produced
  /\ \A i \in 1 .. Len(OnItsWay) :
       OnItsWay[i].at = AtBefore(i) + 1 \/ OnItsWay[i].at \in starts \union {offered}

ValueInv ==
  \A i \in 1 .. Len(OnItsWay) : OnItsWay[i].value = Resampled(OnItsWay[i].at)

IInv == TypeInv /\ RoomInv /\ PhaseInv /\ PositionInv /\ OrderInv /\ ValueInv
-----------------------------------------------------------------------------
(* Division: what the provers do not know of % and \div.                   *)
LEMMA DivMod ==
  ASSUME NEW a \in Int, NEW n \in Nat \ {0}
  PROVE  a \div n \in Int /\ a % n \in 0 .. n - 1 /\ a = (a \div n) * n + (a % n)
<1>1. a \div n \in Int /\ a % n \in 0 .. n - 1
  OBVIOUS
<1>2. a = (a \div n) * n + (a % n)
  OBVIOUS
<1> QED
  BY <1>1, <1>2

LEMMA ModUnique ==
  \A q \in Int, n \in Nat \ {0} : \A r \in 0 .. n - 1 :
    (q * n + r) % n = r /\ (q * n + r) \div n = q
OBVIOUS

(* A quotient is as far below as its number.                               *)
LEMMA DivBelow ==
  ASSUME NEW p \in Nat, NEW l \in Nat, NEW n \in Nat \ {0}, p < l * n
  PROVE  p \div n \in Nat /\ p \div n < l
<1> DEFINE q == p \div n
           m == p % n
<1>1. q \in Int /\ m \in 0 .. n - 1 /\ p = q * n + m
  BY DivMod
<1> HIDE DEF q, m
<1>2. q >= l => q * n >= l * n
  BY <1>1
<1>3. q <= -1 => q * n <= -n
  BY <1>1
<1>4. PICK z \in Int : z = q * n
  BY <1>1
<1>5. PICK y \in Int : y = l * n
  OBVIOUS
<1>6. q < l
  BY <1>1, <1>2, <1>4, <1>5
<1>7. q >= 0
  BY <1>1, <1>3, <1>4
<1> QED
  BY <1>1, <1>6, <1>7 DEF q

(* Whole frames added to a number leave its fraction as it is.             *)
LEMMA WholeFrames ==
  ASSUME NEW p \in Nat, NEW l \in Nat, NEW n \in Nat \ {0}
  PROVE  /\ (p + l * n) \div n = (p \div n) + l
         /\ (p + l * n) % n = p % n
<1> DEFINE q == p \div n
           m == p % n
<1>1. q \in Int /\ m \in 0 .. n - 1 /\ p = q * n + m
  BY DivMod
<1> HIDE DEF q, m
<1>2. p + l * n = (q + l) * n + m /\ q + l \in Int
  BY <1>1
<1>3. ((q + l) * n + m) % n = m /\ ((q + l) * n + m) \div n = q + l
  BY <1>1, <1>2, ModUnique
<1> QED
  BY <1>2, <1>3 DEF q, m
-----------------------------------------------------------------------------
(* Where in the batch the next frame lies.                                 *)
LEMMA IndexInside ==
  ASSUME TypeInv, More
  PROVE  Index \in Nat /\ Index < Len(data)
<1>1. Len(data) \in Nat
  BY DEF TypeInv
<1> QED
  BY <1>1, DivBelow DEF TypeInv, More, Index

LEMMA NextPiece ==
  ASSUME TypeInv, More
  PROVE  /\ Before \in Int /\ data[Index + 1] \in Int
         /\ Between(Before, data[Index + 1], g_resample_position % g_ring_rate) \in Int
<1>1. Index \in Nat /\ Index < Len(data) /\ Len(data) \in Nat
  BY IndexInside DEF TypeInv
<1>2. data[Index + 1] \in Int
  <2>1. Index + 1 \in 1 .. Len(data)
    BY <1>1
  <2> QED
    BY <2>1 DEF TypeInv
<1>3. Before \in Int
  <2>1. Index # 0 => Index \in 1 .. Len(data)
    BY <1>1
  <2> QED
    BY <2>1 DEF Before, TypeInv
<1>4. g_resample_position % g_ring_rate \in Int
  BY DEF TypeInv
<1>5. \A a, b, t \in Int : Between(a, b, t) \in Int
  <2> SUFFICES ASSUME NEW a \in Int, NEW b \in Int, NEW t \in Int
               PROVE  Between(a, b, t) \in Int
    OBVIOUS
  <2>1. PICK x \in Int : x = a * g_ring_rate + (b - a) * t
    BY DEF TypeInv
  <2>2. \A y \in Int : Truncated(y, g_ring_rate) \in Int
    BY DEF Truncated, TypeInv
  <2> QED
    BY <2>1, <2>2 DEF Between
<1> QED
  BY <1>2, <1>3, <1>4, <1>5

LEMMA BatchIsSeq ==
  \A d \in Batches : d \in Seq(Int) /\ d # <<>>
<1> SUFFICES ASSUME NEW n \in 1 .. MaxBatch, NEW d \in [1 .. n -> Samples]
             PROVE  d \in Seq(Int) /\ d # <<>>
  BY DEF Batches
<1>1. n \in Nat /\ n > 0
  BY SoundAssumption
<1>2. d \in [1 .. n -> Int]
  BY SoundAssumption
<1>3. d \in Seq(Int)
  BY <1>1, <1>2, SeqDef
<1>4. d # <<>>
  <2>1. 1 \in DOMAIN d
    BY <1>1
  <2> QED
    BY <2>1
<1> QED
  BY <1>3, <1>4

LEMMA FittingIsSeq ==
  ASSUME NEW block \in Seq(Piece), NEW room \in Nat
  PROVE  /\ Fitting(block, room) \in Seq(Piece)
         /\ Len(Fitting(block, room)) \in 0 .. Len(block)
         /\ Len(Fitting(block, room)) <= room
         /\ \A i \in 1 .. Len(Fitting(block, room)) : Fitting(block, room)[i] = block[i]
<1>1. Len(block) \in Nat
  OBVIOUS
<1>2. CASE Len(block) <= room
  <2>1. Fitting(block, room) = block
    BY <1>2 DEF Fitting
  <2>2. PICK f : f = Fitting(block, room)
    OBVIOUS
  <2>3. f = block /\ Len(f) \in 0 .. Len(block) /\ Len(f) <= room
    BY <1>1, <1>2, <2>1, <2>2
  <2> QED
    BY <2>2, <2>3
<1>3. CASE ~(Len(block) <= room)
  <2>1. Fitting(block, room) = SubSeq(block, 1, room)
    BY <1>3 DEF Fitting
  <2>2. \A i \in 1 .. room : block[i] \in Piece
    BY <1>1, <1>3
  <2>3. /\ SubSeq(block, 1, room) \in Seq(Piece)
        /\ Len(SubSeq(block, 1, room)) = IF 1 <= room THEN room - 1 + 1 ELSE 0
        /\ \A i \in 1 .. room - 1 + 1 : SubSeq(block, 1, room)[i] = block[1 + i - 1]
    BY <2>2, SubSeqProperties
  <2>4. Len(SubSeq(block, 1, room)) = room
    BY <2>3
  <2>5. \A i \in 1 .. room : SubSeq(block, 1, room)[i] = block[i]
    <3> SUFFICES ASSUME NEW i \in 1 .. room
                 PROVE  SubSeq(block, 1, room)[i] = block[i]
      OBVIOUS
    <3>1. i \in 1 .. room - 1 + 1 /\ 1 + i - 1 = i
      OBVIOUS
    <3> QED
      BY <2>3, <3>1
  <2>6. PICK f : f = Fitting(block, room)
    OBVIOUS
  <2>7. f \in Seq(Piece) /\ Len(f) = room /\ \A i \in 1 .. room : f[i] = block[i]
    BY <2>1, <2>3, <2>4, <2>5, <2>6
  <2>8. room \in 0 .. Len(block)
    BY <1>1, <1>3
  <2> QED
    BY <2>6, <2>7, <2>8
<1> QED
  BY <1>2, <1>3
-----------------------------------------------------------------------------
LEMMA TypeNext == TypeInv /\ RoomInv /\ PhaseInv /\ [Next]_vars => TypeInv' /\ RoomInv'
<1> SUFFICES ASSUME TypeInv, RoomInv, PhaseInv, [Next]_vars PROVE TypeInv' /\ RoomInv'
  OBVIOUS
<1>0. Len(ring) \in Nat /\ Len(writing) \in Nat /\ Len(out) \in Nat /\ Room \in Nat
  BY SoundAssumption DEF TypeInv
<1>1. CASE audio_batch
  <2>1. data' \in Seq(Int)
    BY <1>1, BatchIsSeq DEF audio_batch
  <2> QED
    BY <1>1, <2>1 DEF audio_batch, TypeInv, RoomInv, rates, carry
<1>2. CASE resample
  <2> DEFINE piece == Numbered(offered + Len(out),
                        Between(Before, data[Index + 1], g_resample_position % g_ring_rate))
  <2>1. piece \in Piece
    BY <1>0, <1>2, NextPiece DEF resample, Numbered, Piece, TypeInv
  <2>2. out' = Append(out, piece)
    BY <1>2 DEF resample
  <2> HIDE DEF piece
  <2>3. out' \in Seq(Piece)
    BY <2>1, <2>2 DEF TypeInv
  <2>4. g_resample_position' \in Nat
    BY <1>2 DEF resample, TypeInv
  <2> QED
    BY <1>2, <2>3, <2>4 DEF resample, TypeInv, RoomInv, rates
<1>3. CASE ring_write
  <2>1. writing = <<>> /\ Room - Len(ring) \in Nat
    <3>1. writing = <<>>
      BY <1>3 DEF ring_write, PhaseInv
    <3> QED
      BY <1>0, <3>1 DEF RoomInv
  <2>2. writing' = Fitting(out, Room - Len(ring))
    BY <1>3 DEF ring_write
  <2>3. writing' \in Seq(Piece) /\ Len(writing') <= Room - Len(ring)
    <3>1. writing' \in Seq(Piece)
      BY <2>1, <2>2, FittingIsSeq DEF TypeInv
    <3>2. Len(writing') <= Room - Len(ring)
      BY <2>1, <2>2, FittingIsSeq DEF TypeInv
    <3> QED
      BY <3>1, <3>2
  <2>4. offered' \in Nat /\ out' \in Seq(Piece)
    BY <1>0, <1>3 DEF ring_write, TypeInv
  <2>5. ring' = ring
    BY <1>3 DEF ring_write
  <2>6. RoomInv'
    BY <1>0, <2>3, <2>5 DEF RoomInv
  <2> QED
    BY <1>3, <2>3, <2>4, <2>6 DEF ring_write, TypeInv, rates, carry
<1>4. CASE ring_publish
  <2>1. ring' = ring \o writing /\ writing' = <<>>
    BY <1>4 DEF ring_publish
  <2>2. ring' \in Seq(Piece) /\ Len(ring') = Len(ring) + Len(writing)
    BY <2>1, ConcatProperties DEF TypeInv
  <2> QED
    BY <1>0, <1>4, <2>1, <2>2 DEF ring_publish, TypeInv, RoomInv, rates, carry
<1>5. CASE batch_done
  <2>1. g_resample_position' \in Nat
    <3>1. Len(data) \in Nat /\ g_ring_rate \in Nat /\ g_resample_position \in Nat
      BY DEF TypeInv
    <3>2. PICK z \in Int : z = Len(data) * g_ring_rate
      BY <3>1
    <3>3. g_resample_position' = g_resample_position - z /\ ~(g_resample_position < z)
      BY <1>5, <3>2 DEF batch_done, Carry, More
    <3> QED
      BY <3>1, <3>3
  <2>2. g_resample_last' \in Int
    <3>1. data # <<>>
      BY <1>5 DEF batch_done, PhaseInv
    <3>2. Len(data) \in 1 .. Len(data)
      BY <3>1 DEF TypeInv
    <3>3. data[Len(data)] \in Int
      BY <3>2 DEF TypeInv
    <3> QED
      BY <1>5, <3>3 DEF batch_done
  <2>3. stream' \in Seq(Int)
    BY <1>5, ConcatProperties DEF batch_done, TypeInv
  <2>4. data' \in Seq(Int)
    BY <1>5 DEF batch_done
  <2> QED
    BY <1>5, <2>1, <2>2, <2>3, <2>4 DEF batch_done, TypeInv, RoomInv, rates
<1>6. CASE host_play
  <2>1. /\ Head(ring) \in Piece /\ Tail(ring) \in Seq(Piece)
        /\ Len(Tail(ring)) = Len(ring) - 1
    BY <1>6, HeadTailProperties DEF host_play, TypeInv
  <2>2. Head(ring).at \in Int
    BY <2>1 DEF Piece
  <2>3. played' \in Int /\ ring' \in Seq(Piece) /\ Len(ring') = Len(ring) - 1
    BY <1>6, <2>1, <2>2 DEF host_play
  <2> QED
    BY <1>0, <1>6, <2>3 DEF host_play, TypeInv, RoomInv, rates, carry
<1>7. CASE UNCHANGED vars
  BY <1>7 DEF vars, rates, carry, TypeInv, RoomInv
<1> QED
  BY <1>1, <1>2, <1>3, <1>4, <1>5, <1>6, <1>7 DEF Next

LEMMA PhaseNext == TypeInv /\ PhaseInv /\ [Next]_vars => PhaseInv'
<1> SUFFICES ASSUME TypeInv, PhaseInv, [Next]_vars PROVE PhaseInv'
  OBVIOUS
<1>1. CASE audio_batch
  <2>1. data' # <<>>
    BY <1>1, BatchIsSeq DEF audio_batch
  <2> QED
    BY <1>1, <2>1 DEF audio_batch, PhaseInv
<1>2. CASE resample
  BY <1>2 DEF resample, PhaseInv
<1>3. CASE ring_write
  BY <1>3 DEF ring_write, PhaseInv
<1>4. CASE ring_publish
  BY <1>4 DEF ring_publish, PhaseInv
<1>5. CASE batch_done
  BY <1>5 DEF batch_done, PhaseInv
<1>6. CASE host_play
  BY <1>6 DEF host_play, PhaseInv
<1>7. CASE UNCHANGED vars
  BY <1>7 DEF vars, PhaseInv
<1> QED
  BY <1>1, <1>2, <1>3, <1>4, <1>5, <1>6, <1>7 DEF Next

LEMMA PositionNext == TypeInv /\ PhaseInv /\ PositionInv /\ [Next]_vars => PositionInv'
<1> SUFFICES ASSUME TypeInv, PhaseInv, PositionInv, [Next]_vars PROVE PositionInv'
  OBVIOUS
<1>0. /\ Len(data) \in Nat /\ Len(stream) \in Nat /\ Produced \in Nat
      /\ g_core_rate \in Nat \ {0} /\ g_ring_rate \in Nat \ {0} /\ g_resample_position \in Nat
  BY DEF TypeInv, Produced
<1>1. CASE audio_batch
  <2>1. data = <<>> /\ pc = "run" /\ data' \in Batches
    BY <1>1 DEF audio_batch, PhaseInv
  <2>2. /\ g_core_rate' = g_core_rate /\ g_ring_rate' = g_ring_rate
        /\ g_resample_position' = g_resample_position /\ g_resample_last' = g_resample_last
        /\ stream' = stream /\ Produced' = Produced
    BY <1>1 DEF audio_batch, rates, carry, Produced
  <2>3. Len(data') \in Nat
    BY <2>1, BatchIsSeq
  <2>4. Len(data') * g_ring_rate >= 0
    BY <1>0, <2>3
  <2>5. Len(data) * g_ring_rate = 0
    BY <1>0, <2>1
  <2>6. Produced > 0 => g_resample_position - g_core_rate < 0
    BY <2>5 DEF PositionInv
  <2>7. Produced > 0 => g_resample_position - g_core_rate < Len(data') * g_ring_rate
    <3>1. PICK z \in Int : z = Len(data') * g_ring_rate
      BY <1>0, <2>3
    <3> QED
      BY <1>0, <2>4, <2>6, <3>1
  <2> QED
    BY <2>2, <2>7 DEF PositionInv
<1>2. CASE resample
  <2>1. /\ g_core_rate' = g_core_rate /\ g_ring_rate' = g_ring_rate /\ data' = data
        /\ g_resample_position' = g_resample_position + g_core_rate
        /\ g_resample_last' = g_resample_last /\ stream' = stream
        /\ g_resample_position < Len(data) * g_ring_rate
    BY <1>2 DEF resample, rates, More
  <2>2. Produced' = Produced + 1
    BY <1>2 DEF resample, Produced, TypeInv
  <2>3. (Produced + 1) * g_core_rate = Produced * g_core_rate + g_core_rate
    BY <1>0
  <2>4. PICK a \in Int, b \in Int, d \in Int :
          a = Produced * g_core_rate /\ b = Len(stream) * g_ring_rate /\ d = Len(data) * g_ring_rate
    BY <1>0
  <2>5. g_resample_position' = (a + g_core_rate) - b
    BY <1>0, <2>1, <2>4 DEF PositionInv
  <2>6. g_resample_position' - g_core_rate < d
    BY <1>0, <2>1, <2>4
  <2>7. g_resample_position' = Produced' * g_core_rate' - Len(stream') * g_ring_rate'
    BY <2>1, <2>2, <2>3, <2>4, <2>5
  <2>8. g_resample_position' - g_core_rate' < Len(data') * g_ring_rate'
    BY <2>1, <2>4, <2>6
  <2> QED
    BY <2>1, <2>7, <2>8 DEF PositionInv
<1>3. CASE ring_write
  <2>1. Produced' = Produced
    <3>1. offered' = offered + Len(out) /\ out' = <<>>
      BY <1>3 DEF ring_write
    <3> QED
      BY <3>1 DEF Produced, TypeInv
  <2> QED
    BY <1>3, <2>1 DEF ring_write, PositionInv, rates, carry
<1>4. CASE ring_publish \/ host_play \/ UNCHANGED vars
  BY <1>4 DEF ring_publish, host_play, vars, PositionInv, rates, carry, Produced
<1>5. CASE batch_done
  <2>1. /\ g_core_rate' = g_core_rate /\ g_ring_rate' = g_ring_rate
        /\ g_resample_position' = g_resample_position - Len(data) * g_ring_rate
        /\ g_resample_last' = data[Len(data)]
        /\ stream' = stream \o data /\ data' = <<>> /\ Produced' = Produced
        /\ data # <<>>
    BY <1>5 DEF batch_done, rates, Carry, Produced, PhaseInv
  <2>2. /\ Len(stream') = Len(stream) + Len(data)
        /\ \A i \in 1 .. Len(stream) + Len(data) :
             stream'[i] = IF i <= Len(stream) THEN stream[i] ELSE data[i - Len(stream)]
    BY <2>1, ConcatProperties DEF TypeInv
  <2>3. (Len(stream) + Len(data)) * g_ring_rate = Len(stream) * g_ring_rate + Len(data) * g_ring_rate
    BY <1>0
  <2>4. PICK a \in Int, b \in Int, d \in Int :
          a = Produced * g_core_rate /\ b = Len(stream) * g_ring_rate /\ d = Len(data) * g_ring_rate
    BY <1>0
  <2>5. g_resample_position' = a - (b + d)
    BY <1>0, <2>1, <2>4 DEF PositionInv
  <2>6. g_resample_position' = Produced' * g_core_rate' - Len(stream') * g_ring_rate'
    BY <2>1, <2>2, <2>3, <2>4, <2>5
  <2>7. Produced > 0 => g_resample_position - g_core_rate < d
    BY <2>4 DEF PositionInv
  <2>8. Produced > 0 => g_resample_position' - g_core_rate < 0
    BY <1>0, <2>1, <2>4, <2>7
  <2>9. Len(data') * g_ring_rate' = 0
    BY <1>0, <2>1
  <2>10. stream' # <<>> /\ g_resample_last' = stream'[Len(stream')]
    <3>1. Len(data) > 0
      BY <1>0, <2>1 DEF TypeInv
    <3>2. Len(stream') \in 1 .. Len(stream) + Len(data) /\ ~(Len(stream') <= Len(stream))
      BY <1>0, <2>2, <3>1
    <3>3. stream'[Len(stream')] = data[Len(stream') - Len(stream)]
      BY <2>2, <3>2
    <3>4. Len(stream') - Len(stream) = Len(data)
      BY <1>0, <2>2
    <3>5. stream' # <<>>
      BY <1>0, <2>2, <3>1
    <3> QED
      BY <2>1, <3>3, <3>4, <3>5
  <2> QED
    BY <2>1, <2>6, <2>8, <2>9, <2>10 DEF PositionInv
<1> QED
  BY <1>1, <1>2, <1>3, <1>4, <1>5 DEF Next
-----------------------------------------------------------------------------
(* What is on its way, by position, and how a step changes it: nothing, a  *)
(* frame at the end, an end cut off, or the first gone.                    *)
LEMMA Three ==
  ASSUME NEW a \in Seq(Piece), NEW b \in Seq(Piece), NEW c \in Seq(Piece)
  PROVE  /\ (a \o b) \o c \in Seq(Piece)
         /\ Len((a \o b) \o c) = (Len(a) + Len(b)) + Len(c)
         /\ \A i \in 1 .. Len(a) : ((a \o b) \o c)[i] = a[i]
         /\ \A i \in 1 .. Len(b) : ((a \o b) \o c)[Len(a) + i] = b[i]
         /\ \A i \in 1 .. Len(c) : ((a \o b) \o c)[(Len(a) + Len(b)) + i] = c[i]
<1>0. Len(a) \in Nat /\ Len(b) \in Nat /\ Len(c) \in Nat
  OBVIOUS
<1>a. PICK d : d = a \o b
  OBVIOUS
<1>1. /\ d \in Seq(Piece) /\ Len(d) = Len(a) + Len(b)
      /\ \A i \in 1 .. Len(a) + Len(b) : d[i] = IF i <= Len(a) THEN a[i] ELSE b[i - Len(a)]
  BY <1>a, ConcatProperties
<1>b. PICK e : e = d \o c
  OBVIOUS
<1>2. /\ e \in Seq(Piece) /\ Len(e) = Len(d) + Len(c)
      /\ \A i \in 1 .. Len(d) + Len(c) : e[i] = IF i <= Len(d) THEN d[i] ELSE c[i - Len(d)]
  <2>1. d \in Seq(Piece)
    BY <1>1
  <2> QED
    BY <1>b, <2>1, ConcatProperties
<1>3. e = (a \o b) \o c
  BY <1>a, <1>b
<1>4. ASSUME NEW i \in 1 .. Len(a) PROVE e[i] = a[i]
  BY <1>0, <1>1, <1>2
<1>5. ASSUME NEW i \in 1 .. Len(b) PROVE e[Len(a) + i] = b[i]
  <2>1. Len(a) + i \in 1 .. Len(d) /\ ~(Len(a) + i <= Len(a)) /\ Len(a) + i - Len(a) = i
    BY <1>0, <1>1
  <2>2. d[Len(a) + i] = b[i]
    BY <1>0, <1>1, <2>1
  <2> QED
    BY <1>0, <1>2, <2>1, <2>2
<1>6. ASSUME NEW i \in 1 .. Len(c) PROVE e[(Len(a) + Len(b)) + i] = c[i]
  <2>1. PICK k \in Nat : k = (Len(a) + Len(b)) + i
    BY <1>0
  <2>2. k \in 1 .. Len(d) + Len(c) /\ ~(k <= Len(d)) /\ k - Len(d) = i
    BY <1>0, <1>1, <2>1
  <2>3. e[k] = c[i]
    BY <1>2, <2>2
  <2> QED
    BY <2>1, <2>3
<1>7. Len(e) = (Len(a) + Len(b)) + Len(c)
  BY <1>1, <1>2
<1> QED
  BY <1>2, <1>3, <1>4, <1>5, <1>6, <1>7

LEMMA WaySame ==
  ASSUME TypeInv, PhaseInv, audio_batch \/ ring_publish \/ batch_done \/ UNCHANGED vars
  PROVE  OnItsWay' = OnItsWay
<1>1. CASE audio_batch \/ batch_done \/ UNCHANGED vars
  BY <1>1 DEF audio_batch, batch_done, vars, OnItsWay
<1>2. CASE ring_publish
  <2>1. ring' = ring \o writing /\ writing' = <<>> /\ out' = out
    BY <1>2 DEF ring_publish
  <2>2. ring \o writing \in Seq(Piece)
    BY ConcatProperties DEF TypeInv
  <2>3. (ring \o writing) \o <<>> = ring \o writing
    BY <2>2, ConcatEmptySeq
  <2> QED
    BY <2>1, <2>3 DEF OnItsWay
<1> QED
  BY <1>1, <1>2

LEMMA WayGrows ==
  ASSUME TypeInv, resample
  PROVE  /\ Len(OnItsWay') = Len(OnItsWay) + 1
         /\ \A i \in 1 .. Len(OnItsWay) : OnItsWay'[i] = OnItsWay[i]
         /\ OnItsWay'[Len(OnItsWay) + 1] =
              Numbered(Produced, Between(Before, data[Index + 1],
                                         g_resample_position % g_ring_rate))
<1> DEFINE piece == Numbered(Produced, Between(Before, data[Index + 1],
                                               g_resample_position % g_ring_rate))
<1>1. piece \in Piece
  BY NextPiece DEF resample, Numbered, Piece, TypeInv, Produced
<1>2. out' = Append(out, piece) /\ ring' = ring /\ writing' = writing
  BY DEF resample, Produced
<1> HIDE DEF piece
<1>3. /\ ring \in Seq(Piece) /\ writing \in Seq(Piece) /\ out \in Seq(Piece)
      /\ Len(ring) \in Nat /\ Len(writing) \in Nat /\ Len(out) \in Nat
  BY DEF TypeInv
<1>a. PICK new : new = Append(out, piece)
  OBVIOUS
<1>4. /\ new \in Seq(Piece) /\ new = Append(out, piece)
      /\ Len(new) = Len(out) + 1 /\ new[Len(out) + 1] = piece
      /\ \A i \in 1 .. Len(out) : new[i] = out[i]
  BY <1>1, <1>3, <1>a
<1>5. PICK w : w = (ring \o writing) \o out
  OBVIOUS
<1>6. PICK z : z = (ring \o writing) \o new
  OBVIOUS
<1>7. OnItsWay = w /\ OnItsWay' = z
  BY <1>2, <1>4, <1>5, <1>6 DEF OnItsWay
<1>8. /\ Len(w) = (Len(ring) + Len(writing)) + Len(out)
      /\ \A i \in 1 .. Len(ring) : w[i] = ring[i]
      /\ \A i \in 1 .. Len(writing) : w[Len(ring) + i] = writing[i]
      /\ \A i \in 1 .. Len(out) : w[(Len(ring) + Len(writing)) + i] = out[i]
  BY <1>3, <1>5, Three
<1>9. /\ Len(z) = (Len(ring) + Len(writing)) + Len(new)
      /\ \A i \in 1 .. Len(ring) : z[i] = ring[i]
      /\ \A i \in 1 .. Len(writing) : z[Len(ring) + i] = writing[i]
      /\ \A i \in 1 .. Len(new) : z[(Len(ring) + Len(writing)) + i] = new[i]
  BY <1>3, <1>6, Three
<1>10. Len(z) = Len(w) + 1
  BY <1>3, <1>4, <1>8, <1>9
<1>11. ASSUME NEW i \in 1 .. Len(w) PROVE z[i] = w[i]
  <2>1. CASE i \in 1 .. Len(ring)
    BY <2>1, <1>8, <1>9
  <2>2. CASE \E j \in 1 .. Len(writing) : i = Len(ring) + j
    BY <2>2, <1>8, <1>9
  <2>3. CASE \E j \in 1 .. Len(out) : i = (Len(ring) + Len(writing)) + j
    <3>1. PICK j \in 1 .. Len(out) : i = (Len(ring) + Len(writing)) + j
      BY <2>3
    <3>2. j \in 1 .. Len(new)
      BY <1>3, <1>4
    <3> QED
      BY <3>1, <3>2, <1>4, <1>8, <1>9
  <2>4. \/ i \in 1 .. Len(ring)
        \/ i - Len(ring) \in 1 .. Len(writing) /\ i = Len(ring) + (i - Len(ring))
        \/ /\ i - (Len(ring) + Len(writing)) \in 1 .. Len(out)
           /\ i = (Len(ring) + Len(writing)) + (i - (Len(ring) + Len(writing)))
    BY <1>3, <1>8
  <2> QED
    BY <2>1, <2>2, <2>3, <2>4
<1>12. z[Len(w) + 1] = piece
  <2>1. Len(out) + 1 \in 1 .. Len(new)
    BY <1>3, <1>4
  <2>2. (Len(ring) + Len(writing)) + (Len(out) + 1) = Len(w) + 1
    BY <1>3, <1>8
  <2>3. z[(Len(ring) + Len(writing)) + (Len(out) + 1)] = new[Len(out) + 1]
    BY <1>9, <2>1
  <2> QED
    BY <1>4, <2>2, <2>3
<1> QED
  BY <1>7, <1>10, <1>11, <1>12 DEF piece

LEMMA WayCut ==
  ASSUME TypeInv, RoomInv, PhaseInv, ring_write
  PROVE  /\ Len(OnItsWay') \in 0 .. Len(OnItsWay)
         /\ \A i \in 1 .. Len(OnItsWay') : OnItsWay'[i] = OnItsWay[i]
<1>1. /\ ring \in Seq(Piece) /\ out \in Seq(Piece) /\ <<>> \in Seq(Piece)
      /\ Len(ring) \in Nat /\ Len(out) \in Nat /\ Len(<<>>) = 0
  BY EmptySeq DEF TypeInv
<1>2. ring' = ring /\ writing = <<>> /\ out' = <<>> /\ writing' = Fitting(out, Room - Len(ring))
  BY DEF ring_write, PhaseInv
<1>3. Room - Len(ring) \in Nat
  BY <1>1, <1>2, SoundAssumption DEF RoomInv
<1>4. PICK new \in Seq(Piece) :
        /\ new = writing' /\ Len(new) \in 0 .. Len(out)
        /\ \A i \in 1 .. Len(new) : new[i] = out[i]
  BY <1>1, <1>2, <1>3, FittingIsSeq
<1>5. PICK w : w = (ring \o <<>>) \o out
  OBVIOUS
<1>6. PICK z : z = (ring \o new) \o <<>>
  OBVIOUS
<1>7. OnItsWay = w /\ OnItsWay' = z
  BY <1>2, <1>4, <1>5, <1>6 DEF OnItsWay
<1>8. /\ Len(w) = Len(ring) + Len(out)
      /\ \A i \in 1 .. Len(ring) : w[i] = ring[i]
      /\ \A i \in 1 .. Len(out) : w[Len(ring) + i] = out[i]
  <2>1. /\ Len(w) = (Len(ring) + Len(<<>>)) + Len(out)
        /\ \A i \in 1 .. Len(ring) : w[i] = ring[i]
        /\ \A i \in 1 .. Len(out) : w[(Len(ring) + Len(<<>>)) + i] = out[i]
    BY <1>1, <1>5, Three
  <2>2. Len(ring) + Len(<<>>) = Len(ring)
    BY <1>1
  <2> QED
    BY <2>1, <2>2
<1>9. /\ Len(z) = Len(ring) + Len(new)
      /\ \A i \in 1 .. Len(ring) : z[i] = ring[i]
      /\ \A i \in 1 .. Len(new) : z[Len(ring) + i] = new[i]
  <2>1. /\ Len(z) = (Len(ring) + Len(new)) + Len(<<>>)
        /\ \A i \in 1 .. Len(ring) : z[i] = ring[i]
        /\ \A i \in 1 .. Len(new) : z[Len(ring) + i] = new[i]
    BY <1>1, <1>6, Three
  <2>2. (Len(ring) + Len(new)) + Len(<<>>) = Len(ring) + Len(new)
    BY <1>1
  <2> QED
    BY <2>1, <2>2
<1>10. Len(z) \in 0 .. Len(w)
  BY <1>1, <1>4, <1>8, <1>9
<1>11. ASSUME NEW i \in 1 .. Len(z) PROVE z[i] = w[i]
  <2>1. CASE i \in 1 .. Len(ring)
    BY <2>1, <1>8, <1>9
  <2>2. CASE i \notin 1 .. Len(ring)
    <3>1. PICK j \in 1 .. Len(new) : i = Len(ring) + j
      <4>1. i - Len(ring) \in 1 .. Len(new) /\ i = Len(ring) + (i - Len(ring))
        BY <1>1, <1>4, <1>9, <2>2
      <4> QED
        BY <4>1
    <3>2. j \in 1 .. Len(out)
      BY <1>1, <1>4
    <3> QED
      BY <1>4, <1>8, <1>9, <3>1, <3>2
  <2> QED
    BY <2>1, <2>2
<1> QED
  BY <1>7, <1>10, <1>11

LEMMA WayLeaves ==
  ASSUME TypeInv, host_play
  PROVE  /\ Len(OnItsWay) \in Nat \ {0}
         /\ Len(OnItsWay') = Len(OnItsWay) - 1
         /\ \A i \in 1 .. Len(OnItsWay') : OnItsWay'[i] = OnItsWay[i + 1]
         /\ played' = OnItsWay[1].at
<1>1. /\ ring \in Seq(Piece) /\ writing \in Seq(Piece) /\ out \in Seq(Piece)
      /\ Len(ring) \in Nat /\ Len(writing) \in Nat /\ Len(out) \in Nat /\ ring # <<>>
  BY DEF TypeInv, host_play
<1>2. ring' = Tail(ring) /\ writing' = writing /\ out' = out /\ played' = Head(ring).at
  BY DEF host_play
<1>3. /\ Tail(ring) \in Seq(Piece) /\ Len(Tail(ring)) = Len(ring) - 1
      /\ \A i \in 1 .. Len(Tail(ring)) : Tail(ring)[i] = ring[i + 1]
  BY <1>1, HeadTailProperties
<1>4. PICK new : new = Tail(ring)
  OBVIOUS
<1>5. PICK w : w = (ring \o writing) \o out
  OBVIOUS
<1>6. PICK z : z = (new \o writing) \o out
  OBVIOUS
<1>7. OnItsWay = w /\ OnItsWay' = z
  BY <1>2, <1>4, <1>5, <1>6 DEF OnItsWay
<1>8. /\ Len(w) = (Len(ring) + Len(writing)) + Len(out)
      /\ \A i \in 1 .. Len(ring) : w[i] = ring[i]
      /\ \A i \in 1 .. Len(writing) : w[Len(ring) + i] = writing[i]
      /\ \A i \in 1 .. Len(out) : w[(Len(ring) + Len(writing)) + i] = out[i]
  BY <1>1, <1>5, Three
<1>9. /\ Len(z) = (Len(new) + Len(writing)) + Len(out)
      /\ \A i \in 1 .. Len(new) : z[i] = new[i]
      /\ \A i \in 1 .. Len(writing) : z[Len(new) + i] = writing[i]
      /\ \A i \in 1 .. Len(out) : z[(Len(new) + Len(writing)) + i] = out[i]
  <2>1. new \in Seq(Piece)
    BY <1>3, <1>4
  <2> QED
    BY <1>1, <1>6, <2>1, Three
<1>10. Len(ring) > 0 /\ Len(new) = Len(ring) - 1
  BY <1>1, <1>3, <1>4
<1>11. Len(w) \in Nat \ {0} /\ Len(z) = Len(w) - 1
  BY <1>1, <1>8, <1>9, <1>10
<1>12. ASSUME NEW i \in 1 .. Len(z) PROVE z[i] = w[i + 1]
  <2>1. CASE i \in 1 .. Len(new)
    <3>1. z[i] = ring[i + 1]
      BY <1>3, <1>4, <1>9, <2>1
    <3>2. i + 1 \in 1 .. Len(ring)
      BY <1>1, <1>10, <2>1
    <3> QED
      BY <1>8, <3>1, <3>2
  <2>2. CASE \E j \in 1 .. Len(writing) : i = Len(new) + j
    <3>1. PICK j \in 1 .. Len(writing) : i = Len(new) + j
      BY <2>2
    <3>2. i + 1 = Len(ring) + j
      BY <1>1, <1>10, <3>1
    <3>3. z[Len(new) + j] = writing[j] /\ w[Len(ring) + j] = writing[j]
      BY <1>8, <1>9
    <3> QED
      BY <3>1, <3>2, <3>3
  <2>3. CASE \E j \in 1 .. Len(out) : i = (Len(new) + Len(writing)) + j
    <3>1. PICK j \in 1 .. Len(out) : i = (Len(new) + Len(writing)) + j
      BY <2>3
    <3>2. i + 1 = (Len(ring) + Len(writing)) + j
      BY <1>1, <1>10, <3>1
    <3>3. /\ z[(Len(new) + Len(writing)) + j] = out[j]
          /\ w[(Len(ring) + Len(writing)) + j] = out[j]
      BY <1>8, <1>9
    <3> QED
      BY <3>1, <3>2, <3>3
  <2>4. \/ i \in 1 .. Len(new)
        \/ i - Len(new) \in 1 .. Len(writing) /\ i = Len(new) + (i - Len(new))
        \/ /\ i - (Len(new) + Len(writing)) \in 1 .. Len(out)
           /\ i = (Len(new) + Len(writing)) + (i - (Len(new) + Len(writing)))
    BY <1>1, <1>9, <1>10
  <2> QED
    BY <2>1, <2>2, <2>3, <2>4
<1>13. w[1].at = Head(ring).at
  <2>1. w[1] = ring[1]
    BY <1>8, <1>10
  <2> QED
    BY <1>1, <2>1
<1> QED
  BY <1>2, <1>7, <1>11, <1>12, <1>13

(* The last of `out` is the last on its way.                               *)
LEMMA LastMade ==
  ASSUME TypeInv, out # <<>>
  PROVE  Len(OnItsWay) \in Nat \ {0} /\ OnItsWay[Len(OnItsWay)] = out[Len(out)]
<1>1. /\ ring \in Seq(Piece) /\ writing \in Seq(Piece) /\ out \in Seq(Piece)
      /\ Len(ring) \in Nat /\ Len(writing) \in Nat /\ Len(out) \in Nat /\ Len(out) > 0
  BY DEF TypeInv
<1>2. PICK w : w = (ring \o writing) \o out
  OBVIOUS
<1>3. /\ Len(w) = (Len(ring) + Len(writing)) + Len(out)
      /\ \A i \in 1 .. Len(out) : w[(Len(ring) + Len(writing)) + i] = out[i]
  BY <1>1, <1>2, Three
<1>4. Len(out) \in 1 .. Len(out)
  BY <1>1
<1>5. w[Len(w)] = out[Len(out)]
  BY <1>3, <1>4
<1>6. Len(w) \in Nat \ {0}
  BY <1>1, <1>3
<1> QED
  BY <1>2, <1>5, <1>6 DEF OnItsWay
-----------------------------------------------------------------------------
LEMMA WayIsSeq ==
  ASSUME TypeInv
  PROVE  /\ Len(OnItsWay) \in Nat
         /\ \A i \in 1 .. Len(OnItsWay) : OnItsWay[i].at \in Nat /\ OnItsWay[i].value \in Int
<1>1. OnItsWay \in Seq(Piece)
  BY Three DEF TypeInv, OnItsWay
<1>2. ASSUME NEW i \in 1 .. Len(OnItsWay)
      PROVE  OnItsWay[i].at \in Nat /\ OnItsWay[i].value \in Int
  <2>1. OnItsWay[i] \in Piece
    BY <1>1
  <2> QED
    BY <2>1 DEF Piece
<1> QED
  BY <1>1, <1>2

(* A step that keeps or cuts what is on its way keeps its order.           *)
LEMMA OrderKept ==
  ASSUME TypeInv, OrderInv,
         Len(OnItsWay') \in 0 .. Len(OnItsWay),
         \A i \in 1 .. Len(OnItsWay') : OnItsWay'[i] = OnItsWay[i],
         played' = played, Produced' = Produced,
         starts \union {offered} \subseteq (starts \union {offered})',
         \A i \in 1 .. Len(out') : out'[i].at = offered' + (i - 1)
  PROVE  OrderInv'
<1>1. Len(OnItsWay) \in Nat
  BY WayIsSeq
<1>2. ASSUME NEW i \in 1 .. Len(OnItsWay')
      PROVE  /\ OnItsWay'[i].at > AtBefore(i)' /\ OnItsWay'[i].at < Produced'
             /\ \/ OnItsWay'[i].at = AtBefore(i)' + 1
                \/ OnItsWay'[i].at \in (starts \union {offered})'
  <2>1. i \in 1 .. Len(OnItsWay)
    BY <1>1
  <2>2. OnItsWay'[i] = OnItsWay[i]
    OBVIOUS
  <2>3. AtBefore(i)' = AtBefore(i)
    <3>1. i # 1 => i - 1 \in 1 .. Len(OnItsWay')
      BY <1>1
    <3>2. i # 1 => OnItsWay'[i - 1] = OnItsWay[i - 1]
      BY <3>1
    <3> QED
      BY <3>2 DEF AtBefore
  <2>4. /\ OnItsWay[i].at > AtBefore(i) /\ OnItsWay[i].at < Produced
        /\ OnItsWay[i].at = AtBefore(i) + 1 \/ OnItsWay[i].at \in starts \union {offered}
    BY <2>1 DEF OrderInv
  <2> QED
    BY <2>2, <2>3, <2>4
<1>3. played' < Produced'
  BY DEF OrderInv
<1> QED
  BY <1>2, <1>3 DEF OrderInv

LEMMA OrderMade ==
  ASSUME TypeInv, OrderInv, resample
  PROVE  OrderInv'
<1>1. Len(OnItsWay) \in Nat /\ Len(out) \in Nat /\ Produced \in Nat /\ played \in Int
  BY WayIsSeq DEF TypeInv, Produced
<1>2. /\ played' = played /\ starts' = starts /\ offered' = offered /\ Produced' = Produced + 1
      /\ Len(out') = Len(out) + 1
  BY DEF resample, Produced, TypeInv
<1>3. /\ Len(OnItsWay') = Len(OnItsWay) + 1
      /\ \A i \in 1 .. Len(OnItsWay) : OnItsWay'[i] = OnItsWay[i]
      /\ OnItsWay'[Len(OnItsWay) + 1].at = Produced
  BY WayGrows DEF Numbered
<1>4. ASSUME NEW i \in 1 .. Len(out') PROVE out'[i].at = offered' + (i - 1)
  <2>1. i \in 1 .. Len(out) => out'[i] = out[i]
    BY DEF resample, TypeInv
  <2>2. i = Len(out) + 1 => out'[i].at = offered + Len(out)
    BY DEF resample, TypeInv, Numbered
  <2>3. i \in 1 .. Len(out) => out[i].at = offered + (i - 1)
    BY DEF OrderInv
  <2> QED
    BY <1>1, <1>2, <2>1, <2>2, <2>3
<1>5. ASSUME NEW i \in 1 .. Len(OnItsWay') PROVE AtBefore(i)' = AtBefore(i)
  <2>1. i # 1 => i - 1 \in 1 .. Len(OnItsWay)
    BY <1>1, <1>3
  <2>2. i # 1 => OnItsWay'[i - 1] = OnItsWay[i - 1]
    BY <1>3, <2>1
  <2> QED
    BY <1>2, <2>2 DEF AtBefore
<1>6. ASSUME NEW i \in 1 .. Len(OnItsWay)
      PROVE  /\ OnItsWay'[i].at > AtBefore(i)' /\ OnItsWay'[i].at < Produced'
             /\ \/ OnItsWay'[i].at = AtBefore(i)' + 1
                \/ OnItsWay'[i].at \in starts' \union {offered'}
  <2>1. AtBefore(i)' = AtBefore(i)
    BY <1>1, <1>3, <1>5
  <2>2. /\ OnItsWay[i].at > AtBefore(i) /\ OnItsWay[i].at < Produced
        /\ OnItsWay[i].at = AtBefore(i) + 1 \/ OnItsWay[i].at \in starts \union {offered}
    BY DEF OrderInv
  <2>3. OnItsWay[i].at \in Nat
    BY WayIsSeq
  <2>4. OnItsWay'[i] = OnItsWay[i]
    BY <1>3
  <2> QED
    BY <1>1, <1>2, <2>1, <2>2, <2>3, <2>4
<1>7. PICK n \in Nat : n = Len(OnItsWay) + 1
  BY <1>1
<1>8. /\ OnItsWay'[n].at > AtBefore(n)' /\ OnItsWay'[n].at < Produced'
      /\ \/ OnItsWay'[n].at = AtBefore(n)' + 1
         \/ OnItsWay'[n].at \in starts' \union {offered'}
  <2>1. n \in 1 .. Len(OnItsWay') /\ OnItsWay'[n].at = Produced
    BY <1>1, <1>3, <1>7
  <2>2. AtBefore(n)' = AtBefore(n)
    BY <1>5, <2>1
  <2>3. n # 1 => n - 1 \in 1 .. Len(OnItsWay) /\ n - 1 = Len(OnItsWay)
    BY <1>1, <1>7
  <2>4. n # 1 => OnItsWay[n - 1].at < Produced
    BY <2>3 DEF OrderInv
  <2>5. AtBefore(n) < Produced
    BY <2>4 DEF AtBefore, OrderInv
  <2>6. CASE out = <<>>
    <3>1. Produced = offered
      BY <2>6 DEF Produced, TypeInv
    <3> QED
      BY <1>1, <1>2, <2>1, <2>2, <2>5, <3>1
  <2>7. CASE out # <<>>
    <3>1. Len(OnItsWay) # 0 /\ OnItsWay[Len(OnItsWay)] = out[Len(out)]
      BY <2>7, LastMade
    <3>2. n # 1
      BY <1>1, <1>7, <3>1
    <3>3. AtBefore(n) = out[Len(out)].at
      BY <2>3, <3>1, <3>2 DEF AtBefore
    <3>4. Len(out) \in 1 .. Len(out)
      BY <2>7 DEF TypeInv
    <3>5. out[Len(out)].at = offered + (Len(out) - 1)
      BY <3>4 DEF OrderInv
    <3>6. AtBefore(n) + 1 = Produced
      BY <1>1, <3>3, <3>5 DEF Produced, TypeInv
    <3> QED
      BY <1>1, <1>2, <2>1, <2>2, <2>5, <3>6
  <2> QED
    BY <2>6, <2>7
<1>9. ASSUME NEW i \in 1 .. Len(OnItsWay')
      PROVE  /\ OnItsWay'[i].at > AtBefore(i)' /\ OnItsWay'[i].at < Produced'
             /\ \/ OnItsWay'[i].at = AtBefore(i)' + 1
                \/ OnItsWay'[i].at \in starts' \union {offered'}
  <2>1. i \in 1 .. Len(OnItsWay) \/ i = n
    BY <1>1, <1>3, <1>7
  <2> QED
    BY <1>6, <1>8, <2>1
<1>10. played' < Produced'
  BY <1>1, <1>2 DEF OrderInv
<1> QED
  BY <1>4, <1>9, <1>10 DEF OrderInv

LEMMA OrderPlayed ==
  ASSUME TypeInv, OrderInv, host_play
  PROVE  OrderInv'
<1>1. Len(OnItsWay) \in Nat /\ played \in Int
  BY WayIsSeq DEF TypeInv
<1>2. /\ Len(OnItsWay) # 0
      /\ Len(OnItsWay') = Len(OnItsWay) - 1
      /\ \A i \in 1 .. Len(OnItsWay') : OnItsWay'[i] = OnItsWay[i + 1]
      /\ played' = OnItsWay[1].at
  BY WayLeaves
<1>3. starts' = starts /\ offered' = offered /\ out' = out /\ Produced' = Produced
  BY DEF host_play, Produced
<1>4. ASSUME NEW i \in 1 .. Len(OnItsWay')
      PROVE  /\ OnItsWay'[i].at > AtBefore(i)' /\ OnItsWay'[i].at < Produced'
             /\ \/ OnItsWay'[i].at = AtBefore(i)' + 1
                \/ OnItsWay'[i].at \in starts' \union {offered'}
  <2>1. i + 1 \in 1 .. Len(OnItsWay) /\ i + 1 # 1 /\ (i + 1) - 1 = i
    BY <1>1, <1>2
  <2>2. AtBefore(i + 1) = OnItsWay[i].at
    BY <2>1 DEF AtBefore
  <2>3. i # 1 => i - 1 \in 1 .. Len(OnItsWay') /\ (i - 1) + 1 = i
    BY <1>1, <1>2
  <2>4. i # 1 => OnItsWay'[i - 1] = OnItsWay[i]
    BY <1>2, <2>3
  <2>5. AtBefore(i)' = OnItsWay[i].at
    BY <1>2, <2>4 DEF AtBefore
  <2>6. /\ OnItsWay[i + 1].at > AtBefore(i + 1) /\ OnItsWay[i + 1].at < Produced
        /\ \/ OnItsWay[i + 1].at = AtBefore(i + 1) + 1
           \/ OnItsWay[i + 1].at \in starts \union {offered}
    BY <2>1 DEF OrderInv
  <2>7. OnItsWay'[i] = OnItsWay[i + 1]
    BY <1>2
  <2> QED
    BY <1>3, <2>2, <2>5, <2>6, <2>7
<1>5. played' < Produced'
  <2>1. 1 \in 1 .. Len(OnItsWay)
    BY <1>1, <1>2
  <2> QED
    BY <1>2, <1>3, <2>1 DEF OrderInv
<1>6. \A i \in 1 .. Len(out') : out'[i].at = offered' + (i - 1)
  BY <1>3 DEF OrderInv
<1> QED
  BY <1>4, <1>5, <1>6 DEF OrderInv

LEMMA OrderNext ==
  TypeInv /\ RoomInv /\ PhaseInv /\ OrderInv /\ [Next]_vars => OrderInv'
<1> SUFFICES ASSUME TypeInv, RoomInv, PhaseInv, OrderInv, [Next]_vars PROVE OrderInv'
  OBVIOUS
<1>1. CASE audio_batch \/ ring_publish \/ batch_done \/ UNCHANGED vars
  <2>1. /\ played' = played /\ starts' = starts /\ offered' = offered /\ out' = out
        /\ Produced' = Produced
    BY <1>1 DEF audio_batch, ring_publish, batch_done, vars, Produced
  <2>2. OnItsWay' = OnItsWay /\ Len(OnItsWay) \in Nat
    BY <1>1, WaySame, WayIsSeq
  <2>3. Len(OnItsWay') \in 0 .. Len(OnItsWay)
    BY <2>2
  <2>4. \A i \in 1 .. Len(out') : out'[i].at = offered' + (i - 1)
    BY <2>1 DEF OrderInv
  <2> QED
    BY <2>1, <2>2, <2>3, <2>4, OrderKept
<1>2. CASE resample
  BY <1>2, OrderMade
<1>3. CASE ring_write
  <2>1. /\ played' = played /\ starts' = starts \union {offered} /\ out' = <<>>
        /\ offered' = offered + Len(out)
    BY <1>3 DEF ring_write
  <2>2. Produced' = Produced
    BY <2>1 DEF Produced, TypeInv
  <2>3. \A i \in 1 .. Len(out') : out'[i].at = offered' + (i - 1)
    BY <2>1
  <2>4. starts \union {offered} \subseteq (starts \union {offered})'
    BY <2>1
  <2> QED
    BY <1>3, <2>1, <2>2, <2>3, <2>4, WayCut, OrderKept
<1>4. CASE host_play
  BY <1>4, OrderPlayed
<1> QED
  BY <1>1, <1>2, <1>3, <1>4 DEF Next
-----------------------------------------------------------------------------
LEMMA InputIsSeq ==
  ASSUME TypeInv
  PROVE  /\ Input \in Seq(Int) /\ Len(Input) = Len(stream) + Len(data)
         /\ \A i \in 1 .. Len(stream) : Input[i] = stream[i]
         /\ \A i \in 1 .. Len(data) : Input[Len(stream) + i] = data[i]
<1>1. Len(stream) \in Nat /\ Len(data) \in Nat
  BY DEF TypeInv
<1>2. PICK w : w = stream \o data
  OBVIOUS
<1>3. /\ w \in Seq(Int) /\ Len(w) = Len(stream) + Len(data)
      /\ \A i \in 1 .. Len(stream) + Len(data) :
           w[i] = IF i <= Len(stream) THEN stream[i] ELSE data[i - Len(stream)]
  BY <1>2, ConcatProperties DEF TypeInv
<1>4. \A i \in 1 .. Len(stream) : w[i] = stream[i]
  BY <1>1, <1>3
<1>5. ASSUME NEW i \in 1 .. Len(data) PROVE w[Len(stream) + i] = data[i]
  <2>1. PICK k \in Int : k = Len(stream) + i
    BY <1>1
  <2>2. k \in 1 .. Len(stream) + Len(data) /\ ~(k <= Len(stream)) /\ k - Len(stream) = i
    BY <1>1, <2>1
  <2>3. w[k] = data[i]
    BY <1>3, <2>2
  <2> QED
    BY <2>1, <2>3
<1> QED
  BY <1>2, <1>3, <1>4, <1>5 DEF Input

(* What was made lies within what the core has given.                      *)
LEMMA MadeFromInput ==
  ASSUME TypeInv, PositionInv, NEW k \in Nat, k < Produced
  PROVE  k * g_core_rate < Len(Input) * g_ring_rate
<1>1. /\ Len(stream) \in Nat /\ Len(data) \in Nat /\ Produced \in Nat
      /\ g_core_rate \in Nat \ {0} /\ g_ring_rate \in Nat \ {0} /\ g_resample_position \in Nat
  BY DEF TypeInv, Produced
<1>2. Len(Input) = Len(stream) + Len(data)
  BY InputIsSeq
<1>3. PICK a \in Int : a = Produced * g_core_rate
  BY <1>1
<1>4. PICK b \in Int : b = Len(stream) * g_ring_rate
  BY <1>1
<1>5. PICK d \in Int : d = Len(data) * g_ring_rate
  BY <1>1
<1>6. PICK e \in Int : e = k * g_core_rate
  BY <1>1
<1>7. (Len(stream) + Len(data)) * g_ring_rate = b + d
  BY <1>1, <1>4, <1>5
<1>8. e <= a - g_core_rate
  <2>1. PICK j \in Nat : Produced = (k + j) + 1
    <3>1. Produced - (k + 1) \in Nat /\ Produced = (k + (Produced - (k + 1))) + 1
      BY <1>1
    <3> QED
      BY <3>1
  <2>2. ((k + j) + 1) * g_core_rate = (k * g_core_rate + j * g_core_rate) + g_core_rate
    BY <1>1
  <2>3. PICK y \in Int : y = j * g_core_rate
    BY <1>1
  <2>4. y >= 0
    BY <1>1, <2>3
  <2>5. a = (e + y) + g_core_rate
    BY <1>3, <1>6, <2>1, <2>2, <2>3
  <2> QED
    BY <1>1, <2>4, <2>5
<1>9. g_resample_position = a - b
  BY <1>3, <1>4 DEF PositionInv
<1>10. g_resample_position - g_core_rate < d
  <2>1. Produced > 0
    BY <1>1
  <2> QED
    BY <1>5, <2>1 DEF PositionInv
<1>11. e < b + d
  BY <1>1, <1>8, <1>9, <1>10
<1> QED
  BY <1>2, <1>6, <1>7, <1>11

(* Sound the core adds changes nothing of what was made.                   *)
LEMMA ResampledStays ==
  ASSUME TypeInv, PositionInv, NEW k \in Nat, k < Produced,
         UNCHANGED rates,
         \A i \in 1 .. Len(Input) : Input'[i] = Input[i]
  PROVE  Resampled(k)' = Resampled(k)
<1>1. /\ k * g_core_rate \in Nat /\ Len(Input) \in Nat /\ g_ring_rate \in Nat \ {0}
      /\ k * g_core_rate < Len(Input) * g_ring_rate
  BY MadeFromInput, InputIsSeq DEF TypeInv
<1>2. PICK p \in Nat : p = k * g_core_rate
  BY <1>1
<1>3. PICK n \in Nat : n = p \div g_ring_rate /\ n < Len(Input)
  <2>1. p \div g_ring_rate \in Nat /\ p \div g_ring_rate < Len(Input)
    BY <1>1, <1>2, DivBelow
  <2> QED
    BY <2>1
<1>4. Frame(n)' = Frame(n)
  <2>1. n # 0 => n \in 1 .. Len(Input)
    BY <1>1, <1>3
  <2> QED
    BY <2>1 DEF Frame
<1>5. Frame(n + 1)' = Frame(n + 1)
  <2>1. n + 1 \in 1 .. Len(Input) /\ n + 1 # 0
    BY <1>1, <1>3
  <2> QED
    BY <2>1 DEF Frame
<1>6. g_core_rate' = g_core_rate /\ g_ring_rate' = g_ring_rate
  BY DEF rates
<1>7. Resampled(k) = Between(Frame(n), Frame(n + 1), p % g_ring_rate)
  BY <1>2, <1>3 DEF Resampled
<1>8. Resampled(k)' = Between(Frame(n), Frame(n + 1), p % g_ring_rate)'
  BY <1>2, <1>3, <1>6 DEF Resampled
<1>9. Between(Frame(n), Frame(n + 1), p % g_ring_rate)'
        = Between(Frame(n), Frame(n + 1), p % g_ring_rate)
  BY <1>4, <1>5, <1>6 DEF Between
<1> QED
  BY <1>7, <1>8, <1>9

(* What the loop makes is the next frame of the stream, resampled, whatever*)
(* the cut between this batch and the last.                                *)
LEMMA MadeAsOneStream ==
  ASSUME TypeInv, PositionInv, More
  PROVE  Between(Before, data[Index + 1], g_resample_position % g_ring_rate)
           = Resampled(Produced)
<1>1. /\ Len(stream) \in Nat /\ Len(data) \in Nat /\ Produced \in Nat
      /\ g_core_rate \in Nat \ {0} /\ g_ring_rate \in Nat \ {0} /\ g_resample_position \in Nat
  BY DEF TypeInv, Produced
<1>2. Index \in Nat /\ Index < Len(data)
  BY IndexInside
<1>3. Produced * g_core_rate = g_resample_position + Len(stream) * g_ring_rate
  <2>1. PICK a \in Int : a = Produced * g_core_rate
    BY <1>1
  <2>2. PICK b \in Int : b = Len(stream) * g_ring_rate
    BY <1>1
  <2>3. g_resample_position = a - b
    BY <2>1, <2>2 DEF PositionInv
  <2>4. a = g_resample_position + b
    BY <1>1, <2>3
  <2> QED
    BY <2>1, <2>2, <2>4
<1>4. PICK p : p = Produced * g_core_rate
  OBVIOUS
<1>5. p = g_resample_position + Len(stream) * g_ring_rate
  BY <1>3, <1>4
<1>6. p \div g_ring_rate = Index + Len(stream)
  BY <1>1, <1>5, WholeFrames DEF Index
<1>7. p % g_ring_rate = g_resample_position % g_ring_rate
  BY <1>1, <1>5, WholeFrames
<1>8. PICK n \in Nat : n = Index + Len(stream)
  BY <1>1, <1>2
<1>9. Resampled(Produced)
        = Between(Frame(n), Frame(n + 1), g_resample_position % g_ring_rate)
  BY <1>4, <1>6, <1>7, <1>8 DEF Resampled
<1>10. Frame(n + 1) = data[Index + 1]
  <2>1. Index + 1 \in 1 .. Len(data) /\ Len(stream) + (Index + 1) = n + 1 /\ n + 1 # 0
    BY <1>1, <1>2, <1>8
  <2>2. Input[Len(stream) + (Index + 1)] = data[Index + 1]
    BY <2>1, InputIsSeq
  <2> QED
    BY <2>1, <2>2 DEF Frame
<1>11. Frame(n) = Before
  <2>1. CASE Index = 0 /\ stream = <<>>
    <3>1. n = 0
      BY <1>8, <2>1
    <3> QED
      BY <2>1, <3>1 DEF Frame, Before, PositionInv
  <2>2. CASE Index = 0 /\ stream # <<>>
    <3>1. Len(stream) # 0 /\ n = Len(stream) /\ Len(stream) \in 1 .. Len(stream)
      BY <1>1, <1>8, <2>2 DEF TypeInv
    <3>2. Input[Len(stream)] = stream[Len(stream)]
      BY <3>1, InputIsSeq
    <3> QED
      BY <2>2, <3>1, <3>2 DEF Frame, Before, PositionInv
  <2>3. CASE Index # 0
    <3>1. Index \in 1 .. Len(data) /\ n = Len(stream) + Index /\ n # 0
      BY <1>1, <1>2, <1>8, <2>3
    <3>2. Input[Len(stream) + Index] = data[Index]
      BY <3>1, InputIsSeq
    <3> QED
      BY <2>3, <3>1, <3>2 DEF Frame, Before
  <2> QED
    BY <2>1, <2>2, <2>3
<1> QED
  BY <1>9, <1>10, <1>11

(* What a step leaves of the input.                                        *)
LEMMA InputGrows ==
  ASSUME TypeInv, PhaseInv, [Next]_vars
  PROVE  UNCHANGED rates /\ \A i \in 1 .. Len(Input) : Input'[i] = Input[i]
<1>1. CASE audio_batch
  <2>1. data = <<>> /\ data' \in Seq(Int) /\ stream' = stream /\ UNCHANGED rates
    BY <1>1, BatchIsSeq DEF audio_batch, PhaseInv
  <2>2. Len(Input) = Len(stream) /\ \A i \in 1 .. Len(stream) : Input[i] = stream[i]
    <3>1. /\ Len(Input) = Len(stream) + Len(data)
          /\ \A i \in 1 .. Len(stream) : Input[i] = stream[i]
      BY InputIsSeq
    <3>2. Len(data) = 0 /\ Len(stream) \in Nat
      BY <2>1 DEF TypeInv
    <3> QED
      BY <3>1, <3>2
  <2>3. \A i \in 1 .. Len(stream) : Input'[i] = stream[i]
    <3>1. PICK d \in Seq(Int) : d = data'
      BY <2>1
    <3>2. Input' = stream \o d
      BY <2>1, <3>1 DEF Input
    <3>3. \A i \in 1 .. Len(stream) + Len(d) :
            (stream \o d)[i] = IF i <= Len(stream) THEN stream[i] ELSE d[i - Len(stream)]
      BY ConcatProperties DEF TypeInv
    <3>4. Len(stream) \in Nat /\ Len(d) \in Nat
      BY DEF TypeInv
    <3>5. ASSUME NEW i \in 1 .. Len(stream) PROVE (stream \o d)[i] = stream[i]
      <4>1. i \in 1 .. Len(stream) + Len(d) /\ i <= Len(stream)
        BY <3>4
      <4> QED
        BY <3>3, <4>1
    <3> QED
      BY <3>2, <3>5
  <2> QED
    BY <2>1, <2>2, <2>3
<1>2. CASE batch_done
  <2>1. stream' = stream \o data /\ data' = <<>> /\ UNCHANGED rates
    BY <1>2 DEF batch_done
  <2>2. stream \o data \in Seq(Int)
    BY ConcatProperties DEF TypeInv
  <2>3. (stream \o data) \o <<>> = stream \o data
    BY <2>2, ConcatEmptySeq
  <2> QED
    BY <2>1, <2>3 DEF Input
<1>3. CASE resample \/ ring_write \/ ring_publish \/ host_play \/ UNCHANGED vars
  BY <1>3 DEF resample, ring_write, ring_publish, host_play, vars, Input
<1> QED
  BY <1>1, <1>2, <1>3 DEF Next

LEMMA ValueNext ==
  TypeInv /\ RoomInv /\ PhaseInv /\ PositionInv /\ OrderInv /\ ValueInv /\ [Next]_vars
    => ValueInv'
<1> SUFFICES ASSUME TypeInv, RoomInv, PhaseInv, PositionInv, OrderInv, ValueInv, [Next]_vars
             PROVE  ValueInv'
  OBVIOUS
<1>1. UNCHANGED rates /\ \A i \in 1 .. Len(Input) : Input'[i] = Input[i]
  BY InputGrows
<1>2. Len(OnItsWay) \in Nat /\ Produced \in Nat
  BY WayIsSeq DEF TypeInv, Produced
<1>3. ASSUME NEW i, NEW j \in 1 .. Len(OnItsWay), OnItsWay'[i] = OnItsWay[j]
      PROVE  OnItsWay'[i].value = Resampled(OnItsWay[i].at)'
  <2>1. PICK k : k = OnItsWay[j].at
    OBVIOUS
  <2>2. k \in Nat /\ k < Produced
    BY <2>1, WayIsSeq DEF OrderInv
  <2>3. Resampled(k)' = Resampled(k)
    BY <1>1, <2>2, ResampledStays
  <2>4. OnItsWay[j].value = Resampled(k)
    BY <2>1 DEF ValueInv
  <2>5. OnItsWay'[i].at = k
    BY <1>3, <2>1
  <2>6. Resampled(OnItsWay[i].at)' = Resampled(k)'
    BY <2>5
  <2> QED
    BY <1>3, <2>3, <2>4, <2>6
<1>4. CASE audio_batch \/ ring_publish \/ batch_done \/ UNCHANGED vars
  <2>1. OnItsWay' = OnItsWay
    BY <1>4, WaySame
  <2> QED
    BY <1>3, <2>1 DEF ValueInv
<1>5. CASE ring_write
  <2>1. /\ Len(OnItsWay') \in 0 .. Len(OnItsWay)
        /\ \A i \in 1 .. Len(OnItsWay') : OnItsWay'[i] = OnItsWay[i]
    BY <1>5, WayCut
  <2>2. \A i \in 1 .. Len(OnItsWay') : i \in 1 .. Len(OnItsWay)
    BY <1>2, <2>1
  <2> QED
    BY <1>3, <2>1, <2>2 DEF ValueInv
<1>6. CASE host_play
  <2>1. /\ Len(OnItsWay') = Len(OnItsWay) - 1
        /\ \A i \in 1 .. Len(OnItsWay') : OnItsWay'[i] = OnItsWay[i + 1]
    BY <1>6, WayLeaves
  <2>2. \A i \in 1 .. Len(OnItsWay') : i + 1 \in 1 .. Len(OnItsWay)
    BY <1>2, <2>1
  <2> QED
    BY <1>3, <2>1, <2>2 DEF ValueInv
<1>7. CASE resample
  <2>1. /\ Len(OnItsWay') = Len(OnItsWay) + 1
        /\ \A i \in 1 .. Len(OnItsWay) : OnItsWay'[i] = OnItsWay[i]
        /\ OnItsWay'[Len(OnItsWay) + 1] =
             Numbered(Produced, Between(Before, data[Index + 1],
                                        g_resample_position % g_ring_rate))
    BY <1>7, WayGrows
  <2>2. Between(Before, data[Index + 1], g_resample_position % g_ring_rate)
          = Resampled(Produced)
    BY <1>7, MadeAsOneStream DEF resample
  <2>3. PICK k \in Nat : k = Produced
    BY <1>2
  <2>4. Resampled(k)' = Resampled(k)
    BY <1>7, <2>3 DEF resample, rates, Resampled, Between, Frame, Input
  <2>5. ASSUME NEW i \in 1 .. Len(OnItsWay')
        PROVE  OnItsWay'[i].value = Resampled(OnItsWay[i].at)'
    <3>1. CASE i \in 1 .. Len(OnItsWay)
      BY <1>3, <2>1, <3>1
    <3>2. CASE i = Len(OnItsWay) + 1
      <4>1. OnItsWay'[i].at = k /\ OnItsWay'[i].value = Resampled(k)
        BY <2>1, <2>2, <2>3, <3>2 DEF Numbered
      <4>2. Resampled(OnItsWay[i].at)' = Resampled(k)'
        BY <4>1
      <4> QED
        BY <2>4, <4>1, <4>2
    <3> QED
      BY <1>2, <2>1, <3>1, <3>2
  <2> QED
    BY <2>5 DEF ValueInv
<1> QED
  BY <1>4, <1>5, <1>6, <1>7 DEF Next
-----------------------------------------------------------------------------
LEMMA InitInv == Init => IInv
<1> SUFFICES ASSUME Init PROVE IInv
  OBVIOUS
<1>1. TypeInv
  <2>1. g_core_rate \in Nat \ {0} /\ g_ring_rate \in Nat \ {0}
    BY SoundAssumption DEF Init
  <2>2. <<>> \in Seq(Int) /\ <<>> \in Seq(Piece)
    OBVIOUS
  <2> QED
    BY <2>1, <2>2 DEF Init, TypeInv
<1>2. RoomInv
  BY SoundAssumption DEF Init, RoomInv
<1>3. PhaseInv
  BY DEF Init, PhaseInv
<1>4. Produced = 0
  BY DEF Init, Produced
<1>5. PositionInv
  <2>1. Len(stream) = 0 /\ stream = <<>> /\ g_resample_position = 0 /\ g_resample_last = 0
    BY DEF Init
  <2>2. 0 * g_core_rate = 0 /\ 0 * g_ring_rate = 0
    BY <1>1 DEF TypeInv
  <2>3. g_resample_position = Produced * g_core_rate - Len(stream) * g_ring_rate
    BY <1>4, <2>1, <2>2
  <2> QED
    BY <1>4, <2>1, <2>3 DEF PositionInv
<1>6. Len(OnItsWay) = 0
  <2>1. OnItsWay = (<<>> \o <<>>) \o <<>>
    BY DEF Init, OnItsWay
  <2>2. Len((ring \o writing) \o out) = (Len(ring) + Len(writing)) + Len(out)
    BY <1>1, Three DEF TypeInv
  <2> QED
    BY <2>2 DEF Init, OnItsWay
<1>7. OrderInv
  BY <1>4, <1>6 DEF Init, OrderInv
<1>8. ValueInv
  BY <1>6 DEF ValueInv
<1> QED
  BY <1>1, <1>2, <1>3, <1>5, <1>7, <1>8 DEF IInv

LEMMA InvNext == IInv /\ [Next]_vars => IInv'
BY TypeNext, PhaseNext, PositionNext, OrderNext, ValueNext DEF IInv

LEMMA Invariant == Spec => []IInv
BY InitInv, InvNext, PTL DEF Spec

LEMMA RatesKept == TypeInv /\ PhaseInv /\ PositionInv => RatesKeepStep
<1> SUFFICES ASSUME TypeInv, PhaseInv, PositionInv, pc = "run"
             PROVE  /\ offered * g_core_rate >= Len(stream) * g_ring_rate
                    /\ offered > 0 =>
                         (offered - 1) * g_core_rate < Len(stream) * g_ring_rate
  BY DEF RatesKeepStep
<1>1. /\ offered \in Nat /\ Len(stream) \in Nat /\ g_resample_position \in Nat
      /\ g_core_rate \in Nat \ {0} /\ g_ring_rate \in Nat \ {0}
  BY DEF TypeInv
<1>2. Produced = offered /\ Len(data) = 0
  BY <1>1 DEF PhaseInv, Produced
<1>3. PICK a \in Int : a = offered * g_core_rate
  BY <1>1
<1>4. PICK b \in Int : b = Len(stream) * g_ring_rate
  BY <1>1
<1>5. g_resample_position = a - b
  BY <1>2, <1>3, <1>4 DEF PositionInv
<1>6. 0 * g_ring_rate = 0
  BY <1>1
<1>7. offered > 0 => g_resample_position - g_core_rate < 0
  BY <1>2, <1>6 DEF PositionInv
<1>8. (offered - 1) * g_core_rate = a - g_core_rate
  BY <1>1, <1>3
<1>9. a >= b
  BY <1>1, <1>3, <1>4, <1>5
<1>10. offered > 0 => a - g_core_rate < b
  BY <1>1, <1>5, <1>7
<1> QED
  BY <1>3, <1>4, <1>8, <1>9, <1>10

(* Between two batches the ring has been offered what the core's sound     *)
(* makes at the ring's rate, exactly: the position carried from batch to   *)
(* batch loses no fraction, for any two rates and any cut into batches.    *)
THEOREM RatesDoNotDrift == Spec => []RatesKeepStep
BY Invariant, RatesKept, PTL DEF IInv

(* After a gap in what is heard comes the first frame of a block: a full   *)
(* ring loses the end of a block, never its middle.                        *)
THEOREM OnlyEndsAreLost == Spec => []LossEndsBlock
<1>1. IInv => LossEndsBlock
  <2> SUFFICES ASSUME TypeInv, OrderInv, NEW i \in DOMAIN OnItsWay
               PROVE  \/ OnItsWay[i].at = AtBefore(i) + 1
                      \/ OnItsWay[i].at \in starts \union {offered}
    BY DEF IInv, LossEndsBlock, AtBefore
  <2>1. DOMAIN OnItsWay = 1 .. Len(OnItsWay)
    BY Three DEF TypeInv, OnItsWay
  <2> QED
    BY <2>1 DEF OrderInv
<1> QED
  BY <1>1, Invariant, PTL

(* What is on its way to the host is the core's whole sound as one stream, *)
(* resampled, frame by frame and in order: how audio_batch's calls cut it, *)
(* how blocks cut it and what a full ring lost leave no seam.              *)
THEOREM HeardAsOneStream == Spec => []AsOneStream
<1>1. IInv => AsOneStream
  <2> SUFFICES ASSUME TypeInv, OrderInv, ValueInv, NEW i \in DOMAIN OnItsWay
               PROVE  /\ OnItsWay[i].value = Resampled(OnItsWay[i].at)
                      /\ OnItsWay[i].at > AtBefore(i)
    BY DEF IInv, AsOneStream, AtBefore
  <2>1. DOMAIN OnItsWay = 1 .. Len(OnItsWay)
    BY Three DEF TypeInv, OnItsWay
  <2> QED
    BY <2>1 DEF OrderInv, ValueInv
<1> QED
  BY <1>1, Invariant, PTL
=============================================================================
