--------------------------------- MODULE Sound ---------------------------------
(***************************************************************************)
(* The core's sound on its way to the host: audio_batch and audio_sample   *)
(* bring it from the core's rate to the ring's, by linear interpolation    *)
(* that carries on from batch to batch, and hand it in blocks to the ring, *)
(* which keeps of a block what it has room for.  The host plays.           *)
(*                                                                         *)
(* A frame of sound is one number (both channels are treated alike).  The  *)
(* code's double g_resample_position counts core frames; here it counts in *)
(* units of 1 / g_ring_rate, where every position is a whole number, and   *)
(* the rounding errors of double arithmetic are left out.  The ring is the *)
(* queue AudioRing is shown to implement; a launch with no ring plays      *)
(* nothing and is left out.                                                *)
(***************************************************************************)
EXTENDS Integers, SequencesExt

CONSTANTS
  Rates,      \* pairs [core, ring] of sampling rates a launch may have
  Samples,    \* what a frame of sound may be
  MaxBatch,   \* frames in one call of audio_batch
  Block,      \* frames the `out` array holds (1024)
  Room,       \* frames the ring holds
  MaxInput    \* bound: frames the core gives in a behaviour

ASSUME SoundAssumption ==
  /\ Rates \subseteq [core : Nat \ {0}, ring : Nat \ {0}]
  /\ Samples \subseteq Int
  /\ MaxBatch \in Nat /\ {Block, Room} \subseteq Nat \ {0} /\ MaxInput \in Nat

VARIABLES
  g_core_rate, g_ring_rate,
  g_resample_position,   \* from the frame before data[0], in 1 / g_ring_rate frames
  g_resample_last,       \* the last frame of the batch before
  pc,                    \* "run", "batch" inside audio_batch, "write" inside a write
  data,                  \* the batch
  out,                   \* produced and not yet handed over
  writing,               \* what the write under way took of its block
  ring,                  \* what the ring holds for the host
  stream,                \* history: the frames of all batches before this one
  offered,               \* history: frames handed to the ring
  starts,                \* history: the first frame of every block handed over
  played                 \* history: the frame the host played last

rates == <<g_core_rate, g_ring_rate>>
carry == <<g_resample_position, g_resample_last>>
vars  == <<rates, carry, pc, data, out, writing, ring, stream, offered, starts, played>>

(* A frame for the ring: its number in the resampled sound, and what it is.*)
Numbered(at, value) == [at |-> at, value |-> value]

Init ==
  /\ \E r \in Rates : g_core_rate = r.core /\ g_ring_rate = r.ring
  /\ g_resample_position = 0 /\ g_resample_last = 0
  /\ pc = "run" /\ data = <<>> /\ out = <<>> /\ writing = <<>> /\ ring = <<>>
  /\ stream = <<>> /\ offered = 0 /\ starts = {} /\ played = -1
-----------------------------------------------------------------------------
(* What the cast to int16_t makes of a quotient: it drops the fraction.    *)
Truncated(a, b) == IF a >= 0 THEN a \div b ELSE -((-a) \div b)

(* Between frame a and frame b, t / g_ring_rate of the way.                *)
Between(a, b, t) == Truncated(a * g_ring_rate + (b - a) * t, g_ring_rate)

Batches == UNION {[1 .. n -> Samples] : n \in 1 .. MaxBatch}

(* A call of audio_batch, or of audio_sample with one frame.               *)
audio_batch ==
  /\ pc = "run"
  /\ data' \in Batches
  /\ Len(stream) + Len(data') <= MaxInput
  /\ pc' = "batch"
  /\ UNCHANGED <<rates, carry, out, writing, ring, stream, offered, starts, played>>

Index == g_resample_position \div g_ring_rate

Before_InBatch == data[IF Index = 0 THEN 1 ELSE Index]
Before == IF Index = 0 THEN g_resample_last ELSE data[Index]

More == g_resample_position < Len(data) * g_ring_rate

(* The loop's body: one frame for the ring.                                *)
resample ==
  /\ pc = "batch" /\ More /\ Len(out) < Block
  /\ out' = Append(out, Numbered(offered + Len(out),
              Between(Before, data[Index + 1], g_resample_position % g_ring_rate)))
  /\ g_resample_position' = g_resample_position + g_core_rate
  /\ UNCHANGED <<rates, g_resample_last, pc, data, writing, ring, stream, offered, starts,
                 played>>

(* Of a block the ring takes the beginning, as much as it has room for when*)
(* it is called; the rest is gone, and audio_batch does not ask.           *)
Fitting_End(block, room) ==
  IF Len(block) <= room THEN block ELSE SubSeq(block, Len(block) - room + 1, Len(block))
Fitting(block, room) == IF Len(block) <= room THEN block ELSE SubSeq(block, 1, room)

(* A full block in the loop, or what is left after it.                     *)
Due == Len(out) = Block \/ (~More /\ out # <<>>)

ring_write ==
  /\ pc = "batch" /\ Due
  /\ pc' = "write"
  /\ writing' = Fitting(out, Room - Len(ring))
  /\ offered' = offered + Len(out)
  /\ starts' = starts \union {offered}
  /\ out' = <<>>
  /\ UNCHANGED <<rates, carry, data, ring, stream, played>>

ring_publish ==
  /\ pc = "write"
  /\ pc' = "batch"
  /\ ring' = ring \o writing
  /\ writing' = <<>>
  /\ UNCHANGED <<rates, carry, data, out, stream, offered, starts, played>>

Carry_Restarts == 0
Carry == g_resample_position - Len(data) * g_ring_rate

(* After the loop and the last write: position and last frame are kept.    *)
batch_done ==
  /\ pc = "batch" /\ ~More /\ out = <<>>
  /\ g_resample_position' = Carry
  /\ g_resample_last' = data[Len(data)]
  /\ stream' = stream \o data
  /\ data' = <<>>
  /\ pc' = "run"
  /\ UNCHANGED <<rates, out, writing, ring, offered, starts, played>>

(* The host, at its own pace.                                              *)
host_play ==
  /\ ring # <<>>
  /\ played' = Head(ring).at
  /\ ring' = Tail(ring)
  /\ UNCHANGED <<rates, carry, pc, data, out, writing, stream, offered, starts>>

Next ==
  \/ audio_batch \/ resample \/ ring_write \/ ring_publish \/ batch_done
  \/ host_play

Spec == Init /\ [][Next]_vars
-----------------------------------------------------------------------------
(* The core's sound as one stream, silent before its first frame.          *)
Input == stream \o data
Frame(n) == IF n = 0 THEN 0 ELSE Input[n]
Resampled(k) ==
  LET at == k * g_core_rate
      n  == at \div g_ring_rate
  IN  Between(Frame(n), Frame(n + 1), at % g_ring_rate)

OnItsWay == ring \o writing \o out

(* However the core cuts its sound into batches and the host plays, what   *)
(* is heard is the one stream resampled, in order: no seam where a batch   *)
(* ends, no frame twice, and after a loss the sound goes on where the core *)
(* is (audio_batch's position and last frame are carried across calls).    *)
AsOneStream ==
  \A i \in DOMAIN OnItsWay :
    /\ OnItsWay[i].value = Resampled(OnItsWay[i].at)
    /\ OnItsWay[i].at > (IF i = 1 THEN played ELSE OnItsWay[i - 1].at)

(* A ring that is full loses the end of a block and nothing else, so what  *)
(* was begun is heard without a gap: after one comes a block's beginning.  *)
LossEndsBlock ==
  \A i \in DOMAIN OnItsWay :
    \/ OnItsWay[i].at = (IF i = 1 THEN played ELSE OnItsWay[i - 1].at) + 1
    \/ OnItsWay[i].at \in starts \union {offered}

(* Between two batches the ring has been offered all the sound there is    *)
(* for it, no frame more and none less: the two rates keep step for ever,  *)
(* whatever was lost.                                                      *)
RatesKeepStep ==
  pc = "run" =>
    /\ offered * g_core_rate >= Len(stream) * g_ring_rate
    /\ offered > 0 => (offered - 1) * g_core_rate < Len(stream) * g_ring_rate
=============================================================================
