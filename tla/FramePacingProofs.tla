--------------------------- MODULE FramePacingProofs ---------------------------
(***************************************************************************)
(* What is proved of FramePacing for all periods, durations and rates: the *)
(* frames are neither early nor in a rush, the core is told the time that  *)
(* has passed, and the sound stays ahead of the host.                      *)
(***************************************************************************)
EXTENDS FramePacing, TLAPS

TimeType ==
  /\ now \in Nat /\ next \in Nat /\ last \in Nat /\ delta \in Int
  /\ starts \in Seq(Nat)
  /\ pc \in {"load", "loop", "run", "pump", "pace"}

SoundType ==
  /\ calls \in Nat /\ buffered \in Nat /\ pumped \in Nat \union {None}
  /\ dry \in BOOLEAN
  /\ pumped # None => pumped <= now

InFrame == pc \in {"run", "pump", "pace"}

(* Where the loop is: no frame before it, one at least within a frame, and *)
(* at its head the clock has reached the time that is due.                 *)
LoopInv ==
  /\ pc = "load" => starts = <<>>
  /\ InFrame => Len(starts) > 0
  /\ pc = "loop" => now >= next
  /\ pc = "loop" /\ starts = <<>> => next = now
  /\ \A i \in 1 .. Len(starts) : starts[i] <= now
  /\ starts # <<>> => last = starts[Len(starts)]

(* The time that is due against the first frame's start: at the loop's     *)
(* head a period for each frame run, within a frame one less.              *)
EarlyInv ==
  /\ pc = "loop" /\ starts # <<>> => next >= starts[1] + Len(starts) * Period
  /\ InFrame => next >= starts[1] + (Len(starts) - 1) * Period
  /\ NeverEarly

(* The time that is due against every frame's start: it is never more than *)
(* FarBehind less than a run from there without delay would have it.       *)
RacesInv ==
  /\ pc = "loop" =>
       \A i \in 1 .. Len(starts) :
         next >= starts[i] - FarBehind + (Len(starts) - i) * Period
  /\ InFrame =>
       \A i \in 1 .. Len(starts) - 1 :
         next >= starts[i] - FarBehind + (Len(starts) - 1 - i) * Period
  /\ NeverRaces

(* The sound the ring holds: what the pump left ahead of the host less     *)
(* what the host has played since; in the pump, m frames for each callback *)
(* so far, if none leaves the ring less the fuller.                        *)
AheadInv(m) ==
  /\ pumped # None /\ (now - pumped) * PlayRate <= Ahead =>
       ~dry /\ buffered >= Ahead - (now - pumped) * PlayRate
  /\ pc = "pump" => buffered >= Ahead \/ buffered >= calls * m

IInv == TimeType /\ SoundType /\ LoopInv /\ EarlyInv /\ RacesInv /\ TimeSinceLastRun
-----------------------------------------------------------------------------
LEMMA InitInv == Init => IInv
<1> SUFFICES ASSUME Init PROVE IInv
  OBVIOUS
<1>1. starts = <<>> /\ Len(starts) = 0 /\ pc = "load" /\ starts \in Seq(Nat)
  BY DEF Init
<1>2. TimeType
  BY <1>1 DEF Init, TimeType, None
<1>3. SoundType
  BY DEF Init, SoundType, None
<1>4. LoopInv /\ EarlyInv /\ RacesInv
  BY <1>1 DEF LoopInv, EarlyInv, RacesInv, InFrame, NeverEarly, NeverRaces
<1>5. TimeSinceLastRun
  BY <1>1 DEF TimeSinceLastRun
<1> QED
  BY <1>2, <1>3, <1>4, <1>5 DEF IInv

(* Time that passes is a natural number of ticks; the host's playing takes *)
(* from the ring what is there.                                            *)
LEMMA Passing ==
  ASSUME SoundType, now \in Nat, NEW t \in Nat, Pass(t)
  PROVE  now' \in Nat /\ now' = now + t /\ buffered' \in Nat /\ dry' \in BOOLEAN
<1>1. PlayRate \in Nat /\ t * PlayRate \in Nat
  BY PacingAssumption
<1>2. buffered' \in Nat
  BY <1>1 DEF Pass, Left, SoundType
<1>3. dry' \in BOOLEAN
  BY Zenon DEF Pass, Short
<1> QED
  BY <1>2, <1>3 DEF Pass

(* The steps that leave the clock, the loop's times and the history of     *)
(* frames as they are.                                                     *)
Aside == pc' = pc /\ UNCHANGED time

LEMMA AsideSteps ==
  ASSUME environment \/ UNCHANGED vars
  PROVE  Aside
BY DEF environment, vars, Aside

(* What an audio callback does to the clock and the ring: the host plays   *)
(* before and after the core writes.                                       *)
LEMMA Calling ==
  ASSUME TimeType, SoundType, audio_callback
  PROVE  \E before, after \in CallTimes, n \in Sounds, filled \in Nat :
           /\ filled = Written(Left(buffered, before), n)
           /\ Left(buffered, before) \in Nat
           /\ now' = now + before + after /\ now' \in Nat
           /\ buffered' = Left(filled, after) /\ buffered' \in Nat
           /\ dry' = (dry \/ Short(buffered, before) \/ Short(filled, after))
           /\ dry' \in BOOLEAN
<1>1. PICK before \in CallTimes, after \in CallTimes, n \in Sounds :
        /\ now' = now + before + after
        /\ buffered' = Left(Written(Left(buffered, before), n), after)
        /\ dry' = (dry \/ Short(buffered, before)
                       \/ Short(Written(Left(buffered, before), n), after))
  BY Zenon DEF audio_callback
<1>2. before \in Nat /\ after \in Nat /\ n \in Nat /\ now \in Nat /\ buffered \in Nat
      /\ PlayRate \in Nat /\ Room \in Nat
  BY PacingAssumption DEF TimeType, SoundType
<1>3. \A level \in Nat, t \in Nat : Left(level, t) \in Nat
  BY <1>2 DEF Left
<1>4. Left(buffered, before) \in Nat
  BY <1>2, <1>3
<1>5. PICK filled \in Nat : filled = Written(Left(buffered, before), n)
  BY <1>2, <1>4 DEF Written
<1>6. buffered' = Left(filled, after) /\ buffered' \in Nat
  BY <1>1, <1>2, <1>3, <1>5
<1>7. now' = now + before + after /\ now' \in Nat
  BY <1>1, <1>2
<1>8. dry' = (dry \/ Short(buffered, before) \/ Short(filled, after))
  BY <1>1, <1>5
<1>9. dry' \in BOOLEAN
  BY <1>8, Zenon DEF Short
<1> QED
  BY <1>4, <1>5, <1>6, <1>7, <1>8, <1>9

LEMMA TimeNext == TimeType /\ SoundType /\ [Next]_vars => TimeType'
<1> SUFFICES ASSUME TimeType, SoundType, [Next]_vars PROVE TimeType'
  OBVIOUS
<1> USE PacingAssumption DEF TimeType
<1>1. CASE environment \/ UNCHANGED vars
  BY <1>1, AsideSteps DEF Aside, time
<1>2. CASE loaded
  BY <1>2 DEF loaded
<1>3. CASE frame_begin
  BY <1>3 DEF frame_begin, Elapsed, Last, None
<1>4. CASE retro_run
  <2>1. PICK t \in Nat : Pass(t)
    BY <1>4 DEF retro_run
  <2>2. now' \in Nat
    BY <2>1, Passing
  <2> QED
    BY <1>4, <2>2 DEF retro_run
<1>5. CASE audio_callback \/ pump_done
  <2>1. CASE audio_callback
    <3>1. now' \in Nat
      BY <2>1, Calling
    <3> QED
      BY <2>1, <3>1 DEF audio_callback
  <2>2. CASE pump_done
    BY <2>2 DEF pump_done, time
  <2> QED
    BY <1>5, <2>1, <2>2
<1>6. CASE pace
  <2>1. CASE Due > now
    <3>1. PICK o \in Oversleeps : Pass(Due - now + o)
      BY <1>6, <2>1 DEF pace
    <3>2. Due \in Nat /\ Due - now + o \in Nat
      BY <2>1 DEF Due
    <3>3. now' \in Nat
      BY <3>1, <3>2, Passing
    <3> QED
      BY <1>6, <2>1, <3>2, <3>3 DEF pace
  <2>2. CASE ~(Due > now)
    BY <1>6, <2>2 DEF pace, Due
  <2> QED
    BY <2>1, <2>2
<1> QED
  BY <1>1, <1>2, <1>3, <1>4, <1>5, <1>6 DEF Next

LEMMA SoundNext == TimeType /\ SoundType /\ [Next]_vars => SoundType'
<1> SUFFICES ASSUME TimeType, SoundType, [Next]_vars PROVE SoundType'
  OBVIOUS
<1>0. now \in Nat /\ pumped \in Nat \union {None} /\ (pumped # None => pumped <= now)
  BY DEF TimeType, SoundType
<1>1. CASE environment \/ loaded \/ frame_begin \/ UNCHANGED vars
  BY <1>1 DEF environment, loaded, frame_begin, vars, sound, time, SoundType
<1>2. CASE retro_run
  <2>1. PICK t \in Nat : Pass(t)
    BY <1>2, PacingAssumption DEF retro_run
  <2>2. now' = now + t /\ buffered' \in Nat /\ dry' \in BOOLEAN
    BY <1>0, <2>1, Passing
  <2>3. calls' = 0 /\ pumped' = pumped
    BY <1>2 DEF retro_run
  <2> QED
    BY <1>0, <2>2, <2>3 DEF SoundType, None
<1>3. CASE audio_callback
  <2>1. PICK before \in CallTimes, after \in CallTimes : now' = now + before + after
    BY <1>3, Calling
  <2>2. buffered' \in Nat /\ dry' \in BOOLEAN
    BY <1>3, Calling
  <2>3. calls' = calls + 1 /\ pumped' = pumped
    BY <1>3 DEF audio_callback
  <2>4. now' >= now
    BY <1>0, <2>1, PacingAssumption
  <2>5. pumped' # None => pumped' <= now'
    BY <1>0, <2>1, <2>3, <2>4, PacingAssumption DEF None
  <2>6. calls' \in Nat
    BY <2>3 DEF SoundType
  <2> QED
    BY <1>0, <2>2, <2>3, <2>5, <2>6 DEF SoundType
<1>4. CASE pump_done
  <2>1. now' = now /\ calls' = calls /\ buffered' = buffered /\ dry' = FALSE
    BY <1>4 DEF pump_done, time
  <2>2. pumped' = now \/ pumped' = None
    BY <1>4 DEF pump_done
  <2>3. pumped' \in Nat \union {None} /\ (pumped' # None => pumped' <= now')
    BY <1>0, <2>1, <2>2
  <2>4. calls' \in Nat /\ buffered' \in Nat
    BY <2>1 DEF SoundType
  <2>5. dry' \in BOOLEAN
    BY <2>1
  <2> QED
    BY <2>3, <2>4, <2>5 DEF SoundType
<1>5. CASE pace
  <2>1. calls' = calls /\ pumped' = pumped
    BY <1>5 DEF pace
  <2>2. CASE Due > now
    <3>1. PICK o \in Nat : Pass(Due - now + o)
      BY <1>5, <2>2, PacingAssumption DEF pace
    <3>2. PICK t \in Nat : t = Due - now + o
      BY <2>2, PacingAssumption DEF Due, TimeType
    <3>3. now' = now + t /\ buffered' \in Nat /\ dry' \in BOOLEAN
      BY <1>0, <3>1, <3>2, Passing
    <3> QED
      BY <1>0, <2>1, <3>3 DEF SoundType, None
  <2>3. CASE ~(Due > now)
    BY <1>5, <2>3 DEF pace, SoundType
  <2> QED
    BY <2>2, <2>3
<1> QED
  BY <1>1, <1>2, <1>3, <1>4, <1>5 DEF Next
-----------------------------------------------------------------------------
(* A step's effect on the clock and on what is due, as the invariants of   *)
(* the loop see it.                                                        *)
LEMMA FrameBegins ==
  ASSUME TimeType, frame_begin
  PROVE  /\ pc = "loop" /\ pc' = "run" /\ now' = now /\ next' = next /\ last' = now
         /\ starts' = Append(starts, now)
         /\ Len(starts') = Len(starts) + 1 /\ starts'[Len(starts) + 1] = now
         /\ \A i \in 1 .. Len(starts) : starts'[i] = starts[i]
BY DEF frame_begin, Last, TimeType

LEMMA Inside ==
  ASSUME TimeType, SoundType, retro_run \/ audio_callback \/ pump_done
  PROVE  /\ pc \in {"run", "pump"} /\ pc' \in {"pump", "pace"}
         /\ next' = next /\ last' = last /\ starts' = starts /\ now' >= now
<1>1. CASE retro_run
  <2>1. PICK t \in Nat : Pass(t)
    BY <1>1, PacingAssumption DEF retro_run
  <2>2. now' = now + t
    BY <2>1 DEF Pass
  <2> QED
    BY <1>1, <2>2 DEF retro_run, TimeType
<1>2. CASE audio_callback
  <2>1. PICK before \in CallTimes, after \in CallTimes : now' = now + before + after
    BY <1>2, Calling
  <2>2. now' >= now
    BY <2>1, PacingAssumption DEF TimeType
  <2> QED
    BY <1>2, <2>2 DEF audio_callback
<1>3. CASE pump_done
  BY <1>3 DEF pump_done, time, TimeType
<1> QED
  BY <1>1, <1>2, <1>3

LEMMA Paces ==
  ASSUME TimeType, SoundType, pace
  PROVE  /\ pc = "pace" /\ pc' = "loop" /\ last' = last /\ starts' = starts
         /\ now' >= now /\ now' >= next'
         /\ next' >= next + Period /\ next' >= now - FarBehind
<1>1. now \in Nat /\ next \in Nat /\ Period \in Nat /\ FarBehind \in Nat
  BY PacingAssumption DEF TimeType
<1>2. pc = "pace" /\ pc' = "loop" /\ last' = last /\ starts' = starts
  BY DEF pace
<1>3. CASE Due > now
  <2>1. PICK o \in Nat : Pass(Due - now + o)
    BY <1>3, PacingAssumption DEF pace
  <2>2. next' = Due /\ now' = now + (Due - now + o)
    BY <1>3, <2>1 DEF pace, Pass
  <2> QED
    BY <1>1, <1>2, <1>3, <2>2 DEF Due
<1>4. CASE ~(Due > now)
  <2>1. now' = now /\ next' = IF Reset THEN now ELSE Due
    BY <1>4 DEF pace
  <2> QED
    BY <1>1, <1>2, <1>4, <2>1 DEF Due, Reset
<1> QED
  BY <1>3, <1>4

(* Every step is one of these.                                             *)
LEMMA Steps ==
  ASSUME [Next]_vars
  PROVE  Aside \/ loaded \/ frame_begin \/ (retro_run \/ audio_callback \/ pump_done) \/ pace
BY AsideSteps DEF Next

LEMMA LoopNext == TimeType /\ SoundType /\ LoopInv /\ [Next]_vars => LoopInv'
<1> SUFFICES ASSUME TimeType, SoundType, LoopInv, [Next]_vars PROVE LoopInv'
  OBVIOUS
<1>0. now \in Nat /\ starts \in Seq(Nat) /\ Len(starts) \in Nat
      /\ \A i \in 1 .. Len(starts) : starts[i] \in Nat
  BY DEF TimeType
<1>1. CASE Aside
  BY <1>1 DEF Aside, time, LoopInv, InFrame
<1>2. CASE loaded
  BY <1>0, <1>2 DEF loaded, LoopInv, InFrame
<1>3. CASE frame_begin
  BY <1>0, <1>3, FrameBegins DEF LoopInv, InFrame
<1>4. CASE retro_run \/ audio_callback \/ pump_done
  <2>1. now' \in Nat
    BY TimeNext DEF TimeType
  <2>2. \A i \in 1 .. Len(starts') : starts'[i] <= now'
    BY <1>0, <1>4, <2>1, Inside DEF LoopInv
  <2> QED
    BY <1>0, <1>4, <2>2, Inside DEF LoopInv, InFrame
<1>5. CASE pace
  <2>1. now' \in Nat
    BY TimeNext DEF TimeType
  <2>2. \A i \in 1 .. Len(starts') : starts'[i] <= now'
    BY <1>0, <1>5, <2>1, Paces DEF LoopInv
  <2>3. starts' # <<>>
    BY <1>0, <1>5, Paces DEF LoopInv, InFrame
  <2> QED
    BY <1>0, <1>5, <2>2, <2>3, Paces DEF LoopInv, InFrame
<1> QED
  BY <1>1, <1>2, <1>3, <1>4, <1>5, Steps

LEMMA EarlyNext ==
  TimeType /\ SoundType /\ LoopInv /\ EarlyInv /\ [Next]_vars => EarlyInv'
<1> SUFFICES ASSUME TimeType, SoundType, LoopInv, EarlyInv, [Next]_vars PROVE EarlyInv'
  OBVIOUS
<1>0. /\ now \in Nat /\ next \in Nat /\ starts \in Seq(Nat) /\ Len(starts) \in Nat
      /\ \A i \in 1 .. Len(starts) : starts[i] \in Nat
      /\ now' \in Nat /\ next' \in Nat /\ Period \in Nat
  BY TimeNext, PacingAssumption DEF TimeType
<1>1. CASE Aside
  BY <1>1 DEF Aside, time, EarlyInv, InFrame, NeverEarly
<1>2. CASE loaded
  <2>1. starts' = starts /\ starts = <<>> /\ pc' = "loop"
    BY <1>2 DEF loaded, LoopInv
  <2> QED
    BY <2>1 DEF EarlyInv, InFrame, NeverEarly
<1>3. CASE frame_begin
  <2> DEFINE n == Len(starts)
  <2>1. /\ pc = "loop" /\ pc' = "run" /\ next' = next /\ Len(starts') = n + 1
        /\ starts'[n + 1] = now
        /\ \A i \in 1 .. n : starts'[i] = starts[i]
    BY <1>3, FrameBegins
  <2>2. now >= next
    BY <2>1 DEF LoopInv
  <2>3. CASE n = 0
    <3>1. starts = <<>>
      BY <1>0, <2>3
    <3>2. next = now /\ starts'[1] = now /\ Len(starts') = 1
      BY <2>1, <2>3, <3>1 DEF LoopInv
    <3> QED
      BY <1>0, <2>1, <3>2 DEF EarlyInv, InFrame, NeverEarly
  <2>4. CASE n > 0
    <3>1. starts # <<>>
      BY <2>4
    <3>2. next >= starts[1] + n * Period /\ starts'[1] = starts[1]
      BY <1>0, <2>1, <2>4, <3>1 DEF EarlyInv
    <3>3. ASSUME NEW i \in 1 .. n + 1
          PROVE  starts'[i] >= starts'[1] + (i - 1) * Period
      <4>1. CASE i = n + 1
        <5>1. (i - 1) * Period = n * Period
          BY <4>1, <1>0
        <5>2. n * Period \in Nat /\ starts[1] \in Nat
          BY <1>0, <2>4
        <5> QED
          BY <1>0, <2>1, <2>2, <3>2, <4>1, <5>1, <5>2
      <4>2. CASE i # n + 1
        <5>1. i \in 1 .. n
          BY <1>0, <4>2
        <5> QED
          BY <2>1, <3>2, <5>1 DEF EarlyInv, NeverEarly
      <4> QED
        BY <4>1, <4>2
    <3>4. NeverEarly'
      BY <2>1, <3>3 DEF NeverEarly
    <3>5. next' >= starts'[1] + (Len(starts') - 1) * Period
      BY <1>0, <2>1, <3>2
    <3> QED
      BY <2>1, <3>4, <3>5 DEF EarlyInv, InFrame
  <2> QED
    BY <1>0, <2>3, <2>4
<1>4. CASE retro_run \/ audio_callback \/ pump_done
  BY <1>4, Inside DEF EarlyInv, InFrame, NeverEarly
<1>5. CASE pace
  <2> DEFINE n == Len(starts)
  <2>1. pc = "pace" /\ pc' = "loop" /\ starts' = starts /\ next' >= next + Period
    BY <1>5, Paces
  <2>2. n > 0
    BY <2>1 DEF LoopInv, InFrame
  <2>3. next >= starts[1] + (n - 1) * Period
    BY <2>1 DEF EarlyInv, InFrame
  <2>4. (n - 1) * Period = n * Period - Period /\ n * Period \in Nat /\ starts[1] \in Nat
    BY <1>0, <2>2
  <2>5. next' >= starts[1] + n * Period
    BY <1>0, <2>1, <2>3, <2>4
  <2> QED
    BY <2>1, <2>5 DEF EarlyInv, InFrame, NeverEarly
<1> QED
  BY <1>1, <1>2, <1>3, <1>4, <1>5, Steps

(* A place further is a period more.                                       *)
LEMMA OnePlace ==
  ASSUME NEW k \in Int
  PROVE  k * Period \in Int /\ (k + 1) * Period = k * Period + Period
BY PacingAssumption

LEMMA RacesNext ==
  TimeType /\ SoundType /\ LoopInv /\ RacesInv /\ [Next]_vars => RacesInv'
<1> SUFFICES ASSUME TimeType, SoundType, LoopInv, RacesInv, [Next]_vars PROVE RacesInv'
  OBVIOUS
<1>0. /\ now \in Nat /\ next \in Nat /\ starts \in Seq(Nat) /\ Len(starts) \in Nat
      /\ \A i \in 1 .. Len(starts) : starts[i] \in Nat /\ starts[i] <= now
      /\ now' \in Nat /\ next' \in Nat /\ Period \in Nat /\ FarBehind \in Nat
  BY TimeNext, PacingAssumption DEF TimeType, LoopInv
<1> DEFINE n == Len(starts)
<1>1. CASE Aside
  BY <1>1 DEF Aside, time, RacesInv, InFrame, NeverRaces
<1>2. CASE loaded
  <2>1. starts' = starts /\ starts = <<>> /\ pc' = "loop"
    BY <1>2 DEF loaded, LoopInv
  <2> QED
    BY <2>1 DEF RacesInv, InFrame, NeverRaces
<1>3. CASE frame_begin
  <2>1. /\ pc = "loop" /\ pc' = "run" /\ next' = next /\ Len(starts') = n + 1
        /\ starts'[n + 1] = now
        /\ \A i \in 1 .. n : starts'[i] = starts[i]
    BY <1>3, FrameBegins
  <2>2. now >= next
    BY <2>1 DEF LoopInv
  <2>3. \A i \in 1 .. n : next >= starts[i] - FarBehind + (n - i) * Period
    BY <2>1 DEF RacesInv
  <2>4. ASSUME NEW i \in 1 .. n + 1, NEW j \in 1 .. n + 1, i <= j
        PROVE  (j - i) * Period <= starts'[j] - starts'[i] + FarBehind + Period
    <3>1. CASE j # n + 1
      <4>1. i \in 1 .. n /\ j \in 1 .. n
        BY <1>0, <2>4, <3>1
      <4>2. (j - i) * Period <= starts[j] - starts[i] + FarBehind + Period
        BY <2>4, <4>1 DEF RacesInv, NeverRaces
      <4> QED
        BY <2>1, <4>1, <4>2
    <3>2. CASE i = n + 1
      <4>1. (j - i) * Period = 0 /\ starts'[j] = now /\ starts'[i] = now
        BY <1>0, <2>1, <2>4, <3>2
      <4> QED
        BY <1>0, <4>1
    <3>3. CASE i # n + 1 /\ j = n + 1
      <4>1. i \in 1 .. n
        BY <1>0, <3>3
      <4>2. (j - i) * Period = (n - i) * Period + Period /\ (n - i) * Period \in Int
        <5>1. n - i \in Int /\ j - i = (n - i) + 1
          BY <1>0, <3>3
        <5> QED
          BY <5>1, OnePlace
      <4>3. next >= starts[i] - FarBehind + (n - i) * Period
        BY <2>3, <4>1
      <4>4. starts'[j] = now /\ starts'[i] = starts[i] /\ starts[i] \in Nat
        BY <1>0, <2>1, <3>3, <4>1
      <4>5. PICK p \in Int : p = (n - i) * Period
        BY <4>2
      <4>6. next >= starts[i] - FarBehind + p /\ (j - i) * Period = p + Period
        BY <4>2, <4>3, <4>5
      <4>7. p + Period <= now - starts[i] + FarBehind + Period
        <5>1. PICK s \in Nat : s = starts[i]
          BY <4>4
        <5>2. now \in Nat /\ next \in Nat /\ FarBehind \in Nat /\ Period \in Nat
          BY <1>0
        <5>3. next >= s - FarBehind + p
          BY <4>6, <5>1
        <5>4. p + Period <= now - s + FarBehind + Period
          BY <2>2, <5>2, <5>3
        <5> QED
          BY <5>1, <5>4
      <4> QED
        BY <4>4, <4>6, <4>7
    <3> QED
      BY <3>1, <3>2, <3>3
  <2>5. NeverRaces'
    BY <2>1, <2>4 DEF NeverRaces
  <2>6. \A i \in 1 .. Len(starts') - 1 :
          next' >= starts'[i] - FarBehind + (Len(starts') - 1 - i) * Period
    <3> SUFFICES ASSUME NEW i \in 1 .. Len(starts') - 1
                 PROVE  next' >= starts'[i] - FarBehind + (Len(starts') - 1 - i) * Period
      OBVIOUS
    <3>1. i \in 1 .. n /\ Len(starts') - 1 - i = n - i
      BY <1>0, <2>1
    <3>2. next >= starts[i] - FarBehind + (n - i) * Period
      BY <2>3, <3>1
    <3>3. starts'[i] = starts[i] /\ next' = next
      BY <2>1, <3>1
    <3> QED
      BY <3>1, <3>2, <3>3
  <2> QED
    BY <2>1, <2>5, <2>6 DEF RacesInv, InFrame
<1>4. CASE retro_run \/ audio_callback \/ pump_done
  BY <1>4, Inside DEF RacesInv, InFrame, NeverRaces
<1>5. CASE pace
  <2>1. /\ pc = "pace" /\ pc' = "loop" /\ starts' = starts
        /\ next' >= next + Period /\ next' >= now - FarBehind
    BY <1>5, Paces
  <2>2. ASSUME NEW i \in 1 .. n
        PROVE  next' >= starts[i] - FarBehind + (n - i) * Period
    <3>1. CASE i = n
      <4>1. (n - i) * Period = 0
        BY <1>0, <3>1
      <4> QED
        BY <1>0, <2>1, <4>1
    <3>2. CASE i # n
      <4>1. next >= starts[i] - FarBehind + (n - 1 - i) * Period
        <5>1. \A k \in 1 .. n - 1 : next >= starts[k] - FarBehind + (n - 1 - k) * Period
          BY <2>1 DEF RacesInv, InFrame
        <5>2. i \in 1 .. n - 1
          BY <1>0, <3>2
        <5> QED
          BY <5>1, <5>2
      <4>2. (n - i) * Period = (n - 1 - i) * Period + Period /\ (n - 1 - i) * Period \in Int
        <5>1. n - 1 - i \in Int /\ n - i = (n - 1 - i) + 1
          BY <1>0
        <5> QED
          BY <5>1, OnePlace
      <4> QED
        BY <1>0, <2>1, <4>1, <4>2
    <3> QED
      BY <3>1, <3>2
  <2> QED
    BY <2>1, <2>2 DEF RacesInv, InFrame, NeverRaces
<1> QED
  BY <1>1, <1>2, <1>3, <1>4, <1>5, Steps

LEMMA ToldNext ==
  TimeType /\ SoundType /\ LoopInv /\ TimeSinceLastRun /\ [Next]_vars => TimeSinceLastRun'
<1> SUFFICES ASSUME TimeType, SoundType, LoopInv, TimeSinceLastRun, [Next]_vars
             PROVE  TimeSinceLastRun'
  OBVIOUS
<1>1. CASE Aside
  BY <1>1 DEF Aside, time, TimeSinceLastRun
<1>2. CASE loaded \/ retro_run \/ audio_callback \/ pump_done \/ pace
  BY <1>2 DEF loaded, retro_run, audio_callback, pump_done, pace, TimeSinceLastRun
<1>3. CASE frame_begin
  <2> DEFINE n == Len(starts)
  <2>1. /\ n \in Nat /\ Len(starts') = n + 1
        /\ starts'[n + 1] = now
        /\ \A i \in 1 .. n : starts'[i] = starts[i]
    BY <1>3, FrameBegins DEF TimeType
  <2>2. delta' = None \/ delta' = Elapsed
    BY <1>3 DEF frame_begin
  <2>3. ASSUME n + 1 > 1
        PROVE  last = starts'[n]
    <3>1. n \in 1 .. n /\ starts # <<>>
      BY <2>1, <2>3
    <3> QED
      BY <2>1, <3>1 DEF LoopInv
  <2>4. ASSUME n + 1 > 1, delta' # None
        PROVE  LET passed == starts'[n + 1] - starts'[n]
               IN  delta' = IF passed > 0 THEN passed ELSE Reference
    BY <2>1, <2>2, <2>3, <2>4 DEF Elapsed
  <2>5. Len(starts') - 1 = n
    BY <2>1
  <2> QED
    BY <2>1, <2>4, <2>5 DEF TimeSinceLastRun
<1> QED
  BY <1>1, <1>2, <1>3, Steps

LEMMA InvNext == IInv /\ [Next]_vars => IInv'
BY TimeNext, SoundNext, LoopNext, EarlyNext, RacesNext, ToldNext DEF IInv

LEMMA InvAlways == Spec => []IInv
BY InitInv, InvNext, PTL DEF Spec
-----------------------------------------------------------------------------
(* The n-th frame starts n - 1 periods after the first, or later.          *)
THEOREM FramesAreNotEarly == Spec => []NeverEarly
<1>1. IInv => NeverEarly
  BY DEF IInv, EarlyInv
<1> QED
  BY <1>1, InvAlways, PTL

(* No stretch of frames takes less time than it lasts, but for FarBehind   *)
(* and one period.                                                         *)
THEOREM FramesDoNotRace == Spec => []NeverRaces
<1>1. IInv => NeverRaces
  BY DEF IInv, RacesInv
<1> QED
  BY <1>1, InvAlways, PTL

(* The core is told the time since the frame before, and never none.       *)
THEOREM CoreToldTheTime == Spec => []TimeSinceLastRun
<1>1. IInv => TimeSinceLastRun
  BY DEF IInv
<1> QED
  BY <1>1, InvAlways, PTL
-----------------------------------------------------------------------------
(* A core each of whose callbacks writes m frames more than the host plays *)
(* while it runs, where the calls of one pump are enough for what is kept  *)
(* ahead, and a ring with room for that.                                   *)
Enough(m) ==
  /\ \A n \in Sounds, before, after \in CallTimes : n >= m + (before + after) * PlayRate
  /\ MaxCalls * m >= Ahead
  /\ Room >= Ahead /\ \A after \in CallTimes : Room >= Ahead + after * PlayRate

(* What the host plays of a ring that holds what is kept ahead.            *)
LEMMA PlaysOn ==
  ASSUME NEW level \in Nat, NEW t \in Nat, NEW used \in Nat, NEW gone \in Nat,
         gone = t * PlayRate, used + gone <= Ahead, level >= Ahead - used
  PROVE  ~Short(level, t) /\ Left(level, t) \in Nat
         /\ Left(level, t) >= Ahead - (used + gone)
<1>1. Ahead \in Nat
  BY PacingAssumption
<1>2. ~(level < gone)
  BY <1>1
<1>3. Left(level, t) = IF level > gone THEN level - gone ELSE 0
  BY DEF Left
<1>4. Left(level, t) \in Nat /\ Left(level, t) >= Ahead - (used + gone)
  BY <1>1, <1>2, <1>3
<1> QED
  BY <1>2, <1>4 DEF Short

(* Time passing takes from what is ahead just what it adds to the used.    *)
LEMMA Playing ==
  ASSUME SoundType, TimeType, NEW t \in Nat, Pass(t),
         pumped # None, (now' - pumped) * PlayRate <= Ahead,
         (now - pumped) * PlayRate <= Ahead =>
           ~dry /\ buffered >= Ahead - (now - pumped) * PlayRate
  PROVE  ~dry' /\ buffered' >= Ahead - (now' - pumped) * PlayRate
<1>1. /\ now \in Nat /\ pumped \in Nat /\ pumped <= now /\ buffered \in Nat
      /\ PlayRate \in Nat /\ Ahead \in Nat
  BY PacingAssumption DEF SoundType, TimeType
<1>2. PICK gone \in Nat : gone = t * PlayRate
  BY <1>1
<1>3. PICK used \in Nat : used = (now - pumped) * PlayRate
  BY <1>1
<1>4. (now' - pumped) * PlayRate = used + gone
  <2>1. now' - pumped = (now - pumped) + t /\ now - pumped \in Int
    BY <1>1 DEF Pass
  <2>2. ((now - pumped) + t) * PlayRate = (now - pumped) * PlayRate + t * PlayRate
    BY <1>1, <2>1
  <2> QED
    BY <1>2, <1>3, <2>1, <2>2
<1>5. used + gone <= Ahead
  BY <1>4
<1>6. ~dry /\ buffered >= Ahead - used
  BY <1>1, <1>2, <1>3, <1>5
<1>7. ~Short(buffered, t) /\ Left(buffered, t) >= Ahead - (used + gone)
  BY <1>1, <1>2, <1>5, <1>6, PlaysOn
<1>8. ~dry'
  BY <1>6, <1>7, Zenon DEF Pass
<1> QED
  BY <1>4, <1>7, <1>8 DEF Pass

LEMMA AheadNext ==
  ASSUME NEW m \in Nat, Enough(m), TimeType, SoundType, AheadInv(m), [Next]_vars
  PROVE  AheadInv(m)'
<1> DEFINE Used == (now - pumped) * PlayRate
           Kept == pumped # None /\ Used <= Ahead => ~dry /\ buffered >= Ahead - Used
           Filled == pc = "pump" => buffered >= Ahead \/ buffered >= calls * m
<1>0. /\ now \in Nat /\ buffered \in Nat /\ calls \in Nat /\ Ahead \in Nat /\ Room \in Nat
      /\ PlayRate \in Nat /\ MaxCalls \in Nat
  BY PacingAssumption DEF TimeType, SoundType
<1>a. Kept /\ Filled
  BY DEF AheadInv
<1>b. SUFFICES Kept' /\ Filled'
  BY DEF AheadInv
<1>1. CASE environment \/ loaded \/ frame_begin \/ UNCHANGED vars
  <2>1. /\ now' = now /\ pumped' = pumped /\ dry' = dry /\ buffered' = buffered
        /\ calls' = calls /\ (pc' = "pump" => pc = "pump")
    BY <1>1 DEF environment, loaded, frame_begin, vars, time, sound
  <2> QED
    BY <1>a, <2>1
<1>2. CASE retro_run
  <2>1. PICK t \in Nat : Pass(t)
    BY <1>2, PacingAssumption DEF retro_run
  <2>2. pumped' = pumped /\ calls' = 0
    BY <1>2 DEF retro_run
  <2>3. Kept'
    BY <1>a, <2>1, <2>2, Playing
  <2>4. buffered' >= calls' * m
    <3>1. buffered' \in Nat
      BY <1>0, <2>1, Passing
    <3> QED
      BY <2>2, <3>1
  <2> QED
    BY <2>3, <2>4
<1>3. CASE audio_callback
  <2>1. PICK before \in CallTimes, after \in CallTimes, n \in Sounds, filled \in Nat :
          /\ filled = Written(Left(buffered, before), n)
          /\ Left(buffered, before) \in Nat
          /\ now' = now + before + after
          /\ buffered' = Left(filled, after) /\ buffered' \in Nat
          /\ dry' = (dry \/ Short(buffered, before) \/ Short(filled, after))
    BY <1>3, Calling
  <2>2. before \in Nat /\ after \in Nat /\ n \in Nat
    BY PacingAssumption
  <2>3. pumped' = pumped /\ calls' = calls + 1 /\ pc = "pump" /\ pc' = pc
    BY <1>3 DEF audio_callback
  <2>4. PICK first \in Nat, second \in Nat :
          first = before * PlayRate /\ second = after * PlayRate
    BY <1>0, <2>2
  <2>5. (before + after) * PlayRate = first + second
    BY <1>0, <2>2, <2>4
  <2>6. PICK level \in Nat : level = Left(buffered, before)
    BY <2>1
  <2>7. filled = IF level + n > Room THEN Room ELSE level + n
    BY <2>1, <2>6 DEF Written
  <2>8. level = IF buffered > first THEN buffered - first ELSE 0
    BY <2>4, <2>6 DEF Left
  <2>9. buffered' = IF filled > second THEN filled - second ELSE 0
    BY <2>1, <2>4 DEF Left
  <2>10. n >= m + (first + second)
    BY <2>5 DEF Enough
  <2>11. Room >= Ahead + second /\ Room >= Ahead
    BY <2>4 DEF Enough
  <2>12. Kept'
    <3> SUFFICES ASSUME pumped # None, (now' - pumped) * PlayRate <= Ahead
                 PROVE  ~dry' /\ buffered' >= Ahead - (now' - pumped) * PlayRate
      BY <2>3
    <3>1. pumped \in Nat /\ pumped <= now
      BY DEF SoundType
    <3>2. PICK used \in Nat : used = Used
      BY <1>0, <3>1
    <3>3. (now' - pumped) * PlayRate = (used + first) + second
      <4>1. now' - pumped = (now - pumped) + (before + after) /\ now - pumped \in Int
        BY <1>0, <2>1, <2>2, <3>1
      <4>2. ((now - pumped) + (before + after)) * PlayRate
              = (now - pumped) * PlayRate + (before + after) * PlayRate
        BY <1>0, <2>2, <4>1
      <4>3. (now' - pumped) * PlayRate = used + (first + second)
        BY <2>5, <3>2, <4>1, <4>2
      <4> QED
        BY <4>3
    <3>4. (used + first) + second <= Ahead /\ used + first <= Ahead
      BY <1>0, <3>3
    <3>5. ~dry /\ buffered >= Ahead - used
      BY <1>0, <1>a, <3>2, <3>4
    <3>6. ~Short(buffered, before) /\ level >= Ahead - (used + first)
      BY <1>0, <2>2, <2>4, <2>6, <3>4, <3>5, PlaysOn
    <3>7. filled >= Ahead - (used + first)
      BY <1>0, <2>2, <2>7, <2>11, <3>6
    <3>8. PICK sofar \in Nat : sofar = used + first
      OBVIOUS
    <3>9. ~Short(filled, after) /\ Left(filled, after) >= Ahead - (sofar + second)
      BY <2>2, <2>4, <3>4, <3>7, <3>8, PlaysOn
    <3>10. ~dry'
      BY <2>1, <3>5, <3>6, <3>9, Zenon
    <3> QED
      BY <2>1, <3>3, <3>8, <3>9, <3>10
  <2>13. Filled'
    <3>1. PICK k \in Nat : k = calls * m
      BY <1>0
    <3>2. calls' * m = k + m
      BY <1>0, <2>3, <3>1
    <3>3. buffered >= Ahead \/ buffered >= k
      BY <1>a, <2>3, <3>1
    <3>4. buffered < Ahead
      BY <1>0, <1>3 DEF audio_callback, Wanting
    <3>5. buffered >= k
      BY <1>0, <3>3, <3>4
    <3>6. level >= k - first
      BY <1>0, <2>8, <3>5
    <3>7. filled >= Ahead + second \/ filled >= (k + m) + second
      BY <1>0, <2>2, <2>7, <2>10, <2>11, <3>6
    <3>8. buffered' >= Ahead \/ buffered' >= k + m
      BY <1>0, <2>9, <3>7
    <3> QED
      BY <3>2, <3>8
  <2> QED
    BY <2>12, <2>13
<1>4. CASE pump_done
  <2>1. /\ pc = "pump" /\ pc' = "pace" /\ now' = now /\ buffered' = buffered /\ dry' = FALSE
        /\ ~(audio /\ Wanting)
        /\ pumped' = IF audio THEN now ELSE None
    BY <1>4 DEF pump_done, time
  <2>2. CASE audio
    <3>1. pumped' = now /\ ~Wanting
      BY <2>1, <2>2, Zenon
    <3>2. buffered >= Ahead
      <4>1. calls >= MaxCalls => calls * m >= MaxCalls * m
        BY <1>0
      <4>2. PICK k \in Nat, l \in Nat : k = calls * m /\ l = MaxCalls * m
        BY <1>0
      <4>3. l >= Ahead
        BY <4>2 DEF Enough
      <4>4. buffered >= Ahead \/ buffered >= k
        BY <1>a, <2>1, <4>2
      <4>5. calls >= MaxCalls \/ buffered >= Ahead
        BY <1>0, <3>1 DEF Wanting
      <4> QED
        BY <1>0, <4>1, <4>2, <4>3, <4>4, <4>5
    <3>3. (now' - pumped') * PlayRate = 0
      BY <1>0, <2>1, <3>1
    <3>4. ~dry' /\ buffered' >= Ahead - 0
      BY <1>0, <2>1, <3>2
    <3> QED
      BY <2>1, <3>3, <3>4
  <2>3. CASE ~audio
    <3>1. pumped' = None
      BY <2>1, <2>3, Zenon
    <3> QED
      BY <2>1, <3>1
  <2> QED
    BY <2>2, <2>3
<1>5. CASE pace
  <2>1. pumped' = pumped /\ pc' = "loop"
    BY <1>5 DEF pace
  <2>2. CASE Due > now
    <3>1. PICK o \in Nat : Pass(Due - now + o)
      BY <1>5, <2>2, PacingAssumption DEF pace
    <3>2. PICK t \in Nat : t = Due - now + o
      BY <2>2, PacingAssumption DEF Due, TimeType
    <3>3. Kept'
      BY <1>a, <2>1, <3>1, <3>2, Playing
    <3> QED
      BY <2>1, <3>3
  <2>3. CASE ~(Due > now)
    <3>1. now' = now /\ buffered' = buffered /\ dry' = dry
      BY <1>5, <2>3 DEF pace
    <3> QED
      BY <1>a, <2>1, <3>1
  <2> QED
    BY <2>2, <2>3
<1> QED
  BY <1>1, <1>2, <1>3, <1>4, <1>5 DEF Next

(* The host, which plays all the time, does not run dry while what is kept *)
(* ahead of it lasts, with a core whose sixteen calls bring enough beyond  *)
(* what is played during them and a ring that holds it.                    *)
THEOREM SoundStaysAhead ==
  ASSUME NEW m \in Nat, Enough(m)
  PROVE  Spec => []KeptAhead
<1>1. Init => TimeType /\ SoundType
  BY InitInv DEF IInv
<1>2. Init => AheadInv(m)
  BY DEF Init, AheadInv, None
<1>3. TimeType /\ SoundType /\ AheadInv(m) /\ [Next]_vars => (TimeType /\ SoundType /\ AheadInv(m))'
  BY Enough(m), TimeNext, SoundNext, AheadNext
<1>4. AheadInv(m) => KeptAhead
  BY DEF AheadInv, KeptAhead
<1> QED
  BY <1>1, <1>2, <1>3, <1>4, PTL DEF Spec
=============================================================================
