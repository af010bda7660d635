------------------------------ MODULE FramePacing ------------------------------
(***************************************************************************)
(* The frame loop of core_main in time: when a frame starts, what time the *)
(* core is told has passed, how much sound is kept ahead of the host, and  *)
(* what a slow frame does to the ones after it.  CoreSession has the same  *)
(* loop without time.                                                      *)
(*                                                                         *)
(* Time is in ticks of the clock (microseconds in the code) and passes in  *)
(* what takes long: retro_run, the audio callbacks and the sleep.  The     *)
(* host is another process: however the time passes it plays PlayRate      *)
(* frames of sound a tick while the ring has any.  A core with an audio    *)
(* callback writes its sound in the callback; one without writes it in     *)
(* retro_run, and the pump is not for it.                                  *)
(***************************************************************************)
EXTENDS Integers, Sequences

CONSTANTS
  Period,       \* 1000000 / g_fps
  FarBehind,    \* 250000 microseconds
  RunTimes,     \* how long a retro_run may take
  Oversleeps,   \* how much longer than asked a sleep may take
  Reference,    \* g_frame_time_callback.reference
  Ahead,        \* g_ring_rate / 20: frames of sound kept ahead of the host
  Room,         \* frames the ring holds
  Sounds,       \* frames of sound one audio callback may write
  CallTimes,    \* how long it may take before it writes them, and after
  MaxCalls,     \* audio callbacks a frame may make (16)
  PlayRate,     \* frames of sound the host plays in a tick
  MaxFrames     \* bound: frames run in a behaviour

ASSUME PacingAssumption ==
  /\ Period \in Nat \ {0} /\ FarBehind \in Nat /\ Reference \in Nat
  /\ RunTimes \subseteq Nat /\ Oversleeps \subseteq Nat
  /\ Ahead \in Nat /\ Room \in Nat /\ Sounds \subseteq Nat /\ CallTimes \subseteq Nat
  /\ MaxCalls \in Nat /\ PlayRate \in Nat /\ MaxFrames \in Nat

VARIABLES
  now,          \* the clock
  next, last,   \* core_main's variables of these names
  pc,           \* "load", "loop", "run" (in retro_run), "pump", "pace"
  calls,        \* i: audio callbacks made in this frame
  frame_time,   \* g_frame_time_callback is set
  audio,        \* g_audio_callback is set
  delta,        \* what the frame-time callback was told for this frame, or None
  buffered,     \* frames of sound in the ring
  starts,       \* history: when each frame started
  pumped,       \* history: when the pump last ended with a callback set, or None
  dry           \* history: the host had too little to play since then

time   == <<now, next, last, starts, delta>>
core   == <<frame_time, audio>>
sound  == <<calls, buffered, pumped, dry>>
vars   == <<time, core, sound, pc>>

None == -1

Init ==
  /\ now = 0 /\ next = 0 /\ last = 0 /\ starts = <<>> /\ delta = None
  /\ frame_time = FALSE /\ audio = FALSE
  /\ calls = 0 /\ buffered = 0 /\ pumped = None /\ dry = FALSE
  /\ pc = "load"
-----------------------------------------------------------------------------
(* RETRO_ENVIRONMENT_SET_FRAME_TIME_CALLBACK and _SET_AUDIO_CALLBACK, from *)
(* retro_load_game or from retro_run.                                      *)
environment ==
  /\ pc \in {"load", "run"}
  /\ \/ frame_time' = ~frame_time /\ UNCHANGED audio
     \/ audio' = ~audio /\ UNCHANGED frame_time
  /\ UNCHANGED <<time, sound, pc>>

(* retro_load_game is over: next and last are the time now.                *)
loaded ==
  /\ pc = "load"
  /\ next' = now /\ last' = now
  /\ pc' = "loop"
  /\ UNCHANGED <<now, starts, delta, core, sound>>

(* Time passes, and the host plays of what the ring holds.                 *)
Left(level, t)  == IF level > t * PlayRate THEN level - t * PlayRate ELSE 0
Short(level, t) == level < t * PlayRate

Pass(t) ==
  /\ now' = now + t
  /\ buffered' = Left(buffered, t)
  /\ dry' = (dry \/ Short(buffered, t))

Elapsed == IF now - last > 0 THEN now - last ELSE Reference

Last_OnlyTold == IF frame_time THEN now ELSE last
Last == now

(* The head of the loop: the core is told the time since the last frame.   *)
frame_begin ==
  /\ pc = "loop" /\ Len(starts) < MaxFrames
  /\ delta' = IF frame_time THEN Elapsed ELSE None
  /\ last' = Last
  /\ starts' = Append(starts, now)
  /\ pc' = "run"
  /\ UNCHANGED <<now, next, core, sound>>

retro_run ==
  /\ pc = "run"
  /\ \E t \in RunTimes : Pass(t)
  /\ calls' = 0
  /\ pc' = "pump"
  /\ UNCHANGED <<next, last, starts, delta, core, pumped>>

Wanting_Once == calls < 1 /\ buffered < Ahead
Wanting == calls < MaxCalls /\ buffered < Ahead

Written(level, n) == IF level + n > Room THEN Room ELSE level + n

(* One audio callback, called for the level the ring has at that moment.   *)
(* The host plays before the core writes and after; what the ring has no   *)
(* room for is dropped.  (A callback that takes itself back: Environment.) *)
audio_callback ==
  /\ pc = "pump" /\ audio /\ Wanting
  /\ \E before, after \in CallTimes, n \in Sounds :
       LET filled == Written(Left(buffered, before), n)
       IN  /\ now' = now + before + after
           /\ buffered' = Left(filled, after)
           /\ dry' = (dry \/ Short(buffered, before) \/ Short(filled, after))
  /\ calls' = calls + 1
  /\ UNCHANGED <<next, last, starts, delta, core, pc, pumped>>

pump_done ==
  /\ pc = "pump" /\ ~(audio /\ Wanting)
  /\ pumped' = IF audio THEN now ELSE None
  /\ dry' = FALSE
  /\ pc' = "pace"
  /\ UNCHANGED <<time, core, calls, buffered>>

Due_Kept == next
Due == next + Period

Reset_Never == FALSE
Reset == now - Due > FarBehind

(* The end of the loop: sleep until the next frame is due; a loop that     *)
(* fell far behind takes now as due.                                       *)
pace ==
  /\ pc = "pace"
  /\ IF Due > now
     THEN /\ next' = Due
          /\ \E o \in Oversleeps : Pass(Due - now + o)
     ELSE /\ next' = IF Reset THEN now ELSE Due
          /\ UNCHANGED <<now, buffered, dry>>
  /\ pc' = "loop"
  /\ UNCHANGED <<last, starts, delta, core, calls, pumped>>

Next ==
  \/ environment \/ loaded
  \/ frame_begin \/ retro_run \/ audio_callback \/ pump_done \/ pace

Spec == Init /\ [][Next]_vars
-----------------------------------------------------------------------------
(* The game never races: whatever slow frames and late wake-ups came       *)
(* before, no stretch of frames is run in less time than they last, but    *)
(* for what the loop may have been behind (the reset past a quarter of a   *)
(* second, "do not race to catch up").                                     *)
NeverRaces ==
  \A i, j \in 1 .. Len(starts) :
    i <= j => (j - i) * Period <= starts[j] - starts[i] + FarBehind + Period

(* The game never runs ahead of its own speed: no catching up brings a     *)
(* frame earlier than its place in a run without any delay.                *)
NeverEarly ==
  \A n \in 1 .. Len(starts) : starts[n] >= starts[1] + (n - 1) * Period

(* The core is told the time since the frame before, however late it asks  *)
(* for it (libretro.h: time spent since last invocation of retro_run), and *)
(* never that no time passed.                                              *)
TimeSinceLastRun ==
  LET n == Len(starts)
      passed == starts[n] - starts[n - 1]
  IN  pc = "run" /\ n > 1 /\ delta # None =>
        delta = IF passed > 0 THEN passed ELSE Reference

(* The sound is kept ahead of the host, although the host plays while the  *)
(* callbacks run: after a frame's pump it does not run dry for as long as  *)
(* Ahead frames of sound last.                                             *)
KeptAhead ==
  pumped # None /\ (now - pumped) * PlayRate <= Ahead => ~dry

=============================================================================
