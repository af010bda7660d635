------------------------------ MODULE CoreContract -----------------------------
(***************************************************************************)
(* What libretro.h promises a core of the order in which a frontend calls  *)
(* it: nothing about threads, time or why a frontend calls, only what must *)
(* have happened before.  Environment's core_main is shown to keep it.     *)
(***************************************************************************)
EXTENDS Libretro

CONSTANT
  SetStateFirst   \* TRUE, or FALSE to leave out the promise about an audio
                  \* callback's set_state: no call before set_state(true)

VARIABLES
  inside,      \* the function or callback of the core that runs, or "none"
  given,       \* the callbacks the core was given
  library,     \* "fresh", "initialised", "loaded", "gone"
  registered,  \* what the core registered and has not taken back
  active,      \* its audio callback's set_state was last called with true
  timed        \* it was told of the time since its last retro_run

vars == <<inside, given, library, registered, active, timed>>

Init ==
  /\ inside = "none" /\ given = {} /\ library = "fresh"
  /\ registered = {} /\ active = FALSE /\ timed = FALSE
-----------------------------------------------------------------------------
Enter(call) ==
  /\ inside = "none"
  /\ inside' = call
  /\ UNCHANGED <<given, library, registered, active, timed>>

(* The setters may come in any order, before the core is gone.             *)
Give(setter) == library # "gone" /\ Enter(setter)

(* retro_set_environment is guaranteed to be called before retro_init; the *)
(* others before the first retro_run.                                      *)
Initialise == library = "fresh" /\ "retro_set_environment" \in given /\ Enter("retro_init")

LoadGame == library = "initialised" /\ Enter("retro_load_game")

(* Only after retro_load_game() has successfully completed.                *)
GetAvInfo == library = "loaded" /\ Enter("retro_get_system_av_info")

(* The frame-time callback is called right before retro_run, every frame.  *)
RunFrame ==
  /\ library = "loaded" /\ given = Setters
  /\ "frame_time" \in registered => timed
  /\ Enter("retro_run")

(* "Audio callback will not be called until set_state has been called with *)
(* true.  Initial state is false (inactive)."                              *)
SetState(enabled) ==
  /\ inside = "none" /\ "audio" \in registered
  /\ active' = enabled
  /\ UNCHANGED <<inside, given, library, registered, timed>>

CallBack(callback) ==
  /\ library = "loaded" /\ callback \in registered
  /\ SetStateFirst /\ callback = "audio" => active
  /\ Enter(callback)

(* retro_unload_game is called before retro_deinit, and once for a game.   *)
UnloadGame == library = "loaded" /\ Enter("retro_unload_game")
Deinitialise == library = "initialised" /\ Enter("retro_deinit")

(* The core registers a callback, or takes one back, from inside a call.   *)
Register ==
  /\ inside # "none"
  /\ registered' \in SUBSET Callbacks
  /\ active' = (active /\ "audio" \in registered')
  /\ UNCHANGED <<inside, given, library, timed>>

Return ==
  /\ inside # "none"
  /\ inside' = "none"
  /\ given' = given \union ({inside} \intersect Setters)
  /\ library' \in CASE inside \in {"retro_init", "retro_unload_game"} -> {"initialised"}
                    [] inside = "retro_load_game" -> {"initialised", "loaded"}
                    [] inside = "retro_deinit" -> {"gone"}
                    [] OTHER -> {library}
  /\ timed' = CASE inside = "frame_time" -> TRUE
                [] inside = "retro_run" -> FALSE
                [] OTHER -> timed
  /\ UNCHANGED <<registered, active>>

Next ==
  \/ \E setter \in Setters : Give(setter)
  \/ Initialise \/ LoadGame \/ GetAvInfo \/ RunFrame
  \/ \E enabled \in BOOLEAN : SetState(enabled)
  \/ \E callback \in Callbacks : CallBack(callback)
  \/ UnloadGame \/ Deinitialise
  \/ Register \/ Return

Spec == Init /\ [][Next]_vars
=============================================================================
