------------------------------ MODULE Environment ------------------------------
(***************************************************************************)
(* The frontend as the core meets it (enginehost_libretro.c): core_main's  *)
(* calls of the core, from retro_set_environment to retro_deinit, and      *)
(* environment(), which the core calls from inside any of them.  The core  *)
(* is any core that keeps to libretro.h.                                   *)
(*                                                                         *)
(* What only other components read is left to them: pictures and the end   *)
(* of the thread to CoreSession, the clock to FramePacing, sound to Sound. *)
(* Of an answer, what a property tells apart is kept.                      *)
(***************************************************************************)
EXTENDS Options

CONSTANTS
  Cores     \* what cores there are: sets of the commands each may send

ASSUME EnvironmentAssumption == Cores \subseteq SUBSET DOMAIN Commands

VARIABLES
  core_pc,        \* "start" (native_start), a call of core_main, "head" of the
                  \* frame loop, "pump" after retro_run, "pumping" in its loop,
                  \* "ended", or "crashed" with the whole process
  inside,         \* core_main is inside the call core_pc names
  given, library, \* history: callbacks the core has, and how far it was brought
  timed,          \* history: told of the time since the last retro_run
  g_callbacks,    \* the callbacks registered: g_audio_callback, ...
  g_pixel_format,
  agreed,         \* history: the format the core draws in
  g_shutdown, g_stop,
  sends,          \* the commands this core sends
  version         \* history: the options version the core was told, 0 before

mainVars  == <<core_pc, inside, given, library, timed>>
knownVars == <<g_callbacks, g_pixel_format, agreed, g_shutdown, version>>
vars == <<mainVars, knownVars, g_stop, sends, optionVars>>

Init ==
  /\ OptionsInit
  /\ sends \in Cores
  /\ core_pc = "start" /\ inside = FALSE
  /\ given = {} /\ library = "fresh" /\ timed = FALSE
  /\ g_callbacks = {}
  /\ g_pixel_format = "0RGB1555" /\ agreed = "0RGB1555"
  /\ g_shutdown = FALSE /\ g_stop = FALSE
  /\ version = 0
-----------------------------------------------------------------------------
(* native_start records the options and makes the core's thread.           *)
native_start_options ==
  /\ core_pc = "start"
  /\ \E key \in Keys : native_start_option(key)
  /\ UNCHANGED <<mainVars, knownVars, g_stop, sends>>

native_start ==
  /\ core_pc = "start" /\ pending = {}
  /\ core_pc' = "retro_set_environment"
  /\ UNCHANGED <<inside, given, library, timed, knownVars, g_stop, sends, optionVars>>

native_stop ==
  /\ core_pc \notin {"start", "crashed"}
  /\ g_stop' = TRUE
  /\ UNCHANGED <<mainVars, knownVars, sends, optionVars>>
-----------------------------------------------------------------------------
(* core_main: the call that follows each call.                             *)
KeepRunning == ~g_stop /\ ~g_shutdown

AfterLoad_RunsAnyway(ok) == "retro_get_system_av_info"
AfterLoad(ok) == IF ok THEN "retro_get_system_av_info" ELSE "retro_deinit"

After(call, ok) ==
  CASE call = "retro_set_environment"        -> "retro_set_video_refresh"
    [] call = "retro_set_video_refresh"      -> "retro_set_audio_sample"
    [] call = "retro_set_audio_sample"       -> "retro_set_audio_sample_batch"
    [] call = "retro_set_audio_sample_batch" -> "retro_set_input_poll"
    [] call = "retro_set_input_poll"         -> "retro_set_input_state"
    [] call = "retro_set_input_state"        -> "retro_init"
    [] call = "retro_init"                   -> "retro_load_game"
    [] call = "retro_load_game"              -> AfterLoad(ok)
    [] call = "retro_get_system_av_info"     -> "head"
    [] call = "frame_time"                   -> "retro_run"
    [] call = "retro_run"                    -> "pump"
    [] call = "audio"                        -> "pumping"
    [] call = "retro_unload_game"            -> "retro_deinit"
    [] call = "retro_deinit"                 -> "ended"

Enter ==
  /\ core_pc \in Calls \union Callbacks /\ ~inside
  /\ core_pc \in Callbacks => core_pc \in g_callbacks
  /\ inside' = TRUE
  /\ UNCHANGED <<core_pc, given, library, timed, knownVars, g_stop, sends, optionVars>>

Return ==
  /\ inside
  /\ inside' = FALSE
  /\ \E ok \in BOOLEAN :
       /\ core_pc # "retro_load_game" => ok
       /\ core_pc' = After(core_pc, ok)
       /\ library' = CASE core_pc \in {"retro_init", "retro_unload_game"} -> "initialised"
                       [] core_pc = "retro_load_game" /\ ok -> "loaded"
                       [] core_pc = "retro_deinit" -> "gone"
                       [] OTHER -> library
  /\ given' = given \union ({core_pc} \intersect Setters)
  /\ timed' = ((timed \/ core_pc = "frame_time") /\ core_pc # "retro_run")
  /\ UNCHANGED <<knownVars, g_stop, sends, optionVars>>

(* The head of the frame loop, and the tests between its calls.            *)
Goto(from, to) ==
  /\ core_pc = from /\ core_pc' = to
  /\ UNCHANGED <<inside, given, library, timed, knownVars, g_stop, sends, optionVars>>

FirstOfFrame_Untimed == "retro_run"
FirstOfFrame == IF "frame_time" \in g_callbacks THEN "frame_time" ELSE "retro_run"

frame_begin == KeepRunning /\ Goto("head", FirstOfFrame)
loop_over   == ~KeepRunning /\ Goto("head", "retro_unload_game")

(* Whether there is an audio callback is asked once, before the pump's     *)
(* loop; how often it is called is in FramePacing.  Where it has taken     *)
(* itself back the next call is one of NULL.                               *)
pump_begin == Goto("pump", IF "audio" \in g_callbacks THEN "pumping" ELSE "head")
pump_again == Goto("pumping", "audio")
pump_end   == Goto("pumping", "head")
calls_null == ~inside /\ "audio" \notin g_callbacks /\ Goto("audio", "crashed")
-----------------------------------------------------------------------------
(* environment(): which of its cases a command selects.  The switch is on  *)
(* the command without its experimental bit.                               *)
Masked_SixBits(n) == n % 64
Masked(n) == n % EXPERIMENTAL

Acknowledged ==
  {"GET_LOG_INTERFACE", "GET_SYSTEM_DIRECTORY", "GET_SAVE_DIRECTORY",
   "GET_CORE_ASSETS_DIRECTORY", "GET_CAN_DUPE", "SET_SUPPORT_NO_GAME",
   "SET_PERFORMANCE_LEVEL", "SET_INPUT_DESCRIPTORS", "SET_CONTROLLER_INFO",
   "SET_SUBSYSTEM_INFO", "SET_MEMORY_MAPS", "SET_SUPPORT_ACHIEVEMENTS",
   "SET_CORE_OPTIONS_DISPLAY", "SET_ROTATION", "SET_SYSTEM_AV_INFO", "SET_GEOMETRY",
   "SET_MESSAGE", "GET_INPUT_BITMASKS", "GET_LANGUAGE", "GET_AUDIO_VIDEO_ENABLE"}
Handled ==
  Acknowledged \union
  {"SET_PIXEL_FORMAT", "SHUTDOWN", "SET_AUDIO_CALLBACK", "SET_FRAME_TIME_CALLBACK",
   "SET_KEYBOARD_CALLBACK", "SET_VARIABLES", "GET_CORE_OPTIONS_VERSION",
   "SET_CORE_OPTIONS", "SET_CORE_OPTIONS_INTL", "SET_CORE_OPTIONS_V2",
   "SET_CORE_OPTIONS_V2_INTL", "GET_VARIABLE", "GET_VARIABLE_UPDATE"}

(* A case's label: every experimental command's is masked, but for one.    *)
Label(case) ==
  IF case = "GET_AUDIO_VIDEO_ENABLE" THEN Number(case) ELSE Masked(Number(case))

Selected ==
  [command \in DOMAIN Commands |->
     {case \in Handled : Label(case) = Masked(Number(command))}]
-----------------------------------------------------------------------------
(* The cases.  What is asked of the frontend and kept nowhere is answered  *)
(* the same whenever it is asked.                                          *)
Leaves(others) == UNCHANGED <<mainVars, g_stop, sends, others>>

acknowledge == Leaves(<<knownVars, optionVars>>)

(* A format that is none of the three is refused, and nothing is set.      *)
set_pixel_format_Kept(format) ==
  /\ g_pixel_format' = format
  /\ agreed' = IF format \in PixelFormats THEN format ELSE agreed
set_pixel_format(format) ==
  IF format \in PixelFormats
  THEN g_pixel_format' = format /\ agreed' = format
  ELSE UNCHANGED <<g_pixel_format, agreed>>

SetPixelFormat ==
  /\ \E format \in PixelFormats \union {"UNKNOWN"} : set_pixel_format(format)
  /\ Leaves(<<g_callbacks, g_shutdown, version, optionVars>>)

shutdown ==
  /\ g_shutdown' = TRUE
  /\ Leaves(<<g_callbacks, g_pixel_format, agreed, version, optionVars>>)

(* A callback is set, or cleared by data that is NULL or names none, also  *)
(* from inside itself.                                                     *)
set_callback(callback) ==
  /\ g_callbacks' \in {g_callbacks \union {callback}, g_callbacks \ {callback}}
  /\ Leaves(<<g_pixel_format, agreed, g_shutdown, version, optionVars>>)

get_core_options_version ==
  /\ version' = 2
  /\ Leaves(<<g_callbacks, g_pixel_format, agreed, g_shutdown, optionVars>>)

(* What an option command's data holds is up to the core.                  *)
option_command(case) ==
  /\ \/ case = "SET_VARIABLES" /\ option_from_v0
     \/ case = "SET_CORE_OPTIONS" /\ \E d \in Definitions : option_from_v1(d)
     \/ case = "SET_CORE_OPTIONS_V2" /\ \E d \in Definitions : option_from_v2(d)
     \/ /\ case \in {"SET_CORE_OPTIONS_INTL", "SET_CORE_OPTIONS_V2_INTL"}
        /\ option_from_intl
     \/ case = "GET_VARIABLE" /\ \E key \in Keys : get_variable(key)
     \/ case = "GET_VARIABLE_UPDATE" /\ variable_update
  /\ Leaves(knownVars)

Handle(case) ==
  \/ case \in Acknowledged /\ acknowledge
  \/ case = "SET_PIXEL_FORMAT" /\ SetPixelFormat
  \/ case = "SHUTDOWN" /\ shutdown
  \/ case = "SET_AUDIO_CALLBACK" /\ set_callback("audio")
  \/ case = "SET_FRAME_TIME_CALLBACK" /\ set_callback("frame_time")
  \/ case = "SET_KEYBOARD_CALLBACK" /\ set_callback("keyboard")
  \/ case = "GET_CORE_OPTIONS_VERSION" /\ get_core_options_version
  \/ option_command(case)

(* The core sends a command where libretro.h lets it; one that no case     *)
(* takes is refused.                                                       *)
environment(command) ==
  /\ inside /\ core_pc \in Commands[command].in /\ version >= NeedsVersion(command)
  /\ \/ \E case \in Selected[command] : Handle(case)
     \/ Selected[command] = {} /\ Leaves(<<knownVars, optionVars>>)
-----------------------------------------------------------------------------
(* to_argb: the bytes of a pixel, by the format that is set; a value that  *)
(* is none of the formats is read as 0RGB1555.                             *)
Bits(p, low, levels) == (p \div low) % levels
Five(p, low) == LET v == Bits(p, low, 32) IN v * 8 + v \div 4
Six(p, low)  == LET v == Bits(p, low, 64) IN v * 4 + v \div 16

to_argb(format, p) ==
  CASE format = "XRGB8888" ->
         [r |-> Bits(p, 65536, 256), g |-> Bits(p, 256, 256), b |-> Bits(p, 1, 256)]
    [] format = "RGB565" -> [r |-> Five(p, 2048), g |-> Six(p, 32), b |-> Five(p, 1)]
    [] OTHER -> [r |-> Five(p, 1024), g |-> Five(p, 32), b |-> Five(p, 1)]
-----------------------------------------------------------------------------
core_main ==
  \/ Enter \/ Return
  \/ frame_begin \/ loop_over \/ pump_begin \/ pump_again \/ pump_end \/ calls_null

Next ==
  \/ native_start_options \/ native_start \/ native_stop
  \/ core_main
  \/ \E command \in sends : environment(command)

Spec == Init /\ [][Next]_vars
-----------------------------------------------------------------------------
(* Every level of the 16-bit formats, and the first, middle and last ones  *)
(* of the wide one.                                                        *)
Sampled(max) == IF max < 64 THEN 0 .. max ELSE {0, 1, max \div 2, max - 1, max}
Colours(f) ==
  [r : Sampled(Levels[f].r), g : Sampled(Levels[f].g), b : Sampled(Levels[f].b)]

Close(v, max, byte) == 255 * v - max * byte \in (-max) .. max
Keeps ==
  [set \in PixelFormats \union {"UNKNOWN"} |-> [f \in PixelFormats |->
     \A c \in Colours(f) :
       LET bytes == to_argb(set, Pixel(f, c))
       IN  \A channel \in {"r", "g", "b"} :
             Close(c[channel], Levels[f][channel], bytes[channel])]]

(* A colour reaches the host as the core drew it, to within one level of a *)
(* byte: to_argb reads the format the core last was told true for,         *)
(* whatever was refused in between.                                        *)
ColoursKept == Keeps[g_pixel_format][agreed]

(* core_main and environment() keep libretro.h's contract with the core;   *)
(* no line of the code calls an audio callback's set_state.                *)
Contract ==
  INSTANCE CoreContract WITH
    SetStateFirst <- TRUE,
    inside <- IF inside THEN core_pc ELSE "none",
    registered <- g_callbacks,
    active <- FALSE
KeepsContract == Contract!Spec

(* And this is what they keep of it, all but the promise about set_state:  *)
(* nothing runs before retro_init, no frame before a game is loaded, no    *)
(* frame a core with a frame-time callback was not told the time for, no   *)
(* callback a core never registered, retro_unload_game and retro_deinit    *)
(* once each, whatever the core registers and takes back from where.       *)
Order ==
  INSTANCE CoreContract WITH
    SetStateFirst <- FALSE,
    inside <- IF inside THEN core_pc ELSE "none",
    registered <- g_callbacks,
    active <- FALSE
KeepsOrder == Order!Spec

(* Commands differ in their experimental bit too, and one number is shared *)
(* (44); masked, they still select no case but their own.                  *)
OnlyOwnCase ==
  inside => \A command \in sends : Selected[command] \subseteq {command}

(* Every command environment() has a case for is answered by that case,    *)
(* wherever the core may send it from; so it is for all but one, whose     *)
(* label is never met (OthersAnswered in FrontendProofs).                  *)
EveryCaseAnswers ==
  inside => \A command \in sends \intersect Handled :
    core_pc \in Commands[command].in /\ version >= NeedsVersion(command) =>
      command \in Selected[command]
=============================================================================
