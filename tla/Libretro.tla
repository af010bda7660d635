-------------------------------- MODULE Libretro -------------------------------
(***************************************************************************)
(* The libretro interface as libretro.h states it: the functions of a      *)
(* core, the environment commands it may send and when, what a declared    *)
(* option's default is, the pixel formats and the ids of the input         *)
(* devices.  Nothing here moves; CoreContract has the order of the calls,  *)
(* Environment and Controls the frontend.                                  *)
(***************************************************************************)
EXTENDS Integers, Sequences

(* The six callbacks a core is given, and the other functions of it that   *)
(* a frontend which loads one game calls.                                  *)
Setters == {"retro_set_environment", "retro_set_video_refresh",
            "retro_set_audio_sample", "retro_set_audio_sample_batch",
            "retro_set_input_poll", "retro_set_input_state"}
Calls == Setters \union
  {"retro_init", "retro_load_game", "retro_get_system_av_info", "retro_run",
   "retro_unload_game", "retro_deinit"}

(* What a core may register and is called back through.                    *)
Callbacks == {"audio", "frame_time", "keyboard"}
-----------------------------------------------------------------------------
(* Environment commands.  An experimental one has a bit of its own in its  *)
(* number.  `in` is the calls a core may send it from, where the header    *)
(* restricts them.                                                         *)
EXPERIMENTAL == 65536

Anytime == Calls \union Callbacks
OnlySetEnvironment == {"retro_set_environment"}
OnlyLoad           == {"retro_load_game"}
OnlyRun            == {"retro_run"}
InitOrLoad         == {"retro_init", "retro_load_game"}
LoadOrAvInfo       == {"retro_load_game", "retro_get_system_av_info"}
BeforeLoad         == Setters \union {"retro_init"}
BeforeRun          == Calls \ {"retro_run", "retro_unload_game", "retro_deinit"}

Command(n, in) == [n |-> n, in |-> in]
Experiment(n, in) == Command(EXPERIMENTAL + n, in)

Commands1To13 ==
  [SET_ROTATION |-> Command(1, Anytime), GET_OVERSCAN |-> Command(2, Anytime),
   GET_CAN_DUPE |-> Command(3, Anytime), SET_MESSAGE |-> Command(6, Anytime),
   SHUTDOWN |-> Command(7, Anytime), SET_PERFORMANCE_LEVEL |-> Command(8, OnlyLoad),
   GET_SYSTEM_DIRECTORY |-> Command(9, Anytime),
   SET_PIXEL_FORMAT |-> Command(10, LoadOrAvInfo),
   SET_INPUT_DESCRIPTORS |-> Command(11, Anytime),
   SET_KEYBOARD_CALLBACK |-> Command(12, Anytime),
   SET_DISK_CONTROL_INTERFACE |-> Command(13, Anytime)]

Commands14To22 ==
  [SET_HW_RENDER |-> Command(14, OnlyLoad), GET_VARIABLE |-> Command(15, Anytime),
   SET_VARIABLES |-> Command(16, Anytime), GET_VARIABLE_UPDATE |-> Command(17, Anytime),
   SET_SUPPORT_NO_GAME |-> Command(18, OnlySetEnvironment),
   GET_LIBRETRO_PATH |-> Command(19, Anytime),
   SET_FRAME_TIME_CALLBACK |-> Command(21, Anytime),
   SET_AUDIO_CALLBACK |-> Command(22, Anytime)]

(* 30 has an older name too, GET_CONTENT_DIRECTORY.                        *)
Commands23To31 ==
  [GET_RUMBLE_INTERFACE |-> Command(23, InitOrLoad),
   GET_INPUT_DEVICE_CAPABILITIES |-> Command(24, OnlyRun),
   GET_SENSOR_INTERFACE |-> Experiment(25, Anytime),
   GET_CAMERA_INTERFACE |-> Experiment(26, OnlyLoad),
   GET_LOG_INTERFACE |-> Command(27, Anytime), GET_PERF_INTERFACE |-> Command(28, Anytime),
   GET_LOCATION_INTERFACE |-> Command(29, Anytime),
   GET_CORE_ASSETS_DIRECTORY |-> Command(30, Anytime),
   GET_SAVE_DIRECTORY |-> Command(31, Anytime)]

Commands32To36 ==
  [SET_SYSTEM_AV_INFO |-> Command(32, OnlyRun),
   SET_PROC_ADDRESS_CALLBACK |-> Command(33, OnlySetEnvironment),
   SET_SUBSYSTEM_INFO |-> Command(34, OnlySetEnvironment),
   SET_CONTROLLER_INFO |-> Command(35, Anytime),
   SET_MEMORY_MAPS |-> Experiment(36, Anytime)]

(* Two commands have the number 44, one of them experimental.              *)
Commands37To44 ==
  [SET_GEOMETRY |-> Command(37, OnlyRun), GET_USERNAME |-> Command(38, Anytime),
   GET_LANGUAGE |-> Command(39, Anytime),
   GET_CURRENT_SOFTWARE_FRAMEBUFFER |-> Experiment(40, OnlyRun),
   GET_HW_RENDER_INTERFACE |-> Experiment(41, Anytime),
   SET_SUPPORT_ACHIEVEMENTS |-> Experiment(42, BeforeRun),
   SET_HW_RENDER_CONTEXT_NEGOTIATION_INTERFACE |-> Experiment(43, Anytime),
   SET_SERIALIZATION_QUIRKS |-> Command(44, InitOrLoad),
   SET_HW_SHARED_CONTEXT |-> Experiment(44, Anytime)]

Commands45To51 ==
  [GET_VFS_INTERFACE |-> Experiment(45, BeforeLoad),
   GET_LED_INTERFACE |-> Experiment(46, Anytime),
   GET_AUDIO_VIDEO_ENABLE |-> Experiment(47, Anytime),
   GET_MIDI_INTERFACE |-> Experiment(48, Anytime),
   GET_FASTFORWARDING |-> Experiment(49, Anytime),
   GET_TARGET_REFRESH_RATE |-> Experiment(50, Anytime),
   GET_INPUT_BITMASKS |-> Experiment(51, Anytime)]

Commands52To54 ==
  [GET_CORE_OPTIONS_VERSION |-> Command(52, Anytime),
   SET_CORE_OPTIONS |-> Command(53, Anytime),
   SET_CORE_OPTIONS_INTL |-> Command(54, Anytime)]

Commands55To62 ==
  [SET_CORE_OPTIONS_DISPLAY |-> Command(55, Anytime),
   GET_PREFERRED_HW_RENDER |-> Command(56, Anytime),
   GET_DISK_CONTROL_INTERFACE_VERSION |-> Command(57, Anytime),
   SET_DISK_CONTROL_EXT_INTERFACE |-> Command(58, Anytime),
   GET_MESSAGE_INTERFACE_VERSION |-> Command(59, Anytime),
   SET_MESSAGE_EXT |-> Command(60, Anytime), GET_INPUT_MAX_USERS |-> Command(61, Anytime),
   SET_AUDIO_BUFFER_STATUS_CALLBACK |-> Command(62, Anytime)]

Commands63To66 ==
  [SET_MINIMUM_AUDIO_LATENCY |-> Command(63, OnlyRun),
   SET_FASTFORWARDING_OVERRIDE |-> Command(64, Anytime),
   SET_CONTENT_INFO_OVERRIDE |-> Command(65, OnlySetEnvironment),
   GET_GAME_INFO_EXT |-> Command(66, OnlyLoad)]

Commands67 == [SET_CORE_OPTIONS_V2 |-> Command(67, Anytime)]

Commands68To70 ==
  [SET_CORE_OPTIONS_V2_INTL |-> Command(68, Anytime),
   SET_CORE_OPTIONS_UPDATE_DISPLAY_CALLBACK |-> Command(69, OnlySetEnvironment),
   SET_VARIABLE |-> Command(70, Anytime)]

Commands71To77 ==
  [GET_THROTTLE_STATE |-> Experiment(71, Anytime),
   GET_SAVESTATE_CONTEXT |-> Experiment(72, Anytime),
   GET_HW_RENDER_CONTEXT_NEGOTIATION_INTERFACE_SUPPORT |-> Experiment(73, Anytime),
   GET_JIT_CAPABLE |-> Command(74, Anytime),
   GET_MICROPHONE_INTERFACE |-> Experiment(75, Anytime),
   SET_NETPACKET_INTERFACE |-> Command(76, InitOrLoad),
   GET_DEVICE_POWER |-> Experiment(77, Anytime)]

(* The header's commands as one table: no name is in two of its parts.     *)
Tables ==
  {Commands1To13, Commands14To22, Commands23To31, Commands32To36, Commands37To44,
   Commands45To51, Commands52To54, Commands55To62, Commands63To66, Commands67,
   Commands68To70, Commands71To77}

Commands ==
  [command \in UNION {DOMAIN table : table \in Tables} |->
     (CHOOSE table \in Tables : command \in DOMAIN table)[command]]

Number(command) == Commands[command].n

(* The option commands with definitions and categories are for a core that *)
(* was told a version of the options interface that has them.              *)
NeedsVersion(command) ==
  CASE command \in {"SET_CORE_OPTIONS", "SET_CORE_OPTIONS_INTL"} -> 1
    [] command \in {"SET_CORE_OPTIONS_V2", "SET_CORE_OPTIONS_V2_INTL"} -> 2
    [] OTHER -> 0
-----------------------------------------------------------------------------
(* What a core declares of an option: a v0 variable is a key and the       *)
(* values its text lists; a definition (v1, and v2 for what is read of it) *)
(* has a default beside them; the translated forms come twice.             *)
FirstListed(values, none) == IF values = <<>> THEN none ELSE values[1]

Variable(key, values) == [key |-> key, values |-> values]
V1Definition(key, values, default_value) ==
  [key |-> key, values |-> values, default_value |-> default_value]
V2Definition(key, values, default_value) == V1Definition(key, values, default_value)
Translated(us, local) == [us |-> us, local |-> local]

(* The default is the first of the listed values; or the one the           *)
(* definition names, if it is listed; never one of a translation.          *)
V0Default(variable, none) == FirstListed(variable.values, none)
Listed(definition) ==
  \E i \in 1 .. Len(definition.values) : definition.values[i] = definition.default_value
V1Default(definition, none) ==
  IF Listed(definition) THEN definition.default_value
                        ELSE FirstListed(definition.values, none)
V2Default(definition, none) == V1Default(definition, none)
TranslatedDefault(intl, none) == V1Default(intl.us, none)
-----------------------------------------------------------------------------
(* Pixel formats, and how many levels a channel has in each.               *)
PixelFormats == {"0RGB1555", "XRGB8888", "RGB565"}
Levels ==
  [f \in PixelFormats |->
     CASE f = "0RGB1555" -> [r |-> 31, g |-> 31, b |-> 31]
       [] f = "XRGB8888" -> [r |-> 255, g |-> 255, b |-> 255]
       [] f = "RGB565"   -> [r |-> 31, g |-> 63, b |-> 31]]

(* A pixel of these levels, as the core writes it.                         *)
Pixel(f, c) ==
  CASE f = "0RGB1555" -> c.r * 1024 + c.g * 32 + c.b
    [] f = "XRGB8888" -> c.r * 65536 + c.g * 256 + c.b
    [] f = "RGB565"   -> c.r * 2048 + c.g * 32 + c.b
-----------------------------------------------------------------------------
(* Devices a core may ask for, the ids of their parts.                     *)
JOYPAD  == 1
MOUSE   == 2
POINTER == 6

JoypadId ==
  [B |-> 0, Y |-> 1, Select |-> 2, Start |-> 3, Up |-> 4, Down |-> 5, Left |-> 6,
   Right |-> 7, A |-> 8, X |-> 9, L |-> 10, R |-> 11, L2 |-> 12, R2 |-> 13,
   L3 |-> 14, R3 |-> 15]
JoypadMask == 256

PointerId == [X |-> 0, Y |-> 1, Pressed |-> 2, Count |-> 3]

(* A pointer's coordinate runs from one edge of the picture to the other.  *)
PointerEdge == 32767
=============================================================================
