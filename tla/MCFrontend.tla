------------------------------- MODULE MCFrontend ------------------------------
(* Instances of Frontend: a core that has options; and one that registers  *)
(* its callbacks, sets its format and shuts down, one that sends all the   *)
(* rest, and one that wants the time of each frame.  The last is played,   *)
(* with two actions that have a button and one that has none, and with     *)
(* touches at the edges of a narrow picture and of very wide ones.         *)
EXTENDS Frontend, TLC

CONSTANTS k1, k2, v1, v2

Symmetric == Permutations({k1, k2}) \union Permutations({v1, v2})

WithOptions ==
  {"SET_VARIABLES", "GET_CORE_OPTIONS_VERSION", "SET_CORE_OPTIONS",
   "SET_CORE_OPTIONS_INTL", "SET_CORE_OPTIONS_V2", "SET_CORE_OPTIONS_V2_INTL",
   "GET_VARIABLE", "GET_VARIABLE_UPDATE"}
WithCallbacks ==
  {"SET_AUDIO_CALLBACK", "SET_FRAME_TIME_CALLBACK", "SET_KEYBOARD_CALLBACK",
   "SET_PIXEL_FORMAT", "SHUTDOWN"}
WithPad == {"SET_FRAME_TIME_CALLBACK"}
WithRest == DOMAIN Commands \ (WithOptions \union WithCallbacks)

Kinds == {WithOptions, WithCallbacks, WithPad, WithRest}
CallbackKinds == {WithCallbacks}
PlayedKinds == {WithPad}

Pressed == {"ons_single_page", "ons_page_up", "quick_save"}
=============================================================================
