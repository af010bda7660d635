-------------------------------- MODULE Frontend -------------------------------
(***************************************************************************)
(* The plugin's frontend as one person launches and plays it: the core and *)
(* its commands (Environment) and the host's pad and touches (Controls).   *)
(* A launch is both at once, and so is the end of one; in between the      *)
(* host's events come at any moment of the core's calls.                   *)
(***************************************************************************)
EXTENDS Environment

CONSTANTS
  HostActions, Widths, Columns,
  Played          \* the cores, by what they send, that a person plays

(* On a picture wider than 32769, a column times 0xFFFF does not fit the   *)
(* int that input_state has for it.                                        *)
ASSUME FrontendAssumption ==
  /\ Widths \subseteq Nat \ {0} /\ \A width \in Widths : width <= 32769
  /\ Columns \subseteq Nat /\ Played \subseteq Cores

VARIABLES core, g_joypad, held, missed, g_frame_width, g_pointer_x

Pad == INSTANCE Controls

hostVars == <<core, g_joypad, held, missed, g_frame_width, g_pointer_x>>
frontendVars == <<vars, hostVars>>

FrontendInit == Init /\ Pad!Init

(* onCreate records the options and starts the core's thread; onDestroy    *)
(* tells it to stop.                                                       *)
Launch  == native_start /\ Pad!onCreate
Destroy == native_stop /\ Pad!onDestroy

(* A core that has run a frame, and is in the next, draws its picture.     *)
Draw ==
  /\ inside /\ core_pc = "retro_run"
  /\ \E width \in Widths : Pad!first_picture(width)

Play ==
  /\ sends \in Played /\ core_pc # "crashed"
  /\ \/ \E action \in HostActions : Pad!onControllerEvent(action)
     \/ \E x \in Columns : Pad!onPointer(x)
     \/ Draw
  /\ UNCHANGED vars

FrontendNext ==
  \/ Launch \/ Destroy \/ Play
  \/ (native_start_options \/ core_main) /\ UNCHANGED hostVars
  \/ (\E command \in sends : environment(command)) /\ UNCHANGED hostVars

FrontendSpec == FrontendInit /\ [][FrontendNext]_frontendVars
-----------------------------------------------------------------------------
(* The pad's promises, whatever the core is in the middle of.              *)
NoStuckButton == Pad!NoStuckButton
HeldIsPressed == Pad!HeldIsPressed
TouchedPixel  == Pad!TouchedPixel
=============================================================================
