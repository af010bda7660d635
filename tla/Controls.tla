-------------------------------- MODULE Controls -------------------------------
(***************************************************************************)
(* A pad's way to the core: the host's action ids, the RetroPad buttons    *)
(* OnsyuriPlugin presses for them, the bits native_joypad keeps and what   *)
(* the core reads there; and how a place on the picture becomes the        *)
(* pointer's.  Input has the timing of touches and polls; here it is which *)
(* action holds which button, and which pixel is touched.                  *)
(***************************************************************************)
EXTENDS Libretro

CONSTANTS
  HostActions,   \* the action ids a person's map may press
  Widths,        \* what the first picture's width may be
  Columns        \* where on it a person may touch

VARIABLES
  core,           \* "none" before onCreate, "live", "stopped" after onDestroy
  g_joypad,       \* the bits that are set, by number
  held,           \* the actions the host holds
  missed,         \* history: held actions whose press the plugin did not take
  g_frame_width,  \* 0 until there is a picture
  g_pointer_x

padVars   == <<g_joypad, held, missed>>
placeVars == <<g_frame_width, g_pointer_x>>
vars == <<core, padVars, placeVars>>

Init ==
  /\ core = "none" /\ g_joypad = {} /\ held = {} /\ missed = {}
  /\ g_frame_width = 0 /\ g_pointer_x = 0
-----------------------------------------------------------------------------
(* The plugin's tables: what an action presses, by the id LibretroPlugin   *)
(* has for the button.                                                     *)
JOYPAD_ ==
  [B |-> 0, Y |-> 1, Select |-> 2, Start |-> 3, Up |-> 4, Down |-> 5, Left |-> 6,
   Right |-> 7, A |-> 8, X |-> 9, L |-> 10, R |-> 11, L2 |-> 12, R2 |-> 13]

ACTION_BUTTONS_PagesOnL ==
  [ons_advance |-> "A", ons_right_click |-> "X", ons_ctrl |-> "Y", ons_space |-> "B",
   ons_single_page |-> "L", ons_skip |-> "R", ons_auto |-> "Start",
   ons_text_speed |-> "Select", ons_cursor_up |-> "Up", ons_cursor_down |-> "Down",
   ons_cursor_left |-> "Left", ons_cursor_right |-> "Right",
   ons_page_up |-> "L", ons_page_down |-> "R"]
ACTION_BUTTONS ==
  [ons_advance |-> "A", ons_right_click |-> "X", ons_ctrl |-> "Y", ons_space |-> "B",
   ons_single_page |-> "L", ons_skip |-> "R", ons_auto |-> "Start",
   ons_text_speed |-> "Select", ons_cursor_up |-> "Up", ons_cursor_down |-> "Down",
   ons_cursor_left |-> "Left", ons_cursor_right |-> "Right",
   ons_page_up |-> "L2", ons_page_down |-> "R2"]

SHARED_ACTION_ALIASES ==
  [confirm |-> "ons_advance", cancel |-> "ons_right_click", menu |-> "ons_right_click",
   skip |-> "ons_skip", auto |-> "ons_auto", history |-> "ons_cursor_left",
   up |-> "ons_cursor_up", down |-> "ons_cursor_down", left |-> "ons_cursor_left",
   right |-> "ons_cursor_right", page_previous |-> "ons_page_up",
   page_next |-> "ons_page_down"]

None == -1
joypadButton(action) ==
  LET named == IF action \in DOMAIN SHARED_ACTION_ALIASES
               THEN SHARED_ACTION_ALIASES[action] ELSE action
  IN  IF named \in DOMAIN ACTION_BUTTONS THEN JOYPAD_[ACTION_BUTTONS[named]] ELSE None

onCreate ==
  /\ core = "none"
  /\ core' = "live"
  /\ UNCHANGED <<padVars, placeVars>>

(* A bit is set or cleared, and no other.                                  *)
native_joypad_KeepsOnly(id, down) ==
  g_joypad' = IF down THEN g_joypad \union {id} ELSE g_joypad \intersect {id}
native_joypad(id, down) ==
  /\ id \in 0 .. 15
  /\ g_joypad' = IF down THEN g_joypad \union {id} ELSE g_joypad \ {id}

(* An action with no button, and any action while there is no core, is     *)
(* left to the host.                                                       *)
Taken(action) == core = "live" /\ joypadButton(action) # None

(* onControllerEvent: the host presses an action it does not hold, or      *)
(* releases one it does.                                                   *)
onControllerEvent(action) ==
  LET pressed == action \notin held
  IN  /\ held' = IF pressed THEN held \union {action} ELSE held \ {action}
      /\ IF Taken(action) THEN native_joypad(joypadButton(action), pressed)
                          ELSE UNCHANGED g_joypad
      /\ missed' = IF pressed /\ ~Taken(action) THEN missed \union {action}
                                                ELSE missed \ {action}
      /\ UNCHANGED <<core, placeVars>>

(* onPointerMove and onPointerUp, of which only the column is kept.        *)
onPointer(x) ==
  /\ core = "live"
  /\ g_pointer_x' = x
  /\ UNCHANGED <<core, padVars, g_frame_width>>

(* video_refresh: the first picture's width is the width from then on.     *)
first_picture(width) ==
  /\ core # "none" /\ g_frame_width = 0
  /\ g_frame_width' = width
  /\ UNCHANGED <<core, padVars, g_pointer_x>>

onDestroy ==
  /\ core = "live"
  /\ core' = "stopped"
  /\ UNCHANGED <<padVars, placeVars>>

Next ==
  \/ onCreate \/ onDestroy
  \/ \E action \in HostActions : onControllerEvent(action)
  \/ \E x \in Columns : onPointer(x)
  \/ \E width \in Widths : first_picture(width)

Spec == Init /\ [][Next]_vars
-----------------------------------------------------------------------------
(* input_state, for the pad and the pointer's column (what else it answers *)
(* is in Input).  An answer is an int16_t.                                 *)
Int16(n) == ((n + 32768) % 65536) - 32768

(* The bits of g_joypad as the number they are.                            *)
Bit(id) == IF id \in g_joypad THEN 1 ELSE 0
Nibble(n) == Bit(4 * n) + 2 * Bit(4 * n + 1) + 4 * Bit(4 * n + 2) + 8 * Bit(4 * n + 3)
Word == Nibble(0) + 16 * Nibble(1) + 256 * Nibble(2) + 4096 * Nibble(3)

joypad_state(id) ==
  IF id = JoypadMask THEN Int16(Word)
  ELSE IF id < 16 THEN Bit(id) ELSE 0

pointer_x_Inclusive(x, width) == Int16((x * 65535) \div (width - 1) - 32767)
pointer_x(x, width) == Int16((x * 65535) \div width - 32767)

input_state(port, device, index, id) ==
  IF port # 0 THEN 0
  ELSE CASE device = JOYPAD -> joypad_state(id)
         [] device = POINTER /\ index = 0 /\ id = PointerId.X ->
              pointer_x(g_pointer_x, IF g_frame_width > 0 THEN g_frame_width ELSE 1)
         [] device \notin {JOYPAD, MOUSE, POINTER} -> 0
         [] device = POINTER /\ index > 0 -> 0
-----------------------------------------------------------------------------
(* What a core that goes by libretro.h learns of a button: by its id, and  *)
(* by its bit of the mask.                                                 *)
ById(b)   == input_state(0, JOYPAD, 0, JoypadId[b]) = 1
ByMask(b) == (input_state(0, JOYPAD, 0, JoypadMask) \div 2 ^ JoypadId[b]) % 2 = 1

Holds(action, b) == joypadButton(action) = JoypadId[b]

(* No button stays down behind the host's back: while there is a core, it  *)
(* learns of a button as down, whichever way it asks, only while an action *)
(* of that button is held (native_joypad's release finds the bit its press *)
(* set; the ids and bits are libretro.h's).                                *)
NoStuckButton ==
  core = "live" => \A b \in DOMAIN JoypadId :
    ById(b) \/ ByMask(b) => \E a \in held \ missed : Holds(a, b)

(* ENGINEHOST.md, Controls: each action presses its RetroPad button; so    *)
(* while it is held, and whatever else is pressed and released meanwhile,  *)
(* the core that asks is told that the button is down.                     *)
HeldIsPressed ==
  core = "live" => \A a \in held \ missed, b \in DOMAIN JoypadId :
    Holds(a, b) => ById(b) /\ ByMask(b)

(* A touch of the picture is answered as a place on it, and of the         *)
(* picture's columns the one nearest to that place is the column touched:  *)
(* nothing wraps and no column falls off either edge (the nearest is asked *)
(* for pictures of up to PointerEdge + 1 columns).  input_state cuts down, *)
(* so the place is a little left of the column: a core that cuts down      *)
(* again, instead of taking the nearest, is at the column before it        *)
(* wherever the width does not divide the column times 0xFFFF.             *)
TouchedPixel ==
  g_pointer_x < g_frame_width =>
    LET answer  == input_state(0, POINTER, 0, PointerId.X)
        place   == (answer + PointerEdge) * g_frame_width
        nearest == (place + PointerEdge) \div (2 * PointerEdge + 1)
    IN  /\ answer \in (-PointerEdge) .. PointerEdge
        /\ g_frame_width <= PointerEdge + 1 => nearest = g_pointer_x
=============================================================================
