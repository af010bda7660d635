--------------------------------- MODULE Input ---------------------------------
(***************************************************************************)
(* Touch and mouse on their way to the core (enginehost_libretro.c).  A    *)
(* host thread writes volatile variables and two latches; the core's       *)
(* thread polls once a frame and then asks for what it wants.  The         *)
(* RetroPad's buttons are in Controls.                                     *)
(*                                                                         *)
(* Only the latches are atomic, and they order nothing: while a native     *)
(* call is under way its stores reach the core in any order.  They have    *)
(* all arrived when the next event is delivered (it comes through the      *)
(* host's process).                                                        *)
(***************************************************************************)
EXTENDS Integers, FiniteSets

CONSTANTS
  Places,      \* where the pointer may be: the x of a frame pixel
  Buttons,     \* mouse buttons a plugin may name
  MaxEvents    \* bound: events the host delivers in a behaviour

ASSUME InputAssumption ==
  /\ Places \subseteq Nat
  /\ MaxEvents \in Nat

Mouse == {"left", "right"}

VARIABLES
  g_pointer_down, g_pointer_latched,
  g_mouse_x, g_mouse_buttons, g_mouse_latched,
  stores,           \* stores of the event under way that have not arrived
  events,           \* events delivered so far
  core_pc,          \* "run", "poll" (inside input_poll), "mouse x"
  unread,           \* what input_poll has still to read
  pointer, mouse,   \* what input_poll has gathered so far
  g_pointer_seen, g_mouse_seen,
  g_mouse_last_x,
  dx,               \* history: sum of the movements reported
  owed,             \* history: presses ("touch" is the pointer's) not reported yet
  absent            \* history: polls begun since the pointer was last held

shared == <<g_pointer_down, g_pointer_latched, g_mouse_x, g_mouse_buttons,
            g_mouse_latched>>
polled == <<unread, pointer, mouse, g_pointer_seen, g_mouse_seen>>
asked  == <<g_mouse_last_x, dx>>
vars   == <<shared, stores, events, core_pc, polled, asked, owed, absent>>

Init ==
  /\ g_pointer_down = FALSE /\ g_pointer_latched = FALSE
  /\ g_mouse_x = 0 /\ g_mouse_buttons = {} /\ g_mouse_latched = {}
  /\ stores = {} /\ events = 0
  /\ core_pc = "run" /\ unread = {} /\ pointer = FALSE /\ mouse = {}
  /\ g_pointer_seen = FALSE /\ g_mouse_seen = {}
  /\ g_mouse_last_x = 0 /\ dx = 0
  /\ owed = {} /\ absent = 2

-----------------------------------------------------------------------------
(* The host's events.                                                       *)

Store(at, to) == [at |-> at, to |-> to]

Deliver(s) ==
  /\ stores = {} /\ events < MaxEvents
  /\ stores' = s
  /\ events' = events + 1

(* A press sets the state and its latch; a release only the state. *)
PointerStores_Unlatched(held) ==
  {Store("down", held),
   Store("buttons", IF held THEN g_mouse_buttons \union {"left"} ELSE g_mouse_buttons \ {"left"})}
PointerStores(held) ==
  IF held
  THEN {Store("down", TRUE), Store("buttons", g_mouse_buttons \union {"left"}),
        Store("pointer latch", TRUE), Store("mouse latch", {"left"})}
  ELSE {Store("down", FALSE), Store("buttons", g_mouse_buttons \ {"left"})}

(* Where the pointer is; a store of what is there already changes nothing. *)
PlaceStores(x) == {Store("mouse x", x)} \ {Store("mouse x", g_mouse_x)}

(* onPointerMove (held) and onPointerUp. *)
native_pointer ==
  /\ \E x \in Places, held \in BOOLEAN :
       /\ Deliver(PlaceStores(x) \union PointerStores(held))
       /\ absent' = IF held THEN 0 ELSE absent
       /\ owed' = IF held THEN owed \union {"touch", "left"} ELSE owed
  /\ UNCHANGED <<shared, core_pc, polled, asked>>

ValidButton(button) == button \in Mouse

native_mouse ==
  /\ \E button \in Buttons, down \in BOOLEAN :
       /\ ValidButton(button)
       /\ Deliver(IF down THEN {Store("buttons", g_mouse_buttons \union {button}),
                                Store("mouse latch", {button})}
                          ELSE {Store("buttons", g_mouse_buttons \ {button})})
       /\ owed' = IF down THEN owed \union {button} ELSE owed
  /\ UNCHANGED <<shared, core_pc, polled, asked, absent>>

(* A store arrives; to the mouse's latch it adds, atomically. *)
Arrived(s, at, old) == IF s.at = at THEN s.to ELSE old

store(s) ==
  /\ s \in stores
  /\ stores' = stores \ {s}
  /\ g_pointer_down' = Arrived(s, "down", g_pointer_down)
  /\ g_pointer_latched' = Arrived(s, "pointer latch", g_pointer_latched)
  /\ g_mouse_x' = Arrived(s, "mouse x", g_mouse_x)
  /\ g_mouse_buttons' = Arrived(s, "buttons", g_mouse_buttons)
  /\ g_mouse_latched' = g_mouse_latched \union Arrived(s, "mouse latch", {})
  /\ UNCHANGED <<events, core_pc, polled, asked, owed, absent>>

-----------------------------------------------------------------------------
(* input_poll: the state or its latch, read in either order; reading a     *)
(* latch clears it in the same step (an atomic exchange).                  *)

Held == g_pointer_down \/ \E s \in stores : s.at \in {"down", "pointer latch"} /\ s.to

input_poll ==
  /\ core_pc = "run"
  /\ core_pc' = "poll"
  /\ unread' = {"down", "pointer latch", "buttons", "mouse latch"}
  /\ absent' = IF Held THEN 0 ELSE IF absent < 2 THEN absent + 1 ELSE 2
  /\ UNCHANGED <<shared, stores, events, pointer, mouse, g_pointer_seen, g_mouse_seen,
                 g_mouse_last_x, dx, owed>>

Exchanged_Kept(v, at, old, cleared) == old
Exchanged(v, at, old, cleared) == IF v = at THEN cleared ELSE old

poll_read(v) ==
  /\ core_pc = "poll" /\ v \in unread
  /\ unread' = unread \ {v}
  /\ pointer' = (pointer \/ (v = "down" /\ g_pointer_down)
                         \/ (v = "pointer latch" /\ g_pointer_latched))
  /\ mouse' = mouse \union (IF v = "buttons" THEN g_mouse_buttons ELSE {})
                    \union (IF v = "mouse latch" THEN g_mouse_latched ELSE {})
  /\ g_pointer_latched' = Exchanged(v, "pointer latch", g_pointer_latched, FALSE)
  /\ g_mouse_latched' = Exchanged(v, "mouse latch", g_mouse_latched, {})
  /\ UNCHANGED <<g_pointer_down, g_mouse_x, g_mouse_buttons, stores, events, core_pc,
                 g_pointer_seen, g_mouse_seen, asked, owed, absent>>

(* What the poll reports, and so what is owed no more. *)
PollDone ==
  /\ core_pc = "poll" /\ unread = {}
  /\ core_pc' = "run"
  /\ g_pointer_seen' = pointer
  /\ g_mouse_seen' = mouse
  /\ pointer' = FALSE /\ mouse' = {}
  /\ owed' = (owed \ mouse) \ (IF pointer THEN {"touch"} ELSE {})
  /\ UNCHANGED <<g_pointer_down, g_mouse_x, g_mouse_buttons, stores, events, unread,
                 asked, absent>>
poll_done_ClearsLate ==
  PollDone /\ g_pointer_latched' = FALSE /\ g_mouse_latched' = {}
poll_done == PollDone /\ UNCHANGED <<g_pointer_latched, g_mouse_latched>>

-----------------------------------------------------------------------------
(* input_state, asked by the core as often as it likes. *)

(* RETRO_DEVICE_ID_MOUSE_X reads g_mouse_x twice: once for the difference  *)
(* it answers, once to remember where it was.                              *)
mouse_x ==
  /\ core_pc = "run"
  /\ dx' = dx + g_mouse_x - g_mouse_last_x
  /\ core_pc' = "mouse x"
  /\ UNCHANGED <<shared, stores, events, polled, g_mouse_last_x, owed, absent>>
mouse_last_x ==
  /\ core_pc = "mouse x"
  /\ g_mouse_last_x' = g_mouse_x
  /\ core_pc' = "run"
  /\ UNCHANGED <<shared, stores, events, polled, dx, owed, absent>>

-----------------------------------------------------------------------------
HostNext == native_pointer \/ native_mouse \/ \E s \in stores : store(s)

PollNext == input_poll \/ (\E v \in unread : poll_read(v)) \/ poll_done

Next ==
  \/ HostNext \/ PollNext
  \/ mouse_x \/ mouse_last_x

(* A native call the host has made completes.  The core polls every frame: *)
(* input_poll comes in spite of the questions asked between (strong).      *)
Fairness ==
  /\ WF_vars(\E s \in stores : store(s))
  /\ SF_vars(input_poll)
  /\ WF_vars(\E v \in unread : poll_read(v)) /\ WF_vars(poll_done)
  /\ WF_vars(mouse_last_x)

Spec == Init /\ [][Next]_vars
FairSpec == Spec /\ Fairness
-----------------------------------------------------------------------------
Presses == Mouse \union {"touch"}

(* A press the core has not been told of is on its way to it: latched, in  *)
(* the poll under way, or still being stored.  No order of the stores and  *)
(* of input_poll's reads loses a tap that is over before the next poll.    *)
PressNeverLost ==
  /\ "touch" \in owed =>
       \/ g_pointer_latched \/ pointer
       \/ Store("pointer latch", TRUE) \in stores
  /\ \A b \in owed \ {"touch"} :
       \/ b \in g_mouse_latched \/ b \in mouse
       \/ Store("mouse latch", {b}) \in stores

(* The comment above the latches: a press is seen by the core even when it *)
(* is released before the core next polls.                                 *)
PressIsReported == \A k \in Presses : k \in owed ~> k \notin owed

(* A latch is reported once: the core is told of a touch only if there was *)
(* one after the poll before last began.                                   *)
NoGhostTouch == core_pc # "poll" /\ g_pointer_seen => absent <= 1

(* libretro.h on the mouse: X and Y are reported relatively to the last    *)
(* poll, so the movements reported add up to the mouse's place.            *)
MovementReported == core_pc # "mouse x" => dx = g_mouse_last_x
=============================================================================
