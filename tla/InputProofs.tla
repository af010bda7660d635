------------------------------ MODULE InputProofs ------------------------------
(***************************************************************************)
(* What is proved of Input for all places, buttons and numbers of events:  *)
(* no press is lost on its way to the core, and no touch is reported that  *)
(* was over long ago, in whatever order stores and reads happen.           *)
(***************************************************************************)
EXTENDS Input, TLAPS

(* What a store under way may be: nothing stores that there was no press,  *)
(* so only the poll's exchange clears the pointer's latch.                 *)
StoresInv ==
  \A s \in stores :
    /\ s.at \in {"down", "pointer latch"} => s.to \in BOOLEAN
    /\ s.at = "pointer latch" => s.to = TRUE

FlagsInv ==
  /\ g_pointer_down \in BOOLEAN /\ g_pointer_latched \in BOOLEAN
  /\ pointer \in BOOLEAN /\ g_pointer_seen \in BOOLEAN

(* Where the trace of a touch still is, by the polls begun since it was    *)
(* held: a latch left over is one that the poll under way has yet to read. *)
TraceInv ==
  /\ absent \in 0 .. 2
  /\ Held => absent = 0
  /\ g_pointer_latched =>
       absent = 0 \/ (absent = 1 /\ core_pc = "poll" /\ "pointer latch" \in unread)
  /\ pointer => core_pc = "poll" /\ absent \in 0 .. 1
  /\ g_pointer_seen /\ core_pc # "poll" => absent \in 0 .. 1

IInv == StoresInv /\ FlagsInv /\ TraceInv
-----------------------------------------------------------------------------
LEMMA InitInv == Init => IInv /\ PressNeverLost
<1> SUFFICES ASSUME Init PROVE IInv /\ PressNeverLost
  OBVIOUS
<1>1. ~Held
  BY DEF Init, Held
<1>2. TraceInv
  BY <1>1 DEF Init, TraceInv
<1>3. StoresInv /\ FlagsInv /\ PressNeverLost
  BY DEF Init, StoresInv, FlagsInv, PressNeverLost
<1> QED
  BY <1>2, <1>3 DEF IInv

LEMMA StoreAt == \A at, to : Store(at, to).at = at
BY DEF Store

LEMMA StoreTo == \A at, to : Store(at, to).to = to
BY DEF Store

(* The stores of the events: which there are, and of what.                 *)
LEMMA PointerEvent ==
  ASSUME native_pointer
  PROVE  \E held \in BOOLEAN :
           /\ stores = {}
           /\ \A s \in stores' :
                /\ s.at = "down" => s.to = held
                /\ s.at = "pointer latch" => held /\ s.to = TRUE
           /\ held => Store("pointer latch", TRUE) \in stores'
           /\ held => Store("mouse latch", {"left"}) \in stores'
           /\ absent' = IF held THEN 0 ELSE absent
           /\ owed' = IF held THEN owed \union {"touch", "left"} ELSE owed
<1>1. PICK x \in Places, held \in BOOLEAN :
        /\ Deliver(PlaceStores(x) \union PointerStores(held))
        /\ absent' = IF held THEN 0 ELSE absent
        /\ owed' = IF held THEN owed \union {"touch", "left"} ELSE owed
  BY DEF native_pointer
<1>2. stores = {} /\ stores' = PlaceStores(x) \union PointerStores(held)
  BY <1>1 DEF Deliver
<1>3. \A s \in PlaceStores(x) : s.at = "mouse x"
  BY StoreAt DEF PlaceStores
<1>4. \A s \in PointerStores(held) :
        /\ s.at = "down" => s.to = held
        /\ s.at = "pointer latch" => held /\ s.to = TRUE
  <2> SUFFICES ASSUME NEW s \in PointerStores(held)
               PROVE  /\ s.at = "down" => s.to = held
                      /\ s.at = "pointer latch" => held /\ s.to = TRUE
    OBVIOUS
  <2> DEFINE Right(at, to) == /\ at = "down" => to = held
                              /\ at = "pointer latch" => held /\ to = TRUE
  <2>1. PICK at, to : s = Store(at, to) /\ Right(at, to)
    <3>1. \A to : Right("buttons", to) /\ Right("mouse latch", to)
      OBVIOUS
    <3>2. Right("down", held)
      OBVIOUS
    <3>3. CASE held
      <4>1. held = TRUE /\ Right("pointer latch", TRUE)
        BY <3>3
      <4>2. \/ s = Store("down", held) \/ s = Store("pointer latch", TRUE)
            \/ s = Store("buttons", g_mouse_buttons \union {"left"})
            \/ s = Store("mouse latch", {"left"})
        BY <3>3, <4>1, Zenon DEF PointerStores
      <4> HIDE DEF Right
      <4> QED
        BY <3>1, <3>2, <4>1, <4>2, Zenon
    <3>4. CASE ~held
      <4>1. held = FALSE
        BY <3>4
      <4>2. \/ s = Store("down", held)
            \/ s = Store("buttons", g_mouse_buttons \ {"left"})
        BY <3>4, <4>1, Zenon DEF PointerStores
      <4> HIDE DEF Right
      <4> QED
        BY <3>1, <3>2, <4>2, Zenon
    <3> QED
      BY <3>3, <3>4
  <2>2. s.at = at /\ s.to = to
    BY <2>1, StoreAt, StoreTo, Zenon
  <2> QED
    BY <2>1, <2>2, Zenon
<1>5. held => /\ Store("pointer latch", TRUE) \in PointerStores(held)
              /\ Store("mouse latch", {"left"}) \in PointerStores(held)
  BY DEF PointerStores
<1>6. \A s \in stores' : s \in PlaceStores(x) \/ s \in PointerStores(held)
  BY <1>2
<1>7. \A s \in stores' :
        /\ s.at = "down" => s.to = held
        /\ s.at = "pointer latch" => held /\ s.to = TRUE
  <2> TAKE s \in stores'
  <2>1. CASE s \in PlaceStores(x)
    BY <2>1, <1>3
  <2>2. CASE s \in PointerStores(held)
    BY <2>2, <1>4
  <2> QED
    BY <1>6, <2>1, <2>2
<1> QED
  BY <1>1, <1>2, <1>5, <1>7, Zenon

LEMMA MouseEvent ==
  ASSUME native_mouse
  PROVE  \E button, down :
           /\ stores = {}
           /\ \A s \in stores' : s.at \notin {"down", "pointer latch"}
           /\ down => Store("mouse latch", {button}) \in stores'
           /\ owed' = IF down THEN owed \union {button} ELSE owed
           /\ button # "touch"
<1>1. PICK button \in Buttons, down \in BOOLEAN :
        /\ ValidButton(button)
        /\ Deliver(IF down THEN {Store("buttons", g_mouse_buttons \union {button}),
                                 Store("mouse latch", {button})}
                           ELSE {Store("buttons", g_mouse_buttons \ {button})})
        /\ owed' = IF down THEN owed \union {button} ELSE owed
  BY DEF native_mouse
<1>2. button # "touch"
  BY <1>1 DEF ValidButton, Mouse
<1>3. CASE down
  <2>1. stores = {} /\ stores' = {Store("buttons", g_mouse_buttons \union {button}),
                                  Store("mouse latch", {button})}
    BY <1>1, <1>3 DEF Deliver
  <2>2. \A s \in stores' : s.at \in {"buttons", "mouse latch"}
    BY <2>1, StoreAt, Zenon
  <2>3. \A s \in stores' : s.at \notin {"down", "pointer latch"}
    BY <2>2
  <2> QED
    BY <1>1, <1>2, <1>3, <2>1, <2>3
<1>4. CASE ~down
  <2>1. stores = {} /\ stores' = {Store("buttons", g_mouse_buttons \ {button})}
    BY <1>1, <1>4 DEF Deliver
  <2>2. \A s \in stores' : s.at \in {"buttons", "mouse latch"}
    BY <2>1, StoreAt, Zenon
  <2>3. \A s \in stores' : s.at \notin {"down", "pointer latch"}
    BY <2>2
  <2> QED
    BY <1>1, <1>2, <1>4, <2>1, <2>3
<1> QED
  BY <1>3, <1>4
(* A store under way reaches its variable, and no other of them.           *)
LEMMA Arrival ==
  ASSUME StoresInv, NEW s \in stores, store(s)
  PROVE  /\ stores' = stores \ {s}
         /\ g_pointer_down' = (IF s.at = "down" THEN s.to ELSE g_pointer_down)
         /\ g_pointer_latched' = (IF s.at = "pointer latch" THEN TRUE ELSE g_pointer_latched)
         /\ \A b : b \in g_mouse_latched => b \in g_mouse_latched'
         /\ s.at = "mouse latch" => \A b \in s.to : b \in g_mouse_latched'
<1>1. s.at = "pointer latch" => s.to = TRUE
  BY DEF StoresInv
<1>2. \A b : b \in g_mouse_latched => b \in g_mouse_latched'
  BY DEF store
<1>3. s.at = "mouse latch" => \A b \in s.to : b \in g_mouse_latched'
  BY DEF store, Arrived
<1>4. g_pointer_latched' = (IF s.at = "pointer latch" THEN TRUE ELSE g_pointer_latched)
  BY <1>1, Zenon DEF store, Arrived
<1>5. /\ stores' = stores \ {s}
      /\ g_pointer_down' = (IF s.at = "down" THEN s.to ELSE g_pointer_down)
  BY Zenon DEF store, Arrived
<1> QED
  BY <1>2, <1>3, <1>4, <1>5, Zenon
-----------------------------------------------------------------------------
(* The stores and the flags.                                               *)
LEMMA StoresNext == StoresInv /\ [Next]_vars => StoresInv'
<1> SUFFICES ASSUME StoresInv, [Next]_vars PROVE StoresInv'
  OBVIOUS
<1>1. CASE native_pointer
  <2>1. PICK held \in BOOLEAN :
          \A s \in stores' : /\ s.at = "down" => s.to = held
                             /\ s.at = "pointer latch" => held /\ s.to = TRUE
    BY <1>1, PointerEvent, Zenon
  <2> QED
    BY <2>1 DEF StoresInv
<1>2. CASE native_mouse
  <2>1. \A s \in stores' : s.at \notin {"down", "pointer latch"}
    BY <1>2, MouseEvent, Zenon
  <2> QED
    BY <2>1 DEF StoresInv
<1>3. ASSUME NEW s \in stores, store(s)
      PROVE  StoresInv'
  BY <1>3 DEF store, StoresInv
<1>4. CASE PollNext \/ mouse_x \/ mouse_last_x \/ UNCHANGED vars
  <2>1. stores' = stores
    BY <1>4 DEF PollNext, input_poll, poll_read, poll_done, PollDone, mouse_x, mouse_last_x, vars
  <2> QED
    BY <2>1 DEF StoresInv
<1> QED
  BY <1>1, <1>2, <1>3, <1>4 DEF Next, HostNext

LEMMA FlagsNext == StoresInv /\ FlagsInv /\ [Next]_vars => FlagsInv'
<1> SUFFICES ASSUME StoresInv, FlagsInv, [Next]_vars PROVE FlagsInv'
  OBVIOUS
<1>1. CASE native_pointer \/ native_mouse \/ input_poll \/ mouse_x \/ mouse_last_x
           \/ UNCHANGED vars
  BY <1>1 DEF FlagsInv, native_pointer, native_mouse, input_poll, mouse_x, mouse_last_x,
              vars, shared, polled
<1>2. ASSUME NEW s \in stores, store(s)
      PROVE  FlagsInv'
  <2>1. pointer' = pointer /\ g_pointer_seen' = g_pointer_seen
    BY <1>2 DEF store, polled
  <2>2. g_pointer_down' \in BOOLEAN
    BY <1>2, Arrival, Zenon DEF StoresInv, FlagsInv
  <2>3. g_pointer_latched' \in BOOLEAN
    BY <1>2, Arrival, Zenon DEF FlagsInv
  <2> QED
    BY <2>1, <2>2, <2>3 DEF FlagsInv
<1>3. ASSUME NEW v \in unread, poll_read(v)
      PROVE  FlagsInv'
  <2>1. g_pointer_down' = g_pointer_down /\ g_pointer_seen' = g_pointer_seen
    BY <1>3 DEF poll_read
  <2>2. pointer' \in BOOLEAN
    BY <1>3, Zenon DEF poll_read
  <2>3. g_pointer_latched' \in BOOLEAN
    BY <1>3, Zenon DEF poll_read, Exchanged, FlagsInv
  <2> QED
    BY <2>1, <2>2, <2>3 DEF FlagsInv
<1>4. CASE poll_done
  BY <1>4 DEF FlagsInv, poll_done, PollDone
<1> QED
  BY <1>1, <1>2, <1>3, <1>4 DEF Next, HostNext, PollNext

(* No press is lost: what latches it, reads it and clears it never leaves  *)
(* a moment in which no one has it.                                        *)
LEMMA PressNext == IInv /\ PressNeverLost /\ [Next]_vars => PressNeverLost'
<1> SUFFICES ASSUME IInv, PressNeverLost, [Next]_vars PROVE PressNeverLost'
  OBVIOUS
<1> DEFINE Touch == \/ g_pointer_latched \/ pointer
                    \/ Store("pointer latch", TRUE) \in stores
           Press(b) == \/ b \in g_mouse_latched \/ b \in mouse
                       \/ Store("mouse latch", {b}) \in stores
<1>0. /\ "touch" \in owed => Touch
      /\ \A b \in owed \ {"touch"} : Press(b)
  BY DEF PressNeverLost
<1>a. SUFFICES /\ "touch" \in owed' => Touch'
               /\ \A b \in owed' \ {"touch"} : Press(b)'
  BY DEF PressNeverLost
<1>1. CASE native_pointer
  <2>1. PICK held \in BOOLEAN :
          /\ stores = {}
          /\ held => Store("pointer latch", TRUE) \in stores'
          /\ held => Store("mouse latch", {"left"}) \in stores'
          /\ owed' = IF held THEN owed \union {"touch", "left"} ELSE owed
    BY <1>1, PointerEvent, Zenon
  <2>2. /\ g_pointer_latched' = g_pointer_latched /\ pointer' = pointer
        /\ g_mouse_latched' = g_mouse_latched /\ mouse' = mouse
    BY <1>1 DEF native_pointer, shared, polled
  <2>3. CASE held
    BY <1>0, <2>1, <2>2, <2>3
  <2>4. CASE ~held
    BY <1>0, <2>1, <2>2, <2>4
  <2> QED
    BY <2>3, <2>4
<1>2. CASE native_mouse
  <2>1. PICK button, down :
          /\ stores = {}
          /\ down => Store("mouse latch", {button}) \in stores'
          /\ owed' = IF down THEN owed \union {button} ELSE owed
          /\ button # "touch"
    BY <1>2, MouseEvent, Zenon
  <2>2. /\ g_pointer_latched' = g_pointer_latched /\ pointer' = pointer
        /\ g_mouse_latched' = g_mouse_latched /\ mouse' = mouse
    BY <1>2 DEF native_mouse, shared, polled
  <2> QED
    BY <1>0, <2>1, <2>2
<1>3. ASSUME NEW s \in stores, store(s)
      PROVE  /\ "touch" \in owed' => Touch'
             /\ \A b \in owed' \ {"touch"} : Press(b)'
  <2>1. owed' = owed /\ pointer' = pointer /\ mouse' = mouse
    BY <1>3 DEF store, polled
  <2>2. stores' = stores \ {s}
    BY <1>3 DEF store
  <2>3. "touch" \in owed' => Touch'
    <3>1. CASE s = Store("pointer latch", TRUE)
      <4>1. s.at = "pointer latch"
        BY <3>1, StoreAt, Zenon
      <4>2. g_pointer_latched' = TRUE
        BY <1>3, <4>1, Arrival, Zenon DEF IInv
      <4> QED
        BY <4>2
    <3>2. CASE s # Store("pointer latch", TRUE)
      <4>1. g_pointer_latched => g_pointer_latched'
        BY <1>3, Arrival, Zenon DEF IInv
      <4> QED
        BY <1>0, <2>1, <2>2, <3>2, <4>1
    <3> QED
      BY <3>1, <3>2
  <2>4. ASSUME NEW b \in owed' \ {"touch"}
        PROVE  Press(b)'
    <3>1. CASE s = Store("mouse latch", {b})
      <4>1. s.at = "mouse latch" /\ s.to = {b}
        BY <3>1, StoreAt, StoreTo, Zenon
      <4>2. b \in g_mouse_latched'
        BY <1>3, <4>1, Arrival, Zenon DEF IInv
      <4> QED
        BY <4>2
    <3>2. CASE s # Store("mouse latch", {b})
      <4>1. b \in g_mouse_latched => b \in g_mouse_latched'
        BY <1>3, Arrival, Zenon DEF IInv
      <4> QED
        BY <1>0, <2>1, <2>2, <3>2, <4>1
    <3> QED
      BY <3>1, <3>2
  <2> QED
    BY <2>3, <2>4
<1>4. ASSUME NEW v \in unread, poll_read(v)
      PROVE  /\ "touch" \in owed' => Touch'
             /\ \A b \in owed' \ {"touch"} : Press(b)'
  <2>1. owed' = owed /\ stores' = stores
    BY <1>4 DEF poll_read
  <2>2. Touch => Touch'
    BY <1>4, <2>1, Zenon DEF poll_read, Exchanged
  <2>3. \A b : Press(b) => Press(b)'
    BY <1>4, <2>1 DEF poll_read, Exchanged
  <2> QED
    BY <1>0, <2>1, <2>2, <2>3
<1>5. CASE poll_done
  <2>1. /\ stores' = stores /\ g_pointer_latched' = g_pointer_latched
        /\ g_mouse_latched' = g_mouse_latched
        /\ owed' = (owed \ mouse) \ (IF pointer THEN {"touch"} ELSE {})
    BY <1>5 DEF poll_done, PollDone
  <2> QED
    BY <1>0, <2>1
<1>6. CASE input_poll \/ mouse_x \/ mouse_last_x \/ UNCHANGED vars
  <2>1. /\ owed' = owed /\ stores' = stores /\ pointer' = pointer /\ mouse' = mouse
        /\ g_pointer_latched' = g_pointer_latched /\ g_mouse_latched' = g_mouse_latched
    BY <1>6 DEF input_poll, mouse_x, mouse_last_x, vars, shared, polled
  <2> QED
    BY <1>0, <2>1
<1> QED
  BY <1>1, <1>2, <1>3, <1>4, <1>5, <1>6 DEF Next, HostNext, PollNext
-----------------------------------------------------------------------------
(* The trace of a touch.                                                   *)
LEMMA TraceNext == IInv /\ [Next]_vars => TraceInv'
<1> SUFFICES ASSUME IInv, [Next]_vars PROVE TraceInv'
  OBVIOUS
<1>0. StoresInv /\ FlagsInv /\ TraceInv
  BY DEF IInv
<1>1. CASE native_pointer
  <2>1. PICK held \in BOOLEAN :
          /\ stores = {}
          /\ \A s \in stores' : /\ s.at = "down" => s.to = held
                                /\ s.at = "pointer latch" => held /\ s.to = TRUE
          /\ absent' = IF held THEN 0 ELSE absent
    BY <1>1, PointerEvent, Zenon
  <2>2. /\ g_pointer_down' = g_pointer_down /\ g_pointer_latched' = g_pointer_latched
        /\ core_pc' = core_pc /\ unread' = unread /\ pointer' = pointer
        /\ g_pointer_seen' = g_pointer_seen
    BY <1>1 DEF native_pointer, shared, polled
  <2>3. CASE held
    <3>1. absent' = 0
      BY <2>1, <2>3, Zenon
    <3>2. 0 \in 0 .. 2 /\ 0 \in 0 .. 1
      OBVIOUS
    <3> QED
      BY <1>0, <2>2, <3>1, <3>2, Zenon DEF TraceInv
  <2>4. CASE ~held
    <3>1. absent' = absent
      BY <2>1, <2>4
    <3>2. Held' => Held
      BY <2>1, <2>2, <2>4, Zenon DEF Held
    <3> QED
      BY <1>0, <2>2, <3>1, <3>2 DEF TraceInv
  <2> QED
    BY <2>3, <2>4
<1>2. CASE native_mouse
  <2>1. \A s \in stores' : s.at \notin {"down", "pointer latch"}
    BY <1>2, MouseEvent, Zenon
  <2>2. /\ g_pointer_down' = g_pointer_down /\ g_pointer_latched' = g_pointer_latched
        /\ core_pc' = core_pc /\ unread' = unread /\ pointer' = pointer
        /\ g_pointer_seen' = g_pointer_seen /\ absent' = absent
    BY <1>2 DEF native_mouse, shared, polled
  <2>3. Held' => Held
    BY <2>1, <2>2, Zenon DEF Held
  <2> QED
    BY <1>0, <2>2, <2>3 DEF TraceInv
<1>3. ASSUME NEW s \in stores, store(s)
      PROVE  TraceInv'
  <2>1. /\ core_pc' = core_pc /\ unread' = unread /\ pointer' = pointer
        /\ g_pointer_seen' = g_pointer_seen /\ absent' = absent
    BY <1>3 DEF store, polled
  <2>2. Held' => Held
    <3>1. stores' \subseteq stores
      BY <1>3 DEF store
    <3>2. g_pointer_down' => Held
      BY <1>0, <1>3, Arrival, Zenon DEF Held
    <3> QED
      BY <3>1, <3>2, Zenon DEF Held
  <2>3. g_pointer_latched' => g_pointer_latched \/ Held
    <3>1. CASE s.at = "pointer latch"
      <4>1. s.to
        BY <1>0, <3>1, Zenon DEF StoresInv
      <4> QED
        BY <3>1, <4>1, Zenon DEF Held
    <3>2. CASE s.at # "pointer latch"
      BY <1>0, <1>3, <3>2, Arrival, Zenon
    <3> QED
      BY <3>1, <3>2
  <2> QED
    BY <1>0, <2>1, <2>2, <2>3 DEF TraceInv
<1>4. CASE input_poll
  <2>1. /\ g_pointer_down' = g_pointer_down /\ g_pointer_latched' = g_pointer_latched
        /\ stores' = stores /\ pointer' = pointer /\ g_pointer_seen' = g_pointer_seen
        /\ core_pc = "run" /\ core_pc' = "poll"
        /\ unread' = {"down", "pointer latch", "buttons", "mouse latch"}
    BY <1>4 DEF input_poll, shared
  <2>2. absent' = IF Held THEN 0 ELSE IF absent < 2 THEN absent + 1 ELSE 2
    BY <1>4 DEF input_poll
  <2>3. Held' <=> Held
    BY <2>1, Zenon DEF Held
  <2>4. ~pointer /\ (g_pointer_latched => absent = 0)
    BY <1>0, <2>1 DEF TraceInv
  <2>5. absent' \in 0 .. 2 /\ (Held => absent' = 0) /\ (absent = 0 => absent' \in {0, 1})
    <3>1. absent \in 0 .. 2 /\ (Held => absent = 0)
      BY <1>0, Zenon DEF TraceInv
    <3>2. CASE Held
      <4>1. absent' = 0
        BY <2>2, <3>2, Zenon
      <4> QED
        BY <4>1
    <3>3. CASE ~Held
      <4>1. absent' = IF absent < 2 THEN absent + 1 ELSE 2
        BY <2>2, <3>3, Zenon
      <4>2. absent' \in 0 .. 2 /\ (absent = 0 => absent' \in {0, 1})
        BY <3>1, <4>1
      <4> QED
        BY <3>3, <4>2, Zenon
    <3> QED
      BY <3>2, <3>3
  <2>6. 0 \in 0 .. 1 /\ 1 \in 0 .. 1
    OBVIOUS
  <2> QED
    BY <1>0, <2>1, <2>3, <2>4, <2>5, <2>6 DEF TraceInv
<1>5. ASSUME NEW v \in unread, poll_read(v)
      PROVE  TraceInv'
  <2>1. /\ g_pointer_down' = g_pointer_down /\ stores' = stores /\ absent' = absent
        /\ core_pc = "poll" /\ core_pc' = core_pc /\ unread' = unread \ {v}
    BY <1>5 DEF poll_read
  <2>2. Held' <=> Held
    BY <2>1, Zenon DEF Held
  <2>3. pointer' => pointer \/ Held \/ g_pointer_latched
    BY <1>5, Zenon DEF poll_read, Held
  <2>4. g_pointer_latched' => g_pointer_latched /\ v # "pointer latch"
    BY <1>5, Zenon DEF poll_read, Exchanged
  <2>5. 0 \in 0 .. 1 /\ 1 \in 0 .. 1
    OBVIOUS
  <2>6. g_pointer_latched' =>
          absent' = 0 \/ (absent' = 1 /\ core_pc' = "poll" /\ "pointer latch" \in unread')
    BY <1>0, <2>1, <2>4, Zenon DEF TraceInv
  <2>7. pointer' => core_pc' = "poll" /\ absent' \in 0 .. 1
    BY <1>0, <2>1, <2>3, <2>5, Zenon DEF TraceInv
  <2> QED
    BY <1>0, <2>1, <2>2, <2>6, <2>7, Zenon DEF TraceInv
<1>6. CASE poll_done
  <2>1. /\ g_pointer_down' = g_pointer_down /\ g_pointer_latched' = g_pointer_latched
        /\ stores' = stores /\ absent' = absent /\ unread = {}
        /\ core_pc' = "run" /\ g_pointer_seen' = pointer /\ pointer' = FALSE
    BY <1>6 DEF poll_done, PollDone
  <2>2. Held' <=> Held
    BY <2>1, Zenon DEF Held
  <2> QED
    BY <1>0, <2>1, <2>2 DEF TraceInv
<1>7. CASE mouse_x \/ mouse_last_x \/ UNCHANGED vars
  <2>1. /\ g_pointer_down' = g_pointer_down /\ g_pointer_latched' = g_pointer_latched
        /\ stores' = stores /\ absent' = absent /\ unread' = unread
        /\ pointer' = pointer /\ g_pointer_seen' = g_pointer_seen
        /\ \/ core_pc' = core_pc
           \/ core_pc # "poll" /\ core_pc' # "poll"
    BY <1>7 DEF mouse_x, mouse_last_x, vars, shared, polled
  <2>2. Held' <=> Held
    BY <2>1, Zenon DEF Held
  <2> QED
    BY <1>0, <2>1, <2>2 DEF TraceInv
<1> QED
  BY <1>1, <1>2, <1>3, <1>4, <1>5, <1>6, <1>7 DEF Next, HostNext, PollNext

LEMMA InvNext == IInv /\ [Next]_vars => IInv'
BY StoresNext, FlagsNext, TraceNext DEF IInv
-----------------------------------------------------------------------------
(* A tap that is over before the core polls is not lost, nor is a click:   *)
(* what the core was not told of yet is latched, in the poll under way, or *)
(* still being stored, in every order the stores arrive and are read.      *)
THEOREM NoPressLost == Spec => []PressNeverLost
<1>1. Init => IInv /\ PressNeverLost
  BY InitInv
<1>2. (IInv /\ PressNeverLost) /\ [Next]_vars => (IInv /\ PressNeverLost)'
  BY InvNext, PressNext
<1> QED
  BY <1>1, <1>2, PTL DEF Spec

(* A touch is not reported a second time: one that a finished poll saw was *)
(* held when that poll or the one before it began, or later.               *)
THEOREM NoTouchTwice == Spec => []NoGhostTouch
<1>1. Init => IInv
  BY InitInv
<1>2. IInv => NoGhostTouch
  <2> SUFFICES ASSUME IInv, core_pc # "poll", g_pointer_seen
               PROVE  absent <= 1
    BY DEF NoGhostTouch
  <2>1. absent \in 0 .. 1
    BY Zenon DEF IInv, TraceInv
  <2> QED
    BY <2>1
<1> QED
  BY <1>1, <1>2, InvNext, PTL DEF Spec
=============================================================================
