-------------------------------- MODULE HostView -------------------------------
(***************************************************************************)
(* What a session promises the host that plays it: a core hands over whole *)
(* pictures, all of the first one's size; the latest is kept for the host, *)
(* which takes it once; and the end is told after it.  Threads, the lock,  *)
(* rows, waiting and the ways a core is started and stopped are not seen.  *)
(***************************************************************************)
EXTENDS Integers

CONSTANTS
  Plugins,   \* the plugin objects
  Sizes,     \* the sizes [w, h] a picture may have
  NULL

VARIABLES
  handed,                      \* pictures handed over so far
  frame_width, frame_height,   \* the size of all pictures; 0 before the first
  picture,                     \* the latest, or NULL
  fresh,                       \* no call of step() has taken it
  over,                        \* the core has ended
  life,                        \* each plugin: "new", "live", "failed", "destroyed"
  width, height,               \* what it was told of the size, or NULL
  pixels,                      \* its array
  step_result                  \* what step() returned last, or NULL

handover == <<handed, frame_width, frame_height, picture, fresh, over>>
told     == <<width, height, pixels, step_result>>
vars     == <<handover, life, told>>

Init ==
  /\ handed = 0 /\ frame_width = 0 /\ frame_height = 0
  /\ picture = NULL /\ fresh = FALSE /\ over = FALSE
  /\ life = [p \in Plugins |-> "new"]
  /\ width = [p \in Plugins |-> NULL] /\ height = [p \in Plugins |-> NULL]
  /\ pixels = [p \in Plugins |-> NULL]
  /\ step_result = [p \in Plugins |-> NULL]
-----------------------------------------------------------------------------
(* A plugin gets the process's one core, or never one.                     *)
Start(p) ==
  /\ \A q \in Plugins : life[q] \in {"new", "failed"}
  /\ life[p] = "new"
  /\ life' = [life EXCEPT ![p] = "live"]
  /\ UNCHANGED <<handover, told>>

Refuse(p) ==
  /\ life[p] = "new"
  /\ life' = [life EXCEPT ![p] = "failed"]
  /\ UNCHANGED <<handover, told>>

Destroy(p) ==
  /\ life[p] = "live"
  /\ life' = [life EXCEPT ![p] = "destroyed"]
  /\ UNCHANGED <<handover, told>>

HadCore(p) == life[p] \in {"live", "destroyed"}
-----------------------------------------------------------------------------
Running == ~over /\ \E p \in Plugins : HadCore(p)

(* The n-th picture, h rows high, brought to a height of `rows`.           *)
Scaled(n, h, rows) ==
  [y \in 0 .. rows - 1 |-> [n |-> n, h |-> h, at |-> (y * h) \div rows]]

HandOver(s) ==
  /\ Running
  /\ handed' = handed + 1
  /\ IF picture = NULL THEN frame_width' = s.w /\ frame_height' = s.h
                       ELSE UNCHANGED <<frame_width, frame_height>>
  /\ picture' = Scaled(handed', s.h, frame_height')
  /\ fresh' = TRUE
  /\ UNCHANGED <<over, life, told>>

(* Only before the first can a picture be lost.                            *)
Lose ==
  /\ Running /\ picture = NULL
  /\ handed' = handed + 1
  /\ UNCHANGED <<frame_width, frame_height, picture, fresh, over, life, told>>

End ==
  /\ Running
  /\ over' = TRUE
  /\ UNCHANGED <<handed, frame_width, frame_height, picture, fresh, life, told>>
-----------------------------------------------------------------------------
(* The width is told, then the height: the picture's, or 0 to a plugin     *)
(* that did not wait any longer.                                           *)
Tell(p, size) ==
  IF width[p] = NULL
  THEN width' = [width EXCEPT ![p] = size.w] /\ UNCHANGED height
  ELSE height' = [height EXCEPT ![p] = size.h] /\ UNCHANGED width

TellSize(p) ==
  /\ HadCore(p) /\ height[p] = NULL
  /\ \/ Tell(p, [w |-> frame_width, h |-> frame_height])
     \/ Tell(p, [w |-> 0, h |-> 0])
  /\ UNCHANGED <<handover, life, pixels, step_result>>

Returns(p, result) == step_result' = [step_result EXCEPT ![p] = result]

Fits(p) == width[p] * height[p] >= frame_width * frame_height

(* A picture is taken by one call, into an array it fits into.             *)
Take(p) ==
  /\ HadCore(p) /\ height[p] # NULL
  /\ fresh /\ fresh' = FALSE
  /\ IF Fits(p)
     THEN pixels' = [pixels EXCEPT ![p] = picture] /\ Returns(p, frame_height)
     ELSE Returns(p, 0) /\ UNCHANGED pixels
  /\ UNCHANGED <<handed, frame_width, frame_height, picture, over, life, width, height>>

(* Nothing new: 0, or -1 after the end.                                    *)
NothingNew(p) ==
  /\ HadCore(p) /\ height[p] # NULL
  /\ ~fresh
  /\ Returns(p, IF over THEN -1 ELSE 0)
  /\ UNCHANGED <<handover, life, width, height, pixels>>

(* A destroyed plugin is told the end, whatever the core does.             *)
Gone(p) ==
  /\ life[p] = "destroyed" /\ height[p] # NULL
  /\ Returns(p, -1)
  /\ UNCHANGED <<handover, life, width, height, pixels>>
-----------------------------------------------------------------------------
Next ==
  \/ Lose \/ End \/ \E s \in Sizes : HandOver(s)
  \/ \E p \in Plugins :
       \/ Start(p) \/ Refuse(p) \/ Destroy(p)
       \/ TellSize(p) \/ Take(p) \/ NothingNew(p) \/ Gone(p)

Spec == Init /\ [][Next]_vars
=============================================================================
