------------------------------ MODULE CoreSession ------------------------------
(***************************************************************************)
(* One libretro core in one process: the thread native_start gives it, the *)
(* store its pictures go to, and the plugin objects of the host that start *)
(* it, ask for its picture's size, take its pictures and stop it           *)
(* (enginehost_libretro.c and LibretroPlugin.java).                        *)
(*                                                                         *)
(* Variables of the C file keep their names (g_...).  Every access to the  *)
(* picture store is made under g_frame_lock.  The core's drawing is split  *)
(* into rows and holds the lock across steps; a critical section of the    *)
(* host touches nothing outside the lock, so it is one step that needs the *)
(* lock free.  Columns are scaled exactly as rows are and are left out.    *)
(***************************************************************************)
EXTENDS Integers

CONSTANTS
  Plugins,      \* the LibretroPlugin objects created in this process
  Sizes,        \* the sizes [w, h] the core's pictures may have
  MaxPictures,  \* bound: pictures the core hands over in a behaviour
  CoreThread,   \* the owner of g_frame_lock while the core draws
  NULL

(* What a row of the picture store holds: row `at` of the n-th picture,    *)
(* which is h rows high.                                                   *)
Rows == [n : 0 .. MaxPictures, h : Nat, at : Nat]

ASSUME SessionAssumption ==
  /\ Sizes \subseteq [w : Nat \ {0}, h : Nat \ {0}]
  /\ MaxPictures \in Nat
  /\ NULL \notin Plugins
  /\ NULL \notin Int
  /\ \A s \in Sizes : NULL \notin [0 .. s.h - 1 -> Rows]
  /\ CoreThread # NULL

VARIABLES
  g_content_path,   \* a content path is recorded: this process has had its start
  g_error,          \* the message nativeError gives
  g_stop, g_shutdown,
  g_frame_lock,     \* NULL, or CoreThread while it draws
  g_frame,          \* NULL, or the picture store: row number -> what is in it
  g_frame_width, g_frame_height, g_frame_new, g_ended, g_failed,
  core_pc,          \* where the core's thread is
  drawn,            \* pictures handed to video_refresh so far
  size,             \* size of the picture being drawn
  row,              \* next row of the store to be written
  life,             \* each plugin: "new", "live" (core # 0), "failed", "destroyed"
  host_pc,          \* where the host's call into each plugin is
  width, height,    \* what pixelWidth() and pixelHeight() answered, or NULL
  pixels,           \* the host's array for each plugin
  step_result       \* what step() returned last, or NULL

session == <<g_content_path, g_error, g_stop, g_shutdown>>
store   == <<g_frame_lock, g_frame, g_frame_width, g_frame_height, g_frame_new,
             g_ended, g_failed>>
core    == <<core_pc, drawn, size, row>>
host    == <<life, host_pc, width, height, pixels, step_result>>
vars    == <<session, store, core, host>>

Init ==
  /\ g_content_path = FALSE /\ g_error = "" /\ g_stop = FALSE /\ g_shutdown = FALSE
  /\ g_frame_lock = NULL /\ g_frame = NULL /\ g_frame_width = 0 /\ g_frame_height = 0
  /\ g_frame_new = FALSE /\ g_ended = FALSE /\ g_failed = FALSE
  /\ core_pc = "none" /\ drawn = 0 /\ size = NULL /\ row = 0
  /\ life = [p \in Plugins |-> "new"]
  /\ host_pc = [p \in Plugins |-> "idle"]
  /\ width = [p \in Plugins |-> NULL] /\ height = [p \in Plugins |-> NULL]
  /\ pixels = [p \in Plugins |-> NULL]
  /\ step_result = [p \in Plugins |-> NULL]

-----------------------------------------------------------------------------
(* The lock and the condition variable g_frame_ready. *)

LockFree_Ignored == TRUE
LockFree == g_frame_lock = NULL

(* pthread_cond_broadcast: every host call in pthread_cond_timedwait wakes. *)
Broadcast_Lost(pcs) == pcs
Broadcast(pcs) ==
  [p \in Plugins |-> IF pcs[p] = "waiting" THEN "checking" ELSE pcs[p]]

-----------------------------------------------------------------------------
(* The core's thread: core_main, and the callbacks the core makes on it.   *)
(*   "load"  retro_init and retro_load_game     "run"  inside retro_run    *)
(*   "loop"  the head of the frame loop         "draw" inside video_refresh *)
(*   "end0", "end1"  before finish(0), finish(1)                           *)
(*   "gone"  returned      "exited"  the engine called exit()              *)

load_game ==
  /\ core_pc = "load"
  /\ \/ core_pc' = "loop" /\ UNCHANGED g_error
     \/ core_pc' = "end1" /\ g_error' = "could not load"
  /\ UNCHANGED <<g_content_path, g_stop, g_shutdown, store, drawn, size, row, host>>

KeepRunning_AfterStop == ~g_shutdown
KeepRunning == ~g_stop /\ ~g_shutdown

(* The frame loop's condition: another retro_run, or unload and deinit. *)
frame_loop ==
  /\ core_pc = "loop"
  /\ core_pc' = IF KeepRunning THEN "run" ELSE "end0"
  /\ UNCHANGED <<session, store, drawn, size, row, host>>

retro_run_returns ==
  /\ core_pc = "run"
  /\ core_pc' = "loop"
  /\ UNCHANGED <<session, store, drawn, size, row, host>>

(* RETRO_ENVIRONMENT_SHUTDOWN, from retro_load_game or retro_run. *)
environment_shutdown ==
  /\ core_pc \in {"load", "run"}
  /\ g_shutdown' = TRUE
  /\ UNCHANGED <<g_content_path, g_error, g_stop, store, core, host>>

(* The engine calls exit() and the host's table has one that ends only     *)
(* the calling thread: the core's thread is over without a finish().       *)
exit ==
  /\ core_pc \in {"load", "run"}
  /\ core_pc' = "exited"
  /\ UNCHANGED <<session, store, drawn, size, row, host>>

Row(n, h, at) == [n |-> n, h |-> h, at |-> at]
Blank == Row(0, 1, 0)

SourceRow_Unscaled(y, h) == y
SourceRow(y, h) ==
  IF g_frame_height = h THEN y ELSE (y * h) \div g_frame_height

(* The store is made with the first picture's size and keeps it. *)
MakeStore_PerSize(s) ==
  IF g_frame = NULL \/ g_frame_width # s.w \/ g_frame_height # s.h
  THEN /\ g_frame' = [y \in 0 .. s.h - 1 |-> Blank]
       /\ g_frame_width' = s.w /\ g_frame_height' = s.h
  ELSE UNCHANGED <<g_frame, g_frame_width, g_frame_height>>
MakeStore(s) ==
  IF g_frame = NULL
  THEN /\ g_frame' = [y \in 0 .. s.h - 1 |-> Blank]
       /\ g_frame_width' = s.w /\ g_frame_height' = s.h
  ELSE UNCHANGED <<g_frame, g_frame_width, g_frame_height>>

(* video_refresh up to its row loop.  A duplicate (no data) changes nothing. *)
video_refresh ==
  /\ core_pc = "run" /\ drawn < MaxPictures /\ LockFree
  /\ \E s \in Sizes :
       /\ size' = s
       /\ MakeStore(s)
  /\ drawn' = drawn + 1
  /\ row' = 0
  /\ g_frame_lock' = CoreThread
  /\ core_pc' = "draw"
  /\ UNCHANGED <<session, g_frame_new, g_ended, g_failed, host>>

(* The store's malloc fails: the lock is given back, the picture is lost. *)
video_refresh_no_memory_Locked ==
  /\ core_pc = "run" /\ drawn < MaxPictures /\ LockFree /\ g_frame = NULL
  /\ drawn' = drawn + 1
  /\ g_frame_lock' = CoreThread
  /\ UNCHANGED <<session, g_frame, g_frame_width, g_frame_height, g_frame_new,
                 g_ended, g_failed, core_pc, size, row, host>>
video_refresh_no_memory ==
  /\ core_pc = "run" /\ drawn < MaxPictures /\ LockFree /\ g_frame = NULL
  /\ drawn' = drawn + 1
  /\ UNCHANGED <<session, store, core_pc, size, row, host>>

RowsLeft_OneMore == row <= g_frame_height
RowsLeft == row < g_frame_height

video_refresh_row ==
  /\ core_pc = "draw" /\ RowsLeft
  /\ g_frame' = [g_frame EXCEPT ![row] = Row(drawn, size.h, SourceRow(row, size.h))]
  /\ row' = row + 1
  /\ UNCHANGED <<session, g_frame_lock, g_frame_width, g_frame_height, g_frame_new,
                 g_ended, g_failed, core_pc, drawn, size, host>>

MarkNew_FirstOnly == IF drawn = 1 THEN TRUE ELSE g_frame_new
MarkNew == TRUE

video_refresh_done ==
  /\ core_pc = "draw" /\ row = g_frame_height
  /\ g_frame_new' = MarkNew
  /\ host_pc' = Broadcast(host_pc)
  /\ g_frame_lock' = NULL
  /\ core_pc' = "run"
  /\ UNCHANGED <<session, g_frame, g_frame_width, g_frame_height, g_ended, g_failed,
                 drawn, size, row, life, width, height, pixels, step_result>>

(* finish(failed), after retro_deinit; the thread returns. *)
finish_OnlyFailure(failed) ==
  /\ LockFree
  /\ g_ended' = failed /\ g_failed' = failed
  /\ host_pc' = Broadcast(host_pc)
finish(failed) ==
  /\ LockFree
  /\ g_ended' = TRUE /\ g_failed' = failed
  /\ host_pc' = Broadcast(host_pc)

core_main_finish ==
  /\ core_pc \in {"end0", "end1"}
  /\ finish(core_pc = "end1")
  /\ core_pc' = "gone"
  /\ UNCHANGED <<session, g_frame_lock, g_frame, g_frame_width, g_frame_height,
                 g_frame_new, drawn, size, row, life, width, height, pixels,
                 step_result>>

-----------------------------------------------------------------------------
(* The host's calls.  The host calls onCreate on one thread, and uses a    *)
(* plugin's pixelWidth, pixelHeight and step one at a time; onDestroy may  *)
(* come while such a call is under way.                                    *)

CoreTaken_Never == FALSE
CoreTaken == g_content_path

(* onCreate: native_start refuses, cannot make the thread, or starts it. *)
native_start(p) ==
  /\ life[p] = "new" /\ host_pc[p] = "idle"
  /\ \/ /\ CoreTaken
        /\ g_error' = "already running"
        /\ host_pc' = [host_pc EXCEPT ![p] = "error"]
        /\ UNCHANGED <<g_content_path, core_pc, life>>
     \/ /\ ~CoreTaken
        /\ g_content_path' = TRUE
        /\ g_error' = "no thread"
        /\ host_pc' = [host_pc EXCEPT ![p] = "error"]
        /\ UNCHANGED <<core_pc, life>>
     \/ /\ ~CoreTaken
        /\ g_content_path' = TRUE
        /\ core_pc' = "load"
        /\ life' = [life EXCEPT ![p] = "live"]
        /\ UNCHANGED <<g_error, host_pc>>
  /\ UNCHANGED <<g_stop, g_shutdown, store, drawn, size, row, width, height, pixels,
                 step_result>>

(* onCreate throws IOException(nativeError()). *)
native_error(p) ==
  /\ host_pc[p] = "error"
  /\ life' = [life EXCEPT ![p] = "failed"]
  /\ host_pc' = [host_pc EXCEPT ![p] = "idle"]
  /\ UNCHANGED <<session, store, core, width, height, pixels, step_result>>

(* pixelWidth() is asked, then pixelHeight(): while one has no answer yet. *)
Asking(p) == host_pc[p] = "idle" /\ height[p] = NULL
Stepping(p) == host_pc[p] = "idle" /\ height[p] # NULL

AnswerSize(p, w, h) ==
  IF width[p] = NULL
  THEN width' = [width EXCEPT ![p] = w] /\ UNCHANGED height
  ELSE height' = [height EXCEPT ![p] = h] /\ UNCHANGED width

(* Where the plugin has no core, 0 is answered without a native call. *)
pixel_size(p) ==
  /\ Asking(p)
  /\ \/ /\ life[p] = "live"
        /\ host_pc' = [host_pc EXCEPT ![p] = "checking"]
        /\ UNCHANGED <<width, height>>
     \/ /\ life[p] = "destroyed"
        /\ AnswerSize(p, 0, 0)
        /\ UNCHANGED host_pc
  /\ UNCHANGED <<session, store, core, life, pixels, step_result>>

(* The condition of wait_first_frame's loop, and its answer after the loop. *)
KeepWaiting == g_frame = NULL /\ ~g_ended
Answer(p) == [host_pc EXCEPT ![p] = IF g_frame # NULL THEN "ready" ELSE "not ready"]

wait_first_frame(p) ==
  /\ host_pc[p] = "checking" /\ LockFree
  /\ host_pc' = IF KeepWaiting THEN [host_pc EXCEPT ![p] = "waiting"] ELSE Answer(p)
  /\ UNCHANGED <<session, store, core, life, width, height, pixels, step_result>>

(* pthread_cond_timedwait may wake with no broadcast. *)
spurious_wakeup(p) ==
  /\ host_pc[p] = "waiting"
  /\ host_pc' = [host_pc EXCEPT ![p] = "checking"]
  /\ UNCHANGED <<session, store, core, life, width, height, pixels, step_result>>

(* Fifty seconds have passed: ETIMEDOUT, once the lock is held again. *)
wait_times_out_Again(p) ==
  /\ host_pc[p] = "waiting" /\ LockFree
  /\ host_pc' = IF KeepWaiting THEN host_pc ELSE Answer(p)
  /\ UNCHANGED <<session, store, core, life, width, height, pixels, step_result>>
wait_times_out(p) ==
  /\ host_pc[p] = "waiting" /\ LockFree
  /\ host_pc' = Answer(p)
  /\ UNCHANGED <<session, store, core, life, width, height, pixels, step_result>>

(* native_width, native_height: the store's size, read without the lock, or 0. *)
native_size(p) ==
  /\ \/ host_pc[p] = "ready" /\ AnswerSize(p, g_frame_width, g_frame_height)
     \/ host_pc[p] = "not ready" /\ AnswerSize(p, 0, 0)
  /\ host_pc' = [host_pc EXCEPT ![p] = "idle"]
  /\ UNCHANGED <<session, store, core, life, pixels, step_result>>

(* step(): -1 at once where the plugin has no core any more. *)
step(p) ==
  /\ Stepping(p)
  /\ \/ /\ life[p] = "live"
        /\ host_pc' = [host_pc EXCEPT ![p] = "step"]
        /\ UNCHANGED step_result
     \/ /\ life[p] = "destroyed"
        /\ step_result' = [step_result EXCEPT ![p] = -1]
        /\ UNCHANGED host_pc
  /\ UNCHANGED <<session, store, core, life, width, height, pixels>>

(* The host sizes its array by the answers, once. *)
ArrayFits_Unasked(p) == TRUE
ArrayFits(p) == width[p] * height[p] >= g_frame_width * g_frame_height

NoPicture_OnceEnded == ~g_frame_new \/ g_ended
NoPicture == ~g_frame_new

native_step(p) ==
  /\ host_pc[p] = "step" /\ LockFree
  /\ IF NoPicture
     THEN /\ step_result' = [step_result EXCEPT ![p] = IF g_ended THEN -1 ELSE 0]
          /\ UNCHANGED <<g_frame_new, pixels>>
     ELSE /\ g_frame_new' = FALSE
          /\ IF ArrayFits(p)
             THEN /\ pixels' = [pixels EXCEPT ![p] = g_frame]
                  /\ step_result' = [step_result EXCEPT ![p] = g_frame_height]
             ELSE /\ step_result' = [step_result EXCEPT ![p] = 0]
                  /\ UNCHANGED pixels
  /\ host_pc' = [host_pc EXCEPT ![p] = "idle"]
  /\ UNCHANGED <<session, g_frame_lock, g_frame, g_frame_width, g_frame_height,
                 g_ended, g_failed, core, life, width, height>>

native_stop_Ends ==
  /\ g_stop' = TRUE
  /\ g_ended' = TRUE
native_stop ==
  /\ g_stop' = TRUE
  /\ UNCHANGED g_ended

onDestroy(p) ==
  /\ life[p] = "live"
  /\ native_stop
  /\ life' = [life EXCEPT ![p] = "destroyed"]
  /\ UNCHANGED <<g_content_path, g_error, g_shutdown, g_frame_lock, g_frame,
                 g_frame_width, g_frame_height, g_frame_new, g_failed, core,
                 host_pc, width, height, pixels, step_result>>

-----------------------------------------------------------------------------
core_main ==
  \/ load_game \/ frame_loop \/ retro_run_returns
  \/ video_refresh_row \/ video_refresh_done \/ core_main_finish

CoreNext ==
  \/ core_main \/ environment_shutdown \/ exit
  \/ video_refresh \/ video_refresh_no_memory

HostNext(p) ==
  \/ native_start(p) \/ native_error(p)
  \/ pixel_size(p) \/ wait_first_frame(p) \/ spurious_wakeup(p)
  \/ wait_times_out(p) \/ native_size(p) \/ step(p) \/ native_step(p)
  \/ onDestroy(p)

Next == CoreNext \/ \E p \in Plugins : HostNext(p)

(* The core's thread keeps running: retro_load_game and every retro_run    *)
(* return, whatever they draw first (strong fairness).  A call the host    *)
(* has made completes, a wait ends after fifty seconds, and the host steps *)
(* as long as its plugin lives.  The core gives the lock back once per     *)
(* picture and sleeps between frames, so a host call that finds it free    *)
(* again and again gets it (strong fairness).  Nothing obliges the core to *)
(* draw, to shut down or to exit, nor the host to create or destroy a      *)
(* plugin.                                                                 *)
Fairness ==
  /\ WF_vars(core_main) /\ SF_vars(retro_run_returns)
  /\ \A p \in Plugins :
       /\ WF_vars(native_error(p)) /\ WF_vars(native_size(p))
       /\ WF_vars(step(p)) /\ SF_vars(wait_first_frame(p))
       /\ SF_vars(wait_times_out(p))
       /\ SF_vars(native_step(p))

Spec == Init /\ [][Next]_vars
FairSpec == Spec /\ Fairness
-----------------------------------------------------------------------------
Answers == Nat \union {NULL}

SessionType ==
  /\ g_content_path \in BOOLEAN /\ g_stop \in BOOLEAN /\ g_shutdown \in BOOLEAN
  /\ g_error \in {"", "already running", "no thread", "could not load"}

StoreType ==
  /\ g_frame_lock \in {NULL, CoreThread}
  /\ g_frame_width \in Nat /\ g_frame_height \in Nat
  /\ g_frame # NULL => g_frame \in [0 .. g_frame_height - 1 -> Rows]
  /\ g_frame_new \in BOOLEAN /\ g_ended \in BOOLEAN /\ g_failed \in BOOLEAN

CoreType ==
  /\ core_pc \in {"none", "load", "loop", "run", "draw", "end0", "end1", "gone", "exited"}
  /\ drawn \in 0 .. MaxPictures
  /\ size \in Sizes \union {NULL}
  /\ row \in 0 .. g_frame_height

HostType ==
  /\ life \in [Plugins -> {"new", "live", "failed", "destroyed"}]
  /\ host_pc \in [Plugins -> {"idle", "error", "checking", "waiting", "ready",
                              "not ready", "step"}]
  /\ width \in [Plugins -> Answers] /\ height \in [Plugins -> Answers]
  /\ step_result \in [Plugins -> Nat \union {-1, NULL}]
  /\ pixels = [p \in Plugins |-> pixels[p]]

(* Every variable has its type; the store, once made, is g_frame_height    *)
(* rows high, whichever picture made it.                                   *)
TypeOK == SessionType /\ StoreType /\ CoreType /\ HostType

(* The picture the host holds is one whole picture the core handed over,   *)
(* scaled to the store: never rows of two pictures, never rows of a store  *)
(* not yet drawn (g_frame_lock across video_refresh and native_step).      *)
Whole(f) ==
  \E n \in 1 .. drawn, s \in Sizes :
    f = [y \in 0 .. g_frame_height - 1 |-> Row(n, s.h, SourceRow(y, s.h))]
WholePicture == \A p \in Plugins : pixels[p] = NULL \/ Whole(pixels[p])

(* Scaling reads only rows the core's picture has: video_refresh never     *)
(* reads past the picture, whatever its size and the store's.              *)
SourceRowsInside ==
  g_frame # NULL => \A y \in 0 .. g_frame_height - 1 : g_frame[y].at < g_frame[y].h

(* The host sizes its array once, so a size it was told is the size of     *)
(* every picture it is ever given (video_refresh keeps the first size).    *)
SizeIsFirstPicture ==
  \A p \in Plugins : /\ width[p] \in {NULL, 0, g_frame_width}
                     /\ height[p] \in {NULL, 0, g_frame_height}

(* No picture is lost between the core and the host: when the store holds  *)
(* nothing new, a plugin has the latest picture in its array, or had an    *)
(* array too small for it (g_frame_new).                                   *)
LatestReachesHost ==
  g_frame # NULL /\ LockFree /\ ~g_frame_new =>
    \E p \in Plugins : height[p] # NULL /\ (ArrayFits(p) => pixels[p] = g_frame)

(* The host learns that the game ended only after it was given the last    *)
(* picture: native_step answers -1 when g_ended and nothing new is left.   *)
EndAfterLastPicture ==
  \A p \in Plugins : step_result[p] = -1 /\ life[p] = "live" =>
    g_ended /\ (g_frame = NULL \/ (ArrayFits(p) => pixels[p] = g_frame))

(* One plugin has the core, and no start, refused or not, ever gives a     *)
(* second plugin a core that the first one's onDestroy already stopped.    *)
OneCore ==
  \A p \in Plugins : life[p] = "live" =>
    ~g_stop /\ \A q \in Plugins \ {p} : life[q] \in {"new", "failed"}

(* No call of wait_first_frame sleeps once there is something to answer.   *)
NoLostWakeup ==
  g_ended \/ (g_frame # NULL /\ LockFree) =>
    \A p \in Plugins : host_pc[p] # "waiting"

(* After finish() the core's thread is gone: it changes nothing the host   *)
(* reads, and no later call of the host starts it or makes it run again.   *)
EndedIsFinal ==
  [][g_ended => g_ended' /\ UNCHANGED <<g_frame, g_failed, core, g_frame_lock>>]_vars

(* The host sees none of the core's drawing: to it every picture is handed *)
(* over in one step, every call of step() takes one or finds none, and the *)
(* threads, rows, waits and timeouts in between keep what HostView         *)
(* promises.  A picture counts as handed over when the core has the lock.  *)
Drawn  == [y \in 0 .. g_frame_height - 1 |-> Row(drawn, size.h, SourceRow(y, size.h))]
Latest == IF core_pc = "draw" THEN Drawn ELSE g_frame
Fresh  == IF core_pc = "draw" THEN TRUE ELSE g_frame_new
View == INSTANCE HostView WITH
  handed <- drawn, frame_width <- g_frame_width, frame_height <- g_frame_height,
  picture <- Latest, fresh <- Fresh, over <- g_ended
KeepsHostView == View!Spec

(* onDestroy ends the core's thread: it sees g_stop at the next frame.     *)
StopEndsCore == g_stop ~> core_pc \in {"gone", "exited"}

(* pixelWidth() and pixelHeight() always answer, picture or not.           *)
QuestionAnswered ==
  \A p \in Plugins : host_pc[p] \in {"checking", "waiting"} ~> host_pc[p] = "idle"

(* step() always returns: nobody keeps g_frame_lock, not even a            *)
(* video_refresh that has no memory for the store.                         *)
StepReturns == \A p \in Plugins : host_pc[p] = "step" ~> host_pc[p] # "step"

(* A host that goes on stepping learns that the core has ended.            *)
EndIsSeen ==
  \A p \in Plugins :
    core_pc = "gone" /\ life[p] = "live" /\ height[p] # NULL
      ~> step_result[p] = -1

(* What native_start's message says: a core is already running.            *)
RefusedWhileRunning == g_error = "already running" => core_pc # "none"
=============================================================================
