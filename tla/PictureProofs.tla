----------------------------- MODULE PictureProofs -----------------------------
(***************************************************************************)
(* More theorems about CoreSession, on top of its inductive invariant: the *)
(* size the host was told, the rows scaling reads, the latest picture, and *)
(* the end and what comes before it.                                       *)
(***************************************************************************)
EXTENDS CoreSessionProofs

(* Once made, the store stays, and keeps the size of the first picture.    *)
LEMMA StoreKept ==
  ASSUME TypeOK, NotStarted, PictureInv, [Next]_vars, g_frame # NULL
  PROVE  g_frame' # NULL /\ UNCHANGED <<g_frame_width, g_frame_height>>
<1>1. CASE video_refresh
  BY <1>1 DEF video_refresh, MakeStore
<1>2. CASE video_refresh_row
  <2>1. core_pc' = "draw" /\ UNCHANGED <<g_frame_width, g_frame_height>>
    BY <1>2 DEF video_refresh_row
  <2>2. Drawing'
    BY PictureNext DEF PictureInv
  <2> QED
    BY <2>1, <2>2 DEF Drawing
<1>3. CASE \/ load_game \/ frame_loop \/ retro_run_returns \/ video_refresh_done
           \/ core_main_finish \/ environment_shutdown \/ exit
           \/ video_refresh_no_memory
  BY <1>3 DEF load_game, frame_loop, retro_run_returns, video_refresh_done,
     core_main_finish, environment_shutdown, exit, video_refresh_no_memory, store
<1>4. ASSUME NEW p \in Plugins, HostNext(p)
      PROVE  UNCHANGED <<g_frame, g_frame_width, g_frame_height>>
  BY <1>4 DEF HostNext, native_start, native_error, pixel_size, wait_first_frame,
     spurious_wakeup, wait_times_out, native_size, step, native_step, onDestroy, store
<1>5. CASE UNCHANGED vars
  BY <1>5 DEF vars, store
<1> QED
  BY <1>1, <1>2, <1>3, <1>4, <1>5 DEF Next, CoreNext, core_main

-----------------------------------------------------------------------------
(* The size the host was told. *)

(* A call that saw a picture answers with the store's size.                *)
Ready == \A p \in Plugins : host_pc[p] = "ready" => g_frame # NULL

SizeInv == Ready /\ SizeIsFirstPicture

(* No step changes a size that was told, or tells another one.             *)
LEMMA SizeNext ==
  TypeOK /\ NotStarted /\ PictureInv /\ SizeInv /\ [Next]_vars => SizeInv'
<1> SUFFICES ASSUME TypeOK, NotStarted, PictureInv, SizeInv, [Next]_vars
             PROVE  SizeInv'
  OBVIOUS
<1>1. g_frame # NULL => g_frame' # NULL /\ UNCHANGED <<g_frame_width, g_frame_height>>
  BY StoreKept
<1>2. g_frame = NULL => g_frame_width = 0 /\ g_frame_height = 0
  BY DEF PictureInv, Made
<1>3. ASSUME UNCHANGED <<width, height>>,
             \A q \in Plugins : host_pc'[q] = "ready" => host_pc[q] = "ready" \/ g_frame # NULL
      PROVE  SizeInv'
  BY <1>1, <1>2, <1>3 DEF SizeInv, Ready, SizeIsFirstPicture
<1>4. CASE CoreNext
  <2>1. UNCHANGED <<width, height>> /\ (host_pc' = host_pc \/ host_pc' = Broadcast(host_pc))
    BY <1>4 DEF CoreNext, core_main, load_game, frame_loop, retro_run_returns,
       environment_shutdown, exit, video_refresh, video_refresh_no_memory,
       video_refresh_row, video_refresh_done, core_main_finish, finish, host
  <2>2. \A q \in Plugins : host_pc'[q] = "ready" => host_pc[q] = "ready"
    BY <2>1 DEF Broadcast
  <2> QED
    BY <1>3, <2>1, <2>2
<1>5. ASSUME NEW p \in Plugins, HostNext(p) PROVE SizeInv'
  <2>1. CASE native_size(p) \/ pixel_size(p)
    <3>1. UNCHANGED <<g_frame, g_frame_width, g_frame_height>>
      BY <2>1 DEF native_size, pixel_size, store
    <3>2. Ready'
      BY <2>1, <3>1 DEF native_size, pixel_size, SizeInv, Ready, TypeOK, HostType
    <3>3. \/ AnswerSize(p, g_frame_width, g_frame_height)
          \/ AnswerSize(p, 0, 0)
          \/ UNCHANGED <<width, height>>
      BY <2>1 DEF native_size, pixel_size
    <3>4. \A q \in Plugins : /\ width'[q] \in {width[q], 0, g_frame_width}
                            /\ height'[q] \in {height[q], 0, g_frame_height}
      BY <3>3 DEF AnswerSize, TypeOK, HostType
    <3>5. SizeIsFirstPicture'
      BY <3>1, <3>4 DEF SizeInv, SizeIsFirstPicture
    <3> QED
      BY <3>2, <3>5 DEF SizeInv
  <2>2. CASE wait_first_frame(p) \/ wait_times_out(p)
    <3>1. UNCHANGED <<width, height>>
      BY <2>2 DEF wait_first_frame, wait_times_out
    <3>2. host_pc' = [host_pc EXCEPT ![p] = "waiting"] \/ host_pc' = Answer(p)
      BY <2>2 DEF wait_first_frame, wait_times_out
    <3>3. \A q \in Plugins : host_pc'[q] = "ready" => host_pc[q] = "ready" \/ g_frame # NULL
      BY <3>2 DEF Answer, TypeOK, HostType
    <3> QED
      BY <1>3, <3>1, <3>3
  <2>3. CASE \/ native_start(p) \/ native_error(p) \/ spurious_wakeup(p)
             \/ step(p) \/ native_step(p) \/ onDestroy(p)
    <3>1. UNCHANGED <<width, height>>
      BY <2>3 DEF native_start, native_error, spurious_wakeup, step, native_step, onDestroy
    <3>2. \A q \in Plugins : host_pc'[q] = "ready" => host_pc[q] = "ready"
      BY <2>3 DEF native_start, native_error, spurious_wakeup, step, native_step,
         onDestroy, TypeOK, HostType
    <3> QED
      BY <1>3, <3>1, <3>2
  <2> QED
    BY <1>5, <2>1, <2>2, <2>3 DEF HostNext
<1>6. CASE UNCHANGED vars
  BY <1>3, <1>6 DEF vars, host
<1> QED
  BY <1>4, <1>5, <1>6 DEF Next

(* A size the host was told is the size of every picture it is ever given: *)
(* video_refresh keeps the first picture's size whatever comes later.      *)
THEOREM SizeIsKept == Spec => []SizeIsFirstPicture
<1>1. Init => SizeInv
  BY DEF Init, SizeInv, Ready, SizeIsFirstPicture
<1>2. IInv /\ SizeInv /\ [Next]_vars => SizeInv'
  BY SizeNext DEF IInv, OwnerInv
<1>3. SizeInv => SizeIsFirstPicture
  BY DEF SizeInv
<1> QED
  BY <1>1, <1>2, <1>3, Inductive, PTL DEF Spec

-----------------------------------------------------------------------------
(* The rows scaling reads. *)

(* A row of the store is scaled to a row the picture has.                  *)
LEMMA ScaledInside ==
  ASSUME NEW h \in Nat \ {0}, g_frame_height \in Nat \ {0},
         NEW y \in 0 .. g_frame_height - 1
  PROVE  SourceRow(y, h) < h
<1>1. CASE g_frame_height = h
  BY <1>1 DEF SourceRow
<1>2. CASE g_frame_height # h
  <2> DEFINE q == (y * h) \div g_frame_height
  <2>1. y * h \in Nat /\ q \in Nat
    OBVIOUS
  <2>2. q * g_frame_height <= y * h
    BY <2>1
  <2>3. y * h < g_frame_height * h
    OBVIOUS
  <2>4. q < h
    <3>1. SUFFICES ASSUME h <= q PROVE FALSE
      BY <2>1
    <3>2. g_frame_height * h <= q * g_frame_height
      BY <2>1, <3>1
    <3> QED
      BY <2>1, <2>2, <2>3, <3>2
  <2> QED
    BY <1>2, <2>4 DEF SourceRow
<1> QED
  BY <1>1, <1>2

(* Drawing a row, and making the store, put only rows there that the       *)
(* picture has.                                                            *)
LEMMA RowsNext ==
  TypeOK /\ TypeOK' /\ NotStarted /\ PictureInv /\ SourceRowsInside /\ [Next]_vars
    => SourceRowsInside'
<1> SUFFICES ASSUME TypeOK, TypeOK', NotStarted, PictureInv, SourceRowsInside, [Next]_vars
             PROVE  SourceRowsInside'
  OBVIOUS
<1>1. ASSUME UNCHANGED <<g_frame, g_frame_height>> PROVE SourceRowsInside'
  BY <1>1 DEF SourceRowsInside
<1>2. CASE video_refresh
  <2>1. PICK s \in Sizes : MakeStore(s)
    BY <1>2 DEF video_refresh
  <2>2. CASE g_frame = NULL
    <3>1. g_frame' = [y \in 0 .. s.h - 1 |-> Blank] /\ g_frame_height' = s.h
      BY <2>1, <2>2 DEF MakeStore
    <3> QED
      BY <3>1 DEF SourceRowsInside, Blank, Row
  <2>3. CASE g_frame # NULL
    BY <1>1, <2>1, <2>3 DEF MakeStore
  <2> QED
    BY <2>2, <2>3
<1>3. CASE video_refresh_row
  <2>1. /\ core_pc = "draw" /\ row < g_frame_height /\ UNCHANGED g_frame_height
        /\ g_frame' = [g_frame EXCEPT ![row] = Row(drawn, size.h, SourceRow(row, size.h))]
    BY <1>3 DEF video_refresh_row, RowsLeft
  <2>2. g_frame # NULL /\ size \in Sizes
    BY <2>1 DEF PictureInv, Drawing
  <2>3. row \in 0 .. g_frame_height - 1 /\ g_frame_height \in Nat \ {0} /\ size.h \in Nat \ {0}
    <3>1. size.h \in Nat \ {0}
      BY <2>2, Constants
    <3> QED
      BY <2>1, <3>1 DEF TypeOK, StoreType, CoreType
  <2>4. SourceRow(row, size.h) < size.h
    BY <2>3, ScaledInside
  <2>5. g_frame \in [0 .. g_frame_height - 1 -> Rows]
    BY <2>2 DEF TypeOK, StoreType
  <2>6. ASSUME NEW y \in 0 .. g_frame_height - 1 PROVE g_frame'[y].at < g_frame'[y].h
    <3>1. CASE y = row
      BY <2>1, <2>3, <2>4, <2>5, <3>1 DEF Row
    <3>2. CASE y # row
      BY <2>1, <2>2, <2>5, <3>2 DEF SourceRowsInside
    <3> QED
      BY <3>1, <3>2
  <2> QED
    BY <2>1, <2>6 DEF SourceRowsInside
<1>4. CASE \/ load_game \/ frame_loop \/ retro_run_returns \/ video_refresh_done
           \/ core_main_finish \/ environment_shutdown \/ exit
           \/ video_refresh_no_memory
  BY <1>1, <1>4 DEF load_game, frame_loop, retro_run_returns, video_refresh_done,
     core_main_finish, environment_shutdown, exit, video_refresh_no_memory, store
<1>5. ASSUME NEW p \in Plugins, HostNext(p) PROVE SourceRowsInside'
  BY <1>1, <1>5 DEF HostNext, native_start, native_error, pixel_size, wait_first_frame,
     spurious_wakeup, wait_times_out, native_size, step, native_step, onDestroy, store
<1>6. CASE UNCHANGED vars
  BY <1>1, <1>6 DEF vars, store
<1> QED
  BY <1>2, <1>3, <1>4, <1>5, <1>6 DEF Next, CoreNext, core_main

(* video_refresh never reads a row past the core's picture, whatever its   *)
(* size and the store's: y * height / g_frame_height stays below height.   *)
THEOREM NoReadPastPicture == Spec => []SourceRowsInside
<1>1. Init => SourceRowsInside
  BY DEF Init, SourceRowsInside
<1>2. IInv /\ IInv' /\ SourceRowsInside /\ [Next]_vars => SourceRowsInside'
  BY RowsNext DEF IInv, OwnerInv
<1> QED
  BY <1>1, <1>2, Inductive, PTL DEF Spec

-----------------------------------------------------------------------------
(* The end. *)

(* The core's thread has called finish() and returned: one step.           *)
EndInv == g_ended <=> core_pc = "gone"

(* Only finish() sets g_ended, and no start follows it.                    *)
LEMMA EndNext ==
  TypeOK /\ NotStarted /\ EndInv /\ [Next]_vars => EndInv'
<1> SUFFICES ASSUME TypeOK, NotStarted, EndInv, [Next]_vars PROVE EndInv'
  OBVIOUS
<1>1. CASE CoreNext /\ ~core_main_finish
  <2>1. core_pc # "gone" /\ core_pc' # "gone" /\ UNCHANGED g_ended
    BY <1>1 DEF CoreNext, core_main, load_game, frame_loop, retro_run_returns,
       environment_shutdown, exit, video_refresh, video_refresh_no_memory,
       video_refresh_row, video_refresh_done, store, core
  <2> QED
    BY <2>1 DEF EndInv
<1>2. CASE core_main_finish
  BY <1>2 DEF core_main_finish, finish, EndInv
<1>3. ASSUME NEW p \in Plugins, HostNext(p) PROVE EndInv'
  <2>1. CASE native_start(p)
    <3>1. UNCHANGED g_ended /\ (core_pc' = core_pc \/ (core_pc = "none" /\ core_pc' = "load"))
      BY <2>1 DEF native_start, NotStarted, CoreTaken, store
    <3> QED
      BY <3>1 DEF EndInv
  <2>2. CASE ~native_start(p)
    <3>1. UNCHANGED <<g_ended, core_pc>>
      BY <1>3, <2>2 DEF HostNext, native_error, pixel_size, wait_first_frame,
         spurious_wakeup, wait_times_out, native_size, step, native_step, onDestroy,
         native_stop, store, core
    <3> QED
      BY <3>1 DEF EndInv
  <2> QED
    BY <2>1, <2>2
<1>4. CASE UNCHANGED vars
  BY <1>4 DEF vars, store, core, EndInv
<1> QED
  BY <1>1, <1>2, <1>3, <1>4 DEF Next

(* Once the core has ended, nothing the host reads changes again and no    *)
(* call of the host's brings a core back.                                  *)
THEOREM EndIsFinal == Spec => EndedIsFinal
<1>1. Init => EndInv
  BY DEF Init, EndInv
<1>2. IInv /\ EndInv /\ [Next]_vars => EndInv'
  BY EndNext DEF IInv, OwnerInv
<1>3. ASSUME TypeOK, NotStarted, EndInv, [Next]_vars, g_ended
      PROVE  g_ended' /\ UNCHANGED <<g_frame, g_failed, core, g_frame_lock>>
  <2>1. core_pc = "gone"
    BY <1>3 DEF EndInv
  <2>2. CASE CoreNext
    BY <2>1, <2>2 DEF CoreNext, core_main, load_game, frame_loop, retro_run_returns,
       environment_shutdown, exit, video_refresh, video_refresh_no_memory,
       video_refresh_row, video_refresh_done, core_main_finish
  <2>3. ASSUME NEW p \in Plugins, HostNext(p)
        PROVE  g_ended' /\ UNCHANGED <<g_frame, g_failed, core, g_frame_lock>>
    <3>1. CASE native_start(p)
      BY <1>3, <2>1, <3>1 DEF native_start, NotStarted, CoreTaken, store, core
    <3>2. CASE ~native_start(p)
      BY <1>3, <2>3, <3>2 DEF HostNext, native_error, pixel_size, wait_first_frame,
         spurious_wakeup, wait_times_out, native_size, step, native_step, onDestroy,
         native_stop, store, core
    <3> QED
      BY <3>1, <3>2
  <2>4. CASE UNCHANGED vars
    BY <1>3, <2>4 DEF vars, store
  <2> QED
    BY <1>3, <2>2, <2>3, <2>4 DEF Next
<1>4. IInv /\ EndInv /\ [Next]_vars
        => [g_ended => g_ended' /\ UNCHANGED <<g_frame, g_failed, core, g_frame_lock>>]_vars
  BY <1>3 DEF IInv, OwnerInv
<1> QED
  BY <1>1, <1>2, <1>4, Inductive, PTL DEF Spec, EndedIsFinal
-----------------------------------------------------------------------------
(* What the host was told, and that it got the latest picture first. *)

(* A plugin with no core asks nothing; a question is asked while it has no *)
(* answer yet, the width first; and only a plugin that has both steps.     *)
Asked ==
  \A p \in Plugins :
    /\ life[p] \in {"new", "failed"} => height[p] = NULL /\ host_pc[p] \in {"idle", "error"}
    /\ host_pc[p] \in {"checking", "waiting", "ready", "not ready"} => height[p] = NULL
    /\ height[p] # NULL => width[p] # NULL
    /\ host_pc[p] = "step" \/ step_result[p] = -1 => height[p] # NULL

(* The host's calls follow each other as the plugin class makes them.      *)
LEMMA AskedNext == TypeOK /\ OwnerInv /\ Asked /\ [Next]_vars => Asked'
<1> SUFFICES ASSUME TypeOK, OwnerInv, Asked, [Next]_vars PROVE Asked'
  OBVIOUS
<1> USE DEF TypeOK, HostType
<1>1. CASE CoreNext
  <2>1. /\ UNCHANGED <<life, width, height, step_result>>
        /\ host_pc' = host_pc \/ host_pc' = Broadcast(host_pc)
    BY <1>1 DEF CoreNext, core_main, load_game, frame_loop, retro_run_returns,
       environment_shutdown, exit, video_refresh, video_refresh_no_memory,
       video_refresh_row, video_refresh_done, core_main_finish, finish, host
  <2>2. \A p \in Plugins :
          host_pc'[p] = host_pc[p] \/ (host_pc[p] = "waiting" /\ host_pc'[p] = "checking")
    BY <2>1 DEF Broadcast
  <2> QED
    BY <2>1, <2>2 DEF Asked
<1>2. ASSUME NEW p \in Plugins, HostNext(p) PROVE Asked'
  <2>1. CASE native_start(p) \/ native_error(p) \/ onDestroy(p)
    <3>1. UNCHANGED <<width, height, step_result>>
      BY <2>1 DEF native_start, native_error, onDestroy
    <3>2. host_pc[p] = "error" => life[p] = "new"
      BY DEF OwnerInv, Failing
    <3>3. \A q \in Plugins :
            \/ life'[q] = life[q] /\ host_pc'[q] = host_pc[q]
            \/ life[q] = "new" /\ host_pc'[q] \in {"idle", "error"}
            \/ life'[q] = "destroyed" /\ host_pc'[q] = host_pc[q]
      BY <2>1, <3>2 DEF native_start, native_error, onDestroy
    <3> QED
      BY <3>1, <3>3 DEF Asked
  <2>2. CASE pixel_size(p) \/ native_size(p)
    <3>1. UNCHANGED <<life, step_result>> /\ life[p] \notin {"new", "failed"} /\ height[p] = NULL
      BY <2>2 DEF pixel_size, native_size, Asking, Asked
    <3>2. \A q \in Plugins \ {p} : host_pc'[q] = host_pc[q] /\ height'[q] = height[q]
                                                        /\ width'[q] = width[q]
      BY <2>2 DEF pixel_size, native_size, AnswerSize
    <3>3. /\ host_pc'[p] # "step"
          /\ height'[p] # NULL => host_pc'[p] = "idle" /\ width'[p] # NULL
      BY <2>2, <3>1 DEF pixel_size, native_size, AnswerSize, Asking
    <3>4. step_result[p] # -1
      BY <3>1 DEF Asked
    <3> QED
      BY <3>1, <3>2, <3>3, <3>4 DEF Asked
  <2>3. CASE wait_first_frame(p) \/ spurious_wakeup(p) \/ wait_times_out(p)
    <3>1. UNCHANGED <<life, width, height, step_result>>
      BY <2>3 DEF wait_first_frame, spurious_wakeup, wait_times_out
    <3>2. host_pc[p] \in {"checking", "waiting"}
      BY <2>3 DEF wait_first_frame, spurious_wakeup, wait_times_out
    <3>3. /\ \A q \in Plugins \ {p} : host_pc'[q] = host_pc[q]
          /\ host_pc'[p] \in {"checking", "waiting", "ready", "not ready"}
      BY <2>3 DEF wait_first_frame, spurious_wakeup, wait_times_out, Answer
    <3> QED
      BY <3>1, <3>2, <3>3 DEF Asked
  <2>4. CASE step(p) \/ native_step(p)
    <3>1. UNCHANGED <<life, width, height>> /\ height[p] # NULL
      BY <2>4 DEF step, native_step, Stepping, Asked
    <3>2. /\ \A q \in Plugins \ {p} : host_pc'[q] = host_pc[q]
                                      /\ step_result'[q] = step_result[q]
          /\ host_pc'[p] \in {"idle", "step"}
      BY <2>4 DEF step, native_step, Stepping
    <3> QED
      BY <3>1, <3>2 DEF Asked
  <2> QED
    BY <1>2, <2>1, <2>2, <2>3, <2>4 DEF HostNext
<1>3. CASE UNCHANGED vars
  BY <1>3 DEF vars, host, Asked
<1> QED
  BY <1>1, <1>2, <1>3 DEF Next

(* What native_step takes out of the store: while it holds nothing new, a  *)
(* plugin was given what it holds.                                         *)
LEMMA LatestNext ==
  IInv /\ Asked /\ LatestReachesHost /\ [Next]_vars => LatestReachesHost'
<1> SUFFICES ASSUME IInv, Asked, LatestReachesHost, [Next]_vars,
                    (g_frame # NULL)', LockFree', ~g_frame_new'
             PROVE  \E p \in Plugins :
                      height'[p] # NULL /\ (ArrayFits(p)' => pixels'[p] = g_frame')
  BY DEF LatestReachesHost
<1> USE DEF IInv, OwnerInv, TypeOK, HostType
<1>1. ASSUME g_frame # NULL, LockFree, ~g_frame_new,
             UNCHANGED <<g_frame, g_frame_width, g_frame_height, pixels>>,
             \A q \in Plugins : height[q] # NULL =>
               height'[q] = height[q] /\ width'[q] = width[q]
      PROVE  \E p \in Plugins :
               height'[p] # NULL /\ (ArrayFits(p)' => pixels'[p] = g_frame')
  <2>1. PICK p \in Plugins : height[p] # NULL /\ (ArrayFits(p) => pixels[p] = g_frame)
    BY <1>1 DEF LatestReachesHost
  <2> QED
    BY <1>1, <2>1 DEF ArrayFits
<1>2. CASE CoreNext
  <2>1. UNCHANGED <<width, height, pixels>>
    BY <1>2 DEF CoreNext, core_main, load_game, frame_loop, retro_run_returns,
       environment_shutdown, exit, video_refresh, video_refresh_no_memory,
       video_refresh_row, video_refresh_done, core_main_finish, host
  <2>2. ~video_refresh /\ ~video_refresh_row /\ ~video_refresh_done
    <3>1. ~video_refresh
      BY Constants DEF video_refresh, LockFree
    <3>2. ~video_refresh_row
      BY Constants DEF video_refresh_row, LockFree, PictureInv, Locked
    <3>3. ~video_refresh_done
      BY DEF video_refresh_done, MarkNew
    <3> QED
      BY <3>1, <3>2, <3>3
  <2>3. UNCHANGED <<g_frame_lock, g_frame, g_frame_width, g_frame_height, g_frame_new>>
    BY <1>2, <2>2 DEF CoreNext, core_main, load_game, frame_loop, retro_run_returns,
       environment_shutdown, exit, video_refresh_no_memory, core_main_finish, store
  <2> QED
    BY <1>1, <2>1, <2>3 DEF LockFree
<1>3. ASSUME NEW p \in Plugins, HostNext(p)
      PROVE  \E q \in Plugins :
               height'[q] # NULL /\ (ArrayFits(q)' => pixels'[q] = g_frame')
  <2>1. CASE native_step(p)
    <3>1. UNCHANGED <<g_frame, g_frame_lock, g_frame_width, g_frame_height, width, height>>
      BY <2>1 DEF native_step
    <3>2. CASE NoPicture
      BY <1>1, <2>1, <3>1, <3>2 DEF native_step, NoPicture, LockFree
    <3>3. CASE ~NoPicture
      <4>1. height[p] # NULL
        BY <2>1 DEF native_step, Asked
      <4>2. ArrayFits(p) => pixels'[p] = g_frame
        BY <2>1, <3>3 DEF native_step
      <4> QED
        BY <3>1, <4>1, <4>2 DEF ArrayFits
    <3> QED
      BY <3>2, <3>3
  <2>2. CASE ~native_step(p)
    <3>1. UNCHANGED <<g_frame_lock, g_frame, g_frame_width, g_frame_height, g_frame_new,
                      pixels>>
      BY <1>3, <2>2 DEF HostNext, native_start, native_error, pixel_size,
         wait_first_frame, spurious_wakeup, wait_times_out, native_size, step, onDestroy,
         store
    <3>2. ASSUME NEW q \in Plugins, height[q] # NULL
          PROVE  height'[q] = height[q] /\ width'[q] = width[q]
      <4>1. CASE pixel_size(p) \/ native_size(p)
        <5>1. height[p] = NULL
          BY <4>1 DEF pixel_size, native_size, Asking, Asked
        <5> QED
          BY <3>2, <4>1, <5>1 DEF pixel_size, native_size, AnswerSize
      <4>2. CASE ~(pixel_size(p) \/ native_size(p))
        BY <1>3, <2>2, <4>2 DEF HostNext, native_start, native_error, wait_first_frame,
           spurious_wakeup, wait_times_out, step, onDestroy
      <4> QED
        BY <4>1, <4>2
    <3> QED
      BY <1>1, <3>1, <3>2 DEF LockFree
  <2> QED
    BY <2>1, <2>2
<1>4. CASE UNCHANGED vars
  BY <1>1, <1>4 DEF vars, store, host, LockFree
<1> QED
  BY <1>2, <1>3, <1>4 DEF Next

(* The calls of the host are asked in their order for ever.                *)
LEMMA AskedAlways == Spec => []Asked
<1>1. Init => Asked
  <2>1. NULL # -1
    BY Constants
  <2> QED
    BY <2>1 DEF Init, Asked
<1>2. IInv /\ Asked /\ [Next]_vars => Asked'
  BY AskedNext DEF IInv
<1> QED
  BY <1>1, <1>2, Inductive, PTL DEF Spec

(* No picture is lost between the core and the host: whenever the store    *)
(* holds nothing new, a plugin was given what it holds, or had an array    *)
(* too small for it (g_frame_new is set and cleared under one lock).       *)
THEOREM NoPictureLost == Spec => []LatestReachesHost
<1>1. Init => LatestReachesHost
  BY DEF Init, LatestReachesHost
<1>2. IInv /\ Asked /\ LatestReachesHost /\ [Next]_vars => LatestReachesHost'
  BY LatestNext
<1> QED
  BY <1>1, <1>2, Inductive, AskedAlways, PTL DEF Spec

(* step()'s -1 is none of the heights it answers a picture with.           *)
LEMMA NoHeightIsEnd == \A n \in Nat : n # -1
  OBVIOUS

(* The end comes from the same call as the pictures, and after them.       *)
LEMMA LastPictureNext ==
  IInv /\ EndInv /\ Asked /\ LatestReachesHost /\ EndAfterLastPicture /\ [Next]_vars
    => EndAfterLastPicture'
<1> SUFFICES ASSUME IInv, EndInv, Asked, LatestReachesHost, EndAfterLastPicture, [Next]_vars,
                    NEW p \in Plugins, step_result'[p] = -1, life'[p] = "live"
             PROVE  g_ended' /\ (g_frame' = NULL \/ (ArrayFits(p)' => pixels'[p] = g_frame'))
  BY DEF EndAfterLastPicture
<1> DEFINE Given == g_frame = NULL \/ (ArrayFits(p) => pixels[p] = g_frame)
<1> USE DEF IInv, OwnerInv, TypeOK, HostType
<1>1. ASSUME step_result[p] = -1, life[p] = "live",
             UNCHANGED <<g_ended, g_frame, g_frame_width, g_frame_height>>,
             pixels'[p] \in {pixels[p], g_frame},
             height'[p] = height[p], width'[p] = width[p]
      PROVE  g_ended' /\ Given'
  BY <1>1 DEF EndAfterLastPicture, ArrayFits
<1>2. CASE CoreNext
  <2>1. UNCHANGED <<step_result, life, width, height, pixels>>
    BY <1>2 DEF CoreNext, core_main, load_game, frame_loop, retro_run_returns,
       environment_shutdown, exit, video_refresh, video_refresh_no_memory,
       video_refresh_row, video_refresh_done, core_main_finish, host
  <2>2. core_pc = "gone"
    BY <2>1 DEF EndAfterLastPicture, EndInv
  <2>3. UNCHANGED <<g_ended, g_frame, g_frame_width, g_frame_height>>
    BY <1>2, <2>2 DEF CoreNext, core_main, load_game, frame_loop, retro_run_returns,
       environment_shutdown, exit, video_refresh, video_refresh_no_memory,
       video_refresh_row, video_refresh_done, core_main_finish
  <2> QED
    BY <1>1, <2>1, <2>3
<1>3. ASSUME NEW q \in Plugins, HostNext(q) PROVE g_ended' /\ Given'
  <2>1. CASE native_step(q) /\ q = p
    <3>1. /\ UNCHANGED <<g_frame, g_ended, g_frame_lock, g_frame_width, g_frame_height>>
          /\ UNCHANGED <<life, width, height>>
      BY <2>1 DEF native_step
    <3>2. NoPicture /\ g_ended /\ pixels' = pixels
      <4>1. g_frame_height \in Nat
        BY DEF StoreType
      <4>2. 0 # -1 /\ g_frame_height # -1
        BY <4>1, NoHeightIsEnd
      <4> QED
        BY <2>1, <4>2 DEF native_step
    <3>3. LockFree
      BY <2>1 DEF native_step
    <3>4. CASE g_frame = NULL
      BY <3>1, <3>2, <3>4
    <3>5. CASE g_frame # NULL
      <4>1. PICK r \in Plugins : height[r] # NULL /\ (ArrayFits(r) => pixels[r] = g_frame)
        BY <3>2, <3>3, <3>5 DEF LatestReachesHost, NoPicture
      <4>2. life[r] \notin {"new", "failed"}
        BY <4>1 DEF Asked
      <4>3. r = p
        BY <3>1, <4>2 DEF OneCore
      <4> QED
        BY <3>1, <3>2, <4>1, <4>3 DEF ArrayFits
    <3> QED
      BY <3>4, <3>5
  <2>2. CASE native_step(q) /\ q # p
    <3>1. /\ UNCHANGED <<g_frame, g_ended, g_frame_width, g_frame_height, life, width, height>>
          /\ step_result'[p] = step_result[p] /\ pixels'[p] = pixels[p]
      BY <2>2 DEF native_step
    <3> QED
      BY <1>1, <3>1
  <2>3. CASE step(q)
    <3>1. /\ UNCHANGED <<store, life, width, height, pixels>>
          /\ life[q] = "destroyed" \/ step_result' = step_result
          /\ q # p => step_result'[p] = step_result[p]
      BY <2>3 DEF step
    <3> QED
      BY <1>1, <3>1 DEF store
  <2>4. CASE pixel_size(q) \/ native_size(q)
    <3>1. UNCHANGED <<store, life, step_result, pixels>>
      BY <2>4 DEF pixel_size, native_size
    <3>2. height[q] = NULL /\ height[p] # NULL
      BY <2>4, <3>1 DEF pixel_size, native_size, Asking, Asked
    <3>3. height'[p] = height[p] /\ width'[p] = width[p]
      BY <2>4, <3>2 DEF pixel_size, native_size, AnswerSize
    <3> QED
      BY <1>1, <3>1, <3>3 DEF store
  <2>5. CASE native_start(q) \/ native_error(q) \/ onDestroy(q)
    <3>1. UNCHANGED <<g_ended, g_frame, g_frame_width, g_frame_height, width, height, pixels,
                      step_result>>
      BY <2>5 DEF native_start, native_error, onDestroy, native_stop, store
    <3>2. life[p] = "live"
      <4>1. life[p] # "new"
        <5>1. height[p] # NULL
          BY <3>1 DEF Asked
        <5> QED
          BY <5>1 DEF Asked
      <4> QED
        BY <2>5, <4>1 DEF native_start, native_error, onDestroy
    <3> QED
      BY <1>1, <3>1, <3>2
  <2>6. CASE wait_first_frame(q) \/ spurious_wakeup(q) \/ wait_times_out(q)
    <3>1. UNCHANGED <<store, life, width, height, pixels, step_result>>
      BY <2>6 DEF wait_first_frame, spurious_wakeup, wait_times_out
    <3> QED
      BY <1>1, <3>1 DEF store
  <2> QED
    BY <1>3, <2>1, <2>2, <2>3, <2>4, <2>5, <2>6 DEF HostNext
<1>4. CASE UNCHANGED vars
  BY <1>1, <1>4 DEF vars, store, host
<1> QED
  BY <1>2, <1>3, <1>4 DEF Next

(* The host is told that the game ended only after it was given the last   *)
(* picture: native_step's -1 needs g_ended and nothing new in the store.   *)
THEOREM EndComesLast == Spec => []EndAfterLastPicture
<1>1. Init => EndInv
  BY DEF Init, EndInv
<1>2. IInv /\ EndInv /\ [Next]_vars => EndInv'
  BY EndNext DEF IInv, OwnerInv
<1>3. Init => EndAfterLastPicture
  BY DEF Init, EndAfterLastPicture
<1>4. IInv /\ EndInv /\ Asked /\ LatestReachesHost /\ EndAfterLastPicture /\ [Next]_vars
        => EndAfterLastPicture'
  BY LastPictureNext
<1> QED
  BY <1>1, <1>2, <1>3, <1>4, Inductive, AskedAlways, NoPictureLost, PTL DEF Spec
-----------------------------------------------------------------------------
(* What the host sees of it: CoreSession implements HostView. *)

(* While the core's thread runs, or has run, a plugin has or had the core. *)
Begun == core_pc # "none" => \E p \in Plugins : View!HadCore(p)

(* native_start makes the thread and the plugin live in one step, and no   *)
(* plugin that lived is new again.                                         *)
LEMMA BegunNext == TypeOK /\ OwnerInv /\ Begun /\ [Next]_vars => Begun'
<1> SUFFICES ASSUME TypeOK, OwnerInv, Begun, [Next]_vars PROVE Begun'
  OBVIOUS
<1> USE DEF TypeOK, HostType, Begun, View!HadCore
<1>1. CASE CoreNext
  <2>1. core_pc # "none" /\ UNCHANGED life
    BY <1>1 DEF CoreNext, core_main, load_game, frame_loop, retro_run_returns,
       environment_shutdown, exit, video_refresh, video_refresh_no_memory,
       video_refresh_row, video_refresh_done, core_main_finish, host
  <2> QED
    BY <2>1
<1>2. ASSUME NEW p \in Plugins, HostNext(p) PROVE Begun'
  <2>1. CASE native_start(p)
    <3>1. \/ UNCHANGED <<core_pc, life>>
          \/ life' = [life EXCEPT ![p] = "live"]
      BY <2>1 DEF native_start
    <3> QED
      BY <3>1
  <2>2. CASE native_error(p)
    <3>1. life[p] = "new" /\ life' = [life EXCEPT ![p] = "failed"] /\ UNCHANGED core_pc
      BY <2>2 DEF native_error, OwnerInv, Failing, core
    <3> QED
      BY <3>1
  <2>3. CASE onDestroy(p)
    <3>1. life' = [life EXCEPT ![p] = "destroyed"] /\ UNCHANGED core_pc
      BY <2>3 DEF onDestroy, core
    <3> QED
      BY <3>1
  <2>4. CASE \/ pixel_size(p) \/ wait_first_frame(p) \/ spurious_wakeup(p)
             \/ wait_times_out(p) \/ native_size(p) \/ step(p) \/ native_step(p)
    <3>1. UNCHANGED <<core_pc, life>>
      BY <2>4 DEF pixel_size, wait_first_frame, spurious_wakeup, wait_times_out,
         native_size, step, native_step, core
    <3> QED
      BY <3>1
  <2> QED
    BY <1>2, <2>1, <2>2, <2>3, <2>4 DEF HostNext
<1>3. CASE UNCHANGED vars
  BY <1>3 DEF vars, core, host
<1> QED
  BY <1>1, <1>2, <1>3 DEF Next

(* Scaling to the height a picture already has changes nothing, so the     *)
(* shortcut video_refresh takes there is the same as scaling.              *)
LEMMA ScaleToSame == ASSUME NEW y \in Nat, NEW h \in Nat \ {0} PROVE (y * h) \div h = y
<1>1. PICK z \in Nat : z = y * h
  OBVIOUS
<1>2. PICK q \in Int : q = z \div h
  BY <1>1
<1>3. q * h <= z /\ z < q * h + h
  BY <1>1, <1>2
<1>4. ~(q < y)
  <2>1. SUFFICES ASSUME q + 1 <= y PROVE FALSE
    BY <1>2
  <2>2. (q + 1) * h <= y * h
    BY <1>2, <2>1
  <2> QED
    BY <1>1, <1>2, <1>3, <2>2
<1>5. ~(y < q)
  <2>1. SUFFICES ASSUME y + 1 <= q PROVE FALSE
    BY <1>2
  <2>2. (y + 1) * h <= q * h
    BY <1>2, <2>1
  <2> QED
    BY <1>1, <1>2, <1>3, <2>2
<1> QED
  BY <1>1, <1>2, <1>4, <1>5

(* At first there is no picture and nobody was told anything.              *)
LEMMA ViewInit == Init => View!Init
  BY DEF Init, View!Init, Latest, Fresh

(* Steps that change nothing of the pictures do not show.                  *)
LEMMA HandoverSame ==
  ASSUME UNCHANGED <<g_frame, g_frame_width, g_frame_height, g_frame_new, g_ended,
                     drawn, size>>,
         core_pc' = "draw" <=> core_pc = "draw"
  PROVE  UNCHANGED View!handover
<1>1. Drawn' = Drawn
  BY DEF Drawn, SourceRow
<1>2. Latest' = Latest /\ Fresh' = Fresh
  BY <1>1 DEF Latest, Fresh
<1> QED
  BY <1>2 DEF View!handover

(* video_refresh shows when it takes the lock: the whole picture is then   *)
(* handed over, and replaces one that was not taken.                       *)
LEMMA HandOverShows ==
  ASSUME IInv, IInv', EndInv, Begun, video_refresh
  PROVE  \E s \in Sizes : View!HandOver(s)
<1>1. PICK s \in Sizes : size' = s /\ MakeStore(s)
  BY DEF video_refresh
<1>2. /\ core_pc = "run" /\ core_pc' = "draw" /\ drawn' = drawn + 1
      /\ UNCHANGED <<g_frame_new, g_ended, life, width, height, pixels, step_result>>
  BY DEF video_refresh, host
<1>3. Latest = g_frame /\ Latest' = Drawn' /\ Fresh' = TRUE
  BY <1>2 DEF Latest, Fresh
<1>4. View!Running
  BY <1>2 DEF EndInv, Begun, View!Running
<1>5. g_frame' # NULL /\ size' \in Sizes
  BY <1>2 DEF IInv, PictureInv, Drawing
<1>6. g_frame_height' \in Nat \ {0} /\ s.h \in Nat \ {0}
  <2>1. [w |-> g_frame_width', h |-> g_frame_height'] \in [w : Nat \ {0}, h : Nat \ {0}]
    BY <1>5, Constants DEF IInv, PictureInv, Made
  <2> QED
    BY <2>1, Constants
<1>7. Latest' = View!Scaled(drawn', s.h, g_frame_height')
  <2>1. ASSUME NEW y \in 0 .. g_frame_height' - 1
        PROVE  SourceRow(y, s.h)' = (y * s.h) \div g_frame_height'
    <3>1. y \in Nat
      BY <1>6
    <3>2. CASE g_frame_height' = s.h
      <4>1. (y * s.h) \div s.h = y
        BY <1>6, <3>1, ScaleToSame
      <4>2. SourceRow(y, s.h)' = y
        BY <1>1, <3>2 DEF SourceRow
      <4> QED
        BY <3>2, <4>1, <4>2
    <3>3. CASE g_frame_height' # s.h
      BY <1>1, <3>3 DEF SourceRow
    <3> QED
      BY <3>2, <3>3
  <2>2. Drawn' = [y \in 0 .. g_frame_height' - 1 |->
                   Row(drawn', s.h, (y * s.h) \div g_frame_height')]
    BY <1>1, <2>1 DEF Drawn, SourceRow
  <2> QED
    BY <1>3, <2>2 DEF View!Scaled, Row
<1>8. IF Latest = NULL THEN g_frame_width' = s.w /\ g_frame_height' = s.h
                       ELSE UNCHANGED <<g_frame_width, g_frame_height>>
  BY <1>1, <1>3 DEF MakeStore
<1> QED
  BY <1>2, <1>3, <1>4, <1>7, <1>8 DEF View!HandOver, View!told

(* What the core does after it has the lock, row by row until the store    *)
(* holds the picture, does not show.                                       *)
LEMMA DrawingHidden ==
  ASSUME IInv, IInv', video_refresh_row \/ video_refresh_done
  PROVE  UNCHANGED View!vars
<1>1. /\ core_pc = "draw"
      /\ UNCHANGED <<g_frame_width, g_frame_height, g_ended, drawn, size, life, width,
                     height, pixels, step_result>>
  BY DEF video_refresh_row, video_refresh_done, host
<1>2. Drawn' = Drawn
  BY <1>1 DEF Drawn, SourceRow
<1>3. Latest = Drawn /\ Fresh = TRUE
  BY <1>1 DEF Latest, Fresh
<1>4. Latest' = Drawn /\ Fresh' = TRUE
  <2>1. CASE video_refresh_row
    BY <1>2, <2>1 DEF video_refresh_row, Latest, Fresh
  <2>2. CASE video_refresh_done
    <3>1. core_pc' = "run" /\ g_frame_new' = TRUE /\ g_frame' = g_frame /\ row = g_frame_height
      BY <2>2 DEF video_refresh_done, MarkNew
    <3>2. g_frame \in [0 .. g_frame_height - 1 -> Rows]
      BY <1>1 DEF IInv, TypeOK, StoreType, PictureInv, Drawing
    <3>3. \A y \in 0 .. g_frame_height - 1 :
            g_frame[y] = Row(drawn, size.h, SourceRow(y, size.h))
      BY <1>1, <3>1 DEF IInv, PictureInv, Drawing
    <3>4. g_frame = Drawn
      BY <3>2, <3>3 DEF Drawn
    <3> QED
      BY <3>1, <3>4 DEF Latest, Fresh
  <2> QED
    BY <2>1, <2>2
<1> QED
  BY <1>1, <1>3, <1>4 DEF View!vars, View!handover, View!told

(* The other steps of the core's thread.                                   *)
LEMMA CoreShows ==
  ASSUME IInv, IInv', EndInv, Begun, CoreNext
  PROVE  [View!Next]_(View!vars)
<1>1. CASE load_game \/ frame_loop \/ retro_run_returns \/ environment_shutdown \/ exit
  <2>1. /\ UNCHANGED <<store, drawn, size, host>>
        /\ core_pc' = "draw" <=> core_pc = "draw"
    BY <1>1 DEF load_game, frame_loop, retro_run_returns, environment_shutdown, exit, core
  <2>2. UNCHANGED View!handover
    BY <2>1, HandoverSame DEF store
  <2> QED
    BY <2>1, <2>2 DEF View!vars, View!told, host
<1>2. CASE video_refresh
  BY <1>2, HandOverShows DEF View!Next
<1>3. CASE video_refresh_row \/ video_refresh_done
  BY <1>3, DrawingHidden
<1>4. CASE video_refresh_no_memory
  <2>1. /\ core_pc = "run" /\ core_pc' = "run" /\ g_frame = NULL /\ drawn' = drawn + 1
        /\ UNCHANGED <<g_frame, g_frame_width, g_frame_height, g_frame_new, g_ended,
                       life, width, height, pixels, step_result>>
    BY <1>4 DEF video_refresh_no_memory, store, host
  <2>2. Latest = NULL /\ Latest' = Latest /\ Fresh' = Fresh
    BY <2>1 DEF Latest, Fresh
  <2>3. View!Running
    BY <2>1 DEF EndInv, Begun, View!Running
  <2>4. View!Lose
    BY <2>1, <2>2, <2>3 DEF View!Lose, View!told
  <2> QED
    BY <2>4 DEF View!Next
<1>5. CASE core_main_finish
  <2>1. /\ core_pc \in {"end0", "end1"} /\ core_pc' = "gone" /\ g_ended' = TRUE
        /\ UNCHANGED <<g_frame, g_frame_width, g_frame_height, g_frame_new, drawn, size,
                       life, width, height, pixels, step_result>>
    BY <1>5 DEF core_main_finish, finish
  <2>2. Latest' = Latest /\ Fresh' = Fresh
    BY <2>1 DEF Latest, Fresh
  <2>3. View!Running
    BY <2>1 DEF EndInv, Begun, View!Running
  <2>4. View!End
    BY <2>1, <2>2, <2>3 DEF View!End, View!told
  <2> QED
    BY <2>4 DEF View!Next
<1> QED
  BY <1>1, <1>2, <1>3, <1>4, <1>5 DEF CoreNext, core_main

(* A call of the host shows at its one critical section, which the core is *)
(* not drawing in; starts, refusals and onDestroy show as themselves.      *)
LEMMA HostShows ==
  ASSUME IInv, IInv', Asked, NEW p \in Plugins, HostNext(p)
  PROVE  [View!Next]_(View!vars)
<1> USE DEF IInv, TypeOK, HostType, OwnerInv
<1>1. CASE native_start(p)
  <2>1. /\ UNCHANGED <<store, drawn, size, width, height, pixels, step_result>>
        /\ \/ UNCHANGED <<core_pc, life>>
           \/ ~g_content_path /\ core_pc' = "load" /\ life' = [life EXCEPT ![p] = "live"]
    BY <1>1 DEF native_start, CoreTaken
  <2>2. core_pc' = "draw" <=> core_pc = "draw"
    BY <2>1 DEF NotStarted
  <2>3. UNCHANGED View!handover
    BY <2>1, <2>2, HandoverSame DEF store
  <2>4. UNCHANGED life \/ View!Start(p)
    BY <2>1, <2>3 DEF NotStarted, View!Start, View!told
  <2> QED
    BY <2>1, <2>3, <2>4 DEF View!Next, View!vars, View!told
<1>2. CASE native_error(p)
  <2>1. /\ UNCHANGED <<store, core, width, height, pixels, step_result>>
        /\ life[p] = "new" /\ life' = [life EXCEPT ![p] = "failed"]
    BY <1>2 DEF native_error, Failing
  <2>2. UNCHANGED View!handover
    BY <2>1, HandoverSame DEF store, core
  <2>3. View!Refuse(p)
    BY <2>1, <2>2 DEF View!Refuse, View!told
  <2> QED
    BY <2>3 DEF View!Next
<1>3. CASE onDestroy(p)
  <2>1. UNCHANGED View!handover
    BY <1>3, HandoverSame DEF onDestroy, native_stop, core
  <2>2. View!Destroy(p)
    BY <1>3, <2>1 DEF onDestroy, View!Destroy, View!told
  <2> QED
    BY <2>2 DEF View!Next
<1>4. CASE wait_first_frame(p) \/ spurious_wakeup(p) \/ wait_times_out(p)
  <2>1. UNCHANGED <<store, core, life, width, height, pixels, step_result>>
    BY <1>4 DEF wait_first_frame, spurious_wakeup, wait_times_out
  <2>2. UNCHANGED View!handover
    BY <2>1, HandoverSame DEF store, core
  <2> QED
    BY <2>1, <2>2 DEF View!vars, View!told
<1>5. CASE pixel_size(p) \/ native_size(p)
  <2>1. UNCHANGED <<store, core, life, pixels, step_result>>
    BY <1>5 DEF pixel_size, native_size
  <2>2. UNCHANGED View!handover
    BY <2>1, HandoverSame DEF store, core
  <2>3. height[p] = NULL /\ View!HadCore(p)
    BY <1>5 DEF pixel_size, native_size, Asking, Asked, View!HadCore
  <2>4. \/ AnswerSize(p, g_frame_width, g_frame_height)
        \/ AnswerSize(p, 0, 0)
        \/ UNCHANGED <<width, height>>
    BY <1>5 DEF pixel_size, native_size
  <2>5. UNCHANGED <<width, height>> \/ View!TellSize(p)
    BY <2>1, <2>2, <2>3, <2>4 DEF AnswerSize, View!TellSize, View!Tell
  <2> QED
    BY <2>1, <2>2, <2>5 DEF View!Next, View!vars, View!told
<1>6. CASE step(p)
  <2>1. UNCHANGED <<store, core, life, width, height, pixels>>
    BY <1>6 DEF step
  <2>2. UNCHANGED View!handover
    BY <2>1, HandoverSame DEF store, core
  <2>3. UNCHANGED step_result \/ View!Gone(p)
    BY <1>6, <2>1, <2>2 DEF step, Stepping, View!Gone, View!Returns
  <2> QED
    BY <2>1, <2>2, <2>3 DEF View!Next, View!vars, View!told
<1>7. CASE native_step(p)
  <2>1. /\ LockFree
        /\ UNCHANGED <<g_frame, g_frame_width, g_frame_height, g_ended, core, life,
                       width, height>>
    BY <1>7 DEF native_step
  <2>2. core_pc # "draw" /\ core_pc' = core_pc
    BY <2>1 DEF PictureInv, Locked, core
  <2>3. Latest = g_frame /\ Latest' = g_frame /\ Fresh = g_frame_new /\ Fresh' = g_frame_new'
    BY <2>1, <2>2 DEF Latest, Fresh
  <2>4. height[p] # NULL /\ View!HadCore(p)
    BY <1>7 DEF native_step, Asked, View!HadCore
  <2>5. CASE NoPicture
    <3>1. /\ ~g_frame_new /\ UNCHANGED <<g_frame_new, pixels>>
          /\ step_result' = [step_result EXCEPT ![p] = IF g_ended THEN -1 ELSE 0]
      BY <1>7, <2>5 DEF native_step, NoPicture
    <3>2. UNCHANGED View!handover
      BY <2>1, <2>2, <3>1, HandoverSame DEF core
    <3>3. View!NothingNew(p)
      BY <2>1, <2>3, <2>4, <3>1, <3>2 DEF View!NothingNew, View!Returns
    <3> QED
      BY <3>3 DEF View!Next
  <2>6. CASE ~NoPicture
    <3>1. /\ g_frame_new /\ g_frame_new' = FALSE
          /\ IF ArrayFits(p)
             THEN /\ pixels' = [pixels EXCEPT ![p] = g_frame]
                  /\ step_result' = [step_result EXCEPT ![p] = g_frame_height]
             ELSE /\ step_result' = [step_result EXCEPT ![p] = 0]
                  /\ UNCHANGED pixels
      BY <1>7, <2>6 DEF native_step, NoPicture
    <3>2. View!Fits(p) <=> ArrayFits(p)
      BY DEF View!Fits, ArrayFits
    <3>3. IF View!Fits(p)
          THEN pixels' = [pixels EXCEPT ![p] = Latest] /\ View!Returns(p, g_frame_height)
          ELSE View!Returns(p, 0) /\ UNCHANGED pixels
      BY <2>3, <3>1, <3>2 DEF View!Returns
    <3>4. View!Take(p)
      BY <2>1, <2>3, <2>4, <3>1, <3>3 DEF View!Take, core
    <3> QED
      BY <3>4 DEF View!Next
  <2> QED
    BY <2>5, <2>6
<1> QED
  BY <1>1, <1>2, <1>3, <1>4, <1>5, <1>6, <1>7 DEF HostNext

(* Every step of the session is one the host may see, or none to it.       *)
LEMMA ViewStep ==
  IInv /\ IInv' /\ EndInv /\ Asked /\ Begun /\ [Next]_vars => [View!Next]_(View!vars)
<1> SUFFICES ASSUME IInv, IInv', EndInv, Asked, Begun, [Next]_vars
             PROVE  [View!Next]_(View!vars)
  OBVIOUS
<1>1. CASE UNCHANGED vars
  <2>1. UNCHANGED View!handover
    BY <1>1, HandoverSame DEF vars, store, core
  <2> QED
    BY <1>1, <2>1 DEF vars, host, View!vars, View!told
<1> QED
  BY <1>1, CoreShows, HostShows DEF Next

(* The host sees whole pictures handed over and taken one at a time, the   *)
(* latest replacing one not taken, and the end after them: CoreSession's   *)
(* threads, lock, rows and waits implement HostView, step by step.         *)
THEOREM SessionKeepsHostView == Spec => KeepsHostView
<1>1. Init => EndInv /\ Begun
  BY DEF Init, EndInv, Begun
<1>2. IInv /\ EndInv /\ [Next]_vars => EndInv'
  BY EndNext DEF IInv, OwnerInv
<1>3. IInv /\ Begun /\ [Next]_vars => Begun'
  BY BegunNext DEF IInv
<1>4. Init => View!Init
  BY ViewInit
<1>5. IInv /\ IInv' /\ EndInv /\ Asked /\ Begun /\ [Next]_vars => [View!Next]_(View!vars)
  BY ViewStep
<1> QED
  BY <1>1, <1>2, <1>3, <1>4, <1>5, Inductive, AskedAlways, PTL
  DEF Spec, KeepsHostView, View!Spec
=============================================================================
