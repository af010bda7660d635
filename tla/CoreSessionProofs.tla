--------------------------- MODULE CoreSessionProofs ---------------------------
(***************************************************************************)
(* Theorems about CoreSession, for any plugins, any sizes of pictures and  *)
(* any number of them.                                                     *)
(***************************************************************************)
EXTENDS CoreSession, TLAPS

(* What the proofs use of SessionAssumption.                               *)
LEMMA Constants ==
  /\ MaxPictures \in Nat /\ CoreThread # NULL /\ NULL \notin Int
  /\ Sizes \subseteq [w : Nat \ {0}, h : Nat \ {0}]
  BY SessionAssumption

-----------------------------------------------------------------------------
(* Type correctness, one part of TypeOK at a time. *)

(* Every variable starts with its type.                                    *)
LEMMA TypeInit == Init => TypeOK
<1> SUFFICES ASSUME Init PROVE TypeOK
  OBVIOUS
<1>1. SessionType
  BY DEF Init, SessionType
<1>2. StoreType
  BY Constants DEF Init, StoreType
<1>3. CoreType
  <2>1. drawn = 0 /\ row = 0 /\ g_frame_height = 0 /\ core_pc = "none" /\ size = NULL
    BY DEF Init
  <2> QED
    BY <2>1, Constants DEF CoreType
<1>4. HostType
  BY Constants DEF Init, HostType, Answers
<1> QED
  BY <1>1, <1>2, <1>3, <1>4 DEF TypeOK

(* Each part of TypeOK depends on its own variables only.                  *)
LEMMA SessionSame == ASSUME SessionType, UNCHANGED session PROVE SessionType'
  BY DEF SessionType, session

(* As SessionSame, for the store.                                          *)
LEMMA StoreSame == ASSUME StoreType, UNCHANGED store PROVE StoreType'
  BY DEF StoreType, store

(* As SessionSame, for the core's thread, which draws row by row of it.    *)
LEMMA CoreSame ==
  ASSUME CoreType, UNCHANGED core, g_frame_height' = g_frame_height PROVE CoreType'
  BY DEF CoreType, core

(* As SessionSame, for the host.                                           *)
LEMMA HostSame == ASSUME HostType, UNCHANGED host PROVE HostType'
  BY DEF HostType, host

(* Waking the waiting calls keeps host_pc a function of the plugins.       *)
LEMMA BroadcastType == ASSUME HostType PROVE Broadcast(host_pc) \in
    [Plugins -> {"idle", "error", "checking", "waiting", "ready", "not ready", "step"}]
  BY DEF HostType, Broadcast

(* pixelWidth() and pixelHeight() answer each plugin a natural number.     *)
LEMMA AnswerType ==
  ASSUME HostType, NEW p \in Plugins, NEW w \in Answers, NEW h \in Answers,
         AnswerSize(p, w, h)
  PROVE  width' \in [Plugins -> Answers] /\ height' \in [Plugins -> Answers]
  BY DEF HostType, AnswerSize

(* A row of the picture's, wherever scaling finds it, is a row. *)
LEMMA RowType ==
  ASSUME TypeOK, size \in Sizes, g_frame_height # 0, NEW y \in Nat
  PROVE  Row(drawn, size.h, SourceRow(y, size.h)) \in Rows
<1>1. size.h \in Nat /\ g_frame_height \in Nat \ {0}
  BY Constants DEF TypeOK, StoreType
<1>2. y * size.h \in Nat
  BY <1>1
<1>3. (y * size.h) \div g_frame_height \in Nat
  BY <1>1, <1>2
<1>4. SourceRow(y, size.h) \in Nat
  BY <1>3 DEF SourceRow
<1> QED
  BY <1>1, <1>4 DEF TypeOK, CoreType, Row, Rows

-----------------------------------------------------------------------------
(* The inductive invariant.  The first parts say who holds g_frame_lock,   *)
(* what has been drawn of the picture under way, and that the picture that *)
(* waits and the pictures the host has are whole.                          *)

Made ==
  IF g_frame = NULL THEN g_frame_width = 0 /\ g_frame_height = 0
                    ELSE [w |-> g_frame_width, h |-> g_frame_height] \in Sizes

(* A store that was made has at least one row: Sizes holds no empty        *)
(* picture.                                                                *)
LEMMA StoreHasRows == ASSUME Made, g_frame # NULL PROVE g_frame_height \in Nat \ {0}
<1>1. [w |-> g_frame_width, h |-> g_frame_height] \in [w : Nat \ {0}, h : Nat \ {0}]
  BY Constants DEF Made
<1> QED
  BY <1>1

Locked == LockFree <=> core_pc # "draw"

Drawing ==
  core_pc = "draw" =>
    /\ g_frame # NULL /\ size \in Sizes /\ drawn # 0
    /\ \A y \in 0 .. row - 1 : g_frame[y] = Row(drawn, size.h, SourceRow(y, size.h))

StoreWhole == g_frame_new /\ LockFree => g_frame # NULL /\ Whole(g_frame)

HostWhole == \A p \in Plugins : pixels[p] # NULL => g_frame # NULL /\ Whole(pixels[p])

NobodyAsleep ==
  \A p \in Plugins : host_pc[p] = "waiting" =>
    ~g_ended /\ (g_frame = NULL \/ core_pc = "draw")

PictureInv == Made /\ Locked /\ Drawing /\ StoreWhole /\ HostWhole /\ NobodyAsleep

(* Every step keeps the types; the drawing of a row needs to know that     *)
(* there is a store and a picture.                                         *)
LEMMA TypeNext == TypeOK /\ Made /\ Drawing /\ [Next]_vars => TypeOK'
<1> SUFFICES ASSUME TypeOK, Made, Drawing, [Next]_vars PROVE TypeOK'
  OBVIOUS
<1> USE DEF TypeOK
<1>1. CASE load_game
  <2>1. StoreType' /\ HostType'
    BY <1>1, StoreSame, HostSame DEF load_game
  <2>2. SessionType' /\ CoreType'
    BY <1>1 DEF load_game, SessionType, CoreType, store
  <2> QED
    BY <2>1, <2>2
<1>2. CASE frame_loop
  <2>1. SessionType' /\ StoreType' /\ HostType'
    BY <1>2, SessionSame, StoreSame, HostSame DEF frame_loop
  <2>2. CoreType'
    BY <1>2 DEF frame_loop, CoreType, store
  <2> QED
    BY <2>1, <2>2
<1>3. CASE retro_run_returns \/ exit
  <2>1. SessionType' /\ StoreType' /\ HostType'
    BY <1>3, SessionSame, StoreSame, HostSame DEF retro_run_returns, exit
  <2>2. CoreType'
    BY <1>3 DEF retro_run_returns, exit, CoreType, store
  <2> QED
    BY <2>1, <2>2
<1>4. CASE environment_shutdown
  <2>1. StoreType' /\ HostType' /\ CoreType'
    BY <1>4, StoreSame, HostSame, CoreSame DEF environment_shutdown, store
  <2>2. SessionType'
    BY <1>4 DEF environment_shutdown, SessionType
  <2> QED
    BY <2>1, <2>2
<1>5. CASE video_refresh_row
  <2>1. SessionType' /\ HostType'
    BY <1>5, SessionSame, HostSame DEF video_refresh_row
  <2>2. row \in Nat /\ g_frame_height \in Nat /\ row < g_frame_height
    BY <1>5 DEF video_refresh_row, RowsLeft, CoreType, StoreType
  <2>3. Row(drawn, size.h, SourceRow(row, size.h)) \in Rows
    BY <1>5, <2>2, RowType, StoreHasRows DEF Drawing, video_refresh_row
  <2>4. StoreType'
    BY <1>5, <2>2, <2>3 DEF video_refresh_row, StoreType, Drawing
  <2>5. CoreType'
    BY <1>5, <2>2 DEF video_refresh_row, CoreType
  <2> QED
    BY <2>1, <2>4, <2>5
<1>6. CASE video_refresh_done
  <2>1. SessionType'
    BY <1>6, SessionSame DEF video_refresh_done
  <2>2. StoreType'
    BY <1>6 DEF video_refresh_done, StoreType, MarkNew
  <2>3. CoreType'
    BY <1>6 DEF video_refresh_done, CoreType
  <2>4. HostType'
    BY <1>6, BroadcastType DEF video_refresh_done, HostType
  <2> QED
    BY <2>1, <2>2, <2>3, <2>4
<1>7. CASE core_main_finish
  <2>1. SessionType'
    BY <1>7, SessionSame DEF core_main_finish
  <2>2. StoreType'
    BY <1>7 DEF core_main_finish, StoreType, finish
  <2>3. CoreType'
    BY <1>7 DEF core_main_finish, CoreType
  <2>4. HostType'
    BY <1>7, BroadcastType DEF core_main_finish, finish, HostType
  <2> QED
    BY <2>1, <2>2, <2>3, <2>4
<1>8. CASE video_refresh
  <2>1. SessionType' /\ HostType'
    BY <1>8, SessionSame, HostSame DEF video_refresh
  <2>2. PICK s \in Sizes : size' = s /\ MakeStore(s)
    BY <1>8 DEF video_refresh
  <2>3. s.w \in Nat /\ s.h \in Nat
    BY Constants
  <2>4. g_frame_width' \in Nat /\ g_frame_height' \in Nat
    BY <2>2, <2>3 DEF MakeStore, StoreType
  <2>5. Blank \in Rows
    BY Constants DEF Blank, Row, Rows
  <2>6. (g_frame # NULL => g_frame \in [0 .. g_frame_height - 1 -> Rows])'
    BY <2>2, <2>3, <2>5 DEF MakeStore, StoreType
  <2>7. StoreType'
    BY <1>8, <2>4, <2>6 DEF video_refresh, StoreType
  <2>8. drawn' \in 0 .. MaxPictures
    BY <1>8, Constants DEF video_refresh, CoreType
  <2>9. row' \in 0 .. g_frame_height'
    BY <1>8, <2>4 DEF video_refresh
  <2>10. CoreType'
    BY <1>8, <2>2, <2>8, <2>9 DEF video_refresh, CoreType
  <2> QED
    BY <2>1, <2>7, <2>10
<1>9. CASE video_refresh_no_memory
  <2>1. SessionType' /\ StoreType' /\ HostType'
    BY <1>9, SessionSame, StoreSame, HostSame DEF video_refresh_no_memory
  <2>2. drawn' \in 0 .. MaxPictures
    BY <1>9, Constants DEF video_refresh_no_memory, CoreType
  <2>3. CoreType'
    BY <1>9, <2>2 DEF video_refresh_no_memory, CoreType, store
  <2> QED
    BY <2>1, <2>3
<1>10. ASSUME NEW p \in Plugins, HostNext(p) PROVE TypeOK'
  <2>1. CASE native_start(p)
    <3>1. StoreType'
      BY <2>1, StoreSame DEF native_start
    <3>2. CoreType'
      BY <2>1 DEF native_start, CoreType, store
    <3>3. SessionType'
      BY <2>1 DEF native_start, SessionType
    <3>4. HostType'
      BY <2>1 DEF native_start, HostType
    <3> QED
      BY <3>1, <3>2, <3>3, <3>4
  <2>2. CASE onDestroy(p)
    <3>1. SessionType' /\ StoreType'
      BY <2>2 DEF onDestroy, native_stop, SessionType, StoreType
    <3>2. CoreType'
      BY <2>2, CoreSame DEF onDestroy
    <3>3. HostType'
      BY <2>2 DEF onDestroy, HostType
    <3> QED
      BY <3>1, <3>2, <3>3
  <2>3. CASE native_step(p)
    <3>1. SessionType' /\ StoreType' /\ CoreType'
      BY <2>3, SessionSame, CoreSame DEF native_step, StoreType
    <3>2. HostType'
      <4>1. step_result' \in [Plugins -> Nat \union {-1, NULL}]
        <5>1. PICK r \in Nat \union {-1, NULL} : step_result' = [step_result EXCEPT ![p] = r]
          BY <2>3 DEF native_step, StoreType
        <5> QED
          BY <5>1 DEF HostType
      <4>2. pixels' = [q \in Plugins |-> pixels'[q]]
        <5>1. \/ pixels' = [pixels EXCEPT ![p] = g_frame]
              \/ pixels' = pixels
          BY <2>3 DEF native_step
        <5> QED
          BY <5>1 DEF HostType
      <4> QED
        BY <2>3, <4>1, <4>2 DEF native_step, HostType
    <3> QED
      BY <3>1, <3>2
  <2>4. ASSUME UNCHANGED <<session, store, core>>, HostType' PROVE TypeOK'
    BY <2>4, SessionSame, StoreSame, CoreSame DEF store
  <2>5. CASE native_error(p) \/ spurious_wakeup(p)
    <3>1. HostType'
      BY <2>5 DEF native_error, spurious_wakeup, HostType
    <3> QED
      BY <2>4, <2>5, <3>1 DEF native_error, spurious_wakeup
  <2>6. CASE pixel_size(p)
    <3>1. 0 \in Answers
      BY DEF Answers
    <3>2. width' \in [Plugins -> Answers] /\ height' \in [Plugins -> Answers]
      BY <2>6, <3>1, AnswerType DEF pixel_size, HostType
    <3>3. HostType'
      BY <2>6, <3>2 DEF pixel_size, HostType
    <3> QED
      BY <2>4, <2>6, <3>3 DEF pixel_size
  <2>7. CASE wait_first_frame(p) \/ wait_times_out(p)
    <3>1. HostType'
      BY <2>7 DEF wait_first_frame, wait_times_out, Answer, HostType
    <3> QED
      BY <2>4, <2>7, <3>1 DEF wait_first_frame, wait_times_out
  <2>8. CASE native_size(p)
    <3>1. 0 \in Answers /\ g_frame_width \in Answers /\ g_frame_height \in Answers
      BY DEF Answers, StoreType
    <3>2. width' \in [Plugins -> Answers] /\ height' \in [Plugins -> Answers]
      BY <2>8, <3>1, AnswerType DEF native_size
    <3>3. HostType'
      BY <2>8, <3>2 DEF native_size, HostType
    <3> QED
      BY <2>4, <2>8, <3>3 DEF native_size
  <2>9. CASE step(p)
    <3>1. HostType'
      BY <2>9 DEF step, HostType
    <3> QED
      BY <2>4, <2>9, <3>1 DEF step
  <2> QED
    BY <1>10, <2>1, <2>2, <2>3, <2>5, <2>6, <2>7, <2>8, <2>9 DEF HostNext
<1>11. CASE UNCHANGED vars
  BY <1>11, SessionSame, StoreSame, CoreSame, HostSame DEF vars, store
<1> QED
  BY <1>1, <1>2, <1>3, <1>4, <1>5, <1>6, <1>7, <1>8, <1>9, <1>10, <1>11
  DEF Next, CoreNext, core_main

-----------------------------------------------------------------------------
(* Who has the core: OwnerInv is inductive. *)

NotStarted ==
  ~g_content_path => core_pc = "none" /\ ~g_stop /\ \A p \in Plugins : life[p] = "new"

Failing == \A p \in Plugins : host_pc[p] = "error" => life[p] = "new" /\ g_content_path

OwnerInv == NotStarted /\ Failing /\ OneCore

(* At first no plugin has been given the core.                             *)
LEMMA OwnerInit == Init => OwnerInv
<1>1. Init => /\ core_pc = "none" /\ g_stop = FALSE
              /\ \A p \in Plugins : life[p] = "new" /\ host_pc[p] = "idle"
  BY DEF Init
<1> QED
  BY <1>1 DEF OwnerInv, NotStarted, Failing, OneCore

(* No step gives a second plugin the core, because native_start refuses    *)
(* once a content path is recorded.                                        *)
LEMMA OwnerNext == TypeOK /\ OwnerInv /\ [Next]_vars => OwnerInv'
<1> SUFFICES ASSUME TypeOK, OwnerInv, [Next]_vars PROVE OwnerInv'
  OBVIOUS
<1> USE DEF OwnerInv
<1>1. CASE CoreNext
  <2>1. /\ core_pc # "none" /\ UNCHANGED <<g_content_path, g_stop, life>>
        /\ host_pc' = host_pc \/ host_pc' = Broadcast(host_pc)
    BY <1>1 DEF CoreNext, core_main, load_game, frame_loop, retro_run_returns,
       environment_shutdown, exit, video_refresh, video_refresh_no_memory,
       video_refresh_row, video_refresh_done, core_main_finish, finish, session, host
  <2>2. Failing'
    BY <2>1 DEF Failing, Broadcast
  <2> QED
    BY <2>1, <2>2 DEF NotStarted, OneCore
<1>2. ASSUME NEW p \in Plugins, HostNext(p) PROVE OwnerInv'
  <2>1. CASE native_start(p)
    <3>1. /\ life[p] = "new" /\ host_pc[p] = "idle" /\ UNCHANGED g_stop
          /\ g_content_path'
          /\ \/ UNCHANGED <<core_pc, life>> /\ host_pc' = [host_pc EXCEPT ![p] = "error"]
             \/ /\ ~g_content_path /\ UNCHANGED host_pc
                /\ life' = [life EXCEPT ![p] = "live"]
      <4>1. g_content_path'
        <5>1. CASE g_content_path
          BY <2>1, <5>1 DEF native_start, CoreTaken
        <5>2. CASE ~g_content_path
          BY <2>1, <5>2 DEF native_start, CoreTaken
        <5> QED
          BY <5>1, <5>2
      <4> QED
        BY <2>1, <4>1 DEF native_start, CoreTaken
    <3>2. NotStarted'
      BY <3>1 DEF NotStarted
    <3>3. Failing'
      BY <3>1 DEF Failing, TypeOK, HostType
    <3>4. OneCore'
      BY <3>1 DEF NotStarted, OneCore, TypeOK, HostType
    <3> QED
      BY <3>2, <3>3, <3>4
  <2>2. CASE native_error(p)
    <3>1. life[p] = "new" /\ UNCHANGED <<g_content_path, g_stop, core_pc>>
          /\ life' = [life EXCEPT ![p] = "failed"] /\ host_pc' = [host_pc EXCEPT ![p] = "idle"]
      BY <2>2 DEF native_error, Failing, session, core
    <3>2. g_content_path
      BY <2>2 DEF native_error, Failing
    <3> QED
      BY <3>1, <3>2 DEF NotStarted, Failing, OneCore, TypeOK, HostType
  <2>3. CASE onDestroy(p)
    <3>1. life[p] = "live" /\ g_content_path /\ UNCHANGED <<g_content_path, host_pc>>
          /\ life' = [life EXCEPT ![p] = "destroyed"]
      BY <2>3 DEF onDestroy, NotStarted
    <3> QED
      BY <3>1 DEF NotStarted, Failing, OneCore, TypeOK, HostType
  <2>4. CASE \/ pixel_size(p) \/ wait_first_frame(p) \/ spurious_wakeup(p)
             \/ wait_times_out(p) \/ native_size(p) \/ step(p) \/ native_step(p)
    <3>1. UNCHANGED <<g_content_path, g_stop, core_pc, life>>
          /\ \A q \in Plugins : host_pc'[q] = "error" => host_pc[q] = "error"
      BY <2>4 DEF pixel_size, wait_first_frame, spurious_wakeup, wait_times_out, Answer,
         native_size, step, native_step, session, core, TypeOK, HostType
    <3> QED
      BY <3>1 DEF NotStarted, Failing, OneCore
  <2> QED
    BY <1>2, <2>1, <2>2, <2>3, <2>4 DEF HostNext
<1>3. CASE UNCHANGED vars
  BY <1>3 DEF vars, session, core, host, NotStarted, Failing, OneCore
<1> QED
  BY <1>1, <1>2, <1>3 DEF Next

-----------------------------------------------------------------------------
(* PictureInv is inductive. *)

(* At first there is no store and nobody waits.                            *)
LEMMA PictureInit == Init => PictureInv
<1> SUFFICES ASSUME Init PROVE PictureInv
  OBVIOUS
<1>1. /\ g_frame_lock = NULL /\ core_pc = "none" /\ g_frame_new = FALSE
      /\ g_frame = NULL /\ g_frame_width = 0 /\ g_frame_height = 0
      /\ \A p \in Plugins : pixels[p] = NULL /\ host_pc[p] = "idle"
  BY DEF Init
<1> QED
  BY <1>1 DEF PictureInv, Made, Locked, LockFree, Drawing, StoreWhole, HostWhole, NobodyAsleep

(* Whole pictures stay whole while the store keeps its height. *)
LEMMA HostWholeSame ==
  ASSUME TypeOK, TypeOK', HostWhole, drawn <= drawn', pixels' = pixels,
         g_frame # NULL => g_frame' # NULL /\ g_frame_height' = g_frame_height
  PROVE  HostWhole'
<1> SUFFICES ASSUME NEW p \in Plugins, pixels[p] # NULL
             PROVE  g_frame' # NULL /\ Whole(pixels[p])'
  BY DEF HostWhole
<1>1. g_frame # NULL /\ Whole(pixels[p])
  BY DEF HostWhole
<1>2. PICK n \in 1 .. drawn, s \in Sizes :
        pixels[p] = [y \in 0 .. g_frame_height - 1 |-> Row(n, s.h, SourceRow(y, s.h))]
  BY <1>1 DEF Whole
<1>3. n \in 1 .. drawn'
  BY DEF TypeOK, CoreType
<1> QED
  BY <1>1, <1>2, <1>3 DEF Whole, SourceRow

(* A whole picture in the store stays whole while nobody draws.            *)
LEMMA StoreWholeSame ==
  ASSUME TypeOK, TypeOK', StoreWhole, drawn <= drawn',
         UNCHANGED <<g_frame, g_frame_height>>,
         g_frame_new' /\ LockFree' => g_frame_new /\ LockFree
  PROVE  StoreWhole'
<1> SUFFICES ASSUME g_frame_new', LockFree' PROVE g_frame' # NULL /\ Whole(g_frame)'
  BY DEF StoreWhole
<1>1. g_frame # NULL /\ Whole(g_frame)
  BY DEF StoreWhole
<1>2. PICK n \in 1 .. drawn, s \in Sizes :
        g_frame = [y \in 0 .. g_frame_height - 1 |-> Row(n, s.h, SourceRow(y, s.h))]
  BY <1>1 DEF Whole
<1>3. n \in 1 .. drawn'
  BY DEF TypeOK, CoreType
<1> QED
  BY <1>1, <1>2, <1>3 DEF Whole, SourceRow

(* Steps that neither draw nor touch the store or the host's arrays. *)
LEMMA PictureSame ==
  ASSUME TypeOK, TypeOK', PictureInv,
         UNCHANGED <<store, drawn, size, row, pixels>>,
         core_pc' = "draw" <=> core_pc = "draw"
  PROVE  (Made /\ Locked /\ Drawing /\ StoreWhole /\ HostWhole)'
<1> USE DEF PictureInv
<1>1. drawn <= drawn' /\ LockFree' = LockFree
  BY DEF TypeOK, CoreType, store, LockFree
<1>2. Made' /\ Locked'
  BY <1>1 DEF Made, Locked, store
<1>3. Drawing'
  BY DEF Drawing, store, SourceRow
<1>4. StoreWhole'
  BY <1>1, StoreWholeSame DEF store
<1>5. HostWhole'
  BY <1>1, HostWholeSame DEF store
<1> QED
  BY <1>2, <1>3, <1>4, <1>5

(* Every step keeps the pictures whole, the lock with the drawing core,    *)
(* and nobody asleep who has something to be told.                         *)
LEMMA PictureNext == TypeOK /\ NotStarted /\ PictureInv /\ [Next]_vars => PictureInv'
<1> SUFFICES ASSUME TypeOK, NotStarted, PictureInv, [Next]_vars PROVE PictureInv'
  OBVIOUS
<1>0. TypeOK'
  BY TypeNext DEF PictureInv
<1> USE DEF PictureInv
<1>1. CASE load_game \/ frame_loop \/ retro_run_returns \/ environment_shutdown \/ exit
  <2>1. /\ UNCHANGED <<store, drawn, size, row, host>>
        /\ core_pc' # "draw" /\ core_pc # "draw"
    BY <1>1 DEF load_game, frame_loop, retro_run_returns, environment_shutdown, exit, core
  <2>2. NobodyAsleep'
    BY <2>1 DEF NobodyAsleep, store, host
  <2> QED
    BY <1>0, <2>1, <2>2, PictureSame DEF host
<1>2. CASE video_refresh
  <2>1. PICK s \in Sizes : size' = s /\ MakeStore(s)
    BY <1>2 DEF video_refresh
  <2>2. /\ g_frame_lock' = CoreThread /\ core_pc' = "draw" /\ row' = 0
        /\ drawn' = drawn + 1 /\ UNCHANGED <<g_frame_new, g_ended, host>>
    BY <1>2 DEF video_refresh
  <2>3. s.h \in Nat \ {0} /\ s.w \in Nat
    BY Constants
  <2>4. g_frame # NULL => UNCHANGED <<g_frame, g_frame_height>>
    BY <2>1 DEF MakeStore
  <2>5. g_frame' # NULL /\ g_frame_height' # 0
    <3>1. CASE g_frame = NULL
      <4>1. Blank \in Rows
        BY Constants DEF Blank, Row, Rows
      <4>2. g_frame' = [y \in 0 .. s.h - 1 |-> Blank] /\ g_frame_height' = s.h
        BY <2>1, <3>1 DEF MakeStore
      <4>3. g_frame' \in [0 .. s.h - 1 -> Rows]
        BY <4>1, <4>2
      <4> QED
        BY <2>3, <4>2, <4>3, SessionAssumption
    <3>2. CASE g_frame # NULL
      <4>1. g_frame_height # 0
        BY <3>2, StoreHasRows
      <4> QED
        BY <2>4, <3>2, <4>1
    <3> QED
      BY <3>1, <3>2
  <2>6. Made'
    <3>1. s = [w |-> s.w, h |-> s.h]
      BY Constants
    <3> QED
      BY <2>1, <2>2, <2>5, <3>1 DEF Made, MakeStore
  <2>11. Locked' /\ StoreWhole'
    BY <2>2, Constants DEF Locked, StoreWhole, LockFree
  <2>7. drawn' # 0 /\ drawn <= drawn'
    BY <2>2 DEF TypeOK, CoreType
  <2>8. Drawing'
    BY <2>1, <2>2, <2>5, <2>7 DEF Drawing
  <2>9. HostWhole'
    BY <1>0, <2>2, <2>4, <2>5, <2>7, HostWholeSame DEF host
  <2>10. NobodyAsleep'
    BY <2>2 DEF NobodyAsleep, host
  <2> QED
    BY <2>6, <2>8, <2>9, <2>10, <2>11
<1>3. CASE video_refresh_no_memory
  <2>1. UNCHANGED <<store, core_pc, size, row, host>> /\ drawn' = drawn + 1 /\ core_pc # "draw"
    BY <1>3 DEF video_refresh_no_memory
  <2>2. drawn <= drawn' /\ LockFree' = LockFree
    BY <2>1 DEF TypeOK, CoreType, LockFree, store
  <2>3. Made' /\ Locked' /\ Drawing' /\ NobodyAsleep'
    BY <2>1, <2>2 DEF Made, Locked, Drawing, NobodyAsleep, store, host
  <2>4. StoreWhole' /\ HostWhole'
    BY <1>0, <2>1, <2>2, StoreWholeSame, HostWholeSame DEF store, host
  <2> QED
    BY <2>3, <2>4
<1>4. CASE video_refresh_row
  <2>1. /\ core_pc = "draw" /\ core_pc' = "draw" /\ row < g_frame_height /\ row' = row + 1
        /\ g_frame' = [g_frame EXCEPT ![row] = Row(drawn, size.h, SourceRow(row, size.h))]
        /\ UNCHANGED <<g_frame_lock, g_frame_width, g_frame_height, g_frame_new, g_ended,
                       drawn, size, host>>
    BY <1>4 DEF video_refresh_row, RowsLeft
  <2>2. g_frame # NULL /\ size \in Sizes /\ drawn # 0
    BY <2>1 DEF Drawing
  <2>3. row \in 0 .. g_frame_height - 1 /\ g_frame_height \in Nat
    BY <2>1 DEF TypeOK, CoreType, StoreType
  <2>4. g_frame' # NULL
    <3>1. NULL \notin [0 .. g_frame_height - 1 -> Rows]
      <4>1. PICK t \in Sizes : t = [w |-> g_frame_width, h |-> g_frame_height]
        BY <2>2 DEF Made
      <4>2. NULL \notin [0 .. t.h - 1 -> Rows]
        BY SessionAssumption
      <4> QED
        BY <4>1, <4>2
    <3>2. g_frame \in [0 .. g_frame_height - 1 -> Rows]
      BY <2>2 DEF TypeOK, StoreType
    <3>3. Row(drawn, size.h, SourceRow(row, size.h)) \in Rows
      BY <2>2, <2>3, RowType, StoreHasRows
    <3>4. g_frame' \in [0 .. g_frame_height - 1 -> Rows]
      BY <2>1, <3>2, <3>3
    <3> QED
      BY <3>1, <3>4
  <2>5. Made' /\ Locked'
    BY <2>1, <2>2, <2>4 DEF Made, Locked, LockFree
  <2>6. Drawing'
    <3>1. ASSUME NEW y \in 0 .. row' - 1
          PROVE  g_frame'[y] = Row(drawn, size.h, SourceRow(y, size.h))
      <4>1. g_frame \in [0 .. g_frame_height - 1 -> Rows]
        BY <2>2 DEF TypeOK, StoreType
      <4>2. CASE y = row
        BY <2>1, <2>3, <4>1, <4>2
      <4>3. CASE y # row
        <5>1. y \in 0 .. row - 1 /\ y \in 0 .. g_frame_height - 1
          BY <2>1, <2>3, <4>3
        <5>2. g_frame[y] = Row(drawn, size.h, SourceRow(y, size.h))
          BY <2>1, <5>1 DEF Drawing
        <5> QED
          BY <2>1, <4>1, <4>3, <5>1, <5>2
      <4> QED
        BY <4>2, <4>3
    <3>2. ASSUME NEW y PROVE SourceRow(y, size.h)' = SourceRow(y, size.h)
      BY <2>1 DEF SourceRow
    <3> QED
      BY <2>1, <2>2, <2>4, <3>1, <3>2 DEF Drawing
  <2>7. StoreWhole'
    BY <2>1, <2>5 DEF StoreWhole, Locked
  <2>8. drawn <= drawn'
    BY <2>1 DEF TypeOK, CoreType
  <2>9. HostWhole'
    BY <1>0, <2>1, <2>4, <2>8, HostWholeSame DEF host
  <2>10. NobodyAsleep'
    BY <2>1 DEF NobodyAsleep, host
  <2> QED
    BY <2>5, <2>6, <2>7, <2>9, <2>10
<1>5. CASE video_refresh_done
  <2>1. /\ core_pc = "draw" /\ core_pc' = "run" /\ row = g_frame_height
        /\ g_frame_lock' = NULL /\ host_pc' = Broadcast(host_pc)
        /\ UNCHANGED <<g_frame, g_frame_width, g_frame_height, g_ended, drawn, size, pixels>>
    BY <1>5 DEF video_refresh_done
  <2>2. g_frame # NULL /\ size \in Sizes /\ drawn # 0
    BY <2>1 DEF Drawing
  <2>3. Made' /\ Locked' /\ Drawing'
    BY <2>1 DEF Made, Locked, LockFree, Drawing
  <2>4. Whole(g_frame)
    <3>1. g_frame \in [0 .. g_frame_height - 1 -> Rows]
      BY <2>2 DEF TypeOK, StoreType
    <3>2. \A y \in 0 .. g_frame_height - 1 :
            g_frame[y] = Row(drawn, size.h, SourceRow(y, size.h))
      BY <2>1 DEF Drawing
    <3>3. g_frame = [y \in 0 .. g_frame_height - 1 |->
                       Row(drawn, size.h, SourceRow(y, size.h))]
      BY <3>1, <3>2
    <3>4. drawn \in 1 .. drawn
      BY <2>2 DEF TypeOK, CoreType
    <3> QED
      BY <2>2, <3>3, <3>4 DEF Whole
  <2>5. StoreWhole'
    BY <2>1, <2>2, <2>4 DEF StoreWhole, Whole, SourceRow
  <2>6. drawn <= drawn'
    BY <2>1 DEF TypeOK, CoreType
  <2>7. HostWhole'
    BY <1>0, <2>1, <2>6, HostWholeSame
  <2>8. NobodyAsleep'
    BY <2>1 DEF NobodyAsleep, Broadcast
  <2> QED
    BY <2>3, <2>5, <2>7, <2>8
<1>6. CASE core_main_finish
  <2>1. /\ core_pc # "draw" /\ core_pc' = "gone" /\ host_pc' = Broadcast(host_pc)
        /\ UNCHANGED <<g_frame_lock, g_frame, g_frame_width, g_frame_height, g_frame_new,
                       drawn, size, row, pixels>>
    BY <1>6 DEF core_main_finish, finish
  <2>2. Made' /\ Locked' /\ Drawing'
    BY <2>1 DEF Made, Locked, LockFree, Drawing
  <2>3. drawn <= drawn' /\ LockFree' = LockFree
    BY <2>1 DEF TypeOK, CoreType, LockFree
  <2>4. StoreWhole' /\ HostWhole'
    BY <1>0, <2>1, <2>3, StoreWholeSame, HostWholeSame
  <2>5. NobodyAsleep'
    BY <2>1 DEF NobodyAsleep, Broadcast
  <2> QED
    BY <2>2, <2>4, <2>5
<1>7. ASSUME NEW p \in Plugins, HostNext(p) PROVE PictureInv'
  <2>1. CASE native_step(p)
    <3>1. /\ LockFree /\ UNCHANGED <<g_frame_lock, g_frame, g_frame_width, g_frame_height,
                                     g_ended, core>>
          /\ g_frame_new' => g_frame_new
          /\ \A q \in Plugins : host_pc'[q] = "waiting" => host_pc[q] = "waiting"
          /\ pixels' = pixels \/ (g_frame_new /\ pixels' = [pixels EXCEPT ![p] = g_frame])
      <4>1. host_pc' = [host_pc EXCEPT ![p] = "idle"]
        BY <2>1 DEF native_step
      <4>2. \A q \in Plugins : host_pc'[q] = "waiting" => host_pc[q] = "waiting"
        BY <4>1 DEF TypeOK, HostType
      <4> QED
        BY <2>1, <4>2 DEF native_step, NoPicture, TypeOK, StoreType
    <3>2. Made' /\ Locked' /\ Drawing' /\ NobodyAsleep'
      BY <3>1 DEF Made, Locked, LockFree, Drawing, NobodyAsleep, core, SourceRow
    <3>3. drawn <= drawn' /\ LockFree' = LockFree
      BY <3>1 DEF TypeOK, CoreType, core, LockFree
    <3>4. StoreWhole'
      BY <1>0, <3>1, <3>3, StoreWholeSame
    <3>5. HostWhole'
      <4>1. CASE pixels' = pixels
        BY <1>0, <3>1, <3>3, <4>1, HostWholeSame
      <4>2. CASE g_frame_new /\ pixels' = [pixels EXCEPT ![p] = g_frame]
        <5>1. g_frame # NULL /\ Whole(g_frame)
          BY <3>1, <4>2 DEF StoreWhole
        <5>2. ASSUME NEW q \in Plugins, pixels'[q] # NULL
              PROVE  g_frame' # NULL /\ Whole(pixels[q])'
          <6>1. Whole(pixels'[q])
            BY <4>2, <5>1, <5>2 DEF HostWhole, TypeOK, HostType
          <6> QED
            BY <3>1, <5>1, <6>1 DEF Whole, SourceRow, core
        <5> QED
          BY <5>2 DEF HostWhole
      <4> QED
        BY <3>1, <4>1, <4>2
    <3> QED
      BY <3>2, <3>4, <3>5
  <2>2. CASE onDestroy(p)
    <3>1. UNCHANGED <<store, drawn, size, row, pixels, core_pc, host_pc>>
      BY <2>2 DEF onDestroy, native_stop, store, core
    <3>2. NobodyAsleep'
      BY <3>1 DEF NobodyAsleep, store
    <3> QED
      BY <1>0, <3>1, <3>2, PictureSame
  <2>3. CASE native_start(p)
    <3>1. /\ UNCHANGED <<store, drawn, size, row, pixels>>
          /\ host_pc' = host_pc \/ host_pc' = [host_pc EXCEPT ![p] = "error"]
          /\ core_pc' = core_pc \/ (~CoreTaken /\ core_pc' = "load")
      BY <2>3 DEF native_start
    <3>2. core_pc' = "draw" <=> core_pc = "draw"
      BY <3>1 DEF NotStarted, CoreTaken
    <3>3. NobodyAsleep'
      BY <3>1, <3>2 DEF NobodyAsleep, store, TypeOK, HostType
    <3> QED
      BY <1>0, <3>1, <3>2, <3>3, PictureSame
  <2>4. CASE \/ native_error(p) \/ pixel_size(p) \/ wait_first_frame(p) \/ spurious_wakeup(p)
             \/ wait_times_out(p) \/ native_size(p) \/ step(p)
    <3>1. UNCHANGED <<store, core, pixels>>
      BY <2>4 DEF native_error, pixel_size, wait_first_frame, spurious_wakeup,
         wait_times_out, native_size, step
    <3>2. ASSUME NEW q \in Plugins, host_pc'[q] = "waiting"
          PROVE  host_pc[q] = "waiting" \/ (~g_ended /\ g_frame = NULL)
      BY <2>4, <3>2 DEF native_error, pixel_size, wait_first_frame, spurious_wakeup,
         wait_times_out, native_size, step, Answer, KeepWaiting, TypeOK, HostType
    <3>3. NobodyAsleep'
      BY <3>1, <3>2 DEF NobodyAsleep, store, core
    <3> QED
      BY <1>0, <3>1, <3>3, PictureSame DEF core
  <2> QED
    BY <1>7, <2>1, <2>2, <2>3, <2>4 DEF HostNext
<1>8. CASE UNCHANGED vars
  <2>1. NobodyAsleep'
    BY <1>8 DEF vars, store, core, host, NobodyAsleep
  <2> QED
    BY <1>0, <1>8, <2>1, PictureSame DEF vars, core, host
<1> QED
  BY <1>1, <1>2, <1>3, <1>4, <1>5, <1>6, <1>7, <1>8 DEF Next, CoreNext, core_main

-----------------------------------------------------------------------------
(* The inductive invariant of the session.                                 *)
IInv == TypeOK /\ OwnerInv /\ PictureInv

(* The inductive invariant holds for ever.                                 *)
LEMMA Inductive == Spec => []IInv
<1>1. Init => IInv
  BY TypeInit, OwnerInit, PictureInit DEF IInv
<1>2. IInv /\ [Next]_vars => IInv'
  BY TypeNext, OwnerNext, PictureNext DEF IInv, OwnerInv, PictureInv
<1> QED
  BY <1>1, <1>2, PTL DEF Spec

(* Every variable keeps its type, however many plugins come and go.        *)
THEOREM TypeCorrect == Spec => []TypeOK
<1>1. IInv => TypeOK
  BY DEF IInv
<1> QED
  BY <1>1, Inductive, PTL

(* The host never holds a torn picture: what native_step copies is one     *)
(* picture of the core's, though the core draws row by row on its thread.  *)
THEOREM NoTornPicture == Spec => []WholePicture
<1>1. IInv => WholePicture
  BY DEF IInv, PictureInv, HostWhole, WholePicture
<1> QED
  BY <1>1, Inductive, PTL

(* No broadcast of g_frame_ready is missed: once there is a picture or the *)
(* core has ended, no call of wait_first_frame is left asleep.             *)
THEOREM NobodySleepsOn == Spec => []NoLostWakeup
<1>1. IInv => NoLostWakeup
  BY DEF IInv, PictureInv, NobodyAsleep, Locked, NoLostWakeup
<1> QED
  BY <1>1, Inductive, PTL

(* At most one plugin object of the process ever has the core, and while   *)
(* it lives nobody has told its core to stop.                              *)
THEOREM OnlyOneCore == Spec => []OneCore
<1>1. IInv => OneCore
  BY DEF IInv, OwnerInv
<1> QED
  BY <1>1, Inductive, PTL
=============================================================================
