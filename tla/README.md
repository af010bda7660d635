# The NScripter plugin of Enginehost: TLA+ models, checks and proofs

The repository is a plugin for the Android host Enginehost. It runs one libretro
core (onsyuri, an NScripter engine, fetched at build time) inside the host's
process, behind a small frontend written here: a C file that is the core's
libretro frontend and the plugin's JNI side, an audio ring shared with the host,
a forwarder for the engine's file calls, and two Java classes that are what the
host sees. This directory models that frontend.

Contents: [the system](#the-system), [modules](#modules), [runs](#runs),
[fairness](#fairness), [proofs](#proofs), [findings](#findings),
[not modelled](#not-modelled), [plan](#plan).

## The system

Paths are relative to `src/`. `L` is `plugin-native/libretro/enginehost_libretro.c`.

| component | state | operations | who calls whom |
| --- | --- | --- | --- |
| core session (`L`, `LibretroPlugin.java`) | one core per process: `g_content_path`, `g_stop`, `g_shutdown`; the picture store `g_frame` with its size and `g_frame_new`; `g_ended`, `g_failed`, `g_error`; in Java, `core` | `onCreate` -> `native_start`; `pixelWidth/Height` -> `wait_first_frame`; `step`; `onDestroy` -> `native_stop`; on the core's thread `core_main`, `video_refresh`, `environment`, `finish` | host threads against the core's thread, over `g_frame_lock` and the condition `g_frame_ready` |
| input (`L`) | pointer and mouse variables, two latches, what the last poll saw, the mouse's last place | `native_pointer`, `native_mouse` by the host; `input_poll`, `input_state` by the core | shared volatile variables, no lock |
| frontend towards the core (`L`: `environment`, `core_main`) | the callbacks the core registered, `g_pixel_format`, `g_shutdown` | `core_main`'s calls of the core in their order; `environment()` with its cases; `to_argb` | the core calls back from inside any call `core_main` makes of it |
| options (`L`) | the option list, `g_options_changed` | `native_start`'s map, five commands that declare, `GET_VARIABLE`, `GET_VARIABLE_UPDATE` | plugin, then core, through `environment()` |
| controls (`OnsyuriPlugin.java`, `LibretroPlugin.java`, `L`) | the RetroPad's bits `g_joypad`; an action table and its aliases; the pointer's column and the picture's width | `onControllerEvent`, `native_joypad`, `onPointerMove/Up`, `input_state` | host -> Java -> C, read by the core |
| sound output (`L`) | rates, `g_resample_position`, `g_resample_last` | `audio_batch`, `audio_sample` | core -> resampler -> ring -> host |
| audio ring (`plugin-native/enginehost_audio_ring.c`) | a file mapped by two processes: capacity, write and read positions (32 bits), sound | `open`, `write`, `free_frames`, `buffered_frames` | the core's thread writes, the host's process reads |
| frame pacing and audio pump (`L`, `core_main`) | `next`, `last`; the core's frame-time and audio callbacks | the frame loop in time | core's thread, the clock, the ring's level |
| file forwarder (`plugin-native/enginehost_vfs_forward.c`) | `g_vfs` | `enginehost_vfs_bind`, `__wrap_*`, `exit` | engine -> host's table or libc |
| libretro API (`plugin-native/libretro/libretro.h`) | none | what a frontend and a core owe each other | the text both sides are written to |
| command line, build, workflows, tests | none at run time that another part shares | | see [not modelled](#not-modelled) |

What makes each one correct, and what is hard about it:

* **Session.** The core draws on its own thread, row by row into one store, while
  the host asks for the size once, then for pictures, and may destroy the plugin
  at any moment. The host must never hold a torn picture, must get the latest one
  before it is told of the end, must not sleep through the first one, and must
  always get its calls back. A process has one start only, and plugin objects may
  be several.
* **Input.** A tap may be over before the core polls; press, latch and release are
  separate stores, state and latch separate reads, with relaxed atomics at most.
* **Frontend towards the core.** Some seventy commands, some with an experimental bit
  in their number, one number shared by two of them, and one switch on the masked
  number. The order of calls a core is promised must hold on the paths of a game
  that does not load, a core that shuts down and a host that stops it.
* **Options.** Who names a key first wins, in five forms of declaration, and what a
  declaration's default is depends on the form.
* **Controls.** Two actions may be one button; ids and bits are those of another file;
  a place is scaled to sixteen bits.
* **Sound output.** A fraction of a frame carried from batch to batch, of any lengths,
  and a ring that may be full in the middle of a block.
* **Ring.** Two processes, no lock: order of copy and publication, positions that
  wrap, a header another process wrote.
* **Pacing.** Slow frames, late wake-ups, catching up, and a level of sound read
  while the host plays.
* **Files.** Two sides own handles; a host's table may be too old or too short, or come
  while files are open; `exit()` of one thread.

## Modules

One module per component, and one (Frontend) that composes three of them:

```
CoreSession <- CoreSessionProofs <- PictureProofs    CoreSession => HostView
Libretro <- Options <- Environment => CoreContract   AudioRing => AudioQueue
Libretro <- Controls                                 AudioRing <- AudioRingProofs
Environment, Controls <- Frontend <- FrontendProofs  Sound <- SoundProofs
Input <- InputProofs                                 FramePacing <- FramePacingProofs
                                                     VfsForward <- VfsForwardProofs
```

`<-` is EXTENDS or INSTANCE (the module at the arrow's tail is the one that has it), `=>`
is "implements", checked by TLC and proved. In all of them a variable of the C code keeps its
name, an action is a function or the part of one that is atomic towards the
others, `x_Something` beside `x` is a faulty form of `x` that shows what a
property catches (named in `PROJECT.json`, used by no specification), and
variables that say "history" in their comment record what a property speaks
about and are read by no guard.

**CoreSession** is the core of the project. `core_pc` is the place of the core's
thread (`core_main` and the callbacks made on it), `host_pc[p]` the place of the
host's call into plugin `p`, `life[p]` the plugin object. `video_refresh` takes
the lock and makes the store, `video_refresh_row` writes one row,
`video_refresh_done` marks the picture new, broadcasts and unlocks: the lock is
held over many steps. The host's critical sections are one step that needs the
lock free, because nothing inside them is visible to anyone outside the lock.
`native_size` reads the store's size after the wait and outside the lock, as the
code does. A timed wait may time out at any moment, and may wake for nothing.
`native_start` has its three outcomes; `strdup` failures before them, and
`onCreate`'s checks that throw before any native call, leave no native state and
are left out. Columns are scaled exactly as rows are, and pixels carry no more
than which row of which picture they are. Where the engine calls `exit()`, the
thread is over without `finish()` (`exit`).

**HostView** is what a session promises the host, with no thread, lock or wait in it: a
plugin gets the one core, none, or loses it; pictures are handed over whole and all in
the first one's size, the latest is kept and taken once, into an array it fits into; the
size is told, width then height; the end is told when there is nothing new. CoreSession
implements it by the mapping at its end (`KeepsHostView`): a picture is handed over at
the moment `video_refresh` takes the lock, since from then on nobody can look at the
store before it is complete (`Latest`, `Fresh`), and rows, waits, wake-ups and whatever the
core's thread does between pictures are stutters. Before the first picture one may be lost
(`malloc` fails), after it none. What HostView leaves open: which plugin is started or
destroyed when, whether a size question is answered with the size or with 0 (the wait
may end at any moment), and that anything happens at all.

The modules whose names end in **Proofs** hold the theorems, each about the module
above it ([proofs](#proofs)).

**AudioQueue** is what the ring promises: a queue of sound, a writer that adds
what it was told was accepted and a reader that takes from the front, never more
than the capacity. **AudioRing** is the code: positions modulo `Modulus` (2^32),
a copy byte by byte at the position modulo the capacity, publication of the write
position after it. The host's reader (`host_load`, `host_pread`, `host_store`) is
external and is modelled from what the C file and its header say: it reads what
was published, whole frames, and then moves `read`. AudioRing implements
AudioQueue by the mapping at its end, checked as the property `QueueSpec`.

**Input** gives each event of the host as a set of stores that reach the core in
any order, one step each (`store`), against `input_poll`'s reads, one step each
and also in any order, the exchange of a latch being one step. This covers what
relaxed atomics and volatile variables permit on a weakly ordered processor while
a native call is under way. Stores of one event have arrived when the next is
delivered.

**Libretro** is what `libretro.h` says and moves nothing: the functions of a core, the
environment commands with their numbers and the calls a core may send each from, which
option commands need which version, what the default of a declared option is in each of
the forms, pixel formats, the ids of pad and pointer. **CoreContract** is the order of
calls the header promises a core, as a state machine with no frontend in it; its
constant `SetStateFirst` is whether the promise about the audio callback's `set_state` (no
call before `set_state(true)`) is one of them.

**Options** takes a list of declarations entry by entry, each in a form of its own, and
keeps beside the list what the header says the default is; a definition's default may be
listed, not listed, or missing. Memory may fail for an entry, or for its value alone (the
key is then recorded with none). It has the state and the
operations; when they happen is Environment's matter.

**Environment** is `core_main` from `retro_set_environment` to `retro_deinit`
(`core_pc`, `inside`), and `environment()` inside each of those calls and of the core's
callbacks. `Selected` is the switch: for each command the cases whose label, as the code
writes it, is the command without its experimental bit. The core is any core that sends
what it may from where it may; `sends` is the set of commands it has a use for, chosen
once. It registers and takes back its callbacks from wherever it runs, the audio callback
from inside itself too, after which the pump calls NULL (`calls_null`, the end of the
process). A case that only answers is one stuttering disjunct
(`Acknowledged`). Environment is mapped to CoreContract twice at its end: with the promise about `set_state`
(`KeepsContract`), which it breaks, and without (`KeepsOrder`), which it implements.

**Controls** has the action table and the aliases as they are in the Java code, the bits
they set, and `input_state`'s answers for the pad (by id and by mask) and for the
pointer's column, cut to sixteen bits (the bits as a number are `Word`, in four groups
of four); `held` is what the host holds, by action. A button
pressed before `onCreate` or after `onDestroy` is not taken. A row of the pointer is
scaled as a column is.

**Frontend** composes Environment and Controls: a launch is `native_start` and
`onCreate` at once, the end of the plugin object `native_stop` and `onDestroy`; in
between pad, touches and the first picture come at any moment of the core's calls.
CoreSession has the same thread with its lock, pictures and several plugin objects and
without the commands; FramePacing has its loop in time: time passes in `retro_run`, in
the sleep, and in each audio callback before and after it writes, and the host, another
process, plays whenever time passes.

**Sound** counts positions in units of `1 / g_ring_rate` frames, in which they are whole
numbers, so that only the rounding of `double` is left out. The values are cut towards
zero as the cast to `int16_t` does. A write to the ring is two steps, the room it saw and
the publication, with the host playing between them; the ring is the queue AudioRing is
shown to implement. Every frame carries its number in the resampled sound.

**VfsForward** groups the wrapped calls by what they do with handles, and has the host's
table as its version and how many fields it fills in; table and libc are external. The
host binds tables at any moment, as often as it likes, also while a thread is inside an
open (the side is chosen when the open is called, and the handle is there when it
returns). `strayed` has the handles that were given to a side that did not open them,
`overtaken` those that were open, or being opened, when another table was bound: the
forwarder strays no others (`HandlesStayHome`).

What is modelled against what it needs of another component, and not composed with it:
FramePacing's `buffered` is the ring's level; Input's latches and polls are of one
button, where Controls has all of them without polls; VfsForward's `exit` is
CoreSession's `exit`.

## Runs

`MC<Module>.tla` has the small instances, the `.cfg` files their constants.

| run | what it shows | bounds, and why they are enough |
| --- | --- | --- |
| `session` | types; pictures whole; scaling inside the picture; the size told is the first picture's; the latest picture reaches the host and before the end; one core; no lost wake-up; the end is final; refinement of HostView | two plugins (one with the core, one refused), three heights (equal, up and down scaling, and a picture larger than the array), three pictures (first, one overwritten, one after the host looked) |
| `session_live` | a stop ends the core, the size questions and `step()` return, the end is seen | one plugin, two heights, two pictures: each liveness property is about one call or the core |
| `ring` | unread sound in place, heard in order, copies inside the mapping, refinement of AudioQueue | positions modulo 16, two-byte frames, capacities 4 and 8 accepted and three bad headers, 26 bytes sent: positions wrap and every split of a copy at the ring's end occurs |
| `taps` | a press is never lost, is reported, and is not reported twice over | three events: press, release and another; every order of stores and reads |
| `sound` | what is heard is the one stream resampled, in order; a full ring loses ends of blocks only; the two rates keep step | six frames in batches of one to three, blocks of three, a ring of four, ratios 3:2, 2:5, 1:1, 5:2: seams at every fraction, a batch shorter than a step, a full block inside a batch, a ring that is full at once, in the middle of a block, and between two |
| `pacing` | never races, never runs ahead, is told the right time, the sound stays ahead | five frames; a run longer than the loop may be behind, needed for the reset; sleeps that end on time and very late; callbacks that take no time or a tick, before they write and after, of which four at their slowest just make `Ahead`, and a ring with room for no more than that and what is played meanwhile |
| `frontend` | the plugin's choice wins, otherwise the core's default as it declared it, no answer changes unannounced; colours kept; each command selects its own case; no button stuck, a held action's button is down; the pixel touched; refinement of CoreContract without the promise about `set_state` | below |
| `files` | only functions the table has; handles go back to their side | tables of version 0 and 1, one field short, exact and longer, bound at any moment and in any order; two threads, three handles |
| `session_refused` | violation, see [findings](#findings) | two plugins |
| `mouse_moves` | violation | two places, three events |
| `shared_controls` | violation | the shared action ids |
| `audio_unactivated` | violation | the core with callbacks |

The `frontend` run has four kinds of cores, which send all of `libretro.h`'s commands
between them: one with the option commands, one with the callbacks, the pixel format and
the shutdown, one with everything else, and one that wants the time of its frames and is
played. No case of `environment()` reads what a case of another kind writes, and pad and touches share no variable with it
but the launch and the end; a core that sends everything would be the product of these
four and answer each question in the same states. Two keys and two values let two
declarations disagree with each other and with a choice; a third declaration of a key
meets what the second did. Widths 2, 640 and 32768 (the widest `TouchedPixel` has the
nearest column of), and columns near both edges and in the middle, are where a rounding or
a wrap shows. The colours are not sampled in the two 16-bit formats: every level is tried.

Deadlock is not checked where the system stops: a process whose core has ended
and whose host asks no more, a stream at its bound, a file layer whose process is
gone.

Bounds are constants named in the modules: `MaxPictures`, `MaxSent`, `MaxEvents`,
`MaxInput`, `MaxFrames`, `MaxDeclared`, `MaxHandles`. None of them is a bound of
the code's.

## Fairness

Only CoreSession and Input have liveness properties.

In CoreSession the core's thread keeps running (weak fairness of `core_main`),
and a `retro_run` or a load returns whatever it draws first (strong, because the
drawing itself is bounded only by `MaxPictures`). Calls of the host that need the
lock get it: the core gives the lock back once per picture and sleeps between
frames, so it is free again and again, and a mutex that is free again and again
is obtained (strong). A wait of fifty seconds ends. The host steps as long as its
plugin lives, which is what it is for. Nothing makes the core draw, shut down or
call `exit()`, nor the host create or destroy a plugin. In particular no property
that holds here needs a first picture.

In Input a call under way completes, and the core polls every frame whatever it
asks in between (strong fairness of `input_poll`).

The end is seen only if `finish()` runs. When the engine calls `exit()`, it does
not: the core's thread is gone and `step()` answers 0 for ever. `EndIsSeen` is
stated for the thread that returned (`core_pc = "gone"`) and says nothing of
`"exited"`, where closing the game is up to the host's own `exit`.

## Proofs

TLAPS proves the properties below for every value of the constants, from the named
`ASSUME` of the module the theorem is about and nothing else, except where the table
names a hypothesis. Every one of them is also a property of a run, so TLC has met its
states, but for two: `NoOverrun`, which the refinement of AudioQueue covers in the runs,
and `OthersAnswer`, the part of `EveryCaseAnswers` that holds. Every inductive invariant
was checked by TLC before it was proved.

| theorem | statement | hypothesis |
| --- | --- | --- |
| CoreSessionProofs `TypeCorrect` | `Spec => []TypeOK` | |
| `NoTornPicture` | `Spec => []WholePicture` | |
| `NobodySleepsOn` | `Spec => []NoLostWakeup` | |
| `OnlyOneCore` | `Spec => []OneCore` | |
| PictureProofs `SizeIsKept` | `Spec => []SizeIsFirstPicture` | |
| `NoReadPastPicture` | `Spec => []SourceRowsInside` | |
| `NoPictureLost` | `Spec => []LatestReachesHost` | |
| `EndComesLast` | `Spec => []EndAfterLastPicture` | |
| `EndIsFinal` | `Spec => EndedIsFinal` | |
| `SessionKeepsHostView` | `Spec => KeepsHostView` (implements HostView) | |
| AudioRingProofs `TypeCorrect` | `Spec => []TypeOK` | |
| `NeverOverruns` | `Spec => []NoOverrun` | |
| `StaysInMapping` | `Spec => []InMapping` | |
| `UnreadStays` | `Spec => []UnreadInPlace` | `PlacesSurviveWrap` |
| `HeardAsAccepted` | `Spec => []HeardInOrder` | `PlacesSurviveWrap` |
| `RingIsQueue` | `Spec => QueueSpec` (implements AudioQueue) | `PlacesSurviveWrap` |
| FrontendProofs `ChoicesWin` | `FrontendSpec => []ChoiceWins` | |
| `AnswersStay` | `FrontendSpec => []NoSilentChange` | |
| `DefaultsAsDeclared` | `FrontendSpec => []DefaultAsDeclared` | |
| `CoreContractKept` | `FrontendSpec => KeepsOrder` (implements CoreContract without the promise about `set_state`) | |
| `NoOthersCase` | `FrontendSpec => []OnlyOwnCase` | |
| `OthersAnswered` | `FrontendSpec => []OthersAnswer` (`EveryCaseAnswers`, for a core that does not ask for the one case no command selects) | |
| `ColoursAreKept` | `FrontendSpec => []ColoursKept` | |
| `TouchesLand` | `FrontendSpec => []TouchedPixel` | |
| `NoButtonSticks` | `FrontendSpec => []NoStuckButton` | |
| `HeldStaysPressed` | `FrontendSpec => []HeldIsPressed` | `OneActionEach` |
| InputProofs `NoPressLost` | `Spec => []PressNeverLost` | |
| `NoTouchTwice` | `Spec => []NoGhostTouch` | |
| FramePacingProofs `FramesAreNotEarly` | `Spec => []NeverEarly` | |
| `FramesDoNotRace` | `Spec => []NeverRaces` | |
| `CoreToldTheTime` | `Spec => []TimeSinceLastRun` | |
| `SoundStaysAhead` | `Spec => []KeptAhead` | `Enough(m)` for some `m` |
| VfsForwardProofs `ShortTableNeverCalled` | `Spec => []OnlyFieldsThere` | |
| `HandlesGoHome` | `Spec => []HandlesStayHome` | |
| SoundProofs `RatesDoNotDrift` | `Spec => []RatesKeepStep` | |
| `OnlyEndsAreLost` | `Spec => []LossEndsBlock` | |
| `HeardAsOneStream` | `Spec => []AsOneStream` | |

The hypotheses are conditions on a launch that the code does not check:

* `PlacesSurviveWrap`: either no more sound is sent than the positions can count, or
  every capacity the open accepts divides the range of the positions. Without it the
  theorems are false: the ring's places jump when the positions wrap. Powers of two
  satisfy it, and so do the `ring` run's constants.
* `OneActionEach`: no two of the host's actions are one button. The plugin's alias
  table does not satisfy it for all actions, and `shared_controls` shows what happens
  then; it holds for a host that uses the table's own ids but not the aliases.
* `Enough(m)`: every audio callback writes at least `m` frames more than the host plays
  while that callback runs, `MaxCalls` (sixteen) times `m` is what is to be kept ahead, and the
  ring has room for that and for what is played after a write. The core and the host's
  ring decide it. That sixteen callbacks bring a twentieth of a second is not enough:
  what the host plays during them must come on top.
* In `FrontendAssumption`, a picture is at most 32769 wide: on a wider one `x * 0xFFFF`
  does not fit the `int` of `input_state`, and what the code answers is undefined.

### CoreSession

`WholePicture` is not inductive: it says nothing of the store while it is drawn.
`IInv` (in CoreSessionProofs) is `TypeOK /\ OwnerInv /\ PictureInv`:

* `Made`: no store and size 0, or the size of a picture of the core's;
* `Locked`: the lock is held exactly while the core draws;
* `Drawing`: the rows written so far are this picture's;
* `StoreWhole`: a store that is new and unlocked holds a whole picture, which is
  what `native_step` copies;
* `HostWhole`: so do the host's arrays;
* `NobodyAsleep`: a sleeper's condition is still false, or the core is drawing and
  will broadcast;
* `NotStarted`, `Failing`: before a content path is recorded there is no core and
  every plugin is new; a plugin whose start failed never has one. With `OneCore`
  these make the owner of the core unique.

`TypeOK` needs `Made` and `Drawing` for the row that is drawn, so the parts are
proved together (`Inductive`). PictureProofs adds small invariants on top:
`Ready` (a call that saw a picture finds one when it answers) for the size, the
arithmetic of `ScaledInside` for the rows, what the store and the plugins' arrays hold
against the latest picture, and `EndInv` (`g_ended` exactly when the core's thread has
returned) for the end.

`SessionKeepsHostView` maps each action to one of HostView's or to a stutter (`ViewStep`).
Three facts carry it. `Locked` and `Drawing`: while the core draws, no step of the host's
reads the store, so the picture that is half drawn may count as handed over
(`HandOverShows`, where `video_refresh` begins, and `DrawingHidden`, where it ends:
the rows written are then exactly the picture's, by `Drawing`). `Begun` and `Asked`: the
core's thread is some plugin's that started it, and only such a plugin asks for a size or
steps. And `EndInv`, by which a core that has ended draws no more.

### AudioRing

`IInv` is `TypeOK /\ MappedInv /\ FramesInv /\ PositionInv`: an accepted capacity lies in
the mapping and is whole frames, every count of bytes is whole frames, and the two 32-bit
positions are the two unbounded counts of bytes sent and heard modulo `Modulus`, which are
never further apart than the capacity. The last is why the difference of two wrapped
positions is the sound in the ring. `StreamInv` on top has the bytes in place: what is
unread, and what the write under way copied, each at its number modulo the capacity.
RingIsQueue then maps a publication to a put, a byte read to a take, and all else to
stutters.

### Frontend

Options: no key is recorded twice, what is recorded is a choice, no value (its copy failed),
or the first declared default (or the unlisted one named before it), and what was answered
is recorded. The contract: for each place of `core_pc`,
what was given to the core, how far the library was brought and whether it was told
the time; each action of Environment is then a step of CoreContract or a stutter.
Controls: `BitsInv`, each bit that is set has an action that is held, and `PressedInv`, its
converse; `MaskBits` takes the number apart, bit by bit, for a core that asks by mask.
`TouchedPixel` and `ColoursKept` are arithmetic, for every width and column and for
every level.

`NoOthersCase` is about the header's table of commands, which is kept in parts by the
header's order. Within a part two commands are told apart by their masked numbers
(`PartApart`, one lemma for each part), each part covers a stretch of numbers of its own
(`Place`, `PlacesApart`), and so two commands that are one to the switch are in one part
and the same. The number 44, which the header gives twice, has no case, and the one label
that keeps its bit equals no masked number. `OthersAnswered` follows from the same: that label
is the only case a core cannot reach, in all of the header's commands.

### Input, FramePacing, VfsForward

Input's `TraceInv` says how many polls ago a touch was held, by where its trace is: the
latch, the value the poll has taken, or what the core sees. FramePacing's invariants
compare the clock that is due with every frame's start (`EarlyInv`, `RacesInv`), and the
ring's level with what was there when the pump ended, and within the pump with `m` frames for
each callback made (`AheadInv`). VfsForward's say that a table bound fits, and that a handle
that is open, or being opened, is of the side that is bound unless it was overtaken.

### Sound

`PositionInv` is the heart: the carried position is `Produced * g_core_rate` less the core's
frames of earlier batches, in units of `1 / g_ring_rate`, with `Produced` the frames made
for the ring so far. Hence the two rates keep step, and the next frame made is the one of
that number in the whole stream (`MadeAsOneStream`; at the seam of two batches it is
`g_resample_last` that the stream has there). `OrderInv` and `ValueInv` say of each frame in
the ring, in a write under way and in `out` what number and value it has. A step does to
this sequence one of four things (nothing, one more at the end, the end cut off, the first
gone: `WaySame`, `WayGrows`, `WayCut`, `WayLeaves`), and the core's sound only grows, which
changes no frame already made (`ResampledStays`).

### Model-checked only

The liveness properties of CoreSession (`StopEndsCore`, `QuestionAnswered`, `StepReturns`,
`EndIsSeen`) and of Input (`PressIsReported`): the prover has neither fairness nor `ENABLED`
to work with. Every safety property, action property and refinement that a passing run
checks is proved.

## Findings

* `session_refused`: `native_start` records the content path before it makes the
  thread and never forgets it. If the thread cannot be made, the process's one
  start is spent: the next `onCreate` is told that a core is already running,
  which none is.
* `mouse_moves`: `RETRO_DEVICE_ID_MOUSE_X` reads `g_mouse_x` (volatile) twice. A
  pointer event between the reads is a movement no answer includes.
* `shared_controls`: `cancel` and `menu` are aliases of one action, `history` and
  `left` of another. A release clears the button's bit whoever else holds it.
* `audio_unactivated`: the pump calls an audio callback once it is registered (`L`:463-466).
  `libretro.h`:2711 promises no call before `set_state(true)`, which no line calls.

Seen while modelling and recorded only here: each is plain from the lines named,
depends on a host or a core that is not in the repository, or is denied by no
clear statement of the repository's:

* a picture between the two waits of fifty seconds gives a width of 0 and a real
  height (`L`:546-554);
* the pointer's x and y are stored, and asked for, one by one (`L`:377);
* the RetroPad's bits have no latch, so a press and its release between two polls
  leave no trace (`L`:577);
* unless the ring's capacity divides 2^32, unread sound is out of place once the
  positions wrap (`enginehost_audio_ring.c`:61); the open accepts any multiple of
  four. `RingAssumption` does not exclude it; the `ring` run's capacities do;
* the switch of `environment()` is on the command without its experimental bit, and the
  label of `GET_AUDIO_VIDEO_ENABLE` (`L`:272) is the only experimental one that keeps it:
  the case is never selected and a core that asks is refused. The theorem `OthersAnswered`
  is that every other command with a case is answered by it;
* a definition's `default_value` is recorded as it is (`L`:145, :154), where
  `libretro.h`:1184-1187 and :3686 have one that is not among the option's values ignored and
  the first value taken. `DefaultAsDeclared` and its theorem say this of the code: of a
  listed default the core is told as the header has it, of an unlisted one it is told
  that one;
* whether there is an audio callback is asked once for up to sixteen calls (`L`:463). A core
  that sends `SET_AUDIO_CALLBACK` with NULL from inside it has cleared it (`L`:226), and the
  next call is through NULL. The `frontend` run takes that step (`calls_null`), and
  `KeepsOrder` says nothing of it: no function of the core is called;
* `SET_SYSTEM_AV_INFO` is answered with true and dropped (`L`:202-212);
* the pointer's place is cut down to a whole number (`L`:377): the column touched is the
  nearest to the answer (`TouchedPixel`), but a core that cuts down in its turn is at the
  column before it (in a picture 640 wide, a touch at 1 comes back as 0);
* a table bound while the engine has files open takes their handles to a side that does
  not know them (`enginehost_vfs_forward.c`:26); `enginehost_vfs.h` has the host bind as it
  loads the library, and nothing in the forwarder holds it to that;
* where `strdup` of a key fails the entry is there without a key, and the next
  `find_option` compares with NULL (`L`:121, :108); not modelled, where the failures of
  `realloc` and of the value's copy are;
* `GET_VARIABLE` with a key of NULL, for which `libretro.h`:3622 has a meaning, is
  compared with `strcmp` (`L`:162);
* `input_state` compares the device as it is given, without its subclass bits, and a
  press outside the picture is reported as a press;
* a place beyond the picture's edge wraps when it is scaled (`L`:377).

## Not modelled

* `mouseWheel` and `key`: this plugin's class never calls them (`OnsyuriPlugin` has no
  caller of either), so neither the wheel's counter nor a call of the keyboard callback
  is a behaviour of it. That a core registers the callback is modelled.
* What an answer points to (directories, the log function, the language), and in
  `GET_VARIABLE`'s forms the cutting of a text at 255 characters.
* Of `libretro.h`: the interfaces this frontend refuses (hardware rendering, VFS, disks,
  cameras, sensors, network, microphones, ...) are names that select no case; their
  structures and the rest of the header's types are not modelled.
* The command line OnsyuriPlugin builds from the options: text, made once.
* The build files, the bundle's metadata, the
  release workflows (sequential scripts of the CI service), the tests (a static
  check of the contract, and a smoke test of the upstream binary).
* The host's process, libc and the core itself: external, modelled where the code
  meets them.
* Wall-clock time in `wait_first_frame`: its deadline is `CLOCK_REALTIME`, which may
  be set; the model's wait may end at any moment. The text of `g_error`.

## Plan

Every safety property of a run, and every refinement, is proved. What is left:

1. Sound over AudioRing. Sound's `ring` is a queue as it is written; the one thing of
   AudioQueue that could fail there, a block that fitted when the call began and does not
   when it is published, is excluded by `RoomInv` in SoundProofs. That AudioRing's bytes
   are Sound's frames is said in prose only.
2. VfsForward's `exit` under CoreSession's thread, with the host's table ending it or not;
   Controls' bits under Input's polls.
3. HostView and FramePacing: how long after a picture was handed over a host that calls
   `step()` at its own pace has it.
