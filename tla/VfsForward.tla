------------------------------- MODULE VfsForward ------------------------------
(***************************************************************************)
(* The file forwarder (enginehost_vfs_forward.c): every file call of the   *)
(* engine's library goes to the host's table once one is bound, to libc    *)
(* otherwise.  The tables and libc are external; what matters of them is   *)
(* that a handle is good only with the side that opened it, and that an    *)
(* older host's table is shorter.                                          *)
(*                                                                         *)
(* Nothing in the forwarder keeps the host from binding a table while the  *)
(* engine runs, or a second one: here it binds at any moment, so also      *)
(* while a thread is inside an open.                                       *)
(*                                                                         *)
(* Calls alike are one action: by path (stat, access, mkdir, rename, ...), *)
(* opening (open, openat, creat, fopen, opendir), using a handle (readdir, *)
(* rewinddir, dirfd) and closing (close, fclose, closedir).  The arguments *)
(* are passed on as they are and left out.                                 *)
(***************************************************************************)
EXTENDS Naturals, Sequences, FiniteSets

CONSTANTS
  Versions,     \* versions a host's table may have
  Sizes,        \* how many of Fields a host's table may fill in
  Threads,      \* threads of the engine
  MaxHandles,   \* bound: handles opened in a behaviour
  NULL

(* The table's functions, in order; fields are only ever appended.         *)
Fields == <<"open", "close", "by path", "opendir", "use", "closedir", "exit">>

Tables == [version : Versions, size : Sizes]

ASSUME ForwardAssumption ==
  /\ Versions \subseteq Nat /\ Sizes \subseteq Nat /\ MaxHandles \in Nat
  /\ NULL \notin [version : Nat, size : Nat]

VARIABLES
  g_vfs,      \* NULL, or the table: its version and how many fields it fills in
  ended,      \* the process is gone
  thread,     \* each thread of the engine: "runs", "exits" (in the table's
              \* exit), "ends" (in libc's) or "gone"
  opening,    \* the handle a thread's open is about to return, or NULL
  handles,    \* open handles: number, kind, and the side that opened it
  opened,     \* handles opened so far, those being opened included
  call,       \* the last call: [field, side], or NULL
  strayed,    \* history: handles given to a side that did not open them
  overtaken   \* history: handles open, or being opened, when a table was bound

calls == <<thread, opening, handles, opened, call, strayed>>
vars  == <<g_vfs, ended, calls, overtaken>>

Init ==
  /\ g_vfs = NULL /\ ended = FALSE
  /\ thread = [t \in Threads |-> "runs"] /\ opening = [t \in Threads |-> NULL]
  /\ handles = {} /\ opened = 0 /\ call = NULL
  /\ strayed = {} /\ overtaken = {}
-----------------------------------------------------------------------------
Fits_AnySize(table) == table.version >= 1
Fits(table) == table.version >= 1 /\ table.size >= Len(Fields)

Bound_Clears(table) == IF Fits(table) THEN table ELSE NULL
Bound(table) == IF Fits(table) THEN table ELSE g_vfs

Underway == handles \union {opening[t] : t \in {u \in Threads : opening[u] # NULL}}

(* A table that is not the one bound, if it fits, overtakes what is open.  *)
enginehost_vfs_bind ==
  /\ ~ended
  /\ \E table \in Tables :
       /\ g_vfs' = Bound(table)
       /\ overtaken' = IF Fits(table) /\ table # g_vfs
                       THEN overtaken \union {h.id : h \in Underway} ELSE overtaken
  /\ UNCHANGED <<ended, calls>>
-----------------------------------------------------------------------------
(* The side of a call: the table, or libc where there is none (NULL).      *)
Calls(field) == call' = [field |-> field, side |-> g_vfs]

Running(t) == ~ended /\ thread[t] = "runs" /\ opening[t] = NULL

(* The side is chosen when an open is called; the handle is there when it  *)
(* returns.                                                                *)
Open(t, field, kind) ==
  /\ Running(t) /\ opened < MaxHandles
  /\ Calls(field)
  /\ opened' = opened + 1
  /\ opening' = [opening EXCEPT ![t] = [id |-> opened, kind |-> kind, by |-> g_vfs]]
  /\ UNCHANGED <<g_vfs, ended, thread, handles, strayed, overtaken>>

wrap_open(t)    == Open(t, "open", "file")
wrap_opendir(t) == Open(t, "opendir", "directory")

open_returns(t) ==
  /\ ~ended /\ opening[t] # NULL
  /\ handles' = handles \union {opening[t]}
  /\ opening' = [opening EXCEPT ![t] = NULL]
  /\ UNCHANGED <<g_vfs, ended, thread, opened, call, strayed, overtaken>>

Given(h) == strayed' = IF h.by = g_vfs THEN strayed ELSE strayed \union {h.id}

(* readdir, rewinddir and dirfd of a directory.                            *)
wrap_readdir(t) ==
  /\ Running(t)
  /\ \E h \in handles : h.kind = "directory" /\ Given(h)
  /\ Calls("use")
  /\ UNCHANGED <<g_vfs, ended, thread, opening, handles, opened, overtaken>>

wrap_close(t) ==
  /\ Running(t)
  /\ \E h \in handles :
       /\ Calls(IF h.kind = "file" THEN "close" ELSE "closedir")
       /\ Given(h)
       /\ handles' = handles \ {h}
  /\ UNCHANGED <<g_vfs, ended, thread, opening, opened, overtaken>>

wrap_stat(t) ==
  /\ Running(t)
  /\ Calls("by path")
  /\ UNCHANGED <<g_vfs, ended, thread, opening, handles, opened, strayed, overtaken>>

(* exit: the table's, which ends the calling thread or returns; then, and  *)
(* where there is no table, libc's, which ends the process.                *)
wrap_exit(t) ==
  /\ Running(t)
  /\ Calls("exit")
  /\ thread' = [thread EXCEPT ![t] = IF g_vfs # NULL THEN "exits" ELSE "ends"]
  /\ UNCHANGED <<g_vfs, ended, opening, handles, opened, strayed, overtaken>>

table_exit(t) ==
  /\ ~ended /\ thread[t] = "exits"
  /\ \E next \in {"gone", "ends"} : thread' = [thread EXCEPT ![t] = next]
  /\ UNCHANGED <<g_vfs, ended, opening, handles, opened, call, strayed, overtaken>>

real_exit(t) ==
  /\ ~ended /\ thread[t] = "ends"
  /\ ended' = TRUE
  /\ UNCHANGED <<g_vfs, calls, overtaken>>

Next ==
  \/ enginehost_vfs_bind
  \/ \E t \in Threads :
       \/ wrap_open(t) \/ wrap_opendir(t) \/ open_returns(t) \/ wrap_readdir(t)
       \/ wrap_close(t) \/ wrap_stat(t) \/ wrap_exit(t) \/ table_exit(t) \/ real_exit(t)

Spec == Init /\ [][Next]_vars
-----------------------------------------------------------------------------
(* A table is called only for what it has: an older host's shorter table   *)
(* is refused whole (enginehost_vfs_bind's size check), whichever table is *)
(* bound in its place or before it.                                        *)
OnlyFieldsThere ==
  call # NULL /\ call.side # NULL =>
    \E i \in 1 .. call.side.size : i <= Len(Fields) /\ Fields[i] = call.field

(* Only a handle that was open, or being opened, at the moment another     *)
(* table was bound is ever given to a side that did not open it: a host    *)
(* that binds its table before the engine opens anything (enginehost_vfs.h *)
(* has it bind the table as it loads the library) has none, whatever it    *)
(* offers later and is refused.                                            *)
HandlesStayHome == strayed \subseteq overtaken
=============================================================================
