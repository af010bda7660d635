--------------------------- MODULE VfsForwardProofs ----------------------------
(***************************************************************************)
(* What is proved of VfsForward for all tables, threads and numbers of     *)
(* handles: a shorter table is never called for what it lacks, and only a  *)
(* handle that the binding of a table overtook is given to a side that did *)
(* not open it.                                                            *)
(***************************************************************************)
EXTENDS VfsForward, TLAPS

FieldNames == {"open", "close", "by path", "opendir", "use", "closedir", "exit"}

(* A bound table, and the one of the last call, is one that fits.          *)
Whole(side) == side # NULL => side.size \in Nat /\ side.size >= 7

TableInv ==
  /\ Whole(g_vfs)
  /\ call # NULL => call.field \in FieldNames /\ Whole(call.side)

(* A handle is at home with the side that is bound, or was overtaken; what *)
(* a thread is opening will be.                                            *)
AtHome(h) == h.by = g_vfs \/ h.id \in overtaken

HomeInv ==
  /\ DOMAIN opening = Threads
  /\ \A h \in handles : AtHome(h)
  /\ \A t \in Threads : opening[t] # NULL => AtHome(opening[t])
  /\ strayed \subseteq overtaken

IInv == TableInv /\ HomeInv
-----------------------------------------------------------------------------
LEMMA InitInv == Init => IInv
BY DEF Init, IInv, TableInv, HomeInv, Whole

(* A table that is bound fits.                                             *)
LEMMA FitIsWhole ==
  ASSUME NEW table \in Tables, Fits(table)
  PROVE  Whole(table)
<1>1. table.size \in Nat
  BY ForwardAssumption DEF Tables
<1> QED
  BY <1>1 DEF Fits, Fields, Whole

LEMMA BindNext == IInv /\ enginehost_vfs_bind => IInv'
<1> SUFFICES ASSUME IInv, enginehost_vfs_bind PROVE IInv'
  OBVIOUS
<1>1. PICK table \in Tables :
        /\ g_vfs' = Bound(table)
        /\ overtaken' = IF Fits(table) /\ table # g_vfs
                        THEN overtaken \union {h.id : h \in Underway} ELSE overtaken
  BY DEF enginehost_vfs_bind
<1>2. handles' = handles /\ opening' = opening /\ call' = call /\ strayed' = strayed
  BY DEF enginehost_vfs_bind, calls
<1>3. CASE Fits(table) /\ table # g_vfs
  <2>1. g_vfs' = table /\ overtaken' = overtaken \union {h.id : h \in Underway}
    BY <1>1, <1>3 DEF Bound
  <2>2. TableInv'
    BY <1>2, <1>3, <2>1, FitIsWhole DEF IInv, TableInv, Whole
  <2>3. \A h \in handles' : AtHome(h)'
    BY <1>2, <2>1 DEF AtHome, Underway
  <2>4. \A t \in Threads : opening'[t] # NULL => opening'[t].id \in overtaken'
    BY <1>2, <2>1 DEF Underway
  <2>5. HomeInv'
    BY <1>2, <2>1, <2>3, <2>4 DEF IInv, HomeInv, AtHome
  <2> QED
    BY <2>2, <2>5 DEF IInv
<1>4. CASE ~(Fits(table) /\ table # g_vfs)
  <2>1. g_vfs' = g_vfs /\ overtaken' = overtaken
    BY <1>1, <1>4 DEF Bound
  <2> QED
    BY <1>2, <2>1 DEF IInv, TableInv, HomeInv, AtHome, Whole
<1> QED
  BY <1>3, <1>4

(* A call is for a function that is a field, of the side that is bound.    *)
LEMMA CallsNext ==
  ASSUME TableInv, NEW field \in FieldNames, Calls(field), g_vfs' = g_vfs
  PROVE  TableInv'
BY DEF TableInv, Calls, Whole

(* The steps of a thread leave the table and what was overtaken alone.     *)
LEMMA ThreadNext ==
  ASSUME IInv, NEW t \in Threads,
         \/ wrap_open(t) \/ wrap_opendir(t) \/ open_returns(t) \/ wrap_readdir(t)
         \/ wrap_close(t) \/ wrap_stat(t) \/ wrap_exit(t) \/ table_exit(t) \/ real_exit(t)
  PROVE  IInv'
<1>0. TableInv /\ HomeInv
  BY DEF IInv
<1>1. g_vfs' = g_vfs /\ overtaken' = overtaken
  BY DEF wrap_open, wrap_opendir, Open, open_returns, wrap_readdir, wrap_close, wrap_stat,
         wrap_exit, table_exit, real_exit
<1>2. ASSUME NEW field \in FieldNames, NEW kind, Open(t, field, kind)
      PROVE  IInv'
  <2>1. TableInv'
    BY <1>0, <1>1, <1>2, CallsNext DEF Open
  <2>2. /\ opening' = [opening EXCEPT ![t] = [id |-> opened, kind |-> kind, by |-> g_vfs]]
        /\ handles' = handles /\ strayed' = strayed
    BY <1>2 DEF Open
  <2>3. ASSUME NEW u \in Threads, opening'[u] # NULL
        PROVE  opening'[u].by = g_vfs \/ opening'[u].id \in overtaken
    <3>1. CASE u = t
      BY <1>0, <1>1, <2>2, <3>1 DEF HomeInv, AtHome
    <3>2. CASE u # t
      BY <1>0, <1>1, <2>2, <2>3, <3>2 DEF HomeInv, AtHome
    <3> QED
      BY <3>1, <3>2
  <2>4. HomeInv'
    BY <1>0, <1>1, <2>2, <2>3 DEF HomeInv, AtHome
  <2> QED
    BY <2>1, <2>4 DEF IInv
<1>3. CASE wrap_open(t) \/ wrap_opendir(t)
  BY <1>2, <1>3 DEF wrap_open, wrap_opendir, FieldNames
<1>4. CASE open_returns(t)
  <2>1. /\ opening[t] # NULL /\ handles' = handles \union {opening[t]}
        /\ opening' = [opening EXCEPT ![t] = NULL]
        /\ call' = call /\ strayed' = strayed
    BY <1>4 DEF open_returns
  <2>2. \A h \in handles' : AtHome(h)'
    BY <1>0, <1>1, <2>1 DEF HomeInv, AtHome
  <2>3. \A u \in Threads : opening'[u] # NULL =>
          opening'[u].by = g_vfs \/ opening'[u].id \in overtaken
    BY <1>0, <2>1 DEF HomeInv, AtHome
  <2>4. HomeInv'
    BY <1>0, <1>1, <2>1, <2>2, <2>3 DEF HomeInv, AtHome
  <2>5. TableInv'
    BY <1>0, <1>1, <2>1 DEF TableInv, Whole
  <2> QED
    BY <2>4, <2>5 DEF IInv
<1>5. ASSUME NEW h \in handles, Given(h)
      PROVE  strayed' \subseteq overtaken
  BY <1>0, <1>5 DEF Given, HomeInv, AtHome
<1>6. CASE wrap_readdir(t)
  <2>1. TableInv'
    BY <1>0, <1>1, <1>6, CallsNext DEF wrap_readdir, FieldNames
  <2>2. strayed' \subseteq overtaken /\ handles' = handles /\ opening' = opening
    BY <1>5, <1>6 DEF wrap_readdir
  <2> QED
    BY <1>0, <1>1, <2>1, <2>2 DEF IInv, HomeInv, AtHome
<1>7. CASE wrap_close(t)
  <2>1. PICK h \in handles :
          /\ Calls(IF h.kind = "file" THEN "close" ELSE "closedir")
          /\ Given(h) /\ handles' = handles \ {h}
    BY <1>7 DEF wrap_close
  <2>2. TableInv'
    BY <1>0, <1>1, <2>1, CallsNext DEF FieldNames
  <2>3. strayed' \subseteq overtaken /\ opening' = opening
    BY <1>5, <1>7, <2>1 DEF wrap_close
  <2> QED
    BY <1>0, <1>1, <2>1, <2>2, <2>3 DEF IInv, HomeInv, AtHome
<1>8. CASE wrap_stat(t) \/ wrap_exit(t)
  <2>1. TableInv'
    BY <1>0, <1>1, <1>8, CallsNext DEF wrap_stat, wrap_exit, FieldNames
  <2>2. handles' = handles /\ opening' = opening /\ strayed' = strayed
    BY <1>8 DEF wrap_stat, wrap_exit
  <2> QED
    BY <1>0, <1>1, <2>1, <2>2 DEF IInv, HomeInv, AtHome
<1>9. CASE table_exit(t) \/ real_exit(t)
  <2>1. handles' = handles /\ opening' = opening /\ strayed' = strayed /\ call' = call
    BY <1>9 DEF table_exit, real_exit, calls
  <2> QED
    BY <1>0, <1>1, <2>1 DEF IInv, TableInv, HomeInv, AtHome, Whole
<1> QED
  BY <1>3, <1>4, <1>6, <1>7, <1>8, <1>9

LEMMA InvNext == IInv /\ [Next]_vars => IInv'
<1> SUFFICES ASSUME IInv, [Next]_vars PROVE IInv'
  OBVIOUS
<1>1. CASE UNCHANGED vars
  BY <1>1 DEF vars, calls, IInv, TableInv, HomeInv, AtHome, Whole
<1> QED
  BY <1>1, BindNext, ThreadNext DEF Next
-----------------------------------------------------------------------------
(* A table is only ever called for a function it has, whenever and however *)
(* often a host binds one: one that is shorter than this forwarder's is    *)
(* refused.                                                                *)
THEOREM ShortTableNeverCalled == Spec => []OnlyFieldsThere
<1>1. IInv => OnlyFieldsThere
  <2> SUFFICES ASSUME IInv, call # NULL, call.side # NULL
               PROVE  \E i \in 1 .. call.side.size : i <= Len(Fields) /\ Fields[i] = call.field
    BY DEF OnlyFieldsThere
  <2>1. call.side.size \in Nat /\ call.side.size >= 7
    BY DEF IInv, TableInv, Whole
  <2>2. PICK i \in 1 .. 7 : Fields[i] = call.field
    <3>1. call.field \in FieldNames
      BY DEF IInv, TableInv
    <3>2. /\ Fields[1] = "open" /\ Fields[2] = "close" /\ Fields[3] = "by path"
          /\ Fields[4] = "opendir" /\ Fields[5] = "use" /\ Fields[6] = "closedir"
          /\ Fields[7] = "exit"
      BY DEF Fields
    <3>3. PICK field : field = call.field
      OBVIOUS
    <3>4. field \in FieldNames
      BY <3>1, <3>3
    <3>5. \E i \in 1 .. 7 : Fields[i] = field
      <4>1. /\ 1 \in 1 .. 7 /\ 2 \in 1 .. 7 /\ 3 \in 1 .. 7 /\ 4 \in 1 .. 7
            /\ 5 \in 1 .. 7 /\ 6 \in 1 .. 7 /\ 7 \in 1 .. 7
        OBVIOUS
      <4> QED
        BY <3>2, <3>4, <4>1, Zenon DEF FieldNames
    <3> QED
      BY <3>3, <3>5
  <2>3. i \in 1 .. call.side.size /\ i <= Len(Fields)
    BY <2>1 DEF Fields
  <2> QED
    BY <2>2, <2>3
<1> QED
  BY <1>1, InitInv, InvNext, PTL DEF Spec

(* Whenever tables are bound, and however opens and uses of handles run    *)
(* across that, only a handle open or being opened at such a moment is     *)
(* given to a side that did not open it.                                   *)
THEOREM HandlesGoHome == Spec => []HandlesStayHome
<1>1. IInv => HandlesStayHome
  BY DEF IInv, HomeInv, HandlesStayHome
<1> QED
  BY <1>1, InitInv, InvNext, PTL DEF Spec
=============================================================================
