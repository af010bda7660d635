----------------------------- MODULE FrontendProofs ----------------------------
(***************************************************************************)
(* Theorems about the frontend for every set of keys and values, of        *)
(* commands a core may send, and of actions, widths and columns: what a    *)
(* core is told of its options, the order it is called in, the colours of  *)
(* its pictures, and the buttons and touches it is told of.                *)
(***************************************************************************)
EXTENDS Frontend, SequenceTheorems, TLAPS

-----------------------------------------------------------------------------
(* The recorded options. *)

Option == [key : Keys, value : Values \union {NULL}]

(* The options record value v for key k.                                   *)
Entry(options, k, v) ==
  \E i \in 1 .. Len(options) : options[i].key = k /\ options[i].value = v

(* No key is recorded twice.                                               *)
Unique(options) ==
  \A i, j \in 1 .. Len(options) : options[i].key = options[j].key => i = j

LEMMA Constants == \A k \in Keys \union Values : k # NULL
BY OptionsAssumption

(* A key has one value.                                                    *)
LEMMA OneValue ==
  ASSUME NEW options, Unique(options), NEW k, NEW v, NEW w,
         Entry(options, k, v), Entry(options, k, w)
  PROVE  v = w
BY DEF Entry, Unique

(* An entry is found, with its value, and only an entry is.                *)
LEMMA FindOption ==
  ASSUME Unique(g_options), g_options \in Seq(Option), NEW k
  PROVE  /\ \A v : Entry(g_options, k, v) =>
                     find_option(k) # 0 /\ g_options[find_option(k)].value = v
         /\ find_option(k) # 0 => \E v \in Values \union {NULL} : Entry(g_options, k, v)
<1> DEFINE found == {i \in 1 .. Len(g_options) : g_options[i].key = k}
<1>1. Len(g_options) \in Nat
  OBVIOUS
<1>2. ASSUME NEW i \in found PROVE find_option(k) = i
  <2>1. \A j \in found : j = i
    BY <1>2 DEF Unique
  <2>2. i \in found /\ \A j \in found : i <= j
    BY <1>1, <2>1
  <2>3. found # {}
    BY <1>2
  <2>4. find_option(k) = CHOOSE n \in found : \A j \in found : n <= j
    BY <2>3 DEF find_option
  <2>5. (CHOOSE n \in found : \A j \in found : n <= j) \in found
    BY <2>2
  <2> QED
    BY <2>1, <2>4, <2>5
<1>3. found = {} => find_option(k) = 0
  BY DEF find_option
<1>4. ASSUME NEW v, Entry(g_options, k, v)
      PROVE  find_option(k) # 0 /\ g_options[find_option(k)].value = v
  <2>1. PICK i \in 1 .. Len(g_options) : g_options[i].key = k /\ g_options[i].value = v
    BY <1>4 DEF Entry
  <2>2. find_option(k) = i
    BY <1>2, <2>1
  <2> QED
    BY <1>1, <2>1, <2>2
<1>5. ASSUME find_option(k) # 0
      PROVE  \E v \in Values \union {NULL} : Entry(g_options, k, v)
  <2>1. PICK i \in found : TRUE
    BY <1>3, <1>5
  <2>2. g_options[i] \in Option
    BY <1>1, <2>1
  <2> QED
    BY <2>1, <2>2 DEF Entry, Option
<1> QED
  BY <1>4, <1>5

(* What recording an option adds.                                          *)
LEMMA Recorded ==
  ASSUME NEW options \in Seq(Option), Unique(options),
         NEW k \in Keys, NEW v \in Values \union {NULL},
         \A w \in Values \union {NULL} : ~Entry(options, k, w)
  PROVE  LET more == Append(options, [key |-> k, value |-> v])
         IN  /\ more \in Seq(Option) /\ Unique(more)
             /\ \A j, w : Entry(more, j, w) <=> Entry(options, j, w) \/ (j = k /\ w = v)
<1> DEFINE more == Append(options, [key |-> k, value |-> v])
           n == Len(options)
<1>1. [key |-> k, value |-> v] \in Option
  BY DEF Option
<1>2. n \in Nat /\ \A i \in 1 .. n : options[i] \in Option
  OBVIOUS
<1>3. more \in Seq(Option) /\ Len(more) = n + 1
  BY <1>1
<1>4. /\ \A i \in 1 .. n : more[i] = options[i]
      /\ more[n + 1] = [key |-> k, value |-> v]
  BY <1>1
<1>5. \A i \in 1 .. n + 1 : i \in 1 .. n \/ i = n + 1
  BY <1>2
<1>6. \A i \in 1 .. n : options[i].key # k
  BY <1>2 DEF Entry, Option
<1> HIDE DEF more
<1>7. Unique(more)
  BY <1>2, <1>3, <1>4, <1>5, <1>6 DEF Unique
<1>8. ASSUME NEW j, NEW w
      PROVE  Entry(more, j, w) <=> Entry(options, j, w) \/ (j = k /\ w = v)
  <2>1. Entry(more, j, w) => Entry(options, j, w) \/ (j = k /\ w = v)
    BY <1>3, <1>4, <1>5 DEF Entry
  <2>2. Entry(options, j, w) => Entry(more, j, w)
    BY <1>2, <1>3, <1>4 DEF Entry
  <2>3. Entry(more, k, v)
    <3>1. n + 1 \in 1 .. Len(more)
      BY <1>2, <1>3
    <3>2. more[n + 1].key = k /\ more[n + 1].value = v
      BY <1>4
    <3> QED
      BY <3>1, <3>2 DEF Entry
  <2> QED
    BY <2>1, <2>2, <2>3
<1> QED
  BY <1>3, <1>7, <1>8 DEF more

(* Only for want of memory is a key recorded with no value.                *)
ValuesThere == \A k : Entry(g_options, k, NULL) => k \in unrecorded

(* What offering an option does: nothing, where there is no value or the   *)
(* key is recorded; an entry; or, where memory runs out, at most one with  *)
(* no value.                                                               *)
LEMMA Offered ==
  ASSUME g_options \in Seq(Option), Unique(g_options), ValuesThere,
         NEW k \in Keys, NEW v \in Values \union {NULL}, option_default(k, v)
  PROVE  /\ g_options' \in Seq(Option) /\ Unique(g_options') /\ ValuesThere'
         /\ \/ /\ UNCHANGED <<g_options, unrecorded>>
               /\ v = NULL \/ k \in unrecorded \/ \E w \in Values : Entry(g_options, k, w)
            \/ /\ v \in Values /\ UNCHANGED unrecorded
               /\ \A w \in Values : ~Entry(g_options, k, w)
               /\ \A j, w : Entry(g_options', j, w) <=>
                              Entry(g_options, j, w) \/ (j = k /\ w = v)
            \/ /\ unrecorded' = unrecorded \union {k}
               /\ \A j, w : j # k \/ w # NULL =>
                              (Entry(g_options', j, w) <=> Entry(g_options, j, w))
<1>1. CASE v = NULL \/ find_option(k) # 0
  <2>1. UNCHANGED <<g_options, unrecorded>>
    BY <1>1 DEF option_default
  <2>2. v = NULL \/ k \in unrecorded \/ \E w \in Values : Entry(g_options, k, w)
    BY <1>1, FindOption DEF ValuesThere
  <2> QED
    BY <2>1, <2>2 DEF ValuesThere
<1>2. CASE v # NULL /\ find_option(k) = 0
  <2>1. v \in Values /\ \A w : ~Entry(g_options, k, w)
    BY <1>2, FindOption
  <2>2. CASE g_options' = g_options /\ unrecorded' = unrecorded \union {k}
    BY <2>2 DEF ValuesThere
  <2>3. CASE g_options' = Append(g_options, [key |-> k, value |-> v]) /\ UNCHANGED unrecorded
    <3>1. /\ g_options' \in Seq(Option) /\ Unique(g_options')
          /\ \A j, w : Entry(g_options', j, w) <=> Entry(g_options, j, w) \/ (j = k /\ w = v)
      BY <2>1, <2>3, Recorded
    <3>2. ValuesThere'
      BY <1>2, <2>3, <3>1 DEF ValuesThere
    <3> QED
      BY <2>1, <2>3, <3>1, <3>2
  <2>4. CASE /\ g_options' = Append(g_options, [key |-> k, value |-> NULL])
             /\ unrecorded' = unrecorded \union {k}
    <3>1. /\ g_options' \in Seq(Option) /\ Unique(g_options')
          /\ \A j, w : Entry(g_options', j, w) <=> Entry(g_options, j, w) \/ (j = k /\ w = NULL)
      BY <2>1, <2>4, Recorded
    <3>2. ValuesThere'
      BY <2>4, <3>1 DEF ValuesThere
    <3> QED
      BY <2>4, <3>1, <3>2
  <2> QED
    BY <1>2, <2>2, <2>3, <2>4 DEF option_default
<1> QED
  BY <1>1, <1>2

-----------------------------------------------------------------------------
(* What a core is told of its options. *)

OptionsType ==
  /\ g_options \in Seq(Option) /\ Unique(g_options) /\ ValuesThere
  /\ g_options_changed = FALSE
  /\ chosen \in [Keys -> Values \union {NULL}]
  /\ declared \in [Keys -> Values \union {NULL}]
  /\ unlisted \in [Keys -> Values \union {NULL}]
  /\ told \in [Keys -> Values \union {NULL}]
  /\ pending \subseteq Keys

(* Choices not recorded yet are recorded before the core's thread exists.  *)
PendingInv ==
  /\ \A k \in pending : chosen[k] # NULL /\ \A v : ~Entry(g_options, k, v)
  /\ core_pc # "start" => pending = {}
  /\ inside => core_pc # "start"

(* The default a key has: the one it was first declared with, or the one   *)
(* named before that was none of its values.                               *)
Default(k) == IF unlisted[k] # NULL THEN unlisted[k] ELSE declared[k]

(* A key has the plugin's choice, or the default first declared for it, or *)
(* its memory ran out; and keeps what the core was told.                   *)
ChosenInv ==
  \A k \in Keys : chosen[k] # NULL /\ k \notin pending \union unrecorded =>
    Entry(g_options, k, chosen[k])

DeclaredInv ==
  \A k \in Keys : chosen[k] = NULL /\ k \notin unrecorded =>
    \A v \in Values : Entry(g_options, k, v) <=> Default(k) = v

ToldInv == \A k \in Keys : told[k] # NULL => Entry(g_options, k, told[k])

OptionsInv == OptionsType /\ PendingInv /\ ChosenInv /\ DeclaredInv /\ ToldInv

LEMMA NoEntries == \A k, v : ~Entry(<<>>, k, v)
BY DEF Entry

LEMMA OptionsInvInit == Init => OptionsInv
<1> SUFFICES ASSUME Init PROVE OptionsInv
  OBVIOUS
<1>1. OptionsType
  <2>1. Unique(<<>>) /\ <<>> \in Seq(Option)
    BY DEF Unique
  <2>2. ValuesThere
    BY NoEntries DEF Init, OptionsInit, ValuesThere
  <2> QED
    BY <2>1, <2>2 DEF Init, OptionsInit, OptionsType
<1>2. PendingInv
  BY NoEntries DEF Init, OptionsInit, PendingInv
<1>3. ChosenInv
  BY DEF Init, OptionsInit, ChosenInv
<1>4. DeclaredInv
  BY NoEntries, Constants DEF Init, OptionsInit, DeclaredInv, Default
<1>5. ToldInv
  BY DEF Init, OptionsInit, ToldInv
<1> QED
  BY <1>1, <1>2, <1>3, <1>4, <1>5 DEF OptionsInv

(* native_start records a choice.                                          *)
LEMMA ChoiceNext ==
  ASSUME OptionsInv, NEW k \in Keys, native_start_option(k),
         UNCHANGED <<core_pc, inside>>
  PROVE  OptionsInv'
<1>1. /\ option_default(k, chosen[k]) /\ pending' = pending \ {k}
      /\ UNCHANGED <<g_options_changed, chosen, told, unlisted, declared>>
  BY DEF native_start_option, Offer
<1>2. k \in pending /\ chosen[k] \in Values \union {NULL} /\ chosen[k] # NULL
      /\ \A v : ~Entry(g_options, k, v)
  BY DEF native_start_option, OptionsInv, OptionsType, PendingInv
<1>3. /\ g_options' \in Seq(Option) /\ Unique(g_options') /\ ValuesThere'
      /\ \/ /\ UNCHANGED unrecorded
            /\ \A j, w : Entry(g_options', j, w) <=>
                           Entry(g_options, j, w) \/ (j = k /\ w = chosen[k])
         \/ /\ unrecorded' = unrecorded \union {k}
            /\ \A j, w : j # k \/ w # NULL =>
                           (Entry(g_options', j, w) <=> Entry(g_options, j, w))
  BY <1>1, <1>2, Offered DEF OptionsInv, OptionsType
<1>4. OptionsType'
  BY <1>1, <1>3 DEF OptionsInv, OptionsType
<1>5. PendingInv'
  BY <1>1, <1>3 DEF OptionsInv, PendingInv
<1>6. ChosenInv'
  BY <1>1, <1>2, <1>3 DEF OptionsInv, ChosenInv
<1>7. DeclaredInv'
  BY <1>1, <1>2, <1>3 DEF OptionsInv, DeclaredInv, Default
<1>8. ToldInv'
  BY <1>1, <1>3 DEF OptionsInv, ToldInv
<1> QED
  BY <1>4, <1>5, <1>6, <1>7, <1>8 DEF OptionsInv

(* The core declares an option, offered with the value that is its default *)
(* or the one it names and does not list.                                  *)
LEMMA DeclareNext ==
  ASSUME OptionsInv, NEW k \in Keys, NEW v \in Values \union {NULL},
         NEW default \in Values \union {NULL}, NEW stray \in Values \union {NULL},
         v = IF stray # NULL THEN stray ELSE default,
         inside, Declare(k, v, default, stray), UNCHANGED <<core_pc, inside>>
  PROVE  OptionsInv'
<1>1. /\ option_default(k, v)
      /\ declared' = [declared EXCEPT ![k] = IF declared[k] = NULL THEN default
                                                                 ELSE declared[k]]
      /\ unlisted' = [unlisted EXCEPT ![k] =
                        IF unlisted[k] = NULL /\ declared[k] = NULL THEN stray
                                                                   ELSE unlisted[k]]
      /\ UNCHANGED <<g_options_changed, chosen, told, pending>>
  BY DEF Declare, Offer
<1>2. pending = {}
  BY DEF OptionsInv, PendingInv
<1>3. /\ g_options' \in Seq(Option) /\ Unique(g_options') /\ ValuesThere'
      /\ \/ /\ UNCHANGED <<g_options, unrecorded>>
            /\ v = NULL \/ k \in unrecorded \/ \E w \in Values : Entry(g_options, k, w)
         \/ /\ v \in Values /\ UNCHANGED unrecorded
            /\ \A w \in Values : ~Entry(g_options, k, w)
            /\ \A j, w : Entry(g_options', j, w) <=>
                           Entry(g_options, j, w) \/ (j = k /\ w = v)
         \/ /\ unrecorded' = unrecorded \union {k}
            /\ \A j, w : j # k \/ w # NULL =>
                           (Entry(g_options', j, w) <=> Entry(g_options, j, w))
  BY <1>1, Offered DEF OptionsInv, OptionsType
<1>4. /\ declared' \in [Keys -> Values \union {NULL}]
      /\ unlisted' \in [Keys -> Values \union {NULL}]
      /\ \A j \in Keys : Default(j)' = IF j = k /\ Default(k) = NULL THEN v ELSE Default(j)
  <2>1. declared \in [Keys -> Values \union {NULL}] /\ unlisted \in [Keys -> Values \union {NULL}]
    BY DEF OptionsInv, OptionsType
  <2> QED
    BY <1>1, <2>1 DEF Default
<1>5. OptionsType'
  BY <1>1, <1>3, <1>4 DEF OptionsInv, OptionsType
<1>6. PendingInv'
  BY <1>1, <1>2 DEF OptionsInv, PendingInv
<1>7. ChosenInv'
  <2> SUFFICES ASSUME NEW j \in Keys, chosen[j] # NULL, j \notin unrecorded'
               PROVE  Entry(g_options', j, chosen[j])
    BY <1>1 DEF ChosenInv
  <2>1. j \notin unrecorded
    BY <1>3
  <2>2. Entry(g_options, j, chosen[j])
    BY <1>2, <2>1 DEF OptionsInv, ChosenInv
  <2> QED
    BY <1>3, <2>2
<1>8. DeclaredInv'
  <2> SUFFICES ASSUME NEW j \in Keys, chosen[j] = NULL, j \notin unrecorded',
                      NEW w \in Values
               PROVE  Entry(g_options', j, w) <=> Default(j)' = w
    BY <1>1 DEF DeclaredInv
  <2>1. j \notin unrecorded
    BY <1>3
  <2>2. \A u \in Values : Entry(g_options, j, u) <=> Default(j) = u
    BY <2>1 DEF OptionsInv, DeclaredInv
  <2>3. Default(j) \in Values \union {NULL} /\ w # NULL
    BY Constants DEF OptionsInv, OptionsType, Default
  <2>4. CASE j # k
    BY <1>3, <1>4, <2>2, <2>3, <2>4
  <2>5. CASE j = k
    <3>1. k \notin unrecorded' /\ k \notin unrecorded
      BY <2>1, <2>5
    <3>2. CASE v = NULL \/ \E u \in Values : Entry(g_options, k, u)
      <4>1. g_options' = g_options
        BY <1>3, <3>1, <3>2, Constants
      <4>2. Default(k)' = Default(k)
        BY <1>4, <2>2, <2>5, <3>2, Constants
      <4> QED
        BY <2>2, <2>5, <4>1, <4>2
    <3>3. CASE v # NULL /\ \A u \in Values : ~Entry(g_options, k, u)
      <4>1. Default(k) = NULL
        BY <2>2, <2>3, <2>5, <3>3
      <4>2. Default(k)' = v
        BY <1>4, <4>1
      <4>3. Entry(g_options', k, w) <=> w = v
        BY <1>3, <3>1, <3>3
      <4> QED
        BY <2>5, <4>2, <4>3
    <3> QED
      BY <3>2, <3>3
  <2> QED
    BY <2>4, <2>5
<1>9. ToldInv'
  BY <1>1, <1>3 DEF OptionsInv, ToldInv
<1> QED
  BY <1>5, <1>6, <1>7, <1>8, <1>9 DEF OptionsInv

(* What is listed is a value; the first of it, or none.                    *)
LEMMA ListedIsValue ==
  ASSUME NEW l \in Lists, NEW i \in 1 .. Len(l)
  PROVE  l[i] \in Values
<1>1. CASE l = <<>>
  BY <1>1
<1>2. ASSUME NEW n \in {1, 2}, l \in [1 .. n -> Values]
      PROVE  l[i] \in Values
  <2> DEFINE m == [j \in 1 .. n |-> l[j]]
  <2>1. m \in Seq(Values) /\ Len(m) = n
    BY <1>2
  <2>2. l = m
    BY <1>2
  <2> QED
    BY <2>1, <2>2
<1> QED
  BY <1>1, <1>2 DEF Lists

LEMMA FirstIsValue == \A l \in Lists : FirstListed(l, NULL) \in Values \union {NULL}
<1> SUFFICES ASSUME NEW l \in Lists, l # <<>> PROVE l[1] \in Values
  BY DEF FirstListed
<1>1. l \in [1 .. 1 -> Values] \/ l \in [1 .. 2 -> Values]
  BY DEF Lists
<1> QED
  BY <1>1

(* The value the code takes from a definition is the one it names and does *)
(* not list, or else what libretro.h says its default is.                  *)
LEMMA ValueIsDefault ==
  ASSUME NEW d \in Definitions
  PROVE  /\ d.key \in Keys /\ v1_value(d) \in Values \union {NULL}
         /\ V1Default(d, NULL) \in Values \union {NULL} /\ Stray(d) \in Values \union {NULL}
         /\ v1_value(d) = IF Stray(d) # NULL THEN Stray(d) ELSE V1Default(d, NULL)
         /\ V2Default(d, NULL) = V1Default(d, NULL)
<1>1. PICK k \in Keys, l \in Lists, v \in Values \union {NULL} : d = V1Definition(k, l, v)
  BY DEF Definitions
<1>2. d.key = k /\ d.values = l /\ d.default_value = v
  BY <1>1 DEF V1Definition
<1>3. v1_value(d) \in Values \union {NULL} /\ V1Default(d, NULL) \in Values \union {NULL}
  BY <1>2, FirstIsValue DEF v1_value, V1Default
<1>4. v1_value(d) = IF Stray(d) # NULL THEN Stray(d) ELSE V1Default(d, NULL)
  <2>1. v = NULL => ~\E i \in 1 .. Len(l) : l[i] = v
    BY ListedIsValue, Constants
  <2> QED
    BY <1>2, <2>1 DEF Stray, Listed, V1Default, v1_value
<1>5. V2Default(d, NULL) = V1Default(d, NULL)
  BY DEF V2Default
<1>6. Stray(d) \in Values \union {NULL}
  BY <1>2 DEF Stray
<1> QED
  BY <1>2, <1>3, <1>4, <1>5, <1>6

(* Whichever command declares an option, it is offered with the default it *)
(* names and does not list, or else its default.                           *)
LEMMA DeclaredWithDefault ==
  ASSUME NEW case, option_command(case),
         case \notin {"GET_VARIABLE", "GET_VARIABLE_UPDATE"}
  PROVE  \E k \in Keys, v, default, stray \in Values \union {NULL} :
           Declare(k, v, default, stray) /\ v = IF stray # NULL THEN stray ELSE default
<1>1. CASE option_from_v0
  <2>1. PICK key \in Keys, values \in Lists :
          Declare(key, FirstListed(values, NULL), V0Default(Variable(key, values), NULL), NULL)
    BY <1>1 DEF option_from_v0
  <2>2. V0Default(Variable(key, values), NULL) = FirstListed(values, NULL)
    BY DEF V0Default, Variable
  <2>3. Declare(key, FirstListed(values, NULL), FirstListed(values, NULL), NULL)
    BY <2>1, <2>2
  <2> QED
    BY <2>3, FirstIsValue
<1>2. CASE \E d \in Definitions : option_from_v1(d) \/ option_from_v2(d)
  <2>1. PICK d \in Definitions : option_from_v1(d) \/ option_from_v2(d)
    BY <1>2
  <2>2. Declare(d.key, v1_value(d), V1Default(d, NULL), Stray(d))
        \/ Declare(d.key, v1_value(d), V2Default(d, NULL), Stray(d))
    BY <2>1 DEF option_from_v1, option_from_v2
  <2>3. Declare(d.key, v1_value(d), V1Default(d, NULL), Stray(d))
    BY <2>2, ValueIsDefault
  <2> QED
    BY <2>3, ValueIsDefault
<1>3. CASE option_from_intl
  <2>1. PICK us \in Definitions, translated \in Values :
          LET intl == Translated(us, [us EXCEPT !.default_value = translated])
              half == intl_half(intl)
          IN  Declare(half.key, v1_value(half), TranslatedDefault(intl, NULL), Stray(us))
    BY <1>3 DEF option_from_intl
  <2> DEFINE intl == Translated(us, [us EXCEPT !.default_value = translated])
  <2>2. intl_half(intl) = us /\ TranslatedDefault(intl, NULL) = V1Default(us, NULL)
    BY DEF intl_half, TranslatedDefault, Translated
  <2>3. Declare(us.key, v1_value(us), V1Default(us, NULL), Stray(us))
    BY <2>1, <2>2
  <2> QED
    BY <2>3, ValueIsDefault
<1> QED
  BY <1>1, <1>2, <1>3 DEF option_command

LEMMA GetNext ==
  ASSUME OptionsInv, NEW k \in Keys, get_variable(k), UNCHANGED <<core_pc, inside>>
  PROVE  OptionsInv'
<1> DEFINE answer == IF find_option(k) = 0 THEN NULL ELSE g_options[find_option(k)].value
<1>1. told' = [told EXCEPT ![k] = answer]
      /\ UNCHANGED <<g_options, g_options_changed, chosen, pending, unrecorded, unlisted, declared>>
  BY DEF get_variable
<1>2. answer \in Values \union {NULL} /\ (answer # NULL => Entry(g_options, k, answer))
  <2>1. g_options \in Seq(Option) /\ Unique(g_options)
    BY DEF OptionsInv, OptionsType
  <2>2. CASE find_option(k) = 0
    BY <2>2
  <2>3. CASE find_option(k) # 0
    <3>1. PICK v \in Values \union {NULL} : Entry(g_options, k, v)
      BY <2>1, <2>3, FindOption
    <3>2. g_options[find_option(k)].value = v
      BY <2>1, <3>1, FindOption
    <3> QED
      BY <2>3, <3>1, <3>2
  <2> QED
    BY <2>2, <2>3
<1> HIDE DEF answer
<1>3. told' \in [Keys -> Values \union {NULL}]
      /\ \A j \in Keys : told'[j] = IF j = k THEN answer ELSE told[j]
  BY <1>1, <1>2 DEF OptionsInv, OptionsType
<1>4. ToldInv'
  BY <1>1, <1>2, <1>3 DEF OptionsInv, ToldInv
<1> QED
  BY <1>1, <1>3, <1>4 DEF OptionsInv, OptionsType, PendingInv, ChosenInv, DeclaredInv, Default,
     ValuesThere

(* environment() keeps the invariant, whatever case it selects.            *)
LEMMA CommandNext ==
  ASSUME OptionsInv, NEW command, environment(command)
  PROVE  OptionsInv'
<1>1. inside /\ UNCHANGED <<core_pc, inside>>
  BY DEF environment, Handle, acknowledge, SetPixelFormat, shutdown, set_callback,
     get_core_options_version, option_command, Leaves, mainVars
<1>2. ASSUME UNCHANGED optionVars PROVE OptionsInv'
  BY <1>1, <1>2 DEF optionVars, OptionsInv, OptionsType, PendingInv, ChosenInv,
     DeclaredInv, Default, ToldInv, ValuesThere
<1>3. ASSUME NEW case, option_command(case) PROVE OptionsInv'
  <2>1. CASE case \notin {"GET_VARIABLE", "GET_VARIABLE_UPDATE"}
    <3>1. PICK k \in Keys, v \in Values \union {NULL}, default \in Values \union {NULL},
               stray \in Values \union {NULL} :
            Declare(k, v, default, stray) /\ v = IF stray # NULL THEN stray ELSE default
      BY <1>3, <2>1, DeclaredWithDefault
    <3> QED
      BY <1>1, <3>1, DeclareNext
  <2>2. CASE case = "GET_VARIABLE"
    <3>1. PICK k \in Keys : get_variable(k)
      BY <1>3, <2>2 DEF option_command
    <3> QED
      BY <1>1, <3>1, GetNext
  <2>3. CASE case = "GET_VARIABLE_UPDATE"
    <3>1. variable_update
      BY <1>3, <2>3 DEF option_command
    <3>2. UNCHANGED optionVars
      BY <3>1 DEF variable_update, optionVars, OptionsInv, OptionsType
    <3> QED
      BY <1>2, <3>2
  <2> QED
    BY <2>1, <2>2, <2>3
<1>4. ASSUME NEW case, Handle(case), ~option_command(case) PROVE UNCHANGED optionVars
  BY <1>4 DEF Handle, acknowledge, SetPixelFormat, shutdown, set_callback,
     get_core_options_version, Leaves, optionVars
<1> QED
  BY <1>2, <1>3, <1>4 DEF environment, Leaves

LEMMA OptionsInvNext == OptionsInv /\ [Next]_vars => OptionsInv'
<1> SUFFICES ASSUME OptionsInv, [Next]_vars PROVE OptionsInv'
  OBVIOUS
<1>1. ASSUME UNCHANGED optionVars, core_pc' # "start" => core_pc # "start" \/ pending = {},
             inside' => core_pc' # "start"
      PROVE  OptionsInv'
  BY <1>1 DEF optionVars, OptionsInv, OptionsType, PendingInv, ChosenInv,
     DeclaredInv, Default, ToldInv, ValuesThere
<1>2. CASE native_start_options
  <2>1. PICK k \in Keys : native_start_option(k)
    BY <1>2 DEF native_start_options
  <2> QED
    BY <1>2, <2>1, ChoiceNext DEF native_start_options, mainVars
<1>3. CASE native_start \/ native_stop
  BY <1>1, <1>3 DEF native_start, native_stop, mainVars, OptionsInv, PendingInv
<1>4. CASE core_main
  <2>1. UNCHANGED optionVars /\ core_pc # "start"
    BY <1>4 DEF core_main, Enter, Return, Goto, frame_begin, loop_over, pump_begin,
       pump_again, pump_end, calls_null, OptionsInv, PendingInv, Calls, Setters, Callbacks
  <2>2. inside' => core_pc' # "start"
    <3>1. CASE Return
      BY <3>1, Zenon DEF Return
    <3>2. CASE \/ Enter \/ frame_begin \/ loop_over \/ pump_begin \/ pump_again
               \/ pump_end \/ calls_null
      BY <2>1, <3>2 DEF Enter, Goto, frame_begin, loop_over, pump_begin, pump_again,
         pump_end, calls_null, FirstOfFrame
    <3> QED
      BY <1>4, <3>1, <3>2 DEF core_main
  <2> QED
    BY <1>1, <2>1, <2>2
<1>5. CASE \E command \in sends : environment(command)
  BY <1>5, CommandNext
<1>6. CASE UNCHANGED vars
  BY <1>1, <1>6 DEF vars, mainVars, OptionsInv, PendingInv
<1> QED
  BY <1>2, <1>3, <1>4, <1>5, <1>6 DEF Next

(* A launch and its pad are, for the core and its commands, Environment.   *)
LEMMA FrontendIsEnvironment == FrontendSpec => Spec
<1>1. FrontendInit => Init
  BY DEF FrontendInit
<1>2. [FrontendNext]_frontendVars => [Next]_vars
  BY DEF FrontendNext, Launch, Destroy, Play, Next, frontendVars
<1> QED
  BY <1>1, <1>2, PTL DEF FrontendSpec, Spec

LEMMA OptionsAlways == FrontendSpec => []OptionsInv
<1> QED
  BY OptionsInvInit, OptionsInvNext, FrontendIsEnvironment, PTL DEF Spec

(* Where the plugin chose a value, the core is told it, whatever it        *)
(* declares, by whichever command and however often, unless there was no   *)
(* memory to record the choice.                                            *)
THEOREM ChoicesWin == FrontendSpec => []ChoiceWins
<1>1. OptionsInv => ChoiceWins
  <2> SUFFICES ASSUME OptionsInv, NEW k \in Keys, chosen[k] # NULL, told[k] # NULL,
                      k \notin unrecorded
               PROVE  told[k] = chosen[k]
    BY DEF ChoiceWins
  <2>1. Entry(g_options, k, told[k]) /\ told[k] \in Values
    BY DEF OptionsInv, OptionsType, ToldInv
  <2>2. k \notin pending
    BY <2>1 DEF OptionsInv, PendingInv
  <2>3. Entry(g_options, k, chosen[k])
    BY <2>2 DEF OptionsInv, ChosenInv
  <2> QED
    BY <2>1, <2>3, OneValue DEF OptionsInv, OptionsType
<1> QED
  BY <1>1, OptionsAlways, PTL

(* What the core was once answered is what it is answered for ever: there  *)
(* is no change it would have to be told of.                               *)
THEOREM AnswersStay == FrontendSpec => []NoSilentChange
<1>1. OptionsInv => NoSilentChange
  BY FindOption DEF OptionsInv, OptionsType, ToldInv, NoSilentChange
<1> QED
  BY <1>1, OptionsAlways, PTL

(* Where the plugin chose nothing, the core is told its own default, as    *)
(* libretro.h defines it for the command that declared it first, or the    *)
(* one it named before that its option does not list.                      *)
THEOREM DefaultsAsDeclared == FrontendSpec => []DefaultAsDeclared
<1>1. OptionsInv => DefaultAsDeclared
  BY DEF OptionsInv, OptionsType, ToldInv, DeclaredInv, Default, DefaultAsDeclared
<1> QED
  BY <1>1, OptionsAlways, PTL

-----------------------------------------------------------------------------
(* The order of the core's calls. *)

(* Where core_main is, by what it has brought the core to.                 *)
Fresh  == Setters \union {"start", "retro_init"}
Loaded == {"retro_get_system_av_info", "head", "frame_time", "retro_run", "pump",
           "pumping", "audio", "retro_unload_game"}
Places == Fresh \union {"retro_load_game", "retro_deinit", "ended", "crashed"} \union Loaded

(* What follows each call, without the cases of the code.                  *)
LEMMA AfterEach ==
  \A ok \in BOOLEAN :
    /\ After("retro_set_environment", ok) = "retro_set_video_refresh"
    /\ After("retro_set_video_refresh", ok) = "retro_set_audio_sample"
    /\ After("retro_set_audio_sample", ok) = "retro_set_audio_sample_batch"
    /\ After("retro_set_audio_sample_batch", ok) = "retro_set_input_poll"
    /\ After("retro_set_input_poll", ok) = "retro_set_input_state"
    /\ After("retro_set_input_state", ok) = "retro_init"
    /\ After("retro_init", ok) = "retro_load_game"
    /\ After("retro_load_game", ok) = IF ok THEN "retro_get_system_av_info" ELSE "retro_deinit"
    /\ After("retro_get_system_av_info", ok) = "head"
    /\ After("frame_time", ok) = "retro_run"
    /\ After("retro_run", ok) = "pump"
    /\ After("audio", ok) = "pumping"
    /\ After("retro_unload_game", ok) = "retro_deinit"
    /\ After("retro_deinit", ok) = "ended"
BY DEF After, AfterLoad

(* How far a call that returns has brought the core.                       *)
LEMMA Brought ==
  ASSUME Return
  PROVE  \E ok \in BOOLEAN :
           /\ core_pc' = After(core_pc, ok)
           /\ core_pc # "retro_load_game" => ok
           /\ core_pc \in {"retro_init", "retro_unload_game"} => library' = "initialised"
           /\ core_pc = "retro_load_game" => library' = IF ok THEN "loaded" ELSE library
           /\ core_pc = "retro_deinit" => library' = "gone"
           /\ core_pc \notin {"retro_init", "retro_unload_game", "retro_load_game", "retro_deinit"}
                => library' = library
BY DEF Return
OrderType ==
  /\ core_pc \in Places /\ inside \in BOOLEAN /\ timed \in BOOLEAN
  /\ given \subseteq Setters /\ g_callbacks \subseteq Callbacks
  /\ inside => core_pc \in Calls \union Callbacks

(* The setters called so far, in core_main's order.                        *)
GivenInv ==
  LET first  == {"start", "retro_set_environment"}
      second == first \union {"retro_set_video_refresh"}
      third  == second \union {"retro_set_audio_sample"}
      fourth == third \union {"retro_set_audio_sample_batch"}
      fifth  == fourth \union {"retro_set_input_poll"}
      sixth  == fifth \union {"retro_set_input_state"}
  IN  /\ core_pc \notin first => "retro_set_environment" \in given
      /\ core_pc \notin second => "retro_set_video_refresh" \in given
      /\ core_pc \notin third => "retro_set_audio_sample" \in given
      /\ core_pc \notin fourth => "retro_set_audio_sample_batch" \in given
      /\ core_pc \notin fifth => "retro_set_input_poll" \in given
      /\ core_pc \notin sixth => "retro_set_input_state" \in given

LibraryInv ==
  /\ core_pc \in Fresh => library = "fresh"
  /\ core_pc \in {"retro_load_game", "retro_deinit"} => library = "initialised"
  /\ core_pc \in Loaded => library = "loaded"

(* The frame-time callback about to be called is registered, and a frame   *)
(* about to run has its time.                                              *)
CallbackInv ==
  /\ core_pc = "frame_time" /\ ~inside => "frame_time" \in g_callbacks
  /\ core_pc = "retro_run" /\ ~inside /\ "frame_time" \in g_callbacks => timed

OrderInv == OrderType /\ GivenInv /\ LibraryInv /\ CallbackInv

LEMMA OrderInit == Init => OrderInv
BY DEF Init, OrderInv, OrderType, GivenInv, LibraryInv, CallbackInv, Places, Fresh, Loaded, Setters

(* A call that returns: core_main goes to the next.                        *)
LEMMA ReturnNext == OrderInv /\ Return => OrderInv'
<1> SUFFICES ASSUME OrderInv, Return PROVE OrderInv'
  OBVIOUS
<1>1. PICK ok \in BOOLEAN :
        /\ core_pc' = After(core_pc, ok)
        /\ core_pc # "retro_load_game" => ok
        /\ core_pc \in {"retro_init", "retro_unload_game"} => library' = "initialised"
        /\ core_pc = "retro_load_game" => library' = IF ok THEN "loaded" ELSE library
        /\ core_pc = "retro_deinit" => library' = "gone"
        /\ core_pc \notin {"retro_init", "retro_unload_game", "retro_load_game", "retro_deinit"}
             => library' = library
  BY Brought
<1>2. inside /\ inside' = FALSE /\ g_callbacks' = g_callbacks
      /\ given' = given \union ({core_pc} \intersect Setters)
      /\ timed' = ((timed \/ core_pc = "frame_time") /\ core_pc # "retro_run")
  BY Zenon DEF Return, knownVars
<1>3. core_pc \in (Calls \union Callbacks) \intersect Places
  BY <1>2 DEF OrderInv, OrderType
<1>4. core_pc \in {"retro_set_environment", "retro_set_video_refresh",
        "retro_set_audio_sample", "retro_set_audio_sample_batch", "retro_set_input_poll",
        "retro_set_input_state", "retro_init", "retro_load_game",
        "retro_get_system_av_info", "frame_time", "retro_run", "audio",
        "retro_unload_game", "retro_deinit"}
  BY <1>3 DEF Calls, Setters, Callbacks, Places, Fresh, Loaded
<1>5. OrderType'
  <2>1. core_pc' \in Places
    BY <1>1, <1>4, AfterEach DEF Places, Fresh, Loaded, Setters
  <2>2. timed' \in BOOLEAN
    BY <1>2
  <2> QED
    BY <1>2, <2>1, <2>2 DEF OrderInv, OrderType
<1>6. GivenInv'
  <2>1. \/ core_pc = "retro_set_environment" /\ core_pc' = "retro_set_video_refresh"
        \/ core_pc = "retro_set_video_refresh" /\ core_pc' = "retro_set_audio_sample"
        \/ core_pc = "retro_set_audio_sample" /\ core_pc' = "retro_set_audio_sample_batch"
        \/ core_pc = "retro_set_audio_sample_batch" /\ core_pc' = "retro_set_input_poll"
        \/ core_pc = "retro_set_input_poll" /\ core_pc' = "retro_set_input_state"
        \/ core_pc = "retro_set_input_state" /\ core_pc' = "retro_init"
        \/ core_pc \notin Setters \union {"start"}
    BY <1>1, <1>4, AfterEach DEF Setters
  <2>2. given \subseteq given' /\ (core_pc \in Setters => core_pc \in given')
    BY <1>2
  <2>3. GivenInv
    BY DEF OrderInv
  <2>4. CASE core_pc \notin Setters \union {"start"}
    <3>1. Setters \subseteq given
      BY <2>3, <2>4 DEF GivenInv, Setters
    <3> QED
      BY <2>2, <3>1 DEF GivenInv, Setters
  <2>5. CASE core_pc \in Setters \union {"start"}
    <3>1. core_pc \in given'
      BY <2>1, <2>2, <2>5 DEF Setters
    <3> QED
      BY <2>1, <2>2, <2>3, <2>5, <3>1 DEF GivenInv
  <2> QED
    BY <2>4, <2>5
<1>7. LibraryInv'
  BY <1>1, <1>4, AfterEach DEF OrderInv, LibraryInv, Fresh, Loaded, Setters
<1>8. CallbackInv'
  <2>1. core_pc' # "frame_time"
    BY <1>1, <1>4, AfterEach
  <2>2. core_pc' = "retro_run" => core_pc = "frame_time"
    BY <1>1, <1>4, AfterEach
  <2>3. core_pc = "frame_time" => timed'
    BY <1>2
  <2> QED
    BY <2>1, <2>2, <2>3 DEF CallbackInv
<1> QED
  BY <1>5, <1>6, <1>7, <1>8 DEF OrderInv

(* The tests between the calls.                                            *)
LEMMA GotoNext ==
  ASSUME OrderInv,
         \/ frame_begin \/ loop_over \/ pump_begin \/ pump_again \/ pump_end \/ calls_null
  PROVE  OrderInv' /\ ~inside
<1>1. /\ \/ core_pc \in {"head", "pump", "pumping"}
         \/ core_pc = "audio" /\ ~inside
      /\ UNCHANGED <<inside, given, library, timed, g_callbacks>>
  BY DEF frame_begin, loop_over, pump_begin, pump_again, pump_end, calls_null, Goto, knownVars
<1>2. \/ core_pc' = "retro_unload_game"
      \/ core_pc' = "head"
      \/ core_pc' = "frame_time" /\ "frame_time" \in g_callbacks
      \/ core_pc' = "retro_run" /\ "frame_time" \notin g_callbacks
      \/ core_pc' \in {"pumping", "audio", "crashed"}
  BY DEF frame_begin, loop_over, pump_begin, pump_again, pump_end, calls_null,
     Goto, FirstOfFrame, OrderInv, CallbackInv
<1>3. ~inside
  BY <1>1 DEF OrderInv, OrderType, Calls, Setters, Callbacks
<1>4. OrderType'
  BY <1>1, <1>2, <1>3 DEF OrderInv, OrderType, Places, Fresh, Loaded, Setters
<1>5. GivenInv'
  BY <1>1, <1>2 DEF OrderInv, GivenInv
<1>6. LibraryInv'
  BY <1>1, <1>2 DEF OrderInv, LibraryInv, Fresh, Loaded, Setters
<1>7. CallbackInv'
  BY <1>1, <1>2 DEF OrderInv, CallbackInv
<1> QED
  BY <1>3, <1>4, <1>5, <1>6, <1>7 DEF OrderInv

(* What the core sends moves nothing of core_main's.                       *)
LEMMA CommandKeepsOrder ==
  ASSUME OrderInv, NEW command, environment(command)
  PROVE  OrderInv' /\ inside /\ UNCHANGED mainVars /\ g_callbacks' \subseteq Callbacks
<1>1. inside /\ UNCHANGED mainVars
  BY DEF environment, Handle, acknowledge, SetPixelFormat, shutdown, set_callback,
     get_core_options_version, option_command, Leaves
<1>2. \/ g_callbacks' = g_callbacks
      \/ \E callback \in Callbacks : set_callback(callback)
  BY DEF environment, Handle, acknowledge, SetPixelFormat, shutdown, Callbacks,
     get_core_options_version, option_command, Leaves, knownVars
<1>3. g_callbacks' \subseteq Callbacks
  BY <1>2 DEF set_callback, OrderInv, OrderType
<1> QED
  BY <1>1, <1>3 DEF mainVars, OrderInv, OrderType, GivenInv, LibraryInv, CallbackInv

LEMMA OrderNext == OrderInv /\ [Next]_vars => OrderInv'
<1> SUFFICES ASSUME OrderInv, [Next]_vars PROVE OrderInv'
  OBVIOUS
<1>1. CASE native_start
  BY <1>1 DEF native_start, knownVars, OrderInv, OrderType, GivenInv, LibraryInv,
     CallbackInv, Places, Fresh, Loaded, Setters, Calls, Callbacks
<1>2. CASE native_start_options \/ native_stop \/ UNCHANGED vars
  BY <1>2 DEF native_start_options, native_stop, vars, mainVars, knownVars, OrderInv,
     OrderType, GivenInv, LibraryInv, CallbackInv
<1>3. CASE Enter
  BY <1>3 DEF Enter, knownVars, OrderInv, OrderType, GivenInv, LibraryInv, CallbackInv
<1>4. CASE Return
  BY <1>4, ReturnNext
<1>5. CASE frame_begin \/ loop_over \/ pump_begin \/ pump_again \/ pump_end \/ calls_null
  BY <1>5, GotoNext
<1>6. CASE \E command \in sends : environment(command)
  BY <1>6, CommandKeepsOrder
<1> QED
  BY <1>1, <1>2, <1>3, <1>4, <1>5, <1>6 DEF Next, core_main

LEMMA FirstOfOrder == Init => Order!Init
BY DEF Init, Order!Init

(* core_main's entering a call is the contract's, whichever call it is.    *)
LEMMA EnterKeeps == OrderInv /\ Enter => Order!Next
<1> SUFFICES ASSUME OrderInv, Enter PROVE Order!Next
  OBVIOUS
<1>1. /\ ~inside /\ inside' = TRUE /\ core_pc \in Calls \union Callbacks
      /\ UNCHANGED <<core_pc, given, library, timed, g_callbacks>>
      /\ core_pc \in Callbacks => core_pc \in g_callbacks
  BY DEF Enter, knownVars
<1>2. Order!Enter(core_pc)
  BY <1>1 DEF Order!Enter
<1>3. CASE core_pc \in Setters
  <2>1. Order!Give(core_pc)
    BY <1>2, <1>3 DEF Order!Give, OrderInv, LibraryInv, Fresh
  <2> QED
    BY <1>3, <2>1 DEF Order!Next, Order!Setters, Setters
<1>4. CASE core_pc = "retro_init"
  <2>1. Order!Initialise
    BY <1>2, <1>4 DEF Order!Initialise, OrderInv, LibraryInv, GivenInv, Fresh
  <2> QED
    BY <2>1 DEF Order!Next
<1>5. CASE core_pc = "retro_load_game"
  <2>1. Order!LoadGame
    BY <1>2, <1>5 DEF Order!LoadGame, OrderInv, LibraryInv
  <2> QED
    BY <2>1 DEF Order!Next
<1>6. CASE core_pc = "retro_get_system_av_info"
  <2>1. Order!GetAvInfo
    BY <1>2, <1>6 DEF Order!GetAvInfo, OrderInv, LibraryInv, Loaded
  <2> QED
    BY <2>1 DEF Order!Next
<1>7. CASE core_pc = "retro_run"
  <2>1. Setters \subseteq given
    BY <1>7 DEF OrderInv, GivenInv, Setters
  <2>2. Order!RunFrame
    BY <1>1, <1>2, <1>7, <2>1 DEF Order!RunFrame, Order!Setters, Setters, OrderInv,
       OrderType, LibraryInv, CallbackInv, Loaded
  <2> QED
    BY <2>2 DEF Order!Next
<1>8. CASE core_pc \in Callbacks
  <2>1. core_pc \in {"audio", "frame_time"}
    BY <1>8 DEF OrderInv, OrderType, Places, Fresh, Loaded, Setters, Callbacks
  <2>2. library = "loaded" /\ core_pc \in g_callbacks
    BY <1>1, <1>8, <2>1 DEF OrderInv, LibraryInv, Loaded
  <2>3. Order!CallBack(core_pc)
    BY <1>2, <2>2 DEF Order!CallBack
  <2> QED
    BY <1>8, <2>3 DEF Order!Next, Order!Callbacks, Callbacks
<1>9. CASE core_pc = "retro_unload_game"
  <2>1. Order!UnloadGame
    BY <1>2, <1>9 DEF Order!UnloadGame, OrderInv, LibraryInv, Loaded
  <2> QED
    BY <2>1 DEF Order!Next
<1>10. CASE core_pc = "retro_deinit"
  <2>1. Order!Deinitialise
    BY <1>2, <1>10 DEF Order!Deinitialise, OrderInv, LibraryInv
  <2> QED
    BY <2>1 DEF Order!Next
<1> QED
  BY <1>1, <1>3, <1>4, <1>5, <1>6, <1>7, <1>8, <1>9, <1>10 DEF Calls

(* A call's return is the contract's, with what it has brought.            *)
LEMMA ReturnKeeps == OrderInv /\ Return => Order!Return
<1> SUFFICES ASSUME OrderInv, Return PROVE Order!Return
  OBVIOUS
<1>1. inside /\ inside' = FALSE /\ g_callbacks' = g_callbacks
      /\ given' = given \union ({core_pc} \intersect Setters)
      /\ timed' = ((timed \/ core_pc = "frame_time") /\ core_pc # "retro_run")
  BY Zenon DEF Return, knownVars
<1>2. core_pc # "none" /\ timed \in BOOLEAN
  BY <1>1 DEF OrderInv, OrderType, Places, Fresh, Loaded, Setters
<1>3. library' \in CASE core_pc \in {"retro_init", "retro_unload_game"} -> {"initialised"}
                     [] core_pc = "retro_load_game" -> {"initialised", "loaded"}
                     [] core_pc = "retro_deinit" -> {"gone"}
                     [] OTHER -> {library}
  <2>1. core_pc = "retro_load_game" => library = "initialised"
    BY DEF OrderInv, LibraryInv
  <2> QED
    BY <2>1, Brought
<1>4. timed' = CASE core_pc = "frame_time" -> TRUE
                 [] core_pc = "retro_run" -> FALSE
                 [] OTHER -> timed
  BY <1>1, <1>2
<1> QED
  BY <1>1, <1>2, <1>3, <1>4 DEF Order!Return, Order!Setters, Setters

LEMMA OrderStep == OrderInv /\ [Next]_vars => [Order!Next]_(Order!vars)
<1> SUFFICES ASSUME OrderInv, [Next]_vars PROVE [Order!Next]_(Order!vars)
  OBVIOUS
<1>1. ASSUME UNCHANGED <<inside, given, library, timed, g_callbacks>>,
             core_pc' = core_pc \/ ~inside
      PROVE  UNCHANGED Order!vars
  BY <1>1 DEF Order!vars
<1>2. CASE native_start_options \/ native_stop \/ native_start \/ UNCHANGED vars
  <2>1. core_pc = "start" => ~inside
    BY DEF OrderInv, OrderType, Calls, Setters, Callbacks
  <2> QED
    BY <1>1, <1>2, <2>1 DEF native_start_options, native_stop, native_start, vars,
       mainVars, knownVars
<1>3. CASE Enter
  BY <1>3, EnterKeeps
<1>4. CASE Return
  BY <1>4, ReturnKeeps DEF Order!Next
<1>5. CASE frame_begin \/ loop_over \/ pump_begin \/ pump_again \/ pump_end \/ calls_null
  BY <1>1, <1>5, GotoNext DEF frame_begin, loop_over, pump_begin, pump_again, pump_end,
     calls_null, Goto, knownVars
<1>6. CASE \E command \in sends : environment(command)
  <2>1. inside /\ UNCHANGED mainVars /\ g_callbacks' \subseteq Callbacks /\ core_pc # "none"
    BY <1>6, CommandKeepsOrder DEF OrderInv, OrderType, Calls, Setters, Callbacks
  <2>2. Order!Register
    BY <2>1 DEF Order!Register, Order!Callbacks, Callbacks, mainVars
  <2> QED
    BY <2>2 DEF Order!Next
<1> QED
  BY <1>2, <1>3, <1>4, <1>5, <1>6 DEF Next, core_main

(* core_main and environment() keep libretro.h's order of calls, whatever  *)
(* commands a core sends and whenever the host stops it.                   *)
THEOREM CoreContractKept == FrontendSpec => KeepsOrder
<1>1. Spec => []OrderInv
  BY OrderInit, OrderNext, PTL DEF Spec
<1> QED
  BY <1>1, FirstOfOrder, OrderStep, FrontendIsEnvironment, PTL
     DEF Spec, KeepsOrder, Order!Spec

-----------------------------------------------------------------------------
(* The colours. *)

(* The core draws in the format that is set, and it is one of the three.   *)
FormatInv == g_pixel_format \in PixelFormats /\ agreed = g_pixel_format

LEMMA FormatNext == FormatInv /\ [Next]_vars => FormatInv'
<1> SUFFICES ASSUME FormatInv, [Next]_vars PROVE FormatInv'
  OBVIOUS
<1>1. ASSUME UNCHANGED <<g_pixel_format, agreed>> PROVE FormatInv'
  BY <1>1 DEF FormatInv
<1>2. CASE native_start_options \/ native_start \/ native_stop \/ UNCHANGED vars
  BY <1>1, <1>2 DEF native_start_options, native_start, native_stop, vars, knownVars
<1>3. CASE core_main
  <2>1. UNCHANGED knownVars
    BY <1>3 DEF core_main, Enter, Return, Goto, frame_begin, loop_over, pump_begin,
       pump_again, pump_end, calls_null
  <2> QED
    BY <1>1, <2>1 DEF knownVars
<1>4. ASSUME NEW command, environment(command) PROVE FormatInv'
  <2>1. CASE SetPixelFormat
    BY <2>1 DEF SetPixelFormat, set_pixel_format, FormatInv
  <2>2. CASE ~SetPixelFormat
    <3>1. UNCHANGED <<g_pixel_format, agreed>>
      BY <1>4, <2>2 DEF environment, Handle, acknowledge, shutdown, set_callback,
         get_core_options_version, option_command, Leaves, knownVars
    <3> QED
      BY <1>1, <3>1
  <2> QED
    BY <2>1, <2>2
<1> QED
  BY <1>2, <1>3, <1>4 DEF Next

(* Five or six bits stretched to a byte are within one level of it.        *)
LEMMA FiveClose == \A v \in 0 .. 31 : Close(v, 31, v * 8 + v \div 4)
BY DEF Close

LEMMA SixClose == \A v \in 0 .. 63 : Close(v, 63, v * 4 + v \div 16)
BY DEF Close

LEMMA ByteClose == \A v \in 0 .. 255 : Close(v, 255, v)
BY DEF Close

(* Where a format puts its channels is where to_argb takes them from, and  *)
(* five or six bits are stretched to a byte.                               *)
LEMMA Bytes555 ==
  ASSUME NEW r \in 0 .. 31, NEW g \in 0 .. 31, NEW b \in 0 .. 31
  PROVE  to_argb("0RGB1555", Pixel("0RGB1555", [r |-> r, g |-> g, b |-> b])) =
           [r |-> r * 8 + r \div 4, g |-> g * 8 + g \div 4, b |-> b * 8 + b \div 4]
<1> DEFINE p == r * 1024 + g * 32 + b
<1>1. Pixel("0RGB1555", [r |-> r, g |-> g, b |-> b]) = p
  BY DEF Pixel
<1>2. p \in Int /\ Bits(p, 1024, 32) = r
  BY DEF Bits
<1>3. Bits(p, 32, 32) = g
  BY DEF Bits
<1>4. Bits(p, 1, 32) = b
  BY DEF Bits
<1> HIDE DEF p
<1> QED
  BY <1>1, <1>2, <1>3, <1>4 DEF to_argb, Five

LEMMA Bytes565 ==
  ASSUME NEW r \in 0 .. 31, NEW g \in 0 .. 63, NEW b \in 0 .. 31
  PROVE  to_argb("RGB565", Pixel("RGB565", [r |-> r, g |-> g, b |-> b])) =
           [r |-> r * 8 + r \div 4, g |-> g * 4 + g \div 16, b |-> b * 8 + b \div 4]
<1> DEFINE p == r * 2048 + g * 32 + b
<1>1. Pixel("RGB565", [r |-> r, g |-> g, b |-> b]) = p
  BY DEF Pixel
<1>2. p \in Int /\ Bits(p, 2048, 32) = r
  BY DEF Bits
<1>3. Bits(p, 32, 64) = g
  BY DEF Bits
<1>4. Bits(p, 1, 32) = b
  BY DEF Bits
<1> HIDE DEF p
<1> QED
  BY <1>1, <1>2, <1>3, <1>4 DEF to_argb, Five, Six

LEMMA Bytes888 ==
  ASSUME NEW r \in 0 .. 255, NEW g \in 0 .. 255, NEW b \in 0 .. 255
  PROVE  to_argb("XRGB8888", Pixel("XRGB8888", [r |-> r, g |-> g, b |-> b])) =
           [r |-> r, g |-> g, b |-> b]
<1> DEFINE p == r * 65536 + g * 256 + b
<1>1. Pixel("XRGB8888", [r |-> r, g |-> g, b |-> b]) = p
  BY DEF Pixel
<1>2. p \in Int /\ Bits(p, 65536, 256) = r
  BY DEF Bits
<1>3. Bits(p, 256, 256) = g
  <2>1. p \div 256 = r * 256 + g
    OBVIOUS
  <2>2. (r * 256 + g) % 256 = g
    OBVIOUS
  <2> QED
    BY <2>1, <2>2 DEF Bits
<1>4. Bits(p, 1, 256) = b
  BY DEF Bits
<1> HIDE DEF p
<1> QED
  BY <1>1, <1>2, <1>3, <1>4 DEF to_argb

LEMMA SampledInside == \A max \in {31, 63, 255} : Sampled(max) \subseteq 0 .. max
BY DEF Sampled

(* A colour the core draws in a format is its own in that format's bytes.  *)
LEMMA KeepsOwn == \A f \in PixelFormats : Keeps[f][f]
<1> SUFFICES ASSUME NEW f \in PixelFormats, NEW c \in Colours(f), NEW channel \in {"r", "g", "b"}
             PROVE  Close(c[channel], Levels[f][channel], to_argb(f, Pixel(f, c))[channel])
  BY DEF Keeps
<1>1. CASE f = "0RGB1555"
  <2>1. Levels[f] = [r |-> 31, g |-> 31, b |-> 31]
    BY <1>1 DEF Levels
  <2>2. c \in [r : 0 .. 31, g : 0 .. 31, b : 0 .. 31]
    BY <2>1, SampledInside DEF Colours
  <2>3. PICK r \in 0 .. 31, g \in 0 .. 31, b \in 0 .. 31 : c = [r |-> r, g |-> g, b |-> b]
    BY <2>2
  <2>4. to_argb(f, Pixel(f, c)) = [r |-> r * 8 + r \div 4, g |-> g * 8 + g \div 4, b |-> b * 8 + b \div 4]
    BY <1>1, <2>3, Bytes555
  <2> QED
    BY <2>1, <2>3, <2>4, FiveClose
<1>2. CASE f = "RGB565"
  <2>1. Levels[f] = [r |-> 31, g |-> 63, b |-> 31]
    BY <1>2 DEF Levels
  <2>2. c \in [r : 0 .. 31, g : 0 .. 63, b : 0 .. 31]
    BY <2>1, SampledInside DEF Colours
  <2>3. PICK r \in 0 .. 31, g \in 0 .. 63, b \in 0 .. 31 : c = [r |-> r, g |-> g, b |-> b]
    BY <2>2
  <2>4. to_argb(f, Pixel(f, c)) = [r |-> r * 8 + r \div 4, g |-> g * 4 + g \div 16, b |-> b * 8 + b \div 4]
    BY <1>2, <2>3, Bytes565
  <2> QED
    BY <2>1, <2>3, <2>4, FiveClose, SixClose
<1>3. CASE f = "XRGB8888"
  <2>1. Levels[f] = [r |-> 255, g |-> 255, b |-> 255]
    BY <1>3 DEF Levels
  <2>2. c \in [r : 0 .. 255, g : 0 .. 255, b : 0 .. 255]
    BY <2>1, SampledInside DEF Colours
  <2>3. PICK r \in 0 .. 255, g \in 0 .. 255, b \in 0 .. 255 : c = [r |-> r, g |-> g, b |-> b]
    BY <2>2
  <2>4. to_argb(f, Pixel(f, c)) = [r |-> r, g |-> g, b |-> b]
    BY <1>3, <2>3, Bytes888
  <2> QED
    BY <2>1, <2>3, <2>4, ByteClose
<1> QED
  BY <1>1, <1>2, <1>3 DEF PixelFormats

(* A colour reaches the host as the core drew it, to within one level of a *)
(* byte, in whichever format it last was told true for.                    *)
THEOREM ColoursAreKept == FrontendSpec => []ColoursKept
<1>1. Init => FormatInv
  BY DEF Init, FormatInv, PixelFormats
<1>2. FormatInv => ColoursKept
  BY KeepsOwn DEF FormatInv, ColoursKept
<1> QED
  BY <1>1, <1>2, FormatNext, FrontendIsEnvironment, PTL DEF Spec

-----------------------------------------------------------------------------
(* The pad and the pointer. *)

LEMMA Products ==
  \A q, w \in Int : w >= 1 =>
    /\ q <= -1 => q * w <= -w
    /\ q >= 65535 => q * w >= 65535 * w
OBVIOUS

(* An answer that an int16_t has is left as it is.                         *)
LEMMA Int16Answer ==
  ASSUME NEW q \in Int, q >= 0, q <= 65534
  PROVE  Pad!Int16(q - 32767) = q - 32767
BY DEF Pad!Int16

(* What TouchedPixel says of one column of one width.                      *)
Lands(x, w) ==
  LET answer  == Pad!pointer_x(x, w)
      place   == (answer + Pad!PointerEdge) * w
      nearest == (place + Pad!PointerEdge) \div (2 * Pad!PointerEdge + 1)
  IN  /\ answer \in (-Pad!PointerEdge) .. Pad!PointerEdge
      /\ w <= Pad!PointerEdge + 1 => nearest = x

(* A column's place on the picture, and the way back to it: of the column  *)
(* times 0xFFFF a division by the width loses less than the width, which   *)
(* is less than half of 0xFFFF where the nearest column is to be found.    *)
LEMMA ColumnLands ==
  ASSUME NEW w \in Nat \ {0}, w <= 32769, NEW x \in Nat, x < w
  PROVE  Lands(x, w)
<1> DEFINE q == (x * 65535) \div w
           r == (x * 65535) % w
           z == q * w
<1>1. q \in Int /\ r \in Int /\ z \in Int
  OBVIOUS
<1>2. r >= 0 /\ r < w
  OBVIOUS
<1>3. x * 65535 = z + r
  OBVIOUS
<1>4. Pad!pointer_x(x, w) = Pad!Int16(q - 32767)
  BY DEF Pad!pointer_x
<1> HIDE DEF q, r
<1>5. (q <= -1 => z <= -w) /\ (q >= 65535 => z >= 65535 * w)
  BY <1>1, Products
<1>6. z = q * w
  OBVIOUS
<1> HIDE DEF z
<1>7. q >= 0 /\ q <= 65534
  <2>1. q >= 0
    BY <1>1, <1>2, <1>3, <1>5
  <2>2. q <= 65534
    BY <1>1, <1>2, <1>3, <1>5
  <2> QED
    BY <2>1, <2>2
<1>8. ASSUME w <= 32768
      PROVE  (z + 32767) \div 65535 = x
  <2>1. z + 32767 >= x * 65535 /\ z + 32767 <= x * 65535 + 32767
    BY <1>1, <1>2, <1>3, <1>8
  <2>2. PICK over \in Nat : over = z + 32767 - x * 65535
    BY <1>1, <2>1
  <2>3. z + 32767 = x * 65535 + over /\ over <= 32767
    BY <1>1, <2>1, <2>2
  <2> QED
    BY <2>3
<1>9. Pad!pointer_x(x, w) = q - 32767
  BY <1>1, <1>4, <1>7, Int16Answer
<1> DEFINE answer == Pad!pointer_x(x, w)
<1> HIDE DEF answer
<1>10. answer \in Int /\ answer >= -32767 /\ answer <= 32767 /\ answer + 32767 = q
  BY <1>1, <1>7, <1>9 DEF answer
<1>11. answer \in (-Pad!PointerEdge) .. Pad!PointerEdge
  <2>1. Pad!PointerEdge = 32767 /\ -Pad!PointerEdge = -32767
    BY DEF Pad!PointerEdge
  <2>2. -Pad!PointerEdge \in Int /\ Pad!PointerEdge \in Int
    BY DEF Pad!PointerEdge
  <2>3. -Pad!PointerEdge <= answer /\ answer <= Pad!PointerEdge
    BY <1>10, <2>1
  <2> QED
    BY <1>10, <2>2, <2>3
<1>12. ((answer + Pad!PointerEdge) * w + Pad!PointerEdge) \div (2 * Pad!PointerEdge + 1)
         = (z + 32767) \div 65535
  <2>1. 2 * Pad!PointerEdge + 1 = 65535 /\ Pad!PointerEdge = 32767
    BY DEF Pad!PointerEdge
  <2>2. answer + Pad!PointerEdge = q
    BY <1>10 DEF Pad!PointerEdge
  <2> QED
    BY <1>6, <2>1, <2>2
<1>13. w <= Pad!PointerEdge + 1 => w <= 32768
  BY DEF Pad!PointerEdge
<1> QED
  BY <1>8, <1>11, <1>12, <1>13 DEF Lands, answer

(* The steps that are the host's; no other touches its variables.          *)
LEMMA HostStep ==
  [FrontendNext]_frontendVars => Launch \/ Destroy \/ Play \/ UNCHANGED hostVars
BY DEF FrontendNext, frontendVars

(* Where the pointer is, and how wide the picture.                         *)
PlaceInv == g_pointer_x \in Nat /\ g_frame_width \in {0} \union Widths

LEMMA PlaceNext == PlaceInv /\ [FrontendNext]_frontendVars => PlaceInv'
<1> SUFFICES ASSUME PlaceInv, [FrontendNext]_frontendVars PROVE PlaceInv'
  OBVIOUS
<1>1. CASE Launch
  BY <1>1 DEF PlaceInv, Launch, Pad!onCreate, Pad!placeVars
<1>2. CASE Destroy
  BY <1>2 DEF PlaceInv, Destroy, Pad!onDestroy, Pad!placeVars
<1>3. CASE Play
  <2>1. ASSUME NEW action \in HostActions, Pad!onControllerEvent(action)
        PROVE  PlaceInv'
    BY <2>1 DEF PlaceInv, Pad!onControllerEvent, Pad!placeVars
  <2>2. ASSUME NEW x \in Columns, Pad!onPointer(x)
        PROVE  PlaceInv'
    <3>1. x \in Nat
      BY FrontendAssumption
    <3> QED
      BY <2>2, <3>1 DEF PlaceInv, Pad!onPointer
  <2>3. ASSUME Draw
        PROVE  PlaceInv'
    BY <2>3 DEF PlaceInv, Draw, Pad!first_picture
  <2> QED
    BY <1>3, <2>1, <2>2, <2>3 DEF Play
<1>4. CASE UNCHANGED hostVars
  BY <1>4 DEF PlaceInv, hostVars
<1> QED
  BY <1>1, <1>2, <1>3, <1>4, HostStep

(* A touch is answered as a place on the picture, at every column and      *)
(* width FrontendAssumption allows, and up to 32768 columns the one        *)
(* touched is the nearest to that place.                                   *)
THEOREM TouchesLand == FrontendSpec => []TouchedPixel
<1>1. FrontendInit => PlaceInv
  BY DEF FrontendInit, Pad!Init, PlaceInv
<1>2. PlaceInv => TouchedPixel
  <2> SUFFICES ASSUME PlaceInv, g_pointer_x < g_frame_width
               PROVE  LET answer == Pad!input_state(0, Pad!POINTER, 0, Pad!PointerId.X)
                          place == (answer + Pad!PointerEdge) * g_frame_width
                          nearest == (place + Pad!PointerEdge) \div (2 * Pad!PointerEdge + 1)
                      IN  /\ answer \in (-Pad!PointerEdge) .. Pad!PointerEdge
                          /\ g_frame_width <= Pad!PointerEdge + 1 => nearest = g_pointer_x
    BY DEF TouchedPixel, Pad!TouchedPixel
  <2>1. g_pointer_x \in Nat /\ g_frame_width > 0
    BY FrontendAssumption DEF PlaceInv
  <2>2. g_frame_width \in Widths
    BY <2>1 DEF PlaceInv
  <2>3. g_frame_width \in Nat \ {0} /\ g_frame_width <= 32769
    BY <2>2, FrontendAssumption
  <2>4. Lands(g_pointer_x, g_frame_width)
    BY <2>1, <2>3, ColumnLands
  <2>5. Pad!input_state(0, Pad!POINTER, 0, Pad!PointerId.X)
          = Pad!pointer_x(g_pointer_x, g_frame_width)
    BY <2>1 DEF Pad!input_state, Pad!POINTER, Pad!JOYPAD, Pad!MOUSE, Pad!PointerId
  <2> QED
    BY <2>4, <2>5, Zenon DEF Lands
<1> QED
  BY <1>1, <1>2, PlaceNext, PTL DEF FrontendSpec

(* The bits that are set have each an action that the plugin took and the  *)
(* host still holds; before onCreate there are none.                       *)
BitsInv ==
  /\ core \in {"none", "live", "stopped"}
  /\ g_joypad \subseteq 0 .. 15
  /\ core = "none" => g_joypad = {} /\ held \subseteq missed
  /\ core = "live" =>
       \A id \in g_joypad : \E a \in held \ missed : Pad!joypadButton(a) = id

(* And, where no two of the host's actions press one button, every such    *)
(* action has its bit.                                                     *)
OneActionEach ==
  \A a, b \in HostActions :
    Pad!joypadButton(a) = Pad!joypadButton(b) => a = b \/ Pad!joypadButton(a) = Pad!None

PressedInv ==
  /\ held \subseteq HostActions
  /\ core = "live" => \A a \in held \ missed : Pad!joypadButton(a) \in g_joypad

LEMMA BitsNext == BitsInv /\ [FrontendNext]_frontendVars => BitsInv'
<1> SUFFICES ASSUME BitsInv, [FrontendNext]_frontendVars PROVE BitsInv'
  OBVIOUS
<1> USE DEF BitsInv, Pad!placeVars, Pad!padVars
<1>1. CASE Launch
  BY <1>1 DEF Launch, Pad!onCreate
<1>2. CASE Destroy
  BY <1>2 DEF Destroy, Pad!onDestroy
<1>3. CASE Play
  <2>1. ASSUME NEW action \in HostActions, Pad!onControllerEvent(action), Pad!Taken(action)
        PROVE  BitsInv'
    <3> DEFINE id == Pad!joypadButton(action)
    <3>1. core = "live" /\ core' = "live" /\ id \in 0 .. 15
      BY <2>1 DEF Pad!onControllerEvent, Pad!Taken, Pad!native_joypad
    <3>2. CASE action \notin held
      <4>1. held' = held \union {action} /\ missed' = missed \ {action} /\ g_joypad' = g_joypad \union {id}
        BY <2>1, <3>2 DEF Pad!onControllerEvent, Pad!native_joypad
      <4> HIDE DEF id
      <4> QED
        BY <3>1, <4>1 DEF id
    <3>3. CASE action \in held
      <4>1. held' = held \ {action} /\ missed' = missed \ {action} /\ g_joypad' = g_joypad \ {id}
        BY <2>1, <3>3 DEF Pad!onControllerEvent, Pad!native_joypad
      <4> QED
        BY <3>1, <4>1
    <3> QED
      BY <3>2, <3>3
  <2>2. ASSUME NEW action \in HostActions, Pad!onControllerEvent(action), ~Pad!Taken(action)
        PROVE  BitsInv'
    <3>1. g_joypad' = g_joypad /\ core' = core
      BY <2>2 DEF Pad!onControllerEvent
    <3>2. core = "live" => Pad!joypadButton(action) \notin 0 .. 15
      BY <2>2 DEF Pad!Taken, Pad!None
    <3>3. CASE action \notin held
      <4>1. held' = held \union {action} /\ missed' = missed \union {action}
        BY <2>2, <3>3 DEF Pad!onControllerEvent
      <4> QED
        BY <3>1, <3>3, <4>1
    <3>4. CASE action \in held
      <4>1. held' = held \ {action} /\ missed' = missed \ {action}
        BY <2>2, <3>4 DEF Pad!onControllerEvent
      <4> QED
        BY <3>1, <3>2, <4>1
    <3> QED
      BY <3>3, <3>4
  <2>3. ASSUME NEW x \in Columns, Pad!onPointer(x)
        PROVE  BitsInv'
    BY <2>3 DEF Pad!onPointer
  <2>4. ASSUME Draw
        PROVE  BitsInv'
    BY <2>4 DEF Draw, Pad!first_picture
  <2> QED
    BY <1>3, <2>1, <2>2, <2>3, <2>4 DEF Play
<1>4. CASE UNCHANGED hostVars
  BY <1>4 DEF hostVars
<1> QED
  BY <1>1, <1>2, <1>3, <1>4, HostStep

LEMMA PressedNext ==
  OneActionEach /\ BitsInv /\ PressedInv /\ [FrontendNext]_frontendVars => PressedInv'
<1> SUFFICES ASSUME OneActionEach, BitsInv, PressedInv, [FrontendNext]_frontendVars
             PROVE  PressedInv'
  OBVIOUS
<1> USE DEF BitsInv, PressedInv, Pad!placeVars, Pad!padVars
<1>1. CASE Launch
  BY <1>1 DEF Launch, Pad!onCreate
<1>2. CASE Destroy
  BY <1>2 DEF Destroy, Pad!onDestroy
<1>3. CASE Play
  <2>1. ASSUME NEW action \in HostActions, Pad!onControllerEvent(action), Pad!Taken(action)
        PROVE  PressedInv'
    <3> DEFINE id == Pad!joypadButton(action)
    <3>1. core = "live" /\ core' = "live" /\ id # Pad!None
      BY <2>1 DEF Pad!onControllerEvent, Pad!Taken
    <3>2. CASE action \notin held
      <4>1. held' = held \union {action} /\ missed' = missed \ {action} /\ g_joypad' = g_joypad \union {id}
        BY <2>1, <3>2 DEF Pad!onControllerEvent, Pad!native_joypad
      <4> QED
        BY <3>1, <4>1
    <3>3. CASE action \in held
      <4>1. held' = held \ {action} /\ missed' = missed \ {action} /\ g_joypad' = g_joypad \ {id}
        BY <2>1, <3>3 DEF Pad!onControllerEvent, Pad!native_joypad
      <4>2. \A a \in held' \ missed' : a # action /\ a \in held \ missed
        BY <4>1
      <4>3. \A a \in held' \ missed' : Pad!joypadButton(a) # id
        BY <3>1, <4>2 DEF OneActionEach
      <4> QED
        BY <3>1, <4>1, <4>2, <4>3
    <3> QED
      BY <3>2, <3>3
  <2>2. ASSUME NEW action \in HostActions, Pad!onControllerEvent(action), ~Pad!Taken(action)
        PROVE  PressedInv'
    <3>1. g_joypad' = g_joypad /\ core' = core
      BY <2>2 DEF Pad!onControllerEvent
    <3>2. CASE action \notin held
      <4>1. held' = held \union {action} /\ missed' = missed \union {action}
        BY <2>2, <3>2 DEF Pad!onControllerEvent
      <4> QED
        BY <3>1, <3>2, <4>1
    <3>3. CASE action \in held
      <4>1. held' = held \ {action} /\ missed' = missed \ {action}
        BY <2>2, <3>3 DEF Pad!onControllerEvent
      <4> QED
        BY <3>1, <4>1
    <3> QED
      BY <3>2, <3>3
  <2>3. ASSUME NEW x \in Columns, Pad!onPointer(x)
        PROVE  PressedInv'
    BY <2>3 DEF Pad!onPointer
  <2>4. ASSUME Draw
        PROVE  PressedInv'
    BY <2>4 DEF Draw, Pad!first_picture
  <2> QED
    BY <1>3, <2>1, <2>2, <2>3, <2>4 DEF Play
<1>4. CASE UNCHANGED hostVars
  BY <1>4 DEF hostVars
<1> QED
  BY <1>1, <1>2, <1>3, <1>4, HostStep

LEMMA ButtonIds == \A b \in DOMAIN Pad!JoypadId : Pad!JoypadId[b] \in 0 .. 15
BY DEF Pad!JoypadId

(* The mask has the sixteen bits in their places, the last as its sign.    *)
LEMMA MaskBits ==
  \A k \in 0 .. 15 : (Pad!Int16(Pad!Word) \div 2 ^ k) % 2 = Pad!Bit(k)
<1> DEFINE mask == Pad!Int16(Pad!Word)
<1>1. \A k : Pad!Bit(k) \in 0 .. 1
  BY DEF Pad!Bit
<1>2. PICK h15 \in Int : h15 = -Pad!Bit(15)
  BY <1>1
<1>3. PICK h14 \in Int : h14 = Pad!Bit(14) + 2 * h15
  BY <1>1
<1>4. PICK h13 \in Int : h13 = Pad!Bit(13) + 2 * h14
  BY <1>1
<1>5. PICK h12 \in Int : h12 = Pad!Bit(12) + 2 * h13
  BY <1>1
<1>6. PICK h11 \in Int : h11 = Pad!Bit(11) + 2 * h12
  BY <1>1
<1>7. PICK h10 \in Int : h10 = Pad!Bit(10) + 2 * h11
  BY <1>1
<1>8. PICK h9 \in Int : h9 = Pad!Bit(9) + 2 * h10
  BY <1>1
<1>9. PICK h8 \in Int : h8 = Pad!Bit(8) + 2 * h9
  BY <1>1
<1>10. PICK h7 \in Int : h7 = Pad!Bit(7) + 2 * h8
  BY <1>1
<1>11. PICK h6 \in Int : h6 = Pad!Bit(6) + 2 * h7
  BY <1>1
<1>12. PICK h5 \in Int : h5 = Pad!Bit(5) + 2 * h6
  BY <1>1
<1>13. PICK h4 \in Int : h4 = Pad!Bit(4) + 2 * h5
  BY <1>1
<1>14. PICK h3 \in Int : h3 = Pad!Bit(3) + 2 * h4
  BY <1>1
<1>15. PICK h2 \in Int : h2 = Pad!Bit(2) + 2 * h3
  BY <1>1
<1>16. PICK h1 \in Int : h1 = Pad!Bit(1) + 2 * h2
  BY <1>1
<1>17. PICK h0 \in Int : h0 = Pad!Bit(0) + 2 * h1
  BY <1>1
<1>18. mask = h0
  <2>1. PICK n0 \in 0 .. 15 : n0 = Pad!Nibble(0) /\ n0 = h0 - 16 * h4
    BY <1>1, <1>14, <1>15, <1>16, <1>17 DEF Pad!Nibble
  <2>2. PICK n1 \in 0 .. 15 : n1 = Pad!Nibble(1) /\ n1 = h4 - 16 * h8
    BY <1>1, <1>10, <1>11, <1>12, <1>13 DEF Pad!Nibble
  <2>3. PICK n2 \in 0 .. 15 : n2 = Pad!Nibble(2) /\ n2 = h8 - 16 * h12
    BY <1>1, <1>6, <1>7, <1>8, <1>9 DEF Pad!Nibble
  <2>4. PICK n3 \in 0 .. 15 : n3 = Pad!Nibble(3) /\ n3 = h12 + 16 * Pad!Bit(15)
    <3>1. PICK n \in Int : n = Pad!Bit(12) + 2 * Pad!Bit(13) + 4 * Pad!Bit(14) + 8 * Pad!Bit(15)
      BY <1>1
    <3>2. n \in 0 .. 15
      BY <1>1, <3>1
    <3>3. n = h12 + 16 * Pad!Bit(15)
      <4>1. h14 = Pad!Bit(14) - 2 * Pad!Bit(15)
        BY <1>1, <1>2, <1>3
      <4>2. h13 = (Pad!Bit(13) + 2 * Pad!Bit(14)) - 4 * Pad!Bit(15)
        BY <1>1, <1>4, <4>1
      <4>3. h12 = (Pad!Bit(12) + 2 * Pad!Bit(13) + 4 * Pad!Bit(14)) - 8 * Pad!Bit(15)
        BY <1>1, <1>5, <4>2
      <4> QED
        BY <1>1, <3>1, <4>3
    <3>4. n = Pad!Nibble(3)
      BY <3>1 DEF Pad!Nibble
    <3> QED
      BY <3>2, <3>3, <3>4
  <2>5. PICK sign \in 0 .. 1 : sign = Pad!Bit(15)
    BY <1>1
  <2>6. sign = 1 => n3 >= 8
    BY <1>1, <2>4, <2>5 DEF Pad!Nibble
  <2>7. sign = 0 => n3 < 8
    BY <1>1, <2>4, <2>5 DEF Pad!Nibble
  <2>8. PICK word \in Int : word = n0 + 16 * n1 + 256 * n2 + 4096 * n3
    OBVIOUS
  <2>9. word = Pad!Word
    <3>1. n0 = Pad!Nibble(0) /\ n1 = Pad!Nibble(1) /\ n2 = Pad!Nibble(2) /\ n3 = Pad!Nibble(3)
      BY <2>1, <2>2, <2>3, <2>4
    <3> QED
      BY <2>8, <3>1 DEF Pad!Word
  <2>10. Pad!Int16(word) = word - 65536 * sign
    BY <2>6, <2>7, <2>8 DEF Pad!Int16
  <2>11. word - 65536 * sign = h0
    BY <2>1, <2>2, <2>3, <2>4, <2>5, <2>8
  <2> QED
    BY <2>9, <2>10, <2>11
<1> HIDE DEF mask
<1>19. mask \div 2 ^ 0 = h0
  BY <1>18
<1>20. (mask \div 2 ^ 0) % 2 = Pad!Bit(0) /\ mask \div 2 ^ 1 = h1
  BY <1>1, <1>18, <1>17, <1>19
<1>21. (mask \div 2 ^ 1) % 2 = Pad!Bit(1) /\ mask \div 2 ^ 2 = h2
  BY <1>1, <1>18, <1>16, <1>20
<1>22. (mask \div 2 ^ 2) % 2 = Pad!Bit(2) /\ mask \div 2 ^ 3 = h3
  BY <1>1, <1>18, <1>15, <1>21
<1>23. (mask \div 2 ^ 3) % 2 = Pad!Bit(3) /\ mask \div 2 ^ 4 = h4
  BY <1>1, <1>18, <1>14, <1>22
<1>24. (mask \div 2 ^ 4) % 2 = Pad!Bit(4) /\ mask \div 2 ^ 5 = h5
  BY <1>1, <1>18, <1>13, <1>23
<1>25. (mask \div 2 ^ 5) % 2 = Pad!Bit(5) /\ mask \div 2 ^ 6 = h6
  BY <1>1, <1>18, <1>12, <1>24
<1>26. (mask \div 2 ^ 6) % 2 = Pad!Bit(6) /\ mask \div 2 ^ 7 = h7
  BY <1>1, <1>18, <1>11, <1>25
<1>27. (mask \div 2 ^ 7) % 2 = Pad!Bit(7) /\ mask \div 2 ^ 8 = h8
  BY <1>1, <1>18, <1>10, <1>26
<1>28. (mask \div 2 ^ 8) % 2 = Pad!Bit(8) /\ mask \div 2 ^ 9 = h9
  BY <1>1, <1>18, <1>9, <1>27
<1>29. (mask \div 2 ^ 9) % 2 = Pad!Bit(9) /\ mask \div 2 ^ 10 = h10
  BY <1>1, <1>18, <1>8, <1>28
<1>30. (mask \div 2 ^ 10) % 2 = Pad!Bit(10) /\ mask \div 2 ^ 11 = h11
  BY <1>1, <1>18, <1>7, <1>29
<1>31. (mask \div 2 ^ 11) % 2 = Pad!Bit(11) /\ mask \div 2 ^ 12 = h12
  BY <1>1, <1>18, <1>6, <1>30
<1>32. (mask \div 2 ^ 12) % 2 = Pad!Bit(12) /\ mask \div 2 ^ 13 = h13
  BY <1>1, <1>18, <1>5, <1>31
<1>33. (mask \div 2 ^ 13) % 2 = Pad!Bit(13) /\ mask \div 2 ^ 14 = h14
  BY <1>1, <1>18, <1>4, <1>32
<1>34. (mask \div 2 ^ 14) % 2 = Pad!Bit(14) /\ mask \div 2 ^ 15 = h15
  BY <1>1, <1>18, <1>3, <1>33
<1>35. (mask \div 2 ^ 15) % 2 = Pad!Bit(15)
  BY <1>1, <1>2, <1>34
<1>36. SUFFICES ASSUME NEW k \in 0 .. 15 PROVE (mask \div 2 ^ k) % 2 = Pad!Bit(k)
  BY DEF mask
<1>37. \/ k = 0 \/ k = 1 \/ k = 2 \/ k = 3 \/ k = 4 \/ k = 5 \/ k = 6 \/ k = 7
       \/ k = 8 \/ k = 9 \/ k = 10 \/ k = 11 \/ k = 12 \/ k = 13 \/ k = 14 \/ k = 15
  OBVIOUS
<1> QED
  BY <1>20, <1>21, <1>22, <1>23, <1>24, <1>25, <1>26, <1>27, <1>28, <1>29,
     <1>30, <1>31, <1>32, <1>33, <1>34, <1>35, <1>37

(* Asked by its id or for all at once, a button is down when its bit is    *)
(* set.                                                                    *)
LEMMA AskedById ==
  \A b \in DOMAIN Pad!JoypadId : Pad!ById(b) <=> Pad!JoypadId[b] \in g_joypad
<1> SUFFICES ASSUME NEW b \in DOMAIN Pad!JoypadId
             PROVE  Pad!ById(b) <=> Pad!JoypadId[b] \in g_joypad
  OBVIOUS
<1> DEFINE id == Pad!JoypadId[b]
<1>1. id \in 0 .. 15
  BY ButtonIds
<1>2. Pad!input_state(0, Pad!JOYPAD, 0, id) = Pad!joypad_state(id)
  BY DEF Pad!input_state, Pad!JOYPAD, Pad!MOUSE, Pad!POINTER
<1>3. id # Pad!JoypadMask /\ id < 16
  BY <1>1 DEF Pad!JoypadMask
<1>4. Pad!joypad_state(id) = Pad!Bit(id)
  BY <1>3 DEF Pad!joypad_state
<1> QED
  BY <1>2, <1>4 DEF Pad!ById, Pad!Bit

LEMMA AskedByMask ==
  \A b \in DOMAIN Pad!JoypadId : Pad!ByMask(b) <=> Pad!JoypadId[b] \in g_joypad
<1> SUFFICES ASSUME NEW b \in DOMAIN Pad!JoypadId
             PROVE  Pad!ByMask(b) <=> Pad!JoypadId[b] \in g_joypad
  OBVIOUS
<1>1. PICK k \in 0 .. 15 : k = Pad!JoypadId[b]
  BY ButtonIds
<1>2. Pad!input_state(0, Pad!JOYPAD, 0, Pad!JoypadMask) = Pad!Int16(Pad!Word)
  BY DEF Pad!input_state, Pad!joypad_state, Pad!JOYPAD, Pad!MOUSE, Pad!POINTER
<1>3. (Pad!Int16(Pad!Word) \div 2 ^ k) % 2 = Pad!Bit(k)
  BY MaskBits
<1>4. Pad!ByMask(b) <=> Pad!Bit(k) = 1
  BY <1>1, <1>2, <1>3 DEF Pad!ByMask
<1> QED
  BY <1>1, <1>4 DEF Pad!Bit

(* No button stays down behind the host's back: while there is a core, a   *)
(* button it learns of as down, by its id or by the mask of all, is that of*)
(* an action the host holds.                                               *)
THEOREM NoButtonSticks == FrontendSpec => []NoStuckButton
<1>1. FrontendInit => BitsInv
  BY DEF FrontendInit, Pad!Init, BitsInv
<1>2. BitsInv => NoStuckButton
  BY AskedById, AskedByMask DEF BitsInv, Pad!Holds, Pad!NoStuckButton, NoStuckButton
<1> QED
  BY <1>1, <1>2, BitsNext, PTL DEF FrontendSpec

(* Where no two actions share a button, the button of an action the plugin *)
(* took is down for the core, whichever way it asks, for as long as the    *)
(* action is held.  With a shared button it is not: see shared_controls.   *)
THEOREM HeldStaysPressed ==
  ASSUME OneActionEach
  PROVE  FrontendSpec => []HeldIsPressed
<1>1. FrontendInit => BitsInv /\ PressedInv
  BY DEF FrontendInit, Pad!Init, BitsInv, PressedInv
<1>2. PressedInv => HeldIsPressed
  BY AskedById, AskedByMask DEF PressedInv, Pad!Holds, Pad!HeldIsPressed, HeldIsPressed
<1>3. BitsInv /\ PressedInv /\ [FrontendNext]_frontendVars => (BitsInv /\ PressedInv)'
  BY OneActionEach, BitsNext, PressedNext
<1> QED
  BY <1>1, <1>2, <1>3, PTL DEF FrontendSpec
-----------------------------------------------------------------------------
(* The numbers of the commands, and the case each selects.                 *)

(* What the switch sees of a command of this part of the header's table.   *)
Seen(table, command) == table[command].n % EXPERIMENTAL

(* No two commands of the part are one to the switch, if the second has a  *)
(* case; and all of them lie between two numbers.                          *)
PartApart(table, low, high) ==
  /\ \A c \in DOMAIN table : table[c].n \in Nat /\ low <= Seen(table, c) /\ Seen(table, c) <= high
  /\ \A c, k \in DOMAIN table :
       k \in Handled /\ Seen(table, c) = Seen(table, k) => c = k

(* It holds of each part, by its entries.                                  *)
LEMMA Part1To13 == PartApart(Commands1To13, 1, 13)
  BY DEF PartApart, Seen, Commands1To13, Command, Experiment, EXPERIMENTAL,
     Handled, Acknowledged

LEMMA Part14To22 == PartApart(Commands14To22, 14, 22)
  BY DEF PartApart, Seen, Commands14To22, Command, Experiment, EXPERIMENTAL,
     Handled, Acknowledged

LEMMA Part23To31 == PartApart(Commands23To31, 23, 31)
  BY DEF PartApart, Seen, Commands23To31, Command, Experiment, EXPERIMENTAL,
     Handled, Acknowledged

LEMMA Part32To36 == PartApart(Commands32To36, 32, 36)
  BY DEF PartApart, Seen, Commands32To36, Command, Experiment, EXPERIMENTAL,
     Handled, Acknowledged

LEMMA Part37To44 == PartApart(Commands37To44, 37, 44)
  BY DEF PartApart, Seen, Commands37To44, Command, Experiment, EXPERIMENTAL,
     Handled, Acknowledged

LEMMA Part45To51 == PartApart(Commands45To51, 45, 51)
  BY DEF PartApart, Seen, Commands45To51, Command, Experiment, EXPERIMENTAL,
     Handled, Acknowledged

LEMMA Part52To54 == PartApart(Commands52To54, 52, 54)
  BY DEF PartApart, Seen, Commands52To54, Command, Experiment, EXPERIMENTAL,
     Handled, Acknowledged

LEMMA Part55To62 == PartApart(Commands55To62, 55, 62)
  BY DEF PartApart, Seen, Commands55To62, Command, Experiment, EXPERIMENTAL,
     Handled, Acknowledged

LEMMA Part63To66 == PartApart(Commands63To66, 63, 66)
  BY DEF PartApart, Seen, Commands63To66, Command, Experiment, EXPERIMENTAL,
     Handled, Acknowledged

LEMMA Part67 == PartApart(Commands67, 67, 67)
  BY DEF PartApart, Seen, Commands67, Command, Experiment, EXPERIMENTAL,
     Handled, Acknowledged

LEMMA Part68To70 == PartApart(Commands68To70, 68, 70)
  BY DEF PartApart, Seen, Commands68To70, Command, Experiment, EXPERIMENTAL,
     Handled, Acknowledged

LEMMA Part71To77 == PartApart(Commands71To77, 71, 77)
  BY DEF PartApart, Seen, Commands71To77, Command, Experiment, EXPERIMENTAL,
     Handled, Acknowledged

(* Where in the header's table what the switch sees of a command lies.     *)
Place(table, m) ==
  \/ table = Commands1To13 /\ 1 <= m /\ m <= 13
  \/ table = Commands14To22 /\ 14 <= m /\ m <= 22
  \/ table = Commands23To31 /\ 23 <= m /\ m <= 31
  \/ table = Commands32To36 /\ 32 <= m /\ m <= 36
  \/ table = Commands37To44 /\ 37 <= m /\ m <= 44
  \/ table = Commands45To51 /\ 45 <= m /\ m <= 51
  \/ table = Commands52To54 /\ 52 <= m /\ m <= 54
  \/ table = Commands55To62 /\ 55 <= m /\ m <= 62
  \/ table = Commands63To66 /\ 63 <= m /\ m <= 66
  \/ table = Commands67 /\ 67 <= m /\ m <= 67
  \/ table = Commands68To70 /\ 68 <= m /\ m <= 70
  \/ table = Commands71To77 /\ 71 <= m /\ m <= 77

(* So it holds of every part, with the place the part is at.               *)
LEMMA TableApart ==
  ASSUME NEW table \in Tables
  PROVE  /\ \A c \in DOMAIN table : table[c].n \in Nat /\ Place(table, Seen(table, c))
         /\ \A c, k \in DOMAIN table :
              k \in Handled /\ Seen(table, c) = Seen(table, k) => c = k
  BY Part1To13, Part14To22, Part23To31, Part32To36, Part37To44, Part45To51,
     Part52To54, Part55To62, Part63To66, Part67, Part68To70, Part71To77
     DEF Tables, PartApart, Place

(* Every command is in a part of the table.                                *)
LEMMA TableOf ==
  ASSUME NEW c \in DOMAIN Commands
  PROVE  \E table \in Tables : c \in DOMAIN table /\ Commands[c] = table[c]
<1>1. \E table \in Tables : c \in DOMAIN table
  BY DEF Commands
<1>2. Commands[c] = (CHOOSE table \in Tables : c \in DOMAIN table)[c]
  BY DEF Commands
<1>3. PICK table : table = (CHOOSE t \in Tables : c \in DOMAIN t)
  OBVIOUS
<1>4. table \in Tables /\ c \in DOMAIN table
  BY <1>1, <1>3
<1> QED
  BY <1>2, <1>3, <1>4

(* The parts of the table do not overlap in what the switch sees.          *)
LEMMA PlacesApart ==
  ASSUME NEW t, NEW u, NEW m \in Int, Place(t, m), Place(u, m)
  PROVE  t = u
  BY DEF Place

(* To the switch a command is no other command's case.                     *)
LEMMA SeenApart ==
  ASSUME NEW c \in DOMAIN Commands, NEW k \in DOMAIN Commands \intersect Handled,
         Masked(Number(c)) = Masked(Number(k))
  PROVE  c = k
<1>1. PICK t \in Tables : c \in DOMAIN t /\ Commands[c] = t[c]
  BY TableOf
<1>2. PICK u \in Tables : k \in DOMAIN u /\ Commands[k] = u[k]
  BY TableOf
<1>3. Seen(t, c) = Seen(u, k)
  BY <1>1, <1>2 DEF Seen, Masked, Number
<1>4. Place(t, Seen(t, c)) /\ Place(u, Seen(t, c)) /\ t[c].n \in Nat
  BY <1>1, <1>2, <1>3, TableApart
<1>5. PICK m \in Int : m = Seen(t, c)
  BY <1>4 DEF Seen, EXPERIMENTAL
<1>6. t = u
  BY <1>4, <1>5, PlacesApart
<1> QED
  BY <1>1, <1>2, <1>3, <1>6, TableApart

(* The cases are commands of the header.                                   *)
LEMMA CasesAreCommands == Handled \subseteq DOMAIN Commands
<1>1. Handled \subseteq UNION {DOMAIN table : table \in Tables}
  BY DEF Handled, Acknowledged, Tables, Commands1To13, Commands14To22,
     Commands23To31, Commands32To36, Commands37To44, Commands45To51,
     Commands52To54, Commands55To62, Commands63To66, Commands67,
     Commands68To70, Commands71To77
<1> QED
  BY <1>1 DEF Commands

(* A command with a case selects it and no other, one without selects none;*)
(* but for GET_AUDIO_VIDEO_ENABLE, whose case no command selects.          *)
LEMMA SelectsOwnCase ==
  ASSUME NEW command \in DOMAIN Commands
  PROVE  Selected[command] =
           IF command \in Handled \ {"GET_AUDIO_VIDEO_ENABLE"} THEN {command} ELSE {}
<1>1. Selected[command] = {case \in Handled : Label(case) = Masked(Number(command))}
  BY DEF Selected
<1>2. Masked(Number(command)) < EXPERIMENTAL /\ Masked(Number(command)) \in Nat
  <2>1. Number(command) \in Nat
    BY TableOf, TableApart DEF Number
  <2> QED
    BY <2>1 DEF Masked, EXPERIMENTAL
<1>3. Number("GET_AUDIO_VIDEO_ENABLE") = EXPERIMENTAL + 47
  <2>1. PICK t \in Tables : /\ "GET_AUDIO_VIDEO_ENABLE" \in DOMAIN t
                            /\ Commands["GET_AUDIO_VIDEO_ENABLE"] = t["GET_AUDIO_VIDEO_ENABLE"]
    BY TableOf, CasesAreCommands DEF Handled, Acknowledged
  <2>2. t = Commands45To51
    BY <2>1 DEF Tables, Commands1To13, Commands14To22, Commands23To31,
       Commands32To36, Commands37To44, Commands45To51, Commands52To54,
       Commands55To62, Commands63To66, Commands67, Commands68To70,
       Commands71To77
  <2> QED
    BY <2>1, <2>2 DEF Number, Commands45To51, Experiment, Command
<1>4. ASSUME NEW case \in Handled
      PROVE  Label(case) = Masked(Number(command))
               <=> case = command /\ case # "GET_AUDIO_VIDEO_ENABLE"
  <2>1. CASE case = "GET_AUDIO_VIDEO_ENABLE"
    BY <1>2, <1>3, <2>1 DEF Label, EXPERIMENTAL
  <2>2. CASE case # "GET_AUDIO_VIDEO_ENABLE"
    BY <2>2, SeenApart, CasesAreCommands DEF Label
  <2> QED
    BY <2>1, <2>2
<1> QED
  BY <1>1, <1>4

(* What a core sends are commands of the header.                           *)
Sends == sends \subseteq DOMAIN Commands

LEMMA SendsCommands == FrontendSpec => []Sends
<1>1. Init => Sends
  BY EnvironmentAssumption DEF Init, Sends
<1>2. Sends /\ [Next]_vars => Sends'
  <2> SUFFICES ASSUME [Next]_vars PROVE sends' = sends
    BY DEF Sends
  <2>1. CASE core_main
    BY <2>1 DEF core_main, Enter, Return, frame_begin, loop_over, pump_begin, pump_again,
       pump_end, calls_null, Goto
  <2>2. CASE native_start_options \/ native_start \/ native_stop
    BY <2>2 DEF native_start_options, native_start, native_stop
  <2>3. ASSUME NEW command \in sends, environment(command) PROVE sends' = sends
    <3>1. \/ Leaves(<<knownVars, optionVars>>)
          \/ \E case \in Selected[command] : Handle(case)
      BY <2>3 DEF environment
    <3>2. ASSUME NEW case, Handle(case) PROVE sends' = sends
      BY <3>2 DEF Leaves, Handle, acknowledge, SetPixelFormat, shutdown, set_callback,
         get_core_options_version, option_command
    <3> QED
      BY <3>1, <3>2 DEF Leaves
  <2> QED
    BY <2>1, <2>2, <2>3 DEF Next, vars
<1> QED
  BY <1>1, <1>2, FrontendIsEnvironment, PTL DEF Spec

(* No command is answered by another command's case, though numbers are    *)
(* masked before the switch and one is two commands': 44 has no case.      *)
THEOREM NoOthersCase == FrontendSpec => []OnlyOwnCase
<1>1. Sends => OnlyOwnCase
  BY SelectsOwnCase DEF OnlyOwnCase, Sends
<1> QED
  BY <1>1, SendsCommands, PTL

(* GET_AUDIO_VIDEO_ENABLE is the only case that is not reached: a core that*)
(* does not ask for it is answered by the case of each command it sends    *)
(* (the labels of environment(), with and without the experimental bit).   *)
OthersAnswer == "GET_AUDIO_VIDEO_ENABLE" \notin sends => EveryCaseAnswers

THEOREM OthersAnswered == FrontendSpec => []OthersAnswer
<1>1. Sends => OthersAnswer
  BY SelectsOwnCase DEF OthersAnswer, EveryCaseAnswers, Sends
<1> QED
  BY <1>1, SendsCommands, PTL
=============================================================================
