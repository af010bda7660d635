-------------------------------- MODULE Options --------------------------------
(***************************************************************************)
(* The core's options: the plugin's choices, which native_start records    *)
(* before the core's thread exists, the defaults the core declares in one  *)
(* of five commands, and what it is answered when it asks.  When each may  *)
(* happen is in Environment.                                               *)
(*                                                                         *)
(* A list of declarations is taken entry by entry and nothing else runs in *)
(* between, so an entry is one step.  The texts are compared and copied    *)
(* only: keys and values are model values, the empty value of a v0 text    *)
(* that ends at its `;' among them.                                        *)
(***************************************************************************)
EXTENDS Libretro

CONSTANTS
  Keys, Values,
  NULL,
  MaxDeclared   \* bound: entries the core declares in a behaviour

ASSUME OptionsAssumption == NULL \notin Keys \union Values /\ MaxDeclared \in Nat

VARIABLES
  g_options,          \* the recorded options, in order
  g_options_changed,
  chosen,             \* the plugin's options: key -> value, NULL where it has none
  pending,            \* keys of `chosen` native_start has not recorded yet
  entries,            \* entries the core has declared so far
  unrecorded,         \* history: keys there was no memory for, or for their value
  declared,           \* history: the default each key was first declared with
  unlisted,           \* history: the one named before, if not among the values
  told                \* history: what the core was answered last for each key

optionVars == <<g_options, g_options_changed, chosen, pending, entries, unrecorded,
                declared, unlisted, told>>

OptionsInit ==
  /\ g_options = <<>> /\ g_options_changed = FALSE
  /\ chosen \in [Keys -> Values \union {NULL}]
  /\ pending = {k \in Keys : chosen[k] # NULL}
  /\ entries = 0 /\ unrecorded = {}
  /\ declared = [k \in Keys |-> NULL] /\ unlisted = [k \in Keys |-> NULL]
  /\ told = [k \in Keys |-> NULL]
-----------------------------------------------------------------------------
(* find_option: the first entry with the key, 0 when there is none.        *)
find_option(key) ==
  LET found == {i \in 1 .. Len(g_options) : g_options[i].key = key}
  IN  IF found = {} THEN 0 ELSE CHOOSE i \in found : \A j \in found : i <= j

(* option_default: an entry with no value is no entry, and a key that is   *)
(* already set stays as it is.  Without memory for the entry nothing is    *)
(* recorded; without memory for the value's copy the key is, with none.    *)
option_default_Overwrites(key, value) ==
  LET at == find_option(key)
  IN  IF value = NULL THEN UNCHANGED <<g_options, unrecorded>>
      ELSE /\ g_options' = IF at = 0 THEN Append(g_options, [key |-> key, value |-> value])
                                     ELSE [g_options EXCEPT ![at].value = value]
           /\ UNCHANGED unrecorded
option_default(key, value) ==
  \/ /\ value # NULL /\ find_option(key) = 0
     /\ \/ /\ g_options' = Append(g_options, [key |-> key, value |-> value])
           /\ UNCHANGED unrecorded
        \/ /\ g_options' \in {g_options, Append(g_options, [key |-> key, value |-> NULL])}
           /\ unrecorded' = unrecorded \union {key}
  \/ /\ value = NULL \/ find_option(key) # 0
     /\ UNCHANGED <<g_options, unrecorded>>

Offer(key, value) ==
  /\ option_default(key, value)
  /\ UNCHANGED <<g_options_changed, chosen, told>>

(* native_start: the plugin's map, in whatever order its keys come.        *)
native_start_option(key) ==
  /\ key \in pending
  /\ Offer(key, chosen[key])
  /\ pending' = pending \ {key}
  /\ UNCHANGED <<entries, declared, unlisted>>

(* A declaration is offered with the value the code takes from it; default *)
(* is what libretro.h says its default is, and stray the default it names  *)
(* where that is none of its values, NULL where it is.                     *)
Declare(key, value, default, stray) ==
  /\ entries < MaxDeclared
  /\ entries' = entries + 1
  /\ Offer(key, value)
  /\ declared' = [declared EXCEPT ![key] = IF @ = NULL THEN default ELSE @]
  /\ unlisted' =
       [unlisted EXCEPT ![key] = IF @ = NULL /\ declared[key] = NULL THEN stray ELSE @]
  /\ UNCHANGED pending

(* The values an option lists: none (of a v0 text: no `;' in it), one, or  *)
(* each of two once.                                                       *)
Lists == {<<>>} \union [1 .. 1 -> Values] \union {l \in [1 .. 2 -> Values] : l[1] # l[2]}

(* The definitions a core may declare: with a default among the values, a  *)
(* default that is not, or none.                                           *)
Definitions ==
  {V1Definition(k, l, v) : k \in Keys, l \in Lists, v \in Values \union {NULL}}

Stray(d) == IF Listed(d) THEN NULL ELSE d.default_value

option_from_v0 ==
  \E key \in Keys, values \in Lists :
    LET variable == Variable(key, values)
    IN  Declare(key, FirstListed(values, NULL), V0Default(variable, NULL), NULL)

(* The default, or the first of the values where no default is named.      *)
v1_value(d) ==
  IF d.default_value = NULL THEN FirstListed(d.values, NULL) ELSE d.default_value

option_from_v1(d) == Declare(d.key, v1_value(d), V1Default(d, NULL), Stray(d))
option_from_v2(d) == Declare(d.key, v1_value(d), V2Default(d, NULL), Stray(d))

(* Of the translated forms the code reads the untranslated half only.      *)
intl_half_Local(intl) == intl.local
intl_half(intl) == intl.us
option_from_intl ==
  \E us \in Definitions, translated \in Values :
    LET intl == Translated(us, [us EXCEPT !.default_value = translated])
        half == intl_half(intl)
    IN  Declare(half.key, v1_value(half), TranslatedDefault(intl, NULL), Stray(us))

(* RETRO_ENVIRONMENT_GET_VARIABLE. *)
get_variable(key) ==
  /\ told' = [told EXCEPT ![key] =
       IF find_option(key) = 0 THEN NULL ELSE g_options[find_option(key)].value]
  /\ UNCHANGED <<g_options, g_options_changed, chosen, pending, entries, unrecorded,
                 declared, unlisted>>

(* RETRO_ENVIRONMENT_GET_VARIABLE_UPDATE: what was asked may be asked      *)
(* again where the flag is set; it is never set in this frontend.          *)
variable_update ==
  /\ told' = IF g_options_changed THEN [k \in Keys |-> NULL] ELSE told
  /\ g_options_changed' = FALSE
  /\ UNCHANGED <<g_options, chosen, pending, entries, unrecorded, declared,
                 unlisted>>
-----------------------------------------------------------------------------
(* The comment on option_default: a core's default is recorded unless the  *)
(* plugin already set the key, so the core is told the plugin's choice,    *)
(* whatever it declares and however often.                                 *)
ChoiceWins ==
  \A k \in Keys : chosen[k] # NULL /\ told[k] # NULL /\ k \notin unrecorded =>
    told[k] = chosen[k]

(* The core is told of a change before it meets one: a value it was once   *)
(* answered is what it is answered for ever, because no update is ever     *)
(* announced (GET_VARIABLE_UPDATE, g_options_changed).                     *)
NoSilentChange ==
  \A k \in Keys : told[k] # NULL =>
    find_option(k) # 0 /\ g_options[find_option(k)].value = told[k]

(* Where the plugin chose nothing the core plays with its own default, the *)
(* one of its first declaration as libretro.h defines it for each of the   *)
(* five commands, whichever it used and whatever it declares later.  In    *)
(* one case the code departs from the header: a default that is not one of *)
(* the option's values is not ignored, as the header has it ("Must match   *)
(* one of the values ..., otherwise will be ignored"), but is what the     *)
(* core is told.                                                           *)
DefaultAsDeclared ==
  \A k \in Keys \ unrecorded : chosen[k] = NULL /\ told[k] # NULL =>
    told[k] = IF unlisted[k] # NULL THEN unlisted[k] ELSE declared[k]
=============================================================================
