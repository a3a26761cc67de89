--------------------------- MODULE RestartPending ---------------------------
(***************************************************************************)
(* Which options of config.ini await a restart: the operators of           *)
(* src/nyxgpt/restart_state.py on the recorded previous values, and what   *)
(* config_wizard.py passes to them.  An option awaiting a restart has the  *)
(* text it had before the change on record, any other has Nothing.         *)
(***************************************************************************)
EXTENDS Naturals

CONSTANTS
    Keys,         \* restart-required options
    Reader,       \* the component that reads each of them, once, when it starts
    Texts,        \* what an option may be set to in config.ini
    Means,        \* the text a save writes for what a text means ("yes" is true)
    Default,      \* what an option that is absent from config.ini means
    AbsentReads   \* what _current_value takes an absent option for

Absent  == "absent"
Nothing == "nothing"

Components == {"api", "web"}

\* Every classified option has one reader, validated values are written in one
\* way, and an absent option is taken for something no save can write (-1, the
\* empty text, NaN) or for what it really means.
ASSUME PendingAssumption ==
    /\ Reader \in [Keys -> Components]
    /\ Absent \notin Texts /\ Nothing \notin Texts
    /\ Means \in [Texts -> Texts]
    /\ \A t \in Texts : Means[Means[t]] = Means[t]
    /\ Default \in [Keys -> Texts]
    /\ \A k \in Keys : Means[Default[k]] = Default[k]
    /\ AbsentReads \in [Keys -> Texts \union {Absent}]
    /\ \A k \in Keys : AbsentReads[k] \in {Absent, Default[k]}

Of(c) == {k \in Keys : Reader[k] = c}

\* What a text in config.ini means to the process that loads it.
Value(k, text) == IF text = Absent THEN Default[k] ELSE Means[text]

\* The text the wizard takes for the one the running service loaded.
Shown(k, text) == IF text = Absent THEN Default[k] ELSE text

\* What a save may ask for: for each option a validated value, or Nothing.
Updates == {new \in [Keys -> Texts \union {Nothing}] :
               \A k \in Keys : new[k] # Nothing => Means[new[k]] = new[k]}

Written(config, new) == [k \in Keys |-> IF new[k] = Nothing THEN config[k] ELSE new[k]]

\* Is v a change from what config.ini says of k?
Changes(k, text, v) == IF text = Absent THEN v # AbsentReads[k] ELSE v # Means[text]

\* restart_required_detail: the changed options, with their previous texts.
\* `nyxgpt secrets setup` passes the option it writes whether it changed or not.
Detail(config, new, always) ==
    [k \in Keys |-> IF new[k] # Nothing /\ (always \/ Changes(k, config[k], new[k]))
                    THEN Shown(k, config[k]) ELSE Nothing]

Only(c, texts) == [k \in Keys |-> IF Reader[k] = c THEN texts[k] ELSE Nothing]

\* mark_pending keeps the first previous text of an option.
\* Mutant: the last one.
MarkedAnew(previous, changes) ==
    [k \in Keys |-> IF changes[k] # Nothing THEN changes[k] ELSE previous[k]]

Marked(previous, changes) ==
    [k \in Keys |-> IF previous[k] = Nothing THEN changes[k] ELSE previous[k]]

\* reconcile_saved retires the options that are back at their previous text.
\* Mutant: it does not.
ReconciledNever(previous, saved) == previous

Reconciled(previous, saved) ==
    [k \in Keys |-> IF saved[k] = previous[k] THEN Nothing ELSE previous[k]]

\* clear_pending and clear_started
Cleared(previous, keys) ==
    [k \in Keys |-> IF k \in keys THEN Nothing ELSE previous[k]]

Awaiting(previous, c) == {k \in Of(c) : previous[k] # Nothing}

=============================================================================
