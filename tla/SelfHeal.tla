------------------------------- MODULE SelfHeal -------------------------------
(***************************************************************************)
(* The self-heal watchdog and everyone else who rewrites                   *)
(* self_heal_state.json.  A heal pass surveys the components, reads the    *)
(* operator's stop markers, takes _state_lock, reads the file, restarts    *)
(* what it must, and writes the whole file back.  The lock excludes the    *)
(* threads of one process; `nyxgpt ops stop`, `ops install` and            *)
(* `self-heal heal` run in processes of their own and only share the file. *)
(*                                                                         *)
(* A step is one thing another thread or process can see: a survey, a read *)
(* of the file, the truncation of the file by Path.write_text, its write,  *)
(* the restart of a component.                                             *)
(***************************************************************************)
EXTENDS Integers, Sequences, FiniteSets, SequencesExt

CONSTANTS
    Order,           \* the rows of a survey, in its order
    Keys, KeyOf,     \* ComponentStatus.budget_key of each row
    Core,            \* the rows `nyxgpt ops stop` and `ops install` know
    Findable,        \* what a survey may find of each row
    Healers,         \* who runs heal_now
    Commands,        \* what operators ask for
    DefaultEnabled,  \* [self_heal] enabled in config.ini
    MaxConsecutive, Backoff, Window,
    Faults,          \* what may go wrong
    MaxFaults, MaxCommands, MaxClock,   \* bounds of an instance
    Missing, Torn    \* the file when it does not exist, and when it does not parse

Rows == ToSet(Order)
None == "none"
NoCommand == [by |-> None, what |-> None, on |-> None]

\* "unknown" is known=False, "pending" is healable=False.
Conditions == {"healthy", "broken", "unknown", "pending"}

\* A write of the file fails; the API process dies.
FaultKinds == {"unwritten", "crash"}

\* The threads of the API process and, last, the processes of the CLI.
ApiJobs == {"watchdog", "dashboard", "panel", "startup"}
CliJobs == {"selfheal", "operator"}
Jobs    == ApiJobs \union CliJobs

ASSUME SelfHealAssumption ==
    /\ Order \in Seq(Rows) /\ Keys # {} /\ KeyOf \in [Rows -> Keys]
    /\ Core \subseteq Rows
    /\ Findable \in [Rows -> SUBSET Conditions \ {{}}]
    /\ Healers \subseteq {"watchdog", "dashboard", "selfheal"}
    /\ Commands \subseteq [by : {"operator"}, what : {"stop", "start"}, on : Core]
                   \union [by : {"operator", "panel"}, what : {"toggle"}, on : BOOLEAN]
    /\ DefaultEnabled \in BOOLEAN
    /\ MaxConsecutive \in Nat \ {0} /\ Backoff \in Nat \ {0} /\ Window \in Nat \ {0}
    /\ Faults \subseteq FaultKinds
    /\ MaxFaults \in Nat /\ MaxCommands \in Nat /\ MaxClock \in Nat

\* HEAL_ATTEMPT_WINDOW_MULTIPLIER
AttemptCap == 2 * MaxConsecutive

VARIABLES
    file,      \* self_heal_state.json
    lock,      \* the thread of the API process that holds _state_lock
    api,       \* the API process: "down", "starting" or "up"
    job,       \* what each thread and process is doing
    halted,    \* core components an operator has stopped and nothing has restarted
    clock,
    faults, asked,                 \* faults and commands so far
    toggled, intended, log, failed, latest,  \* what the file should remember, see below
    trouble                        \* what has come between the file and its writers

vars == <<file, lock, api, job, halted, clock, faults, asked,
          toggled, intended, log, failed, latest, trouble>>

(* Observations.  toggled: the last enable or disable, in a set, empty before the
   first.  intended: the components an operator wants stopped.  log: the time of the
   pass of each automatic heal of a key.  failed: automatic heals of a key since a
   pass saw one of its rows healthy.  latest: the time of the latest pass that has
   read the file under the lock. *)
observed == <<toggled, intended, log, failed, latest>>

-----------------------------------------------------------------------------
(* The file. *)

DefaultState ==
    [enabled |-> FALSE, stopped |-> {}, counts |-> [k \in Keys |-> 0],
     last |-> [k \in Keys |-> 0], attempts |-> [k \in Keys |-> {}]]

LoadState == IF file \in {Missing, Torn} THEN DefaultState ELSE file

\* The list of attempts of a key is only counted, filtered and appended to, so its order
\* does not matter: an attempt is its time and how many of that time came before it.
Another(attempts, now) ==
    attempts \union {<<now, Cardinality({a \in attempts : a[1] = now})>>}

\* Attempts as old as the window are forgotten.
Pruned(state, now) ==
    [state EXCEPT !.attempts =
        [k \in Keys |-> {a \in state.attempts[k] : a[1] > now - Window}]]

Idle == [at |-> "idle", state |-> DefaultState, base |-> Missing, cmd |-> NoCommand,
         now |-> 0, manual |-> FALSE, todo |-> <<>>]

At(j, at) == job[j].at = at

\* _state_lock is a threading.Lock: it only means something inside the API process.
Free(j)    == j \in ApiJobs => lock = None
Held(j)    == IF j \in ApiJobs THEN j ELSE lock
Released(j) == IF j \in ApiJobs THEN None ELSE lock
Running(j) == j \in ApiJobs => api = "up"

\* The file was read while someone else was writing it.
ReadNoted == trouble' = trouble \union (IF file = Torn THEN {"torn"} ELSE {})

-----------------------------------------------------------------------------
(* heal_now, before the lock. *)

\* A pass is about every row, or, when an operator names one, about that row.
EveryRow == [manual |-> FALSE, rows |-> Order]
OneRow   == {[manual |-> TRUE, rows |-> <<r>>] : r \in Rows}

\* What an operator has stopped is down, and nothing about it is uncertain.
MayFind(r) == IF r \in halted THEN {"broken"} ELSE Findable[r]

\* The watchdog wakes and finds itself enabled; an operator who asks for a pass, in the
\* dashboard or with `nyxgpt self-heal heal`, gets one.  Then the components are surveyed.
Survey(j) ==
    /\ At(j, "idle") /\ j \in Healers /\ Running(j)
    /\ IF j = "watchdog" THEN Free(j) /\ LoadState.enabled /\ UNCHANGED asked
                         ELSE asked < MaxCommands /\ asked' = asked + 1
    /\ \E pass \in {EveryRow} \union (IF j = "watchdog" THEN {} ELSE OneRow) :
       \E found \in [ToSet(pass.rows) -> Conditions] :
         /\ \A r \in DOMAIN found : found[r] \in MayFind(r)
         /\ job' = [job EXCEPT ![j] = [Idle EXCEPT !.at = "surveyed", !.manual = pass.manual, !.todo =
                      [n \in DOMAIN pass.rows |->
                        LET r == pass.rows[n] IN
                        [row |-> r, found |-> found[r], desired |-> TRUE,
                         wasHalted |-> ~pass.manual /\ r \in halted]]]]
    /\ UNCHANGED <<file, lock, api, halted, clock, faults, observed, trouble>>

\* What an operator has stopped is not desired.
Marked(todo) ==
    [n \in DOMAIN todo |->
       [todo[n] EXCEPT !.desired = @ /\ todo[n].row \notin LoadState.stopped,
                       !.wasHalted = @ /\ todo[n].row \in intended \intersect halted]]

\* component_survey ends with the stop markers, and heal_now then takes the time.
ReadMarkers(j) ==
    /\ At(j, "surveyed") /\ Free(j)
    /\ job' = [job EXCEPT ![j].at = "waiting", ![j].now = clock, ![j].todo = Marked(job[j].todo)]
    /\ ReadNoted
    /\ UNCHANGED <<file, lock, api, halted, clock, faults, asked, observed>>

-----------------------------------------------------------------------------
(* heal_now, under the lock. *)

\* Mutant: the pass does not take the lock.
TakeStateUnlocked(j) ==
    /\ At(j, "waiting") /\ Free(j)
    /\ job' = [job EXCEPT ![j].at = "healing", ![j].base = file,
                          ![j].state = Pruned(LoadState, job[j].now)]
    /\ UNCHANGED <<file, lock, api, halted, clock, faults, asked, observed, trouble>>

\* "overtaken": a pass that surveyed later has been here before.  "overlap": another
\* process is in its own pass.
TakeState(j) ==
    /\ At(j, "waiting") /\ Free(j)
    /\ lock' = Held(j)
    /\ job' = [job EXCEPT ![j].at = "healing", ![j].base = file,
                          ![j].state = Pruned(LoadState, job[j].now)]
    /\ latest' = IF job[j].now > latest THEN job[j].now ELSE latest
    /\ trouble' = trouble \union (IF file = Torn THEN {"torn"} ELSE {})
                           \union (IF job[j].now < latest THEN {"overtaken"} ELSE {})
                           \union (IF \E i \in Jobs : At(i, "healing") THEN {"overlap"} ELSE {})
    /\ UNCHANGED <<file, api, halted, clock, faults, asked, toggled, intended, log, failed>>

Row(j) == Head(job[j].todo)
Key(j) == KeyOf[Row(j).row]
Considering(j) == At(j, "healing") /\ job[j].todo # <<>>

SeenHealthy(j) == ~job[j].manual /\ Row(j).found = "healthy"

\* Mutant: one more than the consecutive cap.
WithinLooseBudget(j) ==
    LET s == job[j].state IN
    /\ Cardinality(s.attempts[Key(j)]) < AttemptCap
    /\ s.counts[Key(j)] <= MaxConsecutive
    /\ job[j].now - s.last[Key(j)] >= Backoff

\* The window cap, the consecutive cap and the backoff leave room for one more.
WithinBudget(j) ==
    LET s == job[j].state IN
    /\ Cardinality(s.attempts[Key(j)]) < AttemptCap
    /\ s.counts[Key(j)] < MaxConsecutive
    /\ job[j].now - s.last[Key(j)] >= Backoff

Due(j) ==
    /\ ~SeenHealthy(j)
    /\ Row(j).found # "pending"
    /\ job[j].manual \/ (Row(j).found # "unknown" /\ Row(j).desired /\ WithinBudget(j))

\* Mutant: health also clears the attempts in the window.
RecoverForgives(j) ==
    /\ Considering(j) /\ SeenHealthy(j)
    /\ job' = [job EXCEPT ![j].state.counts[Key(j)] = 0, ![j].state.attempts[Key(j)] = {},
                          ![j].todo = Tail(@)]
    /\ failed' = [failed EXCEPT ![Key(j)] = 0]
    /\ UNCHANGED <<file, lock, api, halted, clock, faults, asked, toggled, intended, log, latest, trouble>>

\* One glimpse of health resets the count of the key.
Recover(j) ==
    /\ Considering(j) /\ SeenHealthy(j)
    /\ job' = [job EXCEPT ![j].state.counts[Key(j)] = 0, ![j].todo = Tail(@)]
    /\ failed' = [failed EXCEPT ![Key(j)] = 0]
    /\ UNCHANGED <<file, lock, api, halted, clock, faults, asked, toggled, intended, log, latest, trouble>>

LeaveAlone(j) ==
    /\ Considering(j) /\ ~SeenHealthy(j) /\ ~Due(j)
    /\ job' = [job EXCEPT ![j].todo = Tail(@)]
    /\ UNCHANGED <<file, lock, api, halted, clock, faults, asked, observed, trouble>>

\* Mutant: a restart starts no backoff.
ChargedNoBackoff(state, k, now, manual) ==
    [state EXCEPT !.counts[k] = @ + 1, !.attempts[k] = IF manual THEN @ ELSE Another(@, now)]

\* What a restart costs: a count and a backoff, and an attempt unless it was asked for.
Charged(state, k, now, manual) ==
    [state EXCEPT !.counts[k] = @ + 1, !.last[k] = now,
                  !.attempts[k] = IF manual THEN @ ELSE Another(@, now)]

\* The restart works or not; it is charged either way.
Restart(j) ==
    /\ Considering(j) /\ Due(j)
    /\ halted' \in {halted, halted \ {Row(j).row}}
    /\ job' = [job EXCEPT ![j].state = Charged(@, Key(j), job[j].now, job[j].manual), ![j].todo = Tail(@)]
    /\ IF job[j].manual THEN UNCHANGED <<log, failed>>
       ELSE /\ log' = [log EXCEPT ![Key(j)] = Append(@, job[j].now)]
            /\ failed' = [failed EXCEPT ![Key(j)] = @ + 1]
    /\ UNCHANGED <<file, lock, api, clock, faults, asked, toggled, intended, latest, trouble>>

-----------------------------------------------------------------------------
(* The other writers: stop and start (ops), the toggle, the seed at startup. *)

\* What a command makes of a set of stopped components, and of the file.
Halting(set, cmd) ==
    CASE cmd.what = "stop"   -> set \union {cmd.on}
      [] cmd.what = "start"  -> set \ {cmd.on}
      [] cmd.what = "toggle" -> set

Commanded(state, cmd) ==
    [state EXCEPT !.stopped = Halting(@, cmd),
                  !.enabled = IF cmd.what = "toggle" THEN cmd.on ELSE @]

\* Mutant: the component is stopped first, and marked after.
CommandActsFirst(j, cmd) ==
    /\ At(j, "idle") /\ asked < MaxCommands /\ Running(j) /\ Free(j)
    /\ j = cmd.by
    /\ lock' = Held(j)
    /\ asked' = asked + 1
    /\ job' = [job EXCEPT ![j] = [Idle EXCEPT !.at = "saving", !.cmd = cmd, !.base = file,
                                              !.state = Commanded(LoadState, cmd)]]
    /\ ReadNoted
    /\ intended' = Halting(intended, cmd) /\ halted' = Halting(halted, cmd)
    /\ UNCHANGED <<file, api, clock, faults, toggled, log, failed, latest>>

\* ops stop and ops install begin with the marker; the toggle is in the CLI and in the
\* dashboard.
Command(j, cmd) ==
    /\ At(j, "idle") /\ asked < MaxCommands /\ Running(j) /\ Free(j)
    /\ j = cmd.by
    /\ lock' = Held(j)
    /\ asked' = asked + 1
    /\ job' = [job EXCEPT ![j] = [Idle EXCEPT !.at = "saving", !.cmd = cmd, !.base = file,
                                              !.state = Commanded(LoadState, cmd)]]
    /\ ReadNoted
    /\ intended' = Halting(intended, cmd)
    /\ UNCHANGED <<file, api, halted, clock, faults, toggled, log, failed, latest>>

\* The marker comes first, then the component is stopped or started.
Act ==
    /\ At("operator", "acting")
    /\ halted' = Halting(halted, job["operator"].cmd)
    /\ job' = [job EXCEPT !["operator"] = Idle]
    /\ UNCHANGED <<file, lock, api, clock, faults, asked, observed, trouble>>

\* Mutant: every start of the API seeds the file.
SeedAlways == TRUE

SeedNeeded == file = Missing

\* seed_enabled_default, then the watchdog is started.
StartApi ==
    /\ api = "down"
    /\ IF SeedNeeded
       THEN /\ api' = "starting" /\ lock' = "startup"
            /\ job' = [job EXCEPT !["startup"] = [Idle EXCEPT !.at = "saving", !.base = file,
                                    !.state = [DefaultState EXCEPT !.enabled = DefaultEnabled]]]
       ELSE api' = "up" /\ UNCHANGED <<lock, job>>
    /\ UNCHANGED <<file, halted, clock, faults, asked, observed, trouble>>

-----------------------------------------------------------------------------
(* _save_state, for everyone. *)

Ready(j) == At(j, "saving") \/ (At(j, "healing") /\ job[j].todo = <<>>)

\* "lost": someone else has written since this job read.
Truncate(j) ==
    /\ Ready(j)
    /\ file' = Torn
    /\ trouble' = trouble \union (IF file # job[j].base THEN {"lost"} ELSE {})
    /\ job' = [job EXCEPT ![j] = [Idle EXCEPT !.at = "writing", !.cmd = job[j].cmd, !.state = job[j].state]]
    /\ UNCHANGED <<lock, api, halted, clock, faults, asked, observed>>

Acts(j) == job[j].cmd.what \in {"stop", "start"}

Write(j) ==
    /\ At(j, "writing")
    /\ file' = job[j].state
    /\ lock' = Released(j)
    /\ api' = IF j = "startup" THEN "up" ELSE api
    /\ job' = [job EXCEPT ![j] = IF Acts(j) THEN [Idle EXCEPT !.at = "acting", !.cmd = job[j].cmd] ELSE Idle]
    /\ LET cmd == job[j].cmd IN
       toggled' = IF cmd.what = "toggle" THEN {cmd.on} ELSE toggled
    /\ UNCHANGED <<halted, clock, faults, asked, intended, log, failed, latest, trouble>>

\* The file cannot be opened.  The watchdog logs it and goes on, ops stop stops the
\* component all the same, the API does not start, and everything else gives up.
Unwritten(j) ==
    /\ "unwritten" \in Faults /\ faults < MaxFaults
    /\ Ready(j)
    /\ faults' = faults + 1
    /\ lock' = Released(j)
    /\ trouble' = trouble \union {"unsaved"}
    /\ job' = [job EXCEPT ![j] = IF Acts(j) /\ job[j].cmd.what = "stop"
                                 THEN [Idle EXCEPT !.at = "acting", !.cmd = job[j].cmd] ELSE Idle]
    /\ api' = IF j = "startup" THEN "down" ELSE api
    /\ UNCHANGED <<file, halted, clock, asked, observed>>

-----------------------------------------------------------------------------
(* The API process dies, its threads and its lock with it; time passes. *)

Crash ==
    /\ "crash" \in Faults /\ faults < MaxFaults /\ api # "down"
    /\ faults' = faults + 1
    /\ api' = "down" /\ lock' = None
    /\ trouble' = trouble \union (IF lock # None THEN {"crash"} ELSE {})
    /\ job' = [j \in Jobs |-> IF j \in ApiJobs THEN Idle ELSE job[j]]
    /\ UNCHANGED <<file, halted, clock, asked, observed>>

Tick ==
    /\ clock < MaxClock
    /\ clock' = clock + 1
    /\ UNCHANGED <<file, lock, api, job, halted, faults, asked, observed, trouble>>

-----------------------------------------------------------------------------
Init ==
    /\ file = Missing /\ lock = None /\ api = "down"
    /\ job = [j \in Jobs |-> Idle]
    /\ halted = {} /\ clock = Backoff /\ faults = 0 /\ asked = 0
    /\ toggled = {} /\ intended = {}
    /\ log = [k \in Keys |-> <<>>] /\ failed = [k \in Keys |-> 0]
    /\ latest = 0 /\ trouble = {}

Next ==
    \/ \E j \in Jobs :
         \/ Survey(j) \/ ReadMarkers(j) \/ TakeState(j)
         \/ Recover(j) \/ LeaveAlone(j) \/ Restart(j)
         \/ Truncate(j) \/ Write(j) \/ Unwritten(j)
         \/ \E cmd \in Commands : Command(j, cmd)
    \/ Act \/ StartApi \/ Crash \/ Tick

Spec == Init /\ [][Next]_vars

-----------------------------------------------------------------------------
(* Type correctness. *)

States == [enabled : BOOLEAN, stopped : SUBSET Core, counts : [Keys -> Nat],
           last : [Keys -> Nat], attempts : [Keys -> SUBSET (Nat \X Nat)]]

Entry == [row : Rows, found : Conditions, desired : BOOLEAN, wasHalted : BOOLEAN]

Process ==
    [at : {"idle", "surveyed", "waiting", "healing", "saving", "writing", "acting"},
     state : States, base : States \union {Missing, Torn}, cmd : Commands \union {NoCommand},
     now : Nat, manual : BOOLEAN, todo : Seq(Entry)]

\* No state is written as what stands for no file, or for half of one.
ASSUME FileAssumption == Missing # Torn /\ Missing \notin States /\ Torn \notin States

\* A thread of the API that has read the file to change it has the lock.
Locked ==
    \A j \in ApiJobs : At(j, "healing") \/ At(j, "saving") \/ At(j, "writing") => lock = j

TypeOK ==
    /\ file \in States \union {Missing, Torn}
    /\ lock \in ApiJobs \union {None}
    /\ api \in {"down", "starting", "up"}
    /\ job \in [Jobs -> Process]
    /\ halted \subseteq Core /\ intended \subseteq Core /\ toggled \subseteq BOOLEAN
    /\ clock \in Nat /\ faults \in Nat /\ asked \in Nat
    /\ log \in [Keys -> Seq(Nat)] /\ failed \in [Keys -> Nat] /\ latest \in Nat
    /\ trouble \subseteq {"lost", "torn", "overlap", "crash", "unsaved", "overtaken"}
    /\ Locked

(* Properties.  What a write lost, a read half written or a pass not saved takes away
   is said by naming it: Without(S) is "none of S has happened so far". *)

Without(S) == trouble \intersect S = {}
Intact     == file \notin {Missing, Torn}

(* The file remembers what operators last asked for, through any number of heal
   passes, toggles and restarts of the API, as long as no write was made over
   another's, read by halves or refused: the pass gives back everything it does not
   own (heal_now, _save_state, 2972-3250). *)
OperatorsAreRemembered ==
    Intact /\ Without({"lost", "torn", "unsaved"}) =>
        /\ toggled # {} => file.enabled \in toggled
        /\ job["operator"].at \in {"idle", "acting"} => file.stopped = intended

(* No more automatic heals of one budget key in a window than the cap, counted at the
   time of their passes, whatever its rows look like in between and however often
   the operator heals by hand (heal_now, 2915-2922). *)
WindowBounded ==
    Without({"lost", "torn", "overlap", "crash", "unsaved", "overtaken"}) =>
        \A k \in Keys, t \in 0..MaxClock :
            Cardinality({n \in DOMAIN log[k] : t - Window < log[k][n] /\ log[k][n] <= t}) <= AttemptCap

(* A key of which no row was seen healthy is given up after so many heals
   (heal_now, 2913-2914). *)
GivesUp ==
    Without({"lost", "torn", "overlap", "crash", "unsaved"}) =>
        \A k \in Keys : failed[k] <= MaxConsecutive

(* Two automatic heals of a key are a backoff apart, although each pass judges by the
   time at which it surveyed (heal_now, 2943-2944, 3126-3138). *)
BackedOff ==
    Without({"lost", "torn", "overlap", "crash", "unsaved", "overtaken"}) =>
        \A k \in Keys : \A n \in 2..Len(log[k]) : log[k][n] - log[k][n - 1] >= Backoff

\* An automatic pass restarts a component it saw down because an operator had
\* stopped it, and which was still down, and meant to be, when the survey ended.
Undoes(j) ==
    /\ job[j].todo # <<>> /\ log' # log /\ job'[j] # job[j]
    /\ Row(j).wasHalted

(* "the next heal pass sees this component desired=False and leaves it alone"
   (mark_intentionally_stopped, 860-864; docs/self-healing.md:213-216). *)
StopIsRespected == [][\A j \in Healers : ~Undoes(j)]_vars

(* The same, unless a write was lost, torn or failed: the marker is written before
   the component stops and read after the components are surveyed, so nothing that
   only depends on the order of steps undoes a stop. *)
StopIsRespectedUnlessLost ==
    [][Without({"lost", "torn", "unsaved"}) => \A j \in Healers : ~Undoes(j)]_vars

(* "`[self_heal] enabled` in `config.ini` ... only seeds the *initial* state on a fresh install"
   (docs/self-healing.md:720-721): until someone uses the toggle, the API runs with
   the watchdog as configured. *)
StartsAsConfigured ==
    api = "up" /\ Intact /\ toggled = {} => file.enabled = DefaultEnabled
=============================================================================
