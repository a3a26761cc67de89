-------------------------- MODULE RestartActivation --------------------------
(***************************************************************************)
(* Saving restart-required options and restarting their services, as the   *)
(* code runs them.  The dashboard saves and restarts through threads of    *)
(* the API process, which share restart_state._lock; the CLI does so from  *)
(* processes of its own; and the API retires its own entries when it comes *)
(* back up.  All of them meet in config.ini and in pending-restart.json.   *)
(*                                                                         *)
(* A step is one thing another process can see: a read or a replacement of *)
(* one of the two files, or the restart of a service.                      *)
(***************************************************************************)
EXTENDS RestartPending, Sequences

CONSTANTS
    Operators,    \* requests to the API and CLI processes
    Options,      \* the updates operators save
    SecretKeys,   \* options that `nyxgpt secrets setup` writes
    Patient,      \* TRUE when operators wait for everything to settle
    Spaced,       \* TRUE when no two processes rewrite the notice at the same instant
    Faults,       \* what may go wrong
    MaxFaults     \* how often, in one behaviour

\* pending-restart.json cannot be read, or not be written; a process dies in the
\* middle of something; the API refuses to start.
FaultKinds == {"unread", "unwritten", "crash", "refuses"}

\* [auth] is read by the web service: its wrapper hands the key on when it starts.
ASSUME ActivationAssumption ==
    /\ Operators \intersect {"timer", "startup"} = {}
    /\ Options \subseteq Updates
    /\ SecretKeys \subseteq Of("web")
    /\ Patient \in BOOLEAN /\ Spaced \in BOOLEAN
    /\ Faults \subseteq FaultKinds /\ MaxFaults \in Nat

\* Besides the operators: the timer thread that restarts what was requested, and
\* the start of the API process.
Timer   == "timer"
Startup == "startup"
Actors  == Operators \union {Timer, Startup}

VARIABLES
    config,        \* config.ini
    loaded,        \* what the running services have loaded
    previous,      \* pending-restart.json: the previous texts ...
    attempt,       \* ... and the outcome of the last restart of each component
    phase,         \* where the process of each component is
    snap,          \* pending_at_start of the API process that is starting
    act,           \* what each actor is doing
    unannounced,   \* components restarted behind the notice's back since it was cleared
    faults         \* faults so far

file     == <<previous, attempt>>
services == <<loaded, phase, snap>>
vars     == <<config, loaded, previous, attempt, phase, snap, act, unannounced, faults>>

NoTexts == [k \in Keys |-> Nothing]

Idle == [cmd |-> "none", at |-> "idle", read |-> NoTexts, text |-> NoTexts, new |-> NoTexts,
         todo |-> <<>>, copy |-> <<>>, then |-> "idle", targets |-> {},
         asked |-> {}, ok |-> TRUE]

At(a, at)   == act[a].at = at
Cmd(a, cmd) == act[a].cmd = cmd
Return(a)   == act' = [act EXCEPT ![a] = Idle]

\* What runs inside the API process and dies with it.
InApi(a) == act[a].cmd \in {"save", "request", "bounce", "timer", "startup"}

Up(c) == phase[c] = "up"
Quiet == (\A a \in Actors : act[a] = Idle) /\ (\A c \in Components : Up(c))

Fault(kind) == kind \in Faults /\ faults < MaxFaults /\ faults' = faults + 1

Begins(a, record) ==
    /\ act[a] = Idle
    /\ Patient => Quiet
    /\ act' = [act EXCEPT ![a] = record]
    /\ UNCHANGED <<config, file, services, unannounced, faults>>

-----------------------------------------------------------------------------
(* restart_state: each function reads the file, changes the copy, and, under *)
(* the lock of its process, replaces the file                                *)

NoAttempts == [c \in Components |-> "none"]

\* An entry without options is dropped, and its attempt with it.
Trim(texts, attempts) ==
    [c \in Components |-> IF Awaiting(texts, c) = {} THEN "none" ELSE attempts[c]]

Mark(c, changes)   == [do |-> "mark", on |-> c, texts |-> changes, keys |-> {}, status |-> "none"]
Reconcile(c, back) == [do |-> "reconcile", on |-> c, texts |-> back, keys |-> {}, status |-> "none"]
Clear(c, keys)     == [do |-> "clear", on |-> c, texts |-> NoTexts, keys |-> keys, status |-> "none"]
Record(c, status)  == [do |-> "record", on |-> c, texts |-> NoTexts, keys |-> {}, status |-> status]

TextsAfter(op, texts) ==
    CASE op.do = "mark"      -> Marked(texts, op.texts)
      [] op.do = "reconcile" -> Reconciled(texts, op.texts)
      [] op.do = "clear"     -> Cleared(texts, op.keys)
      [] op.do = "record"    -> texts

\* A new option awaiting a restart makes the last attempt stale.
AttemptsAfter(op, texts, attempts) ==
    CASE op.do = "mark"   -> [attempts EXCEPT ![op.on] = "none"]
      [] op.do = "record" -> IF Awaiting(texts, op.on) = {} THEN attempts
                             ELSE [attempts EXCEPT ![op.on] = op.status]
      [] OTHER            -> Trim(TextsAfter(op, texts), attempts)

\* mark_pending always writes the file, the others only when their component
\* has an entry.
Writes(op, texts) == op.do = "mark" \/ Awaiting(texts, op.on) # {}

\* mark_pending and reconcile_saved return at once when given nothing.
Given(op) == op.do \in {"clear", "record"} \/ op.texts # NoTexts

\* restart_state._lock is one process's own.
LockFree(a) == \A b \in Actors : At(b, "put") => ~Spaced /\ ~(InApi(a) /\ InApi(b))

\* One operation for each component of cs, in the order of their names.
Each(cs, ops) == (IF "api" \in cs THEN <<ops["api"]>> ELSE <<>>)
                 \o (IF "web" \in cs THEN <<ops["web"]>> ELSE <<>>)

\* The same, of the operations that are given something.
EachGiven(ops) == Each({c \in Components : Given(ops[c])}, ops)

\* The actor works through its list, then goes on.
Works(record, todo, then) ==
    [record EXCEPT !.todo = todo, !.then = then, !.at = IF todo = <<>> THEN then ELSE "take"]

Take(a) ==
    /\ At(a, "take") /\ LockFree(a)
    /\ \E readable \in BOOLEAN :
          /\ IF readable THEN UNCHANGED faults ELSE Fault("unread")
          /\ act' = [act EXCEPT ![a].at = "put", ![a].copy =
                        IF readable THEN <<previous, attempt>> ELSE <<NoTexts, NoAttempts>>]
    /\ UNCHANGED <<config, file, services, unannounced>>

Put(a) ==
    /\ At(a, "put")
    /\ LET op == Head(act[a].todo)
           texts == act[a].copy[1]
           attempts == act[a].copy[2]
           rest == Tail(act[a].todo)
       IN  /\ \/ /\ Writes(op, texts)
                 /\ previous' = TextsAfter(op, texts)
                 /\ attempt' = AttemptsAfter(op, texts, attempts)
                 /\ UNCHANGED faults
              \/ Writes(op, texts) /\ Fault("unwritten") /\ UNCHANGED file
              \/ ~Writes(op, texts) /\ UNCHANGED <<file, faults>>
           /\ unannounced' = IF op.do = "clear" THEN unannounced \ {op.on} ELSE unannounced
           /\ act' = [act EXCEPT ![a].todo = rest, ![a].copy = Idle.copy,
                                 ![a].at = IF rest = <<>> THEN act[a].then ELSE "take"]
    /\ UNCHANGED <<config, services>>

Returns(a) ==
    /\ a \in Operators /\ At(a, "idle") /\ act[a] # Idle
    /\ Return(a)
    /\ UNCHANGED <<config, file, services, unannounced, faults>>

-----------------------------------------------------------------------------
(* Saving: POST /config/sections and the auth endpoint in the API process,  *)
(* `nyxgpt secrets setup` in one of its own                                 *)

SaveLoads(a, new) ==
    /\ Up("api")
    /\ Begins(a, [Idle EXCEPT !.cmd = "save", !.at = "merge", !.read = config, !.new = new])

\* Saves exactly one option, of [auth].
SecretLoads(a, new) ==
    /\ \E k \in SecretKeys : {j \in Keys : new[j] # Nothing} = {k}
    /\ Begins(a, [Idle EXCEPT !.cmd = "secret", !.at = "merge", !.read = config, !.new = new])

\* apply_updates reads the file again, ...
SaveMerges(a) ==
    /\ At(a, "merge")
    /\ act' = [act EXCEPT ![a].text = Written(config, act[a].new), ![a].at = "write"]
    /\ UNCHANGED <<config, file, services, unannounced, faults>>

\* ... and replaces it.  Mark first, reconcile second.
\* Mutant: reconcile first.
MarkLast(new, changes) ==
    EachGiven([c \in Components |-> Reconcile(c, Only(c, new))])
    \o EachGiven([c \in Components |-> Mark(c, Only(c, changes))])

MarkFirst(new, changes) ==
    EachGiven([c \in Components |-> Mark(c, Only(c, changes))])
    \o EachGiven([c \in Components |-> Reconcile(c, Only(c, new))])

SaveWrites(a) ==
    /\ At(a, "write")
    /\ config' = act[a].text
    /\ LET new == act[a].new
           changes == Detail(act[a].read, new, Cmd(a, "secret"))
       IN  act' = [act EXCEPT ![a] =
                      Works(act[a], MarkFirst(new, changes), "idle")]
    /\ UNCHANGED <<file, services, unannounced, faults>>

\* _write_ini_checked refuses to replace config.ini.
SaveRefused(a) ==
    /\ At(a, "write")
    /\ Return(a)
    /\ UNCHANGED <<config, file, services, unannounced, faults>>

-----------------------------------------------------------------------------
(* The restart of a service *)

\* The API dies with what runs in it, and is to be started again; a caller in
\* another process goes on with `record`.
ApiDies(caller, record) ==
    /\ phase' = [phase EXCEPT !["api"] = "down"]
    /\ act' = [a \in Actors |->
                  IF InApi(a) THEN Idle ELSE IF a = caller THEN record ELSE act[a]]
    /\ snap' = {}
    /\ UNCHANGED loaded

\* What a restart comes to: the process is replaced; it is not, and the caller is
\* told so; or it is, and the caller is told it is not.
Outcomes == {"restarted", "refused", "misreported"}

\* The web process is replaced, and `record` is what the caller goes on with.
WebRestarts(a, record) ==
    /\ phase' = [phase EXCEPT !["web"] = "starting"]
    /\ act' = [act EXCEPT ![a] = record]
    /\ UNCHANGED <<loaded, snap>>

-----------------------------------------------------------------------------
(* POST /infra/restart-required *)

RequestLooks(a, targets) ==
    /\ Up("api")
    /\ LET pending == {c \in Components : Awaiting(previous, c) # {}}
       IN  targets = pending \/ \E c \in pending : targets = {c}
    /\ LET started == Each(targets, [c \in Components |-> Record(c, "running")])
       IN  Begins(a, Works([Idle EXCEPT !.cmd = "request", !.targets = targets], started,
                           "schedule"))

\* One timer at a time.
RequestSchedules(a) ==
    /\ At(a, "schedule")
    /\ act[Timer] = Idle
    /\ act' = [act EXCEPT ![a] = Idle,
                          ![Timer] = [Idle EXCEPT !.cmd = "timer", !.at = "restart",
                                                  !.targets = act[a].targets]]
    /\ UNCHANGED <<config, file, services, unannounced, faults>>

\* _do_restart_required restarts the API last.
Target(targets) == IF "web" \in targets THEN "web" ELSE "api"

\* What is recorded when heal_now has returned.
\* Mutants: a refusal is not; a restart retires the options of every service.
ReportedSuccess(c, outcome) ==
    IF outcome = "restarted" THEN <<Record(c, "succeeded"), Clear(c, Of(c))>> ELSE <<>>

ReportedForAll(c, outcome) ==
    IF outcome = "restarted" THEN <<Record(c, "succeeded"), Clear(c, Keys)>>
    ELSE <<Record(c, "failed")>>

Reported(c, outcome) ==
    IF outcome = "restarted" THEN <<Record(c, "succeeded"), Clear(c, Of(c))>>
    ELSE <<Record(c, "failed")>>

TimerRestarts(outcome) ==
    /\ At(Timer, "restart") /\ act[Timer].targets # {}
    /\ LET c == Target(act[Timer].targets)
           rest == [act[Timer] EXCEPT !.targets = @ \ {c}]
           next == Works(rest, Reported(c, outcome), "restart")
       IN  \/ /\ outcome = "refused"
              /\ act' = [act EXCEPT ![Timer] = next]
              /\ UNCHANGED <<services, unannounced>>
           \/ /\ outcome # "refused" /\ c = "web"
              /\ WebRestarts(Timer, next)
              /\ unannounced' = IF outcome = "restarted" THEN unannounced
                                ELSE unannounced \union {c}
           \/ /\ outcome # "refused" /\ c = "api"
              /\ ApiDies(Timer, Idle)
              /\ UNCHANGED unannounced
    /\ UNCHANGED <<config, file, faults>>

TimerReturns ==
    /\ At(Timer, "restart") /\ act[Timer].targets = {}
    /\ Return(Timer)
    /\ UNCHANGED <<config, file, services, unannounced, faults>>

-----------------------------------------------------------------------------
(* ops restart: `nyxgpt ops restart` in a process of its own ("ops"), and    *)
(* POST /config/restart in the API process ("bounce")                        *)

OpsStarts(a, cmd, targets) ==
    /\ cmd = "bounce" => Up("api")
    /\ Begins(a, [Idle EXCEPT !.cmd = cmd, !.at = "bounce", !.targets = targets])

\* The API first.
OpsTarget(targets) == IF "api" \in targets THEN "api" ELSE "web"

OpsRestarts(a, outcome) ==
    /\ At(a, "bounce") /\ act[a].targets # {}
    /\ LET c == OpsTarget(act[a].targets)
           next == [act[a] EXCEPT !.targets = @ \ {c}, !.asked = @ \union {c},
                                  !.ok = @ /\ outcome = "restarted"]
       IN  \/ /\ outcome = "refused"
              /\ act' = [act EXCEPT ![a] = next]
              /\ UNCHANGED <<services, unannounced>>
           \/ /\ outcome # "refused" /\ c = "web"
              /\ WebRestarts(a, next)
              /\ unannounced' = unannounced \union {c}
           \/ /\ outcome # "refused" /\ c = "api"
              /\ ApiDies(a, next)
              /\ UNCHANGED unannounced
    /\ UNCHANGED <<config, file, faults>>

\* Only when every step succeeded are the targets cleared.
OpsEnds(a) ==
    /\ At(a, "bounce") /\ act[a].targets = {}
    /\ act' = [act EXCEPT ![a] =
                  IF act[a].ok
                  THEN Works(act[a], Each(act[a].asked, [c \in Components |-> Clear(c, Of(c))]), "idle")
                  ELSE Idle]
    /\ UNCHANGED <<config, file, services, unannounced, faults>>

-----------------------------------------------------------------------------
(* The start of the web process, and of the API (lifespan)                  *)

WebLoads ==
    /\ phase["web"] = "starting"
    /\ loaded' = [k \in Keys |-> IF Reader[k] = "web" THEN config[k] ELSE loaded[k]]
    /\ phase' = [phase EXCEPT !["web"] = "up"]
    /\ UNCHANGED <<config, file, snap, act, unannounced, faults>>

ApiSnapshots ==
    /\ phase["api"] = "down"
    /\ \/ snap' = Awaiting(previous, "api") /\ UNCHANGED faults
       \/ snap' = {} /\ Fault("unread")
    /\ phase' = [phase EXCEPT !["api"] = "snapshotted"]
    /\ UNCHANGED <<config, file, loaded, act, unannounced>>

ApiLoads ==
    /\ phase["api"] = "snapshotted"
    /\ loaded' = [k \in Keys |-> IF Reader[k] = "api" THEN config[k] ELSE loaded[k]]
    /\ phase' = [phase EXCEPT !["api"] = "loaded"]
    /\ UNCHANGED <<config, file, snap, act, unannounced, faults>>

\* A process that refuses to start, or dies initialising, clears nothing.
ApiRefuses ==
    /\ phase["api"] = "loaded" /\ act[Startup] = Idle
    /\ Fault("refuses")
    /\ ApiDies(Startup, Idle)
    /\ UNCHANGED <<config, file, unannounced>>

\* clear_started, last in startup
ApiClears ==
    /\ phase["api"] = "loaded" /\ act[Startup] = Idle
    /\ act' = [act EXCEPT ![Startup] =
                  Works([Idle EXCEPT !.cmd = "startup"], <<Clear("api", snap)>>, "serve")]
    /\ UNCHANGED <<config, file, services, unannounced, faults>>

ApiServes ==
    /\ At(Startup, "serve")
    /\ phase' = [phase EXCEPT !["api"] = "up"]
    /\ snap' = {}
    /\ Return(Startup)
    /\ UNCHANGED <<config, file, loaded, unannounced, faults>>

-----------------------------------------------------------------------------
(* The environment *)

\* The watchdog, the service manager or an operator who stops and starts it
\* replaces the web process.
WebReplaced ==
    /\ Up("web") /\ (Patient => Quiet)
    /\ phase' = [phase EXCEPT !["web"] = "starting"]
    /\ unannounced' = unannounced \union {"web"}
    /\ UNCHANGED <<config, file, loaded, snap, act, faults>>

\* The same of the API: a fault when it was doing something.
ApiReplaced ==
    /\ Up("api")
    /\ IF \E a \in Actors : InApi(a) THEN Fault("crash") ELSE UNCHANGED faults
    /\ ApiDies(Startup, Idle)
    /\ UNCHANGED <<config, file, unannounced>>

CliDies(a) ==
    /\ act[a] # Idle /\ ~InApi(a)
    /\ Fault("crash")
    /\ Return(a)
    /\ UNCHANGED <<config, file, services, unannounced>>

-----------------------------------------------------------------------------

Init ==
    /\ config \in [Keys -> Texts \union {Absent}]
    /\ loaded = config
    /\ previous = NoTexts
    /\ attempt = NoAttempts
    /\ phase = [c \in Components |-> "up"]
    /\ snap = {}
    /\ act = [a \in Actors |-> Idle]
    /\ unannounced = {}
    /\ faults = 0

TargetSets == {{"api"}, {"web"}, {"api", "web"}}

Begin(a) ==
    \/ \E new \in Options : SaveLoads(a, new) \/ SecretLoads(a, new)
    \/ \E targets \in TargetSets :
          RequestLooks(a, targets) \/ OpsStarts(a, "ops", targets) \/ OpsStarts(a, "bounce", targets)

Proceed(a) ==
    \/ Take(a) \/ Put(a) \/ Returns(a)
    \/ SaveMerges(a) \/ SaveWrites(a) \/ SaveRefused(a)
    \/ RequestSchedules(a) \/ OpsEnds(a)
    \/ \E outcome \in Outcomes : OpsRestarts(a, outcome)

Timers == TimerReturns \/ \E outcome \in Outcomes : TimerRestarts(outcome)

Starts == WebLoads \/ ApiSnapshots \/ ApiLoads \/ ApiRefuses \/ ApiClears \/ ApiServes

Disturb == WebReplaced \/ ApiReplaced \/ \E a \in Operators : CliDies(a)

Next ==
    \/ \E a \in Operators : Begin(a)
    \/ \E a \in Actors : Proceed(a)
    \/ Timers \/ Starts \/ Disturb

Spec == Init /\ [][Next]_vars

\* Every subprocess a restart waits for is bounded, and the service manager
\* starts what it has registered.
FairSpec ==
    /\ Spec
    /\ \A a \in Actors : WF_vars(Proceed(a))
    /\ WF_vars(Timers)
    /\ WF_vars(Starts)

-----------------------------------------------------------------------------
(* Properties *)

\* What is still to be done to the notice.
ToDo(do) == {op \in UNION {{act[a].todo[i] : i \in DOMAIN act[a].todo} : a \in Actors} :
                op.do = do}

\* The text that will be on record of an option when it has been marked ...
MarkedAs(k) ==
    IF previous[k] = Nothing /\ \E op \in ToDo("mark") : op.texts[k] # Nothing
    THEN (CHOOSE op \in ToDo("mark") : op.texts[k] # Nothing).texts[k]
    ELSE previous[k]

\* ... unless it is about to be retired: by a save that puts it back, by the
\* process that restarted its service, or by the API when it is up.
Retired(k) ==
    \/ \E op \in ToDo("reconcile") : op.texts[k] = MarkedAs(k)
    \/ \E op \in ToDo("clear") : k \in op.keys
    \/ phase["api"] = "down" /\ Reader[k] = "api"
    \/ k \in snap

\* The notice as it will be when everything under way has been recorded.
Due == [k \in Keys |-> IF Retired(k) THEN Nothing ELSE MarkedAs(k)]

\* What the services will have loaded when those that are starting have read it.
Coming ==
    [k \in Keys |-> IF phase[Reader[k]] \in {"starting", "down", "snapshotted"}
                    THEN config[k] ELSE loaded[k]]

Promise == INSTANCE RestartNotice WITH loaded <- Coming, previous <- Due

\* While no restart goes by behind its back, and nothing fails half-way, the
\* notice changes as RestartNotice says: a save and a restart of many steps
\* each, as one step.
KeepsPromise ==
    /\ Promise!Init
    /\ [][faults' = 0 /\ unannounced' = {} =>
             UNCHANGED <<config, Coming, Due>> \/ Promise!Next]_vars

\* The same three facts of the steps: while nothing fails half-way, each holds of
\* every option whose service was not restarted behind the notice's back.
Announced == {k \in Keys : Reader[k] \notin unannounced}

\* No divergence goes unreported: an option whose saved value means something
\* else than what its running service loaded is in the notice.
NoDivergenceUnreported ==
    faults = 0 => \A k \in Announced : ~Promise!Agrees(k) => Due[k] # Nothing

\* The same of every option, as restart_state.py promises it: no service drifts
\* from config.ini silently, whoever replaced its process.
NothingDriftsSilently ==
    faults = 0 => \A k \in Keys : ~Promise!Agrees(k) => Due[k] # Nothing

\* The text on record means what the running service has loaded, which is what
\* entitles a revert to it to retire the notice without a restart.
RecordIsWhatRuns ==
    faults = 0 =>
        \A k \in Announced : Due[k] # Nothing => Value(k, Due[k]) = Value(k, Coming[k])

\* The notice does not name an option that config.ini has back at the text on
\* record.
NoNoticeAfterRevert ==
    faults = 0 => \A k \in Announced : Due[k] # Nothing => Due[k] # config[k]

\* A restart that was accepted is answered: the notice does not say "running"
\* for ever, unless something dies under it.
AttemptIsAnswered ==
    \A c \in Components :
        attempt[c] = "running" ~> attempt[c] # "running" \/ faults > 0

=============================================================================
