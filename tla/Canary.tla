------------------------------- MODULE Canary -------------------------------
(***************************************************************************)
(* The canary commands of src/nyxgpt/canary.py as they run: every command  *)
(* loads the recorded rollout from ~/.nyxGPT/canary_state.json, makes a    *)
(* series of slow kubectl calls against the cluster, and writes the record *)
(* back.  Nothing is locked.  The commands run in the API's thread pool    *)
(* (the dashboard) and in CLI processes, so several may be under way.      *)
(*                                                                         *)
(* A step of a call is one thing another caller can see: a read of the     *)
(* file, a kubectl call, the truncation of the file, its write.            *)
(***************************************************************************)
EXTENDS CanaryPlan, FiniteSets

CONSTANTS
    Callers,      \* threads and processes that run commands
    Components,   \* components with a stable/canary pair
    Commands,     \* the commands callers issue
    Weights,      \* weights passed to start
    Total,        \* [canary] total_replicas, or NoCeiling
    Step,         \* [canary] step_percent
    Forces,       \* values of --force passed to promote
    Versions,     \* versions deploy may build
    HandCounts,   \* counts an operator scales an idle stable Deployment to
    Faults,       \* what may go wrong
    MaxFaults     \* how often, in one behaviour

\* A kubectl call is refused, or times out after the cluster has applied it; a
\* read fails; a Pod's /metrics cannot be read; a caller dies; the Pod holding
\* the state file is replaced.
FaultKinds == {"refused", "lost_reply", "unread", "unscraped", "crash", "file_lost"}

CommandNames == {"start", "promote", "rollback", "reset", "deploy", "evaluate"}

ASSUME CanaryAssumption ==
    /\ Components # {} /\ Components \subseteq {"api", "web"}
    /\ Commands \subseteq CommandNames
    /\ Weights \subseteq Int /\ Step \in Int
    /\ Total \in Nat /\ MaxFaults \in Nat
    /\ Forces \subseteq BOOLEAN
    /\ HandCounts \subseteq Nat \ {0}
    /\ Faults \subseteq FaultKinds

VARIABLES
    stable, canary,  \* desired replicas of the two Deployments
    image,           \* the version each of them runs
    hits,            \* have the canary's present Pods served a request?
    text,            \* what the state file holds: "json", "none" or "garbage"
    recorded,        \* the states in it, while it is "json"
    call,            \* the command each caller is running
    faults,          \* faults so far
    home,            \* the count the operator last scaled stable to
    tried,           \* versions that have served requests as canary
    saved            \* what the commands on each component wrote last, until it is lost

cluster == <<stable, canary, image, hits>>
file    == <<text, recorded>>
seen    == <<home, tried, saved>>
vars    == <<stable, canary, image, hits, text, recorded, call, faults, home, tried, saved>>

-----------------------------------------------------------------------------
(* The state file *)

NoStates == [c \in Components |-> NoRollout]

Readable == IF text = "json" THEN recorded ELSE NoStates

\* _load_state: api reads the whole file, "components" included; the other
\* components read their own entry.
LoadState(c) == IF c = "api" THEN Readable ELSE [NoStates EXCEPT ![c] = Readable[c]]

-----------------------------------------------------------------------------
(* Calls *)

NoPlan == [canary |-> 0, stable |-> 0, weight |-> 0]

Idle == [cmd |-> "none", on |-> "none", at |-> "idle", loaded |-> NoStates, next |-> NoRollout,
         plan |-> NoPlan, rest |-> 0, from |-> 0, version |-> "none"]

State(a)  == call[a].loaded[call[a].on]
At(a, pc) == call[a].at = pc
Cmd(a, cmd) == call[a].cmd = cmd

Goto(a, pc) == call' = [call EXCEPT ![a].at = pc]
Return(a)   == call' = [call EXCEPT ![a] = Idle]

Begin(a, cmd, c, pc, rest) ==
    /\ call[a] = Idle
    /\ cmd \in Commands
    /\ call' = [call EXCEPT ![a] = [Idle EXCEPT !.cmd = cmd, !.on = c, !.at = pc,
                                                !.loaded = LoadState(c), !.rest = rest]]
    /\ UNCHANGED <<cluster, file, seen, faults>>

\* The result of a kubectl call, and what it costs.
Fault(kind) == kind \in Faults /\ faults < MaxFaults /\ faults' = faults + 1
Answer(result) ==
    \/ result = "done" /\ UNCHANGED faults
    \/ result \in {"refused", "lost_reply"} /\ Fault(result)
Results == {"done", "refused", "lost_reply"}
Applied(result) == result # "refused"

\* _scale, on the canary: Pods that go away take their counters with them.
HitsLeft(c, n) ==
    IF n = 0 THEN {FALSE} ELSE IF n < canary[c] THEN {FALSE, hits[c]} ELSE {hits[c]}

ScaleCanary(c, n, result) ==
    /\ Answer(result)
    /\ canary' = IF Applied(result) THEN [canary EXCEPT ![c] = n] ELSE canary
    /\ IF Applied(result)
       THEN \E h \in HitsLeft(c, n) : hits' = [hits EXCEPT ![c] = h]
       ELSE UNCHANGED hits
    /\ UNCHANGED <<stable, image, file, seen>>

\* _scale, on stable
ScaleStable(c, n, result) ==
    /\ Answer(result)
    /\ stable' = IF Applied(result) THEN [stable EXCEPT ![c] = n] ELSE stable
    /\ UNCHANGED <<canary, image, hits, file, seen>>

\* _set_image
SetImage(c, track, v, result) ==
    /\ Answer(result)
    /\ image' = IF Applied(result) THEN [image EXCEPT ![c][track] = v] ELSE image
    /\ hits' = IF Applied(result) /\ track = "canary" THEN [hits EXCEPT ![c] = FALSE] ELSE hits
    /\ UNCHANGED <<stable, canary, file, seen>>

\* _desired_replicas: the live count, or None.
ReadLive(actual, live) ==
    \/ live = actual /\ UNCHANGED faults
    \/ live = Unread /\ Fault("unread")

-----------------------------------------------------------------------------
(* start *)

\* Mutant: a rollout on record is started over.
StartAnyway(a, c) == Begin(a, "start", c, "plan", 0)

StartLoads(a, c) ==
    /\ ~LoadState(c)[c].active
    /\ Begin(a, "start", c, "plan", 0)

\* Stable grows first when it has to grow; otherwise the canary does.
\* Mutant: the canary always goes first.
CanaryAlwaysFirst(plan, from) == "canaryFirst"

FirstScale(plan, from) == IF plan.stable > from THEN "stableUp" ELSE "canaryFirst"

StartPlans(a, weight, live) ==
    /\ Cmd(a, "start") /\ At(a, "plan")
    /\ ReadLive(stable[call[a].on], live)
    /\ LET rest == RestingFromLive(live)
           plan == PlanRollout(rest, Requested(weight), MaxPool(rest, Total))
       IN  call' = [call EXCEPT ![a].rest = rest, ![a].from = rest, ![a].plan = plan,
                                ![a].next = Active(plan, rest),
                                ![a].at = FirstScale(plan, rest)]
    /\ UNCHANGED <<cluster, file, seen>>

-----------------------------------------------------------------------------
(* _scale_pool, called by start and promote *)

StableUp(a, result) ==
    /\ At(a, "stableUp")
    /\ ScaleStable(call[a].on, call[a].plan.stable, result)
    /\ IF result = "done" THEN Goto(a, "canaryUp") ELSE Return(a)

\* Mutant: a canary that did not scale is recorded.
CanaryUpUnchecked(a, result) ==
    /\ At(a, "canaryUp")
    /\ ScaleCanary(call[a].on, call[a].plan.canary, result)
    /\ Goto(a, "merge")

CanaryUp(a, result) ==
    /\ At(a, "canaryUp")
    /\ ScaleCanary(call[a].on, call[a].plan.canary, result)
    /\ Goto(a, IF result = "done" THEN "merge" ELSE "undo")

\* Stable is put back; whether that works is not looked at.
Undo(a, result) ==
    /\ At(a, "undo")
    /\ ScaleStable(call[a].on, call[a].from, result)
    /\ Return(a)

CanaryFirst(a, result) ==
    /\ At(a, "canaryFirst")
    /\ ScaleCanary(call[a].on, call[a].plan.canary, result)
    /\ IF result = "done" THEN Goto(a, "stableDown") ELSE Return(a)

StableDown(a, result) ==
    /\ At(a, "stableDown")
    /\ ScaleStable(call[a].on, call[a].plan.stable, result)
    /\ IF result = "done" THEN Goto(a, "merge") ELSE Return(a)

-----------------------------------------------------------------------------
(* promote *)

PromoteLoads(a, c) ==
    /\ LoadState(c)[c].active
    /\ Begin(a, "promote", c, "health", RestingFromState(LoadState(c)[c], Total))

\* deployment_health(canary): a canary without replicas is never healthy, one
\* with replicas may be.
\* Mutant: the version that was found healthy is not remembered.
PromoteForgetsVersion(a) ==
    /\ Cmd(a, "promote") /\ At(a, "health")
    /\ canary[call[a].on] >= 1
    /\ Goto(a, "traffic")
    /\ UNCHANGED <<cluster, file, seen, faults>>

PromoteFindsHealthy(a) ==
    /\ Cmd(a, "promote") /\ At(a, "health")
    /\ canary[call[a].on] >= 1
    /\ call' = [call EXCEPT ![a].version = image[call[a].on].canary, ![a].at = "traffic"]
    /\ UNCHANGED <<cluster, file, seen, faults>>

PromoteFindsUnhealthy(a) ==
    /\ Cmd(a, "promote") /\ At(a, "health")
    /\ Return(a)
    /\ UNCHANGED <<cluster, file, seen, faults>>

\* The traffic gate.  web exports no metrics, so its traffic is unattributable.
\* Mutant: a healthy canary is enough.
GateAlwaysOpen(a, force) == UNCHANGED faults

GateOpen(a, force) ==
    \/ call[a].on = "web" /\ UNCHANGED faults
    \/ call[a].on = "api" /\ canary[call[a].on] >= 1 /\ (hits[call[a].on] \/ force)
          /\ UNCHANGED faults
    \/ call[a].on = "api" /\ canary[call[a].on] = 0 /\ UNCHANGED faults
    \/ call[a].on = "api" /\ Fault("unscraped")

\* The last step copies the canary's image to stable; any other re-plans.
PromotePassesGate(a, force) ==
    /\ Cmd(a, "promote") /\ At(a, "traffic")
    /\ GateOpen(a, force)
    /\ Goto(a, IF NextWeight(State(a), Step) >= 100 THEN "setImage" ELSE "plan")
    /\ UNCHANGED <<cluster, file, seen>>

PromoteRefused(a) ==
    /\ Cmd(a, "promote") /\ At(a, "traffic")
    /\ call[a].on = "api" /\ canary[call[a].on] >= 1 /\ ~hits[call[a].on]
    /\ Return(a)
    /\ UNCHANGED <<cluster, file, seen, faults>>

\* Mutant: the live count, which the rollout inflated, becomes the resting one.
PromoteRestsOnLive(a, live) ==
    /\ Cmd(a, "promote") /\ At(a, "plan")
    /\ ReadLive(stable[call[a].on], live)
    /\ LET rest == RestingFromLive(live)
           plan == PlanRollout(rest, NextWeight(State(a), Step), MaxPool(rest, Total))
       IN  call' = [call EXCEPT ![a].from = rest, ![a].plan = plan,
                                ![a].next = Active(plan, rest),
                                ![a].at = FirstScale(plan, rest)]
    /\ UNCHANGED <<cluster, file, seen>>

PromotePlans(a, live) ==
    /\ Cmd(a, "promote") /\ At(a, "plan")
    /\ ReadLive(stable[call[a].on], live)
    /\ LET rest == call[a].rest
           plan == PlanRollout(rest, NextWeight(State(a), Step), MaxPool(rest, Total))
           from == FirstCount(live, State(a).stable, rest)
       IN  call' = [call EXCEPT ![a].from = from, ![a].plan = plan,
                                ![a].next = Active(plan, rest),
                                ![a].at = FirstScale(plan, from)]
    /\ UNCHANGED <<cluster, file, seen>>

\* _finalize_promotion
FinishSetsImage(a, result) ==
    /\ At(a, "setImage")
    /\ SetImage(call[a].on, "stable", call[a].version, result)
    /\ IF result = "done" THEN Goto(a, "wait") ELSE Return(a)

\* _wait_rollout(stable)
FinishWaits(a, ready) ==
    /\ Cmd(a, "promote") /\ At(a, "wait")
    /\ IF ready THEN Goto(a, "cut") ELSE Return(a)
    /\ UNCHANGED <<cluster, file, seen, faults>>

-----------------------------------------------------------------------------
(* rollback, and the end of the last promote *)

RollbackLoads(a, c) ==
    /\ LoadState(c)[c].active
    /\ Begin(a, "rollback", c, "cut", RestingFromState(LoadState(c)[c], Total))

\* The canary goes to 0.  rollback and reset give up when that fails, the last
\* promote carries on.
Cut(a, result) ==
    /\ At(a, "cut")
    /\ ScaleCanary(call[a].on, 0, result)
    /\ IF result = "done" \/ Cmd(a, "promote")
       THEN Goto(a, IF Cmd(a, "reset") THEN "lookStable" ELSE "restore")
       ELSE Return(a)

\* Stable goes back to its resting count; the rollout is recorded as ended
\* whether or not that works.
Restore(a, result) ==
    /\ At(a, "restore")
    /\ ScaleStable(call[a].on, call[a].rest, result)
    /\ call' = [call EXCEPT ![a].next = Ended(State(a), call[a].rest), ![a].at = "merge"]

-----------------------------------------------------------------------------
(* reset *)

ResetLoads(a, c) ==
    /\ ~LoadState(c)[c].active
    /\ Begin(a, "reset", c, "look", 0)

\* Mutant: the record is asked whether there is a canary.
ResetTrustsRecord(a, live) ==
    /\ Cmd(a, "reset") /\ At(a, "look")
    /\ UNCHANGED faults
    /\ IF State(a).total > State(a).stable THEN Goto(a, "cut") ELSE Return(a)
    /\ UNCHANGED <<cluster, file, seen>>

ResetLooks(a, live) ==
    /\ Cmd(a, "reset") /\ At(a, "look")
    /\ ReadLive(canary[call[a].on], live)
    /\ IF live >= 1 THEN Goto(a, "cut") ELSE Return(a)
    /\ UNCHANGED <<cluster, file, seen>>

\* Only an entry of the history is added to the record.
ResetRecords(a) == call' = [call EXCEPT ![a].next = State(a), ![a].at = "merge"]

ResetLooksAtStable(a, live) ==
    /\ At(a, "lookStable")
    /\ ReadLive(stable[call[a].on], live)
    /\ IF live > DefaultResting THEN Goto(a, "deflate") ELSE ResetRecords(a)
    /\ UNCHANGED <<cluster, file, seen>>

ResetDeflates(a, result) ==
    /\ At(a, "deflate")
    /\ ScaleStable(call[a].on, DefaultResting, result)
    /\ ResetRecords(a)

-----------------------------------------------------------------------------
(* deploy *)

DeployBuilds(a, c, v) ==
    /\ call[a] = Idle
    /\ "deploy" \in Commands
    /\ call' = [call EXCEPT ![a] = [Idle EXCEPT !.cmd = "deploy", !.on = c,
                                                !.at = "setCanaryImage", !.version = v]]
    /\ UNCHANGED <<cluster, file, seen, faults>>

DeploySetsImage(a, result) ==
    /\ At(a, "setCanaryImage")
    /\ SetImage(call[a].on, "canary", call[a].version, result)
    /\ IF result = "done" THEN Goto(a, "waitCanary") ELSE Return(a)

DeployWaits(a, ready) ==
    /\ At(a, "waitCanary")
    /\ IF ready THEN Goto(a, "load") ELSE Return(a)
    /\ UNCHANGED <<cluster, file, seen, faults>>

\* Only an entry of the history is added to the record.
DeployLoads(a) ==
    /\ At(a, "load")
    /\ LET c == call[a].on IN
       call' = [call EXCEPT ![a].loaded = LoadState(c), ![a].next = LoadState(c)[c],
                            ![a].at = "merge"]
    /\ UNCHANGED <<cluster, file, seen, faults>>

-----------------------------------------------------------------------------
(* evaluate *)

EvaluateLoads(a, c) ==
    /\ LoadState(c)[c].active
    /\ Begin(a, "evaluate", c, "measure", 0)

EvaluateHolds(a) ==
    /\ At(a, "measure")
    /\ Return(a)
    /\ UNCHANGED <<cluster, file, seen, faults>>

\* A breach needs enough requests on the canary's own Pods.
EvaluateBreaches(a) ==
    /\ At(a, "measure")
    /\ call[a].on = "api" /\ canary["api"] >= 1 /\ hits["api"]
    /\ Goto(a, "reload")
    /\ UNCHANGED <<cluster, file, seen, faults>>

\* It runs rollback, which loads the state again and is given no fallback count.
EvaluateRollsBack(a) ==
    /\ At(a, "reload")
    /\ LET c == call[a].on IN
       IF LoadState(c)[c].active
       THEN call' = [call EXCEPT ![a] = [Idle EXCEPT
                        !.cmd = "rollback", !.on = c, !.at = "cut", !.loaded = LoadState(c),
                        !.rest = RestingFromState(LoadState(c)[c], NoCeiling)]]
       ELSE Return(a)
    /\ UNCHANGED <<cluster, file, seen, faults>>

-----------------------------------------------------------------------------
(* _save_state *)

\* What will be written: api puts back the whole file as it loaded it, another
\* component merges its entry into the file as it is now.
\* Mutant: a component writes its own entry and drops the others.
MergeAlone(a) ==
    /\ At(a, "merge")
    /\ call' = [call EXCEPT ![a].loaded = [NoStates EXCEPT ![call[a].on] = call[a].next],
                            ![a].at = "truncate"]
    /\ UNCHANGED <<cluster, file, seen, faults>>

Merge(a) ==
    /\ At(a, "merge")
    /\ LET c == call[a].on
           base == IF c = "api" THEN call[a].loaded ELSE Readable
       IN  call' = [call EXCEPT ![a].loaded = [base EXCEPT ![c] = call[a].next],
                                ![a].at = "truncate"]
    /\ UNCHANGED <<cluster, file, seen, faults>>

\* Path.write_text opens the file, which empties it, ...
Truncate(a) ==
    /\ At(a, "truncate")
    /\ text' = "none"
    /\ recorded' = NoStates
    /\ Goto(a, "write")
    /\ UNCHANGED <<cluster, seen, faults>>

\* ... and writes it from the start: over what another caller has written in
\* between, whose tail may stay.
Write(a) ==
    /\ At(a, "write")
    /\ \/ text' = "json" /\ recorded' = call[a].loaded
       \/ text # "none" /\ text' = "garbage" /\ recorded' = NoStates
    /\ saved' = [saved EXCEPT ![call[a].on] = call[a].next]
    /\ Return(a)
    /\ UNCHANGED <<cluster, home, tried, faults>>

-----------------------------------------------------------------------------
(* The environment *)

\* A request reaches a canary Pod.
Serve(c) ==
    /\ canary[c] >= 1
    /\ hits' = [hits EXCEPT ![c] = TRUE]
    /\ tried' = [tried EXCEPT ![c] = @ \union {image[c].canary}]
    /\ UNCHANGED <<stable, canary, image, file, call, faults, home, saved>>

\* No command is under way on c, and the file is not being rewritten.
Settled(c) == \A a \in Callers : call[a].on # c /\ ~At(a, "write")

\* An operator scales stable by hand between rollouts.
ScaleByHand(c, n) ==
    /\ Settled(c) /\ ~Readable[c].active
    /\ stable' = [stable EXCEPT ![c] = n]
    /\ home' = [home EXCEPT ![c] = n]
    /\ UNCHANGED <<canary, image, hits, file, call, faults, tried, saved>>

Crash(a) ==
    /\ call[a] # Idle
    /\ Fault("crash")
    /\ saved' = IF At(a, "write") THEN NoStates ELSE saved
    /\ Return(a)
    /\ UNCHANGED <<cluster, file, home, tried>>

\* The Pod that holds the file is replaced, with every call it was running.
LoseFile ==
    /\ Fault("file_lost")
    /\ text' = "none"
    /\ recorded' = NoStates
    /\ call' = [a \in Callers |-> Idle]
    /\ saved' = NoStates
    /\ UNCHANGED <<cluster, home, tried>>

-----------------------------------------------------------------------------

Init ==
    /\ stable = [c \in Components |-> DefaultResting]
    /\ canary = [c \in Components |-> 0]
    /\ image = [c \in Components |-> [stable |-> "v0", canary |-> "v0"]]
    /\ hits = [c \in Components |-> FALSE]
    /\ text = "none"
    /\ recorded = NoStates
    /\ call = [a \in Callers |-> Idle]
    /\ faults = 0
    /\ home = [c \in Components |-> DefaultResting]
    /\ tried = [c \in Components |-> {"v0"}]
    /\ saved = NoStates

\* Live counts a read may return.
Live(c) == {Unread, stable[c], canary[c]}

Loads(a, c) ==
    \/ StartLoads(a, c) \/ PromoteLoads(a, c) \/ RollbackLoads(a, c)
    \/ ResetLoads(a, c) \/ EvaluateLoads(a, c)
    \/ \E v \in Versions : DeployBuilds(a, c, v)

Scales(a) ==
    \E result \in Results :
        \/ StableUp(a, result) \/ CanaryUp(a, result) \/ Undo(a, result)
        \/ CanaryFirst(a, result) \/ StableDown(a, result)
        \/ Cut(a, result) \/ Restore(a, result) \/ ResetDeflates(a, result)

Images(a) ==
    \E result \in Results : FinishSetsImage(a, result) \/ DeploySetsImage(a, result)

Reads(a) ==
    \/ call[a] # Idle /\ \E live \in Live(call[a].on) :
          \/ \E w \in Weights : StartPlans(a, w, live)
          \/ PromotePlans(a, live)
          \/ ResetLooks(a, live)
          \/ ResetLooksAtStable(a, live)
    \/ PromoteFindsHealthy(a) \/ PromoteFindsUnhealthy(a)
    \/ \E force \in Forces : PromotePassesGate(a, force)
    \/ PromoteRefused(a)
    \/ \E ready \in BOOLEAN : FinishWaits(a, ready) \/ DeployWaits(a, ready)
    \/ EvaluateHolds(a) \/ EvaluateBreaches(a) \/ EvaluateRollsBack(a)

Saves(a) == DeployLoads(a) \/ Merge(a) \/ Truncate(a) \/ Write(a)

Proceeds(a) == Scales(a) \/ Images(a) \/ Reads(a) \/ Saves(a)

Disturbs ==
    \/ \E c \in Components : Serve(c) \/ \E n \in HandCounts : ScaleByHand(c, n)
    \/ \E a \in Callers : Crash(a)
    \/ LoseFile

Next ==
    \/ \E a \in Callers, c \in Components : Loads(a, c)
    \/ \E a \in Callers : Proceeds(a)
    \/ Disturbs

Spec == Init /\ [][Next]_vars

\* Every subprocess is bounded, so a call under way moves on; the operator who
\* wants a rollout over keeps issuing the command that ends it.
FairSpec ==
    /\ Spec
    /\ \A a \in Callers : WF_vars(Proceeds(a))
    /\ \A c \in Components :
          /\ SF_vars(\E a \in Callers : RollbackLoads(a, c))
          /\ SF_vars(\E a \in Callers : ResetLoads(a, c))

-----------------------------------------------------------------------------
(* Properties *)

Counts == Nat \ {0}

States == [active : BOOLEAN, weight : Nat, total : Nat, resting : Nat, stable : Nat]
Plans  == [canary : Nat, stable : Nat, weight : Nat]

VersionNames == Versions \union {"v0"}

\* The phases of _scale_pool that go towards the plan.
ScalesToPlan == {"stableUp", "canaryUp", "canaryFirst", "stableDown"}

\* The phases in which a call remembers a version it may set.
HoldsVersion == {"traffic", "setImage", "setCanaryImage"}

Phases == ScalesToPlan \union
    {"idle", "plan", "undo", "health", "traffic", "setImage", "wait", "cut", "restore", "look",
     "lookStable", "deflate", "setCanaryImage", "waitCanary", "load", "measure", "reload",
     "merge", "truncate", "write"}

Calls == [cmd : CommandNames \union {"none"}, on : Components \union {"none"}, at : Phases,
          loaded : [Components -> States], next : States, plan : Plans, rest : Nat, from : Nat,
          version : VersionNames \union {"none"}]

CallsOK ==
    /\ call \in [Callers -> Calls]
    /\ \A a \in Callers :
          /\ call[a].on = "none" <=> call[a].at = "idle"
          /\ call[a].at \in HoldsVersion => call[a].version \in VersionNames

ClusterOK ==
    /\ stable \in [Components -> Nat]
    /\ canary \in [Components -> Nat]
    /\ image \in [Components -> [stable : VersionNames, canary : VersionNames]]
    /\ hits \in [Components -> BOOLEAN]

FileOK ==
    /\ text \in {"json", "none", "garbage"}
    /\ recorded \in [Components -> States]

SeenOK ==
    /\ home \in [Components -> Counts]
    /\ tried \in [Components -> SUBSET VersionNames]
    /\ saved \in [Components -> States]

TypeOK ==
    /\ ClusterOK /\ FileOK /\ SeenOK /\ CallsOK
    /\ faults \in Nat /\ faults <= MaxFaults

\* Every count a call may yet scale stable to keeps a stable replica.
CountsInHand ==
    \A a \in Callers :
        /\ call[a].cmd \in {"promote", "rollback"} => call[a].rest >= 1
        /\ call[a].at = "cut" => call[a].cmd \in {"promote", "rollback", "reset"}
        /\ call[a].at = "restore" => call[a].cmd \in {"promote", "rollback"}
        /\ call[a].at \in ScalesToPlan \union {"undo"} =>
               call[a].plan.stable >= 1 /\ call[a].from >= 1

\* "A stable with 0 replicas is a full cutover": whatever the interleaving of
\* the commands, and whatever fails, no command takes away the last stable
\* replica of a component.
StableServes == \A c \in Components : stable[c] >= 1

\* Commands that run one at a time, and do not fail, leave the record and the
\* cluster in agreement.
RecordMatchesCluster ==
    faults = 0 => \A c \in Components : Settled(c) =>
        LET s == Readable[c] IN
        s.active =>
            /\ stable[c] = s.stable
            /\ canary[c] = s.total - s.stable
            /\ s.resting = home[c]

\* Between rollouts a component is back at the replicas it had before: what a
\* rollout borrows it gives back, on stable and on the canary, as long as
\* nothing fails.
BorrowedIsReturned ==
    faults = 0 => \A c \in Components : Settled(c) /\ ~Readable[c].active =>
        stable[c] = home[c] /\ canary[c] = 0

\* A rollout on record has Pods on both tracks and at least the resting
\* capacity, also when commands on it were refused half-way.
ActiveRolloutServes ==
    \A c \in Components : Settled(c) /\ Readable[c].active =>
        /\ canary[c] >= 1
        /\ stable[c] + canary[c] >= Readable[c].resting

\* Only a version that requests have reached as canary becomes stable, unless
\* the promotion is forced or the traffic cannot be measured.
PromotedHasServed ==
    "api" \in Components => image["api"].stable \in tried["api"]

\* A call on c scales towards its plan.  It has the count of stable it goes by from the
\* cluster: one that could not read it goes by the record, or by what the manifests ship.
Rescaled(a, c) ==
    /\ call[a].on = c /\ call[a].at \in ScalesToPlan
    /\ call[a].at \in {"stableUp", "canaryFirst"} => call[a].from = stable[c]

\* While start and promote scale the two tracks, one and then the other, the canary's share
\* of the pool goes over neither what it was nor what is planned, and the pool not below the
\* smaller of what it was and what is planned (_scale_pool).
ScalesStayBetween ==
    [][\A a \in Callers, c \in Components :
         Rescaled(a, c) /\ <<stable, canary>>' # <<stable, canary>> =>
            /\ \/ canary'[c] * (canary[c] + stable[c]) <= canary[c] * (canary'[c] + stable'[c])
               \/ canary'[c] * Pool(call[a].plan) <= call[a].plan.canary * (canary'[c] + stable'[c])
            /\ \/ canary'[c] + stable'[c] >= canary[c] + stable[c]
               \/ canary'[c] + stable'[c] >= Pool(call[a].plan)
      ]_vars

\* A rollout can always be ended: rollback while it is on record, reset when the
\* record was lost or never written, take the canary to 0.
CanaryCanBeEnded == \A c \in Components : canary[c] > 0 ~> canary[c] = 0

\* "api's state lives at the file's top level; other components' state lives
\* nested under a components key so the two never collide": what the file says
\* of a component is what a command on that component wrote last.
NeverCollide == text = "json" => recorded = saved

=============================================================================
