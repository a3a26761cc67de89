------------------------------- MODULE MacHosts -------------------------------
(***************************************************************************)
(* The Dedicated Hosts of EC2 Mac deployments (cloud_mac.py).  A host bills *)
(* from its allocation until it is released, and AWS refuses to release it *)
(* for the first day.  `nyxgpt cloud deploy` allocates a host or takes the  *)
(* recorded one up again, `nyxgpt cloud destroy` terminates the Mac and     *)
(* leaves a schedule in AWS that releases the host when it may be released, *)
(* and `nyxgpt cloud status` asks AWS which hosts are still there.          *)
(*                                                                         *)
(* What this machine knows of its hosts is in four places: the Mac block    *)
(* and the ledger of state.json, the release stacks (a tfstate and a tfvars *)
(* per host), and the tfstate of the Mac itself.  No lock guards them.  A    *)
(* step is one call of AWS or terraform, or one rewrite of a file.          *)
(***************************************************************************)
EXTENDS Integers, FiniteSets

CONSTANTS
    Hosts, NoHost,
    Minimum,         \* AWS's 24 hours: no release before
    Buffer,          \* RELEASE_BUFFER_MINUTES
    MaxWait,         \* the longest an operator takes to confirm, and AWS to allocate
    Leftovers,       \* the hosts earlier versions may have left in the ledger, unscheduled
    Faults,          \* what may go wrong
    Heeds,           \* a deploy that stopped short is deployed again before it is destroyed
    Apart,           \* no release while a deploy is at work, or as a status check notes an answer
    MaxFaults, MaxCommands, MaxChecks, MaxClock   \* bounds of an instance

FaultKinds == {"unreachable", "apply", "outputs", "import", "schedule", "destroy", "killed"}

ASSUME MacHostsAssumption ==
    /\ NoHost \notin Hosts
    /\ Minimum \in Nat \ {0} /\ Buffer \in Nat /\ MaxWait \in Nat
    /\ Leftovers \subseteq SUBSET Hosts
    /\ \A old \in Leftovers : Cardinality(old) \in 0 .. MaxCommands
    /\ Faults \subseteq FaultKinds
    /\ Heeds \in BOOLEAN /\ Apart \in BOOLEAN
    /\ MaxFaults \in Nat /\ MaxCommands \in Nat /\ MaxChecks \in Nat /\ MaxClock \in Nat

VARIABLES
    aws,        \* AWS: each host is "free" (not this operator's), "allocated" or "released"
    since,      \* when AWS allocated it
    mac,        \* the host the Mac instance runs on
    sched,      \* when the one-shot schedule of a host fires; Never when there is none
    releasing,  \* hosts whose release state machine runs
    record,     \* state.json: the Mac block
    ledger,     \* state.json: the host ledger, release times by host
    stacks,     \* hosts with a release stack on this machine
    tfFile,     \* the tfstate of the Mac root exists
    tf,         \* the host it holds
    proc,       \* the command an operator runs, and a status check
    clock, faults, commands, checks,
    dropped     \* hosts whose block was cleared on the news of another host; nothing reads it

cloud == <<aws, since, mac, sched, releasing>>
disk  == <<record, ledger, stacks, tfFile, tf>>
vars  == <<cloud, disk, proc, clock, faults, commands, checks, dropped>>

Never == -1
Times == 0 .. MaxClock + Minimum + Buffer

NoRecord == [host |-> NoHost, due |-> Never, present |-> "unknown"]

\* Mutants: no buffer after the minimum; the minimum counted twice.
ReleaseAtMinimum(allocated) == allocated + Minimum
ReleaseDelayedTwice(allocated) == allocated + 2 * Minimum + Buffer

\* release_time
ReleaseTime(allocated) == allocated + Minimum + Buffer

\* tracked_hosts, pending_releases: everything state.json or a release stack names.
Tracked == DOMAIN ledger \union stacks \union ({record.host} \ {NoHost})

Remembered(h, due) == [x \in DOMAIN ledger \union {h} |-> IF x = h THEN due ELSE ledger[x]]

-----------------------------------------------------------------------------
(* Commands.  What a command works on: the host, the release time it has computed
   for it, AWS's answer, when it computed the time of an allocation (asked) and whether
   the operator has confirmed one.
   todo are the hosts of the loop it is in, current the recorded host as the loop
   began, and gone says that the loop found that host released. *)

Idle == [cmd |-> "none", at |-> "idle", todo |-> {}, host |-> NoHost, due |-> Never,
         answer |-> "unknown", current |-> NoHost, gone |-> FALSE, asked |-> 0, agreed |-> FALSE]

Operator == "operator"
Status   == "status"

Places == {"idle", "survey", "hosts", "answer", "unschedule", "forget", "clear", "prompt", "heal",
           "adopt", "apply", "outputs", "record", "ledger", "schedule", "backlog", "terminate"}

At(p, at) == proc[p].at = at
Becomes(p, new) == proc' = [proc EXCEPT ![p] = new]
Moves(p, at) == proc' = [proc EXCEPT ![p].at = at]
Stops(p) == Becomes(p, Idle)

Fault(kind) == kind \in Faults /\ faults < MaxFaults /\ faults' = faults + 1

\* AWS's answer about a host, "unknown" when it could not be asked.
Truth(h) == IF h \in Hosts /\ aws[h] = "allocated" THEN "yes" ELSE "no"
Ask(h, answer) ==
    \/ answer = Truth(h) /\ UNCHANGED faults
    \/ answer = "unknown" /\ Fault("unreachable")

\* deploy and destroy start with reconcile_released_hosts, and so does a status check.
\* destroy calls the teardown when a record or a tfstate says there is something to tear down.
Start(cmd) ==
    /\ At(Operator, "idle") /\ commands < MaxCommands
    /\ cmd = "destroy" =>
         /\ record # NoRecord \/ tfFile
         /\ Heeds => tf \in DOMAIN ledger \union {NoHost}
    /\ Becomes(Operator, [Idle EXCEPT !.cmd = cmd, !.at = "survey"])
    /\ commands' = commands + 1
    /\ UNCHANGED <<cloud, disk, clock, faults, checks, dropped>>

Check ==
    /\ At(Status, "idle") /\ checks < MaxChecks
    /\ Becomes(Status, [Idle EXCEPT !.cmd = "status", !.at = "survey"])
    /\ checks' = checks + 1
    /\ UNCHANGED <<cloud, disk, clock, faults, commands, dropped>>

\* The command's process is killed.
Killed(p) ==
    /\ ~At(p, "idle") /\ Fault("killed") /\ Stops(p)
    /\ UNCHANGED <<cloud, disk, clock, commands, checks, dropped>>

-----------------------------------------------------------------------------
(* reconcile_released_hosts *)

Survey(p) ==
    /\ At(p, "survey")
    /\ Becomes(p, [proc[p] EXCEPT !.at = "hosts", !.todo = Tracked, !.current = record.host])
    /\ UNCHANGED <<cloud, disk, clock, faults, commands, checks, dropped>>

AskAbout(p) ==
    /\ At(p, "hosts")
    /\ \E h \in proc[p].todo, answer \in {"yes", "no", "unknown"} :
         /\ Ask(h, answer)
         /\ Becomes(p, [proc[p] EXCEPT !.at = "answer", !.todo = @ \ {h}, !.host = h,
                                       !.answer = answer])
    /\ UNCHANGED <<cloud, disk, clock, commands, checks, dropped>>

\* Mutant: a host AWS could not be asked about counts as gone.
GoneUnlessYes(answer) == answer # "yes"

\* Only a definite no forgets a host.
Gone(answer) == answer = "no"

NextHost(p, gone) ==
    Becomes(p, [proc[p] EXCEPT !.at = "hosts", !.host = NoHost, !.answer = "unknown",
                               !.gone = @ \/ gone])

\* _record_verification and _remember_verification.  The block is amended when it still
\* describes the host; the ledger gets an entry unless AWS says the host is gone.
NoteAnswer(p) ==
    /\ At(p, "answer")
    /\ LET h == proc[p].host IN
         /\ record' = IF h = proc[p].current /\ h = record.host
                      THEN [record EXCEPT !.present = proc[p].answer] ELSE record
         /\ ledger' = IF h \in DOMAIN ledger \/ proc[p].answer = "no"
                      THEN ledger ELSE Remembered(h, Never)
    /\ IF ~Gone(proc[p].answer) THEN NextHost(p, FALSE)
       ELSE Moves(p, IF p = Status THEN "forget" ELSE "unschedule")
    /\ UNCHANGED <<cloud, stacks, tfFile, tf, clock, faults, commands, checks, dropped>>

\* destroy_release_stack, best effort.
DropStack(p) ==
    /\ At(p, "unschedule")
    /\ \/ /\ stacks' = stacks \ {proc[p].host}
          /\ sched' = IF proc[p].host \in stacks THEN [sched EXCEPT ![proc[p].host] = Never]
                                                 ELSE sched
          /\ UNCHANGED faults
       \/ Fault("destroy") /\ UNCHANGED <<stacks, sched>>
    /\ Moves(p, "forget")
    /\ UNCHANGED <<aws, since, mac, releasing, record, ledger, tfFile, tf, clock, commands, checks, dropped>>

\* forget_ledger_host
Forget(p) ==
    /\ At(p, "forget")
    /\ ledger' = [h \in DOMAIN ledger \ {proc[p].host} |-> ledger[h]]
    /\ IF proc[p].host = proc[p].current THEN Moves(p, "clear") ELSE NextHost(p, FALSE)
    /\ UNCHANGED <<cloud, record, stacks, tfFile, tf, clock, faults, commands, checks, dropped>>

\* clear_mac_record drops the block, whatever host it describes by now.
ClearRecord(p) ==
    /\ At(p, "clear")
    /\ record' = NoRecord
    /\ IF p = Status THEN UNCHANGED <<tfFile, tf>> ELSE tfFile' = FALSE /\ tf' = NoHost
    /\ dropped' = dropped \union ({record.host} \ {NoHost, proc[p].host})
    /\ NextHost(p, TRUE)
    /\ UNCHANGED <<cloud, ledger, stacks, clock, faults, commands, checks>>

Reconciled(p) == At(p, "hosts") /\ proc[p].todo = {}

CheckDone ==
    /\ Reconciled(Status) /\ Stops(Status)
    /\ UNCHANGED <<cloud, disk, clock, faults, commands, checks, dropped>>

-----------------------------------------------------------------------------
(* allocate *)

o == proc[Operator]
Fresh == [Idle EXCEPT !.cmd = o.cmd]    \* the command, past its reconciliation
Deploying(at) == o.cmd = "deploy" /\ o.at = at
DeployReconciled == Deploying("hosts") /\ o.todo = {}

Recorded == record # NoRecord /\ tfFile

\* The record may skip the disclosure only when AWS has confirmed the host in this run.
TakeUp ==
    /\ DeployReconciled /\ Recorded
    /\ IF record.present = "yes"
       THEN Becomes(Operator, [Fresh EXCEPT !.at = "adopt", !.host = record.host, !.due = record.due])
       ELSE Stops(Operator)
    /\ UNCHANGED <<cloud, disk, clock, faults, commands, checks, dropped>>

\* Mutant: a host AWS could not be asked about is discarded from the tfstate.
DiscardsUnlessYes(answer) == answer # "yes"

Discards(answer) == answer = "no"

\* Terraform holds a host no record names: an earlier deploy stopped short of recording it.
TakeUpOrphan ==
    /\ DeployReconciled /\ ~Recorded /\ tf # NoHost
    /\ \E answer \in {"yes", "no", "unknown"} :
         /\ Ask(tf, answer)
         /\ IF answer = "unknown" THEN Stops(Operator)
            ELSE Becomes(Operator, [Fresh EXCEPT !.at = IF answer = "yes" THEN "heal" ELSE "prompt",
                                                 !.host = tf, !.asked = clock, !.due = ReleaseTime(clock)])
         /\ IF Discards(answer) THEN tfFile' = FALSE /\ tf' = NoHost ELSE UNCHANGED <<tfFile, tf>>
    /\ UNCHANGED <<cloud, record, ledger, stacks, clock, commands, checks, dropped>>

\* _heal_orphaned_record.  When the host was allocated is not known: it is taken to be now.
Heal ==
    /\ Deploying("heal")
    /\ record' = [host |-> o.host, due |-> o.due, present |-> "yes"]
    /\ ledger' = Remembered(o.host, o.due)
    /\ Becomes(Operator, [o EXCEPT !.at = "adopt", !.asked = 0])
    /\ UNCHANGED <<cloud, stacks, tfFile, tf, clock, faults, commands, checks, dropped>>

\* The release time is computed before the operator is asked.
Plan ==
    /\ DeployReconciled /\ ~Recorded /\ tf = NoHost
    /\ Becomes(Operator, [Fresh EXCEPT !.at = "prompt", !.asked = clock,
                                       !.due = ReleaseTime(clock)])
    /\ UNCHANGED <<cloud, disk, clock, faults, commands, checks, dropped>>

\* confirm_allocation
Confirm ==
    /\ Deploying("prompt")
    /\ \/ Stops(Operator)
       \/ Becomes(Operator, [o EXCEPT !.at = "apply", !.agreed = TRUE])
    /\ UNCHANGED <<cloud, disk, clock, faults, commands, checks, dropped>>

\* Mutant: the host is left to terraform apply.
AdoptNothing ==
    /\ Deploying("adopt") /\ Moves(Operator, "apply")
    /\ UNCHANGED <<cloud, disk, clock, faults, commands, checks, dropped>>

\* _adopt_allocated_host: import the host unless the tfstate holds it.
Adopt ==
    /\ Deploying("adopt")
    /\ \/ tf = o.host /\ UNCHANGED <<tf, tfFile, faults>> /\ Moves(Operator, "apply")
       \/ /\ tf = NoHost /\ Truth(o.host) = "yes"
          /\ tf' = o.host /\ tfFile' = TRUE
          /\ UNCHANGED faults /\ Moves(Operator, "apply")
       \/ tf # o.host /\ Fault("import") /\ UNCHANGED <<tf, tfFile>> /\ Stops(Operator)
       \/ /\ tf # o.host /\ (tf # NoHost \/ Truth(o.host) = "no")
          /\ UNCHANGED <<tf, tfFile, faults>> /\ Stops(Operator)
    /\ UNCHANGED <<cloud, record, ledger, stacks, clock, commands, checks, dropped>>

\* A deploy that has nothing to record reports the error of terraform and ends; one that
\* was allocating looks first whether the apply left a host behind.
Fails(host) ==
    IF o.agreed /\ host # NoHost THEN Becomes(Operator, [o EXCEPT !.at = "record", !.host = host])
                                 ELSE Stops(Operator)

\* terraform apply, which allocates a host unless the one it holds is there.
Apply ==
    /\ Deploying("apply")
    /\ \E h \in {x \in Hosts : IF Truth(tf) = "yes" THEN x = tf ELSE aws[x] = "free"} :
         /\ IF h = tf THEN UNCHANGED <<aws, since>>
            ELSE aws' = [aws EXCEPT ![h] = "allocated"] /\ since' = [since EXCEPT ![h] = clock]
         /\ tf' = h /\ tfFile' = TRUE
         /\ \/ mac' = h /\ UNCHANGED faults /\ Moves(Operator, "outputs")
            \/ Fault("apply") /\ UNCHANGED mac /\ Fails(h)
    /\ UNCHANGED <<sched, releasing, record, ledger, stacks, clock, commands, checks, dropped>>

\* AWS has no host to give.
NoCapacity ==
    /\ Deploying("apply") /\ Truth(tf) = "no"
    /\ \A h \in Hosts : aws[h] # "free"
    /\ tf' = NoHost /\ tfFile' = TRUE /\ Fails(NoHost)
    /\ UNCHANGED <<cloud, record, ledger, stacks, clock, faults, commands, checks, dropped>>

\* The host of the outputs is recorded.  A deploy that allocated stops without one; one that
\* took a host up records that host, with a fresh release time when terraform replaced it.
Outputs ==
    /\ Deploying("outputs")
    /\ \/ /\ UNCHANGED faults
          /\ Becomes(Operator, [o EXCEPT !.at = "record", !.host = tf, !.answer = "yes", !.asked = 0,
               !.due = IF o.agreed \/ tf = o.host THEN @ ELSE ReleaseTime(clock)])
       \/ /\ Fault("outputs")
          /\ IF o.agreed THEN Stops(Operator) ELSE Moves(Operator, "record")
    /\ UNCHANGED <<cloud, disk, clock, commands, checks, dropped>>

\* record_mac_host, then remember_host.
WriteRecord ==
    /\ Deploying("record")
    /\ record' = [host |-> o.host, due |-> o.due, present |-> o.answer]
    /\ Moves(Operator, "ledger")
    /\ UNCHANGED <<cloud, ledger, stacks, tfFile, tf, clock, faults, commands, checks, dropped>>

WriteLedger ==
    /\ Deploying("ledger")
    /\ ledger' = Remembered(o.host, o.due)
    /\ Stops(Operator)
    /\ UNCHANGED <<cloud, record, stacks, tfFile, tf, clock, faults, commands, checks, dropped>>

-----------------------------------------------------------------------------
(* teardown *)

Destroying(at) == o.cmd = "destroy" /\ o.at = at
Due(h) == IF h = record.host /\ record.due # Never THEN record.due
          ELSE IF h \in DOMAIN ledger /\ ledger[h] # Never THEN ledger[h] ELSE ReleaseTime(clock)

\* Mutant: only this deployment's host.
OutstandingHere == {record.host} \ ({NoHost} \union stacks)

Outstanding == Tracked \ stacks

\* No deployment is left here: its host has just been found released, or there is neither
\* record nor tfstate.  Other hosts without a release still get one.
NothingDeployed ==
    \/ o.gone /\ Outstanding = {}
    \/ record = NoRecord /\ ~tfFile

TeardownBacklog ==
    /\ Destroying("hosts") /\ o.todo = {} /\ NothingDeployed
    /\ Becomes(Operator, IF Outstanding = {} THEN Idle
                         ELSE [Fresh EXCEPT !.at = "backlog", !.todo = Outstanding])
    /\ UNCHANGED <<cloud, disk, clock, faults, commands, checks, dropped>>

\* Mutant: every other host's stack is cleaned up, without asking AWS.
FinishedUnasked == stacks \ {record.host}

\* _cleanup_finished_release_stacks
Finished == {h \in stacks \ {record.host} : Truth(h) = "no"}

\* Stacks of released hosts are cleaned up, then the recorded host and the hosts without a
\* release stack are scheduled.
Teardown ==
    /\ Destroying("hosts") /\ o.todo = {} /\ ~NothingDeployed
    /\ \E gone \in {Finished, {}} :
         /\ IF gone = Finished THEN UNCHANGED faults ELSE Fault("unreachable")
         /\ stacks' = stacks \ gone
         /\ sched' = [h \in Hosts |-> IF h \in gone THEN Never ELSE sched[h]]
         /\ Becomes(Operator, [Fresh EXCEPT !.at = "schedule",
                 !.todo = Outstanding \union ({record.host} \ {NoHost})])
    /\ UNCHANGED <<aws, since, mac, releasing, record, ledger, tfFile, tf, clock, commands, checks, dropped>>

\* _schedule_one.  Without a Slack token nothing is applied; an apply that fails may leave
\* the stack's files without its schedule.
Schedule ==
    /\ Destroying("schedule") \/ Destroying("backlog")
    /\ \E h \in o.todo :
         /\ proc' = [proc EXCEPT ![Operator].todo = @ \ {h}]
         /\ \/ /\ stacks' = stacks \union {h}
               /\ sched' = [sched EXCEPT ![h] = Due(h)]
               /\ ledger' = Remembered(h, Due(h))
               /\ UNCHANGED faults
            \/ /\ Fault("schedule")
               /\ stacks' \in {stacks, stacks \union {h}}
               /\ UNCHANGED <<sched, ledger>>
    /\ UNCHANGED <<aws, since, mac, releasing, record, tfFile, tf, clock, commands, checks, dropped>>

BacklogDone ==
    /\ Destroying("backlog") /\ o.todo = {} /\ Stops(Operator)
    /\ UNCHANGED <<cloud, disk, clock, faults, commands, checks, dropped>>

\* forget_host takes the host out of the tfstate, so that terraform destroy, which follows,
\* cannot try to release it.
ForgetHost ==
    /\ Destroying("schedule") /\ o.todo = {}
    /\ \/ tf' = NoHost /\ UNCHANGED faults /\ Moves(Operator, "terminate")
       \/ Fault("destroy") /\ UNCHANGED tf /\ Stops(Operator)
    /\ UNCHANGED <<cloud, record, ledger, stacks, tfFile, clock, commands, checks, dropped>>

Terminate ==
    /\ Destroying("terminate")
    /\ \/ mac' = NoHost /\ UNCHANGED faults
       \/ Fault("destroy") /\ UNCHANGED mac
    /\ Stops(Operator)
    /\ UNCHANGED <<aws, since, sched, releasing, disk, clock, commands, checks, dropped>>

-----------------------------------------------------------------------------
(* AWS and time *)

\* Time passes while a command waits for its operator or for AWS, and between commands: the
\* other steps are short beside the day.  Prompt and allocation are over within MaxWait.
Tick ==
    /\ clock < MaxClock
    /\ o.at \in {"idle", "hosts", "prompt", "apply", "schedule", "terminate"}
    /\ (Deploying("prompt") \/ (Deploying("apply") /\ o.agreed))
          => clock < o.asked + MaxWait
    /\ clock' = clock + 1
    /\ UNCHANGED <<cloud, disk, proc, faults, commands, checks, dropped>>

\* The schedule fires once and deletes itself.
Fire(h) ==
    /\ sched[h] # Never /\ clock >= sched[h]
    /\ Apart => o.cmd # "deploy"
    /\ sched' = [sched EXCEPT ![h] = Never]
    /\ releasing' = releasing \union {h}
    /\ UNCHANGED <<aws, since, mac, disk, proc, clock, faults, commands, checks, dropped>>

Releasable(h) == aws[h] = "allocated" /\ mac # h /\ clock >= since[h] + Minimum

Release(h) ==
    /\ h \in releasing /\ Releasable(h)
    /\ Apart => o.cmd # "deploy" /\ ~(At(Status, "answer") /\ proc[Status].host = h)
    /\ aws' = [aws EXCEPT ![h] = "released"]
    /\ releasing' = releasing \ {h}
    /\ UNCHANGED <<since, mac, sched, disk, proc, clock, faults, commands, checks, dropped>>

\* Four hours of refusals outlast a destroy.
GiveUp(h) ==
    /\ h \in releasing /\ ~Releasable(h) /\ o.cmd # "destroy"
    /\ releasing' = releasing \ {h}
    /\ UNCHANGED <<aws, since, mac, sched, disk, proc, clock, faults, commands, checks, dropped>>

-----------------------------------------------------------------------------
Init ==
    /\ \E old \in Leftovers :
         /\ aws = [h \in Hosts |-> IF h \in old THEN "allocated" ELSE "free"]
         /\ ledger = [h \in old |-> Never]
         /\ commands = Cardinality(old)    \* the deploys that left them
    /\ since = [h \in Hosts |-> 0]
    /\ mac = NoHost /\ sched = [h \in Hosts |-> Never] /\ releasing = {}
    /\ record = NoRecord /\ stacks = {}
    /\ tfFile = FALSE /\ tf = NoHost
    /\ proc = [p \in {Operator, Status} |-> Idle]
    /\ clock = 0 /\ faults = 0 /\ checks = 0 /\ dropped = {}

Reconcile(p) == Survey(p) \/ AskAbout(p) \/ NoteAnswer(p) \/ DropStack(p) \/ Forget(p) \/ ClearRecord(p)
Deploy  == TakeUp \/ TakeUpOrphan \/ Heal \/ Plan \/ Confirm \/ Adopt \/ Apply \/ NoCapacity
             \/ Outputs \/ WriteRecord \/ WriteLedger
Destroy == TeardownBacklog \/ Teardown \/ Schedule \/ BacklogDone \/ ForgetHost \/ Terminate
Working == Reconcile(Operator) \/ Reconcile(Status) \/ CheckDone \/ Deploy \/ Destroy
Aws(h)  == Fire(h) \/ Release(h) \/ GiveUp(h)

Next ==
    \/ Start("deploy") \/ Start("destroy") \/ Check
    \/ Working
    \/ \E p \in {Operator, Status} : Killed(p)
    \/ \E h \in Hosts : Aws(h)
    \/ Tick

\* Commands run to their end, time passes, schedules fire and AWS answers.
Spec == Init /\ [][Next]_vars /\ WF_vars(Working) /\ WF_vars(Tick)
             /\ \A h \in Hosts : WF_vars(Fire(h)) /\ WF_vars(Release(h))

-----------------------------------------------------------------------------
(* Correctness *)

Answers == {"yes", "no", "unknown"}
MaybeHost == Hosts \union {NoHost}
Dues == {Never} \union Times

Process ==
    [cmd : {"none", "deploy", "destroy", "status"}, at : Places, todo : SUBSET Hosts,
     host : MaybeHost, due : Dues, answer : Answers, current : MaybeHost,
     gone : BOOLEAN, asked : 0 .. MaxClock, agreed : BOOLEAN]

\* Every variable ranges over its type.
TypeOK ==
    /\ aws \in [Hosts -> {"free", "allocated", "released"}]
    /\ since \in [Hosts -> 0 .. MaxClock] /\ mac \in MaybeHost
    /\ sched \in [Hosts -> Dues] /\ releasing \subseteq Hosts
    /\ record \in [host : MaybeHost, due : Dues, present : Answers]
    /\ DOMAIN ledger \subseteq Hosts /\ \A h \in DOMAIN ledger : ledger[h] \in Dues
    /\ stacks \subseteq Hosts /\ tfFile \in BOOLEAN /\ tf \in MaybeHost
    /\ proc \in [{Operator, Status} -> Process]
    /\ clock \in 0 .. MaxClock /\ faults \in 0 .. MaxFaults
    /\ commands \in 0 .. MaxCommands /\ checks \in 0 .. MaxChecks /\ dropped \subseteq Hosts

Allocated(h) == aws[h] = "allocated"

\* A host that bills is one this machine can name: the ledger does, or the tfstate.
\* (cloud_mac.py: what allocate writes down, and what reconcile_released_hosts, forget_host
\* and the teardown forget.)
BillingIsKnown == \A h \in Hosts : Allocated(h) => h \in DOMAIN ledger \/ h = tf

\* A schedule that is there for an allocated host does not ask for the release before AWS
\* allows it: the one request it makes would be refused.  (release_time, from a time read
\* before the prompt, through the block, the ledger and a teardown.)
ReleaseAfterMinimum ==
    \A h \in Hosts : Allocated(h) /\ sched[h] # Never => sched[h] >= since[h] + Minimum

\* A host is allocated by a deploy whose operator has read the price and confirmed it,
\* whatever record, ledger and tfstate say.  (allocate.)
NoAllocationWithoutConsent ==
    [][\A h \in Hosts : aws[h] = "free" /\ Allocated(h)' => o.agreed]_vars

\* Only a host that AWS has released leaves the ledger or loses its release stack: what a
\* command read of a host before it waited for AWS may be old, but never wrong in this.
\* (forget_ledger_host, destroy_release_stack, the cleanup of finished stacks.)
ForgetsOnlyReleased ==
    [][\A h \in (DOMAIN ledger \union stacks) \ (DOMAIN ledger' \union stacks') : ~Allocated(h)]_vars

\* The teardown leaves no host without a release: when it turns to the Mac, each host that
\* still bills has its schedule or a release under way, or its schedule could not be made.
\* Not so when a status check, slower than a deploy, clears the block of a host it has not asked
\* about: its stack stays from an earlier teardown, though the schedule is spent.
TeardownSchedules ==
    [][ForgetHost /\ faults = 0 => \A h \in Hosts :
           Allocated(h) => sched[h] # Never \/ h \in releasing \/ h \in dropped]_vars

\* A schedule that is there ends in the release of its host, unless the Mac runs on the host
\* again or still.  (apply_release_schedule; nyxgpt runs nothing when the time comes.)
ScheduledIsReleased ==
    \A h \in Hosts : (sched[h] # Never /\ sched[h] <= MaxClock) ~> (aws[h] = "released" \/ mac = h)

=============================================================================
