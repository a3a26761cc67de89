---------------------------- MODULE MacHostsProofs ----------------------------
(***************************************************************************)
(* What is proved of MacHosts for every set of hosts, every bound and every *)
(* choice of faults.  Files, commands and AWS's answers are read and        *)
(* written at different times, so each claim rests on what a command may    *)
(* still believe at each place of its code.                                 *)
(***************************************************************************)
EXTENDS MacHosts, TLAPS

Commands == {Operator, Status}

\* What each of the two does.
Roles ==
    /\ proc[Status].at \in {"idle", "survey", "hosts", "answer", "unschedule", "forget", "clear"}
    /\ proc[Status].cmd \in {"none", "status"}
    /\ o.cmd \in {"none", "deploy", "destroy"} /\ (o.cmd = "none" <=> o.at = "idle")
    /\ o.at \in {"prompt", "heal", "adopt", "apply", "outputs", "record", "ledger"} => o.cmd = "deploy"

\* A host that AWS has not given out is one this machine has never heard of.
Unheard(h) ==
    /\ h \notin DOMAIN ledger /\ h \notin stacks /\ h # record.host /\ h # tf /\ sched[h] = Never
    /\ \A p \in Commands : h \notin proc[p].todo /\ h # proc[p].host /\ h # proc[p].current
Real == \A h \in Hosts : aws[h] = "free" => Unheard(h)

\* A host that AWS said is gone stays gone: what a command forgets, AWS has released.
Heard ==
    \A p \in Commands :
      /\ proc[p].at \in {"unschedule", "forget", "clear"} \/ (proc[p].at = "answer" /\ proc[p].answer = "no")
           => aws[proc[p].host] = "released"
      /\ proc[p].at = "clear" => proc[p].host = proc[p].current

\* What the files say together: the block needs the tfstate, a reconciling operator knows whose
\* block it is, and an operator who is asked has neither block nor tfstate host.
Reconciling == {"hosts", "answer", "unschedule", "forget", "clear"}
Files ==
    /\ record # NoRecord \/ tf # NoHost => tfFile
    /\ o.at \in Reconciling => record.host \in {NoHost, o.current}
    /\ o.at = "prompt" \/ (o.at = "apply" /\ o.agreed) => record = NoRecord /\ tf = NoHost
    /\ o.at \in {"outputs", "record"} /\ o.agreed => record = NoRecord
    /\ o.at \in {"heal", "adopt"} => ~o.agreed
    /\ o.at \in {"heal", "outputs", "record", "ledger"} => tf \in Hosts

\* What a deploy may act on: an answer that is still true, and a host that is still allocated.
Lives(h) == h \in Hosts /\ Allocated(h)
Consent ==
    /\ \A p \in Commands : (p = Status \/ o.cmd = "deploy") /\ proc[p].at = "answer" /\ proc[p].answer = "yes"
         => Allocated(proc[p].host)
    /\ o.cmd = "deploy" /\ o.at \in Reconciling /\ record.host # NoHost /\ record.host \notin o.todo
         /\ ~(o.at = "answer" /\ o.host = record.host) /\ record.present = "yes" => Allocated(record.host)
    /\ o.at \in {"heal", "adopt"} => Lives(o.host) /\ record.host \in {NoHost, o.host}
    /\ o.at \in {"outputs", "record", "ledger"} \/ (o.at = "apply" /\ ~o.agreed)
         => Lives(tf) /\ record.host \in {NoHost, tf}
    /\ o.at \in {"heal", "record", "ledger"} \/ (o.at \in {"apply", "outputs"} /\ ~o.agreed) => o.host = tf

\* What destroying may forget: a host of the tfstate that no ledger names is the one host this
\* machine's block can be about, and a teardown starts from a host the ledger names.
Loose(h) == Lives(h) /\ h \notin DOMAIN ledger
Named ==
    /\ BillingIsKnown
    /\ Loose(tf) => record.host \in {NoHost, tf} /\ o.cmd # "destroy"
    /\ Loose(tf) /\ o.at \in Reconciling => o.current \in {NoHost, tf}

\* A release time that is written down for an allocated host is not before AWS's minimum.
Late(h, due) == Lives(h) /\ due # Never => due >= since[h] + Minimum
Schedules ==
    /\ \A h \in Hosts : since[h] <= clock
    /\ Late(record.host, record.due)
    /\ \A h \in DOMAIN ledger : Late(h, ledger[h])
    /\ \A h \in Hosts : Late(h, sched[h])
    /\ o.at \in {"heal", "adopt", "record", "ledger"} \/ (o.at \in {"apply", "outputs"} /\ ~o.agreed)
         => Late(o.host, o.due)
    /\ o.at = "prompt" \/ (o.at \in {"apply", "outputs"} /\ o.agreed) => o.due = ReleaseTime(o.asked)
    /\ o.at = "prompt" \/ (o.at = "apply" /\ o.agreed) => clock <= o.asked + MaxWait
    /\ o.at = "outputs" /\ o.agreed => since[tf] <= o.asked + MaxWait

\* Where a command holds a host, and the files too: what typing the ledger rests on.
Placed ==
    /\ \A p \in Commands :
         proc[p].at \in {"answer", "unschedule", "forget", "clear"} => proc[p].host \in Hosts
    /\ o.at \in {"heal", "adopt", "record", "ledger"} \/ (o.at \in {"apply", "outputs"} /\ ~o.agreed)
         => o.host \in Hosts
    /\ o.at = "outputs" => tf \in Hosts
    /\ record # NoRecord => record.host \in Hosts

-----------------------------------------------------------------------------
(* Typing *)

\* The names that commands, places and answers go by.
LEMMA Names ==
    /\ {"idle", "survey", "hosts", "answer", "unschedule", "forget", "clear", "prompt", "heal", "adopt",
        "apply", "outputs", "record", "ledger", "schedule", "backlog", "terminate"} \subseteq Places
    /\ Answers = {"yes", "no", "unknown"}
    /\ NoHost \in MaybeHost /\ Hosts \subseteq MaybeHost
    /\ Never \in Dues
BY DEF Places, Answers, MaybeHost, Dues

LEMMA IdleIsTyped ==
    /\ Idle \in Process
    /\ NoRecord \in [host : MaybeHost, due : Dues, present : Answers]
BY MacHostsAssumption DEF Idle, Process, Places, MaybeHost, Dues, Answers, NoRecord

\* A step that gives one command a new state of the type keeps proc typed.
LEMMA BecomesTyped ==
    ASSUME TypeOK, NEW p \in Commands, NEW new \in Process, Becomes(p, new)
    PROVE  /\ proc' \in [{Operator, Status} -> Process]
           /\ proc'[p] = new
           /\ \A q \in Commands \ {p} : proc'[q] = proc[q]
BY DEF TypeOK, Becomes, Commands

LEMMA MovesTyped ==
    ASSUME TypeOK, NEW p \in Commands, NEW at \in Places, Moves(p, at)
    PROVE  proc' \in [{Operator, Status} -> Process]
BY DEF TypeOK, Moves, Commands, Process

\* What a step of one command leaves alone.
Others(p) == \A q \in Commands \ {p} : proc'[q] = proc[q]
Kept(p) ==
    /\ proc'[p].cmd = proc[p].cmd /\ proc'[p].todo = proc[p].todo /\ proc'[p].due = proc[p].due
    /\ proc'[p].current = proc[p].current /\ proc'[p].asked = proc[p].asked
    /\ proc'[p].agreed = proc[p].agreed
Holds(p) == proc'[p].host = proc[p].host /\ proc'[p].answer = proc[p].answer /\ proc'[p].gone = proc[p].gone

LEMMA BecomesEffect ==
    ASSUME TypeOK, NEW p \in Commands, NEW new, Becomes(p, new)
    PROVE  proc'[p] = new /\ Others(p)
BY DEF TypeOK, Becomes, Commands, Others

LEMMA MovesEffect ==
    ASSUME TypeOK, NEW p \in Commands, NEW at, Moves(p, at)
    PROVE  proc'[p].at = at /\ Kept(p) /\ Holds(p) /\ Others(p)
BY DEF TypeOK, Moves, Commands, Others, Kept, Holds

LEMMA StopsEffect ==
    ASSUME TypeOK, NEW p \in Commands, Stops(p)
    PROVE  proc'[p] = Idle /\ Others(p)
BY BecomesEffect DEF Stops

LEMMA NextHostEffect ==
    ASSUME TypeOK, NEW p \in Commands, NEW gone, NextHost(p, gone)
    PROVE  /\ proc'[p].at = "hosts" /\ proc'[p].host = NoHost /\ proc'[p].answer = "unknown"
           /\ proc'[p].gone = (proc[p].gone \/ gone)
           /\ Kept(p) /\ Others(p)
BY DEF TypeOK, NextHost, Becomes, Commands, Others, Kept

LEMMA NextHostTyped ==
    ASSUME TypeOK, NEW p \in Commands, NEW gone \in BOOLEAN, NextHost(p, gone)
    PROVE  proc' \in [{Operator, Status} -> Process]
<1>1. proc[p] \in Process
  BY DEF TypeOK, Commands
<1>2. (proc[p].gone \/ gone) \in BOOLEAN
  BY <1>1 DEF Process
<1>3. [proc[p] EXCEPT !.at = "hosts", !.host = NoHost, !.answer = "unknown",
                      !.gone = @ \/ gone] \in Process
  BY <1>1, <1>2, Names DEF Process
<1>. QED
  BY <1>3, BecomesTyped DEF NextHost

LEMMA StopsTyped ==
    ASSUME TypeOK, NEW p \in Commands, Stops(p)
    PROVE  proc' \in [{Operator, Status} -> Process]
BY IdleIsTyped, BecomesTyped DEF Stops

LEMMA FailsTyped ==
    ASSUME TypeOK, NEW host \in MaybeHost, Fails(host)
    PROVE  proc' \in [{Operator, Status} -> Process]
<1>1. o \in Process
  BY DEF TypeOK, o
<1>2. [o EXCEPT !.at = "record", !.host = host] \in Process
  BY <1>1, Names DEF Process
<1>. QED
  BY <1>2, BecomesTyped, StopsTyped DEF Fails, Commands

LEMMA OutstandingIsTyped == TypeOK => Outstanding \in SUBSET Hosts
BY DEF TypeOK, Outstanding, Tracked, MaybeHost

LEMMA FaultTyped == ASSUME TypeOK, NEW kind, Fault(kind) PROVE faults' \in 0 .. MaxFaults
BY MacHostsAssumption DEF TypeOK, Fault

\* A release time is a time, also when it is computed now.
LEMMA ReleaseTimeIsTyped == \A t \in 0 .. MaxClock : ReleaseTime(t) \in Dues
BY MacHostsAssumption DEF ReleaseTime, Dues, Times

\* Remembering a release time keeps the ledger typed.
LEMMA RememberedIsTyped ==
    ASSUME TypeOK, NEW h \in Hosts, NEW due \in Dues, ledger' = Remembered(h, due)
    PROVE  /\ DOMAIN ledger' = DOMAIN ledger \union {h}
           /\ DOMAIN ledger' \subseteq Hosts
           /\ \A x \in DOMAIN ledger' : ledger'[x] \in Dues
           /\ ledger'[h] = due
           /\ \A x \in DOMAIN ledger \ {h} : ledger'[x] = ledger[x]
BY DEF TypeOK, Remembered

LEMMA TypeInit == Init => TypeOK
<1>. SUFFICES ASSUME Init PROVE TypeOK
  OBVIOUS
<1>1. PICK old \in Leftovers :
         /\ aws = [h \in Hosts |-> IF h \in old THEN "allocated" ELSE "free"]
         /\ ledger = [h \in old |-> Never]
         /\ commands = Cardinality(old)
  BY DEF Init
<1>2. DOMAIN ledger \subseteq Hosts /\ (\A h \in DOMAIN ledger : ledger[h] \in Dues)
  BY <1>1, MacHostsAssumption DEF Dues
<1>3. commands \in 0 .. MaxCommands
  BY <1>1, MacHostsAssumption
<1>4. aws \in [Hosts -> {"free", "allocated", "released"}]
  BY <1>1
<1>5. since \in [Hosts -> 0 .. MaxClock] /\ sched \in [Hosts -> Dues]
  BY MacHostsAssumption DEF Init, Dues
<1>8. mac \in MaybeHost /\ tf \in MaybeHost /\ tfFile \in BOOLEAN
  BY DEF Init, MaybeHost
<1>9. releasing \subseteq Hosts /\ stacks \subseteq Hosts
  BY DEF Init
<1>10. clock \in 0 .. MaxClock /\ faults \in 0 .. MaxFaults /\ checks \in 0 .. MaxChecks
         /\ dropped \subseteq Hosts
  BY MacHostsAssumption DEF Init
<1>6. proc \in [{Operator, Status} -> Process]
  BY IdleIsTyped DEF Init
<1>7. record \in [host : MaybeHost, due : Dues, present : Answers]
  BY IdleIsTyped DEF Init
<1>. QED
  BY <1>2, <1>3, <1>4, <1>5, <1>6, <1>7, <1>8, <1>9, <1>10 DEF TypeOK

LEMMA TypeStep == TypeOK /\ Placed /\ [Next]_vars => TypeOK'
<1>. SUFFICES ASSUME TypeOK, Placed, [Next]_vars PROVE TypeOK'
  OBVIOUS
<1>. USE MacHostsAssumption, Names, IdleIsTyped
<1>0. /\ \A p \in Commands : proc[p] \in Process
      /\ o \in Process /\ Fresh \in Process
  <2>1. \A p \in Commands : proc[p] \in Process
    BY DEF TypeOK, Commands
  <2>2. o \in Process
    BY <2>1 DEF Commands, o
  <2>. QED
    BY <2>1, <2>2 DEF Process, Fresh
<1>1. ASSUME NEW cmd \in {"deploy", "destroy"}, Start(cmd) PROVE TypeOK'
  <2>1. [Idle EXCEPT !.cmd = cmd, !.at = "survey"] \in Process
    BY DEF Process
  <2>2. proc' \in [{Operator, Status} -> Process]
    BY <1>1, <2>1, BecomesTyped DEF Start, Commands
  <2>. QED
    BY <1>1, <2>2 DEF Start, TypeOK, cloud, disk
<1>2. CASE Check
  <2>1. [Idle EXCEPT !.cmd = "status", !.at = "survey"] \in Process
    BY DEF Process
  <2>2. proc' \in [{Operator, Status} -> Process]
    BY <1>2, <2>1, BecomesTyped DEF Check, Commands
  <2>. QED
    BY <1>2, <2>2 DEF Check, TypeOK, cloud, disk
<1>3. ASSUME NEW p \in Commands, Survey(p) PROVE TypeOK'
  <2>1. [proc[p] EXCEPT !.at = "hosts", !.todo = Tracked, !.current = record.host] \in Process
    <3>1. Tracked \in SUBSET Hosts /\ record.host \in MaybeHost
      BY DEF TypeOK, Tracked, MaybeHost
    <3>. QED
      BY <1>0, <3>1 DEF Process
  <2>2. proc' \in [{Operator, Status} -> Process]
    BY <1>3, <2>1, BecomesTyped DEF Survey
  <2>. QED
    BY <1>3, <2>2 DEF Survey, TypeOK, cloud, disk
<1>4. ASSUME NEW p \in Commands, AskAbout(p) PROVE TypeOK'
  <2>1. PICK h \in proc[p].todo, answer \in {"yes", "no", "unknown"} :
         /\ Ask(h, answer)
         /\ Becomes(p, [proc[p] EXCEPT !.at = "answer", !.todo = @ \ {h}, !.host = h, !.answer = answer])
    BY <1>4 DEF AskAbout
  <2>2. [proc[p] EXCEPT !.at = "answer", !.todo = @ \ {h}, !.host = h, !.answer = answer] \in Process
    <3>1. proc[p] \in Process
      BY <1>0
    <3>2. proc[p].todo \ {h} \in SUBSET Hosts /\ h \in MaybeHost /\ answer \in Answers
      BY <3>1 DEF Process
    <3>. QED
      BY <3>1, <3>2 DEF Process
  <2>3. proc' \in [{Operator, Status} -> Process]
    <3>1. Becomes(p, [proc[p] EXCEPT !.at = "answer", !.todo = @ \ {h}, !.host = h, !.answer = answer])
      BY <2>1
    <3>. QED
      BY <2>2, <3>1, BecomesTyped
  <2>4. faults' \in 0 .. MaxFaults
    BY <2>1 DEF Ask, Fault, TypeOK
  <2>. QED
    BY <1>4, <2>3, <2>4 DEF AskAbout, TypeOK, cloud, disk
<1>5. ASSUME NEW p \in Commands, NoteAnswer(p) PROVE TypeOK'
  <2>1. proc[p].answer \in Answers /\ proc[p].host \in MaybeHost
    BY <1>0 DEF Process
  <2>2. record' \in [host : MaybeHost, due : Dues, present : Answers]
    BY <1>5, <2>1 DEF NoteAnswer, TypeOK
  <2>3. proc' \in [{Operator, Status} -> Process]
    <3>1. ASSUME NextHost(p, FALSE) PROVE proc' \in [{Operator, Status} -> Process]
      BY <3>1, <1>0, NextHostTyped
    <3>. QED
      BY <1>5, <3>1, MovesTyped DEF NoteAnswer
  <2>4. DOMAIN ledger' \subseteq Hosts /\ \A h \in DOMAIN ledger' : ledger'[h] \in Dues
    <3>1. proc[p].host \in Hosts
      BY <1>5 DEF NoteAnswer, At, Placed
    <3>. QED
      BY <1>5, <3>1, RememberedIsTyped DEF NoteAnswer, TypeOK
  <2>. QED
    BY <1>5, <2>2, <2>3, <2>4 DEF NoteAnswer, TypeOK, cloud
<1>6. ASSUME NEW p \in Commands, DropStack(p) PROVE TypeOK'
  <2>1. proc' \in [{Operator, Status} -> Process]
    BY <1>6, MovesTyped DEF DropStack
  <2>2. faults' \in 0 .. MaxFaults
    BY <1>6, FaultTyped DEF DropStack, TypeOK
  <2>3. stacks' \subseteq Hosts /\ sched' \in [Hosts -> Dues]
    BY <1>6 DEF DropStack, TypeOK
  <2>. QED
    BY <1>6, <2>1, <2>2 DEF DropStack, TypeOK
<1>7. ASSUME NEW p \in Commands, Forget(p) PROVE TypeOK'
  <2>1. proc' \in [{Operator, Status} -> Process]
    BY <1>7, MovesTyped, NextHostTyped DEF Forget
  <2>2. DOMAIN ledger' \subseteq Hosts /\ \A h \in DOMAIN ledger' : ledger'[h] \in Dues
    BY <1>7 DEF Forget, TypeOK
  <2>. QED
    BY <1>7, <2>1 DEF Forget, TypeOK, cloud
<1>8. ASSUME NEW p \in Commands, ClearRecord(p) PROVE TypeOK'
  <2>1. proc' \in [{Operator, Status} -> Process]
    BY <1>8, NextHostTyped DEF ClearRecord
  <2>2. tfFile' \in BOOLEAN /\ tf' \in MaybeHost
    BY <1>8 DEF ClearRecord, TypeOK
  <2>3. record' \in [host : MaybeHost, due : Dues, present : Answers]
    BY <1>8, IdleIsTyped DEF ClearRecord
  <2>4. dropped' \subseteq Hosts
    BY <1>8 DEF ClearRecord, TypeOK, MaybeHost
  <2>. QED
    BY <1>8, <2>1, <2>2, <2>3, <2>4 DEF ClearRecord, TypeOK, cloud
<1>9. CASE CheckDone
  <2>1. proc' \in [{Operator, Status} -> Process]
    BY <1>9, StopsTyped DEF CheckDone, Commands
  <2>. QED
    BY <1>9, <2>1 DEF CheckDone, TypeOK, cloud, disk
<1>10. CASE TakeUp
  <2>1. record.host \in MaybeHost /\ record.due \in Dues
    BY DEF TypeOK
  <2>2. [Fresh EXCEPT !.at = "adopt", !.host = record.host, !.due = record.due] \in Process
    BY <1>0, <2>1 DEF Process
  <2>3. proc' \in [{Operator, Status} -> Process]
    BY <1>10, <2>2, BecomesTyped, StopsTyped DEF TakeUp, Commands
  <2>. QED
    BY <1>10, <2>3 DEF TakeUp, TypeOK, cloud, disk
<1>11. CASE TakeUpOrphan
  <2>1. PICK answer \in {"yes", "no", "unknown"} :
          /\ Ask(tf, answer)
          /\ IF answer = "unknown" THEN Stops(Operator)
             ELSE Becomes(Operator, [Fresh EXCEPT !.at = IF answer = "yes" THEN "heal" ELSE "prompt",
                                                  !.host = tf, !.asked = clock, !.due = ReleaseTime(clock)])
    BY <1>11 DEF TakeUpOrphan
  <2>2. (IF answer = "yes" THEN "heal" ELSE "prompt") \in Places /\ tf \in MaybeHost
          /\ clock \in 0 .. MaxClock /\ ReleaseTime(clock) \in Dues
    BY ReleaseTimeIsTyped DEF TypeOK
  <2>3. [Fresh EXCEPT !.at = IF answer = "yes" THEN "heal" ELSE "prompt",
                      !.host = tf, !.asked = clock, !.due = ReleaseTime(clock)] \in Process
    BY <1>0, <2>2 DEF Process
  <2>4. proc' \in [{Operator, Status} -> Process]
    BY <2>1, <2>3, BecomesTyped, StopsTyped DEF Commands
  <2>5. faults' \in 0 .. MaxFaults
    BY <2>1, FaultTyped DEF Ask, TypeOK
  <2>6. tfFile' \in BOOLEAN /\ tf' \in MaybeHost
    BY <1>11 DEF TakeUpOrphan, TypeOK
  <2>. QED
    BY <1>11, <2>4, <2>5 DEF TakeUpOrphan, TypeOK, cloud
<1>12. CASE Heal
  <2>1. o.host \in Hosts /\ o.due \in Dues
    BY <1>0, <1>12 DEF Heal, Deploying, Placed, Process
  <2>2. record' \in [host : MaybeHost, due : Dues, present : Answers]
    BY <1>12, <2>1 DEF Heal
  <2>3. [o EXCEPT !.at = "adopt", !.asked = 0] \in Process
    <3>1. 0 \in 0 .. MaxClock
      OBVIOUS
    <3>. QED
      BY <1>0, <3>1 DEF Process
  <2>4. proc' \in [{Operator, Status} -> Process]
    BY <1>12, <2>3, BecomesTyped DEF Heal, Commands
  <2>5. DOMAIN ledger' \subseteq Hosts /\ \A h \in DOMAIN ledger' : ledger'[h] \in Dues
    BY <1>12, <2>1, RememberedIsTyped DEF Heal
  <2>. QED
    BY <1>12, <2>2, <2>4, <2>5 DEF Heal, TypeOK, cloud
<1>13. CASE Plan
  <2>1. clock \in 0 .. MaxClock /\ ReleaseTime(clock) \in Dues
    BY ReleaseTimeIsTyped DEF TypeOK
  <2>2. [Fresh EXCEPT !.at = "prompt", !.asked = clock, !.due = ReleaseTime(clock)] \in Process
    BY <1>0, <2>1 DEF Process
  <2>3. proc' \in [{Operator, Status} -> Process]
    BY <1>13, <2>2, BecomesTyped DEF Plan, Commands
  <2>. QED
    BY <1>13, <2>3 DEF Plan, TypeOK, cloud, disk
<1>14. CASE Confirm
  <2>1. [o EXCEPT !.at = "apply", !.agreed = TRUE] \in Process
    BY <1>0 DEF Process
  <2>2. proc' \in [{Operator, Status} -> Process]
    BY <1>14, <2>1, BecomesTyped, StopsTyped DEF Confirm, Commands
  <2>. QED
    BY <1>14, <2>2 DEF Confirm, TypeOK, cloud, disk
<1>15. CASE Adopt
  <2>1. proc' \in [{Operator, Status} -> Process]
    BY <1>15, MovesTyped, StopsTyped DEF Adopt, Commands
  <2>2. faults' \in 0 .. MaxFaults
    BY <1>15, FaultTyped DEF Adopt, TypeOK
  <2>3. tfFile' \in BOOLEAN /\ tf' \in MaybeHost
    <3>1. o.host \in MaybeHost
      BY <1>0 DEF Process
    <3>. QED
      BY <1>15, <3>1 DEF Adopt, TypeOK
  <2>. QED
    BY <1>15, <2>1, <2>2, <2>3 DEF Adopt, TypeOK, cloud
<1>16. CASE Apply
  <2>1. PICK h \in Hosts :
          /\ IF h = tf THEN UNCHANGED <<aws, since>>
             ELSE aws' = [aws EXCEPT ![h] = "allocated"] /\ since' = [since EXCEPT ![h] = clock]
          /\ tf' = h /\ tfFile' = TRUE
          /\ \/ mac' = h /\ UNCHANGED faults /\ Moves(Operator, "outputs")
             \/ Fault("apply") /\ UNCHANGED mac /\ Fails(h)
    BY <1>16 DEF Apply
  <2>2. aws' \in [Hosts -> {"free", "allocated", "released"}] /\ since' \in [Hosts -> 0 .. MaxClock]
    BY <2>1 DEF TypeOK
  <2>3. mac' \in MaybeHost /\ tf' \in MaybeHost /\ tfFile' \in BOOLEAN
    BY <2>1 DEF TypeOK
  <2>4. faults' \in 0 .. MaxFaults
    BY <2>1, FaultTyped DEF TypeOK
  <2>5. proc' \in [{Operator, Status} -> Process]
    BY <2>1, FailsTyped, MovesTyped DEF Commands
  <2>. QED
    BY <1>16, <2>4, <2>5 DEF Apply, TypeOK
<1>17. CASE NoCapacity
  <2>1. proc' \in [{Operator, Status} -> Process]
    BY <1>17, FailsTyped DEF NoCapacity
  <2>. QED
    BY <1>17, <2>1 DEF NoCapacity, TypeOK, cloud
<1>18. CASE Outputs
  <2>1. 0 \in 0 .. MaxClock /\ tf \in MaybeHost /\ (IF o.agreed \/ tf = o.host THEN o.due ELSE ReleaseTime(clock)) \in Dues
    BY <1>0, ReleaseTimeIsTyped DEF TypeOK, Process
  <2>2. [o EXCEPT !.at = "record", !.host = tf, !.answer = "yes", !.asked = 0,
                  !.due = IF o.agreed \/ tf = o.host THEN @ ELSE ReleaseTime(clock)] \in Process
    BY <1>0, <2>1 DEF Process
  <2>3. proc' \in [{Operator, Status} -> Process]
    BY <1>18, <2>2, BecomesTyped, MovesTyped, StopsTyped DEF Outputs, Commands
  <2>4. faults' \in 0 .. MaxFaults
    BY <1>18, FaultTyped DEF Outputs, TypeOK
  <2>. QED
    BY <1>18, <2>3, <2>4 DEF Outputs, TypeOK, cloud, disk
<1>19. CASE WriteRecord
  <2>1. proc' \in [{Operator, Status} -> Process]
    BY <1>19, MovesTyped DEF WriteRecord, Commands
  <2>2. record' \in [host : MaybeHost, due : Dues, present : Answers]
    BY <1>0, <1>19 DEF WriteRecord, Process
  <2>. QED
    BY <1>19, <2>1, <2>2 DEF WriteRecord, TypeOK, cloud
<1>20. CASE WriteLedger
  <2>1. o.host \in Hosts /\ o.due \in Dues
    BY <1>0, <1>20 DEF WriteLedger, Deploying, Placed, Process
  <2>2. proc' \in [{Operator, Status} -> Process]
    BY <1>20, StopsTyped DEF WriteLedger, Commands
  <2>3. DOMAIN ledger' \subseteq Hosts /\ \A h \in DOMAIN ledger' : ledger'[h] \in Dues
    BY <1>20, <2>1, RememberedIsTyped DEF WriteLedger
  <2>. QED
    BY <1>20, <2>2, <2>3 DEF WriteLedger, TypeOK, cloud
<1>21. CASE TeardownBacklog
  <2>1. [Fresh EXCEPT !.at = "backlog", !.todo = Outstanding] \in Process
    BY <1>0, OutstandingIsTyped DEF Process
  <2>2. proc' \in [{Operator, Status} -> Process]
    <3>1. CASE Outstanding = {}
      BY <1>21, <3>1, BecomesTyped DEF TeardownBacklog, Commands
    <3>2. CASE Outstanding # {}
      BY <1>21, <2>1, BecomesTyped DEF TeardownBacklog, Commands
    <3>. QED
      BY <3>1, <3>2
  <2>. QED
    BY <1>21, <2>2 DEF TeardownBacklog, TypeOK, cloud, disk
<1>22. CASE Teardown
  <2>1. PICK gone \in {Finished, {}} :
          /\ \/ gone = Finished /\ UNCHANGED faults
             \/ Fault("unreachable")
          /\ stacks' = stacks \ gone
          /\ sched' = [h \in Hosts |-> IF h \in gone THEN Never ELSE sched[h]]
          /\ Becomes(Operator, [Fresh EXCEPT !.at = "schedule",
                 !.todo = Outstanding \union ({record.host} \ {NoHost})])
    BY <1>22 DEF Teardown
  <2>2. Outstanding \union ({record.host} \ {NoHost}) \in SUBSET Hosts
    BY OutstandingIsTyped DEF TypeOK, MaybeHost
  <2>3. [Fresh EXCEPT !.at = "schedule", !.todo = Outstanding \union ({record.host} \ {NoHost})] \in Process
    BY <1>0, <2>2 DEF Process
  <2>4. proc' \in [{Operator, Status} -> Process]
    BY <2>1, <2>3, BecomesTyped DEF Commands
  <2>5. faults' \in 0 .. MaxFaults
    BY <2>1, FaultTyped DEF TypeOK
  <2>6. stacks' \subseteq Hosts /\ sched' \in [Hosts -> Dues]
    BY <2>1 DEF TypeOK
  <2>. QED
    BY <1>22, <2>4, <2>5 DEF Teardown, TypeOK
<1>23. CASE Schedule
  <2>1. PICK h \in o.todo :
          /\ proc' = [proc EXCEPT ![Operator].todo = @ \ {h}]
          /\ \/ /\ stacks' = stacks \union {h}
                /\ sched' = [sched EXCEPT ![h] = Due(h)]
                /\ ledger' = Remembered(h, Due(h))
                /\ UNCHANGED faults
             \/ /\ Fault("schedule")
                /\ stacks' \in {stacks, stacks \union {h}}
                /\ UNCHANGED <<sched, ledger>>
    BY <1>23 DEF Schedule
  <2>2. h \in Hosts
    BY <1>0 DEF Process
  <2>3. Due(h) \in Dues
    BY ReleaseTimeIsTyped DEF TypeOK, Due
  <2>4. proc' \in [{Operator, Status} -> Process]
    BY <2>1 DEF TypeOK, Process
  <2>5. DOMAIN ledger' \subseteq Hosts /\ \A x \in DOMAIN ledger' : ledger'[x] \in Dues
    BY <2>1, <2>2, <2>3, RememberedIsTyped DEF TypeOK
  <2>6. stacks' \subseteq Hosts /\ sched' \in [Hosts -> Dues]
    BY <2>1, <2>2, <2>3 DEF TypeOK
  <2>7. faults' \in 0 .. MaxFaults
    BY <2>1, FaultTyped DEF TypeOK
  <2>. QED
    BY <1>23, <2>4, <2>5, <2>6, <2>7 DEF Schedule, TypeOK
<1>24. CASE BacklogDone
  <2>1. proc' \in [{Operator, Status} -> Process]
    BY <1>24, StopsTyped DEF BacklogDone, Commands
  <2>. QED
    BY <1>24, <2>1 DEF BacklogDone, TypeOK, cloud, disk
<1>25. CASE ForgetHost
  <2>1. proc' \in [{Operator, Status} -> Process]
    BY <1>25, MovesTyped, StopsTyped DEF ForgetHost, Commands
  <2>2. faults' \in 0 .. MaxFaults /\ tf' \in MaybeHost
    BY <1>25, FaultTyped DEF ForgetHost, TypeOK
  <2>. QED
    BY <1>25, <2>1, <2>2 DEF ForgetHost, TypeOK, cloud
<1>26. CASE Terminate
  <2>1. proc' \in [{Operator, Status} -> Process]
    BY <1>26, StopsTyped DEF Terminate, Commands
  <2>2. faults' \in 0 .. MaxFaults /\ mac' \in MaybeHost
    BY <1>26, FaultTyped DEF Terminate, TypeOK
  <2>. QED
    BY <1>26, <2>1, <2>2 DEF Terminate, TypeOK, disk
<1>27. ASSUME NEW p \in Commands, Killed(p) PROVE TypeOK'
  <2>1. proc' \in [{Operator, Status} -> Process]
    BY <1>27, StopsTyped DEF Killed
  <2>2. faults' \in 0 .. MaxFaults
    BY <1>27, FaultTyped DEF Killed
  <2>. QED
    BY <1>27, <2>1, <2>2 DEF Killed, TypeOK, cloud, disk
<1>28. ASSUME NEW h \in Hosts, Aws(h) PROVE TypeOK'
  <2>1. CASE Fire(h)
    BY <2>1 DEF Fire, TypeOK, disk
  <2>2. CASE Release(h)
    BY <2>2 DEF Release, TypeOK, disk
  <2>3. CASE GiveUp(h)
    BY <2>3 DEF GiveUp, TypeOK, disk
  <2>. QED
    BY <1>28, <2>1, <2>2, <2>3 DEF Aws
<1>29. CASE Tick
  BY <1>29 DEF Tick, TypeOK, cloud, disk
<1>30. CASE UNCHANGED vars
  BY <1>30 DEF vars, cloud, disk, TypeOK
<1>. QED
  BY <1>1, <1>2, <1>3, <1>4, <1>5, <1>6, <1>7, <1>8, <1>9, <1>10, <1>11, <1>12, <1>13, <1>14, <1>15,
     <1>16, <1>17, <1>18, <1>19, <1>20, <1>21, <1>22, <1>23, <1>24, <1>25, <1>26, <1>27, <1>28, <1>29, <1>30
     DEF Next, Working, Reconcile, Deploy, Destroy, Commands


\* The outcomes of the steps that have several, field by field.
Ended == /\ o'.cmd = "none" /\ o'.at = "idle" /\ o'.todo = {} /\ o'.host = NoHost /\ o'.answer = "unknown"
         /\ o'.current = NoHost /\ ~o'.agreed /\ o'.gone = FALSE
Goes(at, host, due) ==
    /\ o'.cmd = o.cmd /\ o'.at = at /\ o'.host = host /\ o'.due = due
Past ==     \* the reconciliation
    /\ o'.todo = {} /\ o'.current = NoHost /\ o'.answer = "unknown" /\ ~o'.agreed /\ o'.gone = FALSE
SameLoop == o'.todo = o.todo /\ o'.current = o.current

LEMMA OperatorBecomes ==
    ASSUME TypeOK, NEW new, Becomes(Operator, new)
    PROVE  proc'[Status] = proc[Status] /\ o' = new
BY DEF TypeOK, Becomes, o, Operator, Status

LEMMA OperatorStops ==
    ASSUME TypeOK, Stops(Operator)
    PROVE  proc'[Status] = proc[Status] /\ Ended
<1>1. proc'[Status] = proc[Status] /\ o' = Idle
  BY OperatorBecomes DEF Stops
<1>. QED
  BY <1>1 DEF Ended, Idle

LEMMA OperatorMoves ==
    ASSUME TypeOK, NEW at, Moves(Operator, at)
    PROVE  /\ proc'[Status] = proc[Status] /\ Goes(at, o.host, o.due) /\ SameLoop
           /\ o'.agreed = o.agreed /\ o'.asked = o.asked /\ o'.answer = o.answer /\ o'.gone = o.gone
BY DEF TypeOK, Moves, o, Operator, Status, Goes, SameLoop

LEMMA NoteAnswerOutcome ==
    ASSUME TypeOK, NEW p \in Commands, NoteAnswer(p)
    PROVE  /\ proc[p].at = "answer" /\ UNCHANGED <<cloud, stacks, tfFile, tf, clock>>
           /\ record' = IF proc[p].host = proc[p].current /\ proc[p].host = record.host
                        THEN [record EXCEPT !.present = proc[p].answer] ELSE record
           /\ ledger' = IF proc[p].host \in DOMAIN ledger \/ proc[p].answer = "no"
                        THEN ledger ELSE Remembered(proc[p].host, Never)
           /\ record'.host = record.host /\ record'.due = record.due
           /\ DOMAIN ledger \subseteq DOMAIN ledger'
           /\ DOMAIN ledger' \subseteq DOMAIN ledger \union {proc[p].host}
           /\ Kept(p) /\ Others(p)
           /\ \/ proc[p].answer # "no" /\ proc'[p].at = "hosts" /\ proc'[p].host = NoHost
                   /\ proc'[p].answer = "unknown" /\ proc'[p].gone = proc[p].gone
              \/ proc[p].answer = "no" /\ Holds(p)
                   /\ proc'[p].at = IF p = Status THEN "forget" ELSE "unschedule"
<1>1. /\ proc[p].at = "answer" /\ UNCHANGED <<cloud, stacks, tfFile, tf, clock>>
      /\ record' = IF proc[p].host = proc[p].current /\ proc[p].host = record.host
                   THEN [record EXCEPT !.present = proc[p].answer] ELSE record
      /\ ledger' = IF proc[p].host \in DOMAIN ledger \/ proc[p].answer = "no"
                   THEN ledger ELSE Remembered(proc[p].host, Never)
  BY DEF NoteAnswer, At
<1>5. /\ record'.host = record.host /\ record'.due = record.due
      /\ DOMAIN ledger \subseteq DOMAIN ledger'
      /\ DOMAIN ledger' \subseteq DOMAIN ledger \union {proc[p].host}
  BY <1>1 DEF TypeOK, Remembered
<1>2. proc[p].gone \in BOOLEAN
  BY DEF TypeOK, Commands, Process
<1>3. CASE NextHost(p, FALSE) /\ proc[p].answer # "no"
  BY <1>1, <1>2, <1>3, <1>5, NextHostEffect
<1>4. CASE Moves(p, IF p = Status THEN "forget" ELSE "unschedule") /\ proc[p].answer = "no"
  BY <1>1, <1>4, <1>5, MovesEffect
<1>. QED
  BY <1>3, <1>4 DEF NoteAnswer, Gone

LEMMA ForgetOutcome ==
    ASSUME TypeOK, NEW p \in Commands, Forget(p)
    PROVE  /\ proc[p].at = "forget" /\ UNCHANGED <<cloud, record, stacks, tfFile, tf, clock>>
           /\ ledger' = [h \in DOMAIN ledger \ {proc[p].host} |-> ledger[h]]
           /\ Kept(p) /\ Others(p)
           /\ \/ proc[p].host # proc[p].current /\ proc'[p].at = "hosts" /\ proc'[p].host = NoHost
                   /\ proc'[p].answer = "unknown"
              \/ proc[p].host = proc[p].current /\ proc'[p].at = "clear" /\ Holds(p)
<1>1. /\ proc[p].at = "forget" /\ UNCHANGED <<cloud, record, stacks, tfFile, tf, clock>>
      /\ ledger' = [h \in DOMAIN ledger \ {proc[p].host} |-> ledger[h]]
  BY DEF Forget, At
<1>2. CASE NextHost(p, FALSE) /\ proc[p].host # proc[p].current
  BY <1>1, <1>2, NextHostEffect
<1>3. CASE Moves(p, "clear") /\ proc[p].host = proc[p].current
  BY <1>1, <1>3, MovesEffect
<1>. QED
  BY <1>2, <1>3 DEF Forget

LEMMA TakeUpOutcome ==
    ASSUME TypeOK, TakeUp
    PROVE  /\ o.cmd = "deploy" /\ o.at = "hosts" /\ o.todo = {} /\ record # NoRecord /\ tfFile
           /\ UNCHANGED <<cloud, disk, clock>> /\ proc'[Status] = proc[Status]
           /\ Ended \/ (record.present = "yes" /\ Goes("adopt", record.host, record.due) /\ Past)
<1>1. /\ o.cmd = "deploy" /\ o.at = "hosts" /\ o.todo = {} /\ record # NoRecord /\ tfFile
      /\ UNCHANGED <<cloud, disk, clock>>
  BY DEF TakeUp, DeployReconciled, Deploying, Recorded
<1>2. CASE Stops(Operator)
  BY <1>1, <1>2, OperatorStops
<1>3. CASE /\ record.present = "yes"
           /\ Becomes(Operator, [Fresh EXCEPT !.at = "adopt", !.host = record.host, !.due = record.due])
  <2>1. o' = [Fresh EXCEPT !.at = "adopt", !.host = record.host, !.due = record.due]
          /\ proc'[Status] = proc[Status]
    BY <1>3, OperatorBecomes
  <2>2. Goes("adopt", record.host, record.due) /\ Past
    BY <2>1 DEF Goes, Past, Fresh, Idle
  <2>. QED
    BY <1>1, <1>3, <2>1, <2>2
<1>. QED
  BY <1>2, <1>3 DEF TakeUp

LEMMA TakeUpOrphanOutcome ==
    ASSUME TypeOK, TakeUpOrphan
    PROVE  /\ o.cmd = "deploy" /\ o.at = "hosts" /\ o.todo = {} /\ (record = NoRecord \/ ~tfFile) /\ tf # NoHost
           /\ UNCHANGED <<cloud, record, ledger, stacks, clock>> /\ proc'[Status] = proc[Status]
           /\ \/ Ended /\ UNCHANGED <<tf, tfFile>>
              \/ Truth(tf) = "yes" /\ UNCHANGED <<tf, tfFile>> /\ Past /\ o'.asked = clock
                   /\ Goes("heal", tf, ReleaseTime(clock))
              \/ Truth(tf) = "no" /\ tf' = NoHost /\ tfFile' = FALSE /\ Past /\ o'.asked = clock
                   /\ Goes("prompt", tf, ReleaseTime(clock))
<1>1. PICK answer \in {"yes", "no", "unknown"} :
         /\ Ask(tf, answer)
         /\ IF answer = "unknown" THEN Stops(Operator)
            ELSE Becomes(Operator, [Fresh EXCEPT !.at = IF answer = "yes" THEN "heal" ELSE "prompt",
                                                 !.host = tf, !.asked = clock, !.due = ReleaseTime(clock)])
         /\ IF Discards(answer) THEN tfFile' = FALSE /\ tf' = NoHost ELSE UNCHANGED <<tfFile, tf>>
  BY DEF TakeUpOrphan
<1>2. /\ o.cmd = "deploy" /\ o.at = "hosts" /\ o.todo = {} /\ (record = NoRecord \/ ~tfFile) /\ tf # NoHost
      /\ UNCHANGED <<cloud, record, ledger, stacks, clock>>
  BY DEF TakeUpOrphan, DeployReconciled, Deploying, Recorded
<1>3. CASE answer = "unknown"
  <2>1. UNCHANGED <<tf, tfFile>>
    BY <1>1, <1>3 DEF Discards
  <2>. QED
    BY <1>1, <1>2, <1>3, <2>1, OperatorStops
<1>4. CASE answer = "yes"
  <2>1. o' = [Fresh EXCEPT !.at = "heal", !.host = tf, !.asked = clock, !.due = ReleaseTime(clock)]
          /\ proc'[Status] = proc[Status]
    BY <1>1, <1>4, OperatorBecomes
  <2>2. Truth(tf) = "yes" /\ UNCHANGED <<tf, tfFile>>
    BY <1>1, <1>4 DEF Ask, Discards
  <2>3. Goes("heal", tf, ReleaseTime(clock)) /\ Past /\ o'.asked = clock
    BY <2>1 DEF Goes, Past, Fresh, Idle
  <2>. QED
    BY <1>2, <2>1, <2>2, <2>3
<1>5. CASE answer = "no"
  <2>1. o' = [Fresh EXCEPT !.at = "prompt", !.host = tf, !.asked = clock, !.due = ReleaseTime(clock)]
          /\ proc'[Status] = proc[Status]
    BY <1>1, <1>5, OperatorBecomes
  <2>2. Truth(tf) = "no" /\ tf' = NoHost /\ tfFile' = FALSE
    BY <1>1, <1>5 DEF Ask, Discards
  <2>3. Goes("prompt", tf, ReleaseTime(clock)) /\ Past /\ o'.asked = clock
    BY <2>1 DEF Goes, Past, Fresh, Idle
  <2>. QED
    BY <1>2, <2>1, <2>2, <2>3
<1>. QED
  BY <1>1, <1>3, <1>4, <1>5

LEMMA HealOutcome ==
    ASSUME TypeOK, Heal
    PROVE  /\ o.cmd = "deploy" /\ o.at = "heal" /\ UNCHANGED <<cloud, stacks, tfFile, tf, clock>>
           /\ record' = [host |-> o.host, due |-> o.due, present |-> "yes"]
           /\ ledger' = Remembered(o.host, o.due)
           /\ proc'[Status] = proc[Status] /\ Goes("adopt", o.host, o.due) /\ SameLoop
           /\ o'.agreed = o.agreed
<1>1. o' = [o EXCEPT !.at = "adopt", !.asked = 0] /\ proc'[Status] = proc[Status]
  BY OperatorBecomes DEF Heal
<1>2. o \in Process
  BY DEF TypeOK, o
<1>3. Goes("adopt", o.host, o.due) /\ SameLoop /\ o'.agreed = o.agreed
  BY <1>1 DEF Goes, SameLoop
<1>. QED
  BY <1>1, <1>3 DEF Heal, Deploying

LEMMA PlanOutcome ==
    ASSUME TypeOK, Plan
    PROVE  /\ o.cmd = "deploy" /\ o.at = "hosts" /\ o.todo = {} /\ (record = NoRecord \/ ~tfFile) /\ tf = NoHost
           /\ UNCHANGED <<cloud, disk, clock>> /\ proc'[Status] = proc[Status]
           /\ Goes("prompt", NoHost, ReleaseTime(clock)) /\ Past /\ o'.asked = clock
<1>1. o' = [Fresh EXCEPT !.at = "prompt", !.asked = clock, !.due = ReleaseTime(clock)]
        /\ proc'[Status] = proc[Status]
  BY OperatorBecomes DEF Plan
<1>2. Goes("prompt", NoHost, ReleaseTime(clock)) /\ Past /\ o'.asked = clock
  BY <1>1 DEF Goes, Past, Fresh, Idle
<1>. QED
  BY <1>1, <1>2 DEF Plan, DeployReconciled, Deploying, Recorded

LEMMA ConfirmOutcome ==
    ASSUME TypeOK, Confirm
    PROVE  /\ o.cmd = "deploy" /\ o.at = "prompt" /\ UNCHANGED <<cloud, disk, clock>>
           /\ proc'[Status] = proc[Status]
           /\ Ended \/ (Goes("apply", o.host, o.due) /\ SameLoop /\ o'.agreed /\ o'.asked = o.asked)
<1>1. o.cmd = "deploy" /\ o.at = "prompt" /\ UNCHANGED <<cloud, disk, clock>>
  BY DEF Confirm, Deploying
<1>2. CASE Stops(Operator)
  BY <1>1, <1>2, OperatorStops
<1>3. CASE Becomes(Operator, [o EXCEPT !.at = "apply", !.agreed = TRUE])
  <2>1. o' = [o EXCEPT !.at = "apply", !.agreed = TRUE] /\ proc'[Status] = proc[Status]
    BY <1>3, OperatorBecomes
  <2>2. o \in Process
    BY DEF TypeOK, o
  <2>3. Goes("apply", o.host, o.due) /\ SameLoop /\ o'.agreed /\ o'.asked = o.asked
    BY <2>1 DEF Goes, SameLoop
  <2>. QED
    BY <1>1, <2>1, <2>3
<1>. QED
  BY <1>2, <1>3 DEF Confirm

LEMMA FailsOutcome ==
    ASSUME TypeOK, NEW host, Fails(host)
    PROVE  /\ proc'[Status] = proc[Status]
           /\ \/ Ended
              \/ o.agreed /\ host # NoHost /\ Goes("record", host, o.due) /\ SameLoop
                   /\ o'.agreed /\ o'.asked = o.asked
<1>1. CASE Stops(Operator)
  BY <1>1, OperatorStops
<1>2. CASE o.agreed /\ host # NoHost /\ Becomes(Operator, [o EXCEPT !.at = "record", !.host = host])
  <2>1. o' = [o EXCEPT !.at = "record", !.host = host] /\ proc'[Status] = proc[Status]
    BY <1>2, OperatorBecomes
  <2>2. o \in Process
    BY DEF TypeOK, o
  <2>3. Goes("record", host, o.due) /\ SameLoop /\ o'.agreed = o.agreed /\ o'.asked = o.asked
    BY <2>1 DEF Goes, SameLoop
  <2>. QED
    BY <1>2, <2>1, <2>3
<1>. QED
  BY <1>1, <1>2 DEF Fails

LEMMA ApplyOutcome ==
    ASSUME TypeOK, Real, Apply
    PROVE  /\ o.cmd = "deploy" /\ o.at = "apply"
           /\ UNCHANGED <<sched, releasing, record, ledger, stacks, clock>>
           /\ proc'[Status] = proc[Status]
           /\ \E h \in Hosts :
                /\ \/ h = tf /\ aws[h] = "allocated" /\ UNCHANGED <<aws, since>>
                   \/ /\ Truth(tf) = "no" /\ aws[h] = "free"
                      /\ aws' = [aws EXCEPT ![h] = "allocated"] /\ since' = [since EXCEPT ![h] = clock]
                /\ tf' = h /\ tfFile' = TRUE
                /\ \/ Ended
                   \/ Goes("outputs", o.host, o.due) /\ SameLoop /\ o'.agreed = o.agreed /\ o'.asked = o.asked
                   \/ o.agreed /\ Goes("record", h, o.due) /\ SameLoop /\ o'.agreed /\ o'.asked = o.asked
<1>1. PICK h \in Hosts :
         /\ IF Truth(tf) = "yes" THEN h = tf ELSE aws[h] = "free"
         /\ IF h = tf THEN UNCHANGED <<aws, since>>
            ELSE aws' = [aws EXCEPT ![h] = "allocated"] /\ since' = [since EXCEPT ![h] = clock]
         /\ tf' = h /\ tfFile' = TRUE
         /\ \/ mac' = h /\ UNCHANGED faults /\ Moves(Operator, "outputs")
            \/ Fault("apply") /\ UNCHANGED mac /\ Fails(h)
  BY DEF Apply
<1>2. \/ h = tf /\ aws[h] = "allocated" /\ UNCHANGED <<aws, since>>
      \/ /\ Truth(tf) = "no" /\ aws[h] = "free"
         /\ aws' = [aws EXCEPT ![h] = "allocated"] /\ since' = [since EXCEPT ![h] = clock]
  <2>1. CASE Truth(tf) = "yes"
    BY <1>1, <2>1 DEF Truth
  <2>2. CASE Truth(tf) # "yes"
    BY <1>1 DEF Truth, Real, Unheard
  <2>. QED
    BY <2>1, <2>2
<1>3. o.cmd = "deploy" /\ o.at = "apply" /\ UNCHANGED <<sched, releasing, record, ledger, stacks, clock>>
  BY DEF Apply, Deploying
<1>4. CASE Moves(Operator, "outputs")
  BY <1>1, <1>2, <1>3, <1>4, OperatorMoves
<1>5. CASE Fails(h)
  BY <1>1, <1>2, <1>3, <1>5, FailsOutcome
<1>. QED
  BY <1>1, <1>4, <1>5

LEMMA OutputsOutcome ==
    ASSUME TypeOK, Outputs
    PROVE  /\ o.cmd = "deploy" /\ o.at = "outputs" /\ UNCHANGED <<cloud, disk, clock>>
           /\ proc'[Status] = proc[Status]
           /\ \/ Ended
              \/ SameLoop /\ o'.agreed = o.agreed /\ o'.cmd = "deploy" /\ o'.at = "record"
                   /\ \/ ~o.agreed /\ o'.host = o.host /\ o'.due = o.due
                      \/ o'.host = tf /\ (o.agreed \/ tf = o.host) /\ o'.due = o.due
                      \/ o'.host = tf /\ o'.due = ReleaseTime(clock) /\ tf # o.host /\ ~o.agreed
<1>1. o.cmd = "deploy" /\ o.at = "outputs" /\ UNCHANGED <<cloud, disk, clock>>
  BY DEF Outputs, Deploying
<1>2. CASE Stops(Operator)
  BY <1>1, <1>2, OperatorStops
<1>3. CASE ~o.agreed /\ Moves(Operator, "record")
  BY <1>1, <1>3, OperatorMoves DEF Goes
<1>4. CASE Becomes(Operator, [o EXCEPT !.at = "record", !.host = tf, !.answer = "yes", !.asked = 0,
               !.due = IF o.agreed \/ tf = o.host THEN @ ELSE ReleaseTime(clock)])
  <2> DEFINE due == IF o.agreed \/ tf = o.host THEN o.due ELSE ReleaseTime(clock)
  <2>1. o' = [o EXCEPT !.at = "record", !.host = tf, !.answer = "yes", !.asked = 0, !.due = due]
          /\ proc'[Status] = proc[Status]
    BY <1>4, OperatorBecomes
  <2>2. o \in Process
    BY DEF TypeOK, o
  <2>3. Goes("record", tf, due) /\ SameLoop /\ o'.agreed = o.agreed
    <3>. HIDE DEF due
    <3>. QED
      BY <2>1 DEF Goes, SameLoop
  <2>. QED
    BY <1>1, <2>1, <2>3 DEF Goes
<1>. QED
  BY <1>2, <1>3, <1>4 DEF Outputs

LEMMA TeardownBacklogOutcome ==
    ASSUME TypeOK, TeardownBacklog
    PROVE  /\ o.cmd = "destroy" /\ o.at = "hosts" /\ o.todo = {} /\ UNCHANGED <<cloud, disk, clock>>
           /\ proc'[Status] = proc[Status]
           /\ \/ Ended
              \/ /\ o'.cmd = "destroy" /\ o'.at = "backlog" /\ o'.todo = Outstanding /\ o'.host = NoHost
                 /\ o'.current = NoHost /\ ~o'.agreed /\ o'.answer = "unknown"
<1>1. o.cmd = "destroy" /\ o.at = "hosts" /\ o.todo = {} /\ UNCHANGED <<cloud, disk, clock>>
  BY DEF TeardownBacklog, Destroying
<1>2. o' = (IF Outstanding = {} THEN Idle ELSE [Fresh EXCEPT !.at = "backlog", !.todo = Outstanding])
        /\ proc'[Status] = proc[Status]
  BY OperatorBecomes DEF TeardownBacklog
<1>3. CASE Outstanding = {}
  BY <1>1, <1>2, <1>3 DEF Ended, Idle
<1>4. CASE Outstanding # {}
  <2>1. o' = [Fresh EXCEPT !.at = "backlog", !.todo = Outstanding]
    BY <1>2, <1>4
  <2>2. /\ o'.cmd = "destroy" /\ o'.at = "backlog" /\ o'.todo = Outstanding /\ o'.host = NoHost
        /\ o'.current = NoHost /\ ~o'.agreed /\ o'.answer = "unknown"
    BY <1>1, <2>1 DEF Fresh, Idle
  <2>. QED
    BY <1>1, <1>2, <2>2
<1>. QED
  BY <1>3, <1>4

LEMMA TeardownOutcome ==
    ASSUME TypeOK, Teardown
    PROVE  /\ o.cmd = "destroy" /\ o.at = "hosts" /\ o.todo = {} /\ ~NothingDeployed
           /\ UNCHANGED <<aws, since, mac, releasing, record, ledger, tfFile, tf, clock>>
           /\ proc'[Status] = proc[Status]
           /\ \E gone \in {Finished, {}} :
                /\ stacks' = stacks \ gone
                /\ sched' = [h \in Hosts |-> IF h \in gone THEN Never ELSE sched[h]]
           /\ o'.cmd = "destroy" /\ o'.at = "schedule"
           /\ o'.todo = Outstanding \union ({record.host} \ {NoHost})
           /\ o'.host = NoHost /\ o'.current = NoHost /\ ~o'.agreed /\ o'.answer = "unknown"
<1>1. PICK gone \in {Finished, {}} :
         /\ stacks' = stacks \ gone
         /\ sched' = [h \in Hosts |-> IF h \in gone THEN Never ELSE sched[h]]
         /\ Becomes(Operator, [Fresh EXCEPT !.at = "schedule",
                 !.todo = Outstanding \union ({record.host} \ {NoHost})])
  BY DEF Teardown
<1>2. /\ o.cmd = "destroy" /\ o.at = "hosts" /\ o.todo = {} /\ ~NothingDeployed
      /\ UNCHANGED <<aws, since, mac, releasing, record, ledger, tfFile, tf, clock>>
  BY DEF Teardown, Destroying
<1>3. o' = [Fresh EXCEPT !.at = "schedule", !.todo = Outstanding \union ({record.host} \ {NoHost})]
        /\ proc'[Status] = proc[Status]
  BY <1>1, OperatorBecomes
<1>4. /\ o'.cmd = "destroy" /\ o'.at = "schedule"
      /\ o'.todo = Outstanding \union ({record.host} \ {NoHost})
      /\ o'.host = NoHost /\ o'.current = NoHost /\ ~o'.agreed /\ o'.answer = "unknown"
  BY <1>2, <1>3 DEF Fresh, Idle
<1>. QED
  BY <1>1, <1>2, <1>3, <1>4

LEMMA ScheduleOutcome ==
    ASSUME TypeOK, Schedule
    PROVE  /\ o.cmd = "destroy" /\ o.at \in {"schedule", "backlog"}
           /\ UNCHANGED <<aws, since, mac, releasing, record, tfFile, tf, clock>>
           /\ proc'[Status] = proc[Status]
           /\ \E h \in o.todo :
                /\ o'.todo = o.todo \ {h}
                /\ \/ /\ stacks' = stacks \union {h} /\ sched' = [sched EXCEPT ![h] = Due(h)]
                      /\ ledger' = Remembered(h, Due(h)) /\ UNCHANGED faults
                   \/ /\ faults' = faults + 1 /\ stacks' \in {stacks, stacks \union {h}}
                      /\ UNCHANGED <<sched, ledger>>
           /\ Goes(o.at, o.host, o.due) /\ o'.current = o.current /\ o'.agreed = o.agreed
           /\ o'.answer = o.answer /\ o'.gone = o.gone
<1>1. PICK h \in o.todo :
         /\ proc' = [proc EXCEPT ![Operator].todo = @ \ {h}]
         /\ \/ /\ stacks' = stacks \union {h}
               /\ sched' = [sched EXCEPT ![h] = Due(h)]
               /\ ledger' = Remembered(h, Due(h))
               /\ UNCHANGED faults
            \/ /\ Fault("schedule")
               /\ stacks' \in {stacks, stacks \union {h}}
               /\ UNCHANGED <<sched, ledger>>
  BY DEF Schedule
<1>2. /\ o.cmd = "destroy" /\ o.at \in {"schedule", "backlog"}
      /\ UNCHANGED <<aws, since, mac, releasing, record, tfFile, tf, clock>>
  BY DEF Schedule, Destroying
<1>3. /\ o'.todo = o.todo \ {h} /\ proc'[Status] = proc[Status]
      /\ Goes(o.at, o.host, o.due) /\ o'.current = o.current /\ o'.agreed = o.agreed
      /\ o'.answer = o.answer /\ o'.gone = o.gone
  BY <1>1 DEF TypeOK, Goes, o, Operator, Status
<1>. QED
  BY <1>1, <1>2, <1>3 DEF Fault

LEMMA WriteLedgerOutcome ==
    ASSUME TypeOK, WriteLedger
    PROVE  /\ o.cmd = "deploy" /\ o.at = "ledger" /\ UNCHANGED <<cloud, record, stacks, tfFile, tf, clock>>
           /\ ledger' = Remembered(o.host, o.due) /\ DOMAIN ledger' = DOMAIN ledger \union {o.host}
           /\ proc'[Status] = proc[Status] /\ Ended
BY OperatorStops DEF WriteLedger, Deploying, Remembered

LEMMA AdoptOutcome ==
    ASSUME TypeOK, Adopt
    PROVE  /\ o.cmd = "deploy" /\ o.at = "adopt" /\ UNCHANGED <<cloud, record, ledger, stacks, clock>>
           /\ proc'[Status] = proc[Status]
           /\ \/ Ended /\ UNCHANGED <<tf, tfFile>>
              \/ /\ Goes("apply", o.host, o.due) /\ SameLoop
                 /\ o'.agreed = o.agreed /\ o'.asked = o.asked
                 /\ \/ tf = o.host /\ UNCHANGED <<tf, tfFile>>
                    \/ tf = NoHost /\ Truth(o.host) = "yes" /\ tf' = o.host /\ tfFile' = TRUE
<1>1. o.cmd = "deploy" /\ o.at = "adopt" /\ UNCHANGED <<cloud, record, ledger, stacks, clock>>
  BY DEF Adopt, Deploying
<1>2. CASE Stops(Operator) /\ UNCHANGED <<tf, tfFile>>
  BY <1>1, <1>2, OperatorStops
<1>3. CASE /\ Moves(Operator, "apply")
           /\ \/ tf = o.host /\ UNCHANGED <<tf, tfFile>>
              \/ tf = NoHost /\ Truth(o.host) = "yes" /\ tf' = o.host /\ tfFile' = TRUE
  BY <1>1, <1>3, OperatorMoves
<1>. QED
  BY <1>2, <1>3 DEF Adopt

LEMMA RolesStep == TypeOK /\ Real /\ Roles /\ [Next]_vars => Roles'
<1>. SUFFICES ASSUME TypeOK, Real, Roles, [Next]_vars PROVE Roles'
  OBVIOUS
<1>0. /\ \A p \in Commands : proc[p] \in Process
      /\ o \in Process /\ o = proc[Operator]
      /\ tf \in MaybeHost /\ record.host \in MaybeHost
      /\ aws \in [Hosts -> {"free", "allocated", "released"}] /\ sched \in [Hosts -> Dues]
      /\ since \in [Hosts -> 0 .. MaxClock] /\ clock \in 0 .. MaxClock
  BY DEF TypeOK, Commands, o
<1>1. ASSUME NEW cmd \in {"deploy", "destroy"}, Start(cmd) PROVE Roles'
  BY <1>1 DEF Start, Becomes, Roles, Operator, Status, o
<1>2. CASE Check
  BY <1>2 DEF Check, Becomes, Roles, Operator, Status, o
<1>3. ASSUME NEW p \in Commands, Survey(p) PROVE Roles'
  BY <1>3 DEF Survey, Becomes, At, Roles, o
<1>4. ASSUME NEW p \in Commands, AskAbout(p) PROVE Roles'
  BY <1>4 DEF AskAbout, Becomes, At, Roles, o
<1>5. ASSUME NEW p \in Commands, NoteAnswer(p) PROVE Roles'
  BY <1>5, NoteAnswerOutcome DEF Others, Kept, Roles, Commands, o
<1>6. ASSUME NEW p \in Commands, DropStack(p) PROVE Roles'
  BY <1>6 DEF DropStack, Moves, At, Roles, o
<1>7. ASSUME NEW p \in Commands, Forget(p) PROVE Roles'
  BY <1>7, ForgetOutcome DEF Others, Kept, Roles, Commands, o
<1>8. ASSUME NEW p \in Commands, ClearRecord(p) PROVE Roles'
  BY <1>8 DEF ClearRecord, NextHost, Becomes, At, Roles, o
<1>9. CASE CheckDone
  BY <1>9 DEF CheckDone, Stops, Becomes, Idle, Roles, o
<1>10. CASE TakeUp
  BY <1>10, TakeUpOutcome DEF Ended, Goes, Roles
<1>11. CASE TakeUpOrphan
  BY <1>11, TakeUpOrphanOutcome DEF Ended, Goes, Roles
<1>12. CASE Heal
  BY <1>12, HealOutcome DEF Goes, Roles
<1>13. CASE Plan
  BY <1>13, PlanOutcome DEF Goes, Roles
<1>14. CASE Confirm
  BY <1>14, ConfirmOutcome DEF Ended, Goes, Roles
<1>15. CASE Adopt
  BY <1>15, AdoptOutcome DEF Ended, Goes, Roles
<1>16. CASE Apply
  BY <1>16, ApplyOutcome DEF Ended, Goes, Roles
<1>17. CASE NoCapacity
  BY <1>17 DEF NoCapacity, Fails, Stops, Becomes, Idle, Roles, o, TypeOK
<1>18. CASE Outputs
  BY <1>18, OutputsOutcome DEF Ended, Roles
<1>19. CASE WriteRecord
  BY <1>19 DEF WriteRecord, Deploying, Moves, Roles, o
<1>20. CASE WriteLedger
  BY <1>20, WriteLedgerOutcome DEF Ended, Roles
<1>21. CASE TeardownBacklog
  BY <1>21, TeardownBacklogOutcome DEF Ended, Roles
<1>22. CASE Teardown
  BY <1>22, TeardownOutcome DEF Roles
<1>23. CASE Schedule
  BY <1>23, ScheduleOutcome DEF Goes, Roles
<1>24. CASE BacklogDone
  BY <1>24 DEF BacklogDone, Stops, Becomes, Idle, Roles, o
<1>25. CASE ForgetHost
  BY <1>25 DEF ForgetHost, Destroying, Moves, Stops, Becomes, Idle, Roles, o, TypeOK, Process
<1>26. CASE Terminate
  BY <1>26 DEF Terminate, Stops, Becomes, Idle, Roles, o
<1>27. ASSUME NEW p \in Commands, Killed(p) PROVE Roles'
  BY <1>27 DEF Killed, Stops, Becomes, Idle, Roles, o
<1>28. ASSUME NEW h \in Hosts, Fire(h) PROVE Roles'
  BY <1>28 DEF Fire, Roles, o
<1>29. ASSUME NEW h \in Hosts, Release(h) PROVE Roles'
  BY <1>29 DEF Release, Roles, o
<1>30. ASSUME NEW h \in Hosts, GiveUp(h) PROVE Roles'
  BY <1>30 DEF GiveUp, Roles, o
<1>31. CASE Tick
  BY <1>31 DEF Tick, Roles, o
<1>32. CASE UNCHANGED vars
  BY <1>32 DEF vars, Roles, o
<1>. QED
  BY <1>1, <1>2, <1>3, <1>4, <1>5, <1>6, <1>7, <1>8, <1>9, <1>10, <1>11, <1>12, <1>13, <1>14, <1>15, <1>16,
     <1>17, <1>18, <1>19, <1>20, <1>21, <1>22, <1>23, <1>24, <1>25, <1>26, <1>27, <1>28, <1>29, <1>30, <1>31, <1>32
     DEF Next, Working, Reconcile, Deploy, Destroy, Aws, Commands

LEMMA PlacedStep == TypeOK /\ Real /\ Placed /\ [Next]_vars => Placed'
<1>. SUFFICES ASSUME TypeOK, Real, Placed, [Next]_vars PROVE Placed'
  OBVIOUS
<1>0. /\ \A p \in Commands : proc[p] \in Process
      /\ o \in Process /\ o = proc[Operator]
      /\ tf \in MaybeHost /\ record.host \in MaybeHost
      /\ aws \in [Hosts -> {"free", "allocated", "released"}] /\ sched \in [Hosts -> Dues]
      /\ since \in [Hosts -> 0 .. MaxClock] /\ clock \in 0 .. MaxClock
  BY DEF TypeOK, Commands, o
<1>1. ASSUME NEW cmd \in {"deploy", "destroy"}, Start(cmd) PROVE Placed'
  BY <1>1 DEF Start, Becomes, disk, Placed, o
<1>2. CASE Check
  BY <1>2 DEF Check, Becomes, disk, Placed, o
<1>3. ASSUME NEW p \in Commands, Survey(p) PROVE Placed'
  BY <1>3 DEF Survey, Becomes, disk, Placed, o
<1>4. ASSUME NEW p \in Commands, AskAbout(p) PROVE Placed'
  BY <1>4 DEF AskAbout, Becomes, disk, Placed, o, TypeOK, Process
<1>5. ASSUME NEW p \in Commands, NoteAnswer(p) PROVE Placed'
  <2>1. record'.host = record.host /\ (record' # NoRecord => record # NoRecord)
    BY <1>5, NoteAnswerOutcome, MacHostsAssumption DEF Placed, NoRecord
  <2>. QED
    BY <1>5, NoteAnswerOutcome DEF Others, Holds, Placed, Commands, o
<1>6. ASSUME NEW p \in Commands, DropStack(p) PROVE Placed'
  BY <1>6 DEF DropStack, Moves, At, Placed, o
<1>7. ASSUME NEW p \in Commands, Forget(p) PROVE Placed'
  BY <1>7, ForgetOutcome DEF Others, Holds, Placed, Commands, o
<1>8. ASSUME NEW p \in Commands, ClearRecord(p) PROVE Placed'
  BY <1>8 DEF ClearRecord, NextHost, Becomes, Placed, Commands, o, TypeOK
<1>9. CASE CheckDone
  BY <1>9 DEF CheckDone, Stops, Becomes, Idle, disk, Placed, o
<1>10. CASE TakeUp
  BY <1>10, TakeUpOutcome DEF Ended, Goes, disk, Placed, Commands, o
<1>11. CASE TakeUpOrphan
  BY <1>0, <1>11, TakeUpOrphanOutcome DEF Ended, Goes, Placed, Commands, o, MaybeHost
<1>12. CASE Heal
  BY <1>12, HealOutcome DEF Goes, Placed, Commands, o
<1>13. CASE Plan
  BY <1>13, PlanOutcome DEF Goes, disk, Placed, Commands, o
<1>14. CASE Confirm
  BY <1>14, ConfirmOutcome DEF Ended, Goes, disk, Placed, Commands, o
<1>15. CASE Adopt
  BY <1>15, AdoptOutcome DEF Ended, Goes, Placed, Commands, o
<1>16. CASE Apply
  BY <1>16, ApplyOutcome
     DEF Others, Kept, Holds, Ended, Goes, Past, SameLoop, cloud, disk, Placed, Commands, Operator,
         Status, o, NoRecord, MaybeHost, Process
<1>17. CASE NoCapacity
  BY <1>17 DEF NoCapacity, Fails, Stops, Becomes, Idle, Placed, Commands, o, TypeOK
<1>18. CASE Outputs
  BY <1>18, OutputsOutcome DEF Ended, disk, Placed, Commands, o
<1>19. CASE WriteRecord
  BY <1>19 DEF WriteRecord, Deploying, Moves, Placed, o
<1>20. CASE WriteLedger
  BY <1>20, WriteLedgerOutcome DEF Ended, Placed, Commands, o
<1>21. CASE TeardownBacklog
  BY <1>21, TeardownBacklogOutcome DEF Ended, disk, Placed, Commands, o
<1>22. CASE Teardown
  BY <1>22, TeardownOutcome DEF Placed, Commands, o
<1>23. CASE Schedule
  BY <1>23, ScheduleOutcome DEF Goes, Placed, Commands, o
<1>24. CASE BacklogDone
  BY <1>24 DEF BacklogDone, Stops, Becomes, Idle, disk, Placed, o
<1>25. CASE ForgetHost
  BY <1>25 DEF ForgetHost, Moves, Stops, Becomes, Idle, Placed, Commands, o, TypeOK, Process
<1>26. CASE Terminate
  BY <1>26 DEF Terminate, Stops, Becomes, Idle, disk, Placed, o
<1>27. ASSUME NEW p \in Commands, Killed(p) PROVE Placed'
  BY <1>27 DEF Killed, Stops, Becomes, Idle, disk, Placed, o
<1>28. ASSUME NEW h \in Hosts, Fire(h) PROVE Placed'
  BY <1>28 DEF Fire, disk, Placed, o
<1>29. ASSUME NEW h \in Hosts, Release(h) PROVE Placed'
  BY <1>29 DEF Release, disk, Placed, o
<1>30. ASSUME NEW h \in Hosts, GiveUp(h) PROVE Placed'
  BY <1>30 DEF GiveUp, disk, Placed, o
<1>31. CASE Tick
  BY <1>31 DEF Tick, disk, Placed, o
<1>32. CASE UNCHANGED vars
  BY <1>32 DEF vars, disk, Placed, o
<1>. QED
  BY <1>1, <1>2, <1>3, <1>4, <1>5, <1>6, <1>7, <1>8, <1>9, <1>10, <1>11, <1>12, <1>13, <1>14, <1>15, <1>16,
     <1>17, <1>18, <1>19, <1>20, <1>21, <1>22, <1>23, <1>24, <1>25, <1>26, <1>27, <1>28, <1>29, <1>30, <1>31, <1>32
     DEF Next, Working, Reconcile, Deploy, Destroy, Aws, Commands

LEMMA RealStep == TypeOK /\ Placed /\ Real /\ [Next]_vars => Real'
<1>. SUFFICES ASSUME TypeOK, Placed, Real, [Next]_vars PROVE Real'
  OBVIOUS
<1>0. /\ \A p \in Commands : proc[p] \in Process
      /\ o \in Process /\ o = proc[Operator]
      /\ tf \in MaybeHost /\ record.host \in MaybeHost
      /\ aws \in [Hosts -> {"free", "allocated", "released"}] /\ sched \in [Hosts -> Dues]
      /\ since \in [Hosts -> 0 .. MaxClock] /\ clock \in 0 .. MaxClock
  BY DEF TypeOK, Commands, o
<1>1. ASSUME NEW cmd \in {"deploy", "destroy"}, Start(cmd) PROVE Real'
  BY <1>1, MacHostsAssumption DEF Start, Becomes, Idle, cloud, disk, Real, Unheard
<1>2. CASE Check
  BY <1>2, MacHostsAssumption DEF Check, Becomes, Idle, cloud, disk, Real, Unheard
<1>3. ASSUME NEW p \in Commands, Survey(p) PROVE Real'
  BY <1>3 DEF Survey, Becomes, cloud, disk, Real, Unheard, Tracked
<1>4. ASSUME NEW p \in Commands, AskAbout(p) PROVE Real'
  BY <1>4 DEF AskAbout, Becomes, cloud, disk, Real, Unheard
<1>5. ASSUME NEW p \in Commands, NoteAnswer(p) PROVE Real'
  <2>. SUFFICES ASSUME NEW h \in Hosts, aws'[h] = "free" PROVE Unheard(h)'
    BY DEF Real
  <2>1. aws[h] = "free" /\ Unheard(h)
    BY <1>5, NoteAnswerOutcome DEF cloud, Real
  <2>. QED
    BY <1>5, <2>1, NoteAnswerOutcome, MacHostsAssumption DEF Unheard, Others, Kept, Holds, cloud
<1>6. ASSUME NEW p \in Commands, DropStack(p) PROVE Real'
  BY <1>6 DEF DropStack, Moves, Real, Unheard, TypeOK
<1>7. ASSUME NEW p \in Commands, Forget(p) PROVE Real'
  BY <1>7, ForgetOutcome, MacHostsAssumption
     DEF Others, Kept, Holds, cloud, Real, Unheard, Commands
<1>8. ASSUME NEW p \in Commands, ClearRecord(p) PROVE Real'
  BY <1>8, MacHostsAssumption
     DEF ClearRecord, NextHost, Becomes, cloud, NoRecord, Real, Unheard, NoRecord
<1>9. CASE CheckDone
  BY <1>9, MacHostsAssumption DEF CheckDone, Stops, Becomes, Idle, cloud, disk, Real, Unheard
<1>10. CASE TakeUp
  <2>. SUFFICES ASSUME NEW h \in Hosts, aws'[h] = "free" PROVE Unheard(h)'
    BY DEF Real
  <2>1. aws[h] = "free" /\ Unheard(h)
    BY <1>10, TakeUpOutcome DEF cloud, Real
  <2>. QED
    BY <1>10, <2>1, TakeUpOutcome, MacHostsAssumption
       DEF Unheard, Others, Kept, Holds, Ended, Goes, Past, SameLoop, cloud, disk, Commands,
           Operator, Status, o
<1>11. CASE TakeUpOrphan
  <2>. SUFFICES ASSUME NEW h \in Hosts, aws'[h] = "free" PROVE Unheard(h)'
    BY DEF Real
  <2>1. aws[h] = "free" /\ Unheard(h)
    BY <1>11, TakeUpOrphanOutcome DEF cloud, Real
  <2>. QED
    BY <1>11, <2>1, TakeUpOrphanOutcome, MacHostsAssumption
       DEF Unheard, Others, Kept, Holds, Ended, Goes, Past, SameLoop, cloud, disk, Commands,
           Operator, Status, o
<1>12. CASE Heal
  BY <1>12, HealOutcome DEF Goes, SameLoop, cloud, Real, Unheard, Commands, o, Remembered
<1>13. CASE Plan
  BY <1>13, PlanOutcome DEF Goes, Past, cloud, disk, Real, Unheard, Commands, o
<1>14. CASE Confirm
  <2>. SUFFICES ASSUME NEW h \in Hosts, aws'[h] = "free" PROVE Unheard(h)'
    BY DEF Real
  <2>1. aws[h] = "free" /\ Unheard(h)
    BY <1>14, ConfirmOutcome DEF cloud, Real
  <2>2. /\ UNCHANGED <<cloud, disk, clock>> /\ proc'[Status] = proc[Status]
        /\ o'.todo \in {{}, o.todo} /\ o'.current \in {NoHost, o.current} /\ o'.host \in {NoHost, o.host}
    BY <1>0, <1>14, ConfirmOutcome DEF Goes, SameLoop, Ended
  <2>. QED
    BY <2>1, <2>2, MacHostsAssumption DEF Unheard, cloud, disk, Commands, Operator, Status, o
<1>15. CASE Adopt
  <2>. SUFFICES ASSUME NEW h \in Hosts, aws'[h] = "free" PROVE Unheard(h)'
    BY DEF Real
  <2>1. aws[h] = "free" /\ Unheard(h)
    BY <1>15, AdoptOutcome DEF cloud, Real
  <2>. QED
    BY <1>15, <2>1, AdoptOutcome, MacHostsAssumption
       DEF Unheard, Others, Kept, Holds, Ended, Goes, Past, SameLoop, cloud, disk, Commands,
           Operator, Status, o
<1>16. CASE Apply
  <2>. SUFFICES ASSUME NEW h \in Hosts, aws'[h] = "free" PROVE Unheard(h)'
    BY DEF Real
  <2>1. aws[h] = "free" /\ Unheard(h) /\ h # tf'
    <3>1. \E g \in Hosts : /\ tf' = g
                          /\ \/ g = tf /\ aws[g] = "allocated" /\ aws' = aws
                             \/ aws' = [aws EXCEPT ![g] = "allocated"]
      BY <1>0, <1>16, ApplyOutcome
    <3>2. aws[h] = "free" /\ h # tf'
      BY <1>0, <3>1
    <3>. QED
      BY <1>0, <3>2 DEF Real
  <2>2. /\ o'.todo \in {{}, o.todo} /\ o'.current \in {NoHost, o.current}
        /\ o'.host \in {NoHost, o.host, tf'}
    BY <1>16, ApplyOutcome DEF Goes, SameLoop, Ended
  <2>3. proc'[Status] = proc[Status] /\ UNCHANGED <<sched, record, ledger, stacks>>
    BY <1>16, ApplyOutcome
  <2>. QED
    BY <2>1, <2>2, <2>3, MacHostsAssumption DEF Unheard, Commands, o
<1>17. CASE NoCapacity
  BY <1>17 DEF NoCapacity, cloud, Real
<1>18. CASE Outputs
  <2>. SUFFICES ASSUME NEW h \in Hosts, aws'[h] = "free" PROVE Unheard(h)'
    BY DEF Real
  <2>1. aws[h] = "free" /\ Unheard(h)
    BY <1>18, OutputsOutcome DEF cloud, Real
  <2>. QED
    BY <1>18, <2>1, OutputsOutcome, MacHostsAssumption
       DEF Unheard, Others, Kept, Holds, Ended, Goes, SameLoop, cloud, disk, Commands, Operator,
           Status, o
<1>19. CASE WriteRecord
  BY <1>19 DEF WriteRecord, Moves, cloud, Real, Unheard, Commands, o
<1>20. CASE WriteLedger
  <2>. SUFFICES ASSUME NEW h \in Hosts, aws'[h] = "free" PROVE Unheard(h)'
    BY DEF Real
  <2>1. aws[h] = "free" /\ Unheard(h)
    BY <1>20, WriteLedgerOutcome DEF cloud, Real
  <2>. QED
    BY <1>20, <2>1, WriteLedgerOutcome, MacHostsAssumption DEF Unheard, Ended, cloud, Commands, o
<1>21. CASE TeardownBacklog
  <2>. SUFFICES ASSUME NEW h \in Hosts, aws'[h] = "free" PROVE Unheard(h)'
    BY DEF Real
  <2>1. aws[h] = "free" /\ Unheard(h)
    BY <1>21, TeardownBacklogOutcome DEF cloud, Real
  <2>. QED
    BY <1>21, <2>1, TeardownBacklogOutcome, MacHostsAssumption
       DEF Unheard, Others, Kept, Holds, Ended, Goes, Past, SameLoop, cloud, disk, Commands,
           Operator, Status, o, Outstanding, Tracked
<1>22. CASE Teardown
  BY <1>22, TeardownOutcome, MacHostsAssumption
     DEF Real, Unheard, Tracked, Outstanding, Commands, o
<1>23. CASE Schedule
  <2>. SUFFICES ASSUME NEW h \in Hosts, aws'[h] = "free" PROVE Unheard(h)'
    BY DEF Real
  <2>1. aws[h] = "free" /\ Unheard(h)
    BY <1>0, <1>23, ScheduleOutcome DEF Real
  <2>2. PICK x \in o.todo :
          /\ o'.todo = o.todo \ {x}
          /\ \/ /\ stacks' = stacks \union {x} /\ sched' = [sched EXCEPT ![x] = Due(x)]
                /\ ledger' = Remembered(x, Due(x)) /\ UNCHANGED faults
             \/ /\ faults' = faults + 1 /\ stacks' \in {stacks, stacks \union {x}}
                /\ UNCHANGED <<sched, ledger>>
    BY <1>23, ScheduleOutcome
  <2>3. h # x
    BY <1>0, <2>1 DEF Unheard, Commands
  <2>4. h \notin DOMAIN ledger' /\ h \notin stacks' /\ sched'[h] = Never
    BY <1>0, <2>1, <2>2, <2>3 DEF Unheard, Remembered
  <2>. QED
    BY <1>23, <2>1, <2>4, ScheduleOutcome DEF Unheard, Goes, Commands, o
<1>24. CASE BacklogDone
  BY <1>24, MacHostsAssumption DEF BacklogDone, Stops, Becomes, Idle, cloud, disk, Real, Unheard
<1>25. CASE ForgetHost
  BY <1>25, MacHostsAssumption
     DEF ForgetHost, Moves, Stops, Becomes, Idle, cloud, Real, Unheard, Commands, TypeOK, Process
<1>26. CASE Terminate
  BY <1>26, MacHostsAssumption DEF Terminate, Stops, Becomes, Idle, disk, Real, Unheard
<1>27. ASSUME NEW p \in Commands, Killed(p) PROVE Real'
  BY <1>27, MacHostsAssumption DEF Killed, Stops, Becomes, Idle, cloud, disk, Real, Unheard
<1>28. ASSUME NEW h \in Hosts, Fire(h) PROVE Real'
  BY <1>28 DEF Fire, disk, Real, Unheard
<1>29. ASSUME NEW h \in Hosts, Release(h) PROVE Real'
  BY <1>29 DEF Release, disk, Real, Unheard
<1>30. ASSUME NEW h \in Hosts, GiveUp(h) PROVE Real'
  BY <1>30 DEF GiveUp, disk, Real, Unheard
<1>31. CASE Tick
  BY <1>31 DEF Tick, cloud, disk, Real, Unheard
<1>32. CASE UNCHANGED vars
  BY <1>32 DEF vars, cloud, disk, Real, Unheard
<1>. QED
  BY <1>1, <1>2, <1>3, <1>4, <1>5, <1>6, <1>7, <1>8, <1>9, <1>10, <1>11, <1>12, <1>13, <1>14, <1>15, <1>16,
     <1>17, <1>18, <1>19, <1>20, <1>21, <1>22, <1>23, <1>24, <1>25, <1>26, <1>27, <1>28, <1>29, <1>30, <1>31, <1>32
     DEF Next, Working, Reconcile, Deploy, Destroy, Aws, Commands

LEMMA HeardStep == TypeOK /\ Placed /\ Real /\ Heard /\ [Next]_vars => Heard'
<1>. SUFFICES ASSUME TypeOK, Placed, Real, Heard, [Next]_vars PROVE Heard'
  OBVIOUS
<1>0. /\ \A p \in Commands : proc[p] \in Process
      /\ o \in Process /\ o = proc[Operator]
      /\ tf \in MaybeHost /\ record.host \in MaybeHost
      /\ aws \in [Hosts -> {"free", "allocated", "released"}] /\ sched \in [Hosts -> Dues]
      /\ since \in [Hosts -> 0 .. MaxClock] /\ clock \in 0 .. MaxClock
  BY DEF TypeOK, Commands, o
<1>1. ASSUME NEW cmd \in {"deploy", "destroy"}, Start(cmd) PROVE Heard'
  BY <1>1 DEF Start, Becomes, cloud, Heard
<1>2. CASE Check
  BY <1>2 DEF Check, Becomes, cloud, Heard
<1>3. ASSUME NEW p \in Commands, Survey(p) PROVE Heard'
  BY <1>3 DEF Survey, Becomes, cloud, Heard
<1>4. ASSUME NEW p \in Commands, AskAbout(p) PROVE Heard'
  BY <1>4 DEF AskAbout, Becomes, cloud, Ask, Heard, Real, Unheard, Truth, TypeOK, Process
<1>5. ASSUME NEW p \in Commands, NoteAnswer(p) PROVE Heard'
  BY <1>5, NoteAnswerOutcome DEF Others, Holds, cloud, Heard
<1>6. ASSUME NEW p \in Commands, DropStack(p) PROVE Heard'
  BY <1>6 DEF DropStack, Moves, At, Heard
<1>7. ASSUME NEW p \in Commands, Forget(p) PROVE Heard'
  BY <1>7, ForgetOutcome DEF Others, Kept, Holds, cloud, Heard, Commands
<1>8. ASSUME NEW p \in Commands, ClearRecord(p) PROVE Heard'
  BY <1>8 DEF ClearRecord, NextHost, Becomes, cloud, Heard
<1>9. CASE CheckDone
  BY <1>9 DEF CheckDone, Stops, Becomes, Idle, cloud, Heard
<1>10. CASE TakeUp
  BY <1>10, TakeUpOutcome DEF Ended, Goes, cloud, Heard, Commands, o
<1>11. CASE TakeUpOrphan
  BY <1>11, TakeUpOrphanOutcome DEF Others, Kept, Holds, Ended, Goes, cloud, Heard, Commands, o
<1>12. CASE Heal
  BY <1>12, HealOutcome DEF Goes, cloud, Heard, Commands, o
<1>13. CASE Plan
  BY <1>13, PlanOutcome DEF Goes, cloud, Heard, Commands, o
<1>14. CASE Confirm
  BY <1>0, <1>14, ConfirmOutcome DEF Ended, Goes, cloud, Heard, Commands, o
<1>15. CASE Adopt
  BY <1>15, AdoptOutcome
     DEF Others, Kept, Holds, Ended, Goes, Past, SameLoop, cloud, disk, Heard, Real, Unheard,
         Placed, Commands, Operator, Status, o, Truth
<1>16. CASE Apply
  <2>1. \A h \in Hosts : aws[h] = "released" => aws'[h] = "released"
    BY <1>0, <1>16, ApplyOutcome
  <2>2. o'.at \notin {"answer", "unschedule", "forget", "clear"} /\ proc'[Status] = proc[Status]
    BY <1>16, ApplyOutcome DEF Ended, Goes
  <2>. QED
    BY <2>1, <2>2 DEF Heard, Placed, Commands, o
<1>17. CASE NoCapacity
  BY <1>17 DEF NoCapacity, Fails, Stops, Becomes, Idle, cloud, Heard, Commands, TypeOK
<1>18. CASE Outputs
  BY <1>18, OutputsOutcome
     DEF Others, Kept, Holds, Ended, Goes, Past, SameLoop, cloud, disk, Heard, Commands, Operator,
         o
<1>19. CASE WriteRecord
  BY <1>19 DEF WriteRecord, Moves, cloud, Heard
<1>20. CASE WriteLedger
  BY <1>20, WriteLedgerOutcome DEF Ended, cloud, Heard, Commands, o
<1>21. CASE TeardownBacklog
  BY <1>21, TeardownBacklogOutcome, MacHostsAssumption
     DEF Others, Kept, Holds, Ended, Goes, Past, SameLoop, cloud, disk, Heard, Real, Unheard,
         Placed, Commands, Operator, Status, o, Truth
<1>22. CASE Teardown
  BY <1>22, TeardownOutcome DEF Heard, Commands, o
<1>23. CASE Schedule
  BY <1>23, ScheduleOutcome DEF Goes, Heard, Commands, o
<1>24. CASE BacklogDone
  BY <1>24 DEF BacklogDone, Stops, Becomes, Idle, cloud, Heard
<1>25. CASE ForgetHost
  BY <1>25 DEF ForgetHost, Moves, Stops, Becomes, Idle, cloud, Heard, Commands, TypeOK, Process
<1>26. CASE Terminate
  BY <1>26 DEF Terminate, Stops, Becomes, Idle, Heard
<1>27. ASSUME NEW p \in Commands, Killed(p) PROVE Heard'
  BY <1>27 DEF Killed, Stops, Becomes, Idle, cloud, Heard
<1>28. ASSUME NEW h \in Hosts, Fire(h) PROVE Heard'
  BY <1>28 DEF Fire, Heard
<1>29. ASSUME NEW h \in Hosts, Release(h) PROVE Heard'
  BY <1>29 DEF Release, Heard
<1>30. ASSUME NEW h \in Hosts, GiveUp(h) PROVE Heard'
  BY <1>30 DEF GiveUp, Heard
<1>31. CASE Tick
  BY <1>31 DEF Tick, cloud, Heard
<1>32. CASE UNCHANGED vars
  BY <1>32 DEF vars, cloud, Heard
<1>. QED
  BY <1>1, <1>2, <1>3, <1>4, <1>5, <1>6, <1>7, <1>8, <1>9, <1>10, <1>11, <1>12, <1>13, <1>14, <1>15, <1>16,
     <1>17, <1>18, <1>19, <1>20, <1>21, <1>22, <1>23, <1>24, <1>25, <1>26, <1>27, <1>28, <1>29, <1>30, <1>31, <1>32
     DEF Next, Working, Reconcile, Deploy, Destroy, Aws, Commands

LEMMA FilesStep == TypeOK /\ Placed /\ Real /\ Files /\ [Next]_vars => Files'
<1>. SUFFICES ASSUME TypeOK, Placed, Real, Files, [Next]_vars PROVE Files'
  OBVIOUS
<1>0. /\ \A p \in Commands : proc[p] \in Process
      /\ o \in Process /\ o = proc[Operator]
      /\ tf \in MaybeHost /\ record.host \in MaybeHost
      /\ aws \in [Hosts -> {"free", "allocated", "released"}] /\ sched \in [Hosts -> Dues]
      /\ since \in [Hosts -> 0 .. MaxClock] /\ clock \in 0 .. MaxClock
  BY DEF TypeOK, Commands, o
<1>1. ASSUME NEW cmd \in {"deploy", "destroy"}, Start(cmd) PROVE Files'
  BY <1>1 DEF Start, Becomes, disk, Files, Reconciling, o
<1>2. CASE Check
  BY <1>2 DEF Check, Becomes, disk, Files, Operator, Status, o
<1>3. ASSUME NEW p \in Commands, Survey(p) PROVE Files'
  BY <1>3 DEF Survey, Becomes, disk, Files, o
<1>4. ASSUME NEW p \in Commands, AskAbout(p) PROVE Files'
  BY <1>4 DEF AskAbout, Becomes, At, disk, Files, Reconciling, o
<1>5. ASSUME NEW p \in Commands, NoteAnswer(p) PROVE Files'
  BY <1>5, NoteAnswerOutcome, MacHostsAssumption
     DEF Others, Kept, Files, Placed, Reconciling, Commands, o, NoRecord
<1>6. ASSUME NEW p \in Commands, DropStack(p) PROVE Files'
  BY <1>6 DEF DropStack, Moves, At, Files, Reconciling, o
<1>7. ASSUME NEW p \in Commands, Forget(p) PROVE Files'
  BY <1>7, ForgetOutcome DEF Others, Kept, Files, Reconciling, Commands, o
<1>8. ASSUME NEW p \in Commands, ClearRecord(p) PROVE Files'
  BY <1>8 DEF ClearRecord, NextHost, Becomes, NoRecord, Files, Commands, o, NoRecord, TypeOK
<1>9. CASE CheckDone
  BY <1>9 DEF CheckDone, Stops, Becomes, disk, Files, Operator, Status, o
<1>10. CASE TakeUp
  BY <1>10, TakeUpOutcome DEF Ended, Goes, Past, disk, Files, Reconciling
<1>11. CASE TakeUpOrphan
  BY <1>0, <1>11, TakeUpOrphanOutcome DEF Ended, Goes, Past, Files, Reconciling, MaybeHost
<1>12. CASE Heal
  BY <1>12, HealOutcome, MacHostsAssumption DEF Goes, Files, Reconciling
<1>13. CASE Plan
  BY <1>13, PlanOutcome DEF Goes, disk, Files, NoRecord
<1>14. CASE Confirm
  BY <1>14, ConfirmOutcome DEF Ended, Goes, disk, Files, Reconciling
<1>15. CASE Adopt
  BY <1>15, AdoptOutcome DEF Ended, Goes, Files, Reconciling
<1>16. CASE Apply
  BY <1>16, ApplyOutcome
     DEF Others, Kept, Holds, Ended, Goes, Past, SameLoop, cloud, disk, Files, Reconciling,
         Commands, Status, o
<1>17. CASE NoCapacity
  BY <1>17 DEF NoCapacity, Fails, Stops, Becomes, Idle, Files, Reconciling, o, TypeOK
<1>18. CASE Outputs
  BY <1>18, OutputsOutcome DEF Ended, disk, Files, Reconciling, o
<1>19. CASE WriteRecord
  BY <1>19, MacHostsAssumption DEF WriteRecord, Deploying, Moves, Files, Reconciling, o, TypeOK
<1>20. CASE WriteLedger
  BY <1>20, WriteLedgerOutcome DEF Ended, Files, Reconciling
<1>21. CASE TeardownBacklog
  BY <1>21, TeardownBacklogOutcome DEF Ended, disk, Files, Reconciling
<1>22. CASE Teardown
  BY <1>22, TeardownOutcome DEF Files, Reconciling
<1>23. CASE Schedule
  BY <1>23, ScheduleOutcome DEF Goes, Files
<1>24. CASE BacklogDone
  BY <1>24 DEF BacklogDone, Stops, Becomes, Idle, disk, Files, Reconciling, o
<1>25. CASE ForgetHost
  BY <1>25 DEF ForgetHost, Moves, Stops, Becomes, Idle, Files, Reconciling, o, TypeOK, Process
<1>26. CASE Terminate
  BY <1>26 DEF Terminate, Stops, Becomes, Idle, disk, Files, Reconciling, o
<1>27. ASSUME NEW p \in Commands, Killed(p) PROVE Files'
  BY <1>27 DEF Killed, Stops, Becomes, Idle, disk, Files, Reconciling, o
<1>28. ASSUME NEW h \in Hosts, Fire(h) PROVE Files'
  BY <1>28 DEF Fire, disk, Files, o
<1>29. ASSUME NEW h \in Hosts, Release(h) PROVE Files'
  BY <1>29 DEF Release, disk, Files, o
<1>30. ASSUME NEW h \in Hosts, GiveUp(h) PROVE Files'
  BY <1>30 DEF GiveUp, disk, Files, o
<1>31. CASE Tick
  BY <1>31 DEF Tick, disk, Files, o
<1>32. CASE UNCHANGED vars
  BY <1>32 DEF vars, disk, Files, o
<1>. QED
  BY <1>1, <1>2, <1>3, <1>4, <1>5, <1>6, <1>7, <1>8, <1>9, <1>10, <1>11, <1>12, <1>13, <1>14, <1>15, <1>16,
     <1>17, <1>18, <1>19, <1>20, <1>21, <1>22, <1>23, <1>24, <1>25, <1>26, <1>27, <1>28, <1>29, <1>30, <1>31, <1>32
     DEF Next, Working, Reconcile, Deploy, Destroy, Aws, Commands

LEMMA ConsentStep == TypeOK /\ Roles /\ Placed /\ Real /\ Files /\ Apart /\ Consent /\ [Next]_vars => Consent'
<1>. SUFFICES ASSUME TypeOK, Roles, Placed, Real, Files, Apart, Consent, [Next]_vars PROVE Consent'
  OBVIOUS
<1>0. /\ \A p \in Commands : proc[p] \in Process
      /\ o \in Process /\ o = proc[Operator]
      /\ tf \in MaybeHost /\ record.host \in MaybeHost
      /\ aws \in [Hosts -> {"free", "allocated", "released"}] /\ sched \in [Hosts -> Dues]
      /\ since \in [Hosts -> 0 .. MaxClock] /\ clock \in 0 .. MaxClock
  BY DEF TypeOK, Commands, o
<1>1. ASSUME NEW cmd \in {"deploy", "destroy"}, Start(cmd) PROVE Consent'
  BY <1>1 DEF Start, Becomes, cloud, Consent, Allocated, Reconciling, Commands, o, TypeOK
<1>2. CASE Check
  BY <1>2 DEF Check, Becomes, cloud, disk, Consent, Lives, Allocated, o
<1>3. ASSUME NEW p \in Commands, Survey(p) PROVE Consent'
  BY <1>3 DEF Survey, Becomes, cloud, disk, Consent, Tracked, Lives, Allocated, o
<1>4. ASSUME NEW p \in Commands, AskAbout(p) PROVE Consent'
  BY <1>4
     DEF AskAbout, Becomes, At, cloud, disk, Ask, Consent, Lives, Allocated, Reconciling, o, Truth
<1>5. ASSUME NEW p \in Commands, NoteAnswer(p) PROVE Consent'
  <2>1. /\ proc[p].at = "answer" /\ UNCHANGED <<aws, tf>> /\ Others(p) /\ Kept(p)
        /\ record'.host = record.host /\ proc'[p].at # "answer"
        /\ proc'[p].at \in {"hosts", "forget", "unschedule"}
    BY <1>5, NoteAnswerOutcome DEF cloud
  <2>2. \A q \in Commands : (q = Status \/ o'.cmd = "deploy") /\ proc'[q].at = "answer" /\ proc'[q].answer = "yes"
          => Allocated(proc[q].host)'
    BY <2>1 DEF Consent, Allocated, Others, Commands, o
  <2>3. ASSUME o'.cmd = "deploy", o'.at \in Reconciling, record'.host # NoHost, record'.host \notin o'.todo,
               ~(o'.at = "answer" /\ o'.host = record'.host), record'.present = "yes"
        PROVE  Allocated(record.host)'
    <3>1. record' = IF proc[p].host = proc[p].current /\ proc[p].host = record.host
                    THEN [record EXCEPT !.present = proc[p].answer] ELSE record
      BY <1>5, NoteAnswerOutcome
    <3>2. CASE p = Operator
      <4>1. o.at = "answer" /\ o.cmd = "deploy" /\ record.host = o.current /\ o'.todo = o.todo
        BY <2>1, <2>3, <3>2 DEF Files, Reconciling, Kept, o
      <4>2. CASE o.host = record.host
        <5>1. record'.present = o.answer
          BY <1>0, <3>1, <3>2, <4>1, <4>2
        <5>. QED
          BY <2>1, <2>3, <3>2, <4>1, <4>2, <5>1 DEF Consent, Allocated, o
      <4>3. CASE o.host # record.host
        BY <2>1, <2>3, <3>1, <4>1, <4>3 DEF Consent, Allocated, Reconciling
      <4>. QED
        BY <4>2, <4>3
    <3>3. CASE p = Status
      <4>1. o' = o
        BY <2>1, <3>3 DEF Others, Commands, Operator, Status, o
      <4>2. CASE proc[p].host = proc[p].current /\ proc[p].host = record.host
        <5>1. record'.present = proc[p].answer
          BY <3>1, <4>2 DEF TypeOK
        <5>. QED
          BY <2>1, <2>3, <3>3, <4>2, <5>1 DEF Consent, Allocated
      <4>3. CASE ~(proc[p].host = proc[p].current /\ proc[p].host = record.host)
        BY <2>1, <2>3, <3>1, <4>1 DEF Consent, Allocated
      <4>. QED
        BY <4>2, <4>3
    <3>. QED
      BY <3>2, <3>3 DEF Commands
  <2>4. /\ o'.at \in {"heal", "adopt"} => Lives(o.host)' /\ record'.host \in {NoHost, o'.host}
        /\ o'.at \in {"outputs", "record", "ledger"} \/ (o'.at = "apply" /\ ~o'.agreed)
             => Lives(tf)' /\ record'.host \in {NoHost, tf'}
        /\ o'.at \in {"heal", "record", "ledger"} \/ (o'.at \in {"apply", "outputs"} /\ ~o'.agreed) => o'.host = tf'
    BY <2>1 DEF Consent, Lives, Allocated, Others, Commands, o
  <2>. QED
    BY <2>2, <2>3, <2>4 DEF Consent
<1>6. ASSUME NEW p \in Commands, DropStack(p) PROVE Consent'
  BY <1>6 DEF DropStack, Moves, At, Consent, Lives, Allocated, Reconciling, o
<1>7. ASSUME NEW p \in Commands, Forget(p) PROVE Consent'
  BY <1>7, ForgetOutcome
     DEF Others, Kept, cloud, Consent, Lives, Allocated, Reconciling, Commands, o
<1>8. ASSUME NEW p \in Commands, ClearRecord(p) PROVE Consent'
  BY <1>8
     DEF ClearRecord, NextHost, Becomes, cloud, NoRecord, Consent, Lives, Allocated, Commands, o,
         NoRecord, TypeOK
<1>9. CASE CheckDone
  BY <1>9 DEF CheckDone, Stops, Becomes, Idle, cloud, disk, Consent, Lives, Allocated, o
<1>10. CASE TakeUp
  <2>1. /\ o.cmd = "deploy" /\ o.at = "hosts" /\ o.todo = {} /\ UNCHANGED <<aws, record, tf>>
        /\ record # NoRecord /\ proc'[Status] = proc[Status]
    BY <1>10, TakeUpOutcome DEF cloud, disk
  <2>2. CASE Ended
    BY <2>1, <2>2 DEF Ended, Consent, Allocated
  <2>3. CASE record.present = "yes" /\ Goes("adopt", record.host, record.due) /\ Past
    <3>1. record.host \in Hosts /\ Allocated(record.host)
      BY <2>1, <2>3, MacHostsAssumption DEF Placed, Consent, Reconciling
    <3>. QED
      BY <2>1, <2>3, <3>1 DEF Goes, Consent, Lives, Allocated, Commands, o
  <2>. QED
    BY <1>10, <2>2, <2>3, TakeUpOutcome
<1>11. CASE TakeUpOrphan
  <2>1. /\ record.host = NoHost /\ proc'[Status] = proc[Status] /\ UNCHANGED <<aws, record>>
    BY <1>11, TakeUpOrphanOutcome DEF cloud, Files, NoRecord
  <2>2. CASE Ended
    BY <2>1, <2>2 DEF Ended, Consent, Allocated
  <2>3. CASE Truth(tf) = "yes" /\ UNCHANGED <<tf, tfFile>> /\ Past /\ Goes("heal", tf, ReleaseTime(clock))
    <3>1. tf \in Hosts /\ Allocated(tf)
      BY <2>3 DEF Truth, Allocated
    <3>. QED
      BY <2>1, <2>3, <3>1 DEF Goes, Consent, Lives, Allocated, Commands, o
  <2>4. CASE Past /\ Goes("prompt", tf, ReleaseTime(clock))
    BY <2>1, <2>4 DEF Goes, Consent, Allocated, Commands, o
  <2>. QED
    BY <1>11, <2>2, <2>3, <2>4, TakeUpOrphanOutcome
<1>12. CASE Heal
  BY <1>12, HealOutcome DEF Goes, cloud, Consent, Lives, Allocated, Commands, o
<1>13. CASE Plan
  BY <1>13, PlanOutcome DEF Goes, cloud, Consent, Allocated, Reconciling, Commands, o
<1>14. CASE Confirm
  <2>1. /\ o.cmd = "deploy" /\ o.at = "prompt" /\ UNCHANGED <<aws, record, tf>> /\ proc'[Status] = proc[Status]
    BY <1>14, ConfirmOutcome DEF cloud, disk
  <2>2. CASE Ended
    BY <2>1, <2>2 DEF Ended, Consent, Allocated
  <2>3. CASE Goes("apply", o.host, o.due) /\ SameLoop /\ o'.agreed
    BY <2>1, <2>3 DEF Goes, Consent, Allocated, Reconciling, Commands, o
  <2>. QED
    BY <1>14, <2>2, <2>3, ConfirmOutcome
<1>15. CASE Adopt
  <2>1. /\ o.cmd = "deploy" /\ o.at = "adopt" /\ UNCHANGED <<aws, record>> /\ proc'[Status] = proc[Status]
    BY <1>15, AdoptOutcome DEF cloud
  <2>2. CASE Ended
    BY <2>1, <2>2 DEF Ended, Consent, Allocated
  <2>3. CASE Goes("apply", o.host, o.due) /\ tf' = o.host
    BY <2>1, <2>3 DEF Goes, Consent, Lives, Allocated, Commands, o
  <2>. QED
    BY <1>15, <2>2, <2>3, AdoptOutcome
<1>16. CASE Apply
  <2>1. /\ o.cmd = "deploy" /\ o.at = "apply" /\ UNCHANGED record /\ proc'[Status] = proc[Status]
    BY <1>16, ApplyOutcome
  <2>2. PICK h \in Hosts :
          /\ \/ h = tf /\ aws[h] = "allocated" /\ UNCHANGED <<aws, since>>
             \/ /\ Truth(tf) = "no" /\ aws[h] = "free"
                /\ aws' = [aws EXCEPT ![h] = "allocated"] /\ since' = [since EXCEPT ![h] = clock]
          /\ tf' = h
          /\ \/ Ended
             \/ Goes("outputs", o.host, o.due) /\ SameLoop /\ o'.agreed = o.agreed /\ o'.asked = o.asked
             \/ o.agreed /\ Goes("record", h, o.due) /\ SameLoop /\ o'.agreed /\ o'.asked = o.asked
    BY <1>16, ApplyOutcome
  <2>3. aws'[h] = "allocated" /\ \A x \in Hosts : Allocated(x) => Allocated(x)'
    BY <1>0, <2>2 DEF Allocated
  <2>4. o.agreed => record.host = NoHost
    BY <2>1 DEF Files, NoRecord
  <2>5. ~o.agreed => h = tf /\ record.host \in {NoHost, tf} /\ o.host = tf
    BY <2>1, <2>2 DEF Consent, Lives, Allocated, Truth
  <2>6. proc[Status].at = "answer" /\ proc[Status].answer = "yes" => Allocated(proc[Status].host)'
    BY <2>1, <2>3 DEF Consent, Placed, Commands
  <2>7. CASE Ended
    BY <2>1, <2>6, <2>7 DEF Ended, Consent
  <2>8. CASE Goes("outputs", o.host, o.due) /\ o'.agreed = o.agreed
    BY <2>1, <2>2, <2>3, <2>4, <2>5, <2>6, <2>8 DEF Goes, Consent, Lives, Allocated, Commands, o
  <2>9. CASE o.agreed /\ Goes("record", h, o.due)
    BY <2>1, <2>2, <2>3, <2>4, <2>6, <2>9 DEF Goes, Consent, Lives, Allocated, Commands, o
  <2>. QED
    BY <2>2, <2>7, <2>8, <2>9
<1>17. CASE NoCapacity
  BY <1>17 DEF NoCapacity, Fails, Stops, Becomes, Idle, cloud, Consent, Allocated, o, TypeOK
<1>18. CASE Outputs
  <2>1. /\ o.cmd = "deploy" /\ o.at = "outputs" /\ UNCHANGED <<aws, record, tf>> /\ proc'[Status] = proc[Status]
    BY <1>18, OutputsOutcome DEF cloud, disk
  <2>2. CASE Ended
    BY <2>1, <2>2 DEF Ended, Consent, Allocated
  <2>3. CASE o'.cmd = "deploy" /\ o'.at = "record" /\ o'.host = tf
    BY <2>1, <2>3 DEF Consent, Lives, Allocated, Commands, o
  <2>4. ~o.agreed => o.host = tf
    BY <2>1 DEF Consent
  <2>. QED
    BY <1>18, <2>2, <2>3, <2>4, OutputsOutcome
<1>19. CASE WriteRecord
  BY <1>19 DEF WriteRecord, Deploying, Moves, cloud, Consent, Lives, Allocated, o
<1>20. CASE WriteLedger
  BY <1>20, WriteLedgerOutcome DEF Ended, cloud, Consent, Allocated
<1>21. CASE TeardownBacklog
  BY <1>21, TeardownBacklogOutcome, MacHostsAssumption
     DEF Others, Kept, Holds, Ended, Goes, Past, SameLoop, cloud, disk, Consent, Roles, Placed,
         Files, Lives, Allocated, Reconciling, Commands, Operator, Status, o, Truth, NoRecord,
         MaybeHost, Process
<1>22. CASE Teardown
  BY <1>22, TeardownOutcome DEF Consent, Allocated
<1>23. CASE Schedule
  BY <1>23, ScheduleOutcome DEF Goes, Consent, Allocated
<1>24. CASE BacklogDone
  BY <1>24 DEF BacklogDone, Stops, Becomes, Idle, cloud, Consent, Allocated, o, TypeOK
<1>25. CASE ForgetHost
  BY <1>25
     DEF ForgetHost, Moves, Stops, Becomes, Idle, cloud, Consent, Allocated, Reconciling, Commands,
         o, TypeOK, Process
<1>26. CASE Terminate
  BY <1>26 DEF Terminate, Stops, Becomes, Idle, Consent, Allocated, o, TypeOK
<1>27. ASSUME NEW p \in Commands, Killed(p) PROVE Consent'
  BY <1>27 DEF Killed, Stops, Becomes, Idle, cloud, disk, Consent, Lives, Allocated, o
<1>28. ASSUME NEW h \in Hosts, Fire(h) PROVE Consent'
  BY <1>28 DEF Fire, Consent, Roles, Allocated, o
<1>29. ASSUME NEW h \in Hosts, Release(h) PROVE Consent'
  <2>1. o.cmd # "deploy" /\ ~(proc[Status].at = "answer" /\ proc[Status].host = h)
        /\ UNCHANGED <<record, tf, proc>> /\ aws' = [aws EXCEPT ![h] = "released"]
    BY <1>29 DEF Release, At, disk
  <2>2. proc[Status].at = "answer" /\ proc[Status].answer = "yes" => Allocated(proc[Status].host)'
    BY <2>1 DEF Consent, Allocated, Commands
  <2>3. o.at \notin {"prompt", "heal", "adopt", "apply", "outputs", "record", "ledger"}
    BY <2>1 DEF Roles
  <2>. QED
    BY <2>1, <2>2, <2>3 DEF Consent, o
<1>30. ASSUME NEW h \in Hosts, GiveUp(h) PROVE Consent'
  BY <1>30 DEF GiveUp, disk, Consent, Lives, Allocated, o
<1>31. CASE Tick
  BY <1>31 DEF Tick, cloud, disk, Consent, Lives, Allocated, o
<1>32. CASE UNCHANGED vars
  BY <1>32 DEF vars, cloud, disk, Consent, Lives, Allocated, o
<1>. QED
  BY <1>1, <1>2, <1>3, <1>4, <1>5, <1>6, <1>7, <1>8, <1>9, <1>10, <1>11, <1>12, <1>13, <1>14, <1>15, <1>16,
     <1>17, <1>18, <1>19, <1>20, <1>21, <1>22, <1>23, <1>24, <1>25, <1>26, <1>27, <1>28, <1>29, <1>30, <1>31, <1>32
     DEF Next, Working, Reconcile, Deploy, Destroy, Aws, Commands

LEMMA NamedStep == TypeOK /\ Roles /\ Placed /\ Real /\ Heard /\ Files /\ Consent /\ Apart /\ Heeds /\ Named /\ [Next]_vars => Named'
<1>. SUFFICES ASSUME TypeOK, Roles, Placed, Real, Heard, Files, Consent, Apart, Heeds, Named, [Next]_vars PROVE Named'
  OBVIOUS
<1>0. /\ \A p \in Commands : proc[p] \in Process
      /\ o \in Process /\ o = proc[Operator]
      /\ tf \in MaybeHost /\ record.host \in MaybeHost
      /\ aws \in [Hosts -> {"free", "allocated", "released"}] /\ sched \in [Hosts -> Dues]
      /\ since \in [Hosts -> 0 .. MaxClock] /\ clock \in 0 .. MaxClock
  BY DEF TypeOK, Commands, o
<1>1. ASSUME NEW cmd \in {"deploy", "destroy"}, Start(cmd) PROVE Named'
  BY <1>1, MacHostsAssumption
     DEF Start, Becomes, cloud, disk, Named, Loose, Lives, Allocated, BillingIsKnown, Reconciling,
         o
<1>2. CASE Check
  BY <1>2
     DEF Check, Becomes, cloud, disk, Named, Loose, Lives, Allocated, BillingIsKnown, Operator,
         Status, o
<1>3. ASSUME NEW p \in Commands, Survey(p) PROVE Named'
  BY <1>3 DEF Survey, Becomes, cloud, disk, Named, Loose, Lives, Allocated, BillingIsKnown, o
<1>4. ASSUME NEW p \in Commands, AskAbout(p) PROVE Named'
  BY <1>4
     DEF AskAbout, Becomes, At, cloud, disk, Named, Loose, Lives, Allocated, BillingIsKnown,
         Reconciling, o
<1>5. ASSUME NEW p \in Commands, NoteAnswer(p) PROVE Named'
  BY <1>5, NoteAnswerOutcome
     DEF Others, Kept, cloud, Named, Loose, Lives, Allocated, BillingIsKnown, Reconciling, Commands,
         o
<1>6. ASSUME NEW p \in Commands, DropStack(p) PROVE Named'
  BY <1>6 DEF DropStack, Moves, At, Named, Loose, Lives, Allocated, BillingIsKnown, Reconciling, o
<1>7. ASSUME NEW p \in Commands, Forget(p) PROVE Named'
  BY <1>7, ForgetOutcome
     DEF Others, Kept, cloud, Named, Loose, Heard, Lives, Allocated, BillingIsKnown, Reconciling,
         Commands, o
<1>8. ASSUME NEW p \in Commands, ClearRecord(p) PROVE Named'
  BY <1>8, MacHostsAssumption
     DEF ClearRecord, NextHost, Becomes, At, cloud, NoRecord, Named, Loose, Placed, Heard, Lives,
         Allocated, BillingIsKnown, Reconciling, Commands, o, NoRecord
<1>9. CASE CheckDone
  BY <1>9
     DEF CheckDone, Stops, Becomes, cloud, disk, Named, Loose, Lives, Allocated, BillingIsKnown,
         Operator, Status, o
<1>10. CASE TakeUp
  BY <1>10, TakeUpOutcome
     DEF Others, Kept, Holds, Ended, Goes, Past, SameLoop, cloud, disk, Named, Loose, Roles, Placed,
         Heard, Files, Consent, Lives, Allocated, BillingIsKnown, Reconciling, Remembered, Commands,
         Operator, Status, o, Truth, NoRecord, MaybeHost, Process
<1>11. CASE TakeUpOrphan
  BY <1>0, <1>11, TakeUpOrphanOutcome
     DEF Others, Kept, Holds, Ended, Goes, Past, SameLoop, cloud, disk, Named, Loose, Roles, Placed,
         Heard, Files, Lives, Allocated, BillingIsKnown, Commands, Operator, Status, o, Truth,
         MaybeHost
<1>12. CASE Heal
  BY <1>12, HealOutcome DEF cloud, Named, Loose, Consent, Allocated, BillingIsKnown, Remembered
<1>13. CASE Plan
  BY <1>13, PlanOutcome, MacHostsAssumption
     DEF cloud, disk, Named, Loose, Lives, Allocated, BillingIsKnown
<1>14. CASE Confirm
  BY <1>14, ConfirmOutcome, MacHostsAssumption
     DEF cloud, disk, Named, Loose, Files, Lives, Allocated, BillingIsKnown
<1>15. CASE Adopt
  <2>1. /\ UNCHANGED <<aws, record, ledger>> /\ o.at = "adopt" /\ o.cmd = "deploy"
    BY <1>15, AdoptOutcome DEF cloud
  <2>2. CASE UNCHANGED tf
    BY <1>15, <2>1, <2>2, AdoptOutcome
       DEF Ended, Goes, Named, BillingIsKnown, Loose, Lives, Allocated, Reconciling
  <2>3. CASE tf = NoHost /\ tf' = o.host /\ Goes("apply", o.host, o.due)
    <3>1. \A h \in Hosts : Allocated(h) => h \in DOMAIN ledger
      BY <2>3, MacHostsAssumption DEF Named, BillingIsKnown
    <3>. QED
      BY <2>1, <3>1 DEF Named, BillingIsKnown, Loose, Lives, Allocated
  <2>. QED
    BY <1>15, <2>2, <2>3, AdoptOutcome
<1>16. CASE Apply
  <2>1. /\ o.cmd = "deploy" /\ o.at = "apply" /\ UNCHANGED <<record, ledger>>
    BY <1>16, ApplyOutcome
  <2>2. PICK h \in Hosts :
          /\ \/ h = tf /\ aws[h] = "allocated" /\ UNCHANGED <<aws, since>>
             \/ /\ Truth(tf) = "no" /\ aws[h] = "free"
                /\ aws' = [aws EXCEPT ![h] = "allocated"] /\ since' = [since EXCEPT ![h] = clock]
          /\ tf' = h
          /\ \/ Ended
             \/ Goes("outputs", o.host, o.due) /\ SameLoop /\ o'.agreed = o.agreed /\ o'.asked = o.asked
             \/ o.agreed /\ Goes("record", h, o.due) /\ SameLoop /\ o'.agreed /\ o'.asked = o.asked
    BY <1>16, ApplyOutcome
  <2>3. o'.at \notin Reconciling /\ o'.cmd # "destroy"
    BY <2>1, <2>2 DEF Ended, Goes, Reconciling
  <2>4. BillingIsKnown'
    BY <1>0, <2>1, <2>2 DEF Named, BillingIsKnown, Allocated, Truth
  <2>5. record.host \in {NoHost, h}
    <3>1. CASE o.agreed
      BY <2>1, <3>1 DEF Files, NoRecord
    <3>2. CASE ~o.agreed
      BY <2>1, <2>2, <3>2 DEF Consent, Lives, Allocated, Truth
    <3>. QED
      BY <3>1, <3>2
  <2>. QED
    BY <2>1, <2>2, <2>3, <2>4, <2>5 DEF Named
<1>17. CASE NoCapacity
  BY <1>17 DEF NoCapacity, cloud, Named, Loose, Lives, Allocated, BillingIsKnown, Truth
<1>18. CASE Outputs
  BY <1>18, OutputsOutcome
     DEF Ended, cloud, disk, Named, Consent, Allocated, BillingIsKnown, Reconciling
<1>19. CASE WriteRecord
  BY <1>19
     DEF WriteRecord, Deploying, Moves, cloud, Named, Consent, Allocated, BillingIsKnown,
         Reconciling, o
<1>20. CASE WriteLedger
  BY <1>20, WriteLedgerOutcome DEF cloud, Named, Loose, Consent, Allocated, BillingIsKnown
<1>21. CASE TeardownBacklog
  BY <1>21, TeardownBacklogOutcome DEF cloud, disk, Named, Loose, Lives, Allocated, BillingIsKnown
<1>22. CASE Teardown
  BY <1>22, TeardownOutcome DEF Named, Loose, Lives, Allocated, BillingIsKnown
<1>23. CASE Schedule
  <2>1. DOMAIN ledger \subseteq DOMAIN ledger' /\ UNCHANGED <<aws, record, tf>>
    BY <1>23, ScheduleOutcome DEF Remembered
  <2>2. o'.cmd = o.cmd /\ o'.at \notin Reconciling
    BY <1>23, ScheduleOutcome DEF Goes, Reconciling
  <2>. QED
    BY <2>1, <2>2 DEF Named, BillingIsKnown, Loose, Lives, Allocated
<1>24. CASE BacklogDone
  BY <1>24
     DEF BacklogDone, Stops, Becomes, Idle, cloud, disk, Named, Loose, Lives, Allocated,
         BillingIsKnown, o
<1>25. CASE ForgetHost
  BY <1>25 DEF ForgetHost, Destroying, cloud, Named, Loose, Lives, Allocated, BillingIsKnown
<1>26. CASE Terminate
  BY <1>26
     DEF Terminate, Stops, Becomes, Idle, disk, Named, Loose, Lives, Allocated, BillingIsKnown, o
<1>27. ASSUME NEW p \in Commands, Killed(p) PROVE Named'
  BY <1>27
     DEF Killed, Stops, Becomes, Idle, cloud, disk, Named, Loose, Lives, Allocated, BillingIsKnown,
         o
<1>28. ASSUME NEW h \in Hosts, Fire(h) PROVE Named'
  BY <1>28 DEF Fire, disk, Named, Loose, Lives, Allocated, BillingIsKnown, o
<1>29. ASSUME NEW h \in Hosts, Release(h) PROVE Named'
  BY <1>29 DEF Release, disk, Named, Loose, Lives, Allocated, BillingIsKnown, o
<1>30. ASSUME NEW h \in Hosts, GiveUp(h) PROVE Named'
  BY <1>30 DEF GiveUp, disk, Named, Loose, Lives, Allocated, BillingIsKnown, o
<1>31. CASE Tick
  BY <1>31 DEF Tick, cloud, disk, Named, Loose, Lives, Allocated, BillingIsKnown, o
<1>32. CASE UNCHANGED vars
  BY <1>32 DEF vars, cloud, disk, Named, Loose, Lives, Allocated, BillingIsKnown, o
<1>. QED
  BY <1>1, <1>2, <1>3, <1>4, <1>5, <1>6, <1>7, <1>8, <1>9, <1>10, <1>11, <1>12, <1>13, <1>14, <1>15, <1>16,
     <1>17, <1>18, <1>19, <1>20, <1>21, <1>22, <1>23, <1>24, <1>25, <1>26, <1>27, <1>28, <1>29, <1>30, <1>31, <1>32
     DEF Next, Working, Reconcile, Deploy, Destroy, Aws, Commands

LEMMA SchedulesStep == TypeOK /\ Roles /\ Placed /\ Real /\ Files /\ MaxWait <= Buffer /\ Schedules /\ [Next]_vars => Schedules'
<1>. SUFFICES ASSUME TypeOK, Roles, Placed, Real, Files, MaxWait <= Buffer, Schedules, [Next]_vars PROVE Schedules'
  OBVIOUS
<1>0. /\ \A p \in Commands : proc[p] \in Process
      /\ o \in Process /\ o = proc[Operator]
      /\ tf \in MaybeHost /\ record.host \in MaybeHost
      /\ aws \in [Hosts -> {"free", "allocated", "released"}] /\ sched \in [Hosts -> Dues]
      /\ since \in [Hosts -> 0 .. MaxClock] /\ clock \in 0 .. MaxClock
  BY DEF TypeOK, Commands, o
<1>1. ASSUME NEW cmd \in {"deploy", "destroy"}, Start(cmd) PROVE Schedules'
  BY <1>1 DEF Start, Becomes, cloud, disk, Schedules, Late, Lives, Allocated, o
<1>2. CASE Check
  BY <1>2 DEF Check, Becomes, cloud, disk, Schedules, Late, Lives, Allocated, o
<1>3. ASSUME NEW p \in Commands, Survey(p) PROVE Schedules'
  BY <1>3 DEF Survey, Becomes, cloud, disk, Schedules, Late, Lives, Allocated, o
<1>4. ASSUME NEW p \in Commands, AskAbout(p) PROVE Schedules'
  BY <1>4 DEF AskAbout, Becomes, cloud, disk, Schedules, Late, Lives, Allocated, o
<1>5. ASSUME NEW p \in Commands, NoteAnswer(p) PROVE Schedules'
  BY <1>5, NoteAnswerOutcome
     DEF Others, cloud, Schedules, Late, Lives, Allocated, Remembered, Commands, o
<1>6. ASSUME NEW p \in Commands, DropStack(p) PROVE Schedules'
  BY <1>6 DEF DropStack, Moves, Schedules, Late, Lives, Allocated, o, TypeOK
<1>7. ASSUME NEW p \in Commands, Forget(p) PROVE Schedules'
  BY <1>7, ForgetOutcome DEF Others, cloud, Schedules, Late, Lives, Allocated, Commands, o
<1>8. ASSUME NEW p \in Commands, ClearRecord(p) PROVE Schedules'
  BY <1>8
     DEF ClearRecord, NextHost, Becomes, cloud, NoRecord, Schedules, Late, Lives, Allocated,
         Commands, o, NoRecord, TypeOK
<1>9. CASE CheckDone
  BY <1>9
     DEF CheckDone, Stops, Becomes, cloud, disk, Schedules, Late, Lives, Allocated, Operator,
         Status, o
<1>10. CASE TakeUp
  <2>1. UNCHANGED <<aws, since, record, ledger, sched, clock, tf>>
    BY <1>10, TakeUpOutcome DEF cloud, disk
  <2>2. Late(record.host, record.due)
    BY DEF Schedules
  <2>3. CASE Ended
    BY <2>1, <2>3 DEF Ended, Schedules, Late, Lives, Allocated
  <2>4. CASE Goes("adopt", record.host, record.due)
    BY <2>1, <2>4 DEF Goes, Schedules, Late, Lives, Allocated
  <2>. QED
    BY <1>10, <2>3, <2>4, TakeUpOutcome
<1>11. CASE TakeUpOrphan
  <2>1. UNCHANGED <<aws, since, record, ledger, sched, clock>>
    BY <1>11, TakeUpOrphanOutcome DEF cloud
  <2>2. Late(tf, ReleaseTime(clock))
    BY <1>0, MacHostsAssumption DEF Schedules, Late, Lives, ReleaseTime
  <2>3. CASE Ended
    BY <2>1, <2>3 DEF Ended, Schedules, Late, Lives, Allocated
  <2>4. CASE Goes("heal", tf, ReleaseTime(clock))
    BY <2>1, <2>2, <2>4 DEF Goes, Schedules, Late, Lives, Allocated
  <2>5. CASE Goes("prompt", tf, ReleaseTime(clock)) /\ o'.asked = clock
    BY <1>0, <2>1, <2>5, MacHostsAssumption DEF Goes, Schedules, Late, Lives, Allocated
  <2>. QED
    BY <1>11, <2>3, <2>4, <2>5, TakeUpOrphanOutcome
<1>12. CASE Heal
  BY <1>12, HealOutcome DEF Goes, cloud, Schedules, Late, Lives, Allocated, Remembered
<1>13. CASE Plan
  BY <1>0, <1>13, PlanOutcome, MacHostsAssumption
     DEF Goes, cloud, disk, Schedules, Late, Lives, Allocated
<1>14. CASE Confirm
  <2>1. UNCHANGED <<aws, since, record, ledger, sched, clock, tf>>
    BY <1>14, ConfirmOutcome DEF cloud, disk
  <2>2. CASE Ended
    BY <2>1, <2>2 DEF Ended, Schedules, Late, Lives, Allocated
  <2>3. CASE Goes("apply", o.host, o.due) /\ o'.agreed /\ o'.asked = o.asked
    <3>1. o.at = "prompt"
      BY <1>14, ConfirmOutcome
    <3>2. o'.due = ReleaseTime(o'.asked) /\ clock' <= o'.asked + MaxWait
      BY <2>1, <2>3, <3>1 DEF Goes, Schedules
    <3>. QED
      BY <2>1, <2>3, <3>2 DEF Goes, Schedules, Late, Lives, Allocated
  <2>. QED
    BY <1>14, <2>2, <2>3, ConfirmOutcome
<1>15. CASE Adopt
  <2>1. UNCHANGED <<aws, since, record, ledger, sched, clock>>
    BY <1>15, AdoptOutcome DEF cloud, disk
  <2>2. CASE Ended
    BY <2>1, <2>2 DEF Ended, Schedules, Late, Lives, Allocated
  <2>3. CASE Goes("apply", o.host, o.due) /\ o'.agreed = o.agreed
    <3>1. o.at = "adopt" /\ ~o.agreed
      BY <1>15, AdoptOutcome DEF Files
    <3>. QED
      BY <2>1, <2>3, <3>1 DEF Goes, Schedules, Late, Lives, Allocated
  <2>. QED
    BY <1>15, <2>2, <2>3, AdoptOutcome
<1>16. CASE Apply
  <2>1. /\ o.cmd = "deploy" /\ o.at = "apply" /\ UNCHANGED <<record, ledger, sched, clock>>
    BY <1>16, ApplyOutcome
  <2>2. PICK h \in Hosts :
          /\ \/ h = tf /\ aws[h] = "allocated" /\ UNCHANGED <<aws, since>>
             \/ /\ Truth(tf) = "no" /\ aws[h] = "free"
                /\ aws' = [aws EXCEPT ![h] = "allocated"] /\ since' = [since EXCEPT ![h] = clock]
          /\ tf' = h
          /\ \/ Ended
             \/ Goes("outputs", o.host, o.due) /\ SameLoop /\ o'.agreed = o.agreed /\ o'.asked = o.asked
             \/ o.agreed /\ Goes("record", h, o.due) /\ SameLoop /\ o'.agreed /\ o'.asked = o.asked
    BY <1>16, ApplyOutcome
  <2>3. \A x \in Hosts : Allocated(x)' => (x = h /\ aws[h] = "free" /\ since'[x] = clock)
                                          \/ (Allocated(x) /\ since'[x] = since[x])
    BY <1>0, <2>2 DEF Allocated
  <2>4. \A x \in Hosts : \A due : Late(x, due) /\ ~(x = h /\ aws[h] = "free") => Late(x, due)'
    BY <2>3 DEF Late, Lives, Allocated
  <2>5. /\ Late(record.host, record.due)' /\ \A x \in DOMAIN ledger : Late(x, ledger[x])'
        /\ \A x \in Hosts : Late(x, sched[x])' /\ since'[x] <= clock'
    <3>1. \A x \in Hosts : since'[x] <= clock'
      BY <1>0, <2>1, <2>2 DEF Schedules
    <3>2. Late(record.host, record.due)'
      BY <2>1, <2>4 DEF Schedules, Real, Unheard, Late, Lives
    <3>3. \A x \in DOMAIN ledger : Late(x, ledger[x])'
      BY <2>1, <2>4 DEF Schedules, Real, Unheard, Late, Lives
    <3>4. \A x \in Hosts : Late(x, sched[x])'
      BY <2>1, <2>3 DEF Schedules, Real, Unheard, Late, Lives
    <3>. QED
      BY <3>1, <3>2, <3>3, <3>4
  <2>6. ~o.agreed => \A x, due : x = o.host /\ due = o.due => Late(x, due)'
    <3>1. Operator \in Commands
      BY DEF Commands
    <3>. QED
      BY <1>0, <2>1, <2>4, <3>1 DEF Schedules, Real, Unheard, Placed
  <2>7. o.agreed => o.due = ReleaseTime(o.asked) /\ since'[h] <= o.asked + MaxWait /\ \A due : due = o.due => Late(h, due)'
    <3>1. SUFFICES ASSUME o.agreed PROVE o.due = ReleaseTime(o.asked) /\ since'[h] <= o.asked + MaxWait /\ \A due : due = o.due => Late(h, due)'
      OBVIOUS
    <3>2. h # tf /\ since'[h] = clock
      BY <1>0, <2>1, <2>2, <3>1, MacHostsAssumption DEF Files
    <3>3. o.due = ReleaseTime(o.asked) /\ clock <= o.asked + MaxWait
      BY <2>1, <3>1 DEF Schedules
    <3>4. o.asked \in Int /\ clock \in Int
      BY <1>0 DEF Process
    <3>5. o.due >= clock + Minimum
      BY <3>3, <3>4, MacHostsAssumption DEF ReleaseTime
    <3>. QED
      BY <3>2, <3>3, <3>5 DEF Late
  <2>8. CASE Ended
    BY <2>5, <2>1, <2>8 DEF Ended, Schedules
  <2>9. CASE Goes("outputs", o.host, o.due) /\ o'.agreed = o.agreed /\ o'.asked = o.asked
    BY <2>1, <2>2, <2>5, <2>6, <2>7, <2>9 DEF Goes, Schedules
  <2>10. CASE o.agreed /\ Goes("record", h, o.due)
    BY <2>1, <2>5, <2>7, <2>10 DEF Goes, Schedules
  <2>. QED
    BY <2>2, <2>8, <2>9, <2>10
<1>17. CASE NoCapacity
  BY <1>17
     DEF NoCapacity, Fails, Stops, Becomes, Idle, cloud, Schedules, Late, Lives, Allocated, o,
         TypeOK
<1>18. CASE Outputs
  <2>1. UNCHANGED <<aws, since, record, ledger, sched, clock, tf>>
    BY <1>18, OutputsOutcome DEF cloud, disk
  <2>2. o.at = "outputs" /\ tf \in Hosts
    BY <1>18, OutputsOutcome DEF Files
  <2>3. CASE Ended
    BY <2>1, <2>3 DEF Ended, Schedules, Late, Lives, Allocated
  <2>4. CASE o'.at = "record" /\ o'.host = o.host /\ o'.due = o.due /\ ~o.agreed
    BY <2>1, <2>2, <2>4 DEF Schedules, Late, Lives, Allocated
  <2>5. CASE o'.at = "record" /\ o'.host = tf /\ o'.due = o.due /\ o.agreed
    <3>1. o.due = ReleaseTime(o.asked) /\ since[tf] <= o.asked + MaxWait
      BY <2>2, <2>5 DEF Schedules
    <3>2. since[tf] \in Int /\ o.asked \in Int
      BY <1>0, <2>2 DEF Process
    <3>3. o.due >= since[tf] + Minimum
      BY <3>1, <3>2, MacHostsAssumption DEF ReleaseTime
    <3>. QED
      BY <2>1, <2>5, <3>3 DEF Schedules, Late, Lives, Allocated
  <2>6. CASE o'.at = "record" /\ o'.host = tf /\ o'.due = ReleaseTime(clock)
    <3>1. ReleaseTime(clock) >= since[tf] + Minimum
      BY <1>0, <2>2, MacHostsAssumption DEF Schedules, ReleaseTime
    <3>. QED
      BY <2>1, <2>6, <3>1 DEF Schedules, Late, Lives, Allocated
  <2>. QED
    BY <1>18, <2>3, <2>4, <2>5, <2>6, OutputsOutcome
<1>19. CASE WriteRecord
  BY <1>19 DEF WriteRecord, Deploying, Moves, cloud, Schedules, Late, Lives, Allocated, o
<1>20. CASE WriteLedger
  BY <1>20, WriteLedgerOutcome DEF Ended, cloud, Schedules, Late, Lives, Allocated, Remembered
<1>21. CASE TeardownBacklog
  <2>1. UNCHANGED <<aws, since, record, ledger, sched, clock, tf>>
    BY <1>21, TeardownBacklogOutcome DEF cloud, disk
  <2>. QED
    BY <1>21, <2>1, TeardownBacklogOutcome DEF Ended, Schedules, Late, Lives, Allocated
<1>22. CASE Teardown
  BY <1>22, TeardownOutcome DEF Schedules, Late, Lives, Allocated
<1>23. CASE Schedule
  <2>1. UNCHANGED <<aws, since, record, clock>> /\ o'.at \in {"schedule", "backlog"}
    BY <1>23, ScheduleOutcome DEF Goes
  <2>2. PICK h \in o.todo :
          \/ sched' = [sched EXCEPT ![h] = Due(h)] /\ ledger' = Remembered(h, Due(h))
          \/ UNCHANGED <<sched, ledger>>
    BY <1>23, ScheduleOutcome
  <2>3. h \in Hosts
    BY <1>0 DEF Process
  <2>4. Late(h, Due(h))
    BY <1>0, <2>3, MacHostsAssumption DEF Due, Schedules, Late, ReleaseTime
  <2>5. \A x \in Hosts : Late(x, sched'[x])
    BY <1>0, <2>2, <2>4 DEF Schedules
  <2>6. \A x \in DOMAIN ledger' : Late(x, ledger'[x])
    BY <2>2, <2>4 DEF Schedules, Remembered
  <2>. QED
    BY <2>1, <2>5, <2>6 DEF Schedules, Late, Lives, Allocated
<1>24. CASE BacklogDone
  BY <1>24
     DEF BacklogDone, Stops, Becomes, Idle, cloud, disk, Schedules, Late, Lives, Allocated, o
<1>25. CASE ForgetHost
  BY <1>25
     DEF ForgetHost, Moves, Stops, Becomes, Idle, cloud, Schedules, Late, Lives, Allocated, o,
         TypeOK, Process
<1>26. CASE Terminate
  BY <1>26 DEF Terminate, Stops, Becomes, Idle, disk, Schedules, Late, Lives, Allocated, o
<1>27. ASSUME NEW p \in Commands, Killed(p) PROVE Schedules'
  BY <1>27 DEF Killed, Stops, Becomes, Idle, cloud, disk, Schedules, Late, Lives, Allocated, o
<1>28. ASSUME NEW h \in Hosts, Fire(h) PROVE Schedules'
  BY <1>28 DEF Fire, disk, Schedules, Late, Lives, Allocated, o
<1>29. ASSUME NEW h \in Hosts, Release(h) PROVE Schedules'
  BY <1>29 DEF Release, disk, Schedules, Late, Lives, Allocated, o
<1>30. ASSUME NEW h \in Hosts, GiveUp(h) PROVE Schedules'
  BY <1>30 DEF GiveUp, disk, Schedules, Late, Lives, Allocated, o
<1>31. CASE Tick
  <2>1. /\ clock' = clock + 1 /\ UNCHANGED <<cloud, disk, proc>>
        /\ Deploying("prompt") \/ (Deploying("apply") /\ o.agreed) => clock < o.asked + MaxWait
    BY <1>31 DEF Tick
  <2>2. o' = o /\ o.asked \in Int
    BY <1>0, <2>1 DEF o, Process
  <2>3. o.at = "prompt" \/ (o.at = "apply" /\ o.agreed) => clock' <= o.asked + MaxWait
    BY <1>0, <2>1, <2>2, MacHostsAssumption DEF Roles, Deploying
  <2>4. \A h \in Hosts : since[h] <= clock'
    BY <1>0, <2>1 DEF Schedules
  <2>. QED
    BY <2>1, <2>2, <2>3, <2>4 DEF Schedules, Late, Lives, Allocated, cloud, disk
<1>32. CASE UNCHANGED vars
  BY <1>32 DEF vars, cloud, disk, Schedules, Late, Lives, Allocated, o
<1>. QED
  BY <1>1, <1>2, <1>3, <1>4, <1>5, <1>6, <1>7, <1>8, <1>9, <1>10, <1>11, <1>12, <1>13, <1>14, <1>15, <1>16,
     <1>17, <1>18, <1>19, <1>20, <1>21, <1>22, <1>23, <1>24, <1>25, <1>26, <1>27, <1>28, <1>29, <1>30, <1>31, <1>32
     DEF Next, Working, Reconcile, Deploy, Destroy, Aws, Commands

-----------------------------------------------------------------------------
(* The teardown *)

\* What holds whenever commands, releases and status checks happen, in any order.
Always == TypeOK /\ Roles /\ Placed /\ Real /\ Heard /\ Files

\* A release that is under way was asked for after AWS's minimum.
Firing ==
    \A h \in releasing : aws[h] # "free" /\ (Allocated(h) => since[h] + Minimum <= clock)

\* While nothing has failed, the ledger names every host that bills, but for the one a deploy has
\* just allocated.
Recording == {"outputs", "record", "ledger"}
Booked ==
    faults = 0 =>
        \A h \in Hosts : Allocated(h) => h \in DOMAIN ledger \/ (o.at \in Recording /\ h = tf)

\* While nothing has failed, the Mac runs on the host of the block, or a deploy is about to write
\* that block.
OnRecord(h) == h = record.host \/ h \in dropped
Driven ==
    faults = 0 =>
        /\ Lives(mac) => OnRecord(mac) \/ (o.at \in {"outputs", "record"} /\ mac = tf)
        /\ o.at = "adopt" \/ (o.at \in {"apply", "outputs", "record"} /\ ~o.agreed) => OnRecord(o.host)
        /\ o.at \in {"outputs", "record"} /\ o.agreed => tf \notin stacks

\* While nothing has failed, a host that bills and has a stack has its release before it, unless
\* the block names it, in which case a teardown schedules it anew; and what the teardown has gone
\* through is scheduled.
Scheduled(h) == sched[h] # Never \/ h \in releasing
Covered ==
    faults = 0 =>
        /\ \A h \in stacks : Allocated(h) => Scheduled(h) \/ OnRecord(h)
        /\ o.at = "schedule" =>
              /\ o.cmd = "destroy"
              /\ \A h \in Hosts : Allocated(h) => Scheduled(h) \/ h \in o.todo \/ h \in dropped

Teardowns == Firing /\ Booked /\ Driven /\ Covered

\* A step that takes no host, no schedule and no entry of the ledger away, and that is none of the
\* places of a deploy where these are made.
Calm ==
    /\ UNCHANGED <<aws, since, mac, releasing>> /\ clock <= clock'
    /\ \A h \in Hosts : Allocated(h) =>
          /\ sched'[h] = sched[h] /\ (h \in stacks' => h \in stacks)
          /\ h \in DOMAIN ledger => h \in DOMAIN ledger'
          /\ OnRecord(h) => OnRecord(h)'
    /\ dropped \subseteq dropped'
    /\ \/ UNCHANGED <<o, tf>>
       \/ /\ o.at \notin Recording /\ o'.at \notin Recording \union {"adopt", "schedule"}
          /\ o'.at = "apply" => o'.agreed

LEMMA NothingFails ==
    ASSUME TypeOK, faults' = 0
    PROVE  \A kind : ~Fault(kind)
BY DEF TypeOK, Fault

LEMMA FaultsStay ==
    ASSUME TypeOK, [Next]_vars, faults' = 0
    PROVE  faults = 0
<1>. USE NothingFails
<1>1. CASE UNCHANGED faults
  BY <1>1
<1>2. ASSUME NEW p \in Commands, Reconcile(p) \/ Killed(p) PROVE UNCHANGED faults
  BY <1>2 DEF Reconcile, Survey, AskAbout, Ask, NoteAnswer, DropStack, Forget, ClearRecord, Killed
<1>3. Deploy => UNCHANGED faults
  BY DEF Deploy, TakeUp, TakeUpOrphan, Ask, Heal, Plan, Confirm, Adopt, Apply, NoCapacity, Outputs,
         WriteRecord, WriteLedger
<1>4. Destroy => UNCHANGED faults
  BY DEF Destroy, TeardownBacklog, Teardown, Schedule, BacklogDone, ForgetHost, Terminate
<1>5. ASSUME NEW h \in Hosts, Aws(h) PROVE UNCHANGED faults
  BY <1>5 DEF Aws, Fire, Release, GiveUp
<1>6. ASSUME NEW cmd, Start(cmd) PROVE UNCHANGED faults
  BY <1>6 DEF Start
<1>7. Check \/ CheckDone \/ Tick \/ UNCHANGED vars => UNCHANGED faults
  BY DEF Check, CheckDone, Tick, vars
<1>. QED
  BY <1>1, <1>2, <1>3, <1>4, <1>5, <1>6, <1>7 DEF Next, Working, Commands

\* Calm steps keep what the teardown rests on.
LEMMA CalmKeeps ==
    ASSUME Always, Consent, Teardowns, Calm, faults' = 0 => faults = 0, TypeOK'
    PROVE  Teardowns'
<1>0. /\ clock \in Nat /\ Minimum \in Nat /\ releasing \subseteq Hosts /\ stacks \subseteq Hosts
      /\ since \in [Hosts -> 0 .. MaxClock] /\ clock' \in Nat /\ stacks' \subseteq Hosts
  BY MacHostsAssumption DEF Always, TypeOK
<1>1. Firing'
  <2>. SUFFICES ASSUME NEW h \in releasing, Allocated(h) PROVE since[h] + Minimum <= clock'
    BY DEF Firing, Teardowns, Calm, Allocated
  <2>1. since[h] + Minimum <= clock /\ since[h] \in Nat
    BY <1>0 DEF Firing, Teardowns
  <2>. QED
    BY <1>0, <2>1 DEF Calm
<1>2. Booked'
  BY DEF Booked, Teardowns, Calm, Allocated
<1>3. Driven'
  <2>. SUFFICES ASSUME faults = 0 PROVE Driven'
    BY DEF Driven
  <2>1. Lives(mac)' => OnRecord(mac)' \/ (o'.at \in {"outputs", "record"} /\ mac' = tf')
    <3>. SUFFICES ASSUME Lives(mac)' PROVE OnRecord(mac)' \/ (o'.at \in {"outputs", "record"} /\ mac' = tf')
      OBVIOUS
    <3>1. Lives(mac) /\ mac' = mac
      BY DEF Calm, Lives, Allocated
    <3>. QED
      BY <3>1 DEF Driven, Teardowns, Calm, Lives, OnRecord, Recording
  <2>2. o'.at = "adopt" \/ (o'.at \in {"apply", "outputs", "record"} /\ ~o'.agreed) => OnRecord(o.host)'
    <3>. SUFFICES ASSUME o'.at = "adopt" \/ (o'.at \in {"apply", "outputs", "record"} /\ ~o'.agreed)
                  PROVE  OnRecord(o.host)'
      OBVIOUS
    <3>1. o' = o
      BY DEF Calm, Recording
    <3>2. Lives(o.host) /\ OnRecord(o.host)
      BY <3>1 DEF Consent, Driven, Teardowns
    <3>. QED
      BY <3>1, <3>2 DEF Calm, Lives, OnRecord
  <2>3. o'.at \in {"outputs", "record"} /\ o'.agreed => tf' \notin stacks'
    <3>. SUFFICES ASSUME o'.at \in {"outputs", "record"}, o'.agreed PROVE tf' \notin stacks'
      OBVIOUS
    <3>1. o' = o /\ tf' = tf
      BY DEF Calm, Recording
    <3>2. Lives(tf) /\ tf \notin stacks
      BY <3>1 DEF Consent, Driven, Teardowns
    <3>. QED
      BY <3>1, <3>2 DEF Calm, Lives
  <2>. QED
    BY <2>1, <2>2, <2>3 DEF Driven
<1>4. Covered'
  <2>. SUFFICES ASSUME faults = 0 PROVE Covered'
    BY DEF Covered
  <2>1. \A h \in stacks' : Allocated(h)' => Scheduled(h)' \/ OnRecord(h)'
    <3>. SUFFICES ASSUME NEW h \in stacks', Allocated(h)' PROVE Scheduled(h)' \/ OnRecord(h)'
      OBVIOUS
    <3>1. Allocated(h)
      BY DEF Calm, Allocated
    <3>2. h \in Hosts
      BY <1>0
    <3>. QED
      BY <3>1, <3>2 DEF Covered, Teardowns, Calm, Scheduled, OnRecord
  <2>2. ASSUME o'.at = "schedule"
        PROVE  /\ o'.cmd = "destroy"
               /\ \A h \in Hosts : Allocated(h)' => Scheduled(h)' \/ h \in o'.todo \/ h \in dropped'
    <3>1. o' = o
      BY <2>2 DEF Calm
    <3>2. ASSUME NEW h \in Hosts, Allocated(h)' PROVE Scheduled(h)' \/ h \in o'.todo \/ h \in dropped'
      <4>1. Allocated(h) /\ (Scheduled(h) \/ h \in o.todo \/ h \in dropped)
        BY <2>2, <3>1, <3>2 DEF Covered, Teardowns, Calm, Allocated
      <4>. QED
        BY <3>1, <4>1 DEF Calm, Scheduled
    <3>. QED
      BY <2>2, <3>1, <3>2 DEF Covered, Teardowns
  <2>. QED
    BY <2>1, <2>2 DEF Covered
<1>. QED
  BY <1>1, <1>2, <1>3, <1>4 DEF Teardowns

\* Outside of a deploy's own places and of the teardown, every step is calm.
LEMMA ReconcilesCalmly ==
    ASSUME Always, Consent, faults' = 0, NEW p \in Commands, Reconcile(p)
    PROVE  Calm
<1>. USE DEF Always
<1>0. /\ proc[Operator] = o /\ proc[p] \in Process
      /\ (Others(p) /\ p = Status => o' = o)
      /\ clock \in Nat
  BY DEF TypeOK, Others, Commands, Operator, Status, o
<1>1. ASSUME proc[p].at \in {"survey", "hosts", "answer", "unschedule", "forget", "clear"},
             proc'[p].at \in {"hosts", "answer", "unschedule", "forget", "clear"}, Others(p)
      PROVE  \/ o' = o
             \/ o.at \notin Recording /\ o'.at \notin Recording \union {"adopt", "schedule"} /\ o'.at # "apply"
  <2>1. CASE p = Status
    BY <1>0, <1>1, <2>1
  <2>2. CASE p = Operator
    <3>1. o.at = proc[p].at /\ o'.at = proc'[p].at
      BY <2>2 DEF o
    <3>. QED
      BY <1>1, <3>1 DEF Recording
  <2>. QED
    BY <2>1, <2>2 DEF Commands
<1>2. ASSUME proc[p].at \in {"unschedule", "forget", "clear"}
      PROVE  ~Allocated(proc[p].host)
  BY <1>2 DEF Heard, Allocated
<1>3. CASE Survey(p)
  <2>1. proc'[p].at = "hosts" /\ Others(p) /\ proc[p].at = "survey" /\ tf' = tf
    <3>1. proc[p].at = "survey" /\ tf' = tf
      BY <1>3 DEF Survey, At, disk
    <3>2. Becomes(p, [proc[p] EXCEPT !.at = "hosts", !.todo = Tracked, !.current = record.host])
      BY <1>3 DEF Survey
    <3>3. /\ proc'[p] = [proc[p] EXCEPT !.at = "hosts", !.todo = Tracked, !.current = record.host]
          /\ Others(p)
      BY <3>2, BecomesEffect
    <3>. QED
      BY <1>0, <3>1, <3>3 DEF Process
  <2>. QED
    BY <1>0, <1>1, <1>3, <2>1 DEF Survey, cloud, disk, Calm, OnRecord
<1>4. CASE AskAbout(p)
  <2>1. proc'[p].at = "answer" /\ Others(p) /\ proc[p].at = "hosts" /\ tf' = tf
    <3>1. proc[p].at = "hosts" /\ tf' = tf
      BY <1>4 DEF AskAbout, At, disk
    <3>2. PICK h \in proc[p].todo, answer \in {"yes", "no", "unknown"} :
             /\ Ask(h, answer)
             /\ Becomes(p, [proc[p] EXCEPT !.at = "answer", !.todo = @ \ {h}, !.host = h, !.answer = answer])
      BY <1>4, Zenon DEF AskAbout
    <3>3. /\ proc'[p] = [proc[p] EXCEPT !.at = "answer", !.todo = @ \ {h}, !.host = h, !.answer = answer]
          /\ Others(p)
      BY <3>2, BecomesEffect
    <3>. QED
      BY <1>0, <3>1, <3>3 DEF Process
  <2>. QED
    BY <1>0, <1>1, <1>4, <2>1 DEF AskAbout, cloud, disk, Calm, OnRecord
<1>5. CASE NoteAnswer(p)
  <2>1. UNCHANGED dropped
    BY <1>5 DEF NoteAnswer
  <2>. QED
    BY <1>0, <1>1, <1>5, <2>1, NoteAnswerOutcome DEF cloud, Calm, OnRecord
<1>6. CASE DropStack(p)
  <2>1. proc'[p].at = "forget" /\ Others(p) /\ proc[p].at = "unschedule"
    BY <1>6, MovesEffect DEF DropStack, At
  <2>2. /\ UNCHANGED <<aws, since, mac, releasing, record, ledger, tf, clock, dropped>>
        /\ stacks' \subseteq stacks /\ \A h \in Hosts : h # proc[p].host => sched'[h] = sched[h]
    BY <1>6 DEF DropStack, TypeOK
  <2>. QED
    BY <1>0, <1>1, <1>2, <2>1, <2>2 DEF Calm, OnRecord
<1>7. CASE Forget(p)
  <2>1. /\ UNCHANGED <<cloud, record, stacks, tf, clock, dropped>> /\ Others(p)
        /\ proc[p].at = "forget" /\ proc'[p].at \in {"hosts", "clear"}
    BY <1>7, ForgetOutcome DEF Forget
  <2>2. \A h \in DOMAIN ledger : h # proc[p].host => h \in DOMAIN ledger'
    BY <1>7, ForgetOutcome
  <2>. QED
    BY <1>0, <1>1, <1>2, <2>1, <2>2 DEF cloud, Calm, OnRecord
<1>8. CASE ClearRecord(p)
  <2>1. proc'[p].at = "hosts" /\ Others(p) /\ proc[p].at = "clear"
    BY <1>8, NextHostEffect DEF ClearRecord, At
  <2>2. /\ UNCHANGED <<cloud, ledger, stacks, clock>> /\ (p = Status => tf' = tf)
        /\ dropped' = dropped \union ({record.host} \ {NoHost, proc[p].host})
    BY <1>8 DEF ClearRecord
  <2>3. \A h \in Hosts : Allocated(h) /\ OnRecord(h) => h \in dropped'
    BY <1>2, <2>1, <2>2, MacHostsAssumption DEF OnRecord
  <2>4. UNCHANGED <<o, tf>> \/ (o.at \notin Recording /\ o'.at \notin Recording \union {"adopt", "schedule", "apply"})
    <3>1. CASE p = Status
      BY <1>0, <2>1, <2>2, <3>1
    <3>2. CASE p = Operator
      <4>1. o.at = "clear" /\ o'.at = "hosts"
        BY <2>1, <3>2 DEF o
      <4>. QED
        BY <4>1 DEF Recording
    <3>. QED
      BY <3>1, <3>2 DEF Commands
  <2>. QED
    BY <1>0, <2>2, <2>3, <2>4 DEF cloud, Calm, OnRecord
<1>. QED
  BY <1>3, <1>4, <1>5, <1>6, <1>7, <1>8 DEF Reconcile

LEMMA OthersCalmly ==
    ASSUME Always, Consent, [Next]_vars, faults' = 0,
           \/ \E cmd \in {"deploy", "destroy"} : Start(cmd)
           \/ Check \/ CheckDone \/ Plan \/ Confirm \/ NoCapacity \/ TakeUpOrphan
           \/ TeardownBacklog \/ BacklogDone \/ ForgetHost \/ Tick \/ UNCHANGED vars
    PROVE  Calm
<1>. USE NothingFails DEF Always
<1>0. proc[Operator] = o /\ o \in Process /\ clock \in Nat
  BY DEF TypeOK, o
<1>1. ASSUME NEW cmd \in {"deploy", "destroy"}, Start(cmd) PROVE Calm
  <2>1. o'.at = "survey" /\ o.at = "idle"
    <3>1. o' = [Idle EXCEPT !.cmd = cmd, !.at = "survey"]
      BY <1>1, OperatorBecomes DEF Start
    <3>. QED
      BY <1>1, <3>1 DEF Start, At, Idle, o
  <2>. QED
    BY <1>0, <1>1, <2>1 DEF Start, cloud, disk, Calm, OnRecord, Recording
<1>2. CASE Check \/ CheckDone
  <2>1. o' = o
    BY <1>2 DEF Check, CheckDone, Stops, Becomes, TypeOK, o, Operator, Status
  <2>. QED
    BY <1>0, <1>2, <2>1 DEF Check, CheckDone, cloud, disk, Calm, OnRecord
<1>3. CASE Plan
  BY <1>0, <1>3, PlanOutcome DEF Plan, cloud, disk, Calm, OnRecord, Goes, Recording
<1>4. CASE Confirm
  <2>1. /\ UNCHANGED <<cloud, disk, clock, dropped>> /\ o.at = "prompt"
        /\ o'.at = "idle" \/ (o'.at = "apply" /\ o'.agreed)
    BY <1>4, ConfirmOutcome DEF Confirm, Goes, Ended
  <2>. QED
    BY <1>0, <2>1 DEF cloud, disk, Calm, OnRecord, Recording
<1>5. CASE NoCapacity
  <2>1. Ended /\ o.at = "apply"
    BY <1>5, FailsOutcome DEF NoCapacity, Deploying
  <2>. QED
    BY <1>0, <1>5, <2>1 DEF NoCapacity, cloud, Calm, OnRecord, Ended, Recording
<1>6. CASE TakeUpOrphan
  <2>1. /\ UNCHANGED <<cloud, record, ledger, stacks, clock, dropped>> /\ o.at = "hosts"
        /\ o'.at \in {"idle", "heal", "prompt"}
    BY <1>6, TakeUpOrphanOutcome DEF TakeUpOrphan, Goes, Ended
  <2>. QED
    BY <1>0, <2>1 DEF cloud, Calm, OnRecord, Recording
<1>7. CASE TeardownBacklog
  <2>1. /\ UNCHANGED <<cloud, disk, clock, dropped>> /\ o.at = "hosts" /\ o'.at \in {"idle", "backlog"}
    BY <1>7, TeardownBacklogOutcome DEF TeardownBacklog, Ended
  <2>. QED
    BY <1>0, <2>1 DEF cloud, disk, Calm, OnRecord, Recording
<1>8. CASE BacklogDone
  <2>1. Ended /\ o.at = "backlog"
    BY <1>8, OperatorStops DEF BacklogDone, Destroying
  <2>. QED
    BY <1>0, <1>8, <2>1 DEF BacklogDone, cloud, disk, Calm, OnRecord, Ended, Recording
<1>9. CASE ForgetHost
  <2>1. o'.at = "terminate" /\ o.at = "schedule"
    BY <1>9, OperatorMoves DEF ForgetHost, Destroying, Goes
  <2>. QED
    BY <1>0, <1>9, <2>1 DEF ForgetHost, cloud, Calm, OnRecord, Recording
<1>10. CASE Tick
  <2>1. clock <= clock' /\ o' = o
    BY <1>0, <1>10 DEF Tick, o
  <2>. QED
    BY <1>10, <2>1 DEF Tick, cloud, disk, Calm, OnRecord
<1>11. CASE UNCHANGED vars
  BY <1>0, <1>11 DEF vars, cloud, disk, Calm, OnRecord, o
<1>. QED
  BY <1>1, <1>2, <1>3, <1>4, <1>5, <1>6, <1>7, <1>8, <1>9, <1>10, <1>11

\* A release is asked for by a schedule, so not before AWS's minimum, and no host in it is new.
LEMMA FiringStep ==
    ASSUME Always, Schedules, Firing, [Next]_vars
    PROVE  Firing'
<1>. USE DEF Always
<1>0. /\ clock \in Nat /\ Minimum \in Nat /\ releasing \subseteq Hosts
      /\ since \in [Hosts -> 0 .. MaxClock] /\ sched \in [Hosts -> Dues]
      /\ aws \in [Hosts -> {"free", "allocated", "released"}]
  BY MacHostsAssumption DEF TypeOK
<1>1. ASSUME UNCHANGED <<aws, since>>, releasing' \subseteq releasing, clock <= clock', clock' \in Nat PROVE Firing'
  <2>. SUFFICES ASSUME NEW h \in releasing, Allocated(h) PROVE since[h] + Minimum <= clock'
    BY <1>1 DEF Firing, Allocated
  <2>1. since[h] + Minimum <= clock /\ since[h] \in Nat
    BY <1>0 DEF Firing
  <2>. QED
    BY <1>0, <1>1, <2>1
<1>2. CASE Apply
  <2>1. /\ UNCHANGED <<releasing, clock>>
        /\ \E h \in Hosts : \/ UNCHANGED <<aws, since>>
                            \/ /\ aws[h] = "free"
                               /\ aws' = [aws EXCEPT ![h] = "allocated"]
                               /\ since' = [since EXCEPT ![h] = clock]
    BY <1>2, ApplyOutcome
  <2>. QED
    BY <1>0, <2>1 DEF Firing, Allocated
<1>3. ASSUME NEW h \in Hosts, Fire(h) PROVE Firing'
  <2>1. /\ UNCHANGED <<aws, since, clock>> /\ releasing' = releasing \union {h}
        /\ sched[h] # Never /\ clock >= sched[h]
    BY <1>3 DEF Fire
  <2>2. aws[h] # "free" /\ (Allocated(h) => since[h] + Minimum <= clock)
    <3>1. aws[h] # "free"
      BY <2>1 DEF Real, Unheard
    <3>2. ASSUME Allocated(h) PROVE since[h] + Minimum <= clock
      <4>1. sched[h] >= since[h] + Minimum
        BY <2>1, <3>2 DEF Schedules, Late, Lives
      <4>2. sched[h] \in Int /\ since[h] \in Int
        BY <1>0, MacHostsAssumption DEF Dues, Times, Never
      <4>. QED
        BY <1>0, <2>1, <4>1, <4>2
    <3>. QED
      BY <3>1, <3>2
  <2>. QED
    BY <2>1, <2>2 DEF Firing, Allocated
<1>4. ASSUME NEW h \in Hosts, Release(h) PROVE Firing'
  BY <1>0, <1>4 DEF Release, Firing, Allocated
<1>5. ASSUME NEW h \in Hosts, GiveUp(h) PROVE Firing'
  BY <1>0, <1>1, <1>5 DEF GiveUp
<1>6. ASSUME NEW cmd, Start(cmd) PROVE Firing'
  BY <1>0, <1>1, <1>6 DEF Start, cloud
<1>7. ASSUME NEW p \in Commands, Reconcile(p) \/ Killed(p) PROVE Firing'
  <2>1. CASE Survey(p) \/ AskAbout(p) \/ NoteAnswer(p) \/ Forget(p) \/ ClearRecord(p) \/ Killed(p)
    <3>1. UNCHANGED <<cloud, clock>>
      <4>1. Survey(p) \/ AskAbout(p) \/ ClearRecord(p) \/ Killed(p) => UNCHANGED <<cloud, clock>>
        BY DEF Survey, AskAbout, ClearRecord, Killed
      <4>. QED
        BY <2>1, <4>1, NoteAnswerOutcome, ForgetOutcome
    <3>. QED
      BY <1>0, <1>1, <3>1 DEF cloud
  <2>2. CASE DropStack(p)
    <3>1. UNCHANGED <<aws, since, releasing, clock>>
      BY <2>2 DEF DropStack
    <3>. QED
      BY <1>0, <1>1, <3>1
  <2>. QED
    BY <1>7, <2>1, <2>2 DEF Reconcile
<1>8. CASE Check \/ CheckDone \/ TakeUp \/ TakeUpOrphan \/ Heal \/ Plan \/ Confirm \/ Adopt \/ NoCapacity
             \/ Outputs \/ WriteRecord \/ WriteLedger \/ Destroy
  <2>1. UNCHANGED <<aws, since, releasing, clock>>
    BY <1>8
       DEF Check, CheckDone, TakeUp, TakeUpOrphan, Heal, Plan, Confirm, Adopt, NoCapacity, Outputs,
           WriteRecord, WriteLedger, Destroy, TeardownBacklog, Teardown, Schedule, BacklogDone,
           ForgetHost, Terminate, cloud
  <2>. QED
    BY <1>0, <1>1, <2>1
<1>9. CASE Tick
  BY <1>0, <1>1, <1>9 DEF Tick, cloud
<1>10. CASE UNCHANGED vars
  BY <1>0, <1>1, <1>10 DEF vars, cloud
<1>. QED
  BY <1>2, <1>3, <1>4, <1>5, <1>6, <1>7, <1>8, <1>9, <1>10 DEF Next, Working, Deploy, Aws, Commands

\* The steps of a deploy that write down what it took up or allocated.
LEMMA DeployKeepsTeardowns ==
    ASSUME Always, Consent, Teardowns, faults = 0, faults' = 0,
           TakeUp \/ Heal \/ Adopt \/ Apply \/ Outputs \/ WriteRecord \/ WriteLedger
    PROVE  Booked' /\ Driven' /\ Covered'
<1>. USE NothingFails DEF Always, Teardowns
<1>0. /\ o \in Process /\ tf \in MaybeHost /\ record.host \in MaybeHost /\ NoHost \notin Hosts
      /\ stacks \subseteq Hosts /\ mac \in MaybeHost
      /\ aws \in [Hosts -> {"free", "allocated", "released"}]
  BY MacHostsAssumption DEF TypeOK, o
<1>1. CASE TakeUp
  <2>1. /\ UNCHANGED <<cloud, disk, dropped>> /\ o.at = "hosts"
        /\ Ended \/ (o'.at = "adopt" /\ o'.host = record.host)
    BY <1>1, TakeUpOutcome DEF TakeUp, Goes
  <2>. QED
    BY <1>0, <2>1 DEF Ended, Booked, Driven, Covered, Scheduled, OnRecord, Recording, Lives, Allocated, cloud, disk
<1>2. CASE Heal
  <2>1. /\ UNCHANGED <<cloud, stacks, tf, dropped>> /\ o.at = "heal" /\ o'.at = "adopt" /\ o'.host = o.host
        /\ record'.host = o.host /\ DOMAIN ledger \subseteq DOMAIN ledger'
    BY <1>2, HealOutcome DEF Heal, Goes, Remembered
  <2>2. record.host \in {NoHost, o.host}
    BY <2>1 DEF Consent
  <2>. QED
    BY <1>0, <2>1, <2>2 DEF Booked, Driven, Covered, Scheduled, OnRecord, Recording, Lives, Allocated, cloud
<1>3. CASE Adopt
  <2>1. /\ UNCHANGED <<cloud, record, ledger, stacks, dropped>> /\ o.at = "adopt" /\ ~o.agreed
        /\ Ended \/ (o'.at = "apply" /\ o'.host = o.host)
    BY <1>3, AdoptOutcome DEF Adopt, Goes, Files
  <2>. QED
    BY <1>0, <2>1 DEF Ended, Booked, Driven, Covered, Scheduled, OnRecord, Recording, Lives, Allocated, cloud
<1>4. CASE Apply
  <2>1. PICK h \in Hosts :
          /\ \/ h = tf /\ aws[h] = "allocated" /\ UNCHANGED aws
             \/ Truth(tf) = "no" /\ aws[h] = "free" /\ aws' = [aws EXCEPT ![h] = "allocated"]
          /\ tf' = h /\ mac' = h /\ Moves(Operator, "outputs")
    <3>1. PICK h \in Hosts :
            /\ IF Truth(tf) = "yes" THEN h = tf ELSE aws[h] = "free"
            /\ IF h = tf THEN UNCHANGED <<aws, since>>
               ELSE aws' = [aws EXCEPT ![h] = "allocated"] /\ since' = [since EXCEPT ![h] = clock]
            /\ tf' = h /\ mac' = h /\ Moves(Operator, "outputs")
      BY <1>4 DEF Apply
    <3>. QED
      BY <1>0, <3>1 DEF Truth, Real, Unheard
  <2>2. UNCHANGED <<sched, releasing, record, ledger, stacks, dropped>> /\ o.at = "apply"
    BY <1>4 DEF Apply, Deploying
  <2>3. o'.at = "outputs" /\ o'.host = o.host /\ o'.agreed = o.agreed
    BY <2>1, OperatorMoves DEF Goes
  <2>4. \A x \in Hosts : Allocated(x)' => Allocated(x) \/ x = h
    BY <1>0, <2>1 DEF Allocated
  <2>5. Booked'
    BY <2>1, <2>2, <2>3, <2>4 DEF Booked, Recording
  <2>6. CASE ~o.agreed
    <3>1. Lives(tf) /\ OnRecord(o.host) /\ UNCHANGED aws
      BY <2>1, <2>2, <2>6 DEF Consent, Driven, Truth, Lives, Allocated
    <3>. QED
      BY <1>0, <2>1, <2>2, <2>3, <2>5, <2>6, <3>1 DEF Driven, Covered, Scheduled, OnRecord, Lives, Allocated
  <2>7. CASE o.agreed
    <3>1. tf = NoHost /\ h \notin stacks
      BY <1>0, <2>1, <2>2, <2>7 DEF Files, Real, Unheard
    <3>. QED
      BY <1>0, <2>1, <2>2, <2>3, <2>4, <2>5, <2>7, <3>1 DEF Driven, Covered, Scheduled, OnRecord, Lives
  <2>. QED
    BY <2>6, <2>7
<1>5. CASE Outputs
  <2>1. /\ UNCHANGED <<cloud, disk, dropped>> /\ o.at = "outputs"
        /\ o'.at = "record" /\ o'.host = tf /\ o'.agreed = o.agreed
    <3>1. /\ UNCHANGED <<cloud, disk, dropped>> /\ o.at = "outputs"
          /\ Becomes(Operator, [o EXCEPT !.at = "record", !.host = tf, !.answer = "yes", !.asked = 0,
               !.due = IF o.agreed \/ tf = o.host THEN @ ELSE ReleaseTime(clock)])
      BY <1>5 DEF Outputs, Deploying
    <3>2. o' = [o EXCEPT !.at = "record", !.host = tf, !.answer = "yes", !.asked = 0,
               !.due = IF o.agreed \/ tf = o.host THEN @ ELSE ReleaseTime(clock)]
      BY <3>1, OperatorBecomes
    <3>. QED
      BY <1>0, <3>1, <3>2 DEF Process
  <2>2. ~o.agreed => OnRecord(tf)
    BY <2>1 DEF Consent, Driven
  <2>. QED
    BY <1>0, <2>1, <2>2 DEF Booked, Driven, Covered, Scheduled, OnRecord, Recording, Lives, Allocated, cloud, disk
<1>6. CASE WriteRecord
  <2>1. UNCHANGED <<cloud, ledger, stacks, tf, dropped>> /\ o.at = "record" /\ o'.at = "ledger" /\ record'.host = o.host
    BY <1>6, OperatorMoves DEF WriteRecord, Deploying, Goes
  <2>2. o.host = tf /\ record.host \in {NoHost, tf}
    BY <2>1 DEF Consent
  <2>. QED
    BY <1>0, <2>1, <2>2 DEF Booked, Driven, Covered, Scheduled, OnRecord, Recording, Lives, Allocated, cloud
<1>7. CASE WriteLedger
  <2>1. UNCHANGED <<cloud, record, stacks, tf, dropped>> /\ o.at = "ledger" /\ Ended
    BY <1>7, WriteLedgerOutcome DEF WriteLedger
  <2>2. o.host = tf /\ DOMAIN ledger' = DOMAIN ledger \union {o.host}
    BY <1>7, <2>1, WriteLedgerOutcome DEF Consent
  <2>. QED
    BY <1>0, <2>1, <2>2 DEF Ended, Booked, Driven, Covered, Scheduled, OnRecord, Recording, Lives, Allocated, cloud
<1>. QED
  BY <1>1, <1>2, <1>3, <1>4, <1>5, <1>6, <1>7

\* The steps of the teardown and of AWS.
LEMMA DestroyKeepsTeardowns ==
    ASSUME Always, Consent, Teardowns, faults = 0, faults' = 0,
           Teardown \/ Schedule \/ Terminate \/ \E h \in Hosts : Aws(h)
    PROVE  Booked' /\ Driven' /\ Covered'
<1>. USE NothingFails DEF Always, Teardowns
<1>0. /\ o \in Process /\ record.host \in MaybeHost /\ NoHost \notin Hosts
      /\ stacks \subseteq Hosts /\ mac \in MaybeHost /\ sched \in [Hosts -> Dues]
      /\ aws \in [Hosts -> {"free", "allocated", "released"}]
      /\ DOMAIN ledger \subseteq Hosts
  BY MacHostsAssumption DEF TypeOK, o
<1>1. CASE Teardown
  <2>1. /\ UNCHANGED <<aws, mac, releasing, record, ledger, tf, dropped>> /\ o.at = "hosts"
        /\ o'.at = "schedule" /\ o'.cmd = "destroy" /\ o'.todo = Outstanding \union ({record.host} \ {NoHost})
    BY <1>1, TeardownOutcome DEF Teardown
  <2>2. /\ stacks' \subseteq stacks
        /\ \A h \in Hosts : Allocated(h) => sched'[h] = sched[h]
    BY <1>0, <1>1, TeardownOutcome DEF Finished, Truth, Allocated
  <2>3. \A h \in stacks' : Allocated(h)' => Scheduled(h)' \/ OnRecord(h)'
    BY <1>0, <2>1, <2>2 DEF Covered, Scheduled, OnRecord, Allocated
  <2>4. ASSUME NEW h \in Hosts, Allocated(h)' PROVE Scheduled(h)' \/ h \in o'.todo \/ h \in dropped'
    <3>1. Allocated(h) /\ h \in DOMAIN ledger
      BY <2>1, <2>4 DEF Booked, Recording, Allocated
    <3>2. CASE h \in stacks
      BY <1>0, <2>1, <2>2, <3>1, <3>2 DEF Covered, Scheduled, OnRecord
    <3>3. CASE h \notin stacks
      BY <2>1, <3>1, <3>3 DEF Outstanding, Tracked
    <3>. QED
      BY <3>2, <3>3
  <2>5. Covered'
    BY <2>1, <2>3, <2>4 DEF Covered
  <2>. QED
    BY <2>1, <2>5 DEF Booked, Driven, OnRecord, Recording, Lives, Allocated
<1>2. CASE Schedule
  <2>1. UNCHANGED <<aws, mac, releasing, record, tf, dropped>>
    BY <1>2, ScheduleOutcome DEF Schedule
  <2>2. PICK h \in o.todo :
          /\ o'.todo = o.todo \ {h} /\ stacks' = stacks \union {h} /\ sched' = [sched EXCEPT ![h] = Due(h)]
          /\ ledger' = Remembered(h, Due(h))
    BY <1>2, ScheduleOutcome
  <2>3. /\ o'.at = o.at /\ o'.cmd = o.cmd /\ o.at \in {"schedule", "backlog"} /\ o.cmd = "destroy"
        /\ h \in Hosts
    BY <1>0, <1>2, ScheduleOutcome DEF Goes, Process
  <2>4. Due(h) # Never
    BY MacHostsAssumption DEF Due, ReleaseTime, Never, TypeOK
  <2>5. sched'[h] # Never /\ \A x \in Hosts : x # h => sched'[x] = sched[x]
    BY <1>0, <2>2, <2>3, <2>4
  <2>6. Booked'
    BY <2>1, <2>2, <2>3 DEF Booked, Recording, Allocated, Remembered
  <2>7. Driven'
    BY <2>1, <2>3 DEF Driven, OnRecord, Lives, Allocated
  <2>8. Covered'
    BY <1>0, <2>1, <2>2, <2>3, <2>5 DEF Covered, Scheduled, OnRecord, Allocated
  <2>. QED
    BY <2>6, <2>7, <2>8
<1>3. CASE Terminate
  <2>1. UNCHANGED <<aws, sched, releasing, disk, dropped>> /\ mac' = NoHost /\ o.at = "terminate" /\ Ended
    BY <1>3, OperatorStops DEF Terminate, Destroying
  <2>. QED
    BY <1>0, <2>1 DEF Ended, Booked, Driven, Covered, Scheduled, OnRecord, Recording, Lives, Allocated, disk
<1>4. ASSUME NEW h \in Hosts, Fire(h) PROVE Booked' /\ Driven' /\ Covered'
  <2>1. /\ UNCHANGED <<aws, mac, disk, dropped>> /\ o' = o
        /\ sched' = [sched EXCEPT ![h] = Never] /\ releasing' = releasing \union {h}
    BY <1>4 DEF Fire, o
  <2>2. \A x \in Hosts : Scheduled(x) => Scheduled(x)'
    BY <1>0, <2>1 DEF Scheduled
  <2>. QED
    BY <1>0, <2>1, <2>2 DEF Booked, Driven, Covered, OnRecord, Lives, Allocated, disk
<1>5. ASSUME NEW h \in Hosts, Release(h) PROVE Booked' /\ Driven' /\ Covered'
  <2>1. /\ UNCHANGED <<sched, mac, disk, dropped>> /\ o' = o
        /\ releasing' = releasing \ {h} /\ aws' = [aws EXCEPT ![h] = "released"]
    BY <1>5 DEF Release, o
  <2>2. \A x \in Hosts : Allocated(x)' => Allocated(x) /\ x # h
    BY <1>0, <2>1 DEF Allocated
  <2>3. Booked' /\ Driven'
    BY <1>0, <2>1, <2>2 DEF Booked, Driven, OnRecord, Lives, disk
  <2>4. Covered'
    BY <1>0, <2>1, <2>2 DEF Covered, Scheduled, OnRecord, disk
  <2>. QED
    BY <2>3, <2>4
<1>6. ASSUME NEW h \in Hosts, GiveUp(h) PROVE Booked' /\ Driven' /\ Covered'
  <2>1. /\ UNCHANGED <<aws, sched, mac, disk, dropped>> /\ o' = o
        /\ releasing' = releasing \ {h} /\ h \in releasing /\ ~Releasable(h) /\ o.cmd # "destroy"
    BY <1>6 DEF GiveUp, o
  <2>2. ASSUME h \in stacks, Allocated(h) PROVE OnRecord(h)
    <3>1. since[h] + Minimum <= clock
      BY <2>1, <2>2 DEF Firing
    <3>2. mac = h
      BY <2>1, <2>2, <3>1 DEF Releasable, Allocated, TypeOK
    <3>3. OnRecord(h) \/ (o.at \in {"outputs", "record"} /\ h = tf)
      BY <2>2, <3>2 DEF Driven, Lives
    <3>4. ASSUME o.at \in {"outputs", "record"}, h = tf PROVE OnRecord(h)
      <4>1. ~o.agreed
        BY <2>2, <3>4 DEF Driven
      <4>2. o.host = tf
        BY <3>4, <4>1 DEF Consent
      <4>. QED
        BY <3>4, <4>1, <4>2 DEF Driven
    <3>. QED
      BY <3>3, <3>4
  <2>3. Booked' /\ Driven'
    BY <2>1 DEF Booked, Driven, OnRecord, Lives, Allocated, disk
  <2>4. Covered'
    BY <1>0, <2>1, <2>2 DEF Covered, Scheduled, OnRecord, Allocated, disk
  <2>. QED
    BY <2>3, <2>4
<1>. QED
  BY <1>1, <1>2, <1>3, <1>4, <1>5, <1>6 DEF Aws

LEMMA TeardownsStep ==
    ASSUME Always, Consent, Schedules, Teardowns, [Next]_vars, TypeOK'
    PROVE  Teardowns'
<1>1. Firing'
  BY FiringStep DEF Teardowns
<1>2. CASE faults' # 0
  BY <1>1, <1>2 DEF Teardowns, Booked, Driven, Covered
<1>3. CASE faults' = 0
  <2>1. faults = 0
    BY <1>3, FaultsStay DEF Always
  <2>2. Calm => Teardowns'
    BY <2>1, CalmKeeps
  <2>3. ASSUME NEW p \in Commands, Reconcile(p) PROVE Teardowns'
    BY <1>3, <2>2, <2>3, ReconcilesCalmly
  <2>4. CASE \/ \E cmd \in {"deploy", "destroy"} : Start(cmd)
             \/ Check \/ CheckDone \/ Plan \/ Confirm \/ NoCapacity \/ TakeUpOrphan
             \/ TeardownBacklog \/ BacklogDone \/ ForgetHost \/ Tick \/ UNCHANGED vars
    BY <1>3, <2>2, <2>4, OthersCalmly
  <2>5. CASE TakeUp \/ Heal \/ Adopt \/ Apply \/ Outputs \/ WriteRecord \/ WriteLedger
    BY <1>1, <1>3, <2>1, <2>5, DeployKeepsTeardowns DEF Teardowns
  <2>6. CASE Teardown \/ Schedule \/ Terminate \/ \E h \in Hosts : Aws(h)
    BY <1>1, <1>3, <2>1, <2>6, DestroyKeepsTeardowns DEF Teardowns
  <2>7. \A p \in Commands : ~Killed(p)
    BY <1>3, NothingFails DEF Killed, Always
  <2>. QED
    BY <2>3, <2>4, <2>5, <2>6, <2>7 DEF Next, Working, Deploy, Destroy, Commands
<1>. QED
  BY <1>2, <1>3

-----------------------------------------------------------------------------
(* The theorems *)

LEMMA InitHolds == Init => Always /\ Consent /\ Named /\ Schedules
<1>. SUFFICES ASSUME Init PROVE Always /\ Consent /\ Named /\ Schedules
  OBVIOUS
<1>1. PICK old \in Leftovers :
         /\ aws = [h \in Hosts |-> IF h \in old THEN "allocated" ELSE "free"]
         /\ ledger = [h \in old |-> Never]
  BY DEF Init
<1>2. /\ proc[Operator] = Idle /\ proc[Status] = Idle /\ o = Idle /\ record = NoRecord /\ stacks = {}
      /\ tf = NoHost /\ clock = 0 /\ since = [h \in Hosts |-> 0] /\ sched = [h \in Hosts |-> Never]
  BY DEF Init, o
<1>3. TypeOK
  BY TypeInit
<1>4. Roles /\ Placed /\ Heard /\ Consent
  BY <1>2 DEF Roles, Placed, Heard, Consent, Idle, Commands
<1>5. Real
  <2>. SUFFICES ASSUME NEW h \in Hosts, aws[h] = "free" PROVE Unheard(h)
    BY DEF Real
  <2>1. h \notin DOMAIN ledger
    BY <1>1
  <2>. QED
    BY <1>2, <2>1, MacHostsAssumption DEF Unheard, Idle, NoRecord, Commands
<1>6. Files
  BY <1>2 DEF Files, Idle, NoRecord
<1>7. Named
  BY <1>1 DEF Named, BillingIsKnown, Loose, Lives, Allocated
<1>8. Schedules
  BY <1>1, <1>2 DEF Schedules, Late, Idle, NoRecord
<1>. QED
  BY <1>3, <1>4, <1>5, <1>6, <1>7, <1>8 DEF Always

LEMMA AlwaysStep == Always /\ [Next]_vars => Always'
BY TypeStep, RolesStep, PlacedStep, RealStep, HeardStep, FilesStep DEF Always

LEMMA AlwaysHolds == Spec => []Always
<1>1. Init => Always
  BY InitHolds
<1>. QED
  BY <1>1, AlwaysStep, PTL DEF Spec

\* Every variable of MacHosts ranges over its type.
THEOREM HostsAreTyped == Spec => []TypeOK
<1>1. Always => TypeOK
  BY DEF Always
<1>. QED
  BY <1>1, AlwaysHolds, PTL

\* Whatever overlaps with whatever, no command forgets a host that still bills: what it read of
\* the host before it asked AWS may be old, but AWS's no never is.  (forget_ledger_host,
\* destroy_release_stack, the cleanup of finished stacks.)
THEOREM OnlyReleasedAreForgotten == Spec => ForgetsOnlyReleased
<1>. DEFINE Forgets == \A h \in (DOMAIN ledger \union stacks) \ (DOMAIN ledger' \union stacks') : ~Allocated(h)
<1>1. ASSUME Always, [Next]_vars PROVE [Forgets]_vars
  <2>. SUFFICES ASSUME Next PROVE Forgets
    BY <1>1
  <2>. USE <1>1 DEF Always
  <2>1. ASSUME NEW p \in Commands, NoteAnswer(p) PROVE Forgets
    BY <2>1, NoteAnswerOutcome
  <2>2. ASSUME NEW p \in Commands, DropStack(p) PROVE Forgets
    BY <2>2 DEF DropStack, At, Heard, Allocated
  <2>3. ASSUME NEW p \in Commands, Forget(p) PROVE Forgets
    BY <2>3, ForgetOutcome DEF Heard, Allocated
  <2>4. CASE Teardown
    BY <2>4, TeardownOutcome DEF Finished, Truth, Allocated, TypeOK
  <2>5. CASE Schedule
    <3>1. DOMAIN ledger \subseteq DOMAIN ledger' /\ stacks \subseteq stacks'
      BY <2>5, ScheduleOutcome DEF Remembered
    <3>. QED
      BY <3>1
  <2>6. CASE Heal \/ WriteLedger
    BY <2>6 DEF Heal, WriteLedger, Remembered
  <2>7. CASE UNCHANGED <<ledger, stacks>>
    BY <2>7
  <2>8. ASSUME NEW cmd, Start(cmd) PROVE UNCHANGED <<ledger, stacks>>
    BY <2>8 DEF Start, disk
  <2>9. ASSUME NEW p \in Commands, Survey(p) \/ AskAbout(p) \/ ClearRecord(p) \/ Killed(p)
        PROVE  UNCHANGED <<ledger, stacks>>
    BY <2>9 DEF Survey, AskAbout, ClearRecord, Killed, disk
  <2>10. Check \/ CheckDone \/ TakeUp \/ TakeUpOrphan \/ Plan \/ Confirm \/ Adopt \/ Apply \/ NoCapacity
           \/ Outputs \/ WriteRecord \/ TeardownBacklog \/ BacklogDone \/ ForgetHost \/ Terminate \/ Tick
           => UNCHANGED <<ledger, stacks>>
    BY DEF Check, CheckDone, TakeUp, TakeUpOrphan, Plan, Confirm, Adopt, Apply, NoCapacity, Outputs,
           WriteRecord, TeardownBacklog, BacklogDone, ForgetHost, Terminate, Tick, disk
  <2>11. ASSUME NEW h \in Hosts, Aws(h) PROVE UNCHANGED <<ledger, stacks>>
    BY <2>11 DEF Aws, Fire, Release, GiveUp, disk
  <2>. QED
    BY <2>1, <2>2, <2>3, <2>4, <2>5, <2>6, <2>8, <2>9, <2>10, <2>11
       DEF Next, Working, Reconcile, Deploy, Destroy, Commands
<1>. QED
  BY <1>1, AlwaysHolds, PTL DEF Spec, ForgetsOnlyReleased

LEMMA ConsentHolds == ASSUME Apart PROVE Spec => [](Always /\ Consent)
<1>1. Init => Always /\ Consent
  BY InitHolds
<1>2. Always /\ Consent /\ [Next]_vars => (Always /\ Consent)'
  BY AlwaysStep, ConsentStep DEF Always
<1>. QED
  BY <1>1, <1>2, PTL DEF Spec

\* As long as no release happens under a deploy or between a status check's question and its note,
\* AWS gives out a host only to a deploy whose operator has read the price and agreed: neither the
\* block nor the ledger nor the tfstate can talk `terraform apply` into a new one.  (allocate.)
THEOREM ConsentIsNeeded == ASSUME Apart PROVE Spec => NoAllocationWithoutConsent
<1>. DEFINE Agreed == \A h \in Hosts : aws[h] = "free" /\ Allocated(h)' => o.agreed
<1>1. ASSUME Always, Consent, [Next]_vars PROVE [Agreed]_vars
  <2>. SUFFICES ASSUME Next PROVE Agreed
    BY <1>1
  <2>1. CASE Apply
    <3>1. SUFFICES ASSUME ~o.agreed PROVE UNCHANGED aws
      BY DEF Allocated
    <3>2. o.at = "apply" /\ tf \in Hosts /\ Truth(tf) = "yes"
      BY <1>1, <2>1, <3>1 DEF Apply, Deploying, Consent, Lives, Allocated, Truth
    <3>. QED
      BY <2>1, <3>2 DEF Apply
  <2>2. ASSUME NEW h \in Hosts, Release(h) PROVE Agreed
    BY <2>2 DEF Release, Allocated
  <2>3. CASE UNCHANGED aws
    BY <2>3 DEF Allocated
  <2>4. ASSUME NEW cmd, Start(cmd) PROVE UNCHANGED aws
    BY <2>4 DEF Start, cloud
  <2>5. ASSUME NEW p \in Commands, Reconcile(p) \/ Killed(p) PROVE UNCHANGED aws
    BY <2>5
       DEF Reconcile, Survey, AskAbout, NoteAnswer, DropStack, Forget, ClearRecord, Killed, cloud
  <2>6. Check \/ CheckDone \/ TakeUp \/ TakeUpOrphan \/ Heal \/ Plan \/ Confirm \/ Adopt \/ NoCapacity
          \/ Outputs \/ WriteRecord \/ WriteLedger \/ Destroy \/ Tick => UNCHANGED aws
    BY DEF Check, CheckDone, TakeUp, TakeUpOrphan, Heal, Plan, Confirm, Adopt, NoCapacity, Outputs,
           WriteRecord, WriteLedger, Destroy, TeardownBacklog, Teardown, Schedule, BacklogDone,
           ForgetHost, Terminate, Tick, cloud
  <2>7. ASSUME NEW h \in Hosts, Fire(h) \/ GiveUp(h) PROVE UNCHANGED aws
    BY <2>7 DEF Fire, GiveUp
  <2>. QED
    BY <2>1, <2>2, <2>3, <2>4, <2>5, <2>6, <2>7 DEF Next, Working, Deploy, Aws, Commands
<1>. QED
  BY <1>1, ConsentHolds, PTL DEF Spec, NoAllocationWithoutConsent

\* As long as, besides, a deploy that stopped short is deployed again before it is destroyed, every
\* host that bills is in the ledger or in the tfstate.  (What allocate writes down, and what
\* reconcile_released_hosts, forget_host and the teardown forget.)
THEOREM BillingStaysKnown == ASSUME Apart, Heeds PROVE Spec => []BillingIsKnown
<1>1. Init => Always /\ Consent /\ Named
  BY InitHolds
<1>2. Always /\ Consent /\ Named /\ [Next]_vars => (Always /\ Consent /\ Named)'
  BY AlwaysStep, ConsentStep, NamedStep DEF Always
<1>3. Named => BillingIsKnown
  BY DEF Named
<1>. QED
  BY <1>1, <1>2, <1>3, PTL DEF Spec

\* When an operator confirms and AWS allocates within the buffer that is added to the minimum, no
\* schedule asks for a release that AWS would refuse, whatever else overlaps.  (release_time,
\* through the block, the ledger and a teardown.)
THEOREM SchedulesAreLateEnough == ASSUME MaxWait <= Buffer PROVE Spec => []ReleaseAfterMinimum
<1>1. Init => Always /\ Schedules
  BY InitHolds
<1>2. Always /\ Schedules /\ [Next]_vars => (Always /\ Schedules)'
  BY AlwaysStep, SchedulesStep DEF Always
<1>3. Schedules => ReleaseAfterMinimum
  BY DEF Schedules, Late, Lives, ReleaseAfterMinimum
<1>. QED
  BY <1>1, <1>2, <1>3, PTL DEF Spec

\* While nothing fails, a destroy turns to the Mac only when each host that still bills has its
\* schedule, or a release under way: whatever an earlier deploy, teardown or give-up left behind, the
\* loop of the teardown takes up what is missing.  The exception is the host whose block a status check,
\* slower than a deploy, has cleared on the news of another.  (schedule_release, pending_releases.)
THEOREM TeardownLeavesNone ==
    ASSUME Apart, MaxWait <= Buffer PROVE Spec => TeardownSchedules
<1>. DEFINE IInv == Always /\ Consent /\ Schedules /\ Teardowns
            Left == \A h \in Hosts : Allocated(h) => sched[h] # Never \/ h \in releasing \/ h \in dropped
<1>1. Init => IInv
  <2>. SUFFICES ASSUME Init PROVE Teardowns
    BY InitHolds
  <2>1. o = Idle /\ mac = NoHost /\ stacks = {} /\ releasing = {}
    BY DEF Init, o
  <2>2. \A h \in Hosts : Allocated(h) => h \in DOMAIN ledger
    BY DEF Init, Allocated
  <2>. QED
    BY <2>1, <2>2, MacHostsAssumption DEF Teardowns, Firing, Booked, Driven, Covered, Idle, Lives
<1>2. IInv /\ [Next]_vars => IInv'
  <2>. SUFFICES ASSUME IInv, [Next]_vars PROVE IInv'
    OBVIOUS
  <2>1. Always'
    BY AlwaysStep
  <2>2. Consent' /\ Schedules'
    BY ConsentStep, SchedulesStep DEF Always
  <2>3. Teardowns'
    BY <2>1, TeardownsStep DEF Always
  <2>. QED
    BY <2>1, <2>2, <2>3
<1>3. IInv => [ForgetHost /\ faults = 0 => Left]_vars
  <2>. SUFFICES ASSUME Teardowns, ForgetHost, faults = 0 PROVE Left
    OBVIOUS
  <2>1. o.at = "schedule" /\ o.todo = {}
    BY DEF ForgetHost, Destroying
  <2>. QED
    BY <2>1 DEF Teardowns, Covered, Scheduled
<1>. QED
  BY <1>1, <1>2, <1>3, PTL DEF Spec, TeardownSchedules

=============================================================================
