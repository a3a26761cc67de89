---------------------------- MODULE CanaryProofs ----------------------------
(***************************************************************************)
(* Type correctness of Canary, and that no interleaving of its commands,   *)
(* with any of the faults, ever takes the last stable replica away.        *)
(*                                                                         *)
(* Then what holds of commands that run one at a time, with the faults     *)
(* each theorem leaves them: the record and the cluster keep together,     *)
(* what is borrowed is given back, no scale call leaves the range between  *)
(* where it starts and where it goes, nothing that did not serve is        *)
(* promoted, and the record moves as CanaryRollout lets it.                *)
(***************************************************************************)
EXTENDS CanaryImplements, CanaryPlanProofs

Inv == TypeOK /\ StableServes /\ CountsInHand

USE CanaryAssumption

(* What is loaded from the file is always a state per component. *)
LEMMA LoadTypes ==
    ASSUME TypeOK, NEW c \in Components
    PROVE  /\ NoRollout \in States
           /\ NoStates \in [Components -> States]
           /\ Readable \in [Components -> States]
           /\ LoadState(c) \in [Components -> States]
<1>1. NoRollout \in States
  BY DEF NoRollout, States, Unread
<1>2. NoStates \in [Components -> States]
  BY <1>1 DEF NoStates
<1>3. Readable \in [Components -> States]
  BY <1>2 DEF Readable, TypeOK, FileOK
<1> QED
  BY <1>1, <1>2, <1>3 DEF LoadState

LEMMA IdleType == Idle \in Calls
<1>1. NoRollout \in States
  BY DEF NoRollout, States, Unread
<1>2. NoStates \in [Components -> States]
  BY <1>1 DEF NoStates
<1>3. NoPlan \in Plans
  BY DEF NoPlan, Plans
<1> QED
  BY <1>1, <1>2, <1>3 DEF Idle, Calls, Phases

(* The resting count a call carries is read through _first_replica_count.  *)
LEMMA RestType ==
    ASSUME NEW s \in States, NEW fallback \in Nat
    PROVE  /\ RestingFromState(s, fallback) \in Nat
           /\ RestingFromState(s, fallback) >= 1
<1>1. s.resting \in Int /\ s.total \in Int /\ fallback \in Int
  BY DEF States
<1> QED
  BY <1>1, RestoresAtLeastOne DEF RestingFromState

(* What a call that starts or returns leaves behind. *)
LEMMA CallsKept ==
    ASSUME Inv, NEW a \in Callers, NEW r \in Calls,
           r.on = "none" <=> r.at = "idle",
           r.at \in HoldsVersion => r.version \in VersionNames,
           r.cmd \in {"promote", "rollback"} => r.rest >= 1,
           r.at = "cut" => r.cmd \in {"promote", "rollback", "reset"},
           r.at = "restore" => r.cmd \in {"promote", "rollback"},
           r.at \in ScalesToPlan \union {"undo"} => r.plan.stable >= 1 /\ r.from >= 1,
           call' = [call EXCEPT ![a] = r]
    PROVE  /\ CallsOK'
           /\ CountsInHand'
<1>1. call \in [Callers -> Calls]
  BY DEF Inv, TypeOK, CallsOK
<1>2. call' \in [Callers -> Calls]
  BY <1>1
<1>3. \A b \in Callers : call'[b] = IF b = a THEN r ELSE call[b]
  BY <1>1
<1>4. \A b \in Callers :
         /\ (call'[b].on = "none") <=> (call'[b].at = "idle")
         /\ call'[b].at \in HoldsVersion => call'[b].version \in VersionNames
  BY <1>3 DEF Inv, TypeOK, CallsOK
<1>5. CountsInHand'
  BY <1>3 DEF Inv, CountsInHand
<1> QED
  BY <1>2, <1>4, <1>5 DEF CallsOK

(* A call that returns. *)
LEMMA ReturnKept ==
    ASSUME Inv, NEW a \in Callers, Return(a)
    PROVE  /\ CallsOK'
           /\ CountsInHand'
<1>1. Idle \in Calls
  BY IdleType
<1>2. Idle.on = "none" /\ Idle.at = "idle" /\ Idle.cmd = "none"
  BY DEF Idle
<1>3. Idle.at \notin ScalesToPlan \union {"undo"} /\ Idle.at \notin HoldsVersion
  BY <1>2 DEF ScalesToPlan, HoldsVersion
<1>4. call' = [call EXCEPT ![a] = Idle]
  BY DEF Return
<1> QED
  BY <1>1, <1>2, <1>3, <1>4, CallsKept

(* A call that goes to its next phase. *)
LEMMA GotoKept ==
    ASSUME Inv, NEW a \in Callers, NEW pc \in Phases \ {"idle"}, Goto(a, pc),
           call[a].at # "idle",
           pc \in HoldsVersion => call[a].version \in VersionNames,
           pc = "cut" => call[a].cmd \in {"promote", "rollback", "reset"},
           pc = "restore" => call[a].cmd \in {"promote", "rollback"},
           pc \in ScalesToPlan \union {"undo"} => call[a].at \in ScalesToPlan \union {"undo"}
    PROVE  /\ CallsOK'
           /\ CountsInHand'
<1> DEFINE r == [call[a] EXCEPT !.at = pc]
<1>1. call[a] \in Calls /\ (call[a].on = "none" <=> call[a].at = "idle")
  BY DEF Inv, TypeOK, CallsOK
<1>2. r \in Calls
  BY <1>1 DEF Calls
<1>3. /\ r.at = pc /\ r.on = call[a].on /\ r.cmd = call[a].cmd
      /\ r.rest = call[a].rest /\ r.plan = call[a].plan /\ r.from = call[a].from
      /\ r.version = call[a].version
  BY <1>1 DEF Calls
<1>4. call' = [call EXCEPT ![a] = r]
  BY DEF Goto
<1>5. /\ r.on = "none" <=> r.at = "idle"
      /\ r.at \in HoldsVersion => r.version \in VersionNames
      /\ r.cmd \in {"promote", "rollback"} => r.rest >= 1
      /\ r.at = "cut" => r.cmd \in {"promote", "rollback", "reset"}
      /\ r.at = "restore" => r.cmd \in {"promote", "rollback"}
      /\ r.at \in ScalesToPlan \union {"undo"} => r.plan.stable >= 1 /\ r.from >= 1
  BY <1>1, <1>3 DEF Inv, CountsInHand
<1> HIDE DEF r
<1> QED
  BY <1>2, <1>4, <1>5, CallsKept

(* A reset that goes on to record itself. *)
LEMMA RecordKept ==
    ASSUME Inv, NEW a \in Callers, ResetRecords(a), call[a].at # "idle"
    PROVE  CallsOK' /\ CountsInHand'
<1> DEFINE r == [call[a] EXCEPT !.next = State(a), !.at = "merge"]
<1>1. call[a] \in Calls /\ (call[a].on = "none" <=> call[a].at = "idle")
  BY DEF Inv, TypeOK, CallsOK
<1>2. State(a) \in States
  BY <1>1 DEF State, Calls
<1>3. r \in Calls
  BY <1>1, <1>2 DEF Calls, Phases
<1>4. r.at = "merge" /\ r.on = call[a].on /\ r.cmd = call[a].cmd /\ r.rest = call[a].rest
  BY <1>1 DEF Calls
<1>5. call' = [call EXCEPT ![a] = r]
  BY DEF ResetRecords
<1>6. call[a].cmd \in {"promote", "rollback"} => call[a].rest >= 1
  BY DEF Inv, CountsInHand
<1> HIDE DEF r
<1> QED
  BY <1>1, <1>3, <1>4, <1>5, <1>6, CallsKept DEF ScalesToPlan, HoldsVersion

(* A call that loads the state. *)
LEMMA BeginKept ==
    ASSUME Inv, NEW a \in Callers, NEW c \in Components, NEW cmd \in CommandNames,
           NEW pc \in Phases \ {"idle"}, NEW rest \in Nat, Begin(a, cmd, c, pc, rest),
           cmd \in {"promote", "rollback"} => rest >= 1,
           pc = "cut" => cmd \in {"promote", "rollback", "reset"},
           pc # "restore", pc \notin HoldsVersion, pc \notin ScalesToPlan \union {"undo"}
    PROVE  Inv'
<1> DEFINE r == [Idle EXCEPT !.cmd = cmd, !.on = c, !.at = pc,
                             !.loaded = LoadState(c), !.rest = rest]
<1>1. Idle \in Calls /\ LoadState(c) \in [Components -> States]
  BY IdleType, LoadTypes DEF Inv
<1>2. r \in Calls
  BY <1>1 DEF Calls
<1>3. r.cmd = cmd /\ r.on = c /\ r.at = pc /\ r.rest = rest
  BY <1>1 DEF Calls
<1>4. call' = [call EXCEPT ![a] = r]
  BY DEF Begin
<1>5. r.on # "none"
  BY <1>3
<1> HIDE DEF r
<1>6. CallsOK' /\ CountsInHand'
  BY <1>2, <1>3, <1>4, <1>5, CallsKept
<1> QED
  BY <1>6 DEF Begin, Inv, TypeOK, ClusterOK, FileOK, SeenOK, StableServes, cluster, file, seen

(* The result of a kubectl call costs at most one fault. *)
LEMMA FaultKept ==
    ASSUME TypeOK
    PROVE  /\ \A kind : Fault(kind) => faults' \in Nat /\ faults' <= MaxFaults
           /\ \A result : Answer(result) => faults' \in Nat /\ faults' <= MaxFaults
           /\ UNCHANGED faults => faults' \in Nat /\ faults' <= MaxFaults
BY DEF TypeOK, Fault, Answer

(* Scaling the canary does not touch stable. *)
LEMMA ScaleCanaryKept ==
    ASSUME Inv, NEW c \in Components, NEW n \in Nat, NEW result, ScaleCanary(c, n, result),
           CallsOK', CountsInHand'
    PROVE  Inv'
<1>1. faults' \in Nat /\ faults' <= MaxFaults
  BY FaultKept DEF ScaleCanary, Inv
<1>2. hits' \in [Components -> BOOLEAN]
  BY DEF ScaleCanary, HitsLeft, Inv, TypeOK, ClusterOK
<1>3. canary' \in [Components -> Nat]
  BY DEF ScaleCanary, Inv, TypeOK, ClusterOK
<1>4. ClusterOK'
  BY <1>2, <1>3 DEF ScaleCanary, Inv, TypeOK, ClusterOK
<1> QED
  BY <1>1, <1>4 DEF ScaleCanary, Inv, TypeOK, FileOK, SeenOK, StableServes, file, seen

(* Scaling stable to one replica or more keeps it serving. *)
LEMMA ScaleStableKept ==
    ASSUME Inv, NEW c \in Components, NEW n \in Nat, n >= 1, NEW result,
           ScaleStable(c, n, result), CallsOK', CountsInHand'
    PROVE  Inv'
<1>1. faults' \in Nat /\ faults' <= MaxFaults
  BY FaultKept DEF ScaleStable, Inv
<1>2. stable' \in [Components -> Nat] /\ StableServes'
  BY DEF ScaleStable, Inv, TypeOK, ClusterOK, StableServes
<1>3. ClusterOK'
  BY <1>2 DEF ScaleStable, Inv, TypeOK, ClusterOK
<1> QED
  BY <1>1, <1>2, <1>3 DEF ScaleStable, Inv, TypeOK, FileOK, SeenOK, file, seen

(* Setting an image scales nothing. *)
LEMMA SetImageKept ==
    ASSUME Inv, NEW c \in Components, NEW track \in {"stable", "canary"}, NEW v \in VersionNames,
           NEW result, SetImage(c, track, v, result), CallsOK', CountsInHand'
    PROVE  Inv'
<1>1. faults' \in Nat /\ faults' <= MaxFaults
  BY FaultKept DEF SetImage, Inv
<1>2. image' \in [Components -> [stable : VersionNames, canary : VersionNames]]
  BY DEF SetImage, Inv, TypeOK, ClusterOK
<1>3. hits' \in [Components -> BOOLEAN]
  BY DEF SetImage, Inv, TypeOK, ClusterOK
<1>4. ClusterOK'
  BY <1>2, <1>3 DEF SetImage, Inv, TypeOK, ClusterOK
<1> QED
  BY <1>1, <1>4 DEF SetImage, Inv, TypeOK, FileOK, SeenOK, StableServes, file, seen

(* A step of a call that changes neither the cluster nor the file. *)
LEMMA CallStepKept ==
    ASSUME Inv, UNCHANGED <<cluster, file, seen>>, faults' \in Nat, faults' <= MaxFaults,
           CallsOK', CountsInHand'
    PROVE  Inv'
BY DEF Inv, TypeOK, ClusterOK, FileOK, SeenOK, StableServes, cluster, file, seen

-----------------------------------------------------------------------------
(* The commands, one at a time *)

(* Loading the state. *)
LEMMA LoadsKept ==
    ASSUME Inv, NEW a \in Callers, NEW c \in Components, Loads(a, c)
    PROVE  Inv'
<1> USE DEF Phases, ScalesToPlan, HoldsVersion, CommandNames
<1>0. LoadState(c) \in [Components -> States]
  BY LoadTypes DEF Inv
<1>1. /\ RestingFromState(LoadState(c)[c], Total) \in Nat
      /\ RestingFromState(LoadState(c)[c], Total) >= 1
  BY <1>0, RestType
<1>2. CASE StartLoads(a, c)
  BY <1>2, BeginKept DEF StartLoads
<1>3. CASE PromoteLoads(a, c)
  BY <1>1, <1>3, BeginKept DEF PromoteLoads
<1>4. CASE RollbackLoads(a, c)
  BY <1>1, <1>4, BeginKept DEF RollbackLoads
<1>5. CASE ResetLoads(a, c)
  BY <1>5, BeginKept DEF ResetLoads
<1>6. CASE EvaluateLoads(a, c)
  BY <1>6, BeginKept DEF EvaluateLoads
<1>7. ASSUME NEW v \in Versions, DeployBuilds(a, c, v)
      PROVE  Inv'
  <2> DEFINE r == [Idle EXCEPT !.cmd = "deploy", !.on = c, !.at = "setCanaryImage", !.version = v]
  <2>1. r \in Calls
    BY IdleType DEF Calls, VersionNames
  <2>2. r.cmd = "deploy" /\ r.on = c /\ r.at = "setCanaryImage" /\ r.version = v
    BY IdleType DEF Calls
  <2>3. call' = [call EXCEPT ![a] = r]
    BY <1>7 DEF DeployBuilds
  <2>4. r.on # "none" /\ v \in VersionNames
    BY <2>2 DEF VersionNames
  <2> HIDE DEF r
  <2>5. CallsOK' /\ CountsInHand'
    BY <2>1, <2>2, <2>3, <2>4, CallsKept
  <2> QED
    BY <1>7, <2>5, FaultKept, CallStepKept DEF DeployBuilds, Inv
<1> QED
  BY <1>2, <1>3, <1>4, <1>5, <1>6, <1>7 DEF Loads

(* The kubectl scales. *)
LEMMA ScalesKept ==
    ASSUME Inv, NEW a \in Callers, Scales(a)
    PROVE  Inv'
<1> USE DEF Phases, ScalesToPlan, HoldsVersion
<1> PICK result \in Results :
        \/ StableUp(a, result) \/ CanaryUp(a, result) \/ Undo(a, result)
        \/ CanaryFirst(a, result) \/ StableDown(a, result)
        \/ Cut(a, result) \/ Restore(a, result) \/ ResetDeflates(a, result)
  BY DEF Scales
<1>1. call[a] \in Calls /\ (call[a].on = "none" <=> call[a].at = "idle")
  BY DEF Inv, TypeOK, CallsOK
<1>2. call[a].at # "idle" => call[a].on \in Components
  BY <1>1 DEF Calls
<1>3. /\ call[a].plan.stable \in Nat /\ call[a].plan.canary \in Nat
      /\ call[a].rest \in Nat /\ call[a].from \in Nat
  BY <1>1 DEF Calls, Plans
<1>4. CASE StableUp(a, result)
  <2>1. call[a].plan.stable >= 1 /\ call[a].at = "stableUp"
    BY <1>4 DEF StableUp, At, Inv, CountsInHand
  <2>2. CallsOK' /\ CountsInHand'
    BY <1>4, <2>1, GotoKept, ReturnKept DEF StableUp
  <2> QED
    BY <1>2, <1>3, <1>4, <2>1, <2>2, ScaleStableKept DEF StableUp
<1>5. CASE CanaryUp(a, result)
  <2>1. call[a].at = "canaryUp"
    BY <1>5 DEF CanaryUp, At
  <2>2. CallsOK' /\ CountsInHand'
    BY <1>5, <2>1, GotoKept DEF CanaryUp
  <2> QED
    BY <1>2, <1>3, <1>5, <2>1, <2>2, ScaleCanaryKept DEF CanaryUp
<1>6. CASE Undo(a, result)
  <2>1. call[a].from >= 1 /\ call[a].at = "undo"
    BY <1>6 DEF Undo, At, Inv, CountsInHand
  <2>2. CallsOK' /\ CountsInHand'
    BY <1>6, ReturnKept DEF Undo
  <2> QED
    BY <1>2, <1>3, <1>6, <2>1, <2>2, ScaleStableKept DEF Undo
<1>7. CASE CanaryFirst(a, result)
  <2>1. call[a].at = "canaryFirst"
    BY <1>7 DEF CanaryFirst, At
  <2>2. CallsOK' /\ CountsInHand'
    BY <1>7, <2>1, GotoKept, ReturnKept DEF CanaryFirst
  <2> QED
    BY <1>2, <1>3, <1>7, <2>1, <2>2, ScaleCanaryKept DEF CanaryFirst
<1>8. CASE StableDown(a, result)
  <2>1. call[a].plan.stable >= 1 /\ call[a].at = "stableDown"
    BY <1>8 DEF StableDown, At, Inv, CountsInHand
  <2>2. CallsOK' /\ CountsInHand'
    BY <1>8, <2>1, GotoKept, ReturnKept DEF StableDown
  <2> QED
    BY <1>2, <1>3, <1>8, <2>1, <2>2, ScaleStableKept DEF StableDown
<1>9. CASE Cut(a, result)
  <2>1. call[a].at = "cut" /\ call[a].cmd \in {"promote", "rollback", "reset"}
    BY <1>9 DEF Cut, At, Inv, CountsInHand
  <2>2. CallsOK' /\ CountsInHand'
    BY <1>9, <2>1, GotoKept, ReturnKept DEF Cut, Cmd
  <2> QED
    BY <1>2, <1>9, <2>1, <2>2, ScaleCanaryKept DEF Cut
<1>10. CASE Restore(a, result)
  <2>1. call[a].at = "restore" /\ call[a].cmd \in {"promote", "rollback"} /\ call[a].rest >= 1
    BY <1>10 DEF Restore, At, Inv, CountsInHand
  <2> DEFINE r == [call[a] EXCEPT !.next = Ended(State(a), call[a].rest), !.at = "merge"]
  <2>2. State(a) \in States
    BY <1>1, <1>2, <2>1 DEF State, Calls
  <2>3. Ended(State(a), call[a].rest) \in States
    BY <1>3, <2>2 DEF Ended, States
  <2>4. r \in Calls
    BY <1>1, <2>3 DEF Calls
  <2>5. r.at = "merge" /\ r.on = call[a].on /\ r.cmd = call[a].cmd /\ r.rest = call[a].rest
    BY <1>1 DEF Calls
  <2>6. call' = [call EXCEPT ![a] = r]
    BY <1>10 DEF Restore
  <2> HIDE DEF r
  <2>7. CallsOK' /\ CountsInHand'
    BY <1>1, <2>1, <2>4, <2>5, <2>6, CallsKept
  <2> QED
    BY <1>2, <1>3, <1>10, <2>1, <2>7, ScaleStableKept DEF Restore
<1>11. CASE ResetDeflates(a, result)
  <2>1. call[a].at = "deflate"
    BY <1>11 DEF ResetDeflates, At
  <2>2. CallsOK' /\ CountsInHand'
    BY <1>11, <2>1, RecordKept DEF ResetDeflates
  <2>3. DefaultResting \in Nat /\ DefaultResting >= 1
    BY DEF DefaultResting
  <2>4. ScaleStable(call[a].on, DefaultResting, result) /\ call[a].on \in Components
    BY <1>2, <1>11, <2>1 DEF ResetDeflates
  <2> QED
    BY <2>2, <2>3, <2>4, ScaleStableKept
<1> QED
  BY <1>4, <1>5, <1>6, <1>7, <1>8, <1>9, <1>10, <1>11

(* The image changes. *)
LEMMA ImagesKept ==
    ASSUME Inv, NEW a \in Callers, Images(a)
    PROVE  Inv'
<1> USE DEF Phases, ScalesToPlan, HoldsVersion
<1>1. call[a] \in Calls /\ (call[a].on = "none" <=> call[a].at = "idle")
  BY DEF Inv, TypeOK, CallsOK
<1>2. call[a].at # "idle" => call[a].on \in Components
  BY <1>1 DEF Calls
<1>3. call[a].at \in HoldsVersion => call[a].version \in VersionNames
  BY DEF Inv, TypeOK, CallsOK
<1>4. ASSUME NEW result \in Results, FinishSetsImage(a, result)
      PROVE  Inv'
  <2>1. call[a].at = "setImage"
    BY <1>4 DEF FinishSetsImage, At
  <2>2. CallsOK' /\ CountsInHand'
    BY <1>4, <2>1, GotoKept, ReturnKept DEF FinishSetsImage
  <2> QED
    BY <1>2, <1>3, <1>4, <2>1, <2>2, SetImageKept DEF FinishSetsImage
<1>5. ASSUME NEW result \in Results, DeploySetsImage(a, result)
      PROVE  Inv'
  <2>1. call[a].at = "setCanaryImage"
    BY <1>5 DEF DeploySetsImage, At
  <2>2. CallsOK' /\ CountsInHand'
    BY <1>5, <2>1, GotoKept, ReturnKept DEF DeploySetsImage
  <2> QED
    BY <1>2, <1>3, <1>5, <2>1, <2>2, SetImageKept DEF DeploySetsImage
<1> QED
  BY <1>4, <1>5 DEF Images

(* Every plan a call makes keeps a replica on both tracks. *)
LEMMA PlanType ==
    ASSUME NEW rest \in Nat, NEW weight \in Int
    PROVE  LET plan == PlanRollout(rest, weight, MaxPool(rest, Total)) IN
           /\ plan \in Plans
           /\ plan.stable >= 1
           /\ Active(plan, rest) \in States
<1> DEFINE plan == PlanRollout(rest, weight, MaxPool(rest, Total))
<1>1. MaxPool(rest, Total) \in Int /\ rest \in Int
  BY DEF MaxPool, AtLeast, NoCeiling
<1>2. /\ plan.canary \in Nat /\ plan.stable \in Nat /\ plan.stable >= 1 /\ plan.weight \in Nat
  BY <1>1, PlanIsSound, Zenon
<1>3. plan = [canary |-> plan.canary, stable |-> plan.stable, weight |-> plan.weight]
  BY DEF PlanRollout
<1> HIDE DEF plan
<1>4. plan \in Plans
  BY <1>2, <1>3 DEF Plans
<1>5. Active(plan, rest) \in States
  BY <1>2 DEF Active, States, Pool
<1> QED
  BY <1>2, <1>4, <1>5 DEF plan

(* A call that has made its plan. *)
LEMMA PlanKept ==
    ASSUME Inv, NEW a \in Callers, NEW rest \in Nat, NEW weight \in Int,
           NEW from \in Nat, from >= 1, rest >= 1, call[a].at = "plan",
           call' = [call EXCEPT ![a] = [call[a] EXCEPT
                      !.rest = rest, !.from = from,
                      !.plan = PlanRollout(rest, weight, MaxPool(rest, Total)),
                      !.next = Active(PlanRollout(rest, weight, MaxPool(rest, Total)), rest),
                      !.at = FirstScale(PlanRollout(rest, weight, MaxPool(rest, Total)), from)]]
    PROVE  CallsOK' /\ CountsInHand'
<1> DEFINE plan == PlanRollout(rest, weight, MaxPool(rest, Total))
           r == [call[a] EXCEPT !.rest = rest, !.from = from, !.plan = plan,
                                !.next = Active(plan, rest), !.at = FirstScale(plan, from)]
<1>1. plan \in Plans /\ plan.stable >= 1 /\ Active(plan, rest) \in States
  BY PlanType
<1>2. call' = [call EXCEPT ![a] = r]
  OBVIOUS
<1> HIDE DEF plan
<1>3. call[a] \in Calls /\ (call[a].on = "none" <=> call[a].at = "idle")
  BY DEF Inv, TypeOK, CallsOK
<1>4. FirstScale(plan, from) \in {"stableUp", "canaryFirst"}
  BY DEF FirstScale
<1>5. r \in Calls
  BY <1>1, <1>3, <1>4 DEF Calls, Phases, ScalesToPlan
<1>6. /\ r.at = FirstScale(plan, from) /\ r.on = call[a].on /\ r.cmd = call[a].cmd
      /\ r.rest = rest /\ r.plan = plan /\ r.from = from
  BY <1>3 DEF Calls
<1> HIDE DEF r
<1>7. r.on # "none" /\ r.at \notin {"idle", "cut", "restore"} /\ r.at \notin HoldsVersion
  BY <1>3, <1>4, <1>6 DEF HoldsVersion
<1> QED
  BY <1>1, <1>2, <1>5, <1>6, <1>7, CallsKept

(* The reads and the decisions of the commands. *)
LEMMA ReadsKept ==
    ASSUME Inv, NEW a \in Callers, Reads(a)
    PROVE  Inv'
<1> USE DEF Phases, ScalesToPlan, HoldsVersion
<1>1. call[a] \in Calls /\ (call[a].on = "none" <=> call[a].at = "idle")
  BY DEF Inv, TypeOK, CallsOK
<1>2. call[a].at # "idle" => call[a].on \in Components
  BY <1>1 DEF Calls
<1>3. call[a].at \in HoldsVersion => call[a].version \in VersionNames
  BY DEF Inv, TypeOK, CallsOK
<1>4. /\ faults \in Nat /\ faults <= MaxFaults
      /\ \A kind : Fault(kind) => faults' \in Nat /\ faults' <= MaxFaults
  BY FaultKept DEF Inv, TypeOK
<1>5. call[a].at # "idle" =>
        \A live \in Live(call[a].on) :
           /\ live \in Nat
           /\ \A actual : ReadLive(actual, live) => faults' \in Nat /\ faults' <= MaxFaults
  <2> SUFFICES ASSUME call[a].at # "idle", NEW live \in Live(call[a].on)
               PROVE  /\ live \in Nat
                      /\ \A actual : ReadLive(actual, live) => faults' \in Nat /\ faults' <= MaxFaults
    OBVIOUS
  <2>1. stable[call[a].on] \in Nat /\ canary[call[a].on] \in Nat /\ Unread \in Nat
    BY <1>2 DEF Unread, Inv, TypeOK, ClusterOK
  <2>2. live \in Nat
    BY <2>1 DEF Live
  <2> QED
    BY <1>4, <2>2 DEF ReadLive
<1>6. call[a].at # "idle" => State(a) \in States
  BY <1>1, <1>2 DEF State, Calls
<1>7. ASSUME NEW w \in Weights, NEW live \in Live(call[a].on), StartPlans(a, w, live)
      PROVE  Inv'
  <2>1. call[a].at = "plan"
    BY <1>7 DEF StartPlans, At
  <2>2. live \in Nat /\ faults' \in Nat /\ faults' <= MaxFaults
    BY <1>5, <1>7, <2>1 DEF StartPlans
  <2>3. RestingFromLive(live) \in Nat /\ RestingFromLive(live) >= 1
    BY <2>2, RestoresAtLeastOne
  <2>4. Requested(w) \in Int
    BY DEF Requested, AtLeast, AtMost
  <2>5. CallsOK' /\ CountsInHand'
    BY <1>7, <2>1, <2>3, <2>4, PlanKept DEF StartPlans
  <2> QED
    BY <1>7, <2>2, <2>5, CallStepKept DEF StartPlans
<1>8. ASSUME NEW live \in Live(call[a].on), PromotePlans(a, live)
      PROVE  Inv'
  <2> DEFINE rest == call[a].rest
             from == FirstCount(live, State(a).stable, rest)
  <2>1. call[a].at = "plan" /\ call[a].cmd = "promote"
    BY <1>8 DEF PromotePlans, At, Cmd
  <2>2. live \in Nat /\ faults' \in Nat /\ faults' <= MaxFaults
    BY <1>5, <1>8, <2>1 DEF PromotePlans
  <2>3. rest \in Nat /\ rest >= 1
    BY <1>1, <2>1 DEF Calls, Inv, CountsInHand
  <2>4. State(a).stable \in Int /\ NextWeight(State(a), Step) \in Int
    BY <1>6, <2>1 DEF States, NextWeight, AtMost, AtLeast
  <2>5. from \in Nat /\ from >= 1
    <3>1. live \in Int /\ rest \in Int
      BY <2>2, <2>3
    <3> QED
      BY <2>4, <3>1, RestoresAtLeastOne, Zenon
  <2>6. CallsOK' /\ CountsInHand'
    <3> DEFINE plan == PlanRollout(rest, NextWeight(State(a), Step), MaxPool(rest, Total))
    <3>1. call' = [call EXCEPT ![a] = [call[a] EXCEPT
             !.from = from, !.plan = plan, !.next = Active(plan, rest),
             !.at = FirstScale(plan, from)]]
      BY <1>8 DEF PromotePlans
    <3> HIDE DEF plan, from
    <3>2. [call[a] EXCEPT !.from = from, !.plan = plan, !.next = Active(plan, rest),
                          !.at = FirstScale(plan, from)]
          = [call[a] EXCEPT !.rest = rest, !.from = from, !.plan = plan,
                            !.next = Active(plan, rest), !.at = FirstScale(plan, from)]
      BY <1>1 DEF Calls
    <3> QED
      BY <2>1, <2>3, <2>4, <2>5, <3>1, <3>2, PlanKept DEF plan
  <2> QED
    BY <1>8, <2>2, <2>6, CallStepKept DEF PromotePlans
<1>9. ASSUME NEW live \in Live(call[a].on), ResetLooks(a, live)
      PROVE  Inv'
  <2>1. call[a].at = "look" /\ call[a].cmd = "reset"
    BY <1>9 DEF ResetLooks, At, Cmd
  <2>2. faults' \in Nat /\ faults' <= MaxFaults
    BY <1>5, <1>9, <2>1 DEF ResetLooks
  <2>3. CallsOK' /\ CountsInHand'
    BY <1>9, <2>1, GotoKept, ReturnKept DEF ResetLooks
  <2> QED
    BY <1>9, <2>2, <2>3, CallStepKept DEF ResetLooks
<1>10. ASSUME NEW live \in Live(call[a].on), ResetLooksAtStable(a, live)
       PROVE  Inv'
  <2>1. call[a].at = "lookStable"
    BY <1>10 DEF ResetLooksAtStable, At
  <2>2. faults' \in Nat /\ faults' <= MaxFaults
    BY <1>5, <1>10, <2>1 DEF ResetLooksAtStable
  <2>3. CallsOK' /\ CountsInHand'
    BY <1>10, <2>1, GotoKept, RecordKept DEF ResetLooksAtStable
  <2> QED
    BY <1>10, <2>2, <2>3, CallStepKept DEF ResetLooksAtStable
<1>11. CASE PromoteFindsHealthy(a)
  <2> DEFINE v == image[call[a].on].canary
             r == [call[a] EXCEPT !.version = v, !.at = "traffic"]
  <2>1. call[a].at = "health" /\ call[a].cmd = "promote"
    BY <1>11 DEF PromoteFindsHealthy, At, Cmd
  <2>2. v \in VersionNames
    BY <1>2, <2>1 DEF Inv, TypeOK, ClusterOK
  <2> HIDE DEF v
  <2>3. r \in Calls
    BY <1>1, <2>2 DEF Calls
  <2>4. /\ r.at = "traffic" /\ r.version = v /\ r.on = call[a].on /\ r.cmd = call[a].cmd
        /\ r.rest = call[a].rest
    BY <1>1 DEF Calls
  <2>5. call' = [call EXCEPT ![a] = r]
    BY <1>11 DEF PromoteFindsHealthy, v
  <2>6. r.on # "none" /\ r.rest >= 1
    BY <1>1, <2>1, <2>4 DEF Inv, CountsInHand
  <2> HIDE DEF r
  <2>7. CallsOK' /\ CountsInHand'
    BY <2>2, <2>3, <2>4, <2>5, <2>6, CallsKept
  <2> QED
    BY <1>4, <1>11, <2>7, CallStepKept DEF PromoteFindsHealthy
<1>12. CASE PromoteFindsUnhealthy(a)
  <2>1. CallsOK' /\ CountsInHand'
    BY <1>12, ReturnKept DEF PromoteFindsUnhealthy
  <2> QED
    BY <1>4, <1>12, <2>1, CallStepKept DEF PromoteFindsUnhealthy
<1>13. ASSUME NEW force \in Forces, PromotePassesGate(a, force)
       PROVE  Inv'
  <2>1. call[a].at = "traffic"
    BY <1>13 DEF PromotePassesGate, At
  <2>2. faults' \in Nat /\ faults' <= MaxFaults
    BY <1>4, <1>13 DEF PromotePassesGate, GateOpen
  <2>3. CallsOK' /\ CountsInHand'
    <3>1. CASE NextWeight(State(a), Step) >= 100
      BY <1>3, <1>13, <2>1, <3>1, GotoKept DEF PromotePassesGate
    <3>2. CASE ~(NextWeight(State(a), Step) >= 100)
      BY <1>13, <2>1, <3>2, GotoKept DEF PromotePassesGate
    <3> QED
      BY <3>1, <3>2
  <2> QED
    BY <1>13, <2>2, <2>3, CallStepKept DEF PromotePassesGate
<1>14. CASE PromoteRefused(a)
  <2>1. CallsOK' /\ CountsInHand'
    BY <1>14, ReturnKept DEF PromoteRefused
  <2> QED
    BY <1>4, <1>14, <2>1, CallStepKept DEF PromoteRefused
<1>15. ASSUME NEW ready \in BOOLEAN, FinishWaits(a, ready)
       PROVE  Inv'
  <2>1. call[a].at = "wait" /\ call[a].cmd = "promote"
    BY <1>15 DEF FinishWaits, At, Cmd
  <2>2. CallsOK' /\ CountsInHand'
    BY <1>15, <2>1, GotoKept, ReturnKept DEF FinishWaits
  <2> QED
    BY <1>4, <1>15, <2>2, CallStepKept DEF FinishWaits
<1>16. ASSUME NEW ready \in BOOLEAN, DeployWaits(a, ready)
       PROVE  Inv'
  <2>1. call[a].at = "waitCanary"
    BY <1>16 DEF DeployWaits, At
  <2>2. CallsOK' /\ CountsInHand'
    BY <1>16, <2>1, GotoKept, ReturnKept DEF DeployWaits
  <2> QED
    BY <1>4, <1>16, <2>2, CallStepKept DEF DeployWaits
<1>17. CASE EvaluateHolds(a)
  <2>1. CallsOK' /\ CountsInHand'
    BY <1>17, ReturnKept DEF EvaluateHolds
  <2> QED
    BY <1>4, <1>17, <2>1, CallStepKept DEF EvaluateHolds
<1>18. CASE EvaluateBreaches(a)
  <2>1. call[a].at = "measure"
    BY <1>18 DEF EvaluateBreaches, At
  <2>2. CallsOK' /\ CountsInHand'
    BY <1>18, <2>1, GotoKept DEF EvaluateBreaches
  <2> QED
    BY <1>4, <1>18, <2>2, CallStepKept DEF EvaluateBreaches
<1>19. CASE EvaluateRollsBack(a)
  <2> DEFINE c == call[a].on
             rest == RestingFromState(LoadState(c)[c], NoCeiling)
             r == [Idle EXCEPT !.cmd = "rollback", !.on = c, !.at = "cut",
                               !.loaded = LoadState(c), !.rest = rest]
  <2>1. call[a].at = "reload" /\ c \in Components
    BY <1>2, <1>19 DEF EvaluateRollsBack, At
  <2>2. LoadState(c) \in [Components -> States] /\ NoCeiling \in Nat
    BY <2>1, LoadTypes DEF Inv, NoCeiling
  <2>3. rest \in Nat /\ rest >= 1
    BY <2>1, <2>2, RestType
  <2> HIDE DEF c, rest
  <2>4. r \in Calls
    BY <2>1, <2>2, <2>3, IdleType DEF Calls, CommandNames
  <2>5. r.cmd = "rollback" /\ r.on = c /\ r.at = "cut" /\ r.rest = rest
    BY IdleType DEF Calls
  <2>6. r.on # "none"
    BY <2>1, <2>5
  <2>7. CallsOK' /\ CountsInHand'
    <3>1. CASE call' = [call EXCEPT ![a] = r]
      <4> HIDE DEF r
      <4> QED
        BY <2>3, <2>4, <2>5, <2>6, <3>1, CallsKept
    <3>2. CASE Return(a)
      BY <3>2, ReturnKept
    <3> QED
      BY <1>19, <3>1, <3>2 DEF EvaluateRollsBack, c, rest
  <2> QED
    BY <1>4, <1>19, <2>7, CallStepKept DEF EvaluateRollsBack
<1> QED
  BY <1>7, <1>8, <1>9, <1>10, <1>11, <1>12, <1>13, <1>14, <1>15, <1>16, <1>17, <1>18, <1>19
     DEF Reads

(* Writing the record. *)
LEMMA SavesKept ==
    ASSUME Inv, NEW a \in Callers, Saves(a)
    PROVE  Inv'
<1> USE DEF Phases, ScalesToPlan, HoldsVersion
<1>1. call[a] \in Calls /\ (call[a].on = "none" <=> call[a].at = "idle")
  BY DEF Inv, TypeOK, CallsOK
<1>2. call[a].at # "idle" => call[a].on \in Components
  BY <1>1 DEF Calls
<1>3. NoStates \in [Components -> States] /\ Readable \in [Components -> States]
  BY LoadTypes, CanaryAssumption DEF Inv
<1>4. call[a].cmd \in {"promote", "rollback"} => call[a].rest >= 1
  BY DEF Inv, CountsInHand
<1>5. UNCHANGED faults => faults' \in Nat /\ faults' <= MaxFaults
  BY FaultKept DEF Inv
<1>6. CASE DeployLoads(a)
  <2> DEFINE c == call[a].on
             r == [call[a] EXCEPT !.loaded = LoadState(c), !.next = LoadState(c)[c], !.at = "merge"]
  <2>1. call[a].at = "load" /\ c \in Components
    BY <1>2, <1>6 DEF DeployLoads, At
  <2>2. LoadState(c) \in [Components -> States] /\ LoadState(c)[c] \in States
    BY <2>1, LoadTypes DEF Inv
  <2>3. r \in Calls
    BY <1>1, <2>1, <2>2 DEF Calls
  <2>4. r.at = "merge" /\ r.on = call[a].on /\ r.cmd = call[a].cmd /\ r.rest = call[a].rest
    BY <1>1 DEF Calls
  <2>5. call' = [call EXCEPT ![a] = r]
    BY <1>6 DEF DeployLoads
  <2>6. r.on # "none"
    BY <1>1, <2>1, <2>4
  <2> HIDE DEF r, c
  <2>7. CallsOK' /\ CountsInHand'
    BY <1>4, <2>3, <2>4, <2>5, <2>6, CallsKept
  <2> QED
    BY <1>5, <1>6, <2>7, CallStepKept DEF DeployLoads
<1>7. CASE Merge(a)
  <2> DEFINE c == call[a].on
             base == IF c = "api" THEN call[a].loaded ELSE Readable
             new == [base EXCEPT ![c] = call[a].next]
             r == [call[a] EXCEPT !.loaded = new, !.at = "truncate"]
  <2>1. call[a].at = "merge" /\ c \in Components
    BY <1>2, <1>7 DEF Merge, At
  <2>2. new \in [Components -> States]
    BY <1>1, <1>3, <2>1 DEF Calls
  <2>3. call' = [call EXCEPT ![a] = r]
    BY <1>7 DEF Merge
  <2> HIDE DEF new
  <2>4. r \in Calls
    BY <1>1, <2>2 DEF Calls
  <2>5. r.at = "truncate" /\ r.on = call[a].on /\ r.cmd = call[a].cmd /\ r.rest = call[a].rest
    BY <1>1 DEF Calls
  <2>6. r.on # "none"
    BY <1>1, <2>1, <2>5
  <2> HIDE DEF r
  <2>7. CallsOK' /\ CountsInHand'
    BY <1>4, <2>4, <2>5, <2>6, CallsKept, <2>3
  <2> QED
    BY <1>5, <1>7, <2>7, CallStepKept DEF Merge
<1>8. CASE Truncate(a)
  <2>1. call[a].at = "truncate"
    BY <1>8 DEF Truncate, At
  <2>2. CallsOK' /\ CountsInHand'
    BY <1>8, <2>1, GotoKept DEF Truncate
  <2> QED
    BY <1>3, <1>5, <1>8, <2>2
    DEF Truncate, Inv, TypeOK, ClusterOK, FileOK, SeenOK, StableServes, cluster, seen
<1>9. CASE Write(a)
  <2>1. call[a].at = "write" /\ call[a].on \in Components
    BY <1>2, <1>9 DEF Write, At
  <2>2. CallsOK' /\ CountsInHand'
    BY <1>9, ReturnKept DEF Write
  <2>3. FileOK'
    BY <1>1, <1>3, <1>9 DEF Write, FileOK, Calls
  <2>4. SeenOK'
    BY <1>1, <1>9, <2>1 DEF Write, SeenOK, Calls, Inv, TypeOK
  <2> QED
    BY <1>5, <1>9, <2>2, <2>3, <2>4 DEF Write, Inv, TypeOK, ClusterOK, StableServes, cluster
<1> QED
  BY <1>6, <1>7, <1>8, <1>9 DEF Saves

(* What the commands do not do themselves. *)
LEMMA DisturbsKept ==
    ASSUME Inv, Disturbs
    PROVE  Inv'
<1>1. NoStates \in [Components -> States]
  BY LoadTypes DEF Inv
<1>2. UNCHANGED faults \/ (\E kind : Fault(kind)) => faults' \in Nat /\ faults' <= MaxFaults
  BY FaultKept DEF Inv
<1>3. UNCHANGED call => CallsOK' /\ CountsInHand'
  BY DEF Inv, TypeOK, CallsOK, CountsInHand
<1>4. ASSUME NEW c \in Components, Serve(c)
      PROVE  Inv'
  BY <1>2, <1>3, <1>4
  DEF Serve, Inv, TypeOK, ClusterOK, FileOK, SeenOK, StableServes, file
<1>5. ASSUME NEW c \in Components, NEW n \in HandCounts, ScaleByHand(c, n)
      PROVE  Inv'
  <2>1. n \in Nat /\ n >= 1 /\ n \in Counts
    BY DEF Counts
  <2>2. ClusterOK' /\ StableServes' /\ SeenOK'
    BY <1>5, <2>1 DEF ScaleByHand, Inv, TypeOK, ClusterOK, SeenOK, StableServes
  <2> QED
    BY <1>2, <1>3, <1>5, <2>2 DEF ScaleByHand, Inv, TypeOK, FileOK, file
<1>6. ASSUME NEW a \in Callers, Crash(a)
      PROVE  Inv'
  <2>1. CallsOK' /\ CountsInHand'
    BY <1>6, ReturnKept DEF Crash
  <2>2. SeenOK'
    BY <1>1, <1>6 DEF Crash, Inv, TypeOK, SeenOK
  <2> QED
    BY <1>2, <1>6, <2>1, <2>2 DEF Crash, Inv, TypeOK, ClusterOK, FileOK, StableServes, cluster, file
<1>7. CASE LoseFile
  <2>1. \A a \in Callers : call'[a] = Idle
    BY <1>7 DEF LoseFile
  <2>2. Idle.on = "none" /\ Idle.at = "idle" /\ Idle.cmd = "none"
    BY DEF Idle
  <2>3. CallsOK'
    BY <1>7, <2>1, <2>2, IdleType DEF LoseFile, CallsOK, HoldsVersion
  <2>4. CountsInHand'
    BY <2>1, <2>2 DEF CountsInHand, ScalesToPlan
  <2> QED
    BY <1>1, <1>2, <1>7, <2>3, <2>4
    DEF LoseFile, Inv, TypeOK, ClusterOK, FileOK, SeenOK, StableServes, cluster
<1> QED
  BY <1>4, <1>5, <1>6, <1>7 DEF Disturbs

-----------------------------------------------------------------------------

(* The invariant is inductive. *)
LEMMA InvInit == Init => Inv
<1> SUFFICES ASSUME Init PROVE Inv
  OBVIOUS
<1>1. NoStates \in [Components -> States]
  BY DEF NoStates, NoRollout, States, Unread
<1>2. Idle.on = "none" /\ Idle.at = "idle" /\ Idle.cmd = "none"
  BY DEF Idle
<1>3. CallsOK
  BY <1>2, IdleType DEF Init, CallsOK, HoldsVersion
<1>4. CountsInHand
  BY <1>2 DEF Init, CountsInHand, ScalesToPlan
<1>5. ClusterOK /\ StableServes
  BY DEF Init, ClusterOK, StableServes, DefaultResting, VersionNames
<1>6. FileOK /\ SeenOK
  BY <1>1 DEF Init, FileOK, SeenOK, Counts, DefaultResting, VersionNames
<1> QED
  BY <1>3, <1>4, <1>5, <1>6 DEF Init, Inv, TypeOK

LEMMA InvNext == Inv /\ [Next]_vars => Inv'
<1> SUFFICES ASSUME Inv, [Next]_vars PROVE Inv'
  OBVIOUS
<1>1. CASE UNCHANGED vars
  BY <1>1 DEF vars, Inv, TypeOK, ClusterOK, FileOK, SeenOK, CallsOK, StableServes, CountsInHand
<1>2. CASE Next
  BY <1>2, LoadsKept, ScalesKept, ImagesKept, ReadsKept, SavesKept, DisturbsKept
  DEF Next, Proceeds
<1> QED
  BY <1>1, <1>2

(* Whatever runs concurrently and whatever fails, the variables keep their *)
(* types: no command records or scales to anything but a replica count.    *)
THEOREM TypeCorrect == Spec => []TypeOK
<1>1. Inv => TypeOK
  BY DEF Inv
<1> QED
  BY InvInit, InvNext, <1>1, PTL DEF Spec

(* No interleaving of commands, refused or lost kubectl calls, crashes or  *)
(* losses of the state file ever scales a component's stable Deployment to *)
(* 0: for any number of callers, any weights, ceilings and step.           *)
THEOREM StableAlwaysServes == Spec => []StableServes
<1>1. Inv => StableServes
  BY DEF Inv
<1> QED
  BY InvInit, InvNext, <1>1, PTL DEF Spec

-----------------------------------------------------------------------------
HIDE CanaryAssumption

(* One command at a time *)

Alone == \A a, b \in Callers : a = b

Saving == {"merge", "truncate", "write"}

\* The phases in which a call goes by what it has loaded.
Loaded == Phases \ {"idle", "setCanaryImage", "waitCanary", "load", "truncate", "write"}

\* The file holds what was saved last, unless a save is under way.
FileIsSaved ==
    /\ text # "garbage"
    /\ text = "json" => recorded = saved
    /\ (\A a \in Callers : ~At(a, "write")) /\ text = "none" => saved = NoStates
    /\ \A a \in Callers : At(a, "write") => text = "none"

\* What a call has loaded is what is on record; what it is about to write is that with its own
\* entry.
Holds(r, on_record) ==
    /\ r.at \in Loaded =>
          r.loaded = IF r.on = "api" THEN on_record
                     ELSE [NoStates EXCEPT ![r.on] = on_record[r.on]]
    /\ r.at \in {"truncate", "write"} => r.loaded = [on_record EXCEPT ![r.on] = r.next]

LoadedIsSaved == \A a \in Callers : Holds(call[a], saved)

\* What start and promote record.
Planned(rest, weight) == Active(PlanRollout(rest, weight, MaxPool(rest, Total)), rest)

\* The resting count of the rollout s, and what promote would have it be.
RestOf(s)    == RestingFromState(s, Total)
Aim(s)       == PlanRollout(RestOf(s), NextWeight(s, Step), MaxPool(RestOf(s), Total))
Finishing(s) == NextWeight(s, Step) >= 100

\* Where the call r on a component with s on record is in its command, and what it has in hand.
StartOrder(r, s) ==
    /\ r.at \in {"plan", "undo"} \union ScalesToPlan \union Saving
    /\ ~s.active
    /\ r.at # "plan" =>
          /\ r.rest >= 1
          /\ r.next = Active(r.plan, r.rest)
          /\ \E w \in Weights : r.plan = PlanRollout(r.rest, Requested(w), MaxPool(r.rest, Total))

PromoteOrder(r, s) ==
    /\ s.active
    /\ r.rest = RestOf(s)
    /\ \/ r.at \in {"health", "traffic"}
       \/ r.at = "plan" /\ ~Finishing(s)
       \/ /\ r.at \in {"undo"} \union ScalesToPlan \union Saving
          /\ ~Finishing(s)
          /\ r.plan = Aim(s) /\ r.next = Active(Aim(s), RestOf(s))
       \/ r.at \in {"setImage", "wait", "cut", "restore"} /\ Finishing(s)
       \/ r.at \in Saving /\ Finishing(s) /\ r.next = Ended(s, RestOf(s))

RollbackOrder(r, s) ==
    /\ s.active
    /\ r.rest = RestOf(s)
    /\ r.at \in {"cut", "restore"} \union Saving
    /\ r.at \in Saving => r.next = Ended(s, RestOf(s))

ResetOrder(r, s) ==
    /\ ~s.active
    /\ r.at \in {"look", "cut", "lookStable", "deflate"} \union Saving
    /\ r.at \in Saving => r.next = s

DeployOrder(r, s) ==
    /\ r.at \in {"setCanaryImage", "waitCanary", "load"} \union Saving
    /\ r.at \in Saving => r.next = s

Ordered(r, s) ==
    \/ r.cmd = "start" /\ StartOrder(r, s)
    \/ r.cmd = "promote" /\ PromoteOrder(r, s)
    \/ r.cmd = "rollback" /\ RollbackOrder(r, s)
    \/ r.cmd = "reset" /\ ResetOrder(r, s)
    \/ r.cmd = "deploy" /\ DeployOrder(r, s)
    \/ r.cmd = "evaluate" /\ r.at \in {"measure", "reload"}

InOrder == \A a \in Callers : call[a] # Idle => Ordered(call[a], saved[call[a].on])

\* A rollout on record is one that was planned.
RecordsArePlans ==
    \A c \in Components : saved[c].active =>
        \E rest \in Counts, w \in Int : saved[c] = Planned(rest, w)

Orderly == Inv /\ FileIsSaved /\ LoadedIsSaved /\ InOrder /\ RecordsArePlans

-----------------------------------------------------------------------------

(* A call is idle, or on a component.                                      *)
LEMMA CallFacts ==
    ASSUME Inv, NEW a \in Callers
    PROVE  /\ call[a] \in Calls
           /\ call[a].on = "none" <=> call[a].at = "idle"
           /\ call[a].at # "idle" => call[a].on \in Components /\ State(a) \in States
           /\ call[a] = Idle => call[a].at = "idle"
<1>1. call[a] \in Calls /\ (call[a].on = "none" <=> call[a].at = "idle")
  BY DEF Inv, TypeOK, CallsOK
<1>2. call[a].at # "idle" => call[a].on \in Components
  BY <1>1 DEF Calls
<1>3. call[a].loaded \in [Components -> States]
  BY <1>1 DEF Calls
<1> QED
  BY <1>1, <1>2, <1>3 DEF State, Idle

(* Between two saves the file says what is on record.                      *)
LEMMA FileSays ==
    ASSUME Alone, Inv, FileIsSaved, NEW a \in Callers, call[a].at # "write", NEW c \in Components
    PROVE  /\ Readable = saved
           /\ LoadState(c) = IF c = "api" THEN saved ELSE [NoStates EXCEPT ![c] = saved[c]]
           /\ LoadState(c)[c] = saved[c]
<1>1. \A b \in Callers : ~At(b, "write")
  BY DEF Alone, At
<1>2. text \in {"json", "none"}
  BY DEF FileIsSaved, Inv, TypeOK, FileOK
<1>3. Readable = saved
  BY <1>1, <1>2 DEF FileIsSaved, Readable
<1>4. NoStates \in [Components -> States] /\ saved \in [Components -> States]
  BY LoadTypes DEF Inv, TypeOK, SeenOK
<1> QED
  BY <1>3, <1>4 DEF LoadState

(* While a call works on from what it has loaded, nothing is saved.        *)
LEMMA StaysOrderly ==
    ASSUME Alone, Orderly, Inv', NEW a \in Callers, NEW r, call' = [call EXCEPT ![a] = r],
           call[a].at # "write", r.at \notin {"write"}, UNCHANGED <<text, recorded, saved>>,
           Holds(r, saved), r # Idle => Ordered(r, saved[r.on])
    PROVE  Orderly'
<1>1. call'[a] = r /\ \A b \in Callers : b = a
  BY DEF Alone, Orderly, Inv, TypeOK, CallsOK
<1>2. FileIsSaved'
  BY <1>1 DEF Orderly, FileIsSaved, At
<1>3. LoadedIsSaved'
  BY <1>1 DEF LoadedIsSaved
<1>4. InOrder'
  BY <1>1 DEF InOrder
<1>5. RecordsArePlans'
  BY DEF Orderly, RecordsArePlans
<1> QED
  BY <1>2, <1>3, <1>4, <1>5 DEF Orderly

LEMMA ReturnsOrderly ==
    ASSUME Alone, Orderly, Inv', NEW a \in Callers, Return(a), call[a].at # "write",
           UNCHANGED <<text, recorded, saved>>
    PROVE  Orderly'
<1>1. Idle.at = "idle"
  BY DEF Idle
<1>2. Holds(Idle, saved)
  BY <1>1 DEF Holds, Loaded
<1> QED
  BY <1>1, <1>2, StaysOrderly DEF Return

LEMMA GoesOnOrderly ==
    ASSUME Alone, Orderly, Inv', NEW a \in Callers, NEW pc, Goto(a, pc),
           pc \notin {"truncate", "write"}, call[a].at \notin {"idle", "write"},
           UNCHANGED <<text, recorded, saved>>,
           pc \in Loaded => call[a].at \in Loaded,
           Ordered([call[a] EXCEPT !.at = pc], saved[call[a].on])
    PROVE  Orderly'
<1> DEFINE r == [call[a] EXCEPT !.at = pc]
<1>1. call[a] \in Calls
  BY CallFacts DEF Orderly
<1>2. r.at = pc /\ r.on = call[a].on /\ r.loaded = call[a].loaded
  BY <1>1 DEF Calls
<1>3. call' = [call EXCEPT ![a] = r]
  BY DEF Goto
<1>4. Holds(call[a], saved)
  BY DEF Orderly, LoadedIsSaved
<1> HIDE DEF r
<1>5. Holds(r, saved)
  BY <1>2, <1>4 DEF Holds
<1> QED
  BY <1>2, <1>3, <1>5, StaysOrderly DEF r

(* What a call in a given phase is doing.                                  *)
LEMMA DoesInOrder ==
    ASSUME Orderly, NEW a \in Callers, call[a].at # "idle"
    PROVE  Ordered(call[a], saved[call[a].on])
BY CallFacts DEF Orderly, InOrder

(* What a call has loaded of its component is what is on record.           *)
LEMMA StateIsSaved ==
    ASSUME Orderly, NEW a \in Callers, call[a].at \in Loaded
    PROVE  /\ call[a].on \in Components
           /\ State(a) = saved[call[a].on]
<1>1. call[a].on \in Components
  BY CallFacts DEF Orderly, Loaded
<1>2. Holds(call[a], saved)
  BY DEF Orderly, LoadedIsSaved
<1>3. NoStates \in [Components -> States] /\ saved \in [Components -> States]
  BY <1>1, LoadTypes DEF Orderly, Inv, TypeOK, SeenOK
<1> QED
  BY <1>1, <1>2, <1>3 DEF Holds, State

(* A command that loads the state starts in order.                         *)
LEMMA BeginsOrderly ==
    ASSUME Alone, Orderly, Inv', NEW a \in Callers, NEW c \in Components, NEW cmd,
           NEW pc \in Loaded, NEW rest, Begin(a, cmd, c, pc, rest),
           Ordered([Idle EXCEPT !.cmd = cmd, !.on = c, !.at = pc,
                                !.loaded = LoadState(c), !.rest = rest], saved[c])
    PROVE  Orderly'
<1> DEFINE r == [Idle EXCEPT !.cmd = cmd, !.on = c, !.at = pc,
                             !.loaded = LoadState(c), !.rest = rest]
<1>1. call[a].at = "idle" /\ call' = [call EXCEPT ![a] = r] /\ UNCHANGED <<text, recorded, saved>>
  BY DEF Begin, Idle, file, seen
<1>2. r.on = c /\ r.at = pc /\ r.loaded = LoadState(c)
  BY DEF Idle
<1> HIDE DEF r
<1>3. LoadState(c) = IF c = "api" THEN saved ELSE [NoStates EXCEPT ![c] = saved[c]]
  BY <1>1, FileSays DEF Orderly
<1>4. Holds(r, saved)
  BY <1>2, <1>3 DEF Holds, Loaded
<1>5. pc # "write"
  BY DEF Loaded
<1> QED
  BY <1>1, <1>2, <1>4, <1>5, StaysOrderly DEF r

LEMMA LoadsOrderly ==
    ASSUME Alone, Orderly, NEW a \in Callers, NEW c \in Components, Loads(a, c)
    PROVE  Orderly'
<1>1. Inv'
  BY LoadsKept DEF Orderly
<1> USE DEF Loaded, Phases, ScalesToPlan
<1>2. call[a].at = "idle" => LoadState(c)[c] = saved[c]
  BY FileSays DEF Orderly
<1>3. call[a] = Idle => call[a].at = "idle"
  BY DEF Idle
<1>4. CASE StartLoads(a, c)
  <2>1. Ordered([Idle EXCEPT !.cmd = "start", !.on = c, !.at = "plan",
                             !.loaded = LoadState(c), !.rest = 0], saved[c])
    BY <1>2, <1>3, <1>4 DEF StartLoads, Begin, Ordered, StartOrder, Idle
  <2> QED
    BY <1>1, <1>4, <2>1, BeginsOrderly DEF StartLoads
<1>5. CASE PromoteLoads(a, c)
  <2>1. Ordered([Idle EXCEPT !.cmd = "promote", !.on = c, !.at = "health", !.loaded = LoadState(c),
                             !.rest = RestingFromState(LoadState(c)[c], Total)], saved[c])
    BY <1>2, <1>3, <1>5 DEF PromoteLoads, Begin, Ordered, PromoteOrder, RestOf, Idle
  <2> QED
    BY <1>1, <1>5, <2>1, BeginsOrderly DEF PromoteLoads
<1>6. CASE RollbackLoads(a, c)
  <2>1. Ordered([Idle EXCEPT !.cmd = "rollback", !.on = c, !.at = "cut", !.loaded = LoadState(c),
                             !.rest = RestingFromState(LoadState(c)[c], Total)], saved[c])
    BY <1>2, <1>3, <1>6 DEF RollbackLoads, Begin, Ordered, RollbackOrder, RestOf, Idle, Saving
  <2> QED
    BY <1>1, <1>6, <2>1, BeginsOrderly DEF RollbackLoads
<1>7. CASE ResetLoads(a, c)
  <2>1. Ordered([Idle EXCEPT !.cmd = "reset", !.on = c, !.at = "look",
                             !.loaded = LoadState(c), !.rest = 0], saved[c])
    BY <1>2, <1>3, <1>7 DEF ResetLoads, Begin, Ordered, ResetOrder, Idle, Saving
  <2> QED
    BY <1>1, <1>7, <2>1, BeginsOrderly DEF ResetLoads
<1>8. CASE EvaluateLoads(a, c)
  <2>1. Ordered([Idle EXCEPT !.cmd = "evaluate", !.on = c, !.at = "measure",
                             !.loaded = LoadState(c), !.rest = 0], saved[c])
    BY DEF Ordered, Idle
  <2> QED
    BY <1>1, <1>8, <2>1, BeginsOrderly DEF EvaluateLoads
<1>9. ASSUME NEW v \in Versions, DeployBuilds(a, c, v)
      PROVE  Orderly'
  <2> DEFINE r == [Idle EXCEPT !.cmd = "deploy", !.on = c, !.at = "setCanaryImage", !.version = v]
  <2>1. call' = [call EXCEPT ![a] = r] /\ call[a].at = "idle" /\ UNCHANGED <<text, recorded, saved>>
    BY <1>3, <1>9 DEF DeployBuilds, file, seen
  <2>2. r.at = "setCanaryImage" /\ r.cmd = "deploy"
    BY DEF Idle
  <2> HIDE DEF r
  <2>3. Holds(r, saved) /\ \A s : Ordered(r, s)
    BY <2>2 DEF Holds, Ordered, DeployOrder, Saving
  <2> QED
    BY <1>1, <2>1, <2>2, <2>3, StaysOrderly
<1> QED
  BY <1>4, <1>5, <1>6, <1>7, <1>8, <1>9 DEF Loads

(* The phases follow each other in order.                                  *)
LEMMA GoesInOrder ==
    ASSUME Orderly, NEW a \in Callers, NEW s, Ordered(call[a], s), NEW pc,
           \/ call[a].at = "stableUp" /\ pc = "canaryUp"
           \/ call[a].at = "canaryUp" /\ pc \in {"merge", "undo"}
           \/ call[a].at = "canaryFirst" /\ pc = "stableDown"
           \/ call[a].at = "stableDown" /\ pc = "merge"
           \/ call[a].at = "cut" /\ pc = IF Cmd(a, "reset") THEN "lookStable" ELSE "restore"
           \/ call[a].at = "traffic" /\ pc = IF Finishing(s) THEN "setImage" ELSE "plan"
           \/ call[a].at = "setImage" /\ pc = "wait"
           \/ call[a].at = "wait" /\ pc = "cut"
           \/ call[a].at = "look" /\ pc = "cut"
           \/ call[a].at = "lookStable" /\ pc = "deflate"
           \/ call[a].at = "setCanaryImage" /\ pc = "waitCanary"
           \/ call[a].at = "waitCanary" /\ pc = "load"
           \/ call[a].at = "measure" /\ pc = "reload"
           \/ call[a].at = "truncate" /\ pc = "write"
    PROVE  Ordered([call[a] EXCEPT !.at = pc], s)
<1> DEFINE r == [call[a] EXCEPT !.at = pc]
<1>1. call[a] \in Calls
  BY CallFacts DEF Orderly
<1>2. /\ r.at = pc /\ r.cmd = call[a].cmd /\ r.rest = call[a].rest /\ r.next = call[a].next
      /\ r.plan = call[a].plan
  BY <1>1 DEF Calls
<1> HIDE DEF r
<1>3. CASE call[a].cmd = "start"
  BY <1>2, <1>3 DEF Ordered, StartOrder, ScalesToPlan, Saving, Cmd
<1>4. CASE call[a].cmd = "promote"
  BY <1>2, <1>4 DEF Ordered, PromoteOrder, ScalesToPlan, Saving, Cmd
<1>5. CASE call[a].cmd = "rollback"
  BY <1>2, <1>5 DEF Ordered, RollbackOrder, ScalesToPlan, Saving, Cmd
<1>6. CASE call[a].cmd = "reset"
  BY <1>2, <1>6 DEF Ordered, ResetOrder, ScalesToPlan, Saving, Cmd
<1>7. CASE call[a].cmd = "deploy"
  BY <1>2, <1>7 DEF Ordered, DeployOrder, ScalesToPlan, Saving, Cmd
<1>8. CASE call[a].cmd = "evaluate"
  BY <1>2, <1>8 DEF Ordered, ScalesToPlan, Saving, Cmd
<1> QED
  BY <1>3, <1>4, <1>5, <1>6, <1>7, <1>8 DEF Ordered, r

(* A call that goes on in order, but does not rewrite the file.            *)
LEMMA GoesOn ==
    ASSUME Alone, Orderly, Inv', NEW a \in Callers, NEW pc, Goto(a, pc),
           UNCHANGED <<text, recorded, saved>>,
           \/ call[a].at = "stableUp" /\ pc = "canaryUp"
           \/ call[a].at = "canaryUp" /\ pc \in {"merge", "undo"}
           \/ call[a].at = "canaryFirst" /\ pc = "stableDown"
           \/ call[a].at = "stableDown" /\ pc = "merge"
           \/ call[a].at = "cut" /\ pc = IF Cmd(a, "reset") THEN "lookStable" ELSE "restore"
           \/ call[a].at = "traffic"
                /\ pc = IF Finishing(saved[call[a].on]) THEN "setImage" ELSE "plan"
           \/ call[a].at = "setImage" /\ pc = "wait"
           \/ call[a].at = "wait" /\ pc = "cut"
           \/ call[a].at = "look" /\ pc = "cut"
           \/ call[a].at = "lookStable" /\ pc = "deflate"
           \/ call[a].at = "setCanaryImage" /\ pc = "waitCanary"
           \/ call[a].at = "waitCanary" /\ pc = "load"
           \/ call[a].at = "measure" /\ pc = "reload"
    PROVE  Orderly'
<1>1. Ordered(call[a], saved[call[a].on])
  BY DoesInOrder
<1>2. Ordered([call[a] EXCEPT !.at = pc], saved[call[a].on])
  BY <1>1, GoesInOrder
<1>3. pc \notin {"truncate", "write"} /\ call[a].at \notin {"idle", "write"}
  OBVIOUS
<1>4. pc \in Loaded => call[a].at \in Loaded
  BY DEF Loaded, Phases, ScalesToPlan
<1> QED
  BY <1>2, <1>3, <1>4, GoesOnOrderly

(* A reset that goes on to record itself records what is on record.        *)
LEMMA RecordsOrderly ==
    ASSUME Alone, Orderly, Inv', NEW a \in Callers, ResetRecords(a),
           call[a].at \in {"lookStable", "deflate"}, UNCHANGED <<text, recorded, saved>>
    PROVE  Orderly'
<1> DEFINE s == saved[call[a].on]
           r == [call[a] EXCEPT !.next = State(a), !.at = "merge"]
<1>1. call' = [call EXCEPT ![a] = r]
  BY DEF ResetRecords
<1>2. State(a) = s /\ Ordered(call[a], s) /\ call[a] \in Calls
  BY StateIsSaved, DoesInOrder, CallFacts DEF Loaded, Phases, ScalesToPlan, Orderly
<1>3. /\ r.at = "merge" /\ r.cmd = call[a].cmd /\ r.rest = call[a].rest /\ r.on = call[a].on
      /\ r.loaded = call[a].loaded /\ r.next = s
  BY <1>2 DEF Calls
<1> HIDE DEF r, s
<1>4. Ordered(r, s)
  BY <1>2, <1>3
  DEF Ordered, StartOrder, PromoteOrder, RollbackOrder, ResetOrder, DeployOrder, Saving,
      ScalesToPlan
<1>5. Holds(r, saved)
  BY <1>3 DEF Orderly, LoadedIsSaved, Holds, Loaded, Phases, ScalesToPlan
<1> QED
  BY <1>1, <1>3, <1>4, <1>5, StaysOrderly DEF s

LEMMA ScalesOrderly ==
    ASSUME Alone, Orderly, NEW a \in Callers, Scales(a)
    PROVE  Orderly'
<1>1. Inv'
  BY ScalesKept DEF Orderly
<1> PICK result \in Results :
        \/ StableUp(a, result) \/ CanaryUp(a, result) \/ Undo(a, result)
        \/ CanaryFirst(a, result) \/ StableDown(a, result)
        \/ Cut(a, result) \/ Restore(a, result) \/ ResetDeflates(a, result)
  BY DEF Scales
<1>2. UNCHANGED <<text, recorded, saved>>
  BY DEF StableUp, CanaryUp, Undo, CanaryFirst, StableDown, Cut, Restore, ResetDeflates,
         ScaleCanary, ScaleStable, file, seen
<1>3. CASE StableUp(a, result)
  BY <1>1, <1>2, <1>3, GoesOn, ReturnsOrderly DEF StableUp, At
<1>4. CASE CanaryUp(a, result)
  BY <1>1, <1>2, <1>4, GoesOn DEF CanaryUp, At
<1>5. CASE Undo(a, result)
  BY <1>1, <1>2, <1>5, ReturnsOrderly DEF Undo, At
<1>6. CASE CanaryFirst(a, result)
  BY <1>1, <1>2, <1>6, GoesOn, ReturnsOrderly DEF CanaryFirst, At
<1>7. CASE StableDown(a, result)
  BY <1>1, <1>2, <1>7, GoesOn, ReturnsOrderly DEF StableDown, At
<1>8. CASE Cut(a, result)
  BY <1>1, <1>2, <1>8, GoesOn, ReturnsOrderly DEF Cut, At
<1>9. CASE Restore(a, result)
  <2> DEFINE s == saved[call[a].on]
             r == [call[a] EXCEPT !.next = Ended(State(a), call[a].rest), !.at = "merge"]
  <2>1. call[a].at = "restore" /\ call' = [call EXCEPT ![a] = r]
    BY <1>9 DEF Restore, At
  <2>2. State(a) = s /\ Ordered(call[a], s) /\ call[a] \in Calls
    BY <2>1, StateIsSaved, DoesInOrder, CallFacts DEF Loaded, Phases, ScalesToPlan, Orderly
  <2>3. /\ r.at = "merge" /\ r.cmd = call[a].cmd /\ r.rest = call[a].rest /\ r.on = call[a].on
        /\ r.loaded = call[a].loaded /\ r.next = Ended(s, call[a].rest)
    BY <2>2 DEF Calls
  <2> HIDE DEF r, s
  <2>4. Ordered(r, s)
    BY <2>1, <2>2, <2>3
    DEF Ordered, StartOrder, PromoteOrder, RollbackOrder, ResetOrder, DeployOrder, Saving,
        ScalesToPlan
  <2>5. Holds(r, saved)
    BY <2>1, <2>3 DEF Orderly, LoadedIsSaved, Holds, Loaded, Phases, ScalesToPlan
  <2> QED
    BY <1>1, <1>2, <2>1, <2>3, <2>4, <2>5, StaysOrderly DEF s
<1>10. CASE ResetDeflates(a, result)
  BY <1>1, <1>2, <1>10, RecordsOrderly DEF ResetDeflates, At
<1> QED
  BY <1>3, <1>4, <1>5, <1>6, <1>7, <1>8, <1>9, <1>10

LEMMA ImagesOrderly ==
    ASSUME Alone, Orderly, NEW a \in Callers, Images(a)
    PROVE  Orderly'
<1>1. Inv'
  BY ImagesKept DEF Orderly
<1> PICK result \in Results : FinishSetsImage(a, result) \/ DeploySetsImage(a, result)
  BY DEF Images
<1>2. UNCHANGED <<text, recorded, saved>>
  BY DEF FinishSetsImage, DeploySetsImage, SetImage, file, seen
<1>3. CASE FinishSetsImage(a, result)
  BY <1>1, <1>2, <1>3, GoesOn, ReturnsOrderly DEF FinishSetsImage, At
<1>4. CASE DeploySetsImage(a, result)
  BY <1>1, <1>2, <1>4, GoesOn, ReturnsOrderly DEF DeploySetsImage, At
<1> QED
  BY <1>3, <1>4

(* start and promote go on to scale what they have planned.                *)
LEMMA StartPlansOrderly ==
    ASSUME Alone, Orderly, Inv', NEW a \in Callers, call[a].at # "idle", NEW w \in Weights,
           NEW live \in Live(call[a].on), StartPlans(a, w, live)
    PROVE  Orderly'
<1> DEFINE s == saved[call[a].on]
           rest == RestingFromLive(live)
           plan == PlanRollout(rest, Requested(w), MaxPool(rest, Total))
           r == [call[a] EXCEPT !.rest = rest, !.from = rest, !.plan = plan,
                                !.next = Active(plan, rest), !.at = FirstScale(plan, rest)]
<1>1. call[a].at = "plan" /\ call[a].cmd = "start" /\ call' = [call EXCEPT ![a] = r]
  BY DEF StartPlans, At, Cmd
<1>2. Ordered(call[a], s) /\ call[a] \in Calls /\ call[a].on \in Components
  BY <1>1, DoesInOrder, CallFacts DEF Orderly
<1>3. live \in Int
  BY <1>2 DEF Live, Unread, Orderly, Inv, TypeOK, ClusterOK
<1>4. rest \in Nat /\ rest >= 1
  BY <1>3, RestoresAtLeastOne
<1> HIDE DEF rest
<1>5. FirstScale(plan, rest) \in {"stableUp", "canaryFirst"}
  BY DEF FirstScale
<1>6. /\ r.at = FirstScale(plan, rest) /\ r.cmd = "start" /\ r.rest = rest /\ r.on = call[a].on
      /\ r.loaded = call[a].loaded /\ r.next = Active(plan, rest) /\ r.plan = plan
  BY <1>1, <1>2 DEF Calls
<1>7. r.plan = PlanRollout(r.rest, Requested(w), MaxPool(r.rest, Total))
  BY <1>6
<1> HIDE DEF r, s, plan
<1>8. Ordered(r, s)
  BY <1>1, <1>2, <1>4, <1>5, <1>6, <1>7 DEF Ordered, StartOrder, ScalesToPlan
<1>9. Holds(r, saved)
  BY <1>1, <1>5, <1>6 DEF Orderly, LoadedIsSaved, Holds, Loaded, Phases, ScalesToPlan
<1> QED
  BY <1>1, <1>5, <1>6, <1>8, <1>9, StaysOrderly DEF StartPlans, file, seen, s

LEMMA PromotePlansOrderly ==
    ASSUME Alone, Orderly, Inv', NEW a \in Callers, NEW live, PromotePlans(a, live)
    PROVE  Orderly'
<1> DEFINE s == saved[call[a].on]
           rest == call[a].rest
           plan == PlanRollout(rest, NextWeight(State(a), Step), MaxPool(rest, Total))
           from == FirstCount(live, State(a).stable, rest)
           r == [call[a] EXCEPT !.from = from, !.plan = plan,
                                !.next = Active(plan, rest), !.at = FirstScale(plan, from)]
<1>1. call[a].at = "plan" /\ call[a].cmd = "promote" /\ call' = [call EXCEPT ![a] = r]
  BY DEF PromotePlans, At, Cmd
<1>2. State(a) = s /\ Ordered(call[a], s) /\ call[a] \in Calls
  BY <1>1, StateIsSaved, DoesInOrder, CallFacts DEF Loaded, Phases, ScalesToPlan, Orderly
<1>3. s.active /\ rest = RestOf(s) /\ ~Finishing(s)
  BY <1>1, <1>2 DEF Ordered, PromoteOrder, ScalesToPlan, Saving
<1>4. plan = Aim(s)
  BY <1>2, <1>3 DEF Aim
<1> HIDE DEF plan, from
<1>5. FirstScale(plan, from) \in {"stableUp", "canaryFirst"}
  BY DEF FirstScale
<1>6. /\ r.at = FirstScale(plan, from) /\ r.cmd = "promote" /\ r.rest = rest /\ r.on = call[a].on
      /\ r.loaded = call[a].loaded /\ r.next = Active(plan, rest) /\ r.plan = plan
  BY <1>1, <1>2 DEF Calls
<1> HIDE DEF r, s, rest
<1>7. Ordered(r, s)
  BY <1>3, <1>4, <1>5, <1>6 DEF Ordered, PromoteOrder, ScalesToPlan
<1>8. Holds(r, saved)
  BY <1>1, <1>5, <1>6 DEF Orderly, LoadedIsSaved, Holds, Loaded, Phases, ScalesToPlan
<1> QED
  BY <1>1, <1>5, <1>6, <1>7, <1>8, StaysOrderly DEF PromotePlans, file, seen, s

(* The rollback that evaluate runs reads the resting count off a planned   *)
(* rollout, so that no fallback count is needed.                           *)
LEMMA EvaluateRollsBackOrderly ==
    ASSUME Alone, Orderly, Inv', NEW a \in Callers, EvaluateRollsBack(a)
    PROVE  Orderly'
<1> DEFINE c == call[a].on
           rest == RestingFromState(LoadState(c)[c], NoCeiling)
           r == [Idle EXCEPT !.cmd = "rollback", !.on = c, !.at = "cut", !.loaded = LoadState(c),
                             !.rest = rest]
<1>1. call[a].at = "reload" /\ UNCHANGED <<text, recorded, saved>>
  BY DEF EvaluateRollsBack, At, file, seen
<1>2. c \in Components
  BY <1>1, CallFacts DEF Orderly
<1>3. /\ LoadState(c) = IF c = "api" THEN saved ELSE [NoStates EXCEPT ![c] = saved[c]]
      /\ LoadState(c)[c] = saved[c]
  BY <1>1, <1>2, FileSays DEF Orderly
<1>4. CASE saved[c].active
  <2>1. call' = [call EXCEPT ![a] = r]
    BY <1>3, <1>4 DEF EvaluateRollsBack
  <2>2. PICK k \in Counts, w \in Int : saved[c] = Planned(k, w)
    BY <1>2, <1>4 DEF Orderly, RecordsArePlans
  <2>3. saved[c].resting = k
    BY <2>2 DEF Planned, Active
  <2>4. rest = RestOf(saved[c])
    BY <1>3, <2>3 DEF RestOf, RestingFromState, FirstCount, Counts
  <2> HIDE DEF rest, c
  <2>5. r.cmd = "rollback" /\ r.on = c /\ r.at = "cut" /\ r.loaded = LoadState(c) /\ r.rest = rest
    BY DEF Idle
  <2> HIDE DEF r
  <2>6. Ordered(r, saved[c])
    BY <1>4, <2>4, <2>5 DEF Ordered, RollbackOrder, Saving
  <2>7. Holds(r, saved)
    BY <1>3, <2>5 DEF Holds
  <2> QED
    BY <1>1, <2>1, <2>5, <2>6, <2>7, StaysOrderly
<1>5. CASE ~saved[c].active
  <2>1. Return(a)
    BY <1>3, <1>5 DEF EvaluateRollsBack
  <2> QED
    BY <1>1, <2>1, ReturnsOrderly
<1> QED
  BY <1>4, <1>5

LEMMA ReadsOrderly ==
    ASSUME Alone, Orderly, NEW a \in Callers, Reads(a)
    PROVE  Orderly'
<1>1. Inv'
  BY ReadsKept DEF Orderly
<1>2. UNCHANGED <<text, recorded, saved>>
  BY DEF Reads, StartPlans, PromotePlans, ResetLooks, ResetLooksAtStable, PromoteFindsHealthy,
         PromoteFindsUnhealthy, PromotePassesGate, PromoteRefused, FinishWaits, DeployWaits,
         EvaluateHolds, EvaluateBreaches, EvaluateRollsBack, file, seen
<1>3. ASSUME NEW live \in Live(call[a].on), NEW w \in Weights, StartPlans(a, w, live)
      PROVE  Orderly'
  BY <1>1, <1>3, StartPlansOrderly DEF StartPlans, At
<1>4. ASSUME NEW live \in Live(call[a].on), PromotePlans(a, live)
      PROVE  Orderly'
  BY <1>1, <1>4, PromotePlansOrderly
<1>5. ASSUME NEW live \in Live(call[a].on), ResetLooks(a, live)
      PROVE  Orderly'
  BY <1>1, <1>2, <1>5, GoesOn, ReturnsOrderly DEF ResetLooks, At
<1>6. ASSUME NEW live \in Live(call[a].on), ResetLooksAtStable(a, live)
      PROVE  Orderly'
  BY <1>1, <1>2, <1>6, GoesOn, RecordsOrderly DEF ResetLooksAtStable, At
<1>7. CASE PromoteFindsHealthy(a)
  <2> DEFINE s == saved[call[a].on]
             r == [call[a] EXCEPT !.version = image[call[a].on].canary, !.at = "traffic"]
  <2>1. call[a].at = "health" /\ call' = [call EXCEPT ![a] = r]
    BY <1>7 DEF PromoteFindsHealthy, At
  <2>2. Ordered(call[a], s) /\ call[a] \in Calls
    BY <2>1, DoesInOrder, CallFacts DEF Orderly
  <2>3. /\ r.at = "traffic" /\ r.cmd = call[a].cmd /\ r.rest = call[a].rest /\ r.on = call[a].on
        /\ r.loaded = call[a].loaded
    BY <2>2 DEF Calls
  <2> HIDE DEF r, s
  <2>4. Ordered(r, s)
    BY <2>1, <2>2, <2>3
    DEF Ordered, StartOrder, PromoteOrder, RollbackOrder, ResetOrder, DeployOrder, Saving,
        ScalesToPlan
  <2>5. Holds(r, saved)
    BY <2>1, <2>3 DEF Orderly, LoadedIsSaved, Holds, Loaded, Phases, ScalesToPlan
  <2> QED
    BY <1>1, <1>2, <2>1, <2>3, <2>4, <2>5, StaysOrderly DEF s
<1>8. CASE PromoteFindsUnhealthy(a)
  BY <1>1, <1>2, <1>8, ReturnsOrderly DEF PromoteFindsUnhealthy, At
<1>9. ASSUME NEW force \in Forces, PromotePassesGate(a, force)
      PROVE  Orderly'
  <2>1. call[a].at = "traffic" /\ State(a) = saved[call[a].on]
    BY <1>9, StateIsSaved DEF PromotePassesGate, At, Loaded, Phases, ScalesToPlan
  <2>2. Goto(a, IF Finishing(saved[call[a].on]) THEN "setImage" ELSE "plan")
    BY <1>9, <2>1 DEF PromotePassesGate, Finishing
  <2> QED
    BY <1>1, <1>2, <2>1, <2>2, GoesOn
<1>10. CASE PromoteRefused(a)
  BY <1>1, <1>2, <1>10, ReturnsOrderly DEF PromoteRefused, At
<1>11. ASSUME NEW ready \in BOOLEAN, FinishWaits(a, ready)
       PROVE  Orderly'
  BY <1>1, <1>2, <1>11, GoesOn, ReturnsOrderly DEF FinishWaits, At
<1>12. ASSUME NEW ready \in BOOLEAN, DeployWaits(a, ready)
       PROVE  Orderly'
  BY <1>1, <1>2, <1>12, GoesOn, ReturnsOrderly DEF DeployWaits, At
<1>13. CASE EvaluateHolds(a)
  BY <1>1, <1>2, <1>13, ReturnsOrderly DEF EvaluateHolds, At
<1>14. CASE EvaluateBreaches(a)
  BY <1>1, <1>2, <1>14, GoesOn DEF EvaluateBreaches, At
<1>15. CASE EvaluateRollsBack(a)
  BY <1>1, <1>15, EvaluateRollsBackOrderly
<1> QED
  BY <1>3, <1>4, <1>5, <1>6, <1>7, <1>8, <1>9, <1>10, <1>11, <1>12, <1>13, <1>14, <1>15 DEF Reads

(* What a call that saves puts on record.                                  *)
LEMMA SavesAPlan ==
    ASSUME Orderly, NEW a \in Callers, call[a].at \in Saving, call[a].next.active
    PROVE  \E rest \in Counts, w \in Int : call[a].next = Planned(rest, w)
<1> DEFINE r == call[a]
           s == saved[call[a].on]
<1>1. Ordered(r, s) /\ r \in Calls /\ r.on \in Components
  BY DoesInOrder, CallFacts DEF Orderly, Saving
<1>2. CASE r.cmd = "start"
  <2>1. StartOrder(r, s)
    BY <1>1, <1>2 DEF Ordered
  <2>2. PICK w \in Weights : r.plan = PlanRollout(r.rest, Requested(w), MaxPool(r.rest, Total))
    BY <2>1 DEF StartOrder, Saving
  <2>3. r.next = Planned(r.rest, Requested(w)) /\ r.rest \in Counts
    BY <1>1, <2>1, <2>2 DEF StartOrder, Saving, Planned, Counts, Calls
  <2>4. Requested(w) \in Int
    BY CanaryAssumption DEF Requested, AtLeast, AtMost
  <2> QED
    BY <2>3, <2>4
<1>3. CASE r.cmd = "promote"
  <2>1. PromoteOrder(r, s)
    BY <1>1, <1>3 DEF Ordered
  <2>2. r.next = Active(Aim(s), RestOf(s)) \/ r.next = Ended(s, RestOf(s))
    BY <2>1 DEF PromoteOrder, Saving
  <2>3. s \in States
    BY <1>1 DEF Orderly, Inv, TypeOK, SeenOK
  <2>4. r.next # Ended(s, RestOf(s))
    BY <2>3 DEF Ended, States
  <2>5. r.next = Planned(RestOf(s), NextWeight(s, Step))
    BY <2>2, <2>4 DEF Aim, Planned
  <2>6. RestOf(s) \in Counts
    BY <2>3, RestType, CanaryAssumption DEF RestOf, Counts
  <2>7. NextWeight(s, Step) \in Int
    BY <2>3, CanaryAssumption DEF NextWeight, AtMost, AtLeast, States
  <2> QED
    BY <2>5, <2>6, <2>7
<1>4. CASE r.cmd = "rollback"
  <2>1. s \in States /\ r.next = Ended(s, RestOf(s))
    BY <1>1, <1>4 DEF Ordered, RollbackOrder, Orderly, Inv, TypeOK, SeenOK
  <2> QED
    BY <2>1 DEF Ended, States
<1>5. CASE r.cmd = "reset"
  BY <1>1, <1>5 DEF Ordered, ResetOrder
<1>6. CASE r.cmd = "deploy"
  <2>1. r.next = s
    BY <1>1, <1>6 DEF Ordered, DeployOrder
  <2> QED
    BY <1>1, <2>1 DEF Orderly, RecordsArePlans
<1>7. CASE r.cmd = "evaluate"
  BY <1>1, <1>7 DEF Ordered, Saving
<1> QED
  BY <1>1, <1>2, <1>3, <1>4, <1>5, <1>6, <1>7 DEF Ordered

LEMMA SavesOrderly ==
    ASSUME Alone, Orderly, NEW a \in Callers, Saves(a)
    PROVE  Orderly'
<1>1. Inv'
  BY SavesKept DEF Orderly
<1>2. \A b \in Callers : b = a
  BY DEF Alone
<1>3. call \in [Callers -> Calls]
  BY DEF Orderly, Inv, TypeOK, CallsOK
<1>4. CASE DeployLoads(a)
  <2> DEFINE c == call[a].on
             r == [call[a] EXCEPT !.loaded = LoadState(c), !.next = LoadState(c)[c], !.at = "merge"]
  <2>1. call[a].at = "load" /\ call' = [call EXCEPT ![a] = r] /\ UNCHANGED <<text, recorded, saved>>
    BY <1>4 DEF DeployLoads, At, file, seen
  <2>2. c \in Components /\ Ordered(call[a], saved[c]) /\ call[a] \in Calls
    BY <2>1, DoesInOrder, CallFacts DEF Orderly
  <2>3. /\ LoadState(c) = IF c = "api" THEN saved ELSE [NoStates EXCEPT ![c] = saved[c]]
        /\ LoadState(c)[c] = saved[c]
    BY <2>1, <2>2, FileSays DEF Orderly
  <2>4. /\ r.at = "merge" /\ r.cmd = call[a].cmd /\ r.on = c
        /\ r.loaded = LoadState(c) /\ r.next = saved[c]
    BY <2>2, <2>3 DEF Calls
  <2> HIDE DEF r, c
  <2>5. Ordered(r, saved[c])
    BY <2>1, <2>2, <2>4
    DEF Ordered, StartOrder, PromoteOrder, RollbackOrder, ResetOrder, DeployOrder, Saving,
        ScalesToPlan
  <2>6. Holds(r, saved)
    BY <2>3, <2>4 DEF Holds
  <2> QED
    BY <1>1, <2>1, <2>4, <2>5, <2>6, StaysOrderly
<1>5. CASE Merge(a)
  <2> DEFINE c == call[a].on
             base == IF c = "api" THEN call[a].loaded ELSE Readable
             new == [base EXCEPT ![c] = call[a].next]
             r == [call[a] EXCEPT !.loaded = new, !.at = "truncate"]
  <2>1. call[a].at = "merge" /\ call' = [call EXCEPT ![a] = r] /\ UNCHANGED <<text, recorded, saved>>
    BY <1>5 DEF Merge, At, file, seen
  <2>2. c \in Components /\ Ordered(call[a], saved[c]) /\ call[a] \in Calls
    BY <2>1, DoesInOrder, CallFacts DEF Orderly
  <2>3. Readable = saved
    BY <2>1, <2>2, FileSays DEF Orderly
  <2>4. base = saved
    BY <2>1, <2>3 DEF Orderly, LoadedIsSaved, Holds, Loaded, Phases
  <2>5. new = [saved EXCEPT ![c] = call[a].next]
    BY <2>4
  <2> HIDE DEF base, new
  <2>6. /\ r.at = "truncate" /\ r.cmd = call[a].cmd /\ r.on = c /\ r.rest = call[a].rest
        /\ r.plan = call[a].plan /\ r.loaded = new /\ r.next = call[a].next
    BY <2>2 DEF Calls
  <2> HIDE DEF r, c
  <2>7. Ordered(r, saved[c])
    BY <2>1, <2>2, <2>6
    DEF Ordered, StartOrder, PromoteOrder, RollbackOrder, ResetOrder, DeployOrder, Saving,
        ScalesToPlan
  <2>8. Holds(r, saved)
    BY <2>5, <2>6 DEF Holds, Loaded, c
  <2> QED
    BY <1>1, <2>1, <2>6, <2>7, <2>8, StaysOrderly
<1>6. CASE Truncate(a)
  <2> DEFINE s == saved[call[a].on]
             r == [call[a] EXCEPT !.at = "write"]
  <2>1. call[a].at = "truncate" /\ call' = [call EXCEPT ![a] = r] /\ UNCHANGED saved
    BY <1>6 DEF Truncate, Goto, At, seen
  <2>2. Ordered(call[a], s) /\ call[a] \in Calls
    BY <2>1, DoesInOrder, CallFacts DEF Orderly
  <2>3. Ordered(r, s)
    BY <2>1, <2>2, GoesInOrder
  <2>4. r.at = "write" /\ r.on = call[a].on /\ r.loaded = call[a].loaded /\ r.next = call[a].next
    BY <2>2 DEF Calls
  <2> HIDE DEF r
  <2>5. call'[a] = r
    BY <1>3, <2>1
  <2>6. FileIsSaved'
    BY <1>2, <1>6, <2>4, <2>5 DEF Truncate, FileIsSaved, At
  <2>7. LoadedIsSaved'
    BY <1>2, <2>1, <2>4, <2>5 DEF Orderly, LoadedIsSaved, Holds, Loaded
  <2>8. InOrder' /\ RecordsArePlans'
    BY <1>2, <2>1, <2>3, <2>4, <2>5 DEF Orderly, InOrder, RecordsArePlans
  <2> QED
    BY <1>1, <2>6, <2>7, <2>8 DEF Orderly
<1>7. CASE Write(a)
  <2> DEFINE c == call[a].on
  <2>1. /\ call[a].at = "write" /\ call'[a] = Idle /\ c \in Components
        /\ saved' = [saved EXCEPT ![c] = call[a].next]
    BY <1>3, <1>7, CallFacts DEF Write, At, Return, Orderly
  <2>2. text = "none" /\ call[a].loaded = [saved EXCEPT ![c] = call[a].next]
    BY <2>1 DEF Orderly, FileIsSaved, LoadedIsSaved, Holds, At
  <2>3. text' = "json" /\ recorded' = saved'
    BY <1>7, <2>1, <2>2 DEF Write
  <2>4. Idle.at = "idle"
    BY DEF Idle
  <2>5. FileIsSaved' /\ LoadedIsSaved' /\ InOrder'
    BY <1>2, <2>1, <2>3, <2>4 DEF FileIsSaved, LoadedIsSaved, Holds, InOrder, At, Loaded
  <2>6. RecordsArePlans'
    <3> SUFFICES ASSUME NEW d \in Components, saved'[d].active
                 PROVE  \E rest \in Counts, w \in Int : saved'[d] = Planned(rest, w)
      BY DEF RecordsArePlans, Planned
    <3>1. saved'[d] = IF d = c THEN call[a].next ELSE saved[d]
      BY <2>1 DEF Orderly, Inv, TypeOK, SeenOK
    <3> QED
      BY <2>1, <3>1, SavesAPlan DEF Orderly, RecordsArePlans, Saving
  <2> QED
    BY <1>1, <2>5, <2>6 DEF Orderly
<1> QED
  BY <1>4, <1>5, <1>6, <1>7 DEF Saves

LEMMA DisturbsOrderly ==
    ASSUME Alone, Orderly, Disturbs
    PROVE  Orderly'
<1>1. Inv'
  BY DisturbsKept DEF Orderly
<1>2. UNCHANGED <<text, recorded, call, saved>> => Orderly'
  BY <1>1 DEF Orderly, FileIsSaved, LoadedIsSaved, InOrder, RecordsArePlans, At
<1>3. ASSUME NEW c \in Components, Serve(c)
      PROVE  Orderly'
  BY <1>2, <1>3 DEF Serve, file
<1>4. ASSUME NEW c \in Components, NEW n \in HandCounts, ScaleByHand(c, n)
      PROVE  Orderly'
  BY <1>2, <1>4 DEF ScaleByHand, file
<1>5. Idle.at = "idle" /\ \A c \in Components : NoStates[c].active = FALSE
  BY DEF Idle, NoStates, NoRollout
<1>6. ASSUME NEW a \in Callers, Crash(a)
      PROVE  Orderly'
  <2>1. Return(a) /\ UNCHANGED <<text, recorded>>
    BY <1>6 DEF Crash, file
  <2>2. CASE call[a].at # "write"
    BY <1>1, <1>6, <2>1, <2>2, ReturnsOrderly DEF Crash, At
  <2>3. CASE call[a].at = "write"
    <3>1. saved' = NoStates /\ text = "none"
      BY <1>6, <2>3 DEF Crash, At, Orderly, FileIsSaved
    <3>2. \A b \in Callers : call'[b] = Idle
      BY <2>1 DEF Alone, Return, Orderly, Inv, TypeOK, CallsOK
    <3>3. FileIsSaved' /\ LoadedIsSaved' /\ InOrder'
      BY <1>5, <2>1, <3>1, <3>2 DEF FileIsSaved, LoadedIsSaved, Holds, InOrder, At, Loaded
    <3>4. RecordsArePlans'
      BY <1>5, <3>1 DEF RecordsArePlans
    <3> QED
      BY <1>1, <3>3, <3>4 DEF Orderly
  <2> QED
    BY <2>2, <2>3
<1>7. CASE LoseFile
  <2>1. text' = "none" /\ saved' = NoStates /\ \A b \in Callers : call'[b] = Idle
    BY <1>7 DEF LoseFile
  <2>2. FileIsSaved' /\ LoadedIsSaved' /\ InOrder'
    BY <1>5, <2>1 DEF FileIsSaved, LoadedIsSaved, Holds, InOrder, At, Loaded
  <2>3. RecordsArePlans'
    BY <1>5, <2>1 DEF RecordsArePlans
  <2> QED
    BY <1>1, <2>2, <2>3 DEF Orderly
<1> QED
  BY <1>3, <1>4, <1>6, <1>7 DEF Disturbs

LEMMA OrderlyInit == Init => Orderly
<1> SUFFICES ASSUME Init PROVE Orderly
  OBVIOUS
<1>1. Idle.at = "idle" /\ \A c \in Components : NoStates[c].active = FALSE
  BY DEF Idle, NoStates, NoRollout
<1>2. FileIsSaved /\ LoadedIsSaved /\ InOrder
  BY <1>1 DEF Init, FileIsSaved, LoadedIsSaved, Holds, InOrder, At, Loaded
<1>3. RecordsArePlans
  BY <1>1 DEF Init, RecordsArePlans
<1> QED
  BY <1>2, <1>3, InvInit DEF Orderly

LEMMA OrderlyNext ==
    ASSUME Alone
    PROVE  Orderly /\ [Next]_vars => Orderly'
<1> SUFFICES ASSUME Orderly, [Next]_vars PROVE Orderly'
  OBVIOUS
<1>1. CASE UNCHANGED vars
  BY <1>1, InvNext DEF vars, Orderly, FileIsSaved, LoadedIsSaved, InOrder, RecordsArePlans, At
<1>2. CASE Next
  BY <1>2, LoadsOrderly, ScalesOrderly, ImagesOrderly, ReadsOrderly, SavesOrderly, DisturbsOrderly
  DEF Next, Proceeds
<1> QED
  BY <1>1, <1>2

(* Commands that run one at a time do not collide in the file: what it     *)
(* says of a component is what a command on that component wrote last.     *)
THEOREM AloneTheyNeverCollide ==
    ASSUME Alone
    PROVE  Spec => []NeverCollide
<1>1. Orderly => NeverCollide
  BY DEF Orderly, FileIsSaved, NeverCollide
<1> QED
  BY OrderlyInit, OrderlyNext, <1>1, PTL DEF Spec

-----------------------------------------------------------------------------
(* _scale_pool, one command at a time *)

(* A call r on a component with n stable and k canary replicas grows stable when its plan has  *)
(* more of it than the call knows of, and goes on once it has what it asked for.               *)
ScaleOrder(r, n, k) ==
    /\ r.at = "stableUp" => r.plan.stable > r.from
    /\ r.at = "canaryUp" => n = r.plan.stable
    /\ r.at = "canaryFirst" => r.plan.stable <= r.from
    /\ r.at = "stableDown" => k = r.plan.canary

ScalesInOrder == \A a \in Callers : ScaleOrder(call[a], stable[call[a].on], canary[call[a].on])

(* A call that is not scaling has nothing to keep.                         *)
LEMMA OthersScaleNothing ==
    ASSUME Alone, Inv, NEW a \in Callers, NEW r, call' = [call EXCEPT ![a] = r],
           r.at \in ScalesToPlan => ScaleOrder(r, stable'[r.on], canary'[r.on])
    PROVE  ScalesInOrder'
<1>1. \A b \in Callers : b = a /\ call'[b] = r
  BY DEF Alone, Inv, TypeOK, CallsOK
<1>2. ScaleOrder(r, stable'[r.on], canary'[r.on])
  BY DEF ScaleOrder, ScalesToPlan
<1> QED
  BY <1>1, <1>2 DEF ScalesInOrder

LEMMA GoesElsewhere ==
    ASSUME Alone, Inv, NEW a \in Callers, NEW pc, pc \notin ScalesToPlan,
           Goto(a, pc) \/ Return(a)
    PROVE  ScalesInOrder'
<1>1. call[a] \in Calls
  BY DEF Inv, TypeOK, CallsOK
<1>2. CASE Goto(a, pc)
  <2>1. [call[a] EXCEPT !.at = pc].at = pc
    BY <1>1 DEF Calls
  <2> QED
    BY <1>2, <2>1, OthersScaleNothing DEF Goto
<1>3. CASE Return(a)
  <2>1. Idle.at \notin ScalesToPlan
    BY DEF Idle, ScalesToPlan
  <2> QED
    BY <1>3, <2>1, OthersScaleNothing DEF Return
<1> QED
  BY <1>2, <1>3

LEMMA RecordsElsewhere ==
    ASSUME Alone, Orderly, NEW a \in Callers, call[a].at # "idle", ResetRecords(a)
    PROVE  ScalesInOrder'
<1> DEFINE r == [call[a] EXCEPT !.next = State(a), !.at = "merge"]
<1>1. call' = [call EXCEPT ![a] = r]
  BY DEF ResetRecords
<1>2. r.at = "merge"
  BY CallFacts DEF Calls, Orderly
<1> HIDE DEF r
<1> QED
  BY <1>1, <1>2, OthersScaleNothing DEF Orderly, ScalesToPlan

LEMMA ScalesStayInOrder ==
    ASSUME Alone, Orderly, ScalesInOrder, NEW a \in Callers, Scales(a)
    PROVE  ScalesInOrder'
<1> PICK result \in Results :
        \/ StableUp(a, result) \/ CanaryUp(a, result) \/ Undo(a, result)
        \/ CanaryFirst(a, result) \/ StableDown(a, result)
        \/ Cut(a, result) \/ Restore(a, result) \/ ResetDeflates(a, result)
  BY DEF Scales
<1> USE DEF Orderly, ScalesToPlan
<1>1. call[a] \in Calls /\ (call[a].at # "idle" => call[a].on \in Components)
  BY CallFacts
<1>2. stable \in [Components -> Nat] /\ canary \in [Components -> Nat]
  BY DEF Inv, TypeOK, ClusterOK
<1>3. CASE StableUp(a, result)
  <2>1. CASE result = "done"
    <3> DEFINE r == [call[a] EXCEPT !.at = "canaryUp"]
    <3>1. call[a].at = "stableUp" /\ call' = [call EXCEPT ![a] = r]
      BY <1>3, <2>1 DEF StableUp, At, Goto
    <3>2. r.at = "canaryUp" /\ r.on = call[a].on /\ r.plan = call[a].plan
      BY <1>1 DEF Calls
    <3>3. stable'[call[a].on] = call[a].plan.stable
      BY <1>1, <1>2, <1>3, <2>1, <3>1 DEF StableUp, ScaleStable, Applied
    <3> HIDE DEF r
    <3>4. ScaleOrder(r, stable'[r.on], canary'[r.on])
      BY <3>2, <3>3 DEF ScaleOrder
    <3> QED
      BY <3>1, <3>4, OthersScaleNothing
  <2>2. CASE result # "done"
    BY <1>3, <2>2, GoesElsewhere DEF StableUp
  <2> QED
    BY <2>1, <2>2
<1>4. CASE CanaryUp(a, result)
  BY <1>4, GoesElsewhere DEF CanaryUp
<1>5. CASE Undo(a, result)
  BY <1>5, GoesElsewhere DEF Undo
<1>6. CASE CanaryFirst(a, result)
  <2>1. CASE result = "done"
    <3> DEFINE r == [call[a] EXCEPT !.at = "stableDown"]
    <3>1. call[a].at = "canaryFirst" /\ call' = [call EXCEPT ![a] = r]
      BY <1>6, <2>1 DEF CanaryFirst, At, Goto
    <3>2. r.at = "stableDown" /\ r.on = call[a].on /\ r.plan = call[a].plan
      BY <1>1 DEF Calls
    <3>3. canary'[call[a].on] = call[a].plan.canary
      BY <1>1, <1>2, <1>6, <2>1, <3>1 DEF CanaryFirst, ScaleCanary, Applied
    <3> HIDE DEF r
    <3>4. ScaleOrder(r, stable'[r.on], canary'[r.on])
      BY <3>2, <3>3 DEF ScaleOrder
    <3> QED
      BY <3>1, <3>4, OthersScaleNothing
  <2>2. CASE result # "done"
    BY <1>6, <2>2, GoesElsewhere DEF CanaryFirst
  <2> QED
    BY <2>1, <2>2
<1>7. CASE StableDown(a, result)
  BY <1>7, GoesElsewhere DEF StableDown
<1>8. CASE Cut(a, result)
  BY <1>8, GoesElsewhere DEF Cut
<1>9. CASE Restore(a, result)
  <2>1. [call[a] EXCEPT !.next = Ended(State(a), call[a].rest), !.at = "merge"].at = "merge"
    BY <1>1 DEF Calls
  <2> QED
    BY <1>9, <2>1, OthersScaleNothing DEF Restore
<1>10. CASE ResetDeflates(a, result)
  BY <1>10, RecordsElsewhere DEF ResetDeflates, At
<1> QED
  BY <1>3, <1>4, <1>5, <1>6, <1>7, <1>8, <1>9, <1>10

LEMMA ReadsScaleInOrder ==
    ASSUME Alone, Orderly, ScalesInOrder, NEW a \in Callers, Reads(a)
    PROVE  ScalesInOrder'
<1> USE DEF Orderly, ScalesToPlan
<1>1. call[a] \in Calls /\ (call[a].at # "idle" => call[a].on \in Components)
  BY CallFacts
<1>2. stable \in [Components -> Nat] /\ canary \in [Components -> Nat]
  BY DEF Inv, TypeOK, ClusterOK
<1>3. ASSUME NEW plan, NEW from, NEW r,
             call' = [call EXCEPT ![a] = r],
             r.at = FirstScale(plan, from), r.from = from, r.plan = plan,
             from \in Nat, plan.stable \in Nat
      PROVE  ScalesInOrder'
  <2>1. ScaleOrder(r, stable'[r.on], canary'[r.on])
    BY <1>3 DEF ScaleOrder, FirstScale
  <2> QED
    BY <1>3, <2>1, OthersScaleNothing
<1>4. ASSUME NEW live \in Live(call[a].on), NEW w \in Weights, StartPlans(a, w, live)
      PROVE  ScalesInOrder'
  <2> DEFINE rest == RestingFromLive(live)
             plan == PlanRollout(rest, Requested(w), MaxPool(rest, Total))
             r == [call[a] EXCEPT !.rest = rest, !.from = rest, !.plan = plan,
                                  !.next = Active(plan, rest), !.at = FirstScale(plan, rest)]
  <2>1. call' = [call EXCEPT ![a] = r] /\ call[a].at = "plan"
    BY <1>4 DEF StartPlans, At
  <2>2. live \in Int
    BY <1>1, <1>2, <2>1 DEF Live, Unread
  <2>3. rest \in Nat /\ Requested(w) \in Int
    BY <2>2, RestoresAtLeastOne, CanaryAssumption DEF Requested, AtLeast, AtMost
  <2>4. plan.stable \in Nat
    BY <2>3, PlanType DEF Plans
  <2> HIDE DEF plan, rest
  <2>5. r.at = FirstScale(plan, rest) /\ r.from = rest /\ r.plan = plan
    BY <1>1 DEF Calls
  <2> HIDE DEF r
  <2> QED
    BY <1>3, <2>1, <2>3, <2>4, <2>5
<1>5. ASSUME NEW live \in Live(call[a].on), PromotePlans(a, live)
      PROVE  ScalesInOrder'
  <2> DEFINE rest == call[a].rest
             plan == PlanRollout(rest, NextWeight(State(a), Step), MaxPool(rest, Total))
             from == FirstCount(live, State(a).stable, rest)
             r == [call[a] EXCEPT !.from = from, !.plan = plan,
                                  !.next = Active(plan, rest), !.at = FirstScale(plan, from)]
  <2>1. call' = [call EXCEPT ![a] = r] /\ call[a].at = "plan"
    BY <1>5 DEF PromotePlans, At
  <2>2. live \in Int /\ rest \in Nat /\ State(a) \in States
    BY <1>1, <1>2, <2>1, CallFacts DEF Live, Unread, Calls
  <2>3. State(a).stable \in Int /\ NextWeight(State(a), Step) \in Int
    BY <2>2, CanaryAssumption DEF States, NextWeight, AtMost, AtLeast
  <2>4. from \in Nat
    <3>1. rest \in Int
      BY <2>2
    <3> QED
      BY <2>2, <2>3, <3>1, RestoresAtLeastOne, Zenon
  <2>5. plan.stable \in Nat
    BY <2>2, <2>3, PlanType DEF Plans
  <2> HIDE DEF plan, rest, from
  <2>6. r.at = FirstScale(plan, from) /\ r.from = from /\ r.plan = plan
    BY <1>1 DEF Calls
  <2> HIDE DEF r
  <2> QED
    BY <1>3, <2>1, <2>4, <2>5, <2>6
<1>6. ASSUME NEW live \in Live(call[a].on), ResetLooks(a, live)
      PROVE  ScalesInOrder'
  BY <1>6, GoesElsewhere DEF ResetLooks
<1>7. ASSUME NEW live \in Live(call[a].on), ResetLooksAtStable(a, live)
      PROVE  ScalesInOrder'
  BY <1>7, RecordsElsewhere, GoesElsewhere DEF ResetLooksAtStable, At
<1>8. CASE PromoteFindsHealthy(a)
  <2>1. [call[a] EXCEPT !.version = image[call[a].on].canary, !.at = "traffic"].at = "traffic"
    BY <1>1 DEF Calls
  <2> QED
    BY <1>8, <2>1, OthersScaleNothing DEF PromoteFindsHealthy
<1>9. CASE PromoteFindsUnhealthy(a)
  BY <1>9, GoesElsewhere DEF PromoteFindsUnhealthy
<1>10. ASSUME NEW force \in Forces, PromotePassesGate(a, force)
       PROVE  ScalesInOrder'
  BY <1>10, GoesElsewhere DEF PromotePassesGate
<1>11. CASE PromoteRefused(a)
  BY <1>11, GoesElsewhere DEF PromoteRefused
<1>12. ASSUME NEW ready \in BOOLEAN, FinishWaits(a, ready) \/ DeployWaits(a, ready)
       PROVE  ScalesInOrder'
  BY <1>12, GoesElsewhere DEF FinishWaits, DeployWaits
<1>13. CASE EvaluateHolds(a) \/ EvaluateBreaches(a)
  BY <1>13, GoesElsewhere DEF EvaluateHolds, EvaluateBreaches
<1>14. CASE EvaluateRollsBack(a)
  <2> DEFINE c == call[a].on
             r == [Idle EXCEPT !.cmd = "rollback", !.on = c, !.at = "cut", !.loaded = LoadState(c),
                               !.rest = RestingFromState(LoadState(c)[c], NoCeiling)]
  <2>1. r.at = "cut"
    BY DEF Idle
  <2>2. call' = [call EXCEPT ![a] = r] \/ Return(a)
    BY <1>14 DEF EvaluateRollsBack
  <2> HIDE DEF r
  <2> QED
    BY <2>1, <2>2, GoesElsewhere, OthersScaleNothing
<1> QED
  BY <1>4, <1>5, <1>6, <1>7, <1>8, <1>9, <1>10, <1>11, <1>12, <1>13, <1>14 DEF Reads

LEMMA ScalesInOrderInit == Init => ScalesInOrder
<1>1. Idle.at = "idle"
  BY DEF Idle
<1> QED
  BY <1>1 DEF Init, ScalesInOrder, ScaleOrder

LEMMA ScalesInOrderNext ==
    ASSUME Alone
    PROVE  Orderly /\ ScalesInOrder /\ [Next]_vars => ScalesInOrder'
<1> SUFFICES ASSUME Orderly, ScalesInOrder, [Next]_vars PROVE ScalesInOrder'
  OBVIOUS
<1> USE DEF Orderly, ScalesToPlan
<1>1. CASE UNCHANGED vars
  BY <1>1 DEF vars, ScalesInOrder
<1>2. ASSUME NEW a \in Callers, NEW c \in Components, Loads(a, c)
      PROVE  ScalesInOrder'
  <2>1. ASSUME NEW cmd, NEW pc, pc \notin ScalesToPlan, NEW rest, Begin(a, cmd, c, pc, rest)
        PROVE  ScalesInOrder'
    <3> DEFINE r == [Idle EXCEPT !.cmd = cmd, !.on = c, !.at = pc,
                                 !.loaded = LoadState(c), !.rest = rest]
    <3>1. call' = [call EXCEPT ![a] = r] /\ r.at = pc
      BY <2>1 DEF Begin, Idle
    <3> HIDE DEF r
    <3> QED
      BY <2>1, <3>1, OthersScaleNothing
  <2>2. ASSUME NEW v \in Versions, DeployBuilds(a, c, v)
        PROVE  ScalesInOrder'
    <3> DEFINE r == [Idle EXCEPT !.cmd = "deploy", !.on = c, !.at = "setCanaryImage",
                                 !.version = v]
    <3>1. call' = [call EXCEPT ![a] = r] /\ r.at = "setCanaryImage"
      BY <2>2 DEF DeployBuilds, Idle
    <3> HIDE DEF r
    <3> QED
      BY <3>1, OthersScaleNothing
  <2> QED
    BY <1>2, <2>1, <2>2
    DEF Loads, StartLoads, PromoteLoads, RollbackLoads, ResetLoads, EvaluateLoads
<1>3. ASSUME NEW a \in Callers, Images(a)
      PROVE  ScalesInOrder'
  BY <1>3, GoesElsewhere DEF Images, FinishSetsImage, DeploySetsImage
<1>4. ASSUME NEW a \in Callers, Saves(a)
      PROVE  ScalesInOrder'
  <2>1. call[a] \in Calls
    BY CallFacts
  <2>2. CASE DeployLoads(a)
    <3> DEFINE c == call[a].on
               r == [call[a] EXCEPT !.loaded = LoadState(c), !.next = LoadState(c)[c],
                                    !.at = "merge"]
    <3>1. call' = [call EXCEPT ![a] = r] /\ r.at = "merge"
      BY <2>1, <2>2 DEF DeployLoads, Calls
    <3> HIDE DEF r
    <3> QED
      BY <3>1, OthersScaleNothing
  <2>3. CASE Merge(a)
    <3> DEFINE c == call[a].on
               base == IF c = "api" THEN call[a].loaded ELSE Readable
               r == [call[a] EXCEPT !.loaded = [base EXCEPT ![c] = call[a].next], !.at = "truncate"]
    <3>1. call' = [call EXCEPT ![a] = r]
      BY <2>3 DEF Merge
    <3> HIDE DEF base
    <3>2. r.at = "truncate"
      BY <2>1 DEF Calls
    <3> HIDE DEF r
    <3> QED
      BY <3>1, <3>2, OthersScaleNothing
  <2>4. CASE Truncate(a)
    BY <2>4, GoesElsewhere DEF Truncate
  <2>5. CASE Write(a)
    BY <2>5, GoesElsewhere DEF Write
  <2> QED
    BY <1>4, <2>2, <2>3, <2>4, <2>5 DEF Saves
<1>5. ASSUME NEW c \in Components, Serve(c)
      PROVE  ScalesInOrder'
  BY <1>5 DEF Serve, ScalesInOrder
<1>6. ASSUME NEW c \in Components, NEW n \in HandCounts, ScaleByHand(c, n)
      PROVE  ScalesInOrder'
  BY <1>6 DEF ScaleByHand, Settled, ScalesInOrder, ScaleOrder, Inv, TypeOK, ClusterOK
<1>7. ASSUME NEW a \in Callers, Crash(a)
      PROVE  ScalesInOrder'
  BY <1>7, GoesElsewhere DEF Crash
<1>8. CASE LoseFile
  <2>1. Idle.at = "idle" /\ \A a \in Callers : call'[a] = Idle
    BY <1>8 DEF LoseFile, Idle
  <2> QED
    BY <2>1 DEF ScalesInOrder, ScaleOrder
<1> QED
  BY <1>1, <1>2, <1>3, <1>4, <1>5, <1>6, <1>7, <1>8, ScalesStayInOrder, ReadsScaleInOrder
  DEF Next, Proceeds, Disturbs

(* A product grows with one of its factors.                                *)
LEMMA TimesKeepsOrder ==
    ASSUME NEW k \in Nat, NEW x \in Nat, NEW y \in Nat, x <= y
    PROVE  k * x <= k * y
OBVIOUS

(* The tracks of a component scaled in order: towards the plan, and not past it. *)
LEMMA ScaledInOrder ==
    ASSUME NEW n \in Nat, NEW k \in Nat, NEW m \in Nat, NEW l \in Nat,
           NEW ps \in Nat, NEW pc \in Nat,
           \/ m = n /\ l = k
           \/ ps > n /\ m = ps /\ l = k
           \/ n = ps /\ m = n /\ l = pc
           \/ ps <= n /\ m = n /\ l = pc
           \/ k = pc /\ l = k /\ m = ps
    PROVE  /\ l * (k + n) <= k * (l + m) \/ l * (pc + ps) <= pc * (l + m)
           /\ l + m >= k + n \/ l + m >= pc + ps
<1>1. CASE m = n /\ l = k
  BY <1>1
<1>2. CASE ps > n /\ m = ps /\ l = k
  <2>1. k * (k + n) <= k * (k + m)
    BY <1>2, TimesKeepsOrder
  <2> QED
    BY <1>2, <2>1
<1>3. CASE n = ps /\ m = n /\ l = pc
  BY <1>3
<1>4. CASE ps <= n /\ m = n /\ l = pc
  <2>1. pc * (pc + ps) <= pc * (pc + n)
    BY <1>4, TimesKeepsOrder
  <2> QED
    BY <1>4, <2>1
<1>5. CASE k = pc /\ l = k /\ m = ps
  BY <1>5
<1> QED
  BY <1>1, <1>2, <1>3, <1>4, <1>5

(* What any step does to the tracks of a component that is being scaled.   *)
LEMMA StepsScaleInOrder ==
    ASSUME Alone, Orderly, ScalesInOrder, Next, NEW a \in Callers, NEW c \in Components,
           Rescaled(a, c)
    PROVE  LET plan == call[a].plan IN
           \/ stable'[c] = stable[c] /\ canary'[c] = canary[c]
           \/ plan.stable > stable[c] /\ stable'[c] = plan.stable /\ canary'[c] = canary[c]
           \/ stable[c] = plan.stable /\ stable'[c] = stable[c] /\ canary'[c] = plan.canary
           \/ plan.stable <= stable[c] /\ stable'[c] = stable[c] /\ canary'[c] = plan.canary
           \/ canary[c] = plan.canary /\ canary'[c] = canary[c] /\ stable'[c] = plan.stable
<1> USE DEF Orderly
<1>1. stable \in [Components -> Nat] /\ canary \in [Components -> Nat]
  BY DEF Inv, TypeOK, ClusterOK
<1>2. call[a].on = c /\ ScaleOrder(call[a], stable[c], canary[c])
  BY DEF Rescaled, ScalesInOrder
<1>3. CASE UNCHANGED <<stable, canary>>
  BY <1>3
<1>4. CASE Scales(a)
  <2> PICK result \in Results :
        \/ StableUp(a, result) \/ CanaryUp(a, result) \/ Undo(a, result)
        \/ CanaryFirst(a, result) \/ StableDown(a, result)
        \/ Cut(a, result) \/ Restore(a, result) \/ ResetDeflates(a, result)
    BY <1>4 DEF Scales
  <2>1. CASE StableUp(a, result)
    BY <1>1, <1>2, <2>1 DEF StableUp, ScaleStable, ScaleOrder, Rescaled, At
  <2>2. CASE CanaryUp(a, result)
    BY <1>1, <1>2, <2>2 DEF CanaryUp, ScaleCanary, ScaleOrder, Rescaled, At
  <2>3. CASE CanaryFirst(a, result)
    BY <1>1, <1>2, <2>3 DEF CanaryFirst, ScaleCanary, ScaleOrder, Rescaled, At
  <2>4. CASE StableDown(a, result)
    BY <1>1, <1>2, <2>4 DEF StableDown, ScaleStable, ScaleOrder, Rescaled, At
  <2>5. CASE Undo(a, result) \/ Cut(a, result) \/ Restore(a, result) \/ ResetDeflates(a, result)
    BY <2>5 DEF Undo, Cut, Restore, ResetDeflates, Rescaled, ScalesToPlan, At
  <2> QED
    BY <2>1, <2>2, <2>3, <2>4, <2>5
<1>5. ASSUME NEW d \in Components, NEW n \in HandCounts, ScaleByHand(d, n)
      PROVE  stable'[c] = stable[c] /\ canary'[c] = canary[c]
  <2>1. d # c
    BY <1>2, <1>5 DEF ScaleByHand, Settled
  <2> QED
    BY <1>1, <1>5, <2>1 DEF ScaleByHand
<1>6. \A b \in Callers : b = a
  BY DEF Alone
<1>7. (\E d \in Components : Loads(a, d)) => UNCHANGED <<stable, canary>>
  BY DEF Loads, StartLoads, PromoteLoads, RollbackLoads, ResetLoads, EvaluateLoads, DeployBuilds,
         Begin, cluster
<1>8. Images(a) => UNCHANGED <<stable, canary>>
  BY DEF Images, FinishSetsImage, DeploySetsImage, SetImage
<1>9. Reads(a) => UNCHANGED <<stable, canary>>
  BY DEF Reads, StartPlans, PromotePlans, ResetLooks, ResetLooksAtStable, PromoteFindsHealthy,
         PromoteFindsUnhealthy, PromotePassesGate, PromoteRefused, FinishWaits, DeployWaits,
         EvaluateHolds, EvaluateBreaches, EvaluateRollsBack, cluster
<1>10. Saves(a) => UNCHANGED <<stable, canary>>
  BY DEF Saves, DeployLoads, Merge, Truncate, Write, cluster
<1>11. (\E d \in Components : Serve(d)) \/ Crash(a) \/ LoseFile => UNCHANGED <<stable, canary>>
  BY DEF Serve, Crash, LoseFile, cluster
<1> QED
  BY <1>3, <1>4, <1>5, <1>6, <1>7, <1>8, <1>9, <1>10, <1>11 DEF Next, Proceeds, Disturbs

(* Commands that run one at a time scale the two tracks in the order that  *)
(* keeps the canary's share, and the pool, between what they were and what *)
(* is planned: whatever is refused or lost, and whatever the plan, as long *)
(* as the call goes by the count of stable that the cluster has.           *)
THEOREM AloneTheyScaleInOrder ==
    ASSUME Alone
    PROVE  Spec => ScalesStayBetween
<1> DEFINE Between(a, c) ==
             Rescaled(a, c) /\ <<stable, canary>>' # <<stable, canary>> =>
               /\ \/ canary'[c] * (canary[c] + stable[c]) <= canary[c] * (canary'[c] + stable'[c])
                  \/ canary'[c] * Pool(call[a].plan)
                       <= call[a].plan.canary * (canary'[c] + stable'[c])
               /\ \/ canary'[c] + stable'[c] >= canary[c] + stable[c]
                  \/ canary'[c] + stable'[c] >= Pool(call[a].plan)
<1>1. ASSUME Orderly, ScalesInOrder, [Next]_vars
      PROVE  [\A a \in Callers, c \in Components : Between(a, c)]_vars
  <2>1. CASE UNCHANGED vars
    BY <2>1
  <2>2. CASE Next
    <3>1. Inv'
      BY <1>1, InvNext DEF Orderly
    <3>2. ASSUME NEW a \in Callers, NEW c \in Components, Rescaled(a, c)
          PROVE  Between(a, c)
      <4> DEFINE plan == call[a].plan
      <4>1. /\ stable[c] \in Nat /\ canary[c] \in Nat /\ stable'[c] \in Nat /\ canary'[c] \in Nat
        BY <1>1, <3>1 DEF Orderly, Inv, TypeOK, ClusterOK
      <4>2. plan.stable \in Nat /\ plan.canary \in Nat
        BY <1>1 DEF Orderly, Inv, TypeOK, CallsOK, Calls, Plans
      <4>3. \/ stable'[c] = stable[c] /\ canary'[c] = canary[c]
            \/ plan.stable > stable[c] /\ stable'[c] = plan.stable /\ canary'[c] = canary[c]
            \/ stable[c] = plan.stable /\ stable'[c] = stable[c] /\ canary'[c] = plan.canary
            \/ plan.stable <= stable[c] /\ stable'[c] = stable[c] /\ canary'[c] = plan.canary
            \/ canary[c] = plan.canary /\ canary'[c] = canary[c] /\ stable'[c] = plan.stable
        BY <1>1, <2>2, <3>2, StepsScaleInOrder
      <4>4. Pool(plan) = plan.canary + plan.stable
        BY DEF Pool
      <4> HIDE DEF plan
      <4>5. /\ \/ canary'[c] * (canary[c] + stable[c]) <= canary[c] * (canary'[c] + stable'[c])
               \/ canary'[c] * Pool(plan) <= plan.canary * (canary'[c] + stable'[c])
            /\ \/ canary'[c] + stable'[c] >= canary[c] + stable[c]
               \/ canary'[c] + stable'[c] >= Pool(plan)
        <5> DEFINE n == stable[c]
                   k == canary[c]
                   m == stable'[c]
                   l == canary'[c]
                   ps == plan.stable
                   pc == plan.canary
        <5>1. /\ n \in Nat /\ k \in Nat /\ m \in Nat /\ l \in Nat /\ ps \in Nat /\ pc \in Nat
              /\ \/ m = n /\ l = k
                 \/ ps > n /\ m = ps /\ l = k
                 \/ n = ps /\ m = n /\ l = pc
                 \/ ps <= n /\ m = n /\ l = pc
                 \/ k = pc /\ l = k /\ m = ps
          BY <4>1, <4>2, <4>3
        <5> HIDE DEF n, k, m, l, ps, pc
        <5>2. /\ l * (k + n) <= k * (l + m) \/ l * (pc + ps) <= pc * (l + m)
              /\ l + m >= k + n \/ l + m >= pc + ps
          BY <5>1, ScaledInOrder
        <5> QED
          BY <4>4, <5>2 DEF n, k, m, l, ps, pc
      <4> QED
        BY <4>5 DEF plan
    <3> QED
      BY <3>2
  <2> QED
    BY <1>1, <2>1, <2>2
<1>2. Orderly /\ ScalesInOrder /\ [Next]_vars => [\A a \in Callers, c \in Components : Between(a, c)]_vars
  BY <1>1
<1> QED
  BY <1>2, OrderlyInit, OrderlyNext, ScalesInOrderInit, ScalesInOrderNext, PTL
  DEF Spec, ScalesStayBetween

-----------------------------------------------------------------------------
(* The record and the cluster, one command at a time *)

(* n stable and k canary replicas of a component that rests at h are as s records them.        *)
Agrees(s, n, k, h) ==
    IF s.active THEN n = s.stable /\ k = s.total - s.stable /\ s.resting = h
                ELSE n = h /\ k = 0

(* The phases before a command has scaled anything.                                             *)
Untouched == {"plan", "stableUp", "canaryFirst", "health", "traffic", "setImage", "wait", "cut",
              "look", "setCanaryImage", "waitCanary", "load", "measure", "reload"}

(* What the call r knows of the n stable and k canary replicas of a component that rests at h. *)
Knows(r, n, k, h) ==
    /\ r.at \in ScalesToPlan \union {"restore"} => r.rest = h
    /\ r.at \notin {"undo", "lookStable", "deflate"}
    /\ r.at = "cut" => r.cmd # "reset"
    /\ r.at = "restore" => k = 0
    /\ r.at \in Saving => Agrees(r.next, n, k, h)

(* Nothing has failed: a component that no command has touched is as it is recorded, ...        *)
Agreement ==
    faults = 0 =>
        /\ \A c \in Components :
              (\A a \in Callers : call[a].on = c => call[a].at \in Untouched)
                 => Agrees(saved[c], stable[c], canary[c], home[c])
        /\ \A a \in Callers :
              call[a].at # "idle"
                 => Knows(call[a], stable[call[a].on], canary[call[a].on], home[call[a].on])

(* Where nothing has failed yet, nothing has failed before.                *)
LEMMA NothingFails ==
    ASSUME Inv, faults' = 0
    PROVE  /\ \A kind : ~Fault(kind)
           /\ \A result : Answer(result) => result = "done" /\ faults = 0
           /\ \A actual, live : ReadLive(actual, live) => live = actual /\ faults = 0
<1>1. faults \in Nat
  BY DEF Inv, TypeOK
<1>2. \A kind : ~Fault(kind)
  BY <1>1 DEF Fault
<1> QED
  BY <1>2 DEF Answer, ReadLive

(* A step of a call on c touches no other component.                       *)
LEMMA AgreementStays ==
    ASSUME Alone, Inv, Agreement, faults = 0, NEW a \in Callers, NEW r,
           call' = [call EXCEPT ![a] = r], NEW c \in Components, call[a].on \in {c, "none"},
           UNCHANGED home,
           \A d \in Components \ {c} :
              stable'[d] = stable[d] /\ canary'[d] = canary[d] /\ saved'[d] = saved[d],
           r.at # "idle" => r.on = c /\ Knows(r, stable'[c], canary'[c], home[c]),
           r.on # "none" => r.on = c /\ r.at # "idle",
           r.at \in Untouched \union {"idle"}
              => Agrees(saved'[c], stable'[c], canary'[c], home[c])
    PROVE  Agreement'
<1>1. \A b \in Callers : b = a /\ call'[b] = r
  BY DEF Alone, Inv, TypeOK, CallsOK
<1>2. c # "none"
  BY CanaryAssumption
<1>3. ASSUME NEW d \in Components,
             \A b \in Callers : call'[b].on = d => call'[b].at \in Untouched
      PROVE  Agrees(saved'[d], stable'[d], canary'[d], home[d])
  <2>1. CASE d = c
    BY <1>1, <1>2, <1>3, <2>1
  <2>2. CASE d # c
    <3>1. \A b \in Callers : call[b].on # d
      BY <1>1, <2>2, CanaryAssumption
    <3> QED
      BY <2>2, <3>1 DEF Agreement
  <2> QED
    BY <2>1, <2>2
<1>4. ASSUME NEW b \in Callers, call'[b].at # "idle"
      PROVE  Knows(call'[b], stable'[call'[b].on], canary'[call'[b].on], home[call'[b].on])
  BY <1>1, <1>4
<1> QED
  BY <1>3, <1>4 DEF Agreement

(* A call that has touched nothing, and touches nothing.                   *)
LEMMA AgreementUntouched ==
    ASSUME Alone, Inv, Agreement, faults = 0, NEW a \in Callers, NEW r,
           call' = [call EXCEPT ![a] = r], NEW c \in Components, call[a].on \in {c, "none"},
           call[a].at \in Untouched \union {"idle"},
           UNCHANGED <<stable, canary, home, saved>>,
           r.at \in Untouched \union {"idle"},
           r.at # "idle" => r.on = c, r.on # "none" => r.on = c /\ r.at # "idle",
           r.at \in ScalesToPlan => r.rest = home[c],
           r.at = "cut" => r.cmd # "reset"
    PROVE  Agreement'
<1>1. \A b \in Callers : b = a
  BY DEF Alone
<1>2. Agrees(saved[c], stable[c], canary[c], home[c])
  <2>1. c # "none"
    BY CanaryAssumption
  <2>2. call[a].on = c => call[a].at \in Untouched
    BY <2>1, CallFacts
  <2> QED
    BY <1>1, <2>2 DEF Agreement
<1>3. r.at # "idle" => Knows(r, stable[c], canary[c], home[c])
  BY DEF Knows, Untouched, Saving
<1> QED
  BY <1>2, <1>3, AgreementStays

(* What a call on an untouched component goes by.                          *)
LEMMA UntouchedAgrees ==
    ASSUME Alone, Inv, Agreement, faults = 0, NEW a \in Callers, call[a].at \in Untouched
    PROVE  /\ call[a].on \in Components
           /\ Agrees(saved[call[a].on], stable[call[a].on], canary[call[a].on], home[call[a].on])
<1>1. call[a].on \in Components
  BY CallFacts DEF Untouched
<1> QED
  BY <1>1 DEF Alone, Agreement

LEMMA AgreementReturns ==
    ASSUME Alone, Inv, Agreement, faults = 0, NEW a \in Callers, Return(a),
           call[a].at \in Untouched, UNCHANGED <<stable, canary, home, saved>>
    PROVE  Agreement'
<1>1. Idle.at = "idle" /\ Idle.on = "none"
  BY DEF Idle
<1> QED
  BY <1>1, AgreementUntouched, UntouchedAgrees DEF Return, ScalesToPlan

LEMMA AgreementGoes ==
    ASSUME Alone, Inv, Agreement, faults = 0, NEW a \in Callers, NEW pc \in Untouched,
           Goto(a, pc), call[a].at \in Untouched, pc \notin ScalesToPlan,
           pc = "cut" => call[a].cmd # "reset",
           UNCHANGED <<stable, canary, home, saved>>
    PROVE  Agreement'
<1> DEFINE r == [call[a] EXCEPT !.at = pc]
<1>1. call[a].on \in Components /\ call[a] \in Calls
  BY UntouchedAgrees, CallFacts
<1>2. r.at = pc /\ r.on = call[a].on /\ r.cmd = call[a].cmd /\ call' = [call EXCEPT ![a] = r]
  BY <1>1 DEF Calls, Goto
<1> HIDE DEF r
<1>3. pc # "idle"
  BY DEF Untouched
<1> QED
  BY <1>1, <1>2, <1>3, AgreementUntouched

(* The scales, when they do as they are told.                              *)
LEMMA AgreementScales ==
    ASSUME Alone, Orderly, ScalesInOrder, Agreement, faults' = 0, NEW a \in Callers, Scales(a)
    PROVE  Agreement'
<1> PICK result \in Results :
        \/ StableUp(a, result) \/ CanaryUp(a, result) \/ Undo(a, result)
        \/ CanaryFirst(a, result) \/ StableDown(a, result)
        \/ Cut(a, result) \/ Restore(a, result) \/ ResetDeflates(a, result)
  BY DEF Scales
<1> USE DEF Orderly
<1> DEFINE c == call[a].on
           s == saved[c]
<1>1. Inv'
  BY ScalesKept
<1>2. result = "done" /\ faults = 0
  BY <1>1, NothingFails
  DEF StableUp, CanaryUp, Undo, CanaryFirst, StableDown, Cut, Restore, ResetDeflates,
      ScaleCanary, ScaleStable
<1>3. call[a].at # "idle"
  BY DEF StableUp, CanaryUp, Undo, CanaryFirst, StableDown, Cut, Restore, ResetDeflates, At
<1>4. call[a] \in Calls /\ c \in Components /\ Ordered(call[a], s)
  BY <1>3, CallFacts, DoesInOrder
<1>5. /\ stable \in [Components -> Nat] /\ canary \in [Components -> Nat]
      /\ home \in [Components -> Counts] /\ saved \in [Components -> States]
  BY DEF Inv, TypeOK, ClusterOK, SeenOK
<1>6. Knows(call[a], stable[c], canary[c], home[c]) /\ ScaleOrder(call[a], stable[c], canary[c])
  BY <1>2, <1>3 DEF Agreement, ScalesInOrder
<1>7. call[a].at \in Untouched => Agrees(s, stable[c], canary[c], home[c])
  BY <1>2, UntouchedAgrees
<1>8. ASSUME NEW r, call' = [call EXCEPT ![a] = r], r.on = c, r.at \notin Untouched \union {"idle"},
             Knows(r, stable'[c], canary'[c], home[c]),
             UNCHANGED <<home, saved>>,
             \A d \in Components \ {c} : stable'[d] = stable[d] /\ canary'[d] = canary[d]
      PROVE  Agreement'
  BY <1>2, <1>4, <1>8, AgreementStays
<1>9. call[a].plan \in Plans /\ call[a].plan.stable \in Nat /\ call[a].plan.canary \in Nat
  BY <1>4 DEF Calls, Plans
<1>10. call[a].at \in ScalesToPlan => call[a].next = Active(call[a].plan, call[a].rest)
  BY <1>4 DEF Ordered, StartOrder, PromoteOrder, RollbackOrder, ResetOrder, DeployOrder,
              ScalesToPlan, Saving
<1>11. ASSUME NEW n, NEW k, n = call[a].plan.stable, k = call[a].plan.canary,
              call[a].at \in ScalesToPlan
       PROVE  Agrees(call[a].next, n, k, home[c])
  BY <1>6, <1>9, <1>10, <1>11 DEF Knows, Agrees, Active, Pool
<1>12. CASE StableUp(a, result)
  <2> DEFINE r == [call[a] EXCEPT !.at = "canaryUp"]
  <2>1. call[a].at = "stableUp" /\ call' = [call EXCEPT ![a] = r]
    BY <1>2, <1>12 DEF StableUp, Goto, At
  <2>2. r.at = "canaryUp" /\ r.on = c /\ r.rest = call[a].rest
    BY <1>4 DEF Calls
  <2> HIDE DEF r, c
  <2>3. Knows(r, stable'[c], canary'[c], home[c])
    BY <1>6, <2>1, <2>2 DEF Knows, ScalesToPlan, Saving
  <2>4. UNCHANGED <<home, saved>> /\ \A d \in Components \ {c} :
           stable'[d] = stable[d] /\ canary'[d] = canary[d]
    BY <1>4, <1>5, <1>12 DEF StableUp, ScaleStable, seen, c
  <2> QED
    BY <1>8, <2>1, <2>2, <2>3, <2>4 DEF Untouched, c
<1>13. CASE CanaryUp(a, result)
  <2> DEFINE r == [call[a] EXCEPT !.at = "merge"]
  <2>1. call[a].at = "canaryUp" /\ call' = [call EXCEPT ![a] = r]
    BY <1>2, <1>13 DEF CanaryUp, Goto, At
  <2>2. r.at = "merge" /\ r.on = c /\ r.next = call[a].next
    BY <1>4 DEF Calls
  <2>3. stable'[c] = call[a].plan.stable /\ canary'[c] = call[a].plan.canary
    BY <1>2, <1>4, <1>5, <1>6, <1>13, <2>1 DEF CanaryUp, ScaleCanary, Applied, ScaleOrder
  <2>4. Agrees(call[a].next, stable'[c], canary'[c], home[c])
    BY <1>11, <2>1, <2>3 DEF ScalesToPlan
  <2> HIDE DEF r, c
  <2>5. Knows(r, stable'[c], canary'[c], home[c])
    BY <2>2, <2>4 DEF Knows, ScalesToPlan
  <2>6. UNCHANGED <<home, saved>> /\ \A d \in Components \ {c} :
           stable'[d] = stable[d] /\ canary'[d] = canary[d]
    BY <1>4, <1>5, <1>13 DEF CanaryUp, ScaleCanary, seen, c
  <2> QED
    BY <1>8, <2>1, <2>2, <2>5, <2>6 DEF Untouched, c
<1>14. CASE CanaryFirst(a, result)
  <2> DEFINE r == [call[a] EXCEPT !.at = "stableDown"]
  <2>1. call[a].at = "canaryFirst" /\ call' = [call EXCEPT ![a] = r]
    BY <1>2, <1>14 DEF CanaryFirst, Goto, At
  <2>2. r.at = "stableDown" /\ r.on = c /\ r.rest = call[a].rest
    BY <1>4 DEF Calls
  <2> HIDE DEF r, c
  <2>3. Knows(r, stable'[c], canary'[c], home[c])
    BY <1>6, <2>1, <2>2 DEF Knows, ScalesToPlan, Saving
  <2>4. UNCHANGED <<home, saved>> /\ \A d \in Components \ {c} :
           stable'[d] = stable[d] /\ canary'[d] = canary[d]
    BY <1>4, <1>5, <1>14 DEF CanaryFirst, ScaleCanary, seen, c
  <2> QED
    BY <1>8, <2>1, <2>2, <2>3, <2>4 DEF Untouched, c
<1>15. CASE StableDown(a, result)
  <2> DEFINE r == [call[a] EXCEPT !.at = "merge"]
  <2>1. call[a].at = "stableDown" /\ call' = [call EXCEPT ![a] = r]
    BY <1>2, <1>15 DEF StableDown, Goto, At
  <2>2. r.at = "merge" /\ r.on = c /\ r.next = call[a].next
    BY <1>4 DEF Calls
  <2>3. stable'[c] = call[a].plan.stable /\ canary'[c] = call[a].plan.canary
    BY <1>2, <1>4, <1>5, <1>6, <1>15, <2>1 DEF StableDown, ScaleStable, Applied, ScaleOrder
  <2>4. Agrees(call[a].next, stable'[c], canary'[c], home[c])
    BY <1>11, <2>1, <2>3 DEF ScalesToPlan
  <2> HIDE DEF r, c
  <2>5. Knows(r, stable'[c], canary'[c], home[c])
    BY <2>2, <2>4 DEF Knows, ScalesToPlan
  <2>6. UNCHANGED <<home, saved>> /\ \A d \in Components \ {c} :
           stable'[d] = stable[d] /\ canary'[d] = canary[d]
    BY <1>4, <1>5, <1>15 DEF StableDown, ScaleStable, seen, c
  <2> QED
    BY <1>8, <2>1, <2>2, <2>5, <2>6 DEF Untouched, c
<1>16. CASE Cut(a, result)
  <2> DEFINE r == [call[a] EXCEPT !.at = "restore"]
  <2>1. call[a].at = "cut" /\ call[a].cmd # "reset"
    BY <1>6, <1>16 DEF Cut, At, Knows
  <2>2. call' = [call EXCEPT ![a] = r]
    BY <1>2, <1>16, <2>1 DEF Cut, Goto, Cmd
  <2>3. r.at = "restore" /\ r.on = c /\ r.rest = call[a].rest
    BY <1>4 DEF Calls
  <2>4. canary'[c] = 0
    BY <1>2, <1>4, <1>5, <1>16 DEF Cut, ScaleCanary, Applied
  <2>5. s.active /\ call[a].rest = RestOf(s)
    BY <1>4, <2>1 DEF Ordered, StartOrder, PromoteOrder, RollbackOrder, ResetOrder, DeployOrder,
                      ScalesToPlan, Saving
  <2>6. s.resting = home[c] /\ home[c] \in Counts
    BY <1>4, <1>5, <1>7, <2>1, <2>5 DEF Agrees, Untouched
  <2>7. call[a].rest = home[c]
    BY <2>5, <2>6 DEF RestOf, RestingFromState, FirstCount, Counts
  <2> HIDE DEF r, c
  <2>8. Knows(r, stable'[c], canary'[c], home[c])
    BY <2>3, <2>4, <2>7 DEF Knows, Saving
  <2>9. UNCHANGED <<home, saved>> /\ \A d \in Components \ {c} :
           stable'[d] = stable[d] /\ canary'[d] = canary[d]
    BY <1>4, <1>5, <1>16 DEF Cut, ScaleCanary, seen, c
  <2> QED
    BY <1>8, <2>2, <2>3, <2>8, <2>9 DEF Untouched, c
<1>17. CASE Restore(a, result)
  <2> DEFINE r == [call[a] EXCEPT !.next = Ended(State(a), call[a].rest), !.at = "merge"]
  <2>1. call[a].at = "restore" /\ call' = [call EXCEPT ![a] = r]
    BY <1>17 DEF Restore, At
  <2>2. r.at = "merge" /\ r.on = c /\ r.next = Ended(State(a), call[a].rest)
    BY <1>4 DEF Calls
  <2>3. stable'[c] = home[c] /\ canary'[c] = 0
    BY <1>2, <1>4, <1>5, <1>6, <1>17, <2>1 DEF Restore, ScaleStable, Applied, Knows
  <2>4. State(a) \in States
    BY <1>3, CallFacts
  <2>5. Agrees(Ended(State(a), call[a].rest), stable'[c], canary'[c], home[c])
    BY <2>3, <2>4 DEF Agrees, Ended, States
  <2> HIDE DEF r, c
  <2>6. Knows(r, stable'[c], canary'[c], home[c])
    BY <2>2, <2>5 DEF Knows, ScalesToPlan
  <2>7. UNCHANGED <<home, saved>> /\ \A d \in Components \ {c} :
           stable'[d] = stable[d] /\ canary'[d] = canary[d]
    BY <1>4, <1>5, <1>17 DEF Restore, ScaleStable, seen, c
  <2> QED
    BY <1>8, <2>1, <2>2, <2>6, <2>7 DEF Untouched, c
<1>18. CASE Undo(a, result) \/ ResetDeflates(a, result)
  BY <1>6, <1>18 DEF Undo, ResetDeflates, At, Knows
<1> QED
  BY <1>12, <1>13, <1>14, <1>15, <1>16, <1>17, <1>18

(* The loads.                                                              *)
LEMMA AgreementLoads ==
    ASSUME Alone, Orderly, Agreement, faults' = 0, NEW a \in Callers, NEW c \in Components,
           Loads(a, c)
    PROVE  Agreement'
<1> USE DEF Orderly
<1>1. ASSUME NEW cmd, NEW pc \in Untouched, pc \notin ScalesToPlan, NEW rest,
             Begin(a, cmd, c, pc, rest), pc = "cut" => cmd # "reset"
      PROVE  Agreement'
  <2> DEFINE r == [Idle EXCEPT !.cmd = cmd, !.on = c, !.at = pc,
                               !.loaded = LoadState(c), !.rest = rest]
  <2>1. call' = [call EXCEPT ![a] = r] /\ r.at = pc /\ r.on = c /\ r.cmd = cmd
    BY <1>1 DEF Begin, Idle
  <2>2. call[a].at = "idle" /\ call[a].on = "none" /\ UNCHANGED <<stable, canary, home, saved, faults>>
    BY <1>1 DEF Begin, Idle, cluster, seen
  <2>3. pc # "idle"
    BY DEF Untouched
  <2> HIDE DEF r
  <2> QED
    BY <1>1, <2>1, <2>2, <2>3, AgreementUntouched
<1>2. ASSUME NEW v \in Versions, DeployBuilds(a, c, v)
      PROVE  Agreement'
  <2> DEFINE r == [Idle EXCEPT !.cmd = "deploy", !.on = c, !.at = "setCanaryImage", !.version = v]
  <2>1. call' = [call EXCEPT ![a] = r] /\ r.at = "setCanaryImage" /\ r.on = c
    BY <1>2 DEF DeployBuilds, Idle
  <2>2. call[a].at = "idle" /\ call[a].on = "none" /\ UNCHANGED <<stable, canary, home, saved, faults>>
    BY <1>2 DEF DeployBuilds, Idle, cluster, seen
  <2> HIDE DEF r
  <2> QED
    BY <2>1, <2>2, AgreementUntouched DEF Untouched, ScalesToPlan
<1>3. \A pc \in {"plan", "health", "cut", "look", "measure"} : pc \in Untouched /\ pc \notin ScalesToPlan
  BY DEF Untouched, ScalesToPlan
<1>4. CASE StartLoads(a, c)
  BY <1>1, <1>3, <1>4 DEF StartLoads
<1>5. CASE PromoteLoads(a, c)
  BY <1>1, <1>3, <1>5 DEF PromoteLoads
<1>6. CASE RollbackLoads(a, c)
  BY <1>1, <1>3, <1>6 DEF RollbackLoads
<1>7. CASE ResetLoads(a, c)
  BY <1>1, <1>3, <1>7 DEF ResetLoads
<1>8. CASE EvaluateLoads(a, c)
  BY <1>1, <1>3, <1>8 DEF EvaluateLoads
<1> QED
  BY <1>2, <1>4, <1>5, <1>6, <1>7, <1>8 DEF Loads

(* The reads: start takes the count it finds for the one to come back to.  *)
LEMMA AgreementReads ==
    ASSUME Alone, Orderly, Agreement, faults' = 0, NEW a \in Callers, Reads(a)
    PROVE  Agreement'
<1> USE DEF Orderly
<1> DEFINE c == call[a].on
           s == saved[c]
<1>1. Inv'
  BY ReadsKept
<1>2. UNCHANGED <<stable, canary, home, saved>>
  BY DEF Reads, StartPlans, PromotePlans, ResetLooks, ResetLooksAtStable, PromoteFindsHealthy,
         PromoteFindsUnhealthy, PromotePassesGate, PromoteRefused, FinishWaits, DeployWaits,
         EvaluateHolds, EvaluateBreaches, EvaluateRollsBack, cluster, seen
<1>3. faults = 0
  BY <1>1, NothingFails
  DEF Reads, StartPlans, PromotePlans, ResetLooks, ResetLooksAtStable, PromoteFindsHealthy,
      PromoteFindsUnhealthy, PromotePassesGate, GateOpen, PromoteRefused, FinishWaits, DeployWaits,
      EvaluateHolds, EvaluateBreaches, EvaluateRollsBack
<1>4. call[a].at # "lookStable"
  BY <1>3 DEF Agreement, Knows
<1>5. call[a].at \in Untouched =>
        /\ c \in Components /\ Agrees(s, stable[c], canary[c], home[c])
        /\ call[a] \in Calls /\ Ordered(call[a], s)
        /\ stable[c] \in Nat /\ stable[c] >= 1 /\ home[c] \in Counts
  <2>1. call[a].at \in Untouched => call[a].at # "idle"
    BY DEF Untouched
  <2> QED
    BY <1>3, <2>1, UntouchedAgrees, CallFacts, DoesInOrder
    DEF Inv, TypeOK, ClusterOK, SeenOK, StableServes
<1>6. ASSUME NEW live \in Live(c), NEW w \in Weights, StartPlans(a, w, live)
      PROVE  Agreement'
  <2> DEFINE rest == RestingFromLive(live)
             plan == PlanRollout(rest, Requested(w), MaxPool(rest, Total))
             r == [call[a] EXCEPT !.rest = rest, !.from = rest, !.plan = plan,
                                  !.next = Active(plan, rest), !.at = FirstScale(plan, rest)]
  <2>1. /\ call' = [call EXCEPT ![a] = r] /\ call[a].at = "plan" /\ call[a].cmd = "start"
        /\ live = stable[c]
    BY <1>1, <1>6, NothingFails DEF StartPlans, At, Cmd
  <2>2. ~s.active
    BY <1>5, <2>1 DEF Untouched, Ordered, StartOrder
  <2>3. rest = home[c]
    BY <1>5, <2>1, <2>2 DEF Untouched, Agrees, RestingFromLive
  <2> HIDE DEF rest, plan
  <2>4. r.at = FirstScale(plan, rest) /\ r.on = c /\ r.rest = rest
    BY <1>5, <2>1 DEF Calls, Untouched
  <2> HIDE DEF r
  <2>5. r.at \in {"stableUp", "canaryFirst"}
    BY <2>4 DEF FirstScale
  <2> QED
    BY <1>2, <1>3, <1>5, <2>1, <2>3, <2>4, <2>5, AgreementUntouched DEF Untouched
<1>7. ASSUME NEW live \in Live(c), PromotePlans(a, live)
      PROVE  Agreement'
  <2> DEFINE rest == call[a].rest
             plan == PlanRollout(rest, NextWeight(State(a), Step), MaxPool(rest, Total))
             from == FirstCount(live, State(a).stable, rest)
             r == [call[a] EXCEPT !.from = from, !.plan = plan,
                                  !.next = Active(plan, rest), !.at = FirstScale(plan, from)]
  <2>1. call' = [call EXCEPT ![a] = r] /\ call[a].at = "plan" /\ call[a].cmd = "promote"
    BY <1>7 DEF PromotePlans, At, Cmd
  <2>2. s.active /\ rest = RestOf(s)
    BY <1>5, <2>1 DEF Untouched, Ordered, PromoteOrder
  <2>3. rest = home[c]
    <3>1. s.resting = home[c] /\ home[c] >= 1
      BY <1>5, <2>1, <2>2 DEF Untouched, Agrees, Counts
    <3> QED
      BY <2>2, <3>1 DEF RestOf, RestingFromState, FirstCount
  <2> HIDE DEF plan, from
  <2>4. r.at = FirstScale(plan, from) /\ r.on = c /\ r.rest = rest
    BY <1>5, <2>1 DEF Calls, Untouched
  <2> HIDE DEF r
  <2>5. r.at \in {"stableUp", "canaryFirst"}
    BY <2>4 DEF FirstScale
  <2> QED
    BY <1>2, <1>3, <1>5, <2>1, <2>3, <2>4, <2>5, AgreementUntouched DEF Untouched
<1>8. ASSUME NEW live \in Live(c), ResetLooks(a, live)
      PROVE  Agreement'
  <2>1. call[a].at = "look" /\ call[a].cmd = "reset" /\ live = canary[c]
    BY <1>1, <1>8, NothingFails DEF ResetLooks, At, Cmd
  <2>2. ~s.active
    BY <1>5, <2>1 DEF Untouched, Ordered, ResetOrder
  <2>3. canary[c] = 0
    BY <1>5, <2>1, <2>2 DEF Untouched, Agrees
  <2>4. Return(a)
    BY <1>8, <2>1, <2>3 DEF ResetLooks
  <2> QED
    BY <1>2, <1>3, <2>1, <2>4, AgreementReturns DEF Untouched
<1>9. CASE PromoteFindsHealthy(a)
  <2> DEFINE r == [call[a] EXCEPT !.version = image[c].canary, !.at = "traffic"]
  <2>1. call[a].at = "health" /\ call' = [call EXCEPT ![a] = r]
    BY <1>9 DEF PromoteFindsHealthy, At
  <2>2. r.at = "traffic" /\ r.on = c
    BY <1>5, <2>1 DEF Calls, Untouched
  <2> HIDE DEF r
  <2> QED
    BY <1>2, <1>3, <1>5, <2>1, <2>2, AgreementUntouched DEF Untouched, ScalesToPlan
<1>10. CASE PromoteFindsUnhealthy(a)
  BY <1>2, <1>3, <1>10, AgreementReturns DEF PromoteFindsUnhealthy, At, Untouched
<1>11. ASSUME NEW force \in Forces, PromotePassesGate(a, force)
       PROVE  Agreement'
  <2>1. CASE NextWeight(State(a), Step) >= 100
    BY <1>2, <1>3, <1>11, <2>1, AgreementGoes DEF PromotePassesGate, At, Untouched, ScalesToPlan
  <2>2. CASE ~(NextWeight(State(a), Step) >= 100)
    BY <1>2, <1>3, <1>11, <2>2, AgreementGoes DEF PromotePassesGate, At, Untouched, ScalesToPlan
  <2> QED
    BY <2>1, <2>2
<1>12. CASE PromoteRefused(a)
  BY <1>2, <1>3, <1>12, AgreementReturns DEF PromoteRefused, At, Untouched
<1>13. ASSUME NEW ready \in BOOLEAN, FinishWaits(a, ready)
       PROVE  Agreement'
  BY <1>2, <1>3, <1>13, AgreementGoes, AgreementReturns
  DEF FinishWaits, At, Cmd, Untouched, ScalesToPlan
<1>14. ASSUME NEW ready \in BOOLEAN, DeployWaits(a, ready)
       PROVE  Agreement'
  BY <1>2, <1>3, <1>14, AgreementGoes, AgreementReturns DEF DeployWaits, At, Untouched, ScalesToPlan
<1>15. CASE EvaluateHolds(a)
  BY <1>2, <1>3, <1>15, AgreementReturns DEF EvaluateHolds, At, Untouched
<1>16. CASE EvaluateBreaches(a)
  BY <1>2, <1>3, <1>16, AgreementGoes DEF EvaluateBreaches, At, Untouched, ScalesToPlan
<1>17. CASE EvaluateRollsBack(a)
  <2> DEFINE r == [Idle EXCEPT !.cmd = "rollback", !.on = c, !.at = "cut", !.loaded = LoadState(c),
                               !.rest = RestingFromState(LoadState(c)[c], NoCeiling)]
  <2>1. call[a].at = "reload" /\ (call' = [call EXCEPT ![a] = r] \/ Return(a))
    BY <1>17 DEF EvaluateRollsBack, At
  <2>2. r.at = "cut" /\ r.on = c /\ r.cmd = "rollback"
    BY DEF Idle
  <2> HIDE DEF r
  <2> QED
    BY <1>2, <1>3, <1>5, <2>1, <2>2, AgreementUntouched, AgreementReturns DEF Untouched, ScalesToPlan
<1>18. ASSUME NEW live \in Live(c), ResetLooksAtStable(a, live)
       PROVE  Agreement'
  BY <1>4, <1>18 DEF ResetLooksAtStable, At
<1> QED
  BY <1>6, <1>7, <1>8, <1>9, <1>10, <1>11, <1>12, <1>13, <1>14, <1>15, <1>16, <1>17, <1>18
  DEF Reads

LEMMA AgreementImages ==
    ASSUME Alone, Orderly, Agreement, faults' = 0, NEW a \in Callers, Images(a)
    PROVE  Agreement'
<1> USE DEF Orderly
<1> PICK result \in Results : FinishSetsImage(a, result) \/ DeploySetsImage(a, result)
  BY DEF Images
<1>1. result = "done" /\ faults = 0
  BY ImagesKept, NothingFails DEF FinishSetsImage, DeploySetsImage, SetImage
<1>2. UNCHANGED <<stable, canary, home, saved>>
  BY DEF FinishSetsImage, DeploySetsImage, SetImage, seen
<1>3. CASE FinishSetsImage(a, result)
  BY <1>1, <1>2, <1>3, AgreementGoes DEF FinishSetsImage, At, Untouched, ScalesToPlan
<1>4. CASE DeploySetsImage(a, result)
  BY <1>1, <1>2, <1>4, AgreementGoes DEF DeploySetsImage, At, Untouched, ScalesToPlan
<1> QED
  BY <1>3, <1>4

(* The saves: what a call records is what it has made of the cluster.      *)
LEMMA AgreementSaves ==
    ASSUME Alone, Orderly, Agreement, faults' = 0, NEW a \in Callers, Saves(a)
    PROVE  Agreement'
<1> USE DEF Orderly
<1> DEFINE c == call[a].on
<1>1. faults = 0 /\ UNCHANGED <<stable, canary, home>>
  BY DEF Saves, DeployLoads, Merge, Truncate, Write, cluster, seen
<1>2. call[a].at # "idle" => call[a] \in Calls /\ c \in Components
  BY CallFacts
<1>3. ASSUME NEW r, call' = [call EXCEPT ![a] = r], r.at \in Saving, r.on = c, c \in Components,
             UNCHANGED saved, Agrees(r.next, stable[c], canary[c], home[c])
      PROVE  Agreement'
  <2>1. Knows(r, stable[c], canary[c], home[c])
    BY <1>3 DEF Knows, Saving, ScalesToPlan
  <2>2. r.at \notin Untouched \union {"idle"} /\ c # "none"
    BY <1>3, CanaryAssumption DEF Saving, Untouched
  <2> QED
    BY <1>1, <1>3, <2>1, <2>2, AgreementStays
<1>4. call[a].at \in Saving => Agrees(call[a].next, stable[c], canary[c], home[c])
  BY <1>1 DEF Agreement, Knows, Saving
<1>5. CASE DeployLoads(a)
  <2> DEFINE r == [call[a] EXCEPT !.loaded = LoadState(c), !.next = LoadState(c)[c], !.at = "merge"]
  <2>1. call[a].at = "load" /\ call' = [call EXCEPT ![a] = r] /\ UNCHANGED saved
    BY <1>5 DEF DeployLoads, At, seen
  <2>2. LoadState(c)[c] = saved[c]
    BY <1>2, <2>1, FileSays
  <2>3. r.at = "merge" /\ r.on = c /\ r.next = saved[c]
    BY <1>2, <2>1, <2>2 DEF Calls
  <2>4. Agrees(saved[c], stable[c], canary[c], home[c])
    BY <1>1, <2>1, UntouchedAgrees DEF Untouched
  <2> HIDE DEF r
  <2> QED
    BY <1>2, <1>3, <2>1, <2>3, <2>4 DEF Saving
<1>6. CASE Merge(a)
  <2> DEFINE base == IF c = "api" THEN call[a].loaded ELSE Readable
             new == [base EXCEPT ![c] = call[a].next]
             r == [call[a] EXCEPT !.loaded = new, !.at = "truncate"]
  <2>1. call[a].at = "merge" /\ call' = [call EXCEPT ![a] = r] /\ UNCHANGED saved
    BY <1>6 DEF Merge, At, seen
  <2> HIDE DEF new
  <2>2. r.at = "truncate" /\ r.on = c /\ r.next = call[a].next
    BY <1>2, <2>1 DEF Calls
  <2> HIDE DEF r
  <2> QED
    BY <1>2, <1>3, <1>4, <2>1, <2>2 DEF Saving
<1>7. CASE Truncate(a)
  <2> DEFINE r == [call[a] EXCEPT !.at = "write"]
  <2>1. call[a].at = "truncate" /\ call' = [call EXCEPT ![a] = r] /\ UNCHANGED saved
    BY <1>7 DEF Truncate, Goto, At, seen
  <2>2. r.at = "write" /\ r.on = c /\ r.next = call[a].next
    BY <1>2, <2>1 DEF Calls
  <2> HIDE DEF r
  <2> QED
    BY <1>2, <1>3, <1>4, <2>1, <2>2 DEF Saving
<1>8. CASE Write(a)
  <2>1. /\ call[a].at = "write" /\ call' = [call EXCEPT ![a] = Idle]
        /\ saved' = [saved EXCEPT ![c] = call[a].next]
    BY <1>8 DEF Write, Return, At
  <2>2. c \in Components /\ saved \in [Components -> States]
    BY <1>2, <2>1 DEF Inv, TypeOK, SeenOK
  <2>3. saved'[c] = call[a].next /\ \A d \in Components \ {c} : saved'[d] = saved[d]
    BY <2>1, <2>2
  <2>4. Idle.at = "idle" /\ Idle.on = "none"
    BY DEF Idle
  <2>5. Agrees(saved'[c], stable'[c], canary'[c], home[c])
    BY <1>1, <1>4, <2>1, <2>3 DEF Saving
  <2> HIDE DEF c
  <2>6. call[a].on \in {c, "none"}
    BY DEF c
  <2> QED
    BY <1>1, <2>1, <2>2, <2>3, <2>4, <2>5, <2>6, AgreementStays
<1> QED
  BY <1>5, <1>6, <1>7, <1>8 DEF Saves

(* The environment: an operator scales what rests.                         *)
LEMMA AgreementDisturbs ==
    ASSUME Alone, Orderly, Agreement, faults' = 0, Disturbs
    PROVE  Agreement'
<1> USE DEF Orderly
<1>1. ASSUME NEW c \in Components, Serve(c)
      PROVE  Agreement'
  BY <1>1 DEF Serve, Agreement
<1>2. ASSUME NEW c \in Components, NEW n \in HandCounts, ScaleByHand(c, n)
      PROVE  Agreement'
  <2>1. /\ faults = 0 /\ UNCHANGED <<call, canary, saved>>
        /\ stable' = [stable EXCEPT ![c] = n] /\ home' = [home EXCEPT ![c] = n]
        /\ \A a \in Callers : call[a].on # c /\ ~At(a, "write")
    BY <1>2 DEF ScaleByHand, Settled
  <2>2. Readable = saved
    BY <2>1 DEF FileIsSaved, Readable, Inv, TypeOK, FileOK
  <2>3. ~saved[c].active
    BY <1>2, <2>2 DEF ScaleByHand
  <2>4. stable \in [Components -> Nat] /\ home \in [Components -> Counts]
    BY DEF Inv, TypeOK, ClusterOK, SeenOK
  <2>5. ASSUME NEW d \in Components,
               \A a \in Callers : call'[a].on = d => call'[a].at \in Untouched
        PROVE  Agrees(saved'[d], stable'[d], canary'[d], home'[d])
    <3>1. Agrees(saved[d], stable[d], canary[d], home[d])
      BY <2>1, <2>5 DEF Agreement
    <3> QED
      BY <2>1, <2>3, <2>4, <3>1 DEF Agrees
  <2>6. ASSUME NEW a \in Callers, call'[a].at # "idle"
        PROVE  Knows(call'[a], stable'[call'[a].on], canary'[call'[a].on], home'[call'[a].on])
    <3>1. call[a].on # c /\ call[a].on \in Components
      BY <2>1, <2>6, CallFacts
    <3> QED
      BY <2>1, <2>4, <2>6, <3>1 DEF Agreement
  <2> QED
    BY <2>5, <2>6 DEF Agreement
<1>3. ~(\E a \in Callers : Crash(a)) /\ ~LoseFile
  BY DisturbsKept, NothingFails DEF Crash, LoseFile
<1> QED
  BY <1>1, <1>2, <1>3 DEF Disturbs

LEMMA AgreementInit == Init => Agreement
<1>1. Idle.at = "idle" /\ Idle.on = "none" /\ \A c \in Components : ~NoStates[c].active
  BY DEF Idle, NoStates, NoRollout
<1> QED
  BY <1>1 DEF Init, Agreement, Agrees

LEMMA AgreementNext ==
    ASSUME Alone
    PROVE  Orderly /\ ScalesInOrder /\ Agreement /\ [Next]_vars => Agreement'
<1> SUFFICES ASSUME Orderly, ScalesInOrder, Agreement, [Next]_vars PROVE Agreement'
  OBVIOUS
<1>1. CASE UNCHANGED vars
  BY <1>1 DEF vars, Agreement
<1>2. CASE faults' # 0
  BY <1>2 DEF Agreement
<1>3. CASE Next /\ faults' = 0
  BY <1>3, AgreementLoads, AgreementScales, AgreementImages, AgreementReads, AgreementSaves,
     AgreementDisturbs DEF Next, Proceeds
<1> QED
  BY <1>1, <1>2, <1>3

(* What the file says while no call rewrites it.                           *)
LEMMA RecordIsSaved ==
    ASSUME Orderly, \A a \in Callers : ~At(a, "write")
    PROVE  Readable = saved
BY DEF Orderly, FileIsSaved, Readable, Inv, TypeOK, FileOK

(* Commands that run one at a time, and do not fail, leave the record and  *)
(* the cluster in agreement ...                                            *)
THEOREM AloneTheRecordMatches ==
    ASSUME Alone
    PROVE  Spec => []RecordMatchesCluster
<1>1. ASSUME Orderly, Agreement
      PROVE  RecordMatchesCluster
  <2> SUFFICES ASSUME faults = 0, NEW c \in Components, Settled(c), Readable[c].active
               PROVE  /\ stable[c] = Readable[c].stable
                      /\ canary[c] = Readable[c].total - Readable[c].stable
                      /\ Readable[c].resting = home[c]
    BY DEF RecordMatchesCluster
  <2>1. Readable = saved
    BY <1>1, RecordIsSaved DEF Settled
  <2>2. Agrees(saved[c], stable[c], canary[c], home[c])
    BY <1>1 DEF Agreement, Settled
  <2> QED
    BY <2>1, <2>2 DEF Agrees
<1>2. Orderly /\ Agreement => RecordMatchesCluster
  BY <1>1
<1> QED
  BY <1>2, OrderlyInit, OrderlyNext, ScalesInOrderInit, ScalesInOrderNext, AgreementInit,
     AgreementNext, PTL DEF Spec

(* ... and what a rollout borrows from a component it gives back.          *)
THEOREM AloneTheyGiveBack ==
    ASSUME Alone
    PROVE  Spec => []BorrowedIsReturned
<1>1. ASSUME Orderly, Agreement
      PROVE  BorrowedIsReturned
  <2> SUFFICES ASSUME faults = 0, NEW c \in Components, Settled(c), ~Readable[c].active
               PROVE  stable[c] = home[c] /\ canary[c] = 0
    BY DEF BorrowedIsReturned
  <2>1. Readable = saved
    BY <1>1, RecordIsSaved DEF Settled
  <2>2. Agrees(saved[c], stable[c], canary[c], home[c])
    BY <1>1 DEF Agreement, Settled
  <2> QED
    BY <2>1, <2>2 DEF Agrees
<1>2. Orderly /\ Agreement => BorrowedIsReturned
  BY <1>1
<1> QED
  BY <1>2, OrderlyInit, OrderlyNext, ScalesInOrderInit, ScalesInOrderNext, AgreementInit,
     AgreementNext, PTL DEF Spec

-----------------------------------------------------------------------------
(* The traffic gate, one command at a time *)

(* No promotion is forced, and the traffic can be measured.                                     *)
Measured == "unscraped" \notin Faults /\ TRUE \notin Forces

(* The requests that are counted have reached the version the canary runs; a promote that has   *)
(* passed the gate holds a version that requests have reached.                                  *)
Trust ==
    "api" \in Components =>
        /\ hits["api"] => image["api"].canary \in tried["api"]
        /\ image["api"].stable \in tried["api"]
        /\ \A a \in Callers : call[a].on = "api" =>
              /\ call[a].at = "traffic" => /\ call[a].version = image["api"].canary
                                          /\ canary["api"] >= 1
              /\ call[a].at = "setImage" => call[a].version \in tried["api"]

LEMMA TrustStays ==
    ASSUME Alone, Inv, Trust, NEW a \in Callers, NEW r, call' = [call EXCEPT ![a] = r],
           r.at \notin {"traffic", "setImage"},
           "api" \in Components =>
              /\ hits'["api"] => hits["api"] /\ image'["api"].canary = image["api"].canary
              /\ image'["api"].stable \in tried["api"],
           UNCHANGED tried
    PROVE  Trust'
<1>1. \A b \in Callers : call'[b] = r
  BY DEF Alone, Inv, TypeOK, CallsOK
<1> QED
  BY <1>1 DEF Trust

LEMMA TrustGoes ==
    ASSUME Alone, Inv, Trust, NEW a \in Callers, NEW pc, pc \notin {"traffic", "setImage"},
           Goto(a, pc) \/ Return(a),
           "api" \in Components =>
              /\ hits'["api"] => hits["api"] /\ image'["api"].canary = image["api"].canary
              /\ image'["api"].stable \in tried["api"],
           UNCHANGED tried
    PROVE  Trust'
<1>1. CASE Goto(a, pc)
  <2> DEFINE r == [call[a] EXCEPT !.at = pc]
  <2>1. r.at = pc /\ call' = [call EXCEPT ![a] = r]
    BY <1>1 DEF Inv, TypeOK, CallsOK, Calls, Goto
  <2> HIDE DEF r
  <2> QED
    BY <2>1, TrustStays
<1>2. CASE Return(a)
  <2>1. Idle.at = "idle"
    BY DEF Idle
  <2> QED
    BY <1>2, <2>1, TrustStays DEF Return
<1> QED
  BY <1>1, <1>2

(* Scaling takes counters away, and sets no image.                         *)
LEMMA ScalesKeepTrust ==
    ASSUME Inv, Trust, NEW a \in Callers, Scales(a)
    PROVE  /\ "api" \in Components =>
                /\ hits'["api"] => hits["api"] /\ image'["api"].canary = image["api"].canary
                /\ image'["api"].stable \in tried["api"]
           /\ UNCHANGED tried
<1> PICK result \in Results :
        \/ StableUp(a, result) \/ CanaryUp(a, result) \/ Undo(a, result)
        \/ CanaryFirst(a, result) \/ StableDown(a, result)
        \/ Cut(a, result) \/ Restore(a, result) \/ ResetDeflates(a, result)
  BY DEF Scales
<1>1. call[a].at # "idle" => call[a].on \in Components
  BY CallFacts
<1>2. hits \in [Components -> BOOLEAN]
  BY DEF Inv, TypeOK, ClusterOK
<1>3. ASSUME NEW c \in Components, NEW n, ScaleCanary(c, n, result)
      PROVE  "api" \in Components => (hits'["api"] => hits["api"])
  <2>1. HitsLeft(c, n) \subseteq {FALSE, hits[c]}
    BY DEF HitsLeft
  <2> QED
    BY <1>2, <1>3, <2>1 DEF ScaleCanary
<1>4. (\E c, n : ScaleCanary(c, n, result) \/ ScaleStable(c, n, result)) => UNCHANGED <<image, tried>>
  BY DEF ScaleCanary, ScaleStable, seen
<1>5. (\E c, n : ScaleStable(c, n, result)) => UNCHANGED hits
  BY DEF ScaleStable
<1> QED
  BY <1>1, <1>3, <1>4, <1>5
  DEF StableUp, CanaryUp, Undo, CanaryFirst, StableDown, Cut, Restore, ResetDeflates, At, Trust

LEMMA TrustScales ==
    ASSUME Alone, Inv, Trust, NEW a \in Callers, Scales(a)
    PROVE  Trust'
<1> PICK result \in Results :
        \/ StableUp(a, result) \/ CanaryUp(a, result) \/ Undo(a, result)
        \/ CanaryFirst(a, result) \/ StableDown(a, result)
        \/ Cut(a, result) \/ Restore(a, result) \/ ResetDeflates(a, result)
  BY DEF Scales
<1>1. /\ "api" \in Components =>
           /\ hits'["api"] => hits["api"] /\ image'["api"].canary = image["api"].canary
           /\ image'["api"].stable \in tried["api"]
      /\ UNCHANGED tried
  BY ScalesKeepTrust
<1>2. ASSUME NEW pc, pc \notin {"traffic", "setImage"}, Goto(a, pc) \/ Return(a)
      PROVE  Trust'
  BY <1>1, <1>2, TrustGoes
<1>3. call[a] \in Calls
  BY CallFacts
<1>4. CASE Restore(a, result)
  <2> DEFINE r == [call[a] EXCEPT !.next = Ended(State(a), call[a].rest), !.at = "merge"]
  <2>1. r.at = "merge" /\ call' = [call EXCEPT ![a] = r]
    BY <1>3, <1>4 DEF Restore, Calls
  <2> HIDE DEF r
  <2> QED
    BY <1>1, <2>1, TrustStays
<1>5. CASE ResetDeflates(a, result)
  <2> DEFINE r == [call[a] EXCEPT !.next = State(a), !.at = "merge"]
  <2>1. r.at = "merge" /\ call' = [call EXCEPT ![a] = r]
    BY <1>3, <1>5 DEF ResetDeflates, ResetRecords, Calls
  <2> HIDE DEF r
  <2> QED
    BY <1>1, <2>1, TrustStays
<1>6. CASE StableUp(a, result) \/ CanaryUp(a, result) \/ Undo(a, result)
  BY <1>2, <1>6 DEF StableUp, CanaryUp, Undo
<1>7. CASE CanaryFirst(a, result) \/ StableDown(a, result) \/ Cut(a, result)
  BY <1>2, <1>7 DEF CanaryFirst, StableDown, Cut
<1> QED
  BY <1>4, <1>5, <1>6, <1>7

LEMMA TrustImages ==
    ASSUME Alone, Inv, Trust, NEW a \in Callers, Images(a)
    PROVE  Trust'
<1> PICK result \in Results : FinishSetsImage(a, result) \/ DeploySetsImage(a, result)
  BY DEF Images
<1> DEFINE c == call[a].on
<1>1. /\ image \in [Components -> [stable : VersionNames, canary : VersionNames]]
      /\ hits \in [Components -> BOOLEAN]
  BY DEF Inv, TypeOK, ClusterOK
<1>2. CASE FinishSetsImage(a, result)
  <2>1. call[a].at = "setImage" /\ SetImage(c, "stable", call[a].version, result)
    BY <1>2 DEF FinishSetsImage, At
  <2>2. "api" \in Components =>
           /\ hits'["api"] => hits["api"] /\ image'["api"].canary = image["api"].canary
           /\ image'["api"].stable \in tried["api"]
    <3> SUFFICES ASSUME "api" \in Components
                 PROVE  /\ UNCHANGED hits /\ image'["api"].canary = image["api"].canary
                        /\ image'["api"].stable \in tried["api"]
      OBVIOUS
    <3>1. c = "api" => call[a].version \in tried["api"]
      BY <2>1 DEF Trust
    <3>2. image["api"].stable \in tried["api"]
      BY DEF Trust
    <3> QED
      BY <1>1, <2>1, <3>1, <3>2 DEF SetImage
  <2> QED
    BY <1>2, <2>1, <2>2, TrustGoes DEF FinishSetsImage, SetImage, seen
<1>3. CASE DeploySetsImage(a, result)
  <2>1. SetImage(c, "canary", call[a].version, result)
    BY <1>3 DEF DeploySetsImage
  <2>2. "api" \in Components =>
           /\ hits'["api"] => hits["api"] /\ image'["api"].canary = image["api"].canary
           /\ image'["api"].stable \in tried["api"]
    BY <1>1, <2>1 DEF SetImage, Trust
  <2> QED
    BY <1>3, <2>1, <2>2, TrustGoes DEF DeploySetsImage, SetImage, seen
<1> QED
  BY <1>2, <1>3

LEMMA TrustReads ==
    ASSUME Alone, Measured, Inv, Trust, NEW a \in Callers, Reads(a)
    PROVE  Trust'
<1> DEFINE c == call[a].on
<1>1. UNCHANGED <<canary, image, hits, tried>>
  BY DEF Reads, StartPlans, PromotePlans, ResetLooks, ResetLooksAtStable, PromoteFindsHealthy,
         PromoteFindsUnhealthy, PromotePassesGate, PromoteRefused, FinishWaits, DeployWaits,
         EvaluateHolds, EvaluateBreaches, EvaluateRollsBack, cluster, seen
<1>2. call[a] \in Calls /\ \A b \in Callers : b = a
  BY CallFacts DEF Alone
<1>3. call \in [Callers -> Calls]
  BY DEF Inv, TypeOK, CallsOK
<1>4. ASSUME NEW r, call' = [call EXCEPT ![a] = r], r.at \notin {"traffic", "setImage"}
      PROVE  Trust'
  BY <1>1, <1>4, TrustStays DEF Trust
<1>5. ASSUME NEW pc, pc \notin {"traffic", "setImage"}, Goto(a, pc) \/ Return(a)
      PROVE  Trust'
  BY <1>1, <1>5, TrustGoes DEF Trust
<1>6. ASSUME NEW live \in Live(c), NEW w \in Weights, StartPlans(a, w, live)
      PROVE  Trust'
  <2> DEFINE rest == RestingFromLive(live)
             plan == PlanRollout(rest, Requested(w), MaxPool(rest, Total))
             r == [call[a] EXCEPT !.rest = rest, !.from = rest, !.plan = plan,
                                  !.next = Active(plan, rest), !.at = FirstScale(plan, rest)]
  <2>1. call' = [call EXCEPT ![a] = r]
    BY <1>6 DEF StartPlans
  <2> HIDE DEF rest, plan
  <2>2. r.at \in {"stableUp", "canaryFirst"}
    BY <1>2 DEF Calls, FirstScale
  <2> HIDE DEF r
  <2> QED
    BY <1>4, <2>1, <2>2
<1>7. ASSUME NEW live \in Live(c), PromotePlans(a, live)
      PROVE  Trust'
  <2> DEFINE rest == call[a].rest
             plan == PlanRollout(rest, NextWeight(State(a), Step), MaxPool(rest, Total))
             from == FirstCount(live, State(a).stable, rest)
             r == [call[a] EXCEPT !.from = from, !.plan = plan,
                                  !.next = Active(plan, rest), !.at = FirstScale(plan, from)]
  <2>1. call' = [call EXCEPT ![a] = r]
    BY <1>7 DEF PromotePlans
  <2> HIDE DEF from, plan
  <2>2. r.at \in {"stableUp", "canaryFirst"}
    BY <1>2 DEF Calls, FirstScale
  <2> HIDE DEF r
  <2> QED
    BY <1>4, <2>1, <2>2
<1>8. ASSUME NEW live \in Live(c), ResetLooks(a, live)
      PROVE  Trust'
  BY <1>5, <1>8 DEF ResetLooks
<1>9. ASSUME NEW live \in Live(c), ResetLooksAtStable(a, live)
      PROVE  Trust'
  <2> DEFINE r == [call[a] EXCEPT !.next = State(a), !.at = "merge"]
  <2>1. r.at = "merge" /\ (call' = [call EXCEPT ![a] = r] \/ Goto(a, "deflate"))
    BY <1>2, <1>9 DEF ResetLooksAtStable, ResetRecords, Calls
  <2> HIDE DEF r
  <2> QED
    BY <1>4, <1>5, <2>1
<1>10. CASE PromoteFindsHealthy(a)
  <2> DEFINE r == [call[a] EXCEPT !.version = image[c].canary, !.at = "traffic"]
  <2>1. call' = [call EXCEPT ![a] = r] /\ canary[c] >= 1
    BY <1>10 DEF PromoteFindsHealthy
  <2>2. r.on = c /\ r.at = "traffic" /\ r.version = image[c].canary
    BY <1>2 DEF Calls
  <2> HIDE DEF r
  <2>3. \A b \in Callers : call'[b] = r
    BY <1>2, <1>3, <2>1
  <2> QED
    BY <1>1, <2>1, <2>2, <2>3 DEF Trust
<1>11. ASSUME NEW force \in Forces, PromotePassesGate(a, force)
       PROVE  Trust'
  <2>1. call[a].at = "traffic" /\ GateOpen(a, force)
    BY <1>11 DEF PromotePassesGate, At
  <2>2. ~force
    BY CanaryAssumption DEF Measured
  <2>3. "api" \in Components /\ c = "api" => call[a].version \in tried["api"]
    BY <2>1, <2>2 DEF GateOpen, Trust, Fault, Measured
  <2>4. PICK pc \in {"setImage", "plan"} : Goto(a, pc)
    BY <1>11 DEF PromotePassesGate
  <2> DEFINE r == [call[a] EXCEPT !.at = pc]
  <2>5. r.on = c /\ r.at = pc /\ r.version = call[a].version /\ call' = [call EXCEPT ![a] = r]
    BY <1>2, <2>4 DEF Calls, Goto
  <2> HIDE DEF r
  <2>6. \A b \in Callers : call'[b] = r
    BY <1>2, <1>3, <2>5
  <2> QED
    BY <1>1, <2>3, <2>4, <2>5, <2>6 DEF Trust
<1>12. CASE PromoteFindsUnhealthy(a) \/ PromoteRefused(a) \/ EvaluateHolds(a) \/ EvaluateBreaches(a)
  BY <1>5, <1>12 DEF PromoteFindsUnhealthy, PromoteRefused, EvaluateHolds, EvaluateBreaches
<1>13. ASSUME NEW ready \in BOOLEAN, FinishWaits(a, ready) \/ DeployWaits(a, ready)
       PROVE  Trust'
  BY <1>5, <1>13 DEF FinishWaits, DeployWaits
<1>14. CASE EvaluateRollsBack(a)
  <2> DEFINE r == [Idle EXCEPT !.cmd = "rollback", !.on = c, !.at = "cut", !.loaded = LoadState(c),
                               !.rest = RestingFromState(LoadState(c)[c], NoCeiling)]
  <2>1. r.at = "cut" /\ (call' = [call EXCEPT ![a] = r] \/ Return(a))
    BY <1>14 DEF EvaluateRollsBack, Idle
  <2> HIDE DEF r
  <2> QED
    BY <1>4, <1>5, <2>1
<1> QED
  BY <1>6, <1>7, <1>8, <1>9, <1>10, <1>11, <1>12, <1>13, <1>14 DEF Reads

LEMMA TrustLoads ==
    ASSUME Alone, Inv, Trust, NEW a \in Callers, NEW c \in Components, Loads(a, c)
    PROVE  Trust'
<1>1. ASSUME NEW cmd, NEW pc, pc \notin {"traffic", "setImage"}, NEW rest, Begin(a, cmd, c, pc, rest)
      PROVE  Trust'
  <2> DEFINE r == [Idle EXCEPT !.cmd = cmd, !.on = c, !.at = pc,
                               !.loaded = LoadState(c), !.rest = rest]
  <2>1. call' = [call EXCEPT ![a] = r] /\ r.at = pc /\ UNCHANGED <<image, hits, tried>>
    BY <1>1 DEF Begin, Idle, cluster, seen
  <2> HIDE DEF r
  <2> QED
    BY <1>1, <2>1, TrustStays DEF Trust
<1>2. ASSUME NEW v \in Versions, DeployBuilds(a, c, v)
      PROVE  Trust'
  <2> DEFINE r == [Idle EXCEPT !.cmd = "deploy", !.on = c, !.at = "setCanaryImage", !.version = v]
  <2>1. call' = [call EXCEPT ![a] = r] /\ r.at = "setCanaryImage" /\ UNCHANGED <<image, hits, tried>>
    BY <1>2 DEF DeployBuilds, Idle, cluster, seen
  <2> HIDE DEF r
  <2> QED
    BY <2>1, TrustStays DEF Trust
<1> QED
  BY <1>1, <1>2
  DEF Loads, StartLoads, PromoteLoads, RollbackLoads, ResetLoads, EvaluateLoads

LEMMA TrustSaves ==
    ASSUME Alone, Inv, Trust, NEW a \in Callers, Saves(a)
    PROVE  Trust'
<1> DEFINE c == call[a].on
<1>1. UNCHANGED <<image, hits, tried>>
  BY DEF Saves, DeployLoads, Merge, Truncate, Write, cluster, seen
<1>2. call[a] \in Calls
  BY CallFacts
<1>3. CASE DeployLoads(a)
  <2> DEFINE r == [call[a] EXCEPT !.loaded = LoadState(c), !.next = LoadState(c)[c], !.at = "merge"]
  <2>1. r.at = "merge" /\ call' = [call EXCEPT ![a] = r]
    BY <1>2, <1>3 DEF DeployLoads, Calls
  <2> HIDE DEF r
  <2> QED
    BY <1>1, <2>1, TrustStays DEF Trust
<1>4. CASE Merge(a)
  <2> DEFINE base == IF c = "api" THEN call[a].loaded ELSE Readable
             new == [base EXCEPT ![c] = call[a].next]
             r == [call[a] EXCEPT !.loaded = new, !.at = "truncate"]
  <2>1. call' = [call EXCEPT ![a] = r]
    BY <1>4 DEF Merge
  <2> HIDE DEF new
  <2>2. r.at = "truncate"
    BY <1>2 DEF Calls
  <2> HIDE DEF r
  <2> QED
    BY <1>1, <2>1, <2>2, TrustStays DEF Trust
<1>5. CASE Truncate(a) \/ Write(a)
  BY <1>1, <1>5, TrustGoes DEF Truncate, Write, Trust
<1> QED
  BY <1>3, <1>4, <1>5 DEF Saves

LEMMA TrustDisturbs ==
    ASSUME Alone, Inv, Trust, Disturbs
    PROVE  Trust'
<1>1. ASSUME NEW c \in Components, Serve(c)
      PROVE  Trust'
  BY <1>1 DEF Serve, Trust, Inv, TypeOK, ClusterOK, SeenOK
<1>2. ASSUME NEW c \in Components, NEW n \in HandCounts, ScaleByHand(c, n)
      PROVE  Trust'
  BY <1>2 DEF ScaleByHand, Trust
<1>3. ASSUME NEW a \in Callers, Crash(a)
      PROVE  Trust'
  BY <1>3, TrustGoes DEF Crash, cluster, Trust
<1>4. CASE LoseFile
  <2>1. Idle.at = "idle" /\ \A a \in Callers : call'[a] = Idle
    BY <1>4 DEF LoseFile, Idle
  <2> QED
    BY <1>4, <2>1 DEF LoseFile, cluster, Trust
<1> QED
  BY <1>1, <1>2, <1>3, <1>4 DEF Disturbs

(* Commands that run one at a time make no version stable that requests    *)
(* have not reached as canary, whatever is deployed, fails or crashes,     *)
(* provided no promotion is forced and the traffic can be measured.        *)
THEOREM AloneTheyPromoteWhatServed ==
    ASSUME Alone, Measured
    PROVE  Spec => []PromotedHasServed
<1>1. Init => Trust
  <2>1. Idle.at = "idle"
    BY DEF Idle
  <2> QED
    BY <2>1 DEF Init, Trust
<1>2. Inv /\ Trust /\ [Next]_vars => Trust'
  <2> SUFFICES ASSUME Inv, Trust, [Next]_vars PROVE Trust'
    OBVIOUS
  <2>1. CASE UNCHANGED vars
    BY <2>1 DEF vars, Trust
  <2>2. CASE Next
    BY <2>2, TrustLoads, TrustScales, TrustImages, TrustReads, TrustSaves, TrustDisturbs
    DEF Next, Proceeds
  <2> QED
    BY <2>1, <2>2
<1>3. Trust => PromotedHasServed
  BY DEF Trust, PromotedHasServed
<1> QED
  BY <1>1, <1>2, <1>3, InvInit, InvNext, PTL DEF Spec

-----------------------------------------------------------------------------
(* Capacity, one command at a time *)

(* A kubectl call that fails has not been applied, and no caller dies.                          *)
Gentle == {"lost_reply", "crash"} \cap Faults = {}

(* Of the rollout s there are n stable and k canary replicas, or a promote has been refused on  *)
(* its way from there to its aim.                                                               *)
Halfway(s, n, k) ==
    \/ n = s.stable /\ k = s.total - s.stable
    \/ /\ ~Finishing(s)
       /\ k \in {s.total - s.stable, Aim(s).canary}
       /\ \/ n = s.stable
          \/ n = Aim(s).stable /\ (Aim(s).stable > s.stable \/ k = Aim(s).canary)

(* A promote that has grown stable knows where it was, and a call that saves a rollout has      *)
(* scaled to it.                                                                                *)
Serves(r, s, n, k) ==
    /\ r.at \in {"stableUp", "canaryUp", "undo"} /\ s.active
          => r.from = s.stable /\ Aim(s).stable > s.stable
    /\ r.at \in Saving /\ r.next.active => Halfway(r.next, n, k)

Ending == Saving \union {"restore"}

Serving ==
    /\ \A c \in Components :
          saved[c].active /\ (\A a \in Callers : call[a].on = c => call[a].at \notin Ending)
             => Halfway(saved[c], stable[c], canary[c])
    /\ \A a \in Callers :
          call[a].at # "idle"
             => Serves(call[a], saved[call[a].on], stable[call[a].on], canary[call[a].on])

(* Wherever a rollout has been left, it serves from as many replicas as    *)
(* the component rests at: a plan that has more of stable has no less of   *)
(* the canary.                                                             *)
LEMMA HalfwayServes ==
    ASSUME Orderly, NEW c \in Components, saved[c].active, NEW n \in Nat, NEW k \in Nat,
           Halfway(saved[c], n, k)
    PROVE  k >= 1 /\ n + k >= saved[c].resting
<1> DEFINE s == saved[c]
<1>1. PICK rest \in Counts, w \in Int : s = Planned(rest, w)
  BY DEF Orderly, RecordsArePlans
<1> DEFINE maxPool == MaxPool(rest, Total)
           plan == PlanRollout(rest, w, maxPool)
           aim == PlanRollout(rest, NextWeight(s, Step), maxPool)
<1>2. /\ s.resting = rest /\ s.stable = plan.stable /\ s.total = Pool(plan)
      /\ s.weight = plan.weight
  BY <1>1 DEF Planned, Active
<1>3. rest \in Int /\ rest >= 1 /\ maxPool \in Int
  BY CanaryAssumption DEF Counts, MaxPool, AtLeast, NoCeiling
<1>4. RestOf(s) = rest
  BY <1>2, <1>3 DEF RestOf, RestingFromState, FirstCount
<1>5. Aim(s) = aim
  BY <1>4 DEF Aim
<1>6. s \in States
  BY DEF Orderly, Inv, TypeOK, SeenOK
<1>7. NextWeight(s, Step) \in Int /\ (~Finishing(s) => NextWeight(s, Step) > s.weight)
  BY <1>6, CanaryAssumption DEF NextWeight, AtMost, AtLeast, States, Finishing
<1>8. ~Finishing(s) => s.weight < Requested(NextWeight(s, Step))
  BY <1>6, <1>7 DEF Requested, AtMost, AtLeast, States, Finishing
<1> HIDE DEF s, maxPool
<1>9. /\ plan.canary \in Nat /\ plan.canary >= 1 /\ plan.stable \in Nat /\ rest <= Pool(plan)
  BY <1>3, PlanIsSound, Zenon
<1>10. /\ aim.canary \in Nat /\ aim.canary >= 1 /\ aim.stable \in Nat /\ rest <= Pool(aim)
  BY <1>3, <1>7, PlanIsSound, Zenon
<1>11. ~Finishing(s) /\ aim.stable > plan.stable => aim.canary >= plan.canary
  BY <1>2, <1>3, <1>7, <1>8, CanaryGrowsWithStable
<1>12. Halfway(s, n, k)
  BY DEF s
<1> HIDE DEF plan, aim
<1>13. k >= 1 /\ n + k >= rest
  BY <1>2, <1>3, <1>5, <1>9, <1>10, <1>11, <1>12 DEF Halfway, Pool
<1> QED
  BY <1>2, <1>13 DEF s

(* A step of a call on c touches no other component.                       *)
LEMMA ServingStays ==
    ASSUME Alone, Inv, Serving, NEW a \in Callers, NEW r, call' = [call EXCEPT ![a] = r],
           NEW c \in Components, call[a].on \in {c, "none"},
           \A d \in Components \ {c} :
              stable'[d] = stable[d] /\ canary'[d] = canary[d] /\ saved'[d] = saved[d],
           r.at # "idle" => r.on = c /\ Serves(r, saved'[c], stable'[c], canary'[c]),
           r.on # "none" => r.on = c /\ r.at # "idle",
           r.at \notin Ending /\ saved'[c].active => Halfway(saved'[c], stable'[c], canary'[c])
    PROVE  Serving'
<1>1. \A b \in Callers : b = a /\ call'[b] = r
  BY DEF Alone, Inv, TypeOK, CallsOK
<1>2. c # "none"
  BY CanaryAssumption
<1>3. "idle" \notin Ending
  BY DEF Ending, Saving
<1>4. ASSUME NEW d \in Components, saved'[d].active,
             \A b \in Callers : call'[b].on = d => call'[b].at \notin Ending
      PROVE  Halfway(saved'[d], stable'[d], canary'[d])
  <2>1. CASE d = c
    BY <1>1, <1>2, <1>3, <1>4, <2>1
  <2>2. CASE d # c
    <3>1. \A b \in Callers : call[b].on # d
      BY <1>1, <2>2, CanaryAssumption
    <3> QED
      BY <1>4, <2>2, <3>1 DEF Serving
  <2> QED
    BY <2>1, <2>2
<1>5. ASSUME NEW b \in Callers, call'[b].at # "idle"
      PROVE  Serves(call'[b], saved'[call'[b].on], stable'[call'[b].on], canary'[call'[b].on])
  BY <1>1, <1>5
<1> QED
  BY <1>4, <1>5 DEF Serving

(* What a call that does not end a rollout finds.                          *)
LEMMA FindsHalfway ==
    ASSUME Alone, Inv, Serving, NEW a \in Callers, call[a].at \notin Ending,
           NEW c \in Components, saved[c].active
    PROVE  Halfway(saved[c], stable[c], canary[c])
BY DEF Alone, Serving

LEMMA ServingUnmoved ==
    ASSUME Alone, Inv, Serving, NEW a \in Callers, NEW r, call' = [call EXCEPT ![a] = r],
           NEW c \in Components, call[a].on \in {c, "none"}, call[a].at \notin Ending,
           UNCHANGED <<stable, canary, saved>>,
           r.at \notin Ending \union {"stableUp", "canaryUp", "undo"},
           r.at # "idle" => r.on = c, r.on # "none" => r.on = c /\ r.at # "idle"
    PROVE  Serving'
<1>1. saved[c].active => Halfway(saved[c], stable[c], canary[c])
  BY FindsHalfway
<1>2. Serves(r, saved[c], stable[c], canary[c])
  BY DEF Serves, Ending
<1> QED
  BY <1>1, <1>2, ServingStays

LEMMA ServingGoes ==
    ASSUME Alone, Inv, Serving, NEW a \in Callers, call[a].at \notin Ending \union {"idle"},
           NEW pc, pc \notin Ending \union {"stableUp", "canaryUp", "undo", "idle"},
           Goto(a, pc) \/ Return(a), UNCHANGED <<stable, canary, saved>>
    PROVE  Serving'
<1>1. call[a] \in Calls /\ call[a].on \in Components
  BY CallFacts
<1>2. CASE Goto(a, pc)
  <2> DEFINE r == [call[a] EXCEPT !.at = pc]
  <2>1. r.at = pc /\ r.on = call[a].on /\ call' = [call EXCEPT ![a] = r]
    BY <1>1, <1>2 DEF Calls, Goto
  <2> HIDE DEF r
  <2> QED
    BY <1>1, <2>1, ServingUnmoved
<1>3. CASE Return(a)
  <2>1. Idle.at = "idle" /\ Idle.on = "none" /\ "idle" \notin Ending
    BY DEF Idle, Ending, Saving
  <2> QED
    BY <1>1, <1>3, <2>1, ServingUnmoved DEF Return
<1> QED
  BY <1>2, <1>3

LEMMA ServingScales ==
    ASSUME Alone, Gentle, Orderly, ScalesInOrder, Serving, NEW a \in Callers, Scales(a)
    PROVE  Serving'
<1> PICK result \in Results :
        \/ StableUp(a, result) \/ CanaryUp(a, result) \/ Undo(a, result)
        \/ CanaryFirst(a, result) \/ StableDown(a, result)
        \/ Cut(a, result) \/ Restore(a, result) \/ ResetDeflates(a, result)
  BY DEF Scales
<1> USE DEF Orderly
<1> DEFINE c == call[a].on
           s == saved[c]
           plan == call[a].plan
<1>1. call[a].at # "idle"
  BY DEF StableUp, CanaryUp, Undo, CanaryFirst, StableDown, Cut, Restore, ResetDeflates, At
<1>2. call[a] \in Calls /\ c \in Components /\ Ordered(call[a], s) /\ c # "none"
  BY <1>1, CallFacts, DoesInOrder
<1>3. stable \in [Components -> Nat] /\ canary \in [Components -> Nat]
  BY DEF Inv, TypeOK, ClusterOK
<1>4. Serves(call[a], s, stable[c], canary[c]) /\ ScaleOrder(call[a], stable[c], canary[c])
  BY <1>1 DEF Serving, ScalesInOrder
<1>5. call[a].at \notin Ending /\ s.active => Halfway(s, stable[c], canary[c])
  BY <1>2, FindsHalfway
<1>6. result \in {"done", "refused"} /\ (Applied(result) <=> result = "done")
  BY DEF StableUp, CanaryUp, Undo, CanaryFirst, StableDown, Cut, Restore, ResetDeflates,
         ScaleStable, ScaleCanary, Answer, Fault, Gentle, Results, Applied
<1>7. UNCHANGED saved
  BY DEF StableUp, CanaryUp, Undo, CanaryFirst, StableDown, Cut, Restore, ResetDeflates,
         ScaleStable, ScaleCanary, seen
<1>8. \A d \in Components \ {c} : stable'[d] = stable[d] /\ canary'[d] = canary[d]
  BY <1>2, <1>3 DEF StableUp, CanaryUp, Undo, CanaryFirst, StableDown, Cut, Restore, ResetDeflates,
         ScaleStable, ScaleCanary
<1>9. ASSUME NEW r, call' = [call EXCEPT ![a] = r], r.on = c, r.at # "idle",
             Serves(r, s, stable'[c], canary'[c]),
             r.at \notin Ending /\ s.active => Halfway(s, stable'[c], canary'[c])
      PROVE  Serving'
  BY <1>2, <1>7, <1>8, <1>9, ServingStays
<1>10. ASSUME Return(a), s.active => Halfway(s, stable'[c], canary'[c])
       PROVE  Serving'
  <2>1. Idle.at = "idle" /\ Idle.on = "none" /\ call' = [call EXCEPT ![a] = Idle]
    BY <1>10 DEF Idle, Return
  <2> QED
    BY <1>2, <1>7, <1>8, <1>10, <2>1, ServingStays
<1>11. call[a].at \in {"undo"} \union ScalesToPlan /\ s.active => plan = Aim(s) /\ ~Finishing(s)
  BY <1>2 DEF Ordered, StartOrder, PromoteOrder, RollbackOrder, ResetOrder, DeployOrder,
              ScalesToPlan, Saving
<1>12. call[a].at \in {"canaryUp", "stableDown"} => call[a].next = Active(plan, call[a].rest)
  BY <1>2 DEF Ordered, StartOrder, PromoteOrder, RollbackOrder, ResetOrder, DeployOrder,
              ScalesToPlan, Saving
<1>13. plan.stable \in Nat /\ plan.canary \in Nat
  BY <1>2 DEF Calls, Plans
<1>14. Halfway(Active(plan, call[a].rest), plan.stable, plan.canary)
  BY <1>13 DEF Halfway, Active, Pool
<1>15. CASE StableUp(a, result)
  <2>1. call[a].at = "stableUp"
    BY <1>15 DEF StableUp, At
  <2>2. canary'[c] = canary[c] /\ stable'[c] = IF result = "done" THEN plan.stable ELSE stable[c]
    BY <1>2, <1>3, <1>6, <1>15 DEF StableUp, ScaleStable
  <2>3. s.active => Halfway(s, stable'[c], canary'[c])
    <3> SUFFICES ASSUME s.active PROVE Halfway(s, stable'[c], canary'[c])
      OBVIOUS
    <3>1. /\ plan = Aim(s) /\ ~Finishing(s) /\ call[a].from = s.stable /\ Aim(s).stable > s.stable
          /\ Halfway(s, stable[c], canary[c])
      BY <1>4, <1>5, <1>11, <2>1 DEF Serves, ScalesToPlan, Ending, Saving
    <3> QED
      BY <2>2, <3>1 DEF Halfway
  <2>4. CASE result = "done"
    <3> DEFINE r == [call[a] EXCEPT !.at = "canaryUp"]
    <3>1. r.at = "canaryUp" /\ r.on = c /\ r.from = call[a].from /\ call' = [call EXCEPT ![a] = r]
      BY <1>2, <1>15, <2>4 DEF Calls, StableUp, Goto
    <3> HIDE DEF r
    <3>2. Serves(r, s, stable'[c], canary'[c])
      BY <1>4, <2>1, <3>1 DEF Serves, Saving
    <3> QED
      BY <1>9, <2>3, <3>1, <3>2
  <2>5. CASE result # "done"
    BY <1>10, <1>15, <2>3, <2>5 DEF StableUp
  <2> QED
    BY <2>4, <2>5
<1>16. CASE CanaryUp(a, result)
  <2>1. call[a].at = "canaryUp" /\ stable[c] = plan.stable
    BY <1>4, <1>16 DEF CanaryUp, At, ScaleOrder
  <2>2. stable'[c] = plan.stable /\ canary'[c] = IF result = "done" THEN plan.canary ELSE canary[c]
    BY <1>2, <1>3, <1>6, <1>16, <2>1 DEF CanaryUp, ScaleCanary
  <2>3. s.active => Halfway(s, stable'[c], canary'[c])
    <3> SUFFICES ASSUME s.active PROVE Halfway(s, stable'[c], canary'[c])
      OBVIOUS
    <3>1. plan = Aim(s) /\ ~Finishing(s) /\ Halfway(s, stable[c], canary[c])
      BY <1>5, <1>11, <2>1 DEF ScalesToPlan, Ending, Saving
    <3> QED
      BY <2>1, <2>2, <3>1 DEF Halfway
  <2> DEFINE pc == IF result = "done" THEN "merge" ELSE "undo"
             r == [call[a] EXCEPT !.at = pc]
  <2>4. /\ r.at = pc /\ r.on = c /\ r.from = call[a].from /\ r.next = call[a].next
        /\ call' = [call EXCEPT ![a] = r]
    BY <1>2, <1>16 DEF Calls, CanaryUp, Goto
  <2> HIDE DEF r
  <2>5. Serves(r, s, stable'[c], canary'[c])
    BY <1>4, <1>12, <1>14, <2>1, <2>2, <2>4 DEF Serves, Saving
  <2> QED
    BY <1>9, <2>3, <2>4, <2>5
<1>17. CASE Undo(a, result)
  <2>1. call[a].at = "undo" /\ Return(a)
    BY <1>17 DEF Undo, At
  <2>2. canary'[c] = canary[c] /\ stable'[c] = IF result = "done" THEN call[a].from ELSE stable[c]
    BY <1>2, <1>3, <1>6, <1>17 DEF Undo, ScaleStable
  <2>3. s.active => Halfway(s, stable'[c], canary'[c])
    <3> SUFFICES ASSUME s.active PROVE Halfway(s, stable'[c], canary'[c])
      OBVIOUS
    <3>1. ~Finishing(s) /\ call[a].from = s.stable /\ Halfway(s, stable[c], canary[c])
      BY <1>4, <1>5, <1>11, <2>1 DEF Serves, Ending, Saving
    <3> QED
      BY <2>2, <3>1 DEF Halfway
  <2> QED
    BY <1>10, <2>1, <2>3
<1>18. CASE CanaryFirst(a, result)
  <2>1. call[a].at = "canaryFirst"
    BY <1>18 DEF CanaryFirst, At
  <2>2. stable'[c] = stable[c] /\ canary'[c] = IF result = "done" THEN plan.canary ELSE canary[c]
    BY <1>2, <1>3, <1>6, <1>18 DEF CanaryFirst, ScaleCanary
  <2>3. s.active => Halfway(s, stable'[c], canary'[c])
    <3> SUFFICES ASSUME s.active PROVE Halfway(s, stable'[c], canary'[c])
      OBVIOUS
    <3>1. plan = Aim(s) /\ ~Finishing(s) /\ Halfway(s, stable[c], canary[c])
      BY <1>5, <1>11, <2>1 DEF ScalesToPlan, Ending, Saving
    <3> QED
      BY <2>2, <3>1 DEF Halfway
  <2>4. CASE result = "done"
    <3> DEFINE r == [call[a] EXCEPT !.at = "stableDown"]
    <3>1. r.at = "stableDown" /\ r.on = c /\ call' = [call EXCEPT ![a] = r]
      BY <1>2, <1>18, <2>4 DEF Calls, CanaryFirst, Goto
    <3> HIDE DEF r
    <3>2. Serves(r, s, stable'[c], canary'[c])
      BY <3>1 DEF Serves, Saving
    <3> QED
      BY <1>9, <2>3, <3>1, <3>2
  <2>5. CASE result # "done"
    BY <1>10, <1>18, <2>3, <2>5 DEF CanaryFirst
  <2> QED
    BY <2>4, <2>5
<1>19. CASE StableDown(a, result)
  <2>1. call[a].at = "stableDown" /\ canary[c] = plan.canary
    BY <1>4, <1>19 DEF StableDown, At, ScaleOrder
  <2>2. canary'[c] = plan.canary /\ stable'[c] = IF result = "done" THEN plan.stable ELSE stable[c]
    BY <1>2, <1>3, <1>6, <1>19, <2>1 DEF StableDown, ScaleStable
  <2>3. s.active => Halfway(s, stable'[c], canary'[c])
    <3> SUFFICES ASSUME s.active PROVE Halfway(s, stable'[c], canary'[c])
      OBVIOUS
    <3>1. plan = Aim(s) /\ ~Finishing(s) /\ Halfway(s, stable[c], canary[c])
      BY <1>5, <1>11, <2>1 DEF ScalesToPlan, Ending, Saving
    <3> QED
      BY <2>1, <2>2, <3>1 DEF Halfway
  <2>4. CASE result = "done"
    <3> DEFINE r == [call[a] EXCEPT !.at = "merge"]
    <3>1. r.at = "merge" /\ r.on = c /\ r.next = call[a].next /\ call' = [call EXCEPT ![a] = r]
      BY <1>2, <1>19, <2>4 DEF Calls, StableDown, Goto
    <3> HIDE DEF r
    <3>2. Serves(r, s, stable'[c], canary'[c])
      BY <1>12, <1>14, <2>1, <2>2, <2>4, <3>1 DEF Serves
    <3> QED
      BY <1>9, <2>3, <3>1, <3>2
  <2>5. CASE result # "done"
    BY <1>10, <1>19, <2>3, <2>5 DEF StableDown
  <2> QED
    BY <2>4, <2>5
<1>20. CASE Cut(a, result)
  <2>1. call[a].at = "cut"
    BY <1>20 DEF Cut, At
  <2>2. result # "done" => UNCHANGED <<stable, canary>>
    BY <1>6, <1>20 DEF Cut, ScaleCanary
  <2>3. Cmd(a, "reset") => ~s.active
    BY <1>2 DEF Ordered, ResetOrder, Cmd
  <2>4. CASE result = "done" \/ Cmd(a, "promote")
    <3> DEFINE pc == IF Cmd(a, "reset") THEN "lookStable" ELSE "restore"
               r == [call[a] EXCEPT !.at = pc]
    <3>1. r.at = pc /\ r.on = c /\ call' = [call EXCEPT ![a] = r]
      BY <1>2, <1>20, <2>4 DEF Calls, Cut, Goto
    <3> HIDE DEF r
    <3>2. Serves(r, s, stable'[c], canary'[c])
      BY <3>1 DEF Serves, Saving
    <3> QED
      BY <1>9, <2>3, <3>1, <3>2 DEF Ending
  <2>5. CASE ~(result = "done" \/ Cmd(a, "promote"))
    BY <1>5, <1>10, <1>20, <2>1, <2>2, <2>5 DEF Cut, Ending, Saving
  <2> QED
    BY <2>4, <2>5
<1>21. CASE Restore(a, result)
  <2> DEFINE r == [call[a] EXCEPT !.next = Ended(State(a), call[a].rest), !.at = "merge"]
  <2>1. /\ r.at = "merge" /\ r.on = c /\ r.next = Ended(State(a), call[a].rest)
        /\ call' = [call EXCEPT ![a] = r]
    BY <1>2, <1>21 DEF Restore, Calls
  <2>2. State(a) \in States
    BY <1>1, CallFacts
  <2>3. ~r.next.active
    BY <2>1, <2>2 DEF Ended, States
  <2> HIDE DEF r
  <2>4. Serves(r, s, stable'[c], canary'[c])
    BY <2>1, <2>3 DEF Serves
  <2> QED
    BY <1>9, <2>1, <2>4 DEF Ending, Saving
<1>22. CASE ResetDeflates(a, result)
  <2> DEFINE r == [call[a] EXCEPT !.next = State(a), !.at = "merge"]
  <2>1. r.at = "merge" /\ r.on = c /\ r.next = State(a) /\ call' = [call EXCEPT ![a] = r]
    BY <1>2, <1>22 DEF ResetDeflates, ResetRecords, Calls
  <2>2. call[a].at = "deflate"
    BY <1>22 DEF ResetDeflates, At
  <2>3. State(a) = s /\ ~s.active
    BY <1>2, <2>2, StateIsSaved
    DEF Loaded, Phases, Ordered, StartOrder, PromoteOrder, RollbackOrder, ResetOrder, DeployOrder,
        ScalesToPlan, Saving
  <2> HIDE DEF r
  <2>4. Serves(r, s, stable'[c], canary'[c])
    BY <2>1, <2>3 DEF Serves
  <2> QED
    BY <1>9, <2>1, <2>4 DEF Ending, Saving
<1> QED
  BY <1>15, <1>16, <1>17, <1>18, <1>19, <1>20, <1>21, <1>22

LEMMA ServingReads ==
    ASSUME Alone, Orderly, Serving, NEW a \in Callers, Reads(a)
    PROVE  Serving'
<1> USE DEF Orderly
<1> DEFINE c == call[a].on
           s == saved[c]
<1>1. UNCHANGED <<stable, canary, saved>>
  BY DEF Reads, StartPlans, PromotePlans, ResetLooks, ResetLooksAtStable, PromoteFindsHealthy,
         PromoteFindsUnhealthy, PromotePassesGate, PromoteRefused, FinishWaits, DeployWaits,
         EvaluateHolds, EvaluateBreaches, EvaluateRollsBack, cluster, seen
<1>2. call[a].at # "idle" =>
        call[a] \in Calls /\ c \in Components /\ c # "none" /\ Ordered(call[a], s)
  BY CallFacts, DoesInOrder
<1>3. /\ stable \in [Components -> Nat] /\ saved \in [Components -> States]
      /\ \A d \in Components : stable[d] >= 1
  BY DEF Inv, TypeOK, ClusterOK, SeenOK, StableServes
<1>4. ASSUME NEW pc, pc \notin Ending \union {"stableUp", "canaryUp", "undo", "idle"},
             Goto(a, pc) \/ Return(a), call[a].at \notin Ending \union {"idle"}
      PROVE  Serving'
  BY <1>1, <1>4, ServingGoes
<1> USE DEF Ending, Saving
<1>5. ASSUME NEW live \in Live(c), NEW w \in Weights, StartPlans(a, w, live)
      PROVE  Serving'
  <2> DEFINE rest == RestingFromLive(live)
             plan == PlanRollout(rest, Requested(w), MaxPool(rest, Total))
             r == [call[a] EXCEPT !.rest = rest, !.from = rest, !.plan = plan,
                                  !.next = Active(plan, rest), !.at = FirstScale(plan, rest)]
  <2>1. call[a].at = "plan" /\ call[a].cmd = "start" /\ call' = [call EXCEPT ![a] = r]
    BY <1>5 DEF StartPlans, At, Cmd
  <2>2. ~s.active
    BY <1>2, <2>1 DEF Ordered, StartOrder
  <2> HIDE DEF rest, plan
  <2>3. r.at = FirstScale(plan, rest) /\ r.on = c
    BY <1>2, <2>1 DEF Calls
  <2> HIDE DEF r
  <2>4. r.at \in {"stableUp", "canaryFirst"}
    BY <2>3 DEF FirstScale
  <2>5. Serves(r, s, stable[c], canary[c])
    BY <2>2, <2>4 DEF Serves
  <2> HIDE DEF c
  <2>6. call[a].on = c
    BY DEF c
  <2> QED
    BY <1>1, <1>2, <2>1, <2>2, <2>3, <2>4, <2>5, <2>6, ServingStays
<1>6. ASSUME NEW live \in Live(c), PromotePlans(a, live)
      PROVE  Serving'
  <2> DEFINE rest == call[a].rest
             plan == PlanRollout(rest, NextWeight(State(a), Step), MaxPool(rest, Total))
             from == FirstCount(live, State(a).stable, rest)
             r == [call[a] EXCEPT !.from = from, !.plan = plan,
                                  !.next = Active(plan, rest), !.at = FirstScale(plan, from)]
  <2>1. /\ call[a].at = "plan" /\ call[a].cmd = "promote" /\ call' = [call EXCEPT ![a] = r]
        /\ live = stable[c] \/ live = Unread
    BY <1>6 DEF PromotePlans, At, Cmd, ReadLive
  <2>2. State(a) = s
    BY <2>1, StateIsSaved DEF Loaded, Phases, ScalesToPlan
  <2>3. s.active /\ rest = RestOf(s) /\ ~Finishing(s)
    BY <1>2, <2>1 DEF Ordered, PromoteOrder, ScalesToPlan
  <2>4. Halfway(s, stable[c], canary[c])
    BY <1>2, <2>1, <2>3, FindsHalfway
  <2>5. stable[c] \in {s.stable, Aim(s).stable}
    BY <2>4 DEF Halfway
  <2>6. s.stable \in Nat /\ s.stable >= 1
    <3>1. s \in States
      BY <1>2, <1>3, <2>1
    <3>2. PICK k \in Counts, w \in Int : s = Planned(k, w)
      BY <1>2, <2>1, <2>3 DEF RecordsArePlans
    <3>3. PlanRollout(k, w, MaxPool(k, Total)).stable >= 1
      BY PlanType DEF Counts
    <3> HIDE DEF s
    <3> QED
      BY <3>1, <3>2, <3>3 DEF Planned, Active, States
  <2>7. plan = Aim(s)
    BY <2>2, <2>3 DEF Aim
  <2>8. from \in {s.stable, Aim(s).stable}
    BY <1>2, <1>3, <2>1, <2>2, <2>5, <2>6 DEF FirstCount, Unread
  <2> HIDE DEF plan, from
  <2>9. r.at = FirstScale(plan, from) /\ r.on = c /\ r.from = from
    BY <1>2, <2>1 DEF Calls
  <2> HIDE DEF r, s
  <2>10. plan.stable \in Nat
    <3>1. call[a] \in Calls /\ State(a) \in States
      BY <1>2, <2>1, CallFacts
    <3>2. rest \in Nat /\ NextWeight(State(a), Step) \in Int
      BY <3>1, CanaryAssumption DEF Calls, States, NextWeight, AtMost, AtLeast
    <3> QED
      BY <3>2, PlanType DEF plan, Plans
  <2>11. r.at = "stableUp" => r.from = s.stable /\ Aim(s).stable > s.stable
    BY <2>6, <2>7, <2>8, <2>9, <2>10 DEF FirstScale
  <2>12. r.at \in {"stableUp", "canaryFirst"}
    BY <2>9 DEF FirstScale
  <2>13. Serves(r, s, stable[c], canary[c])
    BY <2>11, <2>12 DEF Serves
  <2> HIDE DEF c
  <2>14. call[a].on = c /\ s = saved[c]
    BY DEF c, s
  <2> QED
    BY <1>1, <1>2, <2>1, <2>4, <2>9, <2>12, <2>13, <2>14, ServingStays
<1>7. ASSUME NEW live \in Live(c), ResetLooks(a, live)
      PROVE  Serving'
  BY <1>4, <1>7 DEF ResetLooks, At
<1>8. ASSUME NEW live \in Live(c), ResetLooksAtStable(a, live)
      PROVE  Serving'
  <2>1. call[a].at = "lookStable"
    BY <1>8 DEF ResetLooksAtStable, At
  <2>2. CASE Goto(a, "deflate")
    BY <1>4, <2>1, <2>2
  <2>3. CASE ResetRecords(a)
    <3> DEFINE r == [call[a] EXCEPT !.next = State(a), !.at = "merge"]
    <3>1. r.at = "merge" /\ r.on = c /\ r.next = State(a) /\ call' = [call EXCEPT ![a] = r]
      BY <1>2, <2>1, <2>3 DEF ResetRecords, Calls
    <3>2. State(a) = s /\ ~s.active
      BY <1>2, <2>1, StateIsSaved
      DEF Loaded, Phases, Ordered, StartOrder, PromoteOrder, RollbackOrder, ResetOrder, DeployOrder,
          ScalesToPlan
    <3> HIDE DEF r
    <3>3. Serves(r, s, stable[c], canary[c])
      BY <3>1, <3>2 DEF Serves
    <3> HIDE DEF c
    <3>4. call[a].on = c
      BY DEF c
    <3> QED
      BY <1>1, <1>2, <2>1, <3>1, <3>2, <3>3, <3>4, ServingStays
  <2> QED
    BY <1>8, <2>2, <2>3 DEF ResetLooksAtStable
<1>9. CASE PromoteFindsHealthy(a)
  <2> DEFINE r == [call[a] EXCEPT !.version = image[c].canary, !.at = "traffic"]
  <2>1. call[a].at = "health" /\ call' = [call EXCEPT ![a] = r]
    BY <1>9 DEF PromoteFindsHealthy, At
  <2>2. r.on = c /\ r.at = "traffic"
    BY <1>2, <2>1 DEF Calls
  <2> HIDE DEF r
  <2> QED
    BY <1>1, <1>2, <2>1, <2>2, ServingUnmoved
<1>10. ASSUME NEW force \in Forces, PromotePassesGate(a, force)
       PROVE  Serving'
  <2>1. CASE NextWeight(State(a), Step) >= 100
    BY <1>4, <1>10, <2>1 DEF PromotePassesGate, At
  <2>2. CASE ~(NextWeight(State(a), Step) >= 100)
    BY <1>4, <1>10, <2>2 DEF PromotePassesGate, At
  <2> QED
    BY <2>1, <2>2
<1>11. CASE PromoteFindsUnhealthy(a) \/ PromoteRefused(a) \/ EvaluateHolds(a) \/ EvaluateBreaches(a)
  BY <1>4, <1>11 DEF PromoteFindsUnhealthy, PromoteRefused, EvaluateHolds, EvaluateBreaches, At
<1>12. ASSUME NEW ready \in BOOLEAN, FinishWaits(a, ready) \/ DeployWaits(a, ready)
       PROVE  Serving'
  BY <1>4, <1>12 DEF FinishWaits, DeployWaits, At
<1>13. CASE EvaluateRollsBack(a)
  <2> DEFINE r == [Idle EXCEPT !.cmd = "rollback", !.on = c, !.at = "cut", !.loaded = LoadState(c),
                               !.rest = RestingFromState(LoadState(c)[c], NoCeiling)]
  <2>1. call[a].at = "reload" /\ (call' = [call EXCEPT ![a] = r] \/ Return(a))
    BY <1>13 DEF EvaluateRollsBack, At
  <2>2. r.at = "cut" /\ r.on = c
    BY DEF Idle
  <2> HIDE DEF r
  <2>3. CASE Return(a)
    BY <1>4, <2>1, <2>3
  <2>4. CASE call' = [call EXCEPT ![a] = r]
    BY <1>1, <1>2, <2>1, <2>2, <2>4, ServingUnmoved
  <2> QED
    BY <2>1, <2>3, <2>4
<1> QED
  BY <1>5, <1>6, <1>7, <1>8, <1>9, <1>10, <1>11, <1>12, <1>13 DEF Reads

LEMMA ServingLoads ==
    ASSUME Alone, Inv, Serving, NEW a \in Callers, NEW c \in Components, Loads(a, c)
    PROVE  Serving'
<1> USE DEF Ending, Saving
<1>1. ASSUME NEW cmd, NEW pc \in {"plan", "health", "cut", "look", "measure"}, NEW rest,
             Begin(a, cmd, c, pc, rest)
      PROVE  Serving'
  <2> DEFINE r == [Idle EXCEPT !.cmd = cmd, !.on = c, !.at = pc,
                               !.loaded = LoadState(c), !.rest = rest]
  <2>1. /\ call' = [call EXCEPT ![a] = r] /\ r.at = pc /\ r.on = c
        /\ call[a].at = "idle" /\ call[a].on = "none" /\ UNCHANGED <<stable, canary, saved>>
    BY <1>1 DEF Begin, Idle, cluster, seen
  <2> HIDE DEF r
  <2> QED
    BY <2>1, ServingUnmoved
<1>2. ASSUME NEW v \in Versions, DeployBuilds(a, c, v)
      PROVE  Serving'
  <2> DEFINE r == [Idle EXCEPT !.cmd = "deploy", !.on = c, !.at = "setCanaryImage", !.version = v]
  <2>1. /\ call' = [call EXCEPT ![a] = r] /\ r.at = "setCanaryImage" /\ r.on = c
        /\ call[a].at = "idle" /\ call[a].on = "none" /\ UNCHANGED <<stable, canary, saved>>
    BY <1>2 DEF DeployBuilds, Idle, cluster, seen
  <2> HIDE DEF r
  <2> QED
    BY <2>1, ServingUnmoved
<1> QED
  BY <1>1, <1>2
  DEF Loads, StartLoads, PromoteLoads, RollbackLoads, ResetLoads, EvaluateLoads

LEMMA ServingImages ==
    ASSUME Alone, Inv, Serving, NEW a \in Callers, Images(a)
    PROVE  Serving'
BY ServingGoes DEF Images, FinishSetsImage, DeploySetsImage, SetImage, At, Ending, Saving, seen

LEMMA ServingSaves ==
    ASSUME Alone, Orderly, Serving, NEW a \in Callers, Saves(a)
    PROVE  Serving'
<1> USE DEF Orderly, Ending, Saving
<1> DEFINE c == call[a].on
<1>1. UNCHANGED <<stable, canary>>
  BY DEF Saves, DeployLoads, Merge, Truncate, Write, cluster
<1>2. call[a].at # "idle" => call[a] \in Calls /\ c \in Components /\ c # "none"
  BY CallFacts
<1>3. ASSUME NEW r, call' = [call EXCEPT ![a] = r], r.at \in Saving, r.on = c,
             call[a].at # "idle", UNCHANGED saved,
             r.next.active => Halfway(r.next, stable[c], canary[c])
      PROVE  Serving'
  <2>1. Serves(r, saved[c], stable[c], canary[c])
    BY <1>3 DEF Serves
  <2>2. r.at # "idle"
    BY <1>3
  <2> HIDE DEF c
  <2>3. call[a].on = c
    BY DEF c
  <2> QED
    BY <1>1, <1>2, <1>3, <2>1, <2>2, <2>3, ServingStays
<1>4. call[a].at \in Saving /\ call[a].next.active => Halfway(call[a].next, stable[c], canary[c])
  BY DEF Serving, Serves
<1>5. CASE DeployLoads(a)
  <2> DEFINE r == [call[a] EXCEPT !.loaded = LoadState(c), !.next = LoadState(c)[c], !.at = "merge"]
  <2>1. call[a].at = "load" /\ call' = [call EXCEPT ![a] = r] /\ UNCHANGED saved
    BY <1>5 DEF DeployLoads, At, seen
  <2>2. LoadState(c)[c] = saved[c]
    BY <1>2, <2>1, FileSays
  <2>3. r.at = "merge" /\ r.on = c /\ r.next = saved[c]
    BY <1>2, <2>1, <2>2 DEF Calls
  <2>4. saved[c].active => Halfway(saved[c], stable[c], canary[c])
    BY <1>2, <2>1, FindsHalfway
  <2> HIDE DEF r
  <2> QED
    BY <1>3, <2>1, <2>3, <2>4
<1>6. CASE Merge(a)
  <2> DEFINE base == IF c = "api" THEN call[a].loaded ELSE Readable
             new == [base EXCEPT ![c] = call[a].next]
             r == [call[a] EXCEPT !.loaded = new, !.at = "truncate"]
  <2>1. call[a].at = "merge" /\ call' = [call EXCEPT ![a] = r] /\ UNCHANGED saved
    BY <1>6 DEF Merge, At, seen
  <2> HIDE DEF new
  <2>2. r.at = "truncate" /\ r.on = c /\ r.next = call[a].next
    BY <1>2, <2>1 DEF Calls
  <2> HIDE DEF r
  <2> QED
    BY <1>3, <1>4, <2>1, <2>2
<1>7. CASE Truncate(a)
  <2> DEFINE r == [call[a] EXCEPT !.at = "write"]
  <2>1. call[a].at = "truncate" /\ call' = [call EXCEPT ![a] = r] /\ UNCHANGED saved
    BY <1>7 DEF Truncate, Goto, At, seen
  <2>2. r.at = "write" /\ r.on = c /\ r.next = call[a].next
    BY <1>2, <2>1 DEF Calls
  <2> HIDE DEF r
  <2> QED
    BY <1>3, <1>4, <2>1, <2>2
<1>8. CASE Write(a)
  <2>1. /\ call[a].at = "write" /\ call' = [call EXCEPT ![a] = Idle]
        /\ saved' = [saved EXCEPT ![c] = call[a].next]
    BY <1>8 DEF Write, Return, At
  <2>2. c \in Components /\ saved \in [Components -> States]
    BY <1>2, <2>1 DEF Inv, TypeOK, SeenOK
  <2>3. saved'[c] = call[a].next /\ \A d \in Components \ {c} : saved'[d] = saved[d]
    BY <2>1, <2>2
  <2>4. Idle.at = "idle" /\ Idle.on = "none"
    BY DEF Idle
  <2>5. saved'[c].active => Halfway(saved'[c], stable'[c], canary'[c])
    BY <1>1, <1>4, <2>1, <2>3
  <2> HIDE DEF c
  <2>6. call[a].on \in {c, "none"}
    BY DEF c
  <2> QED
    BY <1>1, <2>1, <2>2, <2>3, <2>4, <2>5, <2>6, ServingStays
<1> QED
  BY <1>5, <1>6, <1>7, <1>8 DEF Saves

LEMMA ServingDisturbs ==
    ASSUME Alone, Gentle, Orderly, Serving, Disturbs
    PROVE  Serving'
<1> USE DEF Orderly
<1>1. ASSUME NEW c \in Components, Serve(c)
      PROVE  Serving'
  BY <1>1 DEF Serve, Serving
<1>2. ASSUME NEW c \in Components, NEW n \in HandCounts, ScaleByHand(c, n)
      PROVE  Serving'
  <2>1. /\ UNCHANGED <<call, canary, saved>>
        /\ stable' = [stable EXCEPT ![c] = n]
        /\ \A a \in Callers : call[a].on # c /\ ~At(a, "write")
    BY <1>2 DEF ScaleByHand, Settled
  <2>2. Readable = saved
    BY <2>1, RecordIsSaved
  <2>3. ~saved[c].active /\ \A d \in Components \ {c} : stable'[d] = stable[d]
    BY <1>2, <2>1, <2>2 DEF ScaleByHand, Inv, TypeOK, ClusterOK
  <2>4. ASSUME NEW d \in Components, saved'[d].active,
               \A a \in Callers : call'[a].on = d => call'[a].at \notin Ending
        PROVE  Halfway(saved'[d], stable'[d], canary'[d])
    BY <2>1, <2>3, <2>4 DEF Serving
  <2>5. ASSUME NEW a \in Callers, call'[a].at # "idle"
        PROVE  Serves(call'[a], saved'[call'[a].on], stable'[call'[a].on], canary'[call'[a].on])
    <3>1. call[a].on \in Components \ {c}
      BY <2>1, <2>5, CallFacts
    <3> QED
      BY <2>1, <2>3, <2>5, <3>1 DEF Serving
  <2> QED
    BY <2>4, <2>5 DEF Serving
<1>3. ~(\E a \in Callers : Crash(a))
  BY DEF Crash, Fault, Gentle
<1>4. CASE LoseFile
  <2>1. Idle.at = "idle" /\ \A c \in Components : ~NoStates[c].active
    BY DEF Idle, NoStates, NoRollout
  <2> QED
    BY <1>4, <2>1 DEF LoseFile, Serving
<1> QED
  BY <1>1, <1>2, <1>3, <1>4 DEF Disturbs

(* A rollout on record keeps Pods on both tracks and the resting capacity, *)
(* however often commands on it are refused half-way, cannot read what     *)
(* they go by, or lose the file: as long as they run one at a time, and no *)
(* refused call has been applied all the same.                             *)
THEOREM AloneTheyKeepCapacity ==
    ASSUME Alone, Gentle
    PROVE  Spec => []ActiveRolloutServes
<1>1. Init => Serving
  <2>1. Idle.at = "idle" /\ \A c \in Components : ~NoStates[c].active
    BY DEF Idle, NoStates, NoRollout
  <2> QED
    BY <2>1 DEF Init, Serving
<1>2. Orderly /\ ScalesInOrder /\ Serving /\ [Next]_vars => Serving'
  <2> SUFFICES ASSUME Orderly, ScalesInOrder, Serving, [Next]_vars PROVE Serving'
    OBVIOUS
  <2>1. CASE UNCHANGED vars
    BY <2>1 DEF vars, Serving
  <2>2. CASE Next
    BY <2>2, ServingLoads, ServingScales, ServingImages, ServingReads, ServingSaves, ServingDisturbs
    DEF Next, Proceeds, Orderly
  <2> QED
    BY <2>1, <2>2
<1>3. Orderly /\ Serving => ActiveRolloutServes
  <2> SUFFICES ASSUME Orderly, Serving, NEW c \in Components, Settled(c), Readable[c].active
               PROVE  canary[c] >= 1 /\ stable[c] + canary[c] >= Readable[c].resting
    BY DEF ActiveRolloutServes
  <2>1. Readable = saved
    BY RecordIsSaved DEF Settled
  <2>2. Halfway(saved[c], stable[c], canary[c])
    BY <2>1 DEF Serving, Settled
  <2>3. stable[c] \in Nat /\ canary[c] \in Nat
    BY DEF Orderly, Inv, TypeOK, ClusterOK
  <2> QED
    BY <2>1, <2>2, <2>3, HalfwayServes
<1> QED
  BY <1>1, <1>2, <1>3, OrderlyInit, OrderlyNext, ScalesInOrderInit, ScalesInOrderNext, PTL DEF Spec

-----------------------------------------------------------------------------
(* What the commands promise, one at a time *)

(* The promise plans with the arithmetic the commands plan with.           *)
LEMMA SameArithmetic ==
    /\ \A r, w, m : Api!PlanRollout(r, w, m) = PlanRollout(r, w, m)
    /\ \A r, t : Api!MaxPool(r, t) = MaxPool(r, t)
    /\ \A w : Api!Requested(w) = Requested(w)
    /\ \A n : Api!RestingFromLive(n) = RestingFromLive(n)
    /\ \A s, n : Api!RestingFromState(s, n) = RestingFromState(s, n)
    /\ \A plan, r : Api!Active(plan, r) = Active(plan, r)
    /\ \A s, r : Api!Ended(s, r) = Ended(s, r)
    /\ \A s, n : Api!NextWeight(s, n) = NextWeight(s, n)
    /\ Api!NoRollout = NoRollout
<1> USE DEF Api!AtLeast, AtLeast, Api!AtMost, AtMost, Api!Distance, Distance,
            Api!RoundHalfEven, RoundHalfEven, Api!DefaultResting, DefaultResting,
            Api!NoCeiling, NoCeiling, Api!Unread, Unread
<1>1. \A r : Api!Narrowest(r) = Narrowest(r)
  BY ZenonT(60) DEF Api!Narrowest, Narrowest
<1>2. \A r, m : Api!Widest(r, m) = Widest(r, m)
  BY <1>1, ZenonT(60) DEF Api!Widest, Widest
<1>3. \A p, w : Api!CanaryPart(p, w) = CanaryPart(p, w)
  BY ZenonT(60) DEF Api!CanaryPart, CanaryPart
<1>4. \A p, w : Api!Achieved(p, w) = Achieved(p, w)
  BY <1>3, ZenonT(60) DEF Api!Achieved, Achieved
<1>5. \A p, w : Api!Miss(p, w) = Miss(p, w)
  BY <1>4, ZenonT(60) DEF Api!Miss, Miss
<1>6. \A r, m : Api!Pools(r, m) = Pools(r, m)
  BY <1>1, <1>2, ZenonT(60) DEF Api!Pools, Pools
<1>7. \A p, r, w, m : Api!IsBestPool(p, r, w, m) = IsBestPool(p, r, w, m)
  BY <1>5, <1>6, ZenonT(60) DEF Api!IsBestPool, IsBestPool
<1>8. \A r, w, m : Api!BestPool(r, w, m) = BestPool(r, w, m)
  BY <1>6, <1>7, ZenonT(60) DEF Api!BestPool, BestPool
<1>9. \A w : Api!Requested(w) = Requested(w)
  BY ZenonT(60) DEF Api!Requested, Requested
<1>10. \A r, w, m : Api!PlanRollout(r, w, m) = PlanRollout(r, w, m)
  BY <1>3, <1>4, <1>8, <1>9, ZenonT(60) DEF Api!PlanRollout, PlanRollout
<1>11. \A r, t : Api!MaxPool(r, t) = MaxPool(r, t)
  BY ZenonT(60) DEF Api!MaxPool, MaxPool
<1>12. \A n : Api!RestingFromLive(n) = RestingFromLive(n)
  BY ZenonT(60) DEF Api!RestingFromLive, RestingFromLive
<1>13. \A s, n : Api!RestingFromState(s, n) = RestingFromState(s, n)
  BY ZenonT(60) DEF Api!RestingFromState, RestingFromState, Api!FirstCount, FirstCount
<1>14. \A plan, r : Api!Active(plan, r) = Active(plan, r)
  BY ZenonT(60) DEF Api!Active, Active, Api!Pool, Pool
<1>15. \A s, r : Api!Ended(s, r) = Ended(s, r)
  BY ZenonT(60) DEF Api!Ended, Ended
<1>16. \A s, n : Api!NextWeight(s, n) = NextWeight(s, n)
  BY ZenonT(60) DEF Api!NextWeight, NextWeight
<1>17. Api!NoRollout = NoRollout
  BY ZenonT(60) DEF Api!NoRollout, NoRollout
<1> QED
  BY <1>9, <1>10, <1>11, <1>12, <1>13, <1>14, <1>15, <1>16, <1>17, Zenon

(* The record, also while it is being rewritten.                           *)
LEMMA RecordedIsSaved ==
    ASSUME Orderly
    PROVE  Recorded("api") = saved["api"]
<1>1. CASE \E a \in Callers : At(a, "write")
  BY <1>1 DEF Recorded
<1>2. CASE ~(\E a \in Callers : At(a, "write"))
  BY <1>2, RecordIsSaved DEF Recorded
<1> QED
  BY <1>1, <1>2

(* What a call on api that saves makes of the record is what the promise   *)
(* makes of it.                                                            *)
LEMMA SavesKeepPromise ==
    ASSUME Orderly, "api" \in Components, ReadCounts = Nat, NEW a \in Callers,
           call[a].at = "write", call[a].on = "api",
           Recorded("api") = saved["api"], Recorded("api")' = call[a].next
    PROVE  [Api!Next]_Api!vars
<1> DEFINE r == call[a]
           s == saved["api"]
<1>1. Ordered(r, s) /\ r \in Calls /\ s \in States
  BY DoesInOrder, CallFacts DEF Orderly, Inv, TypeOK, SeenOK
<1>2. CASE r.cmd = "start"
  <2>1. /\ ~s.active /\ r.rest \in Nat /\ r.rest >= 1 /\ r.next = Active(r.plan, r.rest)
        /\ \E w \in Weights : r.plan = PlanRollout(r.rest, Requested(w), MaxPool(r.rest, Total))
    BY <1>1, <1>2 DEF Ordered, StartOrder, Saving, Calls
  <2>2. PICK w \in Weights : r.plan = PlanRollout(r.rest, Requested(w), MaxPool(r.rest, Total))
    BY <2>1
  <2>3. RestingFromLive(r.rest) = r.rest
    BY <2>1 DEF RestingFromLive
  <2>4. Api!Start(w, r.rest)
    BY <2>1, <2>2, <2>3, SameArithmetic DEF Api!Start
  <2> QED
    BY <2>1, <2>4 DEF Api!Next
<1>3. CASE r.cmd = "promote"
  <2>1. /\ s.active
        /\ \/ ~Finishing(s) /\ r.next = Active(Aim(s), RestOf(s))
           \/ Finishing(s) /\ r.next = Ended(s, RestOf(s))
    BY <1>1, <1>3 DEF Ordered, PromoteOrder, Saving
  <2>2. Api!Rest = RestOf(s)
    BY SameArithmetic DEF Api!Rest, RestOf
  <2>3. NextWeight(s, Step) \in Int
    BY <1>1, CanaryAssumption DEF NextWeight, AtMost, AtLeast, States
  <2>4. Api!Promote \/ Api!Finish
    BY <2>1, <2>2, <2>3, SameArithmetic DEF Api!Promote, Api!Finish, Aim, Finishing
  <2> QED
    BY <2>4 DEF Api!Next
<1>4. CASE r.cmd = "rollback"
  <2>1. s.active /\ r.next = Ended(s, RestOf(s))
    BY <1>1, <1>4 DEF Ordered, RollbackOrder, Saving
  <2>2. Api!Rest = RestOf(s)
    BY SameArithmetic DEF Api!Rest, RestOf
  <2>3. Api!Rollback
    BY <2>1, <2>2, SameArithmetic DEF Api!Rollback
  <2> QED
    BY <2>3 DEF Api!Next
<1>5. CASE r.cmd \in {"reset", "deploy"}
  <2>1. r.next = s
    BY <1>1, <1>5 DEF Ordered, ResetOrder, DeployOrder, Saving
  <2> QED
    BY <2>1 DEF Api!vars
<1>6. CASE r.cmd = "evaluate"
  BY <1>1, <1>6 DEF Ordered
<1> QED
  BY <1>1, <1>2, <1>3, <1>4, <1>5, <1>6 DEF Ordered

(* The commands, one at a time, implement the promise: whatever is         *)
(* refused, lost or dies on the way, the record of api moves only as       *)
(* start, promote, rollback and the loss of the file move it.              *)
THEOREM AloneTheyKeepThePromise ==
    ASSUME Alone, "api" \in Components, ReadCounts = Nat
    PROVE  Spec => ApiKeepsPromise
<1>1. Init => Api!Init
  <2> SUFFICES ASSUME Init PROVE Api!Init
    OBVIOUS
  <2>1. Recorded("api") = NoRollout
    BY OrderlyInit, RecordedIsSaved DEF Init, NoStates
  <2> QED
    BY <2>1, SameArithmetic DEF Api!Init
<1>2. ASSUME Orderly, [Next]_vars
      PROVE  [Api!Next]_Api!vars
  <2>1. Recorded("api") = saved["api"]
    BY <1>2, RecordedIsSaved
  <2>2. Orderly'
    BY <1>2, OrderlyNext
  <2>3. Recorded("api")' = saved'["api"]
    <3>1. CASE \E a \in Callers : At(a, "write")'
      BY <3>1 DEF Recorded
    <3>2. CASE ~(\E a \in Callers : At(a, "write")')
      <4>1. Readable' = saved'
        BY <2>2, <3>2 DEF Orderly, FileIsSaved, Readable, Inv, TypeOK, FileOK
      <4> QED
        BY <3>2, <4>1 DEF Recorded
    <3> QED
      BY <3>1, <3>2
  <2>4. CASE UNCHANGED saved
    BY <2>1, <2>3, <2>4 DEF Api!vars
  <2>5. CASE saved' = NoStates
    <3>1. Recorded("api")' = NoRollout
      BY <2>3, <2>5 DEF NoStates
    <3>2. Api!Forget
      BY <3>1, SameArithmetic DEF Api!Forget
    <3> QED
      BY <3>2 DEF Api!Next
  <2>6. ASSUME NEW a \in Callers, Write(a)
        PROVE  [Api!Next]_Api!vars
    <3>1. /\ call[a].at = "write" /\ saved' = [saved EXCEPT ![call[a].on] = call[a].next]
          /\ saved \in [Components -> States]
      BY <1>2, <2>6 DEF Write, At, Orderly, Inv, TypeOK, SeenOK
    <3>2. CASE call[a].on = "api"
      <4>1. Recorded("api")' = call[a].next
        BY <2>3, <3>1, <3>2
      <4> QED
        BY <1>2, <2>1, <3>1, <3>2, <4>1, SavesKeepPromise
    <3>3. CASE call[a].on # "api"
      <4>1. saved'["api"] = saved["api"]
        BY <3>1, <3>3
      <4> QED
        BY <2>1, <2>3, <4>1 DEF Api!vars
    <3> QED
      BY <3>2, <3>3
  <2>7. ASSUME NEW a \in Callers, ~Write(a), Proceeds(a)
        PROVE  UNCHANGED saved
    BY <2>7 DEF Proceeds, Saves, DeployLoads, Merge, Truncate, seen, Scales, StableUp, CanaryUp, Undo,
         CanaryFirst, StableDown, Cut, Restore, ResetDeflates, ScaleStable, ScaleCanary, Images,
         FinishSetsImage, DeploySetsImage, SetImage, Reads, StartPlans, PromotePlans, ResetLooks,
         ResetLooksAtStable, PromoteFindsHealthy, PromoteFindsUnhealthy, PromotePassesGate,
         PromoteRefused, FinishWaits, DeployWaits, EvaluateHolds, EvaluateBreaches,
         EvaluateRollsBack
  <2>8. ASSUME NEW a \in Callers, NEW c \in Components, Loads(a, c)
        PROVE  UNCHANGED saved
    <3>1. CASE \E v \in Versions : DeployBuilds(a, c, v)
      BY <3>1 DEF DeployBuilds, seen
    <3>2. CASE ~(\E v \in Versions : DeployBuilds(a, c, v))
      BY <2>8, <3>2 DEF Loads, StartLoads, PromoteLoads, RollbackLoads, ResetLoads, EvaluateLoads,
           Begin, seen
    <3> QED
      BY <3>1, <3>2
  <2>9. Disturbs => UNCHANGED saved \/ saved' = NoStates
    BY DEF Disturbs, Serve, ScaleByHand, Crash, LoseFile
  <2> QED
    BY <1>2, <2>4, <2>5, <2>6, <2>7, <2>8, <2>9 DEF Next, vars
<1>3. Orderly /\ [Next]_vars => [Api!Next]_Api!vars
  BY <1>2
<1> QED
  BY <1>1, <1>3, OrderlyInit, OrderlyNext, PTL DEF Spec, ApiKeepsPromise, Api!Spec

=============================================================================
