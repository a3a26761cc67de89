------------------------ MODULE CanaryRolloutProofs -------------------------
(***************************************************************************)
(* What CanaryRollout promises of the rollout on record, for every weight, *)
(* step, ceiling and resting count; and that the loop of _plan_rollout     *)
(* returns the plan this rests on, for every argument.                     *)
(***************************************************************************)
EXTENDS CanaryRollout, CanaryPlanProofs

USE StepsAssumption, CeilingsAssumption, WeightsAssumption, LiveAssumption

(* TypeOK does not say that a rollout remembers a resting count, which is   *)
(* what promote and rollback rest on.                                      *)
RolloutInv == TypeOK /\ (rollout.active => rollout.resting >= 1)

Rollouts == [active : BOOLEAN, weight : 0..99, total : Nat, resting : Nat, stable : Nat]

(* What start and promote record.                                          *)
LEMMA ActiveIsSound ==
    ASSUME NEW rest \in Nat, rest >= 1, NEW weight \in Int, NEW ceil \in Nat
    PROVE  LET r == Active(PlanRollout(rest, weight, MaxPool(rest, ceil)), rest) IN
           /\ r \in Rollouts /\ r.active /\ r.resting = rest
           /\ r.resting <= r.total /\ r.stable \in 1 .. r.total - 1
           /\ r.weight = RoundHalfEven(100 * (r.total - r.stable), r.total)
<1> DEFINE r == Active(PlanRollout(rest, weight, MaxPool(rest, ceil)), rest)
           plan == PlanRollout(rest, weight, MaxPool(rest, ceil))
           p == Pool(plan)
<1>1. MaxPool(rest, ceil) \in Int /\ rest \in Int
  BY DEF MaxPool, AtLeast, NoCeiling
<1>2. /\ p \in Int /\ p >= 2 /\ plan.canary \in 1 .. p - 1 /\ plan.stable = p - plan.canary
      /\ plan.weight = RoundHalfEven(100 * plan.canary, p)
  BY <1>1, PlanFacts
<1>3. plan.weight \in 0 .. 99
  BY <1>1, WeightIsAShare
<1>4. rest <= p
  BY <1>1, PlanIsSound
<1>5. r = [active |-> TRUE, weight |-> plan.weight, total |-> p, resting |-> rest,
           stable |-> plan.stable]
  BY DEF Active
<1> HIDE DEF r, plan, p
<1>6. p - plan.stable = plan.canary
  BY <1>2
<1>7. /\ r \in Rollouts /\ r.active /\ r.resting = rest
      /\ r.resting <= r.total /\ r.stable \in 1 .. r.total - 1
      /\ r.weight = RoundHalfEven(100 * (r.total - r.stable), r.total)
  BY <1>2, <1>3, <1>4, <1>5, <1>6 DEF Rollouts
<1> QED
  BY <1>7 DEF r

(* An active rollout that is sound keeps the invariant.                    *)
LEMMA SoundIsKept ==
    ASSUME RolloutInv, NEW rest \in Nat, rest >= 1, NEW weight \in Int,
           rollout' = Active(PlanRollout(rest, weight, MaxPool(rest, ceiling)), rest),
           UNCHANGED <<ceiling, step>>
    PROVE  RolloutInv'
<1> DEFINE r == Active(PlanRollout(rest, weight, MaxPool(rest, ceiling)), rest)
<1>1. ceiling \in Nat /\ ceiling \in Ceilings /\ step \in Steps
  BY DEF RolloutInv, TypeOK
<1>2. /\ r \in Rollouts /\ r.active /\ r.resting = rest
      /\ r.resting <= r.total /\ r.stable \in 1 .. r.total - 1
      /\ r.weight = RoundHalfEven(100 * (r.total - r.stable), r.total)
  BY <1>1, ActiveIsSound
<1>3. rollout' = r
  OBVIOUS
<1> HIDE DEF r
<1> QED
  BY <1>1, <1>2, <1>3 DEF RolloutInv, TypeOK, Rollouts

(* promote and rollback carry on with the count the rollout rests at.       *)
LEMMA RestIsResting ==
    ASSUME RolloutInv
    PROVE  /\ rollout.active => Rest = rollout.resting
           /\ Rest \in Nat /\ Rest >= 1
<1>1. rollout.resting \in Nat /\ rollout.total \in Nat /\ ceiling \in Nat
  BY DEF RolloutInv, TypeOK
<1> QED
  BY <1>1 DEF RolloutInv, Rest, RestingFromState, FirstCount, DefaultResting

(* The weight promote asks for next.                                       *)
LEMMA NextIsAWeight ==
    ASSUME RolloutInv, NextWeight(rollout, step) < 100
    PROVE  LET w == NextWeight(rollout, step) IN
           /\ w \in 1 .. 99 /\ Requested(w) = w
           /\ w = rollout.weight + AtLeast(1, step)
<1> DEFINE by == AtLeast(1, step)
<1>1. rollout.weight \in 0 .. 99 /\ by \in Int /\ by >= 1
  BY DEF RolloutInv, TypeOK, AtLeast
<1>2. NextWeight(rollout, step) = AtMost(100, rollout.weight + by)
  BY DEF NextWeight
<1> HIDE DEF by
<1>3. NextWeight(rollout, step) = rollout.weight + by
  BY <1>1, <1>2 DEF AtMost
<1>4. Requested(rollout.weight + by) = rollout.weight + by
  BY <1>1, <1>3 DEF AtMost, AtLeast, Requested
<1> QED
  BY <1>1, <1>3, <1>4 DEF by

LEMMA EndedIsSound ==
    ASSUME RolloutInv, rollout' = Ended(rollout, Rest), UNCHANGED <<ceiling, step>>
    PROVE  RolloutInv'
<1>1. Rest \in Nat /\ rollout \in Rollouts
  BY RestIsResting DEF RolloutInv, TypeOK, Rollouts
<1>2. rollout' = [active |-> FALSE, weight |-> 0, total |-> Rest,
                  resting |-> rollout.resting, stable |-> Rest]
  BY <1>1 DEF Ended, Rollouts
<1>3. rollout' \in Rollouts /\ ~rollout'.active
  BY <1>1, <1>2 DEF Rollouts
<1> QED
  BY <1>3 DEF RolloutInv, TypeOK, Rollouts

LEMMA RolloutInit == Init => RolloutInv
BY DEF Init, RolloutInv, TypeOK, NoRollout, Unread

LEMMA RolloutNext == RolloutInv /\ [Next]_vars => RolloutInv'
<1> SUFFICES ASSUME RolloutInv, [Next]_vars PROVE RolloutInv'
  OBVIOUS
<1>1. ceiling \in Nat /\ step \in Int /\ ceiling \in Ceilings /\ step \in Steps
  BY DEF RolloutInv, TypeOK
<1>2. ASSUME NEW weight \in Weights, NEW live \in LiveCounts, Start(weight, live)
      PROVE  RolloutInv'
  <2>1. RestingFromLive(live) \in Nat /\ RestingFromLive(live) >= 1 /\ Requested(weight) \in Int
    BY RestoresAtLeastOne DEF Requested, AtLeast, AtMost
  <2>2. rollout' = Active(PlanRollout(RestingFromLive(live), Requested(weight),
                            MaxPool(RestingFromLive(live), ceiling)), RestingFromLive(live))
    BY <1>2 DEF Start
  <2> QED
    BY <1>2, <2>1, <2>2, SoundIsKept DEF Start
<1>3. CASE Promote
  <2>1. Rest \in Nat /\ Rest >= 1 /\ NextWeight(rollout, step) \in Int
    BY <1>3, RestIsResting, NextIsAWeight DEF Promote
  <2>2. rollout' = Active(PlanRollout(Rest, NextWeight(rollout, step),
                                      MaxPool(Rest, ceiling)), Rest)
    BY <1>3 DEF Promote
  <2> QED
    BY <1>3, <2>1, <2>2, SoundIsKept DEF Promote
<1>4. CASE Finish
  BY <1>4, EndedIsSound DEF Finish
<1>5. CASE Rollback
  BY <1>5, EndedIsSound DEF Rollback
<1>6. CASE Forget
  BY <1>1, <1>6 DEF Forget, RolloutInv, TypeOK, NoRollout, Unread
<1>7. CASE Configure
  BY <1>7 DEF Configure, RolloutInv, TypeOK
<1>8. CASE UNCHANGED vars
  BY <1>8 DEF vars, RolloutInv, TypeOK
<1> QED
  BY <1>2, <1>3, <1>4, <1>5, <1>6, <1>7, <1>8 DEF Next

(* Whatever start and promote are asked for and however the ceiling is      *)
(* edited meanwhile, an active rollout has replicas on both tracks, serves  *)
(* from no fewer than the component rests at, and the weight on record is   *)
(* the share those replicas serve.                                         *)
THEOREM RolloutIsSound == Spec => []TypeOK
<1>1. RolloutInv => TypeOK
  BY DEF RolloutInv
<1> QED
  BY RolloutInit, RolloutNext, <1>1, PTL DEF Spec

LEMMA PromoteRaises ==
    ASSUME RolloutInv, Promote
    PROVE  /\ rollout'.active => rollout'.resting = rollout.resting
           /\ rollout'.active /\ rollout.total <= WidestPool => rollout'.weight >= rollout.weight
           /\ step * WidestPool >= 100 => rollout'.weight > rollout.weight
<1> DEFINE w == NextWeight(rollout, step)
           rest == rollout.resting
           max == MaxPool(rest, ceiling)
           plan == PlanRollout(rest, w, max)
<1>1. /\ rollout.active /\ rollout.weight \in 0 .. 99 /\ rollout.total \in Nat /\ rest \in Nat
      /\ rest >= 1 /\ rest <= rollout.total /\ rollout.stable \in 1 .. rollout.total - 1
      /\ rollout.weight = RoundHalfEven(100 * (rollout.total - rollout.stable), rollout.total)
      /\ ceiling \in Nat /\ step \in Int
  BY DEF RolloutInv, TypeOK, Promote
<1>2. w \in 1 .. 99 /\ Requested(w) = w /\ w = rollout.weight + AtLeast(1, step)
  BY NextIsAWeight DEF Promote
<1>3. Rest = rest /\ max \in Int
  BY <1>1, RestIsResting DEF MaxPool, AtLeast, NoCeiling
<1>4. rollout' = Active(plan, rest)
  BY <1>3 DEF Promote
<1>5. rollout'.resting = rest /\ rollout'.weight = plan.weight
  BY <1>4 DEF Active
<1>6. rest \in Int /\ w \in Int /\ WidestPool = Widest(rest, max)
  BY <1>1, <1>2 DEF WidestPool
<1>7. plan.weight \in Nat
  BY <1>3, <1>6, PlanFacts
<1> HIDE DEF w, max, plan
<1>8. ASSUME rollout.total <= WidestPool
      PROVE  plan.weight >= rollout.weight
  <2>1. rollout.total \in Pools(rest, max)
    BY <1>1, <1>3, <1>6, <1>8 DEF Pools, Narrowest, Widest, AtLeast
  <2>2. rollout.total - rollout.stable \in 1 .. rollout.total - 1
    BY <1>1
  <2>3. rollout.weight <= Requested(w)
    BY <1>1, <1>2 DEF AtLeast
  <2> QED
    BY <1>1, <1>3, <1>6, <2>1, <2>2, <2>3, PlanServesMore DEF plan
<1>9. ASSUME step * WidestPool >= 100
      PROVE  plan.weight > rollout.weight
  <2>1. WidestPool \in Int /\ WidestPool >= 2
    BY <1>3, <1>6 DEF Widest, Narrowest, AtLeast
  <2>2. step >= 1
    <3>1. step <= 0 => step * WidestPool <= 0
      BY <1>1, <2>1
    <3>2. step * WidestPool \in Int
      BY <1>1, <2>1
    <3> QED
      BY <1>1, <1>9, <3>1, <3>2
  <2>3. w \in step .. 99 /\ w - step = rollout.weight
    BY <1>1, <1>2, <2>2 DEF AtLeast
  <2>4. plan.weight > w - step
    BY <1>1, <1>3, <1>6, <1>9, <2>2, <2>3, StepMakesProgress DEF plan
  <2> QED
    BY <2>3, <2>4
<1> QED
  BY <1>5, <1>8, <1>9

(* promote never lowers the canary's share unless the ceiling was lowered   *)
(* under the pool, and a step that the widest pool can express raises it,   *)
(* for every step, ceiling and resting count.                              *)
THEOREM PromoteMakesProgress == Spec => PromoteRaisesWeight
<1>1. RolloutInv => [Promote =>
          /\ rollout'.active => rollout'.resting = rollout.resting
          /\ rollout'.active /\ rollout.total <= WidestPool => rollout'.weight >= rollout.weight
          /\ step * WidestPool >= 100 => rollout'.weight > rollout.weight]_vars
  BY PromoteRaises
<1> QED
  BY RolloutInit, RolloutNext, <1>1, PTL DEF Spec, PromoteRaisesWeight

-----------------------------------------------------------------------------
(* The loop that makes the plans *)

CONSTANTS RestingInputs, WeightInputs, MaxPoolInputs

VARIABLES resting, weight, maxPool, pool, best

\* _plan_rollout as the code runs it, for the arguments in the inputs.
Loop == INSTANCE CanaryPlanLoop

IntegerInputs ==
    RestingInputs \subseteq Int /\ WeightInputs \subseteq Int /\ MaxPoolInputs \subseteq Int

Arguments == resting \in Int /\ weight \in Int /\ maxPool \in Int

LoopInv == Arguments /\ Loop!BestSoFar

(* The loop computes with the arithmetic of CanaryPlan: what holds of the   *)
(* plan holds of what it is compared with here.                            *)
LEMMA SameArithmetic ==
    /\ \A r, m : Loop!Pools(r, m) = Pools(r, m)
    /\ \A p, w : Loop!CanaryPart(p, w) = CanaryPart(p, w)
    /\ \A p, w : Loop!Miss(p, w) = Miss(p, w)
    /\ \A p, r, w, m : Loop!IsBestPool(p, r, w, m) = IsBestPool(p, r, w, m)
    /\ \A r, w, m : Loop!BestPool(r, w, m) = BestPool(r, w, m)
<1> USE DEF Loop!AtLeast, AtLeast, Loop!AtMost, AtMost, Loop!Distance, Distance,
            Loop!RoundHalfEven, RoundHalfEven
<1>1. \A r : Loop!Narrowest(r) = Narrowest(r)
  BY Zenon DEF Loop!Narrowest, Narrowest
<1>2. \A r, m : Loop!Widest(r, m) = Widest(r, m)
  BY <1>1, Zenon DEF Loop!Widest, Widest
<1>3. \A p, w : Loop!CanaryPart(p, w) = CanaryPart(p, w)
  BY Zenon DEF Loop!CanaryPart, CanaryPart
<1>4. \A p, w : Loop!Achieved(p, w) = Achieved(p, w)
  BY <1>3, Zenon DEF Loop!Achieved, Achieved
<1>5. \A p, w : Loop!Miss(p, w) = Miss(p, w)
  BY <1>4, Zenon DEF Loop!Miss, Miss
<1>6. \A r, m : Loop!Pools(r, m) = Pools(r, m)
  BY <1>1, <1>2, Zenon DEF Loop!Pools, Pools
<1>7. \A p, r, w, m : Loop!IsBestPool(p, r, w, m) = IsBestPool(p, r, w, m)
  BY <1>5, <1>6, Zenon DEF Loop!IsBestPool, IsBestPool
<1>8. \A r, w, m : Loop!BestPool(r, w, m) = BestPool(r, w, m)
  BY <1>6, <1>7, Zenon DEF Loop!BestPool, BestPool
<1> QED
  BY <1>3, <1>5, <1>6, <1>7, <1>8, Zenon

LEMMA LoopTypes ==
    ASSUME NEW p \in Int, p >= 2, NEW w \in Int
    PROVE  Loop!CanaryPart(p, w) \in 1 .. p - 1 /\ Loop!Miss(p, w) \in Nat
BY SameArithmetic, BothTracksServe, MissType

LEMMA LoopUnique ==
    ASSUME NEW r \in Int, NEW w \in Int, NEW m \in Int, NEW p, Loop!IsBestPool(p, r, w, m)
    PROVE  Loop!BestPool(r, w, m) = p
<1>1. IsBestPool(p, r, w, m)
  BY SameArithmetic, Zenon
<1>2. BestPool(r, w, m) = p
  BY <1>1, BestPoolUnique
<1> QED
  BY <1>2, SameArithmetic

(* The clamped arguments are integers and every pool visited has room for  *)
(* both tracks.                                                            *)
LEMMA ArgumentTypes ==
    ASSUME Arguments
    PROVE  /\ Loop!lowest \in Int /\ Loop!lowest >= 2
           /\ Loop!highest \in Int /\ Loop!lowest <= Loop!highest
           /\ Loop!requested \in Int
           /\ Loop!Pools(resting, maxPool) = Loop!lowest .. Loop!highest
BY DEF Arguments, Loop!lowest, Loop!highest, Loop!requested, Loop!Pools, Loop!Narrowest,
       Loop!Widest, Loop!Requested, Loop!AtLeast, Loop!AtMost

(* A candidate is never the "no plan yet" of the loop, and it records its  *)
(* own miss.                                                               *)
LEMMA CandidateFacts ==
    ASSUME Arguments, NEW p \in Int, p >= 2
    PROVE  /\ Loop!Candidate(p) # Loop!NoPlan
           /\ Loop!Distance(Loop!Candidate(p).weight, Loop!requested) = Loop!Miss(p, Loop!requested)
           /\ Loop!Miss(p, Loop!requested) \in Nat
<1>1. Loop!requested \in Int
  BY ArgumentTypes
<1>2. Loop!CanaryPart(p, Loop!requested) >= 1
  BY <1>1, LoopTypes
<1>3. Loop!Miss(p, Loop!requested) \in Nat
  BY <1>1, LoopTypes
<1> QED
  BY <1>2, <1>3 DEF Loop!Candidate, Loop!NoPlan, Loop!Miss

LEMMA LoopInit ==
    ASSUME IntegerInputs
    PROVE  Loop!Init => LoopInv
<1> SUFFICES ASSUME Loop!Init PROVE LoopInv
  OBVIOUS
<1>1. Arguments
  BY DEF Loop!Init, Arguments, IntegerInputs
<1>2. pool = Loop!lowest /\ best = Loop!NoPlan
  BY DEF Loop!Init
<1> QED
  BY <1>1, <1>2, ArgumentTypes DEF LoopInv, Loop!BestSoFar

LEMMA LoopStep == LoopInv /\ [Loop!Next]_(Loop!vars) => LoopInv'
<1> SUFFICES ASSUME LoopInv, [Loop!Next]_(Loop!vars) PROVE LoopInv'
  OBVIOUS
<1>1. Arguments
  BY DEF LoopInv
<1>2. CASE UNCHANGED Loop!vars
  BY <1>2 DEF Loop!vars, LoopInv, Arguments, Loop!BestSoFar, Loop!lowest, Loop!highest,
              Loop!requested, Loop!Candidate
<1>3. ASSUME Loop!Keep \/ Loop!Skip
      PROVE  /\ Arguments' /\ pool \in Loop!lowest .. Loop!highest /\ pool' = pool + 1
             /\ Loop!lowest' = Loop!lowest /\ Loop!highest' = Loop!highest
             /\ Loop!requested' = Loop!requested
  BY <1>1, <1>3, ArgumentTypes DEF Loop!Keep, Loop!Skip, LoopInv, Loop!BestSoFar, Arguments,
                                   Loop!lowest, Loop!highest, Loop!requested
<1>5. CASE Loop!Keep
  <2>1. best' = Loop!Candidate(pool)
    BY <1>5 DEF Loop!Keep
  <2>2. pool \in Int /\ pool >= 2
    BY <1>1, <1>3, <1>5, ArgumentTypes
  <2>3. best' # Loop!NoPlan
    BY <1>1, <2>1, <2>2, CandidateFacts
  <2>4. \A q \in Loop!lowest .. pool :
           \/ Loop!Miss(pool, Loop!requested) < Loop!Miss(q, Loop!requested)
           \/ Loop!Miss(pool, Loop!requested) = Loop!Miss(q, Loop!requested) /\ pool <= q
    <3>1. CASE best = Loop!NoPlan
      <4>1. pool = Loop!lowest
        BY <3>1 DEF LoopInv, Loop!BestSoFar
      <4> QED
        BY <4>1, <2>2
    <3>2. CASE best # Loop!NoPlan
      <4>1. PICK p \in Loop!lowest .. pool - 1 :
              /\ best = Loop!Candidate(p)
              /\ \A q \in Loop!lowest .. pool - 1 :
                    \/ Loop!Miss(p, Loop!requested) < Loop!Miss(q, Loop!requested)
                    \/ Loop!Miss(p, Loop!requested) = Loop!Miss(q, Loop!requested) /\ p <= q
        BY <3>2 DEF LoopInv, Loop!BestSoFar
      <4>2. p \in Int /\ p >= 2
        BY <1>1, <2>2, ArgumentTypes
      <4>3. Loop!Miss(pool, Loop!requested) < Loop!Miss(p, Loop!requested)
        <5>1. Loop!Distance(best.weight, Loop!requested) = Loop!Miss(p, Loop!requested)
          BY <1>1, <4>1, <4>2, CandidateFacts
        <5>2. Loop!Distance(Loop!Achieved(pool, Loop!requested), Loop!requested)
                < Loop!Distance(best.weight, Loop!requested)
          BY <1>5, <3>2 DEF Loop!Keep
        <5> QED
          BY <5>1, <5>2 DEF Loop!Miss
      <4>4. \A q \in Loop!lowest .. pool - 1 : q \in Int /\ q >= 2
        BY <1>1, <2>2, ArgumentTypes
      <4>5. \A q \in Loop!lowest .. pool - 1 : Loop!Miss(q, Loop!requested) \in Nat
        BY <1>1, <4>4, CandidateFacts
      <4>6. Loop!Miss(pool, Loop!requested) \in Nat /\ Loop!Miss(p, Loop!requested) \in Nat
        BY <1>1, <2>2, <4>2, CandidateFacts
      <4>7. ASSUME NEW q \in Loop!lowest .. pool
            PROVE  \/ Loop!Miss(pool, Loop!requested) < Loop!Miss(q, Loop!requested)
                   \/ Loop!Miss(pool, Loop!requested) = Loop!Miss(q, Loop!requested) /\ pool <= q
        <5>1. CASE q = pool
          BY <5>1, <2>2
        <5>2. CASE q # pool
          <6>1. q \in Loop!lowest .. pool - 1
            BY <5>2, <2>2, <1>1, ArgumentTypes
          <6> QED
            BY <6>1, <4>1, <4>3, <4>5, <4>6
        <5> QED
          BY <5>1, <5>2
      <4> QED
        BY <4>7
    <3> QED
      BY <3>1, <3>2
  <2>5. Loop!BestSoFar'
    <3>1. pool' \in Loop!lowest' .. Loop!highest' + 1 /\ pool' # Loop!lowest'
      BY <1>1, <1>3, <1>5, ArgumentTypes
    <3>2. pool \in Loop!lowest' .. pool' - 1 /\ Loop!lowest' .. pool' - 1 = Loop!lowest .. pool
      BY <1>1, <1>3, <1>5, <2>2, ArgumentTypes
    <3>3. \E p \in Loop!lowest' .. pool' - 1 :
             /\ best' = [canary |-> Loop!CanaryPart(p, Loop!requested'),
                         stable |-> p - Loop!CanaryPart(p, Loop!requested'),
                         weight |-> Loop!Achieved(p, Loop!requested')]
             /\ \A q \in Loop!lowest' .. pool' - 1 :
                   \/ Loop!Miss(p, Loop!requested') < Loop!Miss(q, Loop!requested')
                   \/ Loop!Miss(p, Loop!requested') = Loop!Miss(q, Loop!requested') /\ p <= q
      BY <1>3, <1>5, <2>1, <2>4, <3>2 DEF Loop!Candidate
    <3> QED
      BY <2>3, <3>1, <3>3 DEF Loop!BestSoFar, Loop!Candidate
  <2> QED
    BY <1>3, <1>5, <2>5 DEF LoopInv
<1>6. CASE Loop!Skip
  <2>1. best # Loop!NoPlan /\ best' = best /\ pool \in Int /\ pool >= 2
    BY <1>1, <1>3, <1>6, ArgumentTypes DEF Loop!Skip
  <2>2. PICK p \in Loop!lowest .. pool - 1 :
          /\ best = Loop!Candidate(p)
          /\ \A q \in Loop!lowest .. pool - 1 :
                \/ Loop!Miss(p, Loop!requested) < Loop!Miss(q, Loop!requested)
                \/ Loop!Miss(p, Loop!requested) = Loop!Miss(q, Loop!requested) /\ p <= q
    BY <2>1 DEF LoopInv, Loop!BestSoFar
  <2>3. p \in Int /\ p >= 2 /\ p <= pool
    BY <1>1, <2>1, ArgumentTypes
  <2>4. Loop!Miss(p, Loop!requested) \in Nat /\ Loop!Miss(pool, Loop!requested) \in Nat
    BY <1>1, <2>1, <2>3, CandidateFacts
  <2>5. Loop!Miss(p, Loop!requested) <= Loop!Miss(pool, Loop!requested)
    <3>1. Loop!Distance(best.weight, Loop!requested) = Loop!Miss(p, Loop!requested)
      BY <1>1, <2>2, <2>3, CandidateFacts
    <3>2. Loop!Distance(Loop!Achieved(pool, Loop!requested), Loop!requested)
            >= Loop!Distance(best.weight, Loop!requested)
      BY <1>6 DEF Loop!Skip
    <3> QED
      BY <2>4, <3>1, <3>2 DEF Loop!Miss
  <2>6. ASSUME NEW q \in Loop!lowest .. pool
        PROVE  \/ Loop!Miss(p, Loop!requested) < Loop!Miss(q, Loop!requested)
               \/ Loop!Miss(p, Loop!requested) = Loop!Miss(q, Loop!requested) /\ p <= q
    <3>1. CASE q = pool
      BY <3>1, <2>3, <2>4, <2>5
    <3>2. CASE q # pool
      <4>1. q \in Loop!lowest .. pool - 1
        BY <3>2, <2>1, <1>1, ArgumentTypes
      <4> QED
        BY <4>1, <2>2
    <3> QED
      BY <3>1, <3>2
  <2>7. Loop!BestSoFar'
    <3>1. pool' \in Loop!lowest' .. Loop!highest' + 1 /\ pool' # Loop!lowest'
      BY <1>1, <1>3, <1>6, ArgumentTypes
    <3>2. p \in Loop!lowest' .. pool' - 1 /\ Loop!lowest' .. pool' - 1 = Loop!lowest .. pool
      BY <1>1, <1>3, <1>6, <2>1, <2>2, ArgumentTypes
    <3>3. \E r \in Loop!lowest' .. pool' - 1 :
             /\ best' = [canary |-> Loop!CanaryPart(r, Loop!requested'),
                         stable |-> r - Loop!CanaryPart(r, Loop!requested'),
                         weight |-> Loop!Achieved(r, Loop!requested')]
             /\ \A q \in Loop!lowest' .. pool' - 1 :
                   \/ Loop!Miss(r, Loop!requested') < Loop!Miss(q, Loop!requested')
                   \/ Loop!Miss(r, Loop!requested') = Loop!Miss(q, Loop!requested') /\ r <= q
      BY <1>3, <1>6, <2>1, <2>2, <2>6, <3>2 DEF Loop!Candidate
    <3> QED
      BY <2>1, <3>1, <3>3 DEF Loop!BestSoFar, Loop!Candidate
  <2> QED
    BY <1>3, <1>6, <2>7 DEF LoopInv
<1> QED
  BY <1>2, <1>5, <1>6 DEF Loop!Next

(* The invariant of the loop says what it returns. *)
LEMMA LoopReturns == LoopInv => Loop!ReturnsThePlan
<1> SUFFICES ASSUME LoopInv, Loop!Returned
             PROVE  best = Loop!PlanRollout(resting, weight, maxPool)
  BY DEF Loop!ReturnsThePlan
<1>1. Arguments /\ pool = Loop!highest + 1 /\ best # Loop!NoPlan
  BY ArgumentTypes DEF LoopInv, Loop!BestSoFar, Loop!Returned
<1>2. PICK p \in Loop!lowest .. pool - 1 :
        /\ best = Loop!Candidate(p)
        /\ \A q \in Loop!lowest .. pool - 1 :
              \/ Loop!Miss(p, Loop!requested) < Loop!Miss(q, Loop!requested)
              \/ Loop!Miss(p, Loop!requested) = Loop!Miss(q, Loop!requested) /\ p <= q
  BY <1>1 DEF LoopInv, Loop!BestSoFar
<1>3. Loop!Pools(resting, maxPool) = Loop!lowest .. pool - 1 /\ Loop!requested \in Int
  BY <1>1, ArgumentTypes
<1>4. Loop!IsBestPool(p, resting, Loop!requested, maxPool)
  BY <1>2, <1>3 DEF Loop!IsBestPool
<1>5. Loop!BestPool(resting, Loop!requested, maxPool) = p
  BY <1>1, <1>3, <1>4, LoopUnique DEF Arguments
<1> QED
  BY <1>2, <1>5 DEF Loop!PlanRollout, Loop!Candidate, Loop!requested

(* _plan_rollout is correct: when the loop ends, the best it has seen is   *)
(* the smallest pool with the smallest error.                              *)
THEOREM LoopIsCorrect ==
    ASSUME IntegerInputs
    PROVE  Loop!Spec => []Loop!ReturnsThePlan
<1>1. Loop!Spec => []LoopInv
  BY LoopInit, LoopStep, PTL DEF Loop!Spec
<1> QED
  BY <1>1, LoopReturns, PTL

=============================================================================
