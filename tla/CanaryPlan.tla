----------------------------- MODULE CanaryPlan -----------------------------
(***************************************************************************)
(* The replica arithmetic of src/nyxgpt/canary.py: how a traffic weight is *)
(* turned into a number of canary and of stable replicas.  Traffic is      *)
(* shared by replica count, so a weight is only as fine as the pool is     *)
(* wide; a plan is the smallest pool whose split comes closest to the      *)
(* weight that was asked for.                                              *)
(*                                                                         *)
(* Weights are percentages.  Everything here is pure.                      *)
(***************************************************************************)
EXTENDS Integers

\* DEFAULT_RESTING_REPLICAS: what the manifests ship.
DefaultResting == 1

\* `total_replicas=None`: the caller named no ceiling for the pool.
NoCeiling == 0

AtLeast(low, x) == IF x < low THEN low ELSE x
AtMost(high, x) == IF x > high THEN high ELSE x
Distance(a, b)  == IF a > b THEN a - b ELSE b - a

\* Python's round(n / d): to the nearest integer, a tie to the even one.
RoundHalfEven(n, d) ==
    LET whole == n \div d
        twice == 2 * (n % d)
    IN  IF twice < d THEN whole
        ELSE IF twice > d THEN whole + 1
        ELSE whole + (whole % 2)

\* Mutant: stable may be left with nothing.
CanaryPartFull(pool, weight) ==
    AtMost(pool, AtLeast(1, RoundHalfEven(pool * weight, 100)))

\* _split_replicas: the canary's part of a pool for a weight in 1..99.  Both
\* tracks keep at least one replica.
CanaryPart(pool, weight) ==
    AtMost(pool - 1, AtLeast(1, RoundHalfEven(pool * weight, 100)))

\* The weight that a split really serves.
Achieved(pool, weight) == RoundHalfEven(100 * CanaryPart(pool, weight), pool)

Miss(pool, weight) == Distance(Achieved(pool, weight), weight)

-----------------------------------------------------------------------------
(* _plan_rollout *)

Requested(weight) == AtLeast(1, AtMost(99, weight))

\* The pool is never narrower than the resting count: a rollout must not cut
\* serving capacity.
Narrowest(resting)        == AtLeast(2, AtLeast(1, resting))
Widest(resting, maxPool)  == AtLeast(Narrowest(resting), maxPool)
Pools(resting, maxPool)   == Narrowest(resting) .. Widest(resting, maxPool)

\* The ceiling start and promote compute from `total_replicas`.
MaxPool(resting, total) == IF total = NoCeiling THEN resting + 1 ELSE AtLeast(2, total)

\* p is a best pool for the weight, and the smallest such pool.
IsBestPool(p, resting, weight, maxPool) ==
    /\ p \in Pools(resting, maxPool)
    /\ \A q \in Pools(resting, maxPool) :
          \/ Miss(p, weight) < Miss(q, weight)
          \/ Miss(p, weight) = Miss(q, weight) /\ p <= q

BestPool(resting, weight, maxPool) ==
    CHOOSE p \in Pools(resting, maxPool) : IsBestPool(p, resting, weight, maxPool)

\* RolloutPlan: the split, and the weight it achieves.
PlanRollout(resting, weight, maxPool) ==
    LET w == Requested(weight)
        p == BestPool(resting, w, maxPool)
    IN  [canary |-> CanaryPart(p, w), stable |-> p - CanaryPart(p, w),
         weight |-> Achieved(p, w)]

Pool(plan) == plan.canary + plan.stable

-----------------------------------------------------------------------------
(* Replica counts read back from the state file or the cluster *)

\* An absent field, and a Deployment that could not be read.
Unread == 0

\* _first_replica_count: the first value that is a replica count.
FirstCount(a, b, c) ==
    IF a >= 1 THEN a ELSE IF b >= 1 THEN b ELSE IF c >= 1 THEN c ELSE DefaultResting

\* _resting_replicas: the live count, or the manifests' when it is unreadable
\* or 0.
RestingFromLive(live) == IF live < 1 THEN DefaultResting ELSE live

\* Mutant: the inflated pool is read before the resting count.
RestingFromPool(state, fallback) == FirstCount(state.total, state.resting, fallback)

\* _resting_from_state
RestingFromState(state, fallback) == FirstCount(state.resting, state.total, fallback)

-----------------------------------------------------------------------------
(* The state a component's rollout is recorded in *)

\* A state the commands never wrote: the defaults of _load_state.
NoRollout == [active |-> FALSE, weight |-> 0, total |-> Unread,
              resting |-> Unread, stable |-> Unread]

Active(plan, rest) == [active |-> TRUE, weight |-> plan.weight, total |-> Pool(plan),
                       resting |-> rest, stable |-> plan.stable]

\* promote at 100% and rollback record the pool as deflated; resting_replicas
\* keeps the value start gave it.
Ended(state, rest) == [state EXCEPT !.active = FALSE, !.weight = 0,
                                    !.total = rest, !.stable = rest]

\* Mutant: the step is the weight.
NextWeightIsStep(state, by) == AtMost(100, AtLeast(1, by))

NextWeight(state, by) == AtMost(100, state.weight + AtLeast(1, by))

=============================================================================
