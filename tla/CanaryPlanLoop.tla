--------------------------- MODULE CanaryPlanLoop ---------------------------
(***************************************************************************)
(* The loop of _plan_rollout as the code runs it: it walks the candidate   *)
(* pools from the narrowest to the widest and keeps the first one that     *)
(* misses the requested weight by strictly less than what it has.          *)
(* CanaryPlan!PlanRollout is what the loop is meant to return; this module *)
(* says that it does.                                                      *)
(***************************************************************************)
EXTENDS CanaryPlan

CONSTANTS RestingInputs, WeightInputs, MaxPoolInputs

ASSUME InputsAssumption ==
    /\ RestingInputs \subseteq Int
    /\ WeightInputs \subseteq Int
    /\ MaxPoolInputs \subseteq Int

VARIABLES
    resting, weight, maxPool,  \* the arguments
    pool,                      \* the loop variable
    best                       \* the best plan so far

vars == <<resting, weight, maxPool, pool, best>>

\* `best = None`
NoPlan == [canary |-> 0, stable |-> 0, weight |-> 0]

lowest    == Narrowest(resting)
highest   == Widest(resting, maxPool)
requested == Requested(weight)

Candidate(p) == [canary |-> CanaryPart(p, requested),
                 stable |-> p - CanaryPart(p, requested),
                 weight |-> Achieved(p, requested)]

Init ==
    /\ resting \in RestingInputs
    /\ weight \in WeightInputs
    /\ maxPool \in MaxPoolInputs
    /\ pool = lowest
    /\ best = NoPlan

\* Mutant: a wider pool that is only as good replaces the narrower one.
KeepTies ==
    /\ pool <= highest
    /\ \/ best = NoPlan
       \/ Distance(Achieved(pool, requested), requested) <= Distance(best.weight, requested)
    /\ best' = Candidate(pool)
    /\ pool' = pool + 1
    /\ UNCHANGED <<resting, weight, maxPool>>

Keep ==
    /\ pool <= highest
    /\ \/ best = NoPlan
       \/ Distance(Achieved(pool, requested), requested) < Distance(best.weight, requested)
    /\ best' = Candidate(pool)
    /\ pool' = pool + 1
    /\ UNCHANGED <<resting, weight, maxPool>>

Skip ==
    /\ pool <= highest
    /\ best # NoPlan
    /\ Distance(Achieved(pool, requested), requested) >= Distance(best.weight, requested)
    /\ pool' = pool + 1
    /\ UNCHANGED <<resting, weight, maxPool, best>>

Next == Keep \/ Skip

Spec == Init /\ [][Next]_vars

Returned == pool > highest

\* The loop returns the smallest pool with the smallest error, whatever the
\* arguments: ties between pools are broken towards the smaller one, and the
\* rounding of the share never makes a wider pool look better than it is.
ReturnsThePlan == Returned => best = PlanRollout(resting, weight, maxPool)

\* The strengthening that is inductive: the best so far beats every pool the
\* loop has passed.
BestSoFar ==
    /\ pool \in lowest .. highest + 1
    /\ best = NoPlan <=> pool = lowest
    /\ best # NoPlan =>
          \E p \in lowest .. pool - 1 :
             /\ best = Candidate(p)
             /\ \A q \in lowest .. pool - 1 :
                   \/ Miss(p, requested) < Miss(q, requested)
                   \/ Miss(p, requested) = Miss(q, requested) /\ p <= q

=============================================================================
