--------------------------- MODULE CanaryRollout ----------------------------
(***************************************************************************)
(* What the canary commands promise about the rollout of one component:    *)
(* the recorded rollout moves from idle to active with start, through the  *)
(* weights promote can reach, and back to idle with the last promote or    *)
(* with rollback.  Every command is atomic here and none fails; module     *)
(* Canary has the commands as the code runs them and is shown to implement *)
(* this one.                                                               *)
(***************************************************************************)
EXTENDS CanaryPlan

CONSTANTS
    Weights,       \* weights an operator may pass to start
    Steps,         \* `step_percent` values an operator may pass to promote
    Ceilings,      \* values of [canary] total_replicas
    LiveCounts,    \* what the live stable count may read as, Unread included
    ConfigEdits    \* TRUE when [canary] may be edited during a rollout

ASSUME WeightsAssumption  == Weights \subseteq Int
ASSUME StepsAssumption    == Steps \subseteq Int
ASSUME CeilingsAssumption == Ceilings \subseteq Nat
ASSUME LiveAssumption     == LiveCounts \subseteq Nat

VARIABLES
    rollout,   \* the recorded state of the component
    ceiling,   \* [canary] total_replicas
    step       \* [canary] step_percent, or the operator's habitual --step

vars == <<rollout, ceiling, step>>

Init ==
    /\ rollout = NoRollout
    /\ ceiling \in Ceilings
    /\ step \in Steps

\* Mutant: the weight that was asked for is recorded, not the achieved one.
StartAsAsked(weight, live) ==
    /\ ~rollout.active
    /\ LET rest == RestingFromLive(live)
           plan == PlanRollout(rest, Requested(weight), MaxPool(rest, ceiling))
       IN  rollout' = [Active(plan, rest) EXCEPT !.weight = Requested(weight)]
    /\ UNCHANGED <<ceiling, step>>

Start(weight, live) ==
    /\ ~rollout.active
    /\ LET rest == RestingFromLive(live)
           plan == PlanRollout(rest, Requested(weight), MaxPool(rest, ceiling))
       IN  rollout' = Active(plan, rest)
    /\ UNCHANGED <<ceiling, step>>

Rest == RestingFromState(rollout, ceiling)

Promote ==
    /\ rollout.active
    /\ NextWeight(rollout, step) < 100
    /\ rollout' = Active(PlanRollout(Rest, NextWeight(rollout, step),
                                     MaxPool(Rest, ceiling)), Rest)
    /\ UNCHANGED <<ceiling, step>>

Finish ==
    /\ rollout.active
    /\ NextWeight(rollout, step) >= 100
    /\ rollout' = Ended(rollout, Rest)
    /\ UNCHANGED <<ceiling, step>>

Rollback ==
    /\ rollout.active
    /\ rollout' = Ended(rollout, Rest)
    /\ UNCHANGED <<ceiling, step>>

\* The state file is lost: ~/.nyxGPT of an API Pod goes with the Pod, and a
\* writer that dies half-way leaves an unreadable file.
Forget ==
    /\ rollout' = NoRollout
    /\ UNCHANGED <<ceiling, step>>

Configure ==
    /\ ConfigEdits
    /\ ceiling' \in Ceilings
    /\ step' \in Steps
    /\ UNCHANGED rollout

Next ==
    \/ \E w \in Weights, live \in LiveCounts : Start(w, live)
    \/ Promote
    \/ Finish
    \/ Rollback
    \/ Forget
    \/ Configure

Spec == Init /\ [][Next]_vars

\* "Repeat steps 2-3 until promote reaches 100%": the operator of an active
\* rollout keeps promoting.
FairSpec == Spec /\ WF_vars(Promote \/ Finish)

-----------------------------------------------------------------------------
(* Properties *)

Counts == Nat \ {0}

\* The types; and of an active rollout, however the ceiling is edited while it is under way:
\* its pool serves from no fewer replicas than the component rests at, both tracks take part
\* in it (_split_replicas), and the weight on record is the share they serve, not the one
\* that was asked for.
TypeOK ==
    /\ rollout \in [active : BOOLEAN, weight : 0..99, total : Nat, resting : Nat, stable : Nat]
    /\ ceiling \in Ceilings
    /\ step \in Steps
    /\ rollout.active =>
         /\ rollout.resting <= rollout.total
         /\ rollout.stable \in 1 .. rollout.total - 1
         /\ rollout.weight = RoundHalfEven(100 * (rollout.total - rollout.stable), rollout.total)

WidestPool == Widest(rollout.resting, MaxPool(rollout.resting, ceiling))

\* promote "increases the canary's traffic share": it plans anew for the resting count the
\* rollout started from, never on top of what it has borrowed since, so that the next weight
\* never serves less than the current one unless the ceiling was lowered under the pool; and
\* a step that the widest pool can express makes progress, whatever was rounded on the way.
PromoteRaisesWeight ==
    [][Promote =>
          /\ rollout'.active => rollout'.resting = rollout.resting
          /\ rollout'.active /\ rollout.total <= WidestPool => rollout'.weight >= rollout.weight
          /\ step * WidestPool >= 100 => rollout'.weight > rollout.weight]_vars

\* "Repeat steps 2-3 until promote reaches 100%": promoting again and again ends
\* the rollout.
PromoteReachesTheEnd == rollout.active ~> ~rollout.active

=============================================================================
