-------------------------- MODULE MCCanaryRollout ---------------------------
(* Instances of CanaryRollout for TLC. *)
EXTENDS CanaryRollout

MCWeights    == {1, 10, 34, 50, 99}
MCSteps      == {1, 10, 25, 50}
DefaultStep  == {25}             \* [canary] step_percent
MCCeilings   == {NoCeiling, 2, 3, 4, 7}
TwoReplicas  == {2}              \* "keeps a rollout to one extra Pod"
MCLive       == {Unread, 1, 2, 3}
=============================================================================
