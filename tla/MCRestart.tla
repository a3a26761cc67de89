------------------------------ MODULE MCRestart ------------------------------
(* RestartActivation for TLC. *)
EXTENDS RestartActivation, MCRestartPending

\* One option, or both set to true.
MCOptions == {new \in Updates : \/ \E k \in MCKeys : {j \in MCKeys : new[j] # Nothing} = {k}
                                \/ \A k \in MCKeys : new[k] = "true"}

NoFaults  == {}
AnyFault  == FaultKinds
=============================================================================
