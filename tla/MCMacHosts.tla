----------------------------- MODULE MCMacHosts -----------------------------
(* MacHosts for TLC: two hosts, one of which an earlier version may have left behind. *)
EXTENDS MacHosts

MCLeftovers == {{}, {CHOOSE h \in Hosts : TRUE}}
\* At most so many events in all.
Few == commands + faults + checks <= 5

AnyFault == FaultKinds
=============================================================================
