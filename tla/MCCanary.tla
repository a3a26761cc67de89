------------------------------ MODULE MCCanary ------------------------------
(* Instances of Canary for TLC. *)
EXTENDS CanaryImplements, TLC

\* The callers differ in nothing but their names.
CallersAlike == Permutations(Callers)

ApiOnly    == {"api"}
ApiAndWeb  == {"api", "web"}

AllCommands     == CommandNames
RolloutCommands == {"start", "promote", "rollback", "reset"}
StartOnly       == {"start"}

NoFaults == {}
Refusals == {"refused", "unread"}
Losses   == {"refused", "lost_reply", "unread", "crash", "file_lost"}
AnyFault == FaultKinds

OneWeight  == {10}
EdgeWeights == {10, 99}
OneHand    == {4}
NoHand     == {}
NotForced  == {FALSE}
AnyForce   == {FALSE, TRUE}
UpToFour   == 0 .. 4
MCVersions == {"v1"}
NoVersions == {}

=============================================================================
