---------------------------- MODULE RestartNotice ----------------------------
(***************************************************************************)
(* What the pending-restart notice promises: it names the options whose    *)
(* saved value differs from the one the running service has loaded, and an *)
(* option leaves it when its service is restarted or when it is put back   *)
(* to what the service has loaded.  A save and a restart are atomic here;  *)
(* RestartActivation has them as the code runs them.                       *)
(***************************************************************************)
EXTENDS RestartPending

VARIABLES
    config,    \* config.ini
    loaded,    \* what the running service that reads the option has loaded
    previous   \* the recorded previous texts

vars == <<config, loaded, previous>>

Init ==
    /\ config \in [Keys -> Texts \union {Absent}]
    /\ loaded = config
    /\ previous = [k \in Keys |-> Nothing]

Save(new, always) ==
    /\ config' = Written(config, new)
    /\ previous' = Reconciled(Marked(previous, Detail(config, new, always)), new)
    /\ UNCHANGED loaded

Restart(c) ==
    /\ loaded' = [k \in Keys |-> IF Reader[k] = c THEN config[k] ELSE loaded[k]]
    /\ previous' = Cleared(previous, Of(c))
    /\ UNCHANGED config

Next ==
    \/ \E new \in Updates, always \in BOOLEAN : Save(new, always)
    \/ \E c \in Components : Restart(c)

Spec == Init /\ [][Next]_vars

-----------------------------------------------------------------------------

\* What config.ini says of an option is what its service has loaded.
Agrees(k) == Value(k, config[k]) = Value(k, loaded[k])

=============================================================================
