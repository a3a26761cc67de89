----------------------------- MODULE MCSelfHeal -----------------------------
(* SelfHeal for TLC: web, which operators stop and start, and loki, of which a survey
   may not know the state (Compose cannot be asked) or, as a Pod, find it pending. *)
EXTENDS SelfHeal

MCKeys  == {"web", "loki"}
MCOrder == <<"web", "loki">>
MCKeyOf == [r \in MCKeys |-> r]
MCCore  == {"web"}

Unknown   == [r \in MCKeys |-> IF r = "web" THEN {"healthy", "broken"} ELSE {"unknown"}]
AnyFinding == [r \in MCKeys |-> IF r = "web" THEN {"healthy", "broken"} ELSE {"broken", "pending"}]

StopStart == [by : {"operator"}, what : {"stop", "start"}, on : MCCore]
StopStartDisable == StopStart \union [by : {"panel"}, what : {"toggle"}, on : {FALSE}]

InTheApi  == {"watchdog", "dashboard"}

Everyone  == {"watchdog", "dashboard", "selfheal"}

NoFaults == {}
AnyFault == FaultKinds

\* Every property is about what happens before a write is lost or read by halves; and
\* a fault takes the place of a command.
Unspoilt == Without({"lost", "torn"}) /\ faults + asked <= MaxCommands

\* Operators wait for the API to be up, and nobody reads while another writes.
OnceUp == (asked = 0 \/ api = "up") /\ "torn" \notin trouble
=============================================================================
