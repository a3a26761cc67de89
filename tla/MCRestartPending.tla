-------------------------- MODULE MCRestartPending --------------------------
(* An instance of RestartPending for TLC: one option for each service.  "yes" *)
(* is a hand-written "true".                                               *)
EXTENDS RestartPending

MCKeys   == {"batch_enabled", "auth_api_key"}
MCSecret == {"auth_api_key"}
MCReader == [batch_enabled |-> "api", auth_api_key |-> "web"]
MCTexts  == {"true", "false", "yes"}
MCMeans  == [t \in MCTexts |-> IF t = "yes" THEN "true" ELSE t]
MCDefault == [k \in MCKeys |-> "false"]
MCAbsentReads == [batch_enabled |-> "false", auth_api_key |-> Absent]

=============================================================================
