---------------------------- MODULE MCApiRequests ----------------------------
(* An instance of ApiRequests: time passes where there is no batching, and with it one
   client makes its requests in a moment. *)
EXTENDS ApiRequests

MCModes == [limits : BOOLEAN, batches : BOOLEAN] \ {[limits |-> FALSE, batches |-> FALSE]}
MCMaxClock == [batches \in BOOLEAN |-> IF batches THEN 0 ELSE 5]
MCMaxGranted == [batches \in BOOLEAN |->
    [c \in Clients |-> IF ~batches THEN 5 ELSE IF c = (CHOOSE d \in Clients : TRUE) THEN 2 ELSE 0]]
=============================================================================
