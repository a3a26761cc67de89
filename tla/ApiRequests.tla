----------------------------- MODULE ApiRequests -----------------------------
(***************************************************************************)
(* The requests of the API (app.py): the middleware asks the rate limiter   *)
(* about each one, and a chat request that is let through is submitted to   *)
(* the batch processor.                                                    *)
(***************************************************************************)
EXTENDS RateLimiter, BatchProcessor

CONSTANTS
    Modes,                      \* which configurations an instance looks at
    MaxClock, MaxGranted        \* bounds of an instance, without and with batching

Interactive == 1

ASSUME ApiAssumption ==
    /\ Interactive \in Priorities
    /\ Modes \subseteq [limits : BOOLEAN, batches : BOOLEAN]
    /\ MaxClock \in [BOOLEAN -> Nat] /\ MaxGranted \in [BOOLEAN -> [Clients -> Nat]]

VARIABLE mode       \* [rate_limit] enabled, [batch] enabled

vars == <<mode, limiter, processor>>

Init == mode \in Modes /\ LimiterInit /\ BatchInit

\* rate_limit_middleware, for a request of client c
Asks(c) ==
    /\ IF mode.limits THEN (Allowed(c) => granted[c] < MaxGranted[mode.batches][c]) /\ IsAllowed(c)
                      ELSE UNCHANGED limiter
    /\ UNCHANGED mode

\* chat: the request is answered with a 429, or goes on to the processor, as an
\* interactive one.
Chat(r, c) ==
    /\ mode.batches /\ Asks(c)
    /\ IF mode.limits /\ ~Allowed(c) THEN Refuse(r)
       ELSE Submit(r, Interactive)

\* A request that has nothing to do with the processor.
Other(c) == mode.limits /\ Asks(c) /\ UNCHANGED processor

Passes == clock < MaxClock[mode.batches] /\ Tick /\ UNCHANGED <<mode, processor>>

Caller(r) == (Count(r) \/ Put(r) \/ TimeOut(r)) /\ UNCHANGED <<mode, limiter>>

Works == Thread /\ UNCHANGED <<mode, limiter>>

Stops == Stop /\ UNCHANGED <<mode, limiter>>

Next ==
    \/ \E c \in Clients : Other(c) \/ \E r \in Calls : Chat(r, c)
    \/ \E r \in Calls : Caller(r)
    \/ Passes \/ Works \/ Stops

\* The processor's thread goes on; a round that finds the queue empty may just miss an
\* entry, but the first get of a round comes at once, so not round after round.
Spec ==
    /\ Init /\ [][Next]_vars
    /\ SF_processor(Get) /\ WF_processor(Look) /\ WF_processor(Collected)
    /\ WF_processor(Answer) /\ WF_processor(Deliver)

-----------------------------------------------------------------------------
TypeOK == mode \in Modes /\ LimiterTypeOK /\ BatchTypeOK

=============================================================================
