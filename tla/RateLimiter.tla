----------------------------- MODULE RateLimiter -----------------------------
(***************************************************************************)
(* The token buckets that limit each client's requests (rate_limiter.py).   *)
(* The middleware calls is_allowed on the event loop, so calls follow one   *)
(* another.  The clock ticks in seconds, in which tokens are whole.         *)
(***************************************************************************)
EXTENDS Integers

CONSTANTS
    Clients,
    Rate, Burst,        \* requests_per_second, burst_size
    Every, Idle         \* seconds between cleanups (60) and till a bucket is stale (300)

\* A bucket is full again before it is stale.  The code does not check this of a
\* configuration; its defaults, 10 and 20, satisfy it.
ASSUME RateLimiterAssumption ==
    /\ Rate \in Nat \ {0} /\ Burst \in Nat \ {0} /\ Every \in Nat /\ Idle \in Nat \ {0}
    /\ Burst <= Rate * Idle

VARIABLES
    clock,
    known,      \* the clients that have a bucket
    tokens, lastRefill,
    lastCleanup,
    granted,    \* how many requests of each client have been let through
    past        \* how many had been as each second began

limiter == <<clock, known, tokens, lastRefill, lastCleanup, granted, past>>

LimiterInit ==
    /\ clock = 0
    /\ known = {}
    /\ tokens = [c \in Clients |-> 0] /\ lastRefill = [c \in Clients |-> 0]
    /\ lastCleanup = 0
    /\ granted = [c \in Clients |-> 0]
    /\ past = [s \in {0} |-> granted]

Tick ==
    /\ clock' = clock + 1
    /\ past' = [s \in 0 .. clock + 1 |-> IF s <= clock THEN past[s] ELSE granted]
    /\ UNCHANGED <<known, tokens, lastRefill, lastCleanup, granted>>

AtMost(m, n) == IF m <= n THEN m ELSE n

CleanupDue == clock - lastCleanup >= Every

\* The bucket of c as it is with the time that has passed.
Refilled(c) == AtMost(Burst, tokens[c] + (clock - lastRefill[c]) * Rate)

\* Mutant: a bucket is stale once its client has made no request for a second.
StaleAtOnce(c) == lastRefill[c] < clock

Stale(c) == lastRefill[c] <= clock - Idle

Kept == IF CleanupDue THEN {c \in known : ~Stale(c)} ELSE known

\* The tokens c has; a client without a bucket gets a full one.
Tokens(c) == IF c \in Kept THEN Refilled(c) ELSE Burst

Allowed(c) == Tokens(c) >= 1

\* is_allowed
IsAllowed(c) ==
    /\ known' = Kept \union {c}
    /\ lastCleanup' = IF CleanupDue THEN clock ELSE lastCleanup
    /\ tokens' = [tokens EXCEPT ![c] = IF Allowed(c) THEN Tokens(c) - 1 ELSE Tokens(c)]
    /\ lastRefill' = [lastRefill EXCEPT ![c] = clock]
    /\ granted' = [granted EXCEPT ![c] = IF Allowed(c) THEN @ + 1 ELSE @]
    /\ UNCHANGED <<clock, past>>

LimiterNext == Tick \/ \E c \in Clients : IsAllowed(c)

LimiterSpec == LimiterInit /\ [][LimiterNext]_limiter

-----------------------------------------------------------------------------
LimiterTypeOK ==
    /\ clock \in Nat
    /\ known \subseteq Clients
    /\ tokens \in [Clients -> 0 .. Burst]
    /\ lastRefill \in [Clients -> 0 .. clock]
    /\ lastCleanup \in 0 .. clock
    /\ granted \in [Clients -> Nat]
    /\ past \in [0 .. clock -> [Clients -> Nat]]

\* In no stretch of time, from the start of any second to now, does a client get more
\* requests through than a burst and the rate allow, though is_allowed forgets the bucket of
\* a client it has not seen for a while and gives it a full one when it comes back.
WithinRate ==
    \A c \in Clients, s \in 0 .. clock :
        granted[c] - past[s][c] <= Burst + Rate * (clock - s)

=============================================================================
