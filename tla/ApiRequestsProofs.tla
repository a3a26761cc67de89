-------------------------- MODULE ApiRequestsProofs --------------------------
(***************************************************************************)
(* The API's requests: the rate limiter keeps every client to its rate, for *)
(* every rate, burst and idle time that satisfy RateLimiterAssumption; the  *)
(* batch processor tells its callers the truth, and in the order they came, *)
(* for any number of them and any batch size; and the requests of the API   *)
(* use each of the two as it is specified on its own, so that what is       *)
(* proved of each holds of the two together.                               *)
(***************************************************************************)
EXTENDS ApiRequests, TLAPS

-----------------------------------------------------------------------------
(* The rate limiter *)

\* What a client could have granted at this moment.
Level(c) == IF c \in known THEN Refilled(c) ELSE Burst

\* WithinRate is not inductive by itself: what has been granted has to leave room for what
\* the bucket still holds.
Budget ==
    \A c \in Clients, s \in 0 .. clock :
        granted[c] - past[s][c] + Level(c) <= Burst + Rate * (clock - s)

LimiterInv == LimiterTypeOK /\ Budget

\* Arithmetic of a rate over a time.
LEMMA OneMore == ASSUME NEW t \in Int, NEW u \in Int, NEW r \in Nat, u = t + 1
                 PROVE  u * r = t * r + r /\ r * u = r * t + r
BY SMT

LEMMA Commutes == ASSUME NEW t \in Int, NEW r \in Nat
                  PROVE  t * r \in Int /\ t * r = r * t
BY SMT

LEMMA Longer == ASSUME NEW t \in Nat, NEW u \in Nat, NEW r \in Nat, t <= u
                PROVE  t * r <= u * r
BY SMT

LEMMA Positive == ASSUME NEW t \in Nat, NEW r \in Nat
                  PROVE  t * r \in Nat
BY SMT

\* A bucket never holds less than nothing or more than a burst.
LEMMA RefilledIsTokens ==
    ASSUME LimiterTypeOK, NEW c \in Clients
    PROVE  Refilled(c) \in 0 .. Burst
<1>1. clock - lastRefill[c] \in Nat /\ tokens[c] \in 0 .. Burst
  BY DEF LimiterTypeOK
<1>2. (clock - lastRefill[c]) * Rate \in Nat
  BY <1>1, Positive, RateLimiterAssumption
<1> QED
  BY <1>1, <1>2, RateLimiterAssumption DEF Refilled, AtMost

\* A bucket that is stale is full.
LEMMA StaleIsFull ==
    ASSUME LimiterTypeOK, NEW c \in Clients, Stale(c)
    PROVE  Refilled(c) = Burst
<1>1. clock - lastRefill[c] \in Nat /\ tokens[c] \in Nat /\ Idle <= clock - lastRefill[c]
  BY RateLimiterAssumption DEF LimiterTypeOK, Stale
<1>2. Idle * Rate <= (clock - lastRefill[c]) * Rate
  BY <1>1, Longer, RateLimiterAssumption
<1>3. Burst <= Idle * Rate
  BY Commutes, RateLimiterAssumption
<1>4. Idle * Rate \in Int /\ (clock - lastRefill[c]) * Rate \in Int
  BY <1>1, Commutes, RateLimiterAssumption
<1> QED
  BY <1>1, <1>2, <1>3, <1>4, RateLimiterAssumption DEF Refilled, AtMost

LEMMA TokensAreLevel ==
    ASSUME LimiterTypeOK, NEW c \in Clients
    PROVE  Tokens(c) = Level(c) /\ Tokens(c) \in 0 .. Burst
<1>1. c \in known /\ c \notin Kept => Refilled(c) = Burst
  BY StaleIsFull DEF Kept
<1>2. Kept \subseteq known
  BY DEF Kept
<1> QED
  BY <1>1, <1>2, RefilledIsTokens, RateLimiterAssumption DEF Tokens, Level

LEMMA LimiterInitInv == LimiterInit => LimiterInv
<1> SUFFICES ASSUME LimiterInit PROVE LimiterInv
  OBVIOUS
<1>1. LimiterTypeOK
  BY RateLimiterAssumption DEF LimiterInit, LimiterTypeOK
<1>2. Budget
  BY RateLimiterAssumption DEF LimiterInit, Budget, Level
<1> QED
  BY <1>1, <1>2 DEF LimiterInv

LEMMA TickInv == LimiterInv /\ Tick => LimiterInv'
<1> SUFFICES ASSUME LimiterInv, Tick PROVE LimiterInv'
  OBVIOUS
<1> USE DEF LimiterInv
<1>1. LimiterTypeOK'
  BY DEF LimiterTypeOK, Tick
<1>2. ASSUME NEW c \in Clients PROVE Level(c)' \in Int /\ Level(c)' <= Level(c) + Rate /\ Level(c)' <= Burst
  <2>1. clock \in Nat /\ lastRefill[c] \in 0 .. clock /\ tokens[c] \in 0 .. Burst
    BY DEF LimiterTypeOK
  <2>2. clock' - lastRefill'[c] = (clock - lastRefill[c]) + 1 /\ tokens'[c] = tokens[c]
    BY <2>1 DEF Tick
  <2> DEFINE gain == (clock - lastRefill[c]) * Rate
             later == (clock' - lastRefill'[c]) * Rate
  <2>3. later = gain + Rate /\ gain \in Int
    BY <2>1, <2>2, OneMore, Commutes, RateLimiterAssumption
  <2>4. Refilled(c) = AtMost(Burst, tokens[c] + gain)
    BY DEF Refilled
  <2>5. Refilled(c)' = AtMost(Burst, tokens'[c] + later)
    BY DEF Refilled
  <2> HIDE DEF gain, later
  <2>6. Refilled(c)' \in Int /\ Refilled(c)' <= Refilled(c) + Rate /\ Refilled(c)' <= Burst
    BY <2>1, <2>2, <2>3, <2>4, <2>5, RateLimiterAssumption DEF AtMost
  <2> QED
    BY <2>6, RateLimiterAssumption DEF Level, Tick
<1>3. ASSUME NEW c \in Clients, NEW s \in 0 .. clock'
      PROVE  granted'[c] - past'[s][c] + Level(c)' <= Burst + Rate * (clock' - s)
  <2>1. CASE s \in 0 .. clock
    <3>1. granted[c] - past[s][c] + Level(c) <= Burst + Rate * (clock - s)
      BY <2>1 DEF Budget
    <3>2. past'[s] = past[s] /\ granted' = granted /\ clock' = clock + 1
      BY <2>1 DEF Tick, LimiterTypeOK
    <3>3. Rate * (clock' - s) = Rate * (clock - s) + Rate
      <4>1. clock - s \in Int /\ clock' - s \in Int /\ clock' - s = (clock - s) + 1
        BY <2>1, <3>2 DEF LimiterTypeOK
      <4> QED
        BY <4>1, OneMore, RateLimiterAssumption
    <3>4. granted[c] \in Int /\ past[s][c] \in Int /\ Level(c) \in Int /\ Rate * (clock - s) \in Int
      <4>1. granted[c] \in Int /\ past[s][c] \in Int
        BY <2>1 DEF LimiterTypeOK
      <4>2. Level(c) \in Int
        BY RefilledIsTokens, RateLimiterAssumption DEF Level
      <4>3. Rate * (clock - s) \in Int
        BY <2>1, Commutes, RateLimiterAssumption DEF LimiterTypeOK
      <4> QED
        BY <4>1, <4>2, <4>3
    <3> DEFINE before == Rate * (clock - s)
    <3>5. granted'[c] - past'[s][c] = granted[c] - past[s][c] /\ Rate * (clock' - s) = before + Rate
      BY <3>2, <3>3, Zenon
    <3>6. before \in Int /\ granted[c] - past[s][c] + Level(c) <= Burst + before
      BY <3>1, <3>4
    <3> HIDE DEF before
    <3> QED
      BY <3>4, <3>5, <3>6, <1>2, RateLimiterAssumption
  <2>2. CASE s = clock + 1
    <3>1. past'[s][c] = granted[c] /\ granted' = granted /\ clock' - s = 0 /\ granted[c] \in Int
      BY <2>2 DEF Tick, LimiterTypeOK
    <3>2. Rate * 0 = 0
      BY RateLimiterAssumption
    <3> QED
      BY <3>1, <3>2, <1>2, RateLimiterAssumption
  <2> QED
    BY <2>1, <2>2 DEF Tick, LimiterTypeOK
<1> QED
  BY <1>1, <1>3 DEF Budget

LEMMA IsAllowedInv == ASSUME LimiterInv, NEW c \in Clients, IsAllowed(c) PROVE LimiterInv'
<1> USE DEF LimiterInv
<1>1. Tokens(c) = Level(c) /\ Tokens(c) \in 0 .. Burst
  BY TokensAreLevel
<1>2. LimiterTypeOK'
  <2>1. Kept \subseteq Clients
    BY DEF Kept, LimiterTypeOK
  <2>2. tokens' \in [Clients -> 0 .. Burst]
    BY <1>1, RateLimiterAssumption DEF LimiterTypeOK, IsAllowed, Allowed
  <2>3. granted' \in [Clients -> Nat]
    BY DEF LimiterTypeOK, IsAllowed
  <2>4. /\ known' \subseteq Clients /\ clock' = clock /\ past' = past
        /\ lastRefill' \in [Clients -> 0 .. clock] /\ lastCleanup' \in 0 .. clock
    BY <2>1 DEF LimiterTypeOK, IsAllowed
  <2> QED
    BY <2>2, <2>3, <2>4 DEF LimiterTypeOK
<1>3. tokens'[c] + granted'[c] = Level(c) + granted[c] /\ granted[c] \in Int
  BY <1>1 DEF LimiterTypeOK, IsAllowed, Allowed
<1>4. ASSUME NEW d \in Clients
      PROVE  granted'[d] + Level(d)' = granted[d] + Level(d)
  <2>1. CASE d = c
    <3>1. clock' - lastRefill'[c] = 0 /\ tokens'[c] \in 0 .. Burst
      BY <1>2 DEF LimiterTypeOK, IsAllowed
    <3>2. Level(d)' = tokens'[d]
      <4>1. Refilled(d)' = AtMost(Burst, tokens'[d] + 0 * Rate)
        BY <2>1, <3>1, Zenon DEF Refilled
      <4>2. AtMost(Burst, tokens'[d] + 0 * Rate) = tokens'[d]
        BY <2>1, <3>1, RateLimiterAssumption DEF AtMost
      <4>3. d \in known'
        BY <2>1 DEF IsAllowed
      <4> QED
        BY <4>1, <4>2, <4>3 DEF Level
    <3>3. Level(d) = Level(c)
      BY <2>1
    <3> QED
      BY <2>1, <3>2, <1>1, <1>2, <1>3, <3>1, <3>3, RateLimiterAssumption DEF LimiterTypeOK
  <2>2. CASE d # c
    <3>1. tokens'[d] = tokens[d] /\ lastRefill'[d] = lastRefill[d] /\ granted'[d] = granted[d]
          /\ clock' = clock /\ (d \in known' <=> d \in Kept)
      BY <2>2 DEF IsAllowed, LimiterTypeOK
    <3>2. Level(d)' = Tokens(d)
      BY <3>1 DEF Level, Tokens, Refilled
    <3> QED
      BY <3>1, <3>2, TokensAreLevel
  <2> QED
    BY <2>1, <2>2
<1>5. Budget'
  <2> SUFFICES ASSUME NEW d \in Clients, NEW s \in 0 .. clock
               PROVE  granted'[d] - past[s][d] + Level(d)' <= Burst + Rate * (clock - s)
    BY DEF Budget, IsAllowed
  <2>1. granted[d] - past[s][d] + Level(d) <= Burst + Rate * (clock - s)
    BY DEF Budget
  <2>2. granted[d] \in Int /\ past[s][d] \in Int /\ granted'[d] \in Int
    BY <1>2 DEF LimiterTypeOK, IsAllowed
  <2>3. Level(d) \in Int /\ Level(d)' \in Int
    <3>1. Level(d) \in Int
      BY RefilledIsTokens, RateLimiterAssumption DEF Level
    <3>2. Level(d)' \in Int
      <4>1. Refilled(d)' \in Int
        <5>1. clock' - lastRefill'[d] \in Int /\ tokens'[d] \in Int
          BY <1>2 DEF LimiterTypeOK
        <5>2. (clock' - lastRefill'[d]) * Rate \in Int
          BY <5>1, Commutes, RateLimiterAssumption
        <5> QED
          BY <5>1, <5>2, RateLimiterAssumption DEF Refilled, AtMost
      <4> QED
        BY <4>1, RateLimiterAssumption DEF Level
    <3> QED
      BY <3>1, <3>2
  <2> QED
    BY <2>1, <2>2, <2>3, <1>4
<1> QED
  BY <1>2, <1>5

LEMMA LimiterUnchanged == LimiterInv /\ UNCHANGED limiter => LimiterInv'
BY DEF LimiterInv, LimiterTypeOK, Budget, Level, Refilled, limiter

LEMMA LimiterStep == LimiterInv /\ [LimiterNext]_limiter => LimiterInv'
BY TickInv, IsAllowedInv, LimiterUnchanged DEF LimiterNext

LEMMA BudgetSuffices == LimiterInv => WithinRate
<1> SUFFICES ASSUME LimiterInv, NEW c \in Clients, NEW s \in 0 .. clock
             PROVE  granted[c] - past[s][c] <= Burst + Rate * (clock - s)
  BY DEF WithinRate
<1>1. Level(c) \in 0 .. Burst
  BY RefilledIsTokens, RateLimiterAssumption DEF Level, LimiterInv
<1>2. granted[c] \in Int /\ past[s][c] \in Int /\ Rate * (clock - s) \in Int
  BY Commutes, RateLimiterAssumption DEF LimiterInv, LimiterTypeOK
<1> QED
  BY <1>1, <1>2, RateLimiterAssumption DEF LimiterInv, Budget

\* For every rate, burst and idle time, over every stretch of time: is_allowed lets no
\* client through more often than its burst and rate allow.
THEOREM LimiterKeepsRate == LimiterSpec => []WithinRate
<1>1. LimiterSpec => []LimiterInv
  BY LimiterInitInv, LimiterStep, PTL DEF LimiterSpec
<1> QED
  BY <1>1, BudgetSuffices, PTL

-----------------------------------------------------------------------------
(* The batch processor *)

Entries == [priority : Nat, number : Nat, call : Calls]
Outcomes == {"saved", "failed"}
Waiting == {"wait", "gone"}
CallStates == {"new", "refused", "count", "put"} \union Waiting \union Outcomes

Types ==
    /\ running \in BOOLEAN
    /\ loop \in {"off", "look", "collect", "process"}
    /\ batch \in Seq(Calls) /\ results \in Seq(Outcomes)
    /\ queue \subseteq Entries
    /\ counter \in Nat
    /\ call \in [Calls -> [at : CallStates, priority : Nat, number : Nat]]
    /\ ran \in [Calls -> {"no"} \union Outcomes]
    /\ ahead \in [Calls -> SUBSET Calls]

\* An entry of the queue is its call's own, and its turn has not run.
QueueIsWaiting ==
    \A e \in queue :
        /\ e = Entry(e.call) /\ e.number < counter
        /\ call[e.call].at \in Waiting /\ ran[e.call] = "no"
        /\ \A k \in 1 .. Len(batch) : batch[k] # e.call

\* The calls of the batch are different ones, and their turns run in the batch's order.
BatchIsInOrder ==
    /\ Len(results) <= Len(batch)
    /\ loop = "look" => batch = <<>>
    /\ \A k \in 1 .. Len(batch) :
         /\ call[batch[k]].at \in Waiting
         /\ ran[batch[k]] = IF k <= Len(results) THEN results[k] ELSE "no"
    /\ \A k, l \in 1 .. Len(batch) : batch[k] = batch[l] => k = l

\* A turn runs only for a call that has been put in the queue.
RunsOnce == \A r \in Calls : call[r].at \in {"new", "refused", "count", "put"} => ran[r] = "no"

\* A call that was ahead of another is done with, in the queue before it, or in the batch
\* before it.
Numbered(r) == call[r].at \notin {"new", "count"}
Queued(q, r) ==
    /\ Entry(q) \in queue /\ Before(Entry(q), Entry(r))
    /\ \A k \in 1 .. Len(batch) : batch[k] # r
Batched(q, r) ==
    \E k \in 1 .. Len(batch) :
        batch[k] = q /\ \A l \in 1 .. Len(batch) : batch[l] = r => k < l
First(q, r) == ran[q] # "no" \/ (Numbered(r) /\ ran[r] = "no" /\ (Queued(q, r) \/ Batched(q, r)))
Ahead == \A r \in Calls : \A q \in ahead[r] : First(q, r)

\* Numbers given out are below the counter.
NumbersBelow == \A r \in Calls : call[r].at \notin {"new", "count", "refused"} => call[r].number < counter

\* Nobody is ahead of a call that has no number.
NoneYet == \A r \in Calls : call[r].at \in {"new", "count"} => ahead[r] = {}

BatchInv ==
    /\ Types /\ QueueIsWaiting /\ BatchIsInOrder
    /\ RunsOnce /\ NumbersBelow /\ NoneYet /\ Ahead /\ ToldTheTruth

LEMMA BatchInitInv == BatchInit => BatchInv
BY BatchAssumption
   DEF BatchInit, BatchInv, Types, QueueIsWaiting, BatchIsInOrder, RunsOnce, NoneYet, Ahead,
       NumbersBelow, ToldTheTruth, CallAt, CallStates, Waiting, Outcomes, Entries

\* A step that leaves the batch alone and takes nothing from the queue keeps the order.
LEMMA FirstKept ==
    ASSUME NEW q \in Calls, NEW t \in Calls, First(q, t),
           UNCHANGED <<ran, batch>>, queue \subseteq queue', Entry(t)' = Entry(t),
           Entry(q) \in queue => Entry(q)' = Entry(q), Numbered(t) => Numbered(t)'
    PROVE  First(q, t)'
<1>1. Queued(q, t) => Queued(q, t)'
  BY DEF Queued, Before
<1>2. Batched(q, t) => Batched(q, t)'
  BY DEF Batched
<1> QED
  BY <1>1, <1>2 DEF First

LEMMA SubmitInv ==
    ASSUME BatchInv, NEW r \in Calls, NEW priority \in Priorities, Submit(r, priority)
    PROVE  BatchInv'
<1> USE BatchAssumption DEF BatchInv, Submit, CallAt, worker
<1>1. Types'
  BY DEF Types, CallStates
<1>2. \A q \in Calls : q # r => call'[q] = call[q]
  BY DEF Types
<1>3. call'[r].at \in {"count", "refused"}
  BY DEF Types
<1>4. QueueIsWaiting'
  BY <1>2 DEF QueueIsWaiting, Types, Entries, Entry, Waiting
<1>5. BatchIsInOrder'
  BY <1>2 DEF BatchIsInOrder, Types, Waiting
<1>6. RunsOnce' /\ NoneYet' /\ ToldTheTruth' /\ NumbersBelow'
  BY <1>2, <1>3 DEF RunsOnce, NoneYet, ToldTheTruth, NumbersBelow, Types
<1>7. Ahead'
  <2> SUFFICES ASSUME NEW t \in Calls, NEW q \in ahead[t] PROVE First(q, t)'
    BY DEF Ahead
  <2>1. t # r /\ q \in Calls /\ First(q, t)
    BY DEF NoneYet, Types, Ahead
  <2>2. Entry(q) \in queue => q # r
    BY DEF QueueIsWaiting, Entry, Waiting
  <2>3. Entry(t)' = Entry(t) /\ (Numbered(t) => Numbered(t)')
    BY <1>2, <2>1 DEF Entry, Numbered
  <2>4. Entry(q) \in queue => Entry(q)' = Entry(q)
    BY <1>2, <2>1, <2>2 DEF Entry
  <2> QED
    BY <2>1, <2>3, <2>4, FirstKept
<1> QED
  BY <1>1, <1>4, <1>5, <1>6, <1>7

LEMMA RefuseInv == ASSUME BatchInv, NEW r \in Calls, Refuse(r) PROVE BatchInv'
<1> USE BatchAssumption DEF BatchInv, Refuse, CallMoves, CallAt, worker
<1>1. Types'
  BY DEF Types, CallStates
<1>2. (\A q \in Calls : q # r => call'[q] = call[q]) /\ call'[r].at = "refused"
  BY DEF Types
<1>3. QueueIsWaiting'
  BY <1>2 DEF QueueIsWaiting, Types, Entries, Entry, Waiting
<1>4. BatchIsInOrder'
  BY <1>2 DEF BatchIsInOrder, Types, Waiting
<1>5. RunsOnce' /\ NoneYet' /\ ToldTheTruth' /\ NumbersBelow'
  BY <1>2 DEF RunsOnce, NoneYet, ToldTheTruth, NumbersBelow, Types
<1>6. Ahead'
  <2> SUFFICES ASSUME NEW t \in Calls, NEW q \in ahead[t] PROVE First(q, t)'
    BY DEF Ahead
  <2>1. t # r /\ q \in Calls /\ First(q, t)
    BY DEF NoneYet, Types, Ahead
  <2>2. Entry(q) \in queue => q # r
    BY DEF QueueIsWaiting, Entry, Waiting
  <2>3. Entry(t)' = Entry(t) /\ (Numbered(t) => Numbered(t)')
    BY <1>2, <2>1 DEF Entry, Numbered
  <2>4. Entry(q) \in queue => Entry(q)' = Entry(q)
    BY <1>2, <2>1, <2>2 DEF Entry
  <2> QED
    BY <2>1, <2>3, <2>4, FirstKept
<1> QED
  BY <1>1, <1>3, <1>4, <1>5, <1>6

\* What is ahead of a call that takes a number has a lower one or a higher priority.
LEMMA CountInv == ASSUME BatchInv, NEW r \in Calls, Count(r) PROVE BatchInv'
<1> USE BatchAssumption DEF BatchInv, Count, CallAt, worker
<1>1. Types'
  <2>1. {e.call : e \in {e \in queue : e.priority <= call[r].priority}} \in SUBSET Calls
    BY DEF Types, Entries
  <2>2. ahead' \in [Calls -> SUBSET Calls]
    BY <2>1 DEF Types
  <2>3. call' \in [Calls -> [at : CallStates, priority : Nat, number : Nat]]
    BY DEF Types, CallStates
  <2> QED
    BY <2>2, <2>3 DEF Types
<1>2. (\A q \in Calls : q # r => call'[q] = call[q] /\ ahead'[q] = ahead[q])
      /\ call'[r].at = "put" /\ call'[r].number = counter /\ call'[r].priority = call[r].priority
  BY DEF Types
<1>3. QueueIsWaiting'
  BY <1>2 DEF QueueIsWaiting, Types, Entries, Entry, Waiting
<1>4. BatchIsInOrder'
  BY <1>2 DEF BatchIsInOrder, Types, Waiting
<1>5. RunsOnce' /\ NoneYet' /\ ToldTheTruth' /\ NumbersBelow'
  BY <1>2 DEF RunsOnce, NoneYet, ToldTheTruth, NumbersBelow, Types
<1>6. Ahead'
  <2> SUFFICES ASSUME NEW t \in Calls, NEW q \in ahead'[t] PROVE First(q, t)'
    BY DEF Ahead
  <2>1. CASE t # r
    <3>1. q \in ahead[t] /\ q \in Calls /\ First(q, t)
      BY <1>2, <2>1 DEF Types, Ahead
    <3>2. Entry(q) \in queue => q # r
      BY DEF QueueIsWaiting, Entry, Waiting
    <3>3. Entry(t)' = Entry(t) /\ (Numbered(t) => Numbered(t)')
      BY <1>2, <2>1 DEF Entry, Numbered
    <3>4. Entry(q) \in queue => Entry(q)' = Entry(q)
      BY <1>2, <3>1, <3>2 DEF Entry
    <3> QED
      BY <3>1, <3>3, <3>4, FirstKept
  <2>2. CASE t = r
    <3>1. PICK e \in queue : e.priority <= call[r].priority /\ q = e.call
      BY <2>2 DEF Types
    <3>2. q \in Calls /\ e = Entry(q) /\ e.number < counter /\ call[q].at \in Waiting
      BY <3>1 DEF QueueIsWaiting, Types, Entries
    <3>3. q # r
      BY <3>2 DEF Waiting
    <3>4. Entry(q)' = Entry(q) /\ Entry(q)' \in queue'
      <4>1. Entry(q)' = Entry(q)
        BY <1>2, <3>2, <3>3 DEF Entry
      <4> QED
        BY <3>1, <3>2, <4>1
    <3>5. e.priority \in Nat /\ e.number \in Nat /\ call[r].priority \in Nat /\ counter \in Nat
      BY DEF Types, Entries
    <3>6. Entry(r)'.priority = call[r].priority /\ Entry(r)'.number = counter
      BY <1>2 DEF Entry
    <3>7. Before(Entry(q)', Entry(r)')
      BY <3>1, <3>2, <3>4, <3>5, <3>6 DEF Before
    <3>8. \A k \in 1 .. Len(batch) : batch[k] # r
      BY DEF BatchIsInOrder, Waiting
    <3>9. ran[r] = "no" /\ Numbered(r)'
      BY <1>2 DEF RunsOnce, Numbered
    <3> QED
      BY <2>2, <3>4, <3>7, <3>8, <3>9 DEF First, Queued, Before
  <2> QED
    BY <2>1, <2>2
<1> QED
  BY <1>1, <1>3, <1>4, <1>5, <1>6

LEMMA PutInv == ASSUME BatchInv, NEW r \in Calls, Put(r) PROVE BatchInv'
<1> USE BatchAssumption DEF BatchInv, Put, CallMoves, CallAt, worker
<1>1. Types'
  <2>1. Entry(r) \in Entries
    BY DEF Types, Entries, Entry
  <2>2. call' \in [Calls -> [at : CallStates, priority : Nat, number : Nat]]
    BY DEF Types, CallStates, Waiting
  <2> QED
    BY <2>1, <2>2 DEF Types
<1>2. \A q \in Calls : Entry(q)' = Entry(q) /\ (q # r => call'[q] = call[q])
  BY DEF Types, Entry
<1>3. call'[r].at = "wait"
  BY DEF Types
<1>4. ran[r] = "no" /\ \A k \in 1 .. Len(batch) : batch[k] # r
  BY DEF RunsOnce, BatchIsInOrder, Waiting
<1>5. QueueIsWaiting'
  <2> SUFFICES ASSUME NEW e \in queue'
               PROVE  /\ e = Entry(e.call)' /\ e.number < counter
                      /\ call'[e.call].at \in Waiting /\ ran[e.call] = "no"
                      /\ \A k \in 1 .. Len(batch) : batch[k] # e.call
    BY DEF QueueIsWaiting
  <2>1. CASE e \in queue
    BY <1>2, <1>3, <2>1 DEF QueueIsWaiting, Types, Entries, Waiting
  <2>2. CASE e = Entry(r)
    <3>1. e.call = r /\ e.number = call[r].number
      BY <2>2 DEF Entry
    <3>2. call[r].number < counter
      BY DEF NumbersBelow
    <3> QED
      BY <1>2, <1>3, <1>4, <2>2, <3>1, <3>2 DEF Waiting
  <2> QED
    BY <2>1, <2>2
<1>6. BatchIsInOrder'
  BY <1>2, <1>4 DEF BatchIsInOrder, Types, Waiting
<1>7. RunsOnce' /\ NoneYet' /\ ToldTheTruth' /\ NumbersBelow'
  BY <1>2, <1>3 DEF RunsOnce, NoneYet, ToldTheTruth, NumbersBelow, Types
<1>8. Ahead'
  <2> SUFFICES ASSUME NEW t \in Calls, NEW q \in ahead[t] PROVE First(q, t)'
    BY DEF Ahead
  <2>1. q \in Calls /\ First(q, t) /\ Entry(t)' = Entry(t) /\ Entry(q)' = Entry(q)
    BY <1>2 DEF Types, Ahead
  <2>2. Numbered(t) => Numbered(t)'
    BY <1>2, <1>3 DEF Numbered
  <2> QED
    BY <2>1, <2>2, FirstKept
<1> QED
  BY <1>1, <1>5, <1>6, <1>7, <1>8

LEMMA TimeOutInv == ASSUME BatchInv, NEW r \in Calls, TimeOut(r) PROVE BatchInv'
<1> USE BatchAssumption DEF BatchInv, TimeOut, CallMoves, CallAt, worker
<1>1. Types'
  BY DEF Types, CallStates, Waiting
<1>2. \A q \in Calls : Entry(q)' = Entry(q) /\ (q # r => call'[q] = call[q])
  BY DEF Types, Entry
<1>3. call'[r].at = "gone"
  BY DEF Types
<1>4. QueueIsWaiting'
  BY <1>2, <1>3 DEF QueueIsWaiting, Types, Entries, Waiting
<1>5. BatchIsInOrder'
  BY <1>2, <1>3 DEF BatchIsInOrder, Types, Waiting
<1>6. RunsOnce' /\ NoneYet' /\ ToldTheTruth' /\ NumbersBelow'
  BY <1>2, <1>3 DEF RunsOnce, NoneYet, ToldTheTruth, NumbersBelow, Types
<1>7. Ahead'
  <2> SUFFICES ASSUME NEW t \in Calls, NEW q \in ahead[t] PROVE First(q, t)'
    BY DEF Ahead
  <2>1. q \in Calls /\ First(q, t) /\ Entry(t)' = Entry(t) /\ Entry(q)' = Entry(q)
    BY <1>2 DEF Types, Ahead
  <2>2. Numbered(t) => Numbered(t)'
    BY <1>2, <1>3 DEF Numbered
  <2> QED
    BY <2>1, <2>2, FirstKept
<1> QED
  BY <1>1, <1>4, <1>5, <1>6, <1>7

\* The thread's steps that touch no call: Look, Collected, Stop.
LEMMA MoveInv ==
    ASSUME BatchInv, Look \/ Collected \/ Stop
    PROVE  BatchInv'
<1> USE BatchAssumption DEF BatchInv, Look, Collected, Stop
<1>1. Types' /\ UNCHANGED <<batch, results, queue, counter, call, ran, ahead>>
  BY DEF Types
<1>2. BatchIsInOrder'
  BY <1>1 DEF BatchIsInOrder
<1>3. QueueIsWaiting' /\ RunsOnce' /\ NoneYet' /\ ToldTheTruth' /\ NumbersBelow'
  BY <1>1 DEF QueueIsWaiting, RunsOnce, NoneYet, ToldTheTruth, NumbersBelow, Entry, CallAt
<1>4. Ahead'
  BY <1>1 DEF Ahead, First, Queued, Batched, Numbered, Entry, Before
<1> QED
  BY <1>1, <1>2, <1>3, <1>4

LEMMA GetInv == ASSUME BatchInv, Get PROVE BatchInv'
<1> USE BatchAssumption DEF BatchInv, Get
<1>1. PICK e \in queue : /\ \A f \in queue : ~Before(f, e)
                         /\ queue' = queue \ {e} /\ batch' = Append(batch, e.call)
  OBVIOUS
<1>2. /\ e.call \in Calls /\ e = Entry(e.call) /\ ran[e.call] = "no"
      /\ call[e.call].at \in Waiting /\ \A k \in 1 .. Len(batch) : batch[k] # e.call
  BY DEF QueueIsWaiting, Types, Entries
<1>3. UNCHANGED <<running, loop, results, counter, call, ran, ahead>>
  OBVIOUS
<1>4. /\ Len(batch) \in Nat /\ Len(results) \in Nat /\ Len(batch') = Len(batch) + 1
      /\ batch'[Len(batch) + 1] = e.call
      /\ \A k \in 1 .. Len(batch) : batch'[k] = batch[k]
  BY <1>1, <1>2 DEF Types
<1>5. Types'
  BY <1>1, <1>2 DEF Types
<1>6. QueueIsWaiting'
  <2> SUFFICES ASSUME NEW f \in queue'
               PROVE  /\ f = Entry(f.call)' /\ f.number < counter
                      /\ call[f.call].at \in Waiting /\ ran[f.call] = "no"
                      /\ \A k \in 1 .. Len(batch') : batch'[k] # f.call
    BY <1>3 DEF QueueIsWaiting
  <2>1. f \in queue /\ f # e /\ f = Entry(f.call)
    BY <1>1 DEF QueueIsWaiting
  <2>2. f.call # e.call
    BY <1>2, <2>1
  <2>3. Entry(f.call)' = Entry(f.call)
    BY <1>3 DEF Entry
  <2> QED
    BY <1>4, <2>1, <2>2, <2>3 DEF QueueIsWaiting
<1>7. BatchIsInOrder'
  BY <1>2, <1>3, <1>4 DEF BatchIsInOrder
<1>8. RunsOnce' /\ NoneYet' /\ ToldTheTruth' /\ NumbersBelow'
  BY <1>3 DEF RunsOnce, NoneYet, ToldTheTruth, NumbersBelow, CallAt
<1>9. Ahead'
  <2> SUFFICES ASSUME NEW t \in Calls, NEW q \in ahead[t] PROVE First(q, t)'
    BY <1>3 DEF Ahead
  <2>1. q \in Calls /\ First(q, t) /\ Entry(t)' = Entry(t) /\ Entry(q)' = Entry(q)
    BY <1>3 DEF Types, Ahead, Entry
  <2>2. CASE ran[q] # "no"
    BY <1>3, <2>2 DEF First
  <2>3. CASE Queued(q, t) /\ Numbered(t) /\ ran[t] = "no"
    <3>1. t # e.call
      BY <1>1, <1>2, <2>3 DEF Queued
    <3>2. \A k \in 1 .. Len(batch') : batch'[k] # t
      BY <1>4, <2>3, <3>1 DEF Queued
    <3>3. CASE Entry(q) = e
      <4>1. q = e.call
        BY <3>3 DEF Entry
      <4>2. Batched(q, t)'
        BY <1>4, <3>2, <4>1 DEF Batched
      <4> QED
        BY <1>3, <2>3, <4>2 DEF First, Numbered
    <3>4. CASE Entry(q) # e
      <4>1. Queued(q, t)'
        BY <1>1, <2>1, <2>3, <3>2, <3>4 DEF Queued, Before
      <4> QED
        BY <1>3, <2>3, <4>1 DEF First, Numbered
    <3> QED
      BY <3>3, <3>4
  <2>4. CASE Batched(q, t) /\ Numbered(t) /\ ran[t] = "no"
    <3>1. PICK k \in 1 .. Len(batch) : batch[k] = q /\ \A l \in 1 .. Len(batch) : batch[l] = t => k < l
      BY <2>4 DEF Batched
    <3>2. k \in 1 .. Len(batch') /\ batch'[k] = q /\ \A l \in 1 .. Len(batch') : batch'[l] = t => k < l
      BY <1>4, <3>1
    <3>3. Batched(q, t)'
      BY <3>2 DEF Batched
    <3> QED
      BY <1>3, <2>4, <3>3 DEF First, Numbered
  <2> QED
    BY <2>1, <2>2, <2>3, <2>4 DEF First
<1> QED
  BY <1>5, <1>6, <1>7, <1>8, <1>9

\* The turn that runs is the first of the batch without a result, so what was ahead of it
\* has run.
LEMMA AnswerInv == ASSUME BatchInv, Answer PROVE BatchInv'
<1> USE BatchAssumption DEF BatchInv, Answer
<1> DEFINE n == Len(results) + 1
<1>1. PICK came \in Outcomes : /\ ran' = [ran EXCEPT ![Turn] = came]
                               /\ results' = Append(results, came)
  BY DEF Outcomes
<1>2. UNCHANGED <<running, loop, batch, queue, counter, call, ahead>>
  OBVIOUS
<1>3. /\ n \in 1 .. Len(batch) /\ Turn = batch[n] /\ Turn \in Calls
      /\ Len(results) \in Nat /\ Len(batch) \in Nat
  BY DEF Types, Turn
<1>4. ran'[Turn] = came /\ came # "no" /\ \A r \in Calls : r # Turn => ran'[r] = ran[r]
  BY <1>1, <1>3 DEF Types, Outcomes
<1>5. ran[Turn] = "no" /\ call[Turn].at \in Waiting
  BY <1>3 DEF BatchIsInOrder
<1>6. Len(results') = n /\ results'[n] = came /\ \A k \in 1 .. Len(results) : results'[k] = results[k]
  BY <1>1 DEF Types
<1>7. Types'
  BY <1>1, <1>2, <1>3 DEF Types
<1>8. QueueIsWaiting'
  <2>1. \A e \in queue : e.call # Turn /\ e.call \in Calls
    BY <1>3 DEF QueueIsWaiting, Types, Entries
  <2> QED
    BY <1>2, <1>4, <2>1 DEF QueueIsWaiting, Entry
<1>9. BatchIsInOrder'
  <2>1. ASSUME NEW k \in 1 .. Len(batch)
        PROVE  ran'[batch[k]] = IF k <= Len(results') THEN results'[k] ELSE "no"
    <3>1. k = n => batch[k] = Turn
      BY <1>3
    <3>2. k # n => batch[k] # Turn
      BY <1>3 DEF BatchIsInOrder
    <3>3. batch[k] \in Calls
      BY DEF Types
    <3>4. ran[batch[k]] = IF k <= Len(results) THEN results[k] ELSE "no"
      BY DEF BatchIsInOrder
    <3> HIDE DEF n
    <3>5. CASE k = n
      BY <3>1, <3>5, <1>4, <1>6, <1>3
    <3>6. CASE k # n
      <4>1. k <= Len(results') <=> k <= Len(results)
        BY <1>3, <1>6, <3>6 DEF n
      <4>2. ran'[batch[k]] = ran[batch[k]]
        BY <1>4, <3>2, <3>3, <3>6
      <4> QED
        BY <1>6, <1>3, <3>4, <4>1, <4>2
    <3> QED
      BY <3>5, <3>6
  <2>2. Len(results') <= Len(batch)
    BY <1>3, <1>6
  <2> QED
    BY <1>2, <2>1, <2>2 DEF BatchIsInOrder
<1>10. RunsOnce' /\ NoneYet' /\ ToldTheTruth' /\ NumbersBelow'
  BY <1>2, <1>3, <1>4, <1>5 DEF RunsOnce, NoneYet, ToldTheTruth, NumbersBelow, CallAt, Waiting
<1>11. Ahead'
  <2> SUFFICES ASSUME NEW t \in Calls, NEW q \in ahead[t] PROVE First(q, t)'
    BY <1>2 DEF Ahead
  <2>1. q \in Calls /\ First(q, t)
    BY DEF Types, Ahead
  <2>2. CASE ran[q] # "no" \/ q = Turn
    BY <1>4, <1>5, <2>1, <2>2 DEF First
  <2>3. CASE ran[q] = "no" /\ q # Turn /\ t # Turn
    <3>1. Queued(q, t) => Queued(q, t)'
      BY <1>2 DEF Queued, Entry, Before
    <3>2. Batched(q, t) => Batched(q, t)'
      BY <1>2 DEF Batched
    <3> QED
      BY <1>2, <1>4, <2>1, <2>3, <3>1, <3>2 DEF First, Numbered
  <2>4. CASE ran[q] = "no" /\ t = Turn
    <3>1. ~Queued(q, t)
      BY <1>3, <2>4 DEF Queued
    <3>2. PICK k \in 1 .. Len(batch) : batch[k] = q /\ \A l \in 1 .. Len(batch) : batch[l] = t => k < l
      BY <2>1, <2>4, <3>1 DEF First, Batched
    <3>3. k <= Len(results)
      BY <1>3, <2>4, <3>2
    <3>4. results[k] \in Outcomes
      BY <1>3, <3>3 DEF Types
    <3> QED
      BY <2>4, <3>2, <3>3, <3>4 DEF BatchIsInOrder, Outcomes
  <2> QED
    BY <2>1, <2>2, <2>3, <2>4
<1> QED
  BY <1>7, <1>8, <1>9, <1>10, <1>11

\* Every call of the batch has its result, which is what became of its turn.
LEMMA DeliverInv == ASSUME BatchInv, Deliver PROVE BatchInv'
<1> USE BatchAssumption DEF BatchInv, Deliver, CallAt
<1>1. /\ UNCHANGED <<running, queue, counter, ran, ahead>>
      /\ batch' = <<>> /\ results' = <<>> /\ loop' = "look"
  OBVIOUS
<1>2. DOMAIN batch = 1 .. Len(batch) /\ Len(results) = Len(batch)
  BY DEF Types
<1>3. ASSUME NEW r \in Calls
      PROVE  \/ call'[r] = call[r]
             \/ /\ call[r].at = "wait" /\ ran[r] \in Outcomes
                /\ \E k \in 1 .. Len(batch) : batch[k] = r
                /\ call'[r] = [call[r] EXCEPT !.at = ran[r]]
  <2>1. CASE CallAt(r, "wait") /\ \E k \in DOMAIN batch : batch[k] = r
    <3> DEFINE place == CHOOSE k \in DOMAIN batch : batch[k] = r
    <3>1. place \in 1 .. Len(batch) /\ batch[place] = r
      BY <2>1, <1>2
    <3>2. call'[r] = [call[r] EXCEPT !.at = results[place]]
      BY <2>1
    <3> HIDE DEF place
    <3>3. ran[r] = results[place] /\ results[place] \in Outcomes
      BY <1>2, <3>1 DEF BatchIsInOrder, Types
    <3> QED
      BY <2>1, <3>1, <3>2, <3>3
  <2>2. CASE ~(CallAt(r, "wait") /\ \E k \in DOMAIN batch : batch[k] = r)
    BY <2>2
  <2> QED
    BY <2>1, <2>2
<1>4. \A r \in Calls : call[r] \in [at : CallStates, priority : Nat, number : Nat]
  BY DEF Types
<1>5. ASSUME NEW r \in Calls
      PROVE  /\ call'[r].priority = call[r].priority /\ call'[r].number = call[r].number
             /\ call'[r] \in [at : CallStates, priority : Nat, number : Nat]
             /\ \/ call'[r] = call[r]
                \/ /\ call[r].at = "wait" /\ call'[r].at = ran[r] /\ ran[r] \in Outcomes
                   /\ \E k \in 1 .. Len(batch) : batch[k] = r
  <2> HIDE DEF Deliver
  <2>1. CASE call'[r] = call[r]
    BY <1>4, <2>1
  <2>2. CASE ran[r] \in Outcomes /\ call'[r] = [call[r] EXCEPT !.at = ran[r]]
    <3>1. /\ call'[r].at = ran[r] /\ call'[r].priority = call[r].priority
          /\ call'[r].number = call[r].number
          /\ call'[r] \in [at : CallStates, priority : Nat, number : Nat]
      BY <1>4, <2>2 DEF CallStates
    <3> QED
      BY <1>3, <3>1
  <2> QED
    BY <1>3, <2>1, <2>2
<1>6. Types'
  <2>1. call' \in [Calls -> [at : CallStates, priority : Nat, number : Nat]]
    <3>1. DOMAIN call' = Calls /\ call' = [r \in Calls |-> call'[r]]
      OBVIOUS
    <3> QED
      BY <1>5, <3>1
  <2> QED
    BY <1>1, <2>1 DEF Types
<1> HIDE DEF Deliver
<1>7. QueueIsWaiting'
  <2> SUFFICES ASSUME NEW e \in queue
               PROVE  /\ e = Entry(e.call)' /\ e.number < counter
                      /\ call'[e.call].at \in Waiting /\ ran[e.call] = "no"
    <3>1. Len(batch') = 0
      BY <1>1
    <3> QED
      BY <1>1, <3>1 DEF QueueIsWaiting
  <2>1. e.call \in Calls /\ e = Entry(e.call) /\ \A k \in 1 .. Len(batch) : batch[k] # e.call
    BY DEF QueueIsWaiting, Types, Entries
  <2>2. Entry(e.call)' = Entry(e.call) /\ call'[e.call] = call[e.call]
    BY <1>5, <2>1 DEF Entry
  <2> QED
    BY <2>1, <2>2 DEF QueueIsWaiting
<1>8. BatchIsInOrder'
  BY <1>1 DEF BatchIsInOrder
<1>9. NumbersBelow'
  <2> SUFFICES ASSUME NEW r \in Calls, call'[r].at \notin {"new", "count", "refused"}
               PROVE  call'[r].number < counter
    BY <1>1 DEF NumbersBelow
  <2>1. call[r].at \notin {"new", "count", "refused"}
    BY <1>5
  <2>2. call'[r].number = call[r].number
    BY <1>3, <1>4
  <2> QED
    BY <2>1, <2>2 DEF NumbersBelow
<1>10. RunsOnce' /\ NoneYet'
  <2> SUFFICES ASSUME NEW r \in Calls, call'[r].at \in {"new", "refused", "count", "put"}
               PROVE  call[r].at = call'[r].at
    BY <1>1 DEF RunsOnce, NoneYet
  <2> QED
    BY <1>5 DEF Outcomes
<1>11. ToldTheTruth'
  BY <1>1, <1>5 DEF ToldTheTruth, Outcomes
<1>12. Ahead'
  <2> SUFFICES ASSUME NEW t \in Calls, NEW q \in ahead[t] PROVE First(q, t)'
    BY <1>1 DEF Ahead
  <2>1. q \in Calls /\ First(q, t)
    BY DEF Types, Ahead
  <2>2. Batched(q, t) => ran[q] # "no"
    <3> SUFFICES ASSUME NEW k \in 1 .. Len(batch), batch[k] = q PROVE ran[q] # "no"
      BY DEF Batched
    <3>1. ran[q] = results[k] /\ results[k] \in Outcomes
      BY <1>2 DEF BatchIsInOrder, Types
    <3> QED
      BY <3>1 DEF Outcomes
  <2>3. Queued(q, t) => Queued(q, t)'
    <3>1. Entry(q)' = Entry(q) /\ Entry(t)' = Entry(t)
      BY <1>5, <2>1 DEF Entry
    <3>2. Len(batch') = 0
      BY <1>1
    <3> QED
      BY <1>1, <3>1, <3>2 DEF Queued, Before
  <2>4. Numbered(t) => Numbered(t)'
    BY <1>5 DEF Numbered, Outcomes
  <2> QED
    BY <1>1, <2>1, <2>2, <2>3, <2>4 DEF First
<1> QED
  BY <1>6, <1>7, <1>8, <1>9, <1>10, <1>11, <1>12

LEMMA BatchUnchanged == BatchInv /\ UNCHANGED processor => BatchInv'
BY DEF BatchInv, processor, Types, QueueIsWaiting, BatchIsInOrder, RunsOnce, NumbersBelow,
       NoneYet, Ahead, First, Queued, Batched, Numbered, Entry, Before, ToldTheTruth, CallAt

LEMMA BatchStep == BatchInv /\ [BatchNext]_processor => BatchInv'
BY SubmitInv, RefuseInv, CountInv, PutInv, TimeOutInv, MoveInv, GetInv, AnswerInv, DeliverInv,
   BatchUnchanged DEF BatchNext, Thread

LEMMA AheadIsServed == BatchInv => FirstComeFirstServed
BY DEF BatchInv, Ahead, First, FirstComeFirstServed

\* For any number of callers, any priorities and any batch size: who gets an answer from
\* submit gets what became of its own turn.
THEOREM AnswersAreTrue == BatchSpec => []ToldTheTruth
<1>1. BatchSpec => []BatchInv
  BY BatchInitInv, BatchStep, PTL DEF BatchSpec
<1>2. BatchInv => ToldTheTruth
  BY DEF BatchInv
<1> QED
  BY <1>1, <1>2, PTL

\* For any number of callers, any priorities and any batch size: no turn runs before one
\* that was in the queue ahead of it.
THEOREM OrderIsKept == BatchSpec => []FirstComeFirstServed
<1>1. BatchSpec => []BatchInv
  BY BatchInitInv, BatchStep, PTL DEF BatchSpec
<1> QED
  BY <1>1, AheadIsServed, PTL

\* A batch is never longer than it may be.
BatchFits == Len(batch) <= BatchSize

LEMMA FitsStep == BatchInv /\ BatchFits /\ [BatchNext]_processor => BatchFits'
<1> SUFFICES ASSUME BatchInv, BatchFits, [BatchNext]_processor PROVE BatchFits'
  OBVIOUS
<1>1. CASE Get
  <2>1. PICK e \in queue : batch' = Append(batch, e.call)
    BY <1>1 DEF Get
  <2>2. Len(batch') = Len(batch) + 1
    BY <2>1 DEF BatchInv, Types, Entries
  <2> QED
    BY <1>1, <2>2, BatchAssumption DEF Get, BatchFits, BatchInv, Types
<1>2. CASE Deliver
  BY <1>2, BatchAssumption DEF Deliver, BatchFits
<1>3. CASE UNCHANGED batch
  BY <1>3 DEF BatchFits
<1>4. Look \/ Collected \/ Answer \/ Stop => UNCHANGED batch
  BY DEF Look, Collected, Answer, Stop
<1>5. ASSUME NEW r \in Calls, NEW priority \in Priorities,
             Submit(r, priority) \/ Refuse(r) \/ Count(r) \/ Put(r) \/ TimeOut(r)
      PROVE  UNCHANGED batch
  BY <1>5 DEF Submit, Refuse, Count, Put, TimeOut, worker
<1>6. ASSUME NEW r \in Calls, Refuse(r) \/ Count(r) \/ Put(r) \/ TimeOut(r)
      PROVE  UNCHANGED batch
  BY <1>6 DEF Refuse, Count, Put, TimeOut, worker
<1>7. UNCHANGED processor => UNCHANGED batch
  BY DEF processor
<1> QED
  BY <1>1, <1>2, <1>3, <1>4, <1>5, <1>6, <1>7 DEF BatchNext, Thread

LEMMA BatchIsTyped == BatchInv /\ BatchFits => BatchTypeOK
<1> SUFFICES ASSUME BatchInv, BatchFits PROVE BatchTypeOK
  OBVIOUS
<1>1. Types
  BY DEF BatchInv
<1>2. Len(batch) \in Nat /\ DOMAIN batch = 1 .. Len(batch)
  BY <1>1 DEF Types
<1>3. \A k \in DOMAIN batch :
        /\ \A l \in DOMAIN batch : batch[k] = batch[l] => k = l
        /\ IF k <= Len(results) THEN ran[batch[k]] = results[k] ELSE ran[batch[k]] = "no"
  BY <1>2 DEF BatchInv, BatchIsInOrder
<1>4. \A e \in queue : e = Entry(e.call) /\ e.call \notin InBatch /\ ran[e.call] = "no"
  BY <1>2 DEF BatchInv, QueueIsWaiting, InBatch
<1>5. \A r \in Calls :
        /\ call[r].at \in {"new", "refused", "count", "put", "wait", "gone", "saved", "failed"}
        /\ ran[r] \in {"no", "saved", "failed"}
  BY <1>1 DEF Types, CallStates, Waiting, Outcomes
<1>6. Len(results) <= Len(batch)
  BY DEF BatchInv, BatchIsInOrder
<1>7. running \in BOOLEAN /\ loop \in {"off", "look", "collect", "process"}
  BY <1>1 DEF Types
<1> QED
  BY <1>3, <1>4, <1>5, <1>6, <1>7 DEF BatchTypeOK, BatchFits

-----------------------------------------------------------------------------
(* The requests of the API *)

LEMMA AsksStep ==
    ASSUME NEW c \in Clients, Asks(c) PROVE [LimiterNext]_limiter
<1>1. CASE mode.limits
  BY <1>1 DEF Asks, LimiterNext
<1>2. CASE ~mode.limits
  BY <1>2 DEF Asks
<1> QED
  BY <1>1, <1>2

LEMMA ChatStep ==
    ASSUME NEW c \in Clients, NEW r \in Calls, Chat(r, c)
    PROVE  [LimiterNext]_limiter /\ [BatchNext]_processor
<1>1. [LimiterNext]_limiter
  BY AsksStep DEF Chat
<1>2. [BatchNext]_processor
  <2>1. Refuse(r) => BatchNext
    BY DEF BatchNext
  <2>2. Submit(r, Interactive) => BatchNext
    BY ApiAssumption DEF BatchNext
  <2> QED
    BY <2>1, <2>2 DEF Chat
<1> QED
  BY <1>1, <1>2

LEMMA StepMaps == [Next]_vars => [LimiterNext]_limiter /\ [BatchNext]_processor
<1> SUFFICES ASSUME [Next]_vars PROVE [LimiterNext]_limiter /\ [BatchNext]_processor
  OBVIOUS
<1>1. ASSUME NEW c \in Clients, Other(c) PROVE [LimiterNext]_limiter /\ [BatchNext]_processor
  BY <1>1, AsksStep DEF Other
<1>2. ASSUME NEW r \in Calls, Caller(r) PROVE [LimiterNext]_limiter /\ [BatchNext]_processor
  BY <1>2 DEF Caller, BatchNext
<1>3. CASE Passes
  BY <1>3 DEF Passes, LimiterNext
<1>4. CASE Works \/ Stops
  BY <1>4 DEF Works, Stops, BatchNext
<1>5. CASE UNCHANGED vars
  BY <1>5 DEF vars
<1> QED
  BY ChatStep, <1>1, <1>2, <1>3, <1>4, <1>5 DEF Next

\* Whatever requests come, and whichever of the two is enabled, the middleware and the chat
\* endpoint do to the limiter and to the processor only what their specifications allow.
THEOREM ApiImplements == Spec => LimiterSpec /\ BatchSpec
<1>1. Init => LimiterInit /\ BatchInit
  BY DEF Init
<1> QED
  BY <1>1, StepMaps, PTL DEF Spec, LimiterSpec, BatchSpec

\* In every configuration, with any clients, calls, priorities and batch size, the API keeps
\* every client to its rate, tells every caller the truth and keeps the order of the queue.
THEOREM ApiIsFair == Spec => [](WithinRate /\ ToldTheTruth /\ FirstComeFirstServed)
BY ApiImplements, LimiterKeepsRate, AnswersAreTrue, OrderIsKept, PTL

\* Every state of the limiter, of the processor and of the calls that wait for it is of its
\* type: an entry stands for one call that waits for it, a batch is no longer than it may be,
\* no call is in it twice, and the results are those of its first calls, in its order.
THEOREM ApiIsTyped == Spec => []TypeOK
<1>1. BatchInit => BatchFits
  BY BatchAssumption DEF BatchInit, BatchFits
<1>2. Init => mode \in Modes
  BY DEF Init
<1>3. mode \in Modes /\ [Next]_vars => (mode \in Modes)'
  BY DEF Next, Other, Asks, Chat, Caller, Passes, Works, Stops, vars
<1>4. BatchSpec => [](BatchInv /\ BatchFits)
  BY <1>1, BatchInitInv, BatchStep, FitsStep, PTL DEF BatchSpec
<1>5. LimiterSpec => []LimiterInv
  BY LimiterInitInv, LimiterStep, PTL DEF LimiterSpec
<1>6. Spec => [](mode \in Modes)
  BY <1>2, <1>3, PTL DEF Spec
<1>7. LimiterInv /\ BatchInv /\ BatchFits /\ mode \in Modes => TypeOK
  BY BatchIsTyped DEF TypeOK, LimiterInv
<1> QED
  BY ApiImplements, <1>4, <1>5, <1>6, <1>7, PTL

=============================================================================
