-------------------------- MODULE CanaryPlanProofs --------------------------
(***************************************************************************)
(* What the replica arithmetic guarantees for every resting count, every   *)
(* requested weight and every ceiling.                                     *)
(***************************************************************************)
EXTENDS CanaryPlan, WellFoundedInduction, TLAPS

(* Rounding a quotient gives an integer, and a natural number when nothing *)
(* is negative.                                                            *)
LEMMA RoundType ==
    ASSUME NEW n \in Int, NEW d \in Nat \ {0}
    PROVE  /\ RoundHalfEven(n, d) \in Int
           /\ n >= 0 => RoundHalfEven(n, d) \in Nat
<1>1. n \div d \in Int /\ (n >= 0 => n \div d >= 0)
  OBVIOUS
<1> QED
  BY <1>1 DEF RoundHalfEven

(* _split_replicas leaves both tracks at least one replica. *)
LEMMA BothTracksServe ==
    ASSUME NEW pool \in Int, pool >= 2, NEW w \in Int
    PROVE  CanaryPart(pool, w) \in 1 .. pool - 1
<1>1. RoundHalfEven(pool * w, 100) \in Int
  BY RoundType
<1> QED
  BY <1>1 DEF CanaryPart, AtMost, AtLeast

(* The miss of a pool is a natural number. *)
LEMMA MissType ==
    ASSUME NEW pool \in Int, pool >= 2, NEW w \in Int
    PROVE  Achieved(pool, w) \in Nat /\ Miss(pool, w) \in Nat
<1>1. CanaryPart(pool, w) \in Int /\ 100 * CanaryPart(pool, w) >= 0
  BY BothTracksServe
<1>2. Achieved(pool, w) \in Nat
  BY <1>1, RoundType DEF Achieved
<1> QED
  BY <1>2 DEF Miss, Distance

(* There is always a candidate pool, and none is narrower than two. *)
LEMMA PoolsType ==
    ASSUME NEW resting \in Int, NEW maxPool \in Int
    PROVE  /\ Narrowest(resting) \in Pools(resting, maxPool)
           /\ \A p \in Pools(resting, maxPool) :
                 p \in Int /\ p >= 2 /\ p >= resting /\ p <= Widest(resting, maxPool)
BY DEF Pools, Narrowest, Widest, AtLeast

(* "Less than" on the naturals, as a well-founded set of pairs. *)
LEMMA LessIsWellFounded ==
    \E Less : /\ IsWellFoundedOn(Less, Nat)
              /\ \A i, j \in Nat : <<i, j>> \in Less <=> i < j
<1>1. \A i, j \in Nat : <<i, j>> \in OpToRel(<, Nat) <=> i < j
  BY DEF OpToRel
<1> QED
  BY <1>1, NatLessThanWellFounded, Zenon

(* A set of naturals with an element has a smallest one. *)
LEMMA LeastNatural ==
    ASSUME NEW S \in SUBSET Nat, S # {}
    PROVE  \E m \in S : \A k \in S : m <= k
<1>1. PICK Less : /\ IsWellFoundedOn(Less, Nat)
                  /\ \A i, j \in Nat : <<i, j>> \in Less <=> i < j
  BY LessIsWellFounded, Zenon
<1>2. IsWellFoundedOn(Less, Nat) /\ S \subseteq Nat
  BY <1>1, Zenon
<1>3. PICK m \in S : \A k \in S : ~ (<<k, m>> \in Less)
  BY <1>2, WFMin, Zenon
<1>4. ASSUME NEW k \in S
      PROVE  m <= k
  <2>1. ~ (<<k, m>> \in Less)
    BY <1>3
  <2>2. k \in Nat /\ m \in Nat
    BY <1>2
  <2>3. <<k, m>> \in Less <=> k < m
    BY <1>1, <2>2, Zenon
  <2> QED
    BY <2>1, <2>2, <2>3
<1> QED
  BY <1>4

(* The loop of _plan_rollout has a best pool to find. *)
LEMMA BestPoolExists ==
    ASSUME NEW resting \in Int, NEW w \in Int, NEW maxPool \in Int
    PROVE  \E p \in Pools(resting, maxPool) : IsBestPool(p, resting, w, maxPool)
<1> DEFINE P == Pools(resting, maxPool)
           Misses == {Miss(p, w) : p \in P}
<1>1. P # {} /\ P \subseteq Nat
  BY PoolsType
<1>2. \A p \in P : Miss(p, w) \in Nat
  BY PoolsType, MissType
<1>3. Misses \in SUBSET Nat /\ Misses # {}
  BY <1>1, <1>2
<1> HIDE DEF P, Misses
<1>4. PICK m \in Misses : \A k \in Misses : m <= k
  BY <1>3, LeastNatural, Zenon
<1> DEFINE Nearest == {p \in P : Miss(p, w) = m}
<1>5. Nearest \in SUBSET Nat /\ Nearest # {}
  BY <1>1, <1>4 DEF Misses
<1> HIDE DEF Nearest
<1>6. PICK p \in Nearest : \A q \in Nearest : p <= q
  BY <1>5, LeastNatural, Zenon
<1>7. p \in P /\ Miss(p, w) = m
  BY <1>6 DEF Nearest
<1>8. ASSUME NEW q \in P
      PROVE  Miss(p, w) < Miss(q, w) \/ (Miss(p, w) = Miss(q, w) /\ p <= q)
  <2>1. m \in Nat /\ Miss(q, w) \in Nat /\ m <= Miss(q, w)
    BY <1>2, <1>3, <1>4 DEF Misses
  <2>2. CASE Miss(q, w) = m
    BY <2>2, <1>6, <1>7 DEF Nearest
  <2>3. CASE Miss(q, w) # m
    BY <2>1, <2>3, <1>7
  <2> QED
    BY <2>2, <2>3
<1> QED
  BY <1>7, <1>8 DEF IsBestPool, P

(* A plan, whatever it is asked for, keeps both tracks serving, holds at   *)
(* least the resting capacity and stays within the ceiling (or within the  *)
(* resting count, where that is the larger).                               *)
THEOREM PlanIsSound ==
    ASSUME NEW resting \in Int, NEW weight \in Int, NEW maxPool \in Int
    PROVE  LET plan == PlanRollout(resting, weight, maxPool) IN
           /\ plan.canary \in Nat /\ plan.canary >= 1
           /\ plan.stable \in Nat /\ plan.stable >= 1
           /\ plan.weight \in Nat
           /\ resting <= Pool(plan)
           /\ Pool(plan) <= Widest(resting, maxPool)
<1> DEFINE w == Requested(weight)
           p == BestPool(resting, w, maxPool)
<1>1. w \in Int
  BY DEF Requested, AtLeast, AtMost
<1>2. p \in Pools(resting, maxPool)
  BY <1>1, BestPoolExists DEF BestPool
<1>3. p \in Int /\ p >= 2 /\ resting <= p /\ p <= Widest(resting, maxPool)
  BY <1>2, PoolsType
<1> HIDE DEF w, p
<1>4. CanaryPart(p, w) \in 1 .. p - 1 /\ Achieved(p, w) \in Nat
  BY <1>1, <1>3, BothTracksServe, MissType
<1>5. PlanRollout(resting, weight, maxPool) =
        [canary |-> CanaryPart(p, w), stable |-> p - CanaryPart(p, w), weight |-> Achieved(p, w)]
  BY DEF PlanRollout, p, w
<1> QED
  BY <1>3, <1>4, <1>5 DEF Pool

(* A best pool is unique: the plan is a function of its arguments. *)
LEMMA BestPoolUnique ==
    ASSUME NEW resting \in Int, NEW w \in Int, NEW maxPool \in Int,
           NEW p, IsBestPool(p, resting, w, maxPool)
    PROVE  BestPool(resting, w, maxPool) = p
<1> DEFINE q == BestPool(resting, w, maxPool)
<1>1. IsBestPool(q, resting, w, maxPool)
  BY BestPoolExists DEF BestPool
<1>2. p \in Pools(resting, maxPool) /\ q \in Pools(resting, maxPool)
  BY <1>1 DEF IsBestPool
<1>3. p \in Int /\ q \in Int /\ Miss(p, w) \in Nat /\ Miss(q, w) \in Nat
  BY <1>2, PoolsType, MissType
<1> QED
  BY <1>1, <1>2, <1>3 DEF IsBestPool

(* The count a rollout restores stable to is always one or more. *)
LEMMA RestoresAtLeastOne ==
    /\ \A a, b, c \in Int : FirstCount(a, b, c) \in Nat /\ FirstCount(a, b, c) >= 1
    /\ \A live \in Int : RestingFromLive(live) \in Nat /\ RestingFromLive(live) >= 1
BY DEF FirstCount, RestingFromLive, DefaultResting

-----------------------------------------------------------------------------
(* How near a plan comes to the weight *)

(* What Python's round returns: no integer is nearer, and a tie is even.   *)
LEMMA RoundIsNearest ==
    ASSUME NEW n \in Int, NEW d \in Nat \ {0}
    PROVE  LET r == RoundHalfEven(n, d) IN
           /\ r \in Int
           /\ 2 * (n - d * r) <= d
           /\ 2 * (d * r - n) <= d
           /\ 2 * (n - d * r) = d \/ 2 * (d * r - n) = d => r % 2 = 0
<1> DEFINE q == n \div d
           t == n % d
           r == RoundHalfEven(n, d)
<1>1. q \in Int /\ t \in Int /\ 0 <= t /\ t < d /\ n = d * q + t
  OBVIOUS
<1>2. r = IF 2 * t < d THEN q ELSE IF 2 * t > d THEN q + 1 ELSE q + (q % 2)
  BY DEF RoundHalfEven
<1> HIDE DEF q, t, r
<1>3. d * (q + 1) = d * q + d
  BY <1>1
<1>4. CASE 2 * t < d
  BY <1>1, <1>2, <1>4 DEF r
<1>5. CASE 2 * t > d
  BY <1>1, <1>2, <1>3, <1>5 DEF r
<1>6. CASE 2 * t = d
  <2>1. CASE q % 2 = 0
    BY <1>1, <1>2, <1>6, <2>1 DEF r
  <2>2. CASE q % 2 = 1
    <3>1. (q + 1) % 2 = 0
      BY <1>1, <2>2
    <3> QED
      BY <1>1, <1>2, <1>3, <1>6, <2>2, <3>1 DEF r
  <2> QED
    BY <1>1, <2>1, <2>2
<1> QED
  BY <1>1, <1>4, <1>5, <1>6

(* The nearer a quotient is to an integer, the nearer it is rounded to it.  *)
LEMMA RoundKeepsNearer ==
    ASSUME NEW a \in Int, NEW b \in Int, NEW w \in Int, NEW d \in Nat \ {0},
           Distance(a, d * w) <= Distance(b, d * w)
    PROVE  Distance(RoundHalfEven(a, d), w) <= Distance(RoundHalfEven(b, d), w)
<1> DEFINE m == RoundHalfEven(a, d)
           l == RoundHalfEven(b, d)
           x == Distance(m, w)
           y == Distance(l, w)
<1>1. /\ m \in Int /\ 2 * (a - d * m) <= d /\ 2 * (d * m - a) <= d
      /\ 2 * (a - d * m) = d \/ 2 * (d * m - a) = d => m % 2 = 0
  BY RoundIsNearest
<1>2. /\ l \in Int /\ 2 * (b - d * l) <= d /\ 2 * (d * l - b) <= d
      /\ 2 * (b - d * l) = d \/ 2 * (d * l - b) = d => l % 2 = 0
  BY RoundIsNearest
<1> HIDE DEF m, l
<1>3. x \in Nat /\ y \in Nat /\ (x = m - w \/ x = w - m) /\ (y = l - w \/ y = w - l)
  BY <1>1, <1>2 DEF Distance
<1>4. SUFFICES ASSUME x >= y + 1 PROVE FALSE
  BY <1>3 DEF m, l
<1> DEFINE dm == d * m
           dl == d * l
           dw == d * w
           dx == d * x
           dy == d * y
<1>5. /\ dm \in Int /\ dl \in Int /\ dw \in Int /\ dx \in Int /\ dy \in Int
      /\ dx = dm - dw \/ dx = dw - dm
      /\ dy = dl - dw \/ dy = dw - dl
  BY <1>1, <1>2, <1>3
<1>6. dx >= dy + d /\ (dx = dy + d => x = y + 1)
  <2>1. d * (x - y) = dx - dy
    BY <1>3
  <2>2. d * (x - y) >= d
    BY <1>3, <1>4
  <2>3. x - y >= 2 => d * (x - y) >= d * 2
    BY <1>3
  <2>4. d * (x - y) \in Int /\ d > 0 /\ x - y >= 1
    BY <1>3, <1>4
  <2> HIDE DEF x, y, dx, dy
  <2>5. d * (x - y) = d => x - y = 1
    BY <1>3, <2>3, <2>4
  <2> QED
    BY <1>3, <1>5, <2>1, <2>2, <2>5
<1>8. dx >= 0 /\ dy >= 0
  BY <1>3
<1> HIDE DEF x, y
<1>7. /\ 2 * (a - dm) <= d /\ 2 * (dm - a) <= d /\ 2 * (b - dl) <= d /\ 2 * (dl - b) <= d
      /\ 2 * (a - dm) = d \/ 2 * (dm - a) = d => m % 2 = 0
      /\ 2 * (b - dl) = d \/ 2 * (dl - b) = d => l % 2 = 0
  BY <1>1, <1>2
<1>9. Distance(a, dw) <= Distance(b, dw)
  OBVIOUS
<1> HIDE DEF dm, dl, dw, dx, dy
<1>10. /\ dx = dy + d
       /\ 2 * (a - dm) = d \/ 2 * (dm - a) = d
       /\ 2 * (b - dl) = d \/ 2 * (dl - b) = d
  BY <1>5, <1>6, <1>7, <1>8, <1>9 DEF Distance
<1>11. x = y + 1 /\ m % 2 = 0 /\ l % 2 = 0
  BY <1>6, <1>7, <1>10
<1> QED
  BY <1>1, <1>2, <1>3, <1>11

(* _split_replicas picks the split nearest to the weight.                  *)
LEMMA PartIsNearest ==
    ASSUME NEW pool \in Int, pool >= 2, NEW w \in Int, NEW k \in 1 .. pool - 1
    PROVE  Distance(100 * CanaryPart(pool, w), pool * w) <= Distance(100 * k, pool * w)
<1> DEFINE x == pool * w
           r == RoundHalfEven(x, 100)
<1>1. x \in Int
  OBVIOUS
<1> HIDE DEF x
<1>2. r \in Int /\ 2 * (x - 100 * r) <= 100 /\ 2 * (100 * r - x) <= 100
  BY <1>1, RoundIsNearest
<1> HIDE DEF r
<1>3. CanaryPart(pool, w) = AtMost(pool - 1, AtLeast(1, r))
  BY DEF CanaryPart, r, x
<1>4. Distance(100 * AtMost(pool - 1, AtLeast(1, r)), x) <= Distance(100 * k, x)
  BY <1>1, <1>2 DEF AtMost, AtLeast, Distance
<1> QED
  BY <1>3, <1>4 DEF x

(* No split of a pool serves a share nearer to the weight.                 *)
LEMMA MissIsSmallest ==
    ASSUME NEW pool \in Int, pool >= 2, NEW w \in Int, NEW k \in 1 .. pool - 1
    PROVE  Miss(pool, w) <= Distance(RoundHalfEven(100 * k, pool), w)
<1>1. CanaryPart(pool, w) \in Int
  BY BothTracksServe
<1>2. Distance(100 * CanaryPart(pool, w), pool * w) <= Distance(100 * k, pool * w)
  BY PartIsNearest
<1>3. 100 * CanaryPart(pool, w) \in Int /\ 100 * k \in Int /\ pool \in Nat \ {0}
  BY <1>1
<1>4. Distance(RoundHalfEven(100 * CanaryPart(pool, w), pool), w)
        <= Distance(RoundHalfEven(100 * k, pool), w)
  BY <1>2, <1>3, RoundKeepsNearer
<1> QED
  BY <1>4 DEF Miss, Achieved

(* A larger quotient is not rounded to less.                               *)
LEMMA RoundIsMonotone ==
    ASSUME NEW n \in Int, NEW d \in Nat \ {0}, NEW m \in Int, NEW e \in Nat \ {0},
           n * e <= m * d
    PROVE  RoundHalfEven(n, d) <= RoundHalfEven(m, e)
<1> DEFINE a == RoundHalfEven(n, d)
           b == RoundHalfEven(m, e)
<1>1. /\ a \in Int /\ 2 * (n - d * a) <= d /\ 2 * (d * a - n) <= d
      /\ 2 * (n - d * a) = d \/ 2 * (d * a - n) = d => a % 2 = 0
  BY RoundIsNearest
<1>2. /\ b \in Int /\ 2 * (m - e * b) <= e /\ 2 * (e * b - m) <= e
      /\ 2 * (m - e * b) = e \/ 2 * (e * b - m) = e => b % 2 = 0
  BY RoundIsNearest
<1> HIDE DEF a, b
<1>3. SUFFICES ASSUME a >= b + 1 PROVE FALSE
  BY <1>1, <1>2 DEF a, b
<1>4. d * (2 * a - 1) <= 2 * n /\ 2 * m <= e * (2 * b + 1)
  BY <1>1, <1>2
<1>5. e * (d * (2 * a - 1)) <= e * (2 * n)
  BY <1>1, <1>4
<1>6. d * (2 * m) <= d * (e * (2 * b + 1))
  BY <1>2, <1>4
<1>7. e * (2 * n) <= d * (2 * m)
  OBVIOUS
<1> DEFINE f == d * e
<1>8. f \in Nat /\ f > 0
  OBVIOUS
<1>9. e * (d * (2 * a - 1)) = f * (2 * a - 1) /\ d * (e * (2 * b + 1)) = f * (2 * b + 1)
  BY <1>1, <1>2
<1>10. f * (2 * a - 1) <= f * (2 * b + 1)
  BY <1>1, <1>2, <1>5, <1>6, <1>7, <1>9
<1>11. a = b + 1
  <2>1. f * (2 * a - 1) - f * (2 * b + 1) = f * (2 * (a - b - 1))
    BY <1>1, <1>2, <1>8
  <2>2. a - b - 1 >= 1 => f * (2 * (a - b - 1)) > 0
    BY <1>1, <1>2, <1>8
  <2> HIDE DEF f
  <2>3. f * (2 * a - 1) \in Int /\ f * (2 * b + 1) \in Int
    BY <1>1, <1>2, <1>8
  <2> QED
    BY <1>1, <1>2, <1>3, <1>10, <2>1, <2>2, <2>3
<1>12. e * (2 * n) = e * (d * (2 * a - 1)) /\ d * (2 * m) = d * (e * (2 * b + 1))
  <2>1. 2 * a - 1 = 2 * b + 1
    BY <1>1, <1>2, <1>11
  <2>2. /\ e * (2 * n) \in Int /\ d * (2 * m) \in Int /\ f * (2 * a - 1) \in Int
        /\ f * (2 * a - 1) = f * (2 * b + 1)
    BY <1>1, <1>8, <2>1
  <2> QED
    BY <1>5, <1>6, <1>7, <1>9, <2>2
<1>13. 2 * n = d * (2 * a - 1) /\ 2 * m = e * (2 * b + 1)
  <2>1. ASSUME NEW g \in Nat \ {0}, NEW i \in Int, NEW j \in Int, g * i = g * j
        PROVE  i = j
    <3>1. g * (i - j) = 0
      BY <2>1
    <3> QED
      BY <3>1
  <2>2. d * (2 * a - 1) \in Int /\ e * (2 * b + 1) \in Int
    BY <1>1, <1>2
  <2> QED
    BY <1>12, <2>1, <2>2
<1>14. a % 2 = 0 /\ b % 2 = 0
  <2>1. d * (2 * a - 1) = 2 * (d * a) - d /\ e * (2 * b + 1) = 2 * (e * b) + e
    BY <1>1, <1>2
  <2> QED
    BY <1>1, <1>2, <1>13, <2>1
<1> QED
  BY <1>1, <1>2, <1>11, <1>14

(* What a plan is: the split of the smallest pool that comes closest.      *)
LEMMA PlanFacts ==
    ASSUME NEW resting \in Int, NEW weight \in Int, NEW maxPool \in Int
    PROVE  LET plan == PlanRollout(resting, weight, maxPool)
               p == Pool(plan)
               w == Requested(weight)
           IN  /\ w \in 1 .. 99
               /\ p \in Int /\ p >= 2 /\ p \in Pools(resting, maxPool)
               /\ IsBestPool(p, resting, w, maxPool)
               /\ plan.canary = CanaryPart(p, w)
               /\ plan.canary \in 1 .. p - 1 /\ plan.stable = p - plan.canary
               /\ plan.weight = Achieved(p, w)
               /\ plan.weight = RoundHalfEven(100 * plan.canary, p)
               /\ plan.weight \in Nat
<1> DEFINE w == Requested(weight)
           p == BestPool(resting, w, maxPool)
           plan == PlanRollout(resting, weight, maxPool)
<1>1. w \in 1 .. 99
  BY DEF Requested, AtLeast, AtMost
<1>2. IsBestPool(p, resting, w, maxPool) /\ p \in Pools(resting, maxPool)
  <2> HIDE DEF w
  <2>1. w \in Int
    BY <1>1
  <2> QED
    BY <2>1, BestPoolExists DEF BestPool
<1>3. p \in Int /\ p >= 2
  BY <1>2, PoolsType
<1>4. plan = [canary |-> CanaryPart(p, w), stable |-> p - CanaryPart(p, w),
              weight |-> Achieved(p, w)]
  BY DEF PlanRollout
<1> HIDE DEF w, p, plan
<1>5. CanaryPart(p, w) \in 1 .. p - 1 /\ Achieved(p, w) \in Nat
  BY <1>1, <1>3, BothTracksServe, MissType
<1>6. Pool(plan) = p
  BY <1>3, <1>4, <1>5 DEF Pool
<1> QED
  BY <1>1, <1>2, <1>3, <1>4, <1>5, <1>6 DEF Achieved, plan, w

(* No split of any pool within the bounds comes closer to the weight than  *)
(* the plan, and none in a smaller pool comes as close.                    *)
LEMMA PlanIsNearest ==
    ASSUME NEW resting \in Int, NEW weight \in Int, NEW maxPool \in Int,
           NEW q \in Pools(resting, maxPool), NEW k \in 1 .. q - 1
    PROVE  LET plan == PlanRollout(resting, weight, maxPool)
               share == RoundHalfEven(100 * k, q)
               w == Requested(weight)
           IN  /\ Distance(plan.weight, w) <= Distance(share, w)
               /\ Distance(plan.weight, w) = Distance(share, w) => Pool(plan) <= q
<1> DEFINE plan == PlanRollout(resting, weight, maxPool)
           p == Pool(plan)
           w == Requested(weight)
           share == RoundHalfEven(100 * k, q)
<1>1. /\ w \in 1 .. 99 /\ p \in Int /\ p >= 2 /\ IsBestPool(p, resting, w, maxPool)
      /\ plan.weight = Achieved(p, w)
  BY PlanFacts
<1>2. q \in Int /\ q >= 2 /\ 100 * k \in Int /\ q \in Nat \ {0}
  BY PoolsType
<1> HIDE DEF plan, p, w
<1>3. Miss(q, w) <= Distance(share, w)
  <2>1. w \in Int
    BY <1>1
  <2> QED
    BY <1>2, <2>1, MissIsSmallest
<1>4. Miss(p, w) \in Nat /\ Miss(q, w) \in Nat
  BY <1>1, <1>2, MissType
<1>5. share \in Int
  BY <1>2, RoundType
<1>6. Distance(share, w) \in Nat
  BY <1>1, <1>5 DEF Distance
<1>7. Miss(p, w) < Miss(q, w) \/ (Miss(p, w) = Miss(q, w) /\ p <= q)
  BY <1>1 DEF IsBestPool
<1>8. Distance(plan.weight, w) = Miss(p, w)
  BY <1>1 DEF Miss
<1> HIDE DEF share
<1>9. /\ Distance(plan.weight, w) <= Distance(share, w)
      /\ Distance(plan.weight, w) = Distance(share, w) => p <= q
  BY <1>1, <1>2, <1>3, <1>4, <1>6, <1>7, <1>8
<1> QED
  BY <1>9 DEF plan, p, w, share

(* A plan serves at least what any split serves that does not go over the   *)
(* weight.                                                                 *)
LEMMA PlanServesMore ==
    ASSUME NEW resting \in Int, NEW weight \in Int, NEW maxPool \in Int,
           NEW q \in Pools(resting, maxPool), NEW k \in 1 .. q - 1,
           RoundHalfEven(100 * k, q) <= Requested(weight)
    PROVE  RoundHalfEven(100 * k, q) <= PlanRollout(resting, weight, maxPool).weight
<1> DEFINE share == RoundHalfEven(100 * k, q)
           got == PlanRollout(resting, weight, maxPool).weight
           w == Requested(weight)
<1>1. q \in Nat \ {0} /\ 100 * k \in Int
  BY PoolsType
<1>2. share \in Int /\ got \in Nat /\ w \in Int
  <2>1. share \in Int
    BY <1>1, RoundType
  <2>2. got \in Nat /\ w \in 1 .. 99
    BY PlanFacts
  <2> QED
    BY <2>1, <2>2
<1>3. Distance(got, w) <= Distance(share, w)
  BY PlanIsNearest
<1>4. share <= w
  OBVIOUS
<1> HIDE DEF share, got, w
<1>5. share <= got
  BY <1>2, <1>3, <1>4 DEF Distance
<1> QED
  BY <1>5 DEF share, got

(* When the next plan takes more stable replicas, it takes no fewer canary *)
(* replicas: of two plans of one rollout, the one for more weight never    *)
(* moves capacity from the canary to stable.                               *)
LEMMA CanaryGrowsWithStable ==
    ASSUME NEW resting \in Int, NEW maxPool \in Int, NEW weight \in Int, NEW more \in Int,
           PlanRollout(resting, weight, maxPool).weight < Requested(more),
           PlanRollout(resting, more, maxPool).stable
             > PlanRollout(resting, weight, maxPool).stable
    PROVE  PlanRollout(resting, more, maxPool).canary
             >= PlanRollout(resting, weight, maxPool).canary
<1> DEFINE now  == PlanRollout(resting, weight, maxPool)
           next == PlanRollout(resting, more, maxPool)
           p == Pool(now)
           q == Pool(next)
           v == Requested(weight)
           w == Requested(more)
<1>1. /\ v \in 1 .. 99 /\ p \in Int /\ p >= 2 /\ p \in Pools(resting, maxPool)
      /\ now.canary \in 1 .. p - 1 /\ now.stable = p - now.canary
      /\ now.weight = RoundHalfEven(100 * now.canary, p) /\ now.weight \in Nat
  BY PlanFacts
<1>2. /\ w \in 1 .. 99 /\ q \in Int /\ q >= 2 /\ q \in Pools(resting, maxPool)
      /\ next.canary \in 1 .. q - 1 /\ next.stable = q - next.canary
      /\ next.canary = CanaryPart(q, w)
      /\ next.weight = RoundHalfEven(100 * next.canary, q) /\ next.weight \in Nat
  BY PlanFacts
<1>3. /\ Distance(next.weight, w) <= Distance(now.weight, w)
      /\ Distance(next.weight, w) = Distance(now.weight, w) => q <= p
  BY <1>1, PlanIsNearest
<1>4. /\ Distance(now.weight, v) <= Distance(next.weight, v)
      /\ Distance(now.weight, v) = Distance(next.weight, v) => p <= q
  BY <1>2, PlanIsNearest
<1>5. now.weight < w /\ next.stable > now.stable
  OBVIOUS
<1> HIDE DEF now, next, p, q, v, w
<1>6. SUFFICES ASSUME next.canary < now.canary PROVE FALSE
  BY <1>1, <1>2 DEF now, next
<1> DEFINE c == next.canary
           s == next.stable
           d == now.canary
           t == now.stable
<1>7. c \in Nat /\ s \in Nat /\ d \in Nat /\ t \in Nat /\ q = c + s /\ p = d + t
  BY <1>1, <1>2
<1>8. next.weight <= now.weight
  <2> HIDE DEF c, s, d, t
  <2>1. c < d /\ s > t
    BY <1>5, <1>6 DEF c, s, d, t
  <2>2. c * t <= d * t /\ d * t <= d * s
    BY <1>7, <2>1
  <2>3. c * (d + t) = c * d + c * t /\ d * (c + s) = c * d + d * s
    BY <1>7
  <2>4. c * (d + t) <= d * (c + s)
    BY <1>7, <2>2, <2>3
  <2>5. (100 * c) * p <= (100 * d) * q
    BY <1>7, <2>4
  <2>6. 100 * c \in Int /\ 100 * d \in Int /\ p \in Nat \ {0} /\ q \in Nat \ {0}
    BY <1>1, <1>2, <1>7
  <2>7. RoundHalfEven(100 * c, q) <= RoundHalfEven(100 * d, p)
    BY <2>5, <2>6, RoundIsMonotone
  <2> QED
    BY <1>1, <1>2, <2>7 DEF c, d
<1>9. next.weight = now.weight
  BY <1>1, <1>2, <1>3, <1>5, <1>8 DEF Distance
<1>10. p = q
  BY <1>1, <1>2, <1>3, <1>4, <1>9
<1>11. Distance(100 * c, q * w) <= Distance(100 * d, q * w)
  <2>1. d \in 1 .. q - 1 /\ c = CanaryPart(q, w) /\ w \in Int
    BY <1>1, <1>2, <1>10
  <2> QED
    BY <1>2, <2>1, PartIsNearest
<1>12. 2 * (100 * d - p * now.weight) <= p
  <2>1. 100 * d \in Int /\ p \in Nat \ {0} /\ now.weight = RoundHalfEven(100 * d, p)
    BY <1>1, <1>7
  <2> HIDE DEF d
  <2>2. 2 * (100 * d - p * RoundHalfEven(100 * d, p)) <= p
    BY <2>1, RoundIsNearest
  <2> QED
    BY <2>1, <2>2
<1>13. p * now.weight <= p * w - p
  <2>1. ASSUME NEW i \in Int, NEW j \in Int, i < j
        PROVE  p * i <= p * j - p
    <3>1. p * (j - i) >= p
      BY <1>1, <2>1
    <3> QED
      BY <1>1, <3>1
  <2>2. now.weight \in Int /\ w \in Int
    BY <1>1, <1>2
  <2> QED
    BY <1>5, <2>1, <2>2
<1>14. p * w \in Int /\ p * now.weight \in Int /\ q * w = p * w
  BY <1>1, <1>2, <1>10
<1> HIDE DEF c, d
<1>15. 100 * d < p * w
  BY <1>1, <1>7, <1>12, <1>13, <1>14
<1>16. c < d
  BY <1>6 DEF c, d
<1> QED
  BY <1>7, <1>11, <1>14, <1>15, <1>16 DEF Distance

(* A plan leaves stable a share of the requests that is not rounded away.   *)
LEMMA WeightIsAShare ==
    ASSUME NEW resting \in Int, NEW weight \in Int, NEW maxPool \in Int
    PROVE  PlanRollout(resting, weight, maxPool).weight \in 0 .. 99
<1> DEFINE plan == PlanRollout(resting, weight, maxPool)
           p == Pool(plan)
           w == Requested(weight)
           c == plan.canary
           x == p * w
           y == p * plan.weight
<1>1. /\ w \in 1 .. 99 /\ p \in Int /\ p >= 2 /\ c = CanaryPart(p, w) /\ c \in 1 .. p - 1
      /\ plan.weight = RoundHalfEven(100 * c, p) /\ plan.weight \in Nat
  BY PlanFacts
<1> HIDE DEF plan, p, w, c
<1>2. SUFFICES ASSUME plan.weight >= 100 PROVE FALSE
  BY <1>1 DEF plan
<1>3. 2 * (y - 100 * c) <= p
  <2>1. 100 * c \in Int /\ p \in Nat \ {0}
    BY <1>1
  <2> QED
    BY <1>1, <2>1, RoundIsNearest
<1>4. y >= 100 * p /\ y \in Int
  BY <1>1, <1>2
<1>5. x <= 99 * p /\ x \in Int
  BY <1>1
<1>6. p >= 200 /\ c - 1 \in 1 .. p - 1
  BY <1>1, <1>3, <1>4
<1>7. Distance(100 * c, x) <= Distance(100 * (c - 1), x)
  <2>1. w \in Int
    BY <1>1
  <2> QED
    BY <1>1, <1>6, <2>1, PartIsNearest
<1> HIDE DEF x, y
<1> QED
  BY <1>1, <1>3, <1>4, <1>5, <1>6, <1>7 DEF Distance

(* A step that the widest pool can express is never rounded away.           *)
LEMMA StepMakesProgress ==
    ASSUME NEW resting \in Int, NEW maxPool \in Int, NEW by \in Int, by >= 1,
           NEW w \in by .. 99, by * Widest(resting, maxPool) >= 100
    PROVE  PlanRollout(resting, w, maxPool).weight > w - by
<1> DEFINE wide == Widest(resting, maxPool)
           q == RoundHalfEven(wide * w, 100)
           k == IF q <= wide - 1 THEN q ELSE wide - 1
           m == RoundHalfEven(100 * k, wide)
           got == PlanRollout(resting, w, maxPool).weight
           bw == by * wide
           ww == wide * w
           mw == wide * m
<1>1. /\ wide \in Int /\ wide >= 2 /\ wide \in Pools(resting, maxPool)
      /\ Requested(w) = w /\ w \in 1 .. 99
  BY DEF Pools, Widest, Narrowest, AtLeast, AtMost, Requested
<1>2. bw >= 100 /\ bw \in Int
  BY <1>1
<1> HIDE DEF wide
<1>3. ww >= bw /\ ww \in Int /\ ww <= 99 * wide
  BY <1>1
<1>4. q \in Int /\ 2 * (ww - 100 * q) <= 100 /\ 2 * (100 * q - ww) <= 100
  BY <1>3, RoundIsNearest
<1> HIDE DEF q, ww, bw
<1>5. q >= 1 /\ k \in 1 .. wide - 1
  BY <1>1, <1>2, <1>3, <1>4
<1>6. /\ m \in Int /\ mw \in Int /\ 2 * (100 * k - mw) <= wide /\ 2 * (mw - 100 * k) <= wide
  <2>1. 100 * k \in Int /\ wide \in Nat \ {0}
    BY <1>1, <1>5
  <2> HIDE DEF k
  <2>2. /\ m \in Int
        /\ 2 * (100 * k - wide * m) <= wide /\ 2 * (wide * m - 100 * k) <= wide
    BY <2>1, RoundIsNearest
  <2> HIDE DEF m
  <2> QED
    BY <2>1, <2>2
<1>7. Distance(got, w) <= Distance(m, w) /\ got \in Nat
  <2> HIDE DEF k
  <2>1. Distance(got, Requested(w)) <= Distance(m, Requested(w))
    BY <1>1, <1>5, PlanIsNearest
  <2> QED
    BY <1>1, <2>1, PlanFacts
<1> HIDE DEF got, k, m
<1>8. ASSUME NEW i \in Int, NEW j \in Int, i <= j
      PROVE  wide * i <= wide * j
  BY <1>1, <1>8
<1>9. m - w < by /\ w - m < by
  <2>1. wide * (w + by) = ww + bw /\ wide * (w - by) = ww - bw
    BY <1>1 DEF ww, bw
  <2>2. m >= w + by => mw >= ww + bw
    BY <1>1, <1>6, <1>8, <2>1
  <2>3. m <= w - by => mw <= ww - bw
    BY <1>1, <1>6, <1>8, <2>1
  <2> HIDE DEF mw
  <2>4. CASE q <= wide - 1
    <3>1. k = q
      BY <2>4 DEF k
    <3>2. by = 1 => bw = wide
      BY <1>1 DEF bw
    <3>3. by >= 2 => bw >= 2 * wide
      BY <1>1, <1>8 DEF bw
    <3>4. by = 1 /\ wide = 100 => ww = 100 * w
      BY DEF ww
    <3>5. CASE by = 1 /\ wide = 100
      <4>1. q = w /\ mw = 100 * m
        BY <1>1, <1>4, <3>4, <3>5 DEF mw
      <4> QED
        BY <1>1, <1>6, <3>1, <3>5, <4>1
    <3>6. CASE by = 1 /\ wide # 100
      <4>1. bw = wide /\ wide > 100
        BY <1>1, <1>2, <3>2, <3>6
      <4> QED
        BY <1>1, <1>2, <1>3, <1>4, <1>6, <2>2, <2>3, <3>1, <4>1
    <3>7. CASE by # 1
      <4>1. bw >= 2 * wide
        BY <1>1, <3>3, <3>7
      <4> QED
        BY <1>1, <1>2, <1>3, <1>4, <1>6, <2>2, <2>3, <3>1, <4>1
    <3> QED
      BY <3>5, <3>6, <3>7
  <2>5. CASE q >= wide
    <3>1. k = wide - 1
      BY <1>1, <1>4, <2>5 DEF k
    <3>2. wide * (100 - w) = 100 * wide - ww
      BY <1>1 DEF ww
    <3>3. wide * (100 - w) >= wide
      BY <1>1
    <3> QED
      BY <1>1, <1>2, <1>3, <1>4, <1>6, <2>2, <2>3, <2>5, <3>1, <3>2, <3>3
  <2> QED
    BY <1>1, <1>4, <2>4, <2>5
<1>10. got > w - by
  BY <1>1, <1>6, <1>7, <1>9 DEF Distance
<1> QED
  BY <1>10 DEF got

=============================================================================
