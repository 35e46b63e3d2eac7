------------------------- MODULE TokenBucketProofs --------------------------
(***************************************************************************)
(* For every capacity, rate, set of sizes and set of threads: the bucket   *)
(* stays within its bounds, keeps its rate, and lets nobody sleep too      *)
(* little.  Each step is taken apart into the numbers it changes; the      *)
(* lemmas say of these numbers what the invariant needs.                   *)
(***************************************************************************)
EXTENDS TokenBucket, TLAPS

\* What the meter has left covers all that is there, and all that the time
\* since the timestamp can still bring.
Covered == credit >= tokens + accrued

\* Who holds the lock is about to take at least what it asks for; it is alone.
Asked == \A u \in Users : pc[u] = "holds" => take >= want[u]

OneHolds == \A u, v \in Users : pc[u] = "holds" /\ pc[v] = "holds" => u = v

IInv == TypeOK /\ Covered /\ OneHolds /\ Asked /\ SleepIsEnough

\* The reading of the tokens, of which Refill is one: it stays within bounds,
\* brings nothing but what had accrued, and loses nothing a sleeper counts on.
LEMMA RefillBounds ==
    ASSUME BucketAssumption, tokens \in 0 .. capacity, accrued \in 0 .. capacity,
           NEW after, Refill(after)
    PROVE  /\ after \in 0 .. capacity /\ accrued' \in 0 .. capacity
           /\ after + accrued' <= tokens + accrued
           /\ Least(capacity, after + accrued') = Least(capacity, tokens + accrued)
    BY DEF BucketAssumption, Refill, Least

\* A tick brings sleepers as near to their blocks as it takes off their time.
LEMMA TickArithmetic ==
    ASSUME NEW c \in Nat, NEW f \in Nat, NEW t \in 0 .. c, NEW a \in 0 .. c,
           NEW m \in Int, m >= t + a
    PROVE  /\ Least(c, a + f) \in 0 .. c
           /\ Least(2 * c, m + f) \in Int
           /\ Least(2 * c, m + f) >= t + Least(c, a + f)
           /\ \A w \in 0 .. c, l \in Nat :
                w <= Least(c, t + a) + l
                    => w <= Least(c, t + Least(c, a + f)) + Most(0, l - f)
    BY DEF Least, Most

\* The blocks asked for are numbers of tokens.
LEMMA Wanted ==
    ASSUME BucketAssumption, IInv, NEW u \in Users PROVE want[u] \in Nat
<1>1. want[u] \in Sizes \cup {0}
  BY DEF IInv, TypeOK
<1>2. \A n \in Sizes : n \in Nat
  BY DEF BucketAssumption
<1>3. \A n \in Sizes \cup {0} : n \in Nat
  BY <1>2
<1> QED
  BY <1>1, <1>3, Zenon

\* What is granted, d, is taken from what the meter covers.
LEMMA Taken ==
    ASSUME NEW m \in Int, NEW t \in Int, NEW a \in Int, NEW t1 \in Int, NEW a1 \in Int,
           NEW d \in Int, m >= t + a, t1 + a1 <= t + a
    PROVE  m - d >= (t1 - d) + a1
OBVIOUS

\* What is not granted stays covered.
LEMMA Kept ==
    ASSUME NEW m \in Int, NEW t \in Int, NEW a \in Int, NEW t1 \in Int, NEW a1 \in Int,
           m >= t + a, t1 + a1 <= t + a
    PROVE  m >= t1 + a1
OBVIOUS

\* What is missing makes up, with what is there, for what is asked for.
LEMMA Missing ==
    ASSUME NEW c \in Nat, NEW h \in 0 .. c, NEW a \in 0 .. c, NEW w \in Nat,
           NEW n \in Nat, w <= n, ~(n <= h)
    PROVE  n - h \in Nat /\ w <= Least(c, h + a) + (n - h)
<1>1. h \in Int /\ a \in Int /\ h <= c /\ h <= h + a
  OBVIOUS
<1>2. \A l \in Int : l >= h => w <= l + (n - h)
  OBVIOUS
<1>3. n - h \in Nat
  OBVIOUS
<1>4. Least(c, h + a) \in Int /\ Least(c, h + a) >= h
  BY <1>1 DEF Least
<1> QED
  BY <1>2, <1>3, <1>4

\* The invariant holds to begin with.
LEMMA BucketInit == ASSUME BucketAssumption, Init PROVE IInv
<1>1. 0 \in 0 .. capacity /\ capacity \in 0 .. capacity /\ 2 * capacity \in Int
          /\ 2 * capacity >= capacity + 0
  BY DEF BucketAssumption
<1>2. TypeOK
  BY <1>1 DEF Init, TypeOK
<1>3. Covered /\ OneHolds /\ Asked /\ SleepIsEnough
  BY <1>1 DEF Init, Covered, OneHolds, Asked, SleepIsEnough
<1> QED
  BY <1>2, <1>3 DEF IInv

\* A reading preserves the invariant.
LEMMA ReadKeeps ==
    ASSUME BucketAssumption, IInv, NEW u \in Users, Read(u) PROVE IInv'
<1>1. /\ tokens \in 0 .. capacity /\ accrued \in 0 .. capacity
      /\ pc \in [Users -> {"idle", "consume", "holds", "sleep"}]
      /\ want \in [Users -> Sizes \cup {0}] /\ left \in [Users -> Nat]
      /\ robbed \in SUBSET Users /\ credit \in Int
  BY DEF IInv, TypeOK
<1>2. /\ pc' = [pc EXCEPT ![u] = "holds"] /\ Refill(tokens')
      /\ take' = Most(want[u], tokens')
      /\ want' = want /\ left' = left /\ robbed' = robbed /\ credit' = credit
  BY DEF Read
<1>3. /\ tokens' \in 0 .. capacity /\ accrued' \in 0 .. capacity
      /\ tokens' + accrued' <= tokens + accrued
      /\ Least(capacity, tokens' + accrued') = Least(capacity, tokens + accrued)
  BY <1>1, <1>2, RefillBounds
<1>4. pc'[u] = "holds" /\ \A v \in Users \ {u} : pc'[v] = pc[v]
  BY <1>1, <1>2
<1>5. want[u] \in Nat /\ capacity \in Nat
  BY Wanted DEF BucketAssumption
<1>6. take' \in Nat /\ take' >= want[u]
  BY <1>2, <1>3, <1>5 DEF Most
<1>7. pc' \in [Users -> {"idle", "consume", "holds", "sleep"}]
  BY <1>1, <1>2
<1>8. TypeOK'
  BY <1>1, <1>2, <1>3, <1>6, <1>7 DEF TypeOK
<1>9. Covered'
  <2>1. tokens \in Int /\ accrued \in Int /\ tokens' \in Int /\ accrued' \in Int
    BY <1>1, <1>3, <1>5
  <2>2. credit >= tokens' + accrued'
    BY <1>1, <1>3, <2>1, Kept DEF IInv, Covered
  <2> QED
    BY <1>2, <2>2 DEF Covered
<1>10. \A v \in Users \ {u} : pc[v] # "holds"
  BY DEF Read
<1>11. Asked' /\ OneHolds'
  BY <1>2, <1>4, <1>6, <1>10 DEF Asked, OneHolds
<1>12. SleepIsEnough'
  BY <1>2, <1>3, <1>4 DEF IInv, SleepIsEnough
<1> QED
  BY <1>8, <1>9, <1>11, <1>12 DEF IInv

\* A grant preserves the invariant: what it takes was there, and whoever
\* sleeps meanwhile is robbed.
LEMMA GrantKeeps ==
    ASSUME BucketAssumption, IInv, NEW u \in Users, Grant(u) PROVE IInv'
<1>1. /\ tokens \in 0 .. capacity /\ accrued \in 0 .. capacity /\ take \in Nat
      /\ pc \in [Users -> {"idle", "consume", "holds", "sleep"}]
      /\ want \in [Users -> Sizes \cup {0}] /\ left \in [Users -> Nat]
      /\ robbed \in SUBSET Users /\ credit \in Int
  BY DEF IInv, TypeOK
<1>2. PICK have \in 0 .. capacity :
        Refill(have) /\ take <= have /\ tokens' = have - take
  BY DEF Grant, Suffices
<1>3. /\ pc' = [pc EXCEPT ![u] = "idle"]
      /\ robbed' = {v \in Users \ {u} : v \in robbed \/ pc[v] = "sleep"}
      /\ credit' = credit - take /\ take' = 0
      /\ want' = [want EXCEPT ![u] = 0] /\ left' = left
  BY DEF Grant
<1>4. /\ have \in 0 .. capacity /\ accrued' \in 0 .. capacity
      /\ have + accrued' <= tokens + accrued
  BY <1>1, <1>2, RefillBounds
<1>5. capacity \in Nat
  BY DEF BucketAssumption
<1>6. pc'[u] = "idle" /\ \A v \in Users \ {u} : pc'[v] = pc[v]
  BY <1>1, <1>3
<1>7. \A v \in Users \ {u} : pc[v] # "holds"
  BY DEF Grant, IInv, OneHolds
<1>8. TypeOK'
  <2>1. tokens' \in 0 .. capacity /\ take' \in Nat /\ credit' \in Int
    BY <1>1, <1>2, <1>3, <1>5
  <2>2. /\ pc' \in [Users -> {"idle", "consume", "holds", "sleep"}]
        /\ want' \in [Users -> Sizes \cup {0}]
    BY <1>1, <1>3
  <2> QED
    BY <1>1, <1>3, <1>4, <2>1, <2>2 DEF TypeOK
<1>9. Covered'
  <2>1. /\ tokens \in Int /\ accrued \in Int /\ have \in Int /\ accrued' \in Int
        /\ take \in Int
    BY <1>1, <1>4, <1>5
  <2>2. credit - take >= (have - take) + accrued'
    BY <1>1, <1>4, <2>1, Taken DEF IInv, Covered
  <2> QED
    BY <1>2, <1>3, <2>2 DEF Covered
<1>10. Asked' /\ OneHolds'
  BY <1>6, <1>7 DEF Asked, OneHolds
<1>11. SleepIsEnough'
  BY <1>3, <1>6 DEF SleepIsEnough
<1> QED
  BY <1>8, <1>9, <1>10, <1>11 DEF IInv

\* A refusal preserves the invariant: what is missing is what it sleeps for.
LEMMA DenyKeeps ==
    ASSUME BucketAssumption, IInv, NEW u \in Users, Deny(u) PROVE IInv'
<1>1. /\ tokens \in 0 .. capacity /\ accrued \in 0 .. capacity /\ take \in Nat
      /\ pc \in [Users -> {"idle", "consume", "holds", "sleep"}]
      /\ want \in [Users -> Sizes \cup {0}] /\ left \in [Users -> Nat]
      /\ robbed \in SUBSET Users /\ credit \in Int
  BY DEF IInv, TypeOK
<1>2. PICK have \in 0 .. capacity :
        /\ Refill(have) /\ ~(take <= have) /\ tokens' = have
        /\ left' = [left EXCEPT ![u] = take - have]
  BY DEF Deny, Suffices, Expected
<1>3. /\ pc' = [pc EXCEPT ![u] = "sleep"] /\ robbed' = robbed \ {u} /\ take' = 0
      /\ want' = want /\ credit' = credit
  BY DEF Deny
<1>4. /\ accrued' \in 0 .. capacity /\ have + accrued' <= tokens + accrued
      /\ Least(capacity, have + accrued') = Least(capacity, tokens + accrued)
  BY <1>1, <1>2, RefillBounds
<1>5. capacity \in Nat /\ want[u] \in Nat
  BY Wanted DEF BucketAssumption
<1>6. /\ pc'[u] = "sleep" /\ left'[u] = take - have
      /\ \A v \in Users \ {u} : pc'[v] = pc[v] /\ left'[v] = left[v]
  BY <1>1, <1>2, <1>3
<1>7. pc[u] = "holds" /\ \A v \in Users \ {u} : pc[v] # "holds"
  BY DEF Deny, IInv, OneHolds
<1>8. want[u] <= take
  BY <1>7 DEF IInv, Asked
<1>9. /\ take - have \in Nat
      /\ want[u] <= Least(capacity, have + accrued') + (take - have)
  BY <1>1, <1>2, <1>4, <1>5, <1>8, Missing
<1>10. Asked' /\ OneHolds'
  BY <1>6, <1>7 DEF Asked, OneHolds
<1>11. TypeOK'
  <2>1. /\ pc' \in [Users -> {"idle", "consume", "holds", "sleep"}]
        /\ left' \in [Users -> Nat]
    BY <1>1, <1>2, <1>3, <1>9
  <2> QED
    BY <1>1, <1>2, <1>3, <1>4, <2>1 DEF TypeOK
<1>12. Covered'
  <2>1. tokens \in Int /\ accrued \in Int /\ have \in Int /\ accrued' \in Int
    BY <1>1, <1>4, <1>5
  <2>2. credit >= have + accrued'
    BY <1>1, <1>4, <2>1, Kept DEF IInv, Covered
  <2> QED
    BY <1>2, <1>3, <2>2 DEF Covered
<1>13. SleepIsEnough'
  BY <1>2, <1>3, <1>4, <1>6, <1>9 DEF IInv, SleepIsEnough
<1> QED
  BY <1>10, <1>11, <1>12, <1>13 DEF IInv

\* A tick preserves the invariant.
LEMMA TickKeeps == ASSUME BucketAssumption, IInv, Tick PROVE IInv'
<1>1. /\ tokens \in 0 .. capacity /\ accrued \in 0 .. capacity
      /\ want \in [Users -> Sizes \cup {0}] /\ left \in [Users -> Nat]
      /\ credit \in Int /\ credit >= tokens + accrued
  BY DEF IInv, TypeOK, Covered
<1>2. /\ accrued' = Least(capacity, accrued + fill_rate)
      /\ left' = [u \in Users |-> Most(0, left[u] - fill_rate)]
      /\ credit' = Least(2 * capacity, credit + fill_rate)
      /\ tokens' = tokens /\ pc' = pc /\ want' = want /\ take' = take
      /\ robbed' = robbed
  BY DEF Tick
<1>3. capacity \in Nat /\ fill_rate \in Nat /\ Sizes \subseteq Nat
  BY DEF BucketAssumption
<1>4. /\ accrued' \in 0 .. capacity /\ credit' \in Int
      /\ credit' >= tokens + accrued'
      /\ \A w \in 0 .. capacity, l \in Nat :
            w <= Least(capacity, tokens + accrued) + l
                => w <= Least(capacity, tokens + accrued') + Most(0, l - fill_rate)
  BY <1>1, <1>2, <1>3, TickArithmetic
<1>5. left' \in [Users -> Nat]
  BY <1>1, <1>2, <1>3 DEF Most
<1>6. TypeOK' /\ Covered' /\ Asked' /\ OneHolds'
  BY <1>2, <1>4, <1>5 DEF IInv, TypeOK, Covered, Asked, OneHolds
<1>7. SleepIsEnough'
  <2> SUFFICES ASSUME NEW u \in Users, pc[u] = "sleep", u \notin robbed,
                      want[u] <= capacity
               PROVE  want[u] <= Least(capacity, tokens + accrued') + left'[u]
    BY <1>2 DEF SleepIsEnough
  <2>1. want[u] \in 0 .. capacity /\ left[u] \in Nat
    BY <1>1, <1>3, Wanted
  <2>2. want[u] <= Least(capacity, tokens + accrued) + left[u]
    BY DEF IInv, SleepIsEnough
  <2>3. left'[u] = Most(0, left[u] - fill_rate)
    BY <1>2
  <2> QED
    BY <1>4, <2>1, <2>2, <2>3
<1> QED
  BY <1>6, <1>7 DEF IInv

\* Every step preserves the invariant.
LEMMA BucketStep == ASSUME BucketAssumption, IInv, [Next]_vars PROVE IInv'
<1>1. CASE Tick
  BY <1>1, TickKeeps
<1>2. ASSUME NEW u \in Users, Read(u) PROVE IInv'
  BY <1>2, ReadKeeps
<1>3. ASSUME NEW u \in Users, Grant(u) PROVE IInv'
  BY <1>3, GrantKeeps
<1>4. ASSUME NEW u \in Users, Deny(u) PROVE IInv'
  BY <1>4, DenyKeeps
<1>5. ASSUME NEW u \in Users, Call(u) PROVE IInv'
  <2>1. /\ pc' = [pc EXCEPT ![u] = "consume"]
        /\ \E n \in Sizes : want' = [want EXCEPT ![u] = n]
        /\ UNCHANGED <<tokens, accrued, take, left, robbed, credit>>
    BY <1>5 DEF Call
  <2>2. /\ pc \in [Users -> {"idle", "consume", "holds", "sleep"}]
        /\ want \in [Users -> Sizes \cup {0}]
    BY DEF IInv, TypeOK
  <2>3. pc'[u] = "consume"
        /\ \A v \in Users \ {u} : pc'[v] = pc[v] /\ want'[v] = want[v]
    BY <2>1, <2>2
  <2>4. /\ pc' \in [Users -> {"idle", "consume", "holds", "sleep"}]
        /\ want' \in [Users -> Sizes \cup {0}]
    BY <2>1, <2>2
  <2>5. TypeOK'
    BY <2>1, <2>4 DEF IInv, TypeOK
  <2>6. Covered' /\ Asked' /\ OneHolds' /\ SleepIsEnough'
    BY <2>1, <2>3 DEF IInv, Covered, Asked, OneHolds, SleepIsEnough
  <2> QED
    BY <2>5, <2>6 DEF IInv
<1>6. ASSUME NEW u \in Users, Wake(u) PROVE IInv'
  <2>1. /\ pc' = [pc EXCEPT ![u] = "consume"]
        /\ UNCHANGED <<tokens, accrued, want, take, left, robbed, credit>>
    BY <1>6 DEF Wake
  <2>2. pc \in [Users -> {"idle", "consume", "holds", "sleep"}]
    BY DEF IInv, TypeOK
  <2>3. pc'[u] = "consume" /\ \A v \in Users \ {u} : pc'[v] = pc[v]
    BY <2>1, <2>2
  <2>4. pc' \in [Users -> {"idle", "consume", "holds", "sleep"}]
    BY <2>1, <2>2
  <2>5. TypeOK'
    BY <2>1, <2>4 DEF IInv, TypeOK
  <2>6. Covered' /\ Asked' /\ OneHolds' /\ SleepIsEnough'
    BY <2>1, <2>3 DEF IInv, Covered, Asked, OneHolds, SleepIsEnough
  <2> QED
    BY <2>5, <2>6 DEF IInv
<1>7. CASE UNCHANGED vars
  BY <1>7 DEF vars, IInv, TypeOK, Covered, Asked, OneHolds, SleepIsEnough
<1> QED
  BY <1>1, <1>2, <1>3, <1>4, <1>5, <1>6, <1>7 DEF Next, Limit

\* The bucket is never overdrawn nor overfull, and never holds more than the
\* time and the meter account for.
LEMMA BucketInvariant == Spec => []IInv
<1>1. Init => IInv
  BY BucketInit, BucketAssumption
<1>2. IInv /\ [Next]_vars => IInv'
  BY BucketStep, BucketAssumption
<1> QED
  BY <1>1, <1>2, PTL DEF Spec

\* _tokens stays between nothing and the capacity, however threads interleave
\* and however much time passes between the two readings of one consume.
THEOREM BucketTypeCorrect == Spec => []TypeOK
<1>1. IInv => TypeOK
  BY DEF IInv
<1> QED
  BY <1>1, BucketInvariant, PTL

\* Whatever is asked for, no more than two bucketfuls above the rate is ever
\* granted, in any stretch of time.
THEOREM BucketKeepsRate == Spec => []RateIsKept
<1>1. IInv => RateIsKept
  BY DEF IInv, TypeOK, Covered, RateIsKept
<1> QED
  BY <1>1, BucketInvariant, PTL

\* The time consume answers is enough, unless others are served meanwhile.
THEOREM BucketSleeps == Spec => []SleepIsEnough
<1>1. IInv => SleepIsEnough
  BY DEF IInv
<1> QED
  BY <1>1, BucketInvariant, PTL
=============================================================================
