---------------------------- MODULE TokenBucket -----------------------------
(***************************************************************************)
(* utils/stb.py: a token bucket that refills as time goes by, and the      *)
(* threads that pay for each block they have transferred, RateLimit's      *)
(* sleeps included.  A thread holds the bucket's lock from the first       *)
(* reading of its tokens to the decision; time may pass in between.        *)
(*                                                                         *)
(* Tokens are whole, and time goes by in ticks of fill_rate tokens.  The   *)
(* time since the timestamp is told by the tokens it is worth, accrued;    *)
(* more than a bucketful of them never counts, and is not told apart.  A   *)
(* sleep is told by the tokens that come in meanwhile.                     *)
(***************************************************************************)
EXTENDS Integers

CONSTANTS
    Users,          \* threads
    capacity, fill_rate,
    Sizes           \* of blocks, in tokens

ASSUME BucketAssumption ==
    /\ {capacity, fill_rate} \subseteq Nat \ {0}
    /\ Sizes \subseteq Nat

VARIABLES
    tokens,     \* _tokens
    accrued,    \* fill_rate * (now - timestamp), at most capacity
    pc,         \* where each thread is
    want,       \* the tokens it asks for
    take,       \* those it is about to take, while it holds the lock
    left,       \* those that have to come in until it wakes
    robbed,     \* history: sleepers another thread took tokens from
    credit      \* history: what a meter filled at fill_rate, of twice the
                \* capacity, has left after every grant

vars == <<tokens, accrued, pc, want, take, left, robbed, credit>>

Least(a, b) == IF a <= b THEN a ELSE b
Most(a, b) == IF a >= b THEN a ELSE b

TypeOK ==
    /\ tokens \in 0 .. capacity /\ accrued \in 0 .. capacity
    /\ pc \in [Users -> {"idle", "consume", "holds", "sleep"}]
    /\ want \in [Users -> Sizes \cup {0}]
    /\ take \in Nat
    /\ left \in [Users -> Nat]
    /\ robbed \in SUBSET Users
    /\ credit \in Int

Init ==
    /\ tokens = capacity /\ accrued = 0
    /\ pc = [u \in Users |-> "idle"]
    /\ want = [u \in Users |-> 0]
    /\ take = 0
    /\ left = [u \in Users |-> 0]
    /\ robbed = {}
    /\ credit = 2 * capacity

-----------------------------------------------------------------------------
(* TokenBucket *)

\* Mutant: the time that has been counted is counted again.
RefillAgain(after) == after = Least(capacity, tokens + accrued) /\ accrued' = accrued

\* The property tokens.  The timestamp of a full bucket stands still.
Refill(after) ==
    IF tokens < capacity
      THEN after = Least(capacity, tokens + accrued) /\ accrued' = 0
      ELSE after = tokens /\ accrued' = accrued

\* consume, up to the first reading: at least all there is will be taken.
Read(u) ==
    /\ pc[u] = "consume" /\ \A v \in Users : pc[v] # "holds"
    /\ pc' = [pc EXCEPT ![u] = "holds"]
    /\ Refill(tokens')
    /\ take' = Most(want[u], tokens')
    /\ UNCHANGED <<want, left, robbed, credit>>

\* Mutant: exactly enough is not enough.
Exceeds(have) == take < have

Suffices(have) == take <= have

Grant(u) ==
    /\ pc[u] = "holds"
    /\ pc' = [pc EXCEPT ![u] = "idle"]
    /\ \E have \in 0 .. capacity :
        /\ Refill(have) /\ Suffices(have)
        /\ tokens' = have - take
    /\ robbed' = {v \in Users \ {u} : v \in robbed \/ pc[v] = "sleep"}
    /\ credit' = credit - take
    /\ take' = 0
    /\ want' = [want EXCEPT ![u] = 0]
    /\ UNCHANGED left

\* Mutant: the time is rounded down.
Rounded(have) == ((take - have) \div fill_rate) * fill_rate

\* expected_time, worth these tokens.
Expected(have) == take - have

Deny(u) ==
    /\ pc[u] = "holds"
    /\ pc' = [pc EXCEPT ![u] = "sleep"]
    /\ \E have \in 0 .. capacity :
        /\ Refill(have) /\ ~Suffices(have)
        /\ tokens' = have
        /\ left' = [left EXCEPT ![u] = Expected(have)]
    /\ robbed' = robbed \ {u}
    /\ take' = 0
    /\ UNCHANGED <<want, credit>>

-----------------------------------------------------------------------------
(* RateLimit *)

Call(u) ==
    /\ pc[u] = "idle"
    /\ pc' = [pc EXCEPT ![u] = "consume"]
    /\ \E n \in Sizes : want' = [want EXCEPT ![u] = n]
    /\ UNCHANGED <<tokens, accrued, take, left, robbed, credit>>

\* time.sleep may last longer than asked for.
Wake(u) ==
    /\ pc[u] = "sleep" /\ left[u] = 0
    /\ pc' = [pc EXCEPT ![u] = "consume"]
    /\ UNCHANGED <<tokens, accrued, want, take, left, robbed, credit>>

Tick ==
    /\ accrued' = Least(capacity, accrued + fill_rate)
    /\ left' = [u \in Users |-> Most(0, left[u] - fill_rate)]
    /\ credit' = Least(2 * capacity, credit + fill_rate)
    /\ UNCHANGED <<tokens, pc, want, take, robbed>>

-----------------------------------------------------------------------------
Limit(u) == Read(u) \/ Grant(u) \/ Deny(u) \/ Wake(u)

Next == Tick \/ \E u \in Users : Call(u) \/ Limit(u)

Spec == Init /\ [][Next]_vars

\* Time goes by, and threads are scheduled; a lock that is free again and
\* again is not kept from a thread for ever.
FairSpec ==
    /\ Spec
    /\ WF_vars(Tick)
    /\ \A u \in Users : WF_vars(Grant(u) \/ Deny(u) \/ Wake(u)) /\ SF_vars(Read(u))

-----------------------------------------------------------------------------
(* Properties *)

\* In any stretch of time no more is taken than the rate allows and two
\* bucketfuls, whatever is asked for: the one that is there, and, since the
\* timestamp of a full bucket stands still, one that was not there.
RateIsKept == credit >= 0

\* A thread has slept long enough for its block when it wakes, unless another
\* was granted tokens meanwhile, or the block does not fit into the bucket.
SleepIsEnough ==
    \A u \in Users : pc[u] = "sleep" /\ u \notin robbed /\ want[u] <= capacity
                        => want[u] <= Least(capacity, tokens + accrued) + left[u]

\* Blocks are granted for ever, unless none is left to be asked for that fits.
\* (Which of several threads is served, nothing says; a block that does not
\* fit waits for ever, and is in nobody's way.)
SomeoneIsServed ==
    \/ []<><<\E u \in Users : Grant(u)>>_vars
    \/ <>[](\A u \in Users : pc[u] = "idle" \/ want[u] > capacity)
=============================================================================
