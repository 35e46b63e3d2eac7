------------------------- MODULE TokenRefreshProofs -------------------------
(***************************************************************************)
(* Theorems about TokenRefresh, for any pause, timeouts and delay.         *)
(***************************************************************************)
EXTENDS TokenRefresh, TLAPS

\* start makes an interval and a pause that are times, and that add up to the
\* timeout when it is not less than PAUSE.
LEMMA Times ==
    ASSUME timeout \in Timeouts
    PROVE  /\ timeout \in Nat \ {0} /\ timeout < MaxAge
           /\ Interval \in Nat /\ Pause \in 0 .. PAUSE
           /\ ~Short => Interval = timeout - PAUSE /\ Pause = PAUSE
<1>1. timeout \in Nat \ {0} /\ MaxAge > timeout + 3 * Delay
  BY RefreshAssumption
<1>2. CASE Short
  BY <1>1, <1>2, RefreshAssumption DEF Short, Interval, Pause
<1>3. CASE ~Short
  BY <1>1, <1>3, RefreshAssumption DEF Short, Interval, Pause
<1> QED
  BY <1>2, <1>3

\* Two facts about times: of a token just issued, and of a wait just begun.
LEMMA NewToken ==
    ASSUME NEW a, NEW d \in Nat, NEW p \in Nat, a \in 0 .. d
    PROVE  a <= p + 2 * d
OBVIOUS

LEMMA NewWait ==
    ASSUME NEW a, NEW s, NEW d \in Nat, NEW p \in Nat, a \in 0 .. s, s \in 0 .. d
    PROVE  a + p <= d + p /\ s + p >= p
OBVIOUS

\* An interface that was never opened has no thread.
LEMMA InitInvariant == Init => IInv
<1> SUFFICES ASSUME Init PROVE IInv
  OBVIOUS
<1>1. PAUSE \in Nat \ {0} /\ Delay \in Nat /\ MaxAge \in Nat
  BY RefreshAssumption
<1>2. 0 \in -Delay .. PAUSE
  BY <1>1
<1>3. stop \in BOOLEAN
  BY DEF Init
<1>4. TypeOK
  BY <1>1, <1>2, <1>3 DEF Init, TypeOK
<1>5. thread = "none" /\ interface = "new" /\ ~stop /\ elapsed = 0
  BY DEF Init
<1>6. ~Alive
  BY <1>5 DEF Alive
<1> QED
  BY <1>4, <1>5, <1>6 DEF IInv, AgeIsElapsed, Waiting, EveryCheck

\* Every step of the interface and of its thread preserves the invariant.
LEMMA StepInvariant == IInv /\ [Next]_vars => IInv'
<1> SUFFICES ASSUME IInv, [Next]_vars PROVE IInv'
  OBVIOUS
<1>0. /\ PAUSE \in Nat \ {0} /\ Delay \in Nat /\ MaxAge \in Nat
      /\ Timeouts \subseteq Nat \ {0}
      /\ \A t \in Timeouts : MaxAge > t + 3 * Delay
  BY RefreshAssumption
<1>1. TypeOK /\ AgeIsElapsed /\ Waiting /\ EveryCheck
  BY DEF IInv
<1>2. /\ Alive => timeout \in Timeouts
      /\ interface = "new" => thread = "none" /\ ~stop /\ elapsed = 0
      /\ interface = "open" => ~stop
  BY DEF IInv
<1>3. timeout' = timeout => /\ Interval' = Interval /\ Pause' = Pause /\ Short' = Short
  BY DEF Interval, Pause, Short
<1>4. CASE Open
  <2>1. PICK t \in Timeouts : timeout' = t
    BY <1>4 DEF Open
  <2>2. t \in Nat \ {0} /\ MaxAge > t + 3 * Delay
    BY <1>0
  <2>3. /\ Interval' \in Nat /\ Pause' \in Nat
    BY <1>0, <2>1, <2>2 DEF Interval, Pause, Short
  <2>4. TypeOK'
    BY <1>0, <1>1, <1>4, <2>2 DEF Open, TypeOK, clocks
  <2>5. /\ interface' = "open" /\ thread' \in {"check", "none"} /\ age' \in 0 .. Delay
        /\ elapsed' = elapsed /\ stop' = stop
    BY <1>4 DEF Open, clocks
  <2>6. elapsed = 0 /\ ~stop
    BY <1>2, <1>4 DEF Open
  <2>7. AgeIsElapsed'
    BY <1>0, <2>5, <2>6 DEF AgeIsElapsed
  <2>8. Waiting'
    <3>1. age' <= Pause' + 2 * Delay
      <4>1. Delay \in Nat /\ Pause' \in Nat /\ age' \in 0 .. Delay
        BY <1>0, <2>3, <2>5
      <4> QED
        BY <4>1, NewToken
    <3>2. thread' # "wait" /\ thread' # "post"
      BY <2>5
    <3> QED
      BY <3>1, <3>2 DEF Waiting
  <2>9. EveryCheck'
    BY <1>0, <2>5, <2>6 DEF EveryCheck
  <2> QED
    BY <2>1, <2>4, <2>5, <2>6, <2>7, <2>8, <2>9 DEF IInv
<1>5. CASE Close
  BY <1>0, <1>1, <1>2, <1>5 DEF Close, IInv, TypeOK, Alive, AgeIsElapsed, Waiting,
       EveryCheck, Interval, Pause, Short, clocks
<1>6. CASE End
  BY <1>0, <1>1, <1>2, <1>6 DEF End, IInv, TypeOK, Alive, AgeIsElapsed, Waiting,
       EveryCheck, clocks
<1>7. CASE Exchange
  BY <1>0, <1>1, <1>2, <1>7 DEF Exchange, IInv, TypeOK, Alive, AgeIsElapsed, Waiting,
       EveryCheck, Interval, Pause, Short
<1>8. CASE NotYet
  <2>1. /\ thread = "check" /\ ~stop /\ elapsed < Interval
        /\ thread' = "wait" /\ left' = Pause
        /\ UNCHANGED <<interface, timeout, age, stop, elapsed, spent>>
    BY <1>8 DEF NotYet
  <2>2. timeout \in Timeouts
    BY <1>2, <2>1 DEF Alive
  <2>3. TypeOK'
    BY <1>0, <1>1, <2>1, <2>2, Times DEF TypeOK
  <2>4. AgeIsElapsed'
    BY <1>1, <2>1 DEF AgeIsElapsed, Alive
  <2>5. Waiting'
    BY <1>1, <1>3, <2>1, <2>2, Times DEF Waiting, TypeOK
  <2>6. EveryCheck'
    BY <1>0, <1>1, <1>3, <2>1, <2>2, Times DEF EveryCheck, TypeOK, Alive
  <2>7. timeout' \in Timeouts /\ interface' # "new" /\ ~stop'
    <3>1. interface # "new"
      BY <1>2, <2>1
    <3> QED
      BY <2>1, <2>2, <3>1
  <2> QED
    BY <2>3, <2>4, <2>5, <2>6, <2>7 DEF IInv
<1>9. CASE Answer
  <2>1. /\ thread = "post" /\ thread' = "wait" /\ left' = Pause
        /\ age' \in 0 .. spent /\ elapsed' = spent /\ spent' = 0
        /\ interface' = interface /\ timeout' = timeout /\ stop' = stop
    BY <1>9 DEF Answer
  <2>2. timeout \in Timeouts /\ interface # "new" /\ spent \in 0 .. Delay
    BY <1>1, <1>2, <2>1 DEF Alive, TypeOK
  <2>3. TypeOK'
    <3>1. age' \in 0 .. MaxAge
      BY <1>0, <2>1, <2>2
    <3>2. left' \in -Delay .. PAUSE
      BY <1>0, <2>1, <2>2, Times
    <3> QED
      BY <1>0, <1>1, <2>1, <2>2, <3>1, <3>2 DEF TypeOK
  <2>4. AgeIsElapsed'
    BY <1>0, <2>1, <2>2 DEF AgeIsElapsed
  <2>5. Waiting'
    <3>1. left' = Pause' /\ Pause \in Nat
      BY <1>0, <1>3, <2>1, <2>2, Times
    <3>2. age' + Pause <= Delay + Pause
      BY <1>0, <2>1, <2>2, <3>1, NewWait
    <3>3. age' + left' <= Delay + Pause'
      BY <1>3, <2>1, <3>1, <3>2
    <3> QED
      BY <2>1, <3>3 DEF Waiting
  <2>6. EveryCheck'
    <3>1. ASSUME ~Short PROVE left' = PAUSE
      BY <2>1, <2>2, <3>1, Times
    <3>2. PAUSE \in Nat /\ Delay \in Nat /\ spent \in 0 .. Delay
      BY <1>0, <2>2
    <3>3. ~Short => age' + left' <= Delay + PAUSE /\ elapsed' + left' >= PAUSE
      <4>1. age' + PAUSE <= Delay + PAUSE /\ spent + PAUSE >= PAUSE
        BY <2>1, <3>2, NewWait
      <4> QED
        BY <2>1, <3>1, <4>1
    <3> QED
      BY <1>3, <2>1, <3>3 DEF EveryCheck
  <2> QED
    BY <1>2, <2>1, <2>2, <2>3, <2>4, <2>5, <2>6 DEF IInv
<1>10. CASE Fail
  BY <1>0, <1>1, <1>2, <1>10 DEF Fail, IInv, TypeOK, Alive, AgeIsElapsed, Waiting,
       EveryCheck
<1>11. CASE Wake
  BY <1>0, <1>1, <1>2, <1>11 DEF Wake, IInv, TypeOK, Alive, AgeIsElapsed, Waiting,
       EveryCheck, Interval, Pause, Short
<1>12. CASE Tick
  BY <1>0, <1>1, <1>2, <1>12 DEF Tick, IInv, TypeOK, Alive, AgeIsElapsed, Waiting,
       EveryCheck, Interval, Pause, Short
<1>13. CASE UNCHANGED vars
  BY <1>1, <1>2, <1>3, <1>13 DEF vars, clocks, IInv, TypeOK, Alive, AgeIsElapsed, Waiting,
       EveryCheck
<1> QED
  BY <1>4, <1>5, <1>6, <1>7, <1>8, <1>9, <1>10, <1>11, <1>12, <1>13 DEF Next, Refresh

\* The invariant that ties the clocks of the thread to the age of the token.
THEOREM Invariance == Spec => []IInv
BY InitInvariant, StepInvariant, PTL DEF Spec

\* A token that is valid for longer than the pause, but at most for twice the
\* pause, never expires on an open interface.
THEOREM TokenNeverExpires == Spec => []NeverExpired
<1>1. IInv => NeverExpired
  <2> SUFFICES ASSUME IInv, Refreshed,
                      PAUSE + 3 * Delay < timeout, timeout <= 2 * PAUSE
               PROVE  age < timeout
    BY DEF NeverExpired
  <2>1. timeout \in Timeouts /\ Alive /\ ~stop
    BY DEF IInv, Refreshed
  <2>2. /\ PAUSE \in Nat /\ Delay \in Nat /\ timeout \in Nat
        /\ age \in Nat /\ left \in Int /\ spent \in Nat /\ spent <= Delay /\ left >= -Delay
    BY <2>1, Times, RefreshAssumption DEF IInv, TypeOK
  <2>3. ~Short
    BY <2>2 DEF Short
  <2>4. age <= PAUSE + 3 * Delay
    BY <2>1, <2>2, <2>3 DEF IInv, EveryCheck, Alive
  <2> QED
    BY <2>2, <2>4
<1> QED
  BY <1>1, Invariance, PTL

\* And no token is overdue by more than three delays, unless it is valid for less
\* than the pause.
THEOREM TokenReplacedInTime == Spec => []OverdueBounded
<1>1. IInv => OverdueBounded
  <2> SUFFICES ASSUME IInv, Refreshed, ~Short
               PROVE  age <= timeout + 3 * Delay
    BY DEF OverdueBounded
  <2>1. timeout \in Timeouts /\ Alive /\ ~stop
    BY DEF IInv, Refreshed
  <2>2. /\ PAUSE \in Nat /\ Delay \in Nat /\ timeout \in Nat /\ elapsed \in Nat
        /\ age \in Nat /\ left \in Int /\ spent \in Nat /\ spent <= Delay /\ left >= -Delay
    BY <2>1, Times, RefreshAssumption DEF IInv, TypeOK
  <2>3. timeout >= PAUSE /\ Interval + Pause = timeout /\ Pause = PAUSE
    BY <2>1, <2>2, Times DEF Short
  <2>4. age <= elapsed + Delay /\ Waiting
    BY <2>1 DEF IInv, AgeIsElapsed
  <2>5. CASE thread = "wait"
    BY <2>2, <2>3, <2>4, <2>5 DEF Waiting
  <2>6. CASE thread = "check"
    BY <2>1, <2>2, <2>3, <2>4, <2>6 DEF Waiting
  <2>7. CASE thread = "post"
    BY <2>1, <2>2, <2>3, <2>4, <2>7 DEF Waiting
  <2> QED
    BY <2>1, <2>5, <2>6, <2>7 DEF Alive
<1> QED
  BY <1>1, Invariance, PTL
=============================================================================
