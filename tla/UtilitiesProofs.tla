-------------------------- MODULE UtilitiesProofs --------------------------
(***************************************************************************)
(* Theorems about Wait, for any timeout, interval, time to stabilize and   *)
(* time an attempt may take; and about the comparison of versions, of any  *)
(* number of digits.                                                       *)
(***************************************************************************)
EXTENDS Wait, MCVersions, WellFoundedInduction, TLAPS

-----------------------------------------------------------------------------
(* Wait *)

\* A wait begins with nothing counted and nothing seen (Wait.run, its first lines).
LEMMA InitInvariant == Init => IInv
<1> SUFFICES ASSUME Init PROVE IInv
  OBVIOUS
<1>1. TypeOK
  BY WaitAssumption DEF Init, TypeOK, Exceptions, Outcomes, Falsy, Never
<1>2. CountedFromFailure /\ SettledSince /\ InTime
  BY WaitAssumption DEF Init, CountedFromFailure, SettledSince, InTime, OverrunBounded
<1>3. Traces /\ CountedFully
  BY WaitAssumption
     DEF Init, Traces, LeavesNoTrace, CountedFully, NoFalseTimeout, Never
<1> QED
  BY <1>1, <1>2, <1>3 DEF IInv

\* stable never decreases without being set to 0, and is a time.
LEMMA StableType ==
    ASSUME TypeOK, lastTime <= now
    PROVE  Stable \in Nat /\ Stable <= stable + (now - lastTime)
BY DEF Stable, TypeOK

\* What has lasted longer than something else has lasted at least as long.
LEMMA AtLeast ==
    ASSUME NEW t \in Nat, NEW s \in Nat, NEW u \in Nat, NEW w \in Nat,
           s <= t - u, s >= w
    PROVE  t - u >= w
OBVIOUS

\* Every step of the loop of Wait.run preserves the invariant; its decision
\* (Judge) is the one that moves what is counted and what has been seen.
LEMMA StepInvariant == IInv /\ [Next]_vars => IInv'
<1> SUFFICES ASSUME IInv, [Next]_vars PROVE IInv'
  OBVIOUS
<1> USE WaitAssumption DEF IInv
<1>1. CASE Begin
  BY <1>1 DEF Begin, TypeOK, CountedFromFailure, SettledSince, InTime, OverrunBounded,
       Traces, LeavesNoTrace, CountedFully, NoFalseTimeout, Exceptions, Outcomes,
       Falsy, Never, history
<1>2. CASE GiveUp
  BY <1>2 DEF GiveUp, Finish, TypeOK, CountedFromFailure, SettledSince, InTime,
       OverrunBounded, Traces, LeavesNoTrace, CountedFully, NoFalseTimeout,
       Exceptions, Outcomes, Falsy, Never, history
<1>3. CASE Call
  <2>1. TypeOK'
    <3>1. stopped' \in BOOLEAN
      BY <1>3, Zenon DEF Call, TypeOK
    <3>2. now' \in Nat /\ success' \in {Falsy} \cup Truthy
      BY <1>3 DEF Call, TypeOK
    <3>3. /\ lastExc' \in Exceptions \cup {"none"}
          /\ pc' \in {"cleanup", "handle"} /\ command' = "used"
          /\ UNCHANGED <<end, lastTime, stable, lastSuccess, pending, outcome, history>>
      BY <1>3, Zenon DEF Call, TypeOK
    <3> QED
      BY <3>1, <3>2, <3>3 DEF TypeOK, history
  <2>2. CountedFromFailure' /\ SettledSince'
    BY <1>3 DEF Call, TypeOK, CountedFromFailure, SettledSince, history
  <2>3. InTime' /\ Traces'
    BY <1>3 DEF Call, TypeOK, InTime, OverrunBounded, Traces, LeavesNoTrace
  <2>4. CountedFully'
    BY <1>3 DEF Call, TypeOK, CountedFromFailure, CountedFully, NoFalseTimeout, Never, history
  <2> QED
    BY <2>1, <2>2, <2>3, <2>4
<1>4. CASE Handle
  BY <1>4 DEF Handle, TypeOK, CountedFromFailure, SettledSince, InTime, OverrunBounded,
       Traces, LeavesNoTrace, CountedFully, NoFalseTimeout, Exceptions, Outcomes,
       Falsy, Never, history
<1>5. CASE Cleanup
  BY <1>5 DEF Cleanup, Finish, TypeOK, CountedFromFailure, SettledSince, InTime,
       OverrunBounded, Traces, LeavesNoTrace, CountedFully, NoFalseTimeout,
       Exceptions, Outcomes, Falsy, Never, history
<1>6. CASE Judge
  <2>1. lastTime <= now /\ failedAt <= lastTime /\ stable <= lastTime - failedAt
    BY <1>6 DEF Judge, CountedFromFailure
  <2>2. stable' \in Nat /\ stable' <= stable + (now - lastTime)
    BY <1>6, <2>1, StableType DEF Judge
  <2>3. stopped' \in BOOLEAN
    BY <1>6 DEF Judge, TypeOK
  <2>4. /\ failedAt' \in Nat /\ failedAt' <= now /\ metSince' \in Nat \cup {Never}
        /\ stable' <= now - failedAt'
    BY <1>6, <2>1, <2>2 DEF Judge, TypeOK, Stable, Never
  <2>5. UNCHANGED <<now, end, success, lastExc, pending, command>>
    BY <1>6 DEF Judge
  <2>6. command = "clean" /\ now <= end + MaxAttempt
    BY <1>6 DEF Judge, Traces, InTime
  <2>7. Truthy = {1} /\ metSince' # Never =>
          /\ success = 1
          /\ metSince' <= now
          /\ now - metSince' <= stable'
    BY <1>6, <2>1, <2>2 DEF Judge, TypeOK, Stable, CountedFully, Never, Falsy
  <2>8. CASE Break /\ Finish("returned") /\ UNCHANGED <<lastSuccess, lastTime>>
    <3>0. stable' >= Stabilize
      BY <1>6, <2>8 DEF Break, Judge
    <3>1. now - failedAt' >= Stabilize
      <4>1. /\ now \in Nat /\ stable' \in Nat /\ failedAt' \in Nat
            /\ stable' <= now - failedAt'
        BY <2>2, <2>4 DEF TypeOK
      <4> QED
        BY <4>1, <3>0, AtLeast, WaitAssumption
    <3>2. pc' = "done" /\ outcome' = "returned"
      BY <2>8 DEF Finish
    <3>3. TypeOK'
      BY <2>2, <2>3, <2>4, <2>5, <2>8, <3>2 DEF TypeOK, Outcomes
    <3>4. SettledSince'
      BY <3>1, <2>5 DEF SettledSince
    <3>5. CountedFromFailure'
      BY <2>1, <2>4, <2>5, <2>8, <3>2 DEF CountedFromFailure
    <3>6. InTime' /\ Traces' /\ CountedFully'
      BY <2>5, <2>6, <3>2
         DEF TypeOK, InTime, OverrunBounded, Traces, LeavesNoTrace, CountedFully, NoFalseTimeout
    <3> QED
      BY <3>3, <3>4, <3>5, <3>6
  <2>9. CASE ~Break /\ Stops /\ Finish(Reraised) /\ UNCHANGED <<lastSuccess, lastTime>>
    <3>1. Reraised \in {"reverting", "outer", "RuntimeError"}
      BY DEF Reraised, TypeOK
    <3> QED
      BY <1>6, <2>1, <2>2, <2>3, <2>4, <2>5, <2>6, <2>9, <3>1
         DEF Finish, TypeOK, CountedFromFailure, SettledSince, InTime, OverrunBounded,
             Traces, LeavesNoTrace, CountedFully, NoFalseTimeout, Outcomes
  <2>10. CASE /\ ~Break /\ ~Stops
              /\ pc' = "sleep" /\ lastSuccess' = success /\ lastTime' = now
              /\ UNCHANGED outcome
    <3>1. success # Falsy => stable' < Stabilize
      BY <1>6, <2>2, <2>10 DEF Break, Judge
    <3>2. outcome = "none" /\ outcome' = "none"
      BY <1>6, <2>10 DEF Judge, CountedFromFailure
    <3>3. TypeOK'
      BY <2>2, <2>3, <2>4, <2>5, <2>10, <3>2 DEF TypeOK
    <3>4. CountedFromFailure' /\ SettledSince'
      <4>1. /\ pc' = "sleep" /\ lastTime' = now /\ now' = now
            /\ now \in Nat /\ failedAt' \in Nat
        BY <2>4, <2>5, <2>10 DEF TypeOK
      <4>. HIDE DEF IInv
      <4>2. CountedFromFailure'
        BY <4>1, <2>4, <3>2 DEF CountedFromFailure
      <4>3. SettledSince'
        BY <3>2 DEF SettledSince
      <4> QED
        BY <4>2, <4>3
    <3>5. InTime' /\ Traces'
      BY <2>5, <2>6, <2>10 DEF TypeOK, InTime, OverrunBounded, Traces, LeavesNoTrace
    <3>6. CountedFully'
      <4>1. /\ pc' = "sleep" /\ lastTime' = now /\ now' = now /\ now \in Nat
            /\ lastSuccess' = success
        BY <2>5, <2>10 DEF TypeOK
      <4>. HIDE DEF IInv
      <4>2. NoFalseTimeout'
        BY <3>2 DEF NoFalseTimeout
      <4>3. now' <= lastTime' + Interval
        BY <4>1, WaitAssumption
      <4>4. Truthy = {1} /\ metSince' # Never =>
               /\ metSince' <= lastTime' /\ lastTime' - metSince' <= stable'
               /\ stable' < Stabilize /\ lastSuccess' = 1
        BY <4>1, <2>7, <3>1 DEF Falsy
      <4> QED
        BY <4>1, <4>2, <4>3, <4>4 DEF CountedFully
    <3> QED
      BY <3>3, <3>4, <3>5, <3>6
  <2> QED
    BY <1>6, <2>8, <2>9, <2>10 DEF Judge
<1>7. CASE Sleep
  BY <1>7 DEF Sleep, Finish, TypeOK, CountedFromFailure, SettledSince, InTime,
       OverrunBounded, Traces, LeavesNoTrace, CountedFully, NoFalseTimeout,
       Exceptions, Outcomes, Falsy, Never, history
<1>8. CASE UNCHANGED vars
  BY <1>8 DEF vars, TypeOK, CountedFromFailure, SettledSince, InTime,
       OverrunBounded, Traces, LeavesNoTrace, CountedFully, NoFalseTimeout, history
<1> QED
  BY <1>1, <1>2, <1>3, <1>4, <1>5, <1>6, <1>7, <1>8 DEF Next, Terminated

\* The invariant that ties the seconds run counts to what it has seen.
THEOREM Invariance == Spec => []IInv
BY InitInvariant, StepInvariant, PTL DEF Spec

\* A wait that returns has not failed for Stabilize seconds.
THEOREM ReturnsWhenSettled == Spec => []SettledSince
<1>1. IInv => SettledSince
  BY DEF IInv
<1> QED
  BY <1>1, Invariance, PTL

\* A wait for a boolean condition does not time out on one that stays met.
THEOREM NotGivenUpTooEarly ==
    ASSUME Truthy = {1}
    PROVE  Spec => []NoFalseTimeout
<1>1. IInv => NoFalseTimeout
  BY DEF IInv, CountedFully
<1> QED
  BY <1>1, Invariance, PTL

\* A wait outlasts its timeout by an attempt and a sleep at most.
THEOREM OutlastsByOneAttempt == Spec => []OverrunBounded
<1>1. IInv => OverrunBounded
  BY DEF IInv, InTime
<1> QED
  BY <1>1, Invariance, PTL

\* Every attempt, and whoever called run, finds the Command cleaned up.
THEOREM AttemptsLeaveNoTrace == Spec => []LeavesNoTrace
<1>1. IInv => LeavesNoTrace
  BY DEF IInv, Traces
<1> QED
  BY <1>1, Invariance, PTL

\* Where run can be once the function has raised StopWait, and that only the
\* undoing of a negated attempt counts as a success then.
StopInv ==
    /\ pc \in {"call", "handle"} => success = Falsy
    /\ stopped =>
          /\ pc \in {"handle", "cleanup", "judge", "done"}
          /\ lastExc = "StopWait"
          /\ success # Falsy => Negated
          /\ outcome = "returned" => Negated

LEMMA StepStop ==
    ASSUME IInv, StopInv, [Next]_vars
    PROVE  StopInv' /\ (stopped => pc' # "call" /\ (outcome' = "returned" => Negated))
<1>0. TypeOK /\ (outcome # "none" => pc = "done")
  BY DEF IInv, CountedFromFailure
<1>1. CASE Begin \/ GiveUp
  BY <1>0, <1>1 DEF Begin, GiveUp, Finish, StopInv
<1>2. CASE Call
  <2>1. ~stopped /\ pc = "call" /\ success = Falsy /\ outcome' = "none"
    BY <1>0, <1>2 DEF Call, StopInv
  <2>2. CASE pc' = "cleanup"
    BY <1>2, <2>1, <2>2 DEF Call, StopInv
  <2>3. CASE pc' # "cleanup"
    <3>1. pc' = "handle" /\ success' = success /\ (stopped' => lastExc' = "StopWait")
      BY <1>2, <2>3 DEF Call
    <3> QED
      BY <2>1, <3>1 DEF StopInv
  <2> QED
    BY <2>2, <2>3
<1>3. CASE Handle
  BY <1>0, <1>3 DEF Handle, StopInv
<1>4. CASE Cleanup
  BY <1>0, <1>4 DEF Cleanup, Finish, StopInv
<1>5. CASE Judge
  <2>1. Reraised # "returned"
    BY <1>0 DEF Reraised, TypeOK
  <2> QED
    BY <1>0, <1>5, <2>1 DEF Judge, Break, Stops, Finish, StopInv
<1>6. CASE Sleep
  BY <1>0, <1>6 DEF Sleep, Finish, StopInv, TypeOK
<1>7. CASE UNCHANGED vars
  BY <1>0, <1>7 DEF vars, StopInv
<1> QED
  BY <1>1, <1>2, <1>3, <1>4, <1>5, <1>6, <1>7 DEF Next, Terminated

\* StopWait ends a wait: nothing is attempted after it, and only a Wait for
\* the function to fail takes it for a success.
THEOREM StopWaitStops == Spec => StopNeverRetries
<1>1. Init => StopInv
  BY DEF Init, StopInv
<1>2. IInv /\ StopInv /\ [Next]_vars
        => StopInv' /\ [stopped => pc' # "call" /\ (outcome' = "returned" => Negated)]_vars
  BY StepStop
<1> QED
  BY <1>1, <1>2, Invariance, PTL DEF Spec, StopNeverRetries

-----------------------------------------------------------------------------
(* Versions *)

Digits(v) == v.version \in Seq(Nat) /\ v.build \in Seq(Nat)

\* A digit of the version, or, after all of these, of the build; 0 where none
\* is written.
DigitAt(v, part, i) == Digit(IF part = 0 THEN v.version ELSE v.build, i)

\* Where v and w differ first, v has the greater digit; or they never differ.
Wins(v, w) ==
    \E part \in {0, 1}, i \in Nat \ {0} :
        /\ DigitAt(v, part, i) > DigitAt(w, part, i)
        /\ \A p \in {0, 1}, j \in Nat \ {0} : p < part \/ (p = part /\ j < i) =>
              DigitAt(v, p, j) = DigitAt(w, p, j)

Same(v, w) ==
    \A part \in {0, 1}, i \in Nat \ {0} : DigitAt(v, part, i) = DigitAt(w, part, i)

LEMMA Least ==
    ASSUME NEW T, T \subseteq Nat, T # {}
    PROVE  \E x \in T : \A y \in T : x <= y
<1> DEFINE R == OpToRel(<, Nat)
<1>1. PICK x \in T : \A y \in T : <<y, x>> \notin R
  <2> HIDE DEF R
  <2>1. IsWellFoundedOn(R, Nat)
    BY NatLessThanWellFounded DEF R
  <2> QED
    BY <2>1, WFMin
<1>2. ASSUME NEW y \in T PROVE x <= y
  <2>1. ~(y < x)
    BY <1>1 DEF OpToRel
  <2> QED
    BY <2>1
<1> QED
  BY <1>2

LEMMA DigitIsNumber ==
    ASSUME NEW v, Digits(v), NEW part \in {0, 1}, NEW i \in Nat \ {0}
    PROVE  DigitAt(v, part, i) \in Nat
<1>1. ASSUME NEW s \in Seq(Nat) PROVE Digit(s, i) \in Nat
  BY DEF Digit
<1> QED
  BY <1>1 DEF DigitAt, Digits

\* Where either of two lists of digits has one they are compared.
LEMMA PairsCompare ==
    ASSUME NEW s \in Seq(Nat), NEW t \in Seq(Nat)
    PROVE  /\ Pairs(s, t) \in Seq({-1, 0, 1})
           /\ \A i \in 1 .. Len(Pairs(s, t)) :
                 /\ Pairs(s, t)[i] = 1 => Digit(s, i) > Digit(t, i)
                 /\ Pairs(s, t)[i] = -1 => Digit(t, i) > Digit(s, i)
                 /\ Pairs(s, t)[i] = 0 => Digit(s, i) = Digit(t, i)
           /\ \A i \in Nat \ {0} : i > Len(Pairs(s, t)) => Digit(s, i) = Digit(t, i)
<1> DEFINE m == IF Len(s) <= Len(t) THEN Len(t) ELSE Len(s)
           r == Pairs(s, t)
<1>1. /\ m \in Nat /\ DOMAIN s = 1 .. Len(s) /\ DOMAIN t = 1 .. Len(t)
      /\ Len(s) \in Nat /\ Len(t) \in Nat
  OBVIOUS
<1>2. DOMAIN s \cup DOMAIN t = 1 .. m
  BY <1>1
<1>3. r = [i \in 1 .. m |-> Compare(Digit(s, i), Digit(t, i))]
  BY <1>2 DEF Pairs
<1>4. \A i \in 1 .. m : Digit(s, i) \in Nat /\ Digit(t, i) \in Nat
  BY <1>1 DEF Digit
<1>5. \A i \in 1 .. m : r[i] = Compare(Digit(s, i), Digit(t, i)) /\ r[i] \in {-1, 0, 1}
  <2> HIDE DEF m
  <2> QED
    BY <1>3 DEF Compare
<1>6. r \in Seq({-1, 0, 1}) /\ Len(r) = m
  <2>1. r \in [1 .. m -> {-1, 0, 1}]
    <3> HIDE DEF m
    <3> QED
      BY <1>3, <1>5
  <2> HIDE DEF m, r
  <2> QED
    BY <1>1, <2>1
<1>7. \A i \in Nat \ {0} : i > m => Digit(s, i) = 0 /\ Digit(t, i) = 0
  BY <1>1 DEF Digit
<1> HIDE DEF m, r
<1>8. \A i \in 1 .. m :
        /\ r[i] = 1 => Digit(s, i) > Digit(t, i)
        /\ r[i] = -1 => Digit(t, i) > Digit(s, i)
        /\ r[i] = 0 => Digit(s, i) = Digit(t, i)
  BY <1>4, <1>5 DEF Compare
<1> QED
  BY <1>1, <1>6, <1>7, <1>8 DEF r

\* reduce: the first result that is not 0.
LEMMA FirstIsLeast ==
    ASSUME NEW r \in Seq({-1, 0, 1})
    PROVE  \/ FirstDecides(r) = 0 /\ \A i \in 1 .. Len(r) : r[i] = 0
           \/ \E i \in 1 .. Len(r) :
                 /\ FirstDecides(r) = r[i] /\ r[i] \in {-1, 1}
                 /\ \A j \in 1 .. i - 1 : r[j] = 0
<1> DEFINE Deciding == {i \in DOMAIN r : r[i] # 0}
<1>1. DOMAIN r = 1 .. Len(r) /\ Len(r) \in Nat /\ \A i \in DOMAIN r : r[i] \in {-1, 0, 1}
  OBVIOUS
<1>2. CASE Deciding = {}
  <2>1. FirstDecides(r) = 0
    BY <1>2 DEF FirstDecides
  <2> QED
    BY <1>1, <1>2, <2>1
<1>3. CASE Deciding # {}
  <2> DEFINE k == CHOOSE i \in Deciding : \A j \in Deciding : i <= j
  <2>1. FirstDecides(r) = r[k]
    BY <1>3 DEF FirstDecides
  <2>2. Deciding \subseteq Nat
    BY <1>1
  <2>3. \E i \in Deciding : \A j \in Deciding : i <= j
    <3> HIDE DEF Deciding
    <3> QED
      BY <1>3, <2>2, Least
  <2>4. k \in Deciding /\ \A j \in Deciding : k <= j
    <3> HIDE DEF Deciding
    <3> QED
      BY <2>3
  <2> HIDE DEF k
  <2>5. k \in 1 .. Len(r) /\ r[k] \in {-1, 1}
    BY <1>1, <2>4
  <2>6. ASSUME NEW j \in 1 .. k - 1 PROVE r[j] = 0
    BY <1>1, <2>4, <2>5
  <2> QED
    BY <2>1, <2>5, <2>6
<1> QED
  BY <1>2, <1>3

\* What _cmp returns, in terms of the digits.
LEMMA CmpDecides ==
    ASSUME NEW v, NEW w, Digits(v), Digits(w), v.product = w.product
    PROVE  \/ Cmp(v, w) = 0 /\ Same(v, w)
           \/ Cmp(v, w) = 1 /\ Wins(v, w)
           \/ Cmp(v, w) = -1 /\ Wins(w, v)
<1> DEFINE p == Pairs(v.version, w.version)
           q == Pairs(v.build, w.build)
           r == p \o q
<1>1. /\ p \in Seq({-1, 0, 1})
      /\ \A i \in 1 .. Len(p) :
            /\ p[i] = 1 => DigitAt(v, 0, i) > DigitAt(w, 0, i)
            /\ p[i] = -1 => DigitAt(w, 0, i) > DigitAt(v, 0, i)
            /\ p[i] = 0 => DigitAt(v, 0, i) = DigitAt(w, 0, i)
      /\ \A i \in Nat \ {0} : i > Len(p) => DigitAt(v, 0, i) = DigitAt(w, 0, i)
  BY PairsCompare DEF Digits, DigitAt
<1>2. /\ q \in Seq({-1, 0, 1})
      /\ \A i \in 1 .. Len(q) :
            /\ q[i] = 1 => DigitAt(v, 1, i) > DigitAt(w, 1, i)
            /\ q[i] = -1 => DigitAt(w, 1, i) > DigitAt(v, 1, i)
            /\ q[i] = 0 => DigitAt(v, 1, i) = DigitAt(w, 1, i)
      /\ \A i \in Nat \ {0} : i > Len(q) => DigitAt(v, 1, i) = DigitAt(w, 1, i)
  <2>1. \A i : DigitAt(v, 1, i) = Digit(v.build, i) /\ DigitAt(w, 1, i) = Digit(w.build, i)
    BY DEF DigitAt
  <2>2. v.build \in Seq(Nat) /\ w.build \in Seq(Nat)
    BY DEF Digits
  <2>3. /\ q \in Seq({-1, 0, 1})
        /\ \A i \in 1 .. Len(q) :
              /\ q[i] = 1 => Digit(v.build, i) > Digit(w.build, i)
              /\ q[i] = -1 => Digit(w.build, i) > Digit(v.build, i)
              /\ q[i] = 0 => Digit(v.build, i) = Digit(w.build, i)
        /\ \A i \in Nat \ {0} : i > Len(q) => Digit(v.build, i) = Digit(w.build, i)
    BY <2>2, PairsCompare
  <2> HIDE DEF q
  <2> QED
    BY <2>1, <2>3
<1>3. Cmp(v, w) = FirstDecides(r)
  BY DEF Cmp
<1> HIDE DEF p, q
<1>4. /\ r \in Seq({-1, 0, 1}) /\ Len(r) = Len(p) + Len(q)
      /\ Len(p) \in Nat /\ Len(q) \in Nat
      /\ \A i \in 1 .. Len(p) : r[i] = p[i]
      /\ \A i \in 1 .. Len(q) : r[Len(p) + i] = q[i]
  BY <1>1, <1>2
<1> HIDE DEF r
<1>5. CASE FirstDecides(r) = 0 /\ \A i \in 1 .. Len(r) : r[i] = 0
  <2>1. \A i \in 1 .. Len(p) : p[i] = 0
    BY <1>4, <1>5
  <2>2. \A i \in 1 .. Len(q) : q[i] = 0
    <3> SUFFICES ASSUME NEW i \in 1 .. Len(q) PROVE q[i] = 0
      OBVIOUS
    <3>1. Len(p) + i \in 1 .. Len(r)
      BY <1>4
    <3> QED
      BY <1>4, <1>5, <3>1
  <2>3. \A i \in Nat \ {0} : DigitAt(v, 0, i) = DigitAt(w, 0, i)
    BY <1>1, <1>4, <2>1
  <2>4. \A i \in Nat \ {0} : DigitAt(v, 1, i) = DigitAt(w, 1, i)
    BY <1>2, <1>4, <2>2
  <2> QED
    BY <1>3, <1>5, <2>3, <2>4 DEF Same
<1>6. ASSUME NEW k \in 1 .. Len(r), FirstDecides(r) = r[k], r[k] \in {-1, 1},
             \A j \in 1 .. k - 1 : r[j] = 0
      PROVE  \/ Cmp(v, w) = 1 /\ Wins(v, w)
             \/ Cmp(v, w) = -1 /\ Wins(w, v)
  <2>1. CASE k <= Len(p)
    <3>1. k \in 1 .. Len(p) /\ k \in Nat \ {0} /\ r[k] = p[k]
      BY <1>4, <2>1
    <3>2. \A j \in Nat \ {0} : j < k => DigitAt(v, 0, j) = DigitAt(w, 0, j)
      <4> SUFFICES ASSUME NEW j \in Nat \ {0}, j < k
                   PROVE  DigitAt(v, 0, j) = DigitAt(w, 0, j)
        OBVIOUS
      <4>1. j \in 1 .. Len(p) /\ j \in 1 .. k - 1
        BY <3>1, <1>4
      <4> QED
        BY <1>1, <1>4, <1>6, <4>1
    <3>3. \/ p[k] = 1 /\ DigitAt(v, 0, k) > DigitAt(w, 0, k)
          \/ p[k] = -1 /\ DigitAt(w, 0, k) > DigitAt(v, 0, k)
      BY <1>1, <1>6, <3>1
    <3>4. CASE p[k] = 1 /\ DigitAt(v, 0, k) > DigitAt(w, 0, k)
      <4>1. Wins(v, w)
        BY <3>1, <3>2, <3>4 DEF Wins
      <4>2. Cmp(v, w) = 1
        BY <1>3, <1>6, <3>1, <3>4
      <4> QED
        BY <4>1, <4>2
    <3>5. CASE p[k] = -1 /\ DigitAt(w, 0, k) > DigitAt(v, 0, k)
      <4>1. Wins(w, v)
        BY <3>1, <3>2, <3>5 DEF Wins
      <4>2. Cmp(v, w) = -1
        BY <1>3, <1>6, <3>1, <3>5
      <4> QED
        BY <4>1, <4>2
    <3> QED
      BY <3>3, <3>4, <3>5
  <2>2. CASE k > Len(p)
    <3>1. PICK i \in 1 .. Len(q) : k = Len(p) + i
      <4>1. k - Len(p) \in 1 .. Len(q) /\ k = Len(p) + (k - Len(p))
        BY <1>4, <2>2
      <4> QED
        BY <4>1
    <3>2. i \in Nat \ {0} /\ r[k] = q[i]
      BY <1>4, <3>1
    <3>3. \A j \in Nat \ {0} : DigitAt(v, 0, j) = DigitAt(w, 0, j)
      <4> SUFFICES ASSUME NEW j \in Nat \ {0}, j <= Len(p)
                   PROVE  DigitAt(v, 0, j) = DigitAt(w, 0, j)
        BY <1>1, <1>4
      <4>1. j \in 1 .. Len(p) /\ j \in 1 .. k - 1
        BY <1>4, <2>2
      <4> QED
        BY <1>1, <1>4, <1>6, <4>1
    <3>4. \A j \in Nat \ {0} : j < i => DigitAt(v, 1, j) = DigitAt(w, 1, j)
      <4> SUFFICES ASSUME NEW j \in Nat \ {0}, j < i
                   PROVE  DigitAt(v, 1, j) = DigitAt(w, 1, j)
        OBVIOUS
      <4>1. j \in 1 .. Len(q) /\ Len(p) + j \in 1 .. k - 1
        BY <1>4, <3>1
      <4> QED
        BY <1>2, <1>4, <1>6, <4>1
    <3>5. \/ q[i] = 1 /\ DigitAt(v, 1, i) > DigitAt(w, 1, i)
          \/ q[i] = -1 /\ DigitAt(w, 1, i) > DigitAt(v, 1, i)
      BY <1>2, <1>6, <3>1, <3>2
    <3>6. CASE q[i] = 1 /\ DigitAt(v, 1, i) > DigitAt(w, 1, i)
      <4>1. Wins(v, w)
        BY <3>2, <3>3, <3>4, <3>6 DEF Wins
      <4>2. Cmp(v, w) = 1
        BY <1>3, <1>6, <3>2, <3>6
      <4> QED
        BY <4>1, <4>2
    <3>7. CASE q[i] = -1 /\ DigitAt(w, 1, i) > DigitAt(v, 1, i)
      <4>1. Wins(w, v)
        BY <3>2, <3>3, <3>4, <3>7 DEF Wins
      <4>2. Cmp(v, w) = -1
        BY <1>3, <1>6, <3>2, <3>7
      <4> QED
        BY <4>1, <4>2
    <3> QED
      BY <3>5, <3>6, <3>7
  <2> QED
    BY <1>4, <2>1, <2>2
<1> QED
  BY <1>3, <1>4, <1>5, <1>6, FirstIsLeast

\* Of two different places one is first.
LEMMA WinsOrders ==
    ASSUME NEW u, NEW v, NEW w, Digits(u), Digits(v), Digits(w)
    PROVE  /\ ~(Wins(v, w) /\ Wins(w, v)) /\ ~(Wins(v, w) /\ Same(v, w))
           /\ Same(v, w) => Same(w, v)
           /\ Same(u, v) /\ Same(v, w) => Same(u, w)
           /\ Wins(u, v) /\ Same(v, w) => Wins(u, w)
           /\ Same(u, v) /\ Wins(v, w) => Wins(u, w)
           /\ Wins(u, v) /\ Wins(v, w) => Wins(u, w)
<1>0. \A part \in {0, 1}, i \in Nat \ {0} :
         /\ DigitAt(u, part, i) \in Nat /\ DigitAt(v, part, i) \in Nat
         /\ DigitAt(w, part, i) \in Nat
  BY DigitIsNumber
<1>1. ~(Wins(v, w) /\ Wins(w, v)) /\ ~(Wins(v, w) /\ Same(v, w))
  <2>1. ASSUME Wins(v, w), Wins(w, v) PROVE FALSE
    <3>1. PICK a \in {0, 1}, i \in Nat \ {0} :
             /\ DigitAt(v, a, i) > DigitAt(w, a, i)
             /\ \A p \in {0, 1}, j \in Nat \ {0} : p < a \/ (p = a /\ j < i) =>
                   DigitAt(v, p, j) = DigitAt(w, p, j)
      BY <2>1 DEF Wins
    <3>2. PICK b \in {0, 1}, k \in Nat \ {0} :
             /\ DigitAt(w, b, k) > DigitAt(v, b, k)
             /\ \A p \in {0, 1}, j \in Nat \ {0} : p < b \/ (p = b /\ j < k) =>
                   DigitAt(w, p, j) = DigitAt(v, p, j)
      BY <2>1 DEF Wins
    <3>3. a = b /\ i = k
      BY <1>0, <3>1, <3>2
    <3> QED
      BY <1>0, <3>1, <3>2, <3>3
  <2>2. ASSUME Wins(v, w), Same(v, w) PROVE FALSE
    BY <1>0, <2>2 DEF Wins, Same
  <2> QED
    BY <2>1, <2>2
<1>2. /\ Same(v, w) => Same(w, v)
      /\ Same(u, v) /\ Same(v, w) => Same(u, w)
  BY DEF Same
<1>3. /\ Wins(u, v) /\ Same(v, w) => Wins(u, w)
      /\ Same(u, v) /\ Wins(v, w) => Wins(u, w)
  BY DEF Wins, Same
<1>4. ASSUME Wins(u, v), Wins(v, w) PROVE Wins(u, w)
  <2>1. PICK a \in {0, 1}, i \in Nat \ {0} :
           /\ DigitAt(u, a, i) > DigitAt(v, a, i)
           /\ \A p \in {0, 1}, j \in Nat \ {0} : p < a \/ (p = a /\ j < i) =>
                 DigitAt(u, p, j) = DigitAt(v, p, j)
    BY <1>4 DEF Wins
  <2>2. PICK b \in {0, 1}, k \in Nat \ {0} :
           /\ DigitAt(v, b, k) > DigitAt(w, b, k)
           /\ \A p \in {0, 1}, j \in Nat \ {0} : p < b \/ (p = b /\ j < k) =>
                 DigitAt(v, p, j) = DigitAt(w, p, j)
    BY <1>4 DEF Wins
  <2>3. CASE a < b \/ (a = b /\ i < k)
    <3>1. DigitAt(u, a, i) > DigitAt(w, a, i)
      BY <2>1, <2>2, <2>3
    <3>2. \A p \in {0, 1}, j \in Nat \ {0} : p < a \/ (p = a /\ j < i) =>
             DigitAt(u, p, j) = DigitAt(w, p, j)
      BY <2>1, <2>2, <2>3
    <3> QED
      BY <3>1, <3>2 DEF Wins
  <2>4. CASE b < a \/ (a = b /\ k <= i)
    <3>1. DigitAt(u, b, k) > DigitAt(w, b, k)
      <4>1. CASE b < a \/ k < i
        BY <1>0, <2>1, <2>2, <2>4, <4>1
      <4>2. CASE a = b /\ k = i
        BY <1>0, <2>1, <2>2, <4>2
      <4> QED
        BY <2>4, <4>1, <4>2
    <3>2. \A p \in {0, 1}, j \in Nat \ {0} : p < b \/ (p = b /\ j < k) =>
             DigitAt(u, p, j) = DigitAt(w, p, j)
      BY <2>1, <2>2, <2>4
    <3> QED
      BY <3>1, <3>2 DEF Wins
  <2> QED
    BY <2>3, <2>4
<1> QED
  BY <1>1, <1>2, <1>3, <1>4

\* _cmp orders the versions of a product, however many digits each has.
THEOREM ComparisonIsOrder ==
    ASSUME NEW v, NEW w, NEW u, Digits(v), Digits(w), Digits(u), v.product = w.product
    PROVE  /\ Cmp(v, w) \in {-1, 0, 1} /\ Cmp(w, v) = -Cmp(v, w)
           /\ Le(v, u) /\ Le(u, w) => Le(v, w)
           /\ Lt(v, u) /\ Le(u, w) => Lt(v, w)
           /\ Le(v, u) /\ Lt(u, w) => Lt(v, w)
<1>1. Cmp(v, w) \in {-1, 0, 1} /\ Cmp(w, v) = -Cmp(v, w)
  BY CmpDecides, WinsOrders
<1>2. ASSUME Le(v, u), Le(u, w)
      PROVE  /\ Le(v, w)
             /\ Lt(v, u) \/ Lt(u, w) => Lt(v, w)
  <2>1. u.product = v.product /\ u.product = w.product
    BY <1>2 DEF Le, Cmp, NoResult
  <2>2. /\ \/ Lt(v, u) /\ Wins(u, v)
           \/ ~Lt(v, u) /\ Same(v, u)
        /\ \/ Lt(u, w) /\ Wins(w, u)
           \/ ~Lt(u, w) /\ Same(u, w)
    <3>1. /\ \/ Cmp(v, u) = 0 /\ Same(v, u)
             \/ Cmp(v, u) = 1
             \/ Cmp(v, u) = -1 /\ Wins(u, v)
          /\ \/ Cmp(u, w) = 0 /\ Same(u, w)
             \/ Cmp(u, w) = 1
             \/ Cmp(u, w) = -1 /\ Wins(w, u)
      BY <2>1, CmpDecides
    <3> QED
      BY <1>2, <3>1 DEF Le, Lt
  <2>3. \/ Cmp(v, w) = 0 /\ Same(v, w)
        \/ Cmp(v, w) = 1 /\ Wins(v, w)
        \/ Cmp(v, w) = -1 /\ Wins(w, v)
    BY <2>1, CmpDecides
  <2>4. \/ Wins(w, v)
        \/ ~Lt(v, u) /\ ~Lt(u, w) /\ Same(v, w)
    BY <2>2, WinsOrders
  <2>5. Wins(w, v) => ~Wins(v, w) /\ ~Same(v, w)
    BY WinsOrders
  <2>6. Same(v, w) => ~Wins(v, w) /\ ~Wins(w, v)
    BY WinsOrders
  <2> QED
    BY <2>3, <2>4, <2>5, <2>6 DEF Le, Lt
<1> QED
  BY <1>1, <1>2 DEF Le, Lt

\* Every answer to a comparison agrees with that order, for any bounds on the
\* versions that are asked about.
THEOREM AnswersAreOrdered ==
    AskCompare /\ [][AnswerCompare]_<<question, answer>> => []VersionsAreOrdered
<1> DEFINE Answered == /\ question \in Comparisons
                       /\ answer # NoAnswer => answer = Cmp(question.v, question.w)
<1>1. AskCompare => Answered
  BY DEF AskCompare, Ask
<1>2. Answered /\ [AnswerCompare]_<<question, answer>> => Answered'
  BY DEF AnswerCompare
<1>3. Answered => VersionsAreOrdered
  <2> SUFFICES ASSUME Answered, Compared, question.v.product = question.w.product
               PROVE  /\ Cmp(question.w, question.v) = -answer
                      /\ \A u \in AllVersions :
                          /\ Le(question.v, u) /\ Le(u, question.w) => answer \in {-1, 0}
                          /\ Lt(question.v, u) /\ Le(u, question.w) => answer = -1
    BY DEF VersionsAreOrdered
  <2>1. answer = Cmp(question.v, question.w)
    BY DEF Compared
  <2>2. question.v \in AllVersions /\ question.w \in AllVersions
    BY DEF Comparisons
  <2>3. ASSUME NEW v \in AllVersions PROVE Digits(v)
    <3>1. ASSUME NEW n \in Nat, NEW s \in [1 .. n -> 0 .. MaxDigit] PROVE s \in Seq(Nat)
      BY <3>1, VersionsAssumption
    <3>2. 1 .. MaxVersion \subseteq Nat /\ 0 .. MaxBuild \subseteq Nat
      OBVIOUS
    <3> QED
      BY <3>1, <3>2 DEF AllVersions, Digits
  <2> QED
    BY <2>1, <2>2, <2>3, ComparisonIsOrder DEF Le, Lt
<1> QED
  BY <1>1, <1>2, <1>3, PTL
=============================================================================
