-------------------------------- MODULE Wait --------------------------------
(***************************************************************************)
(* Waiting for a criterion: utils/wait.py, Wait.run, as CallableWait and   *)
(* CommandWait (commands/base.py) specialise it.                           *)
(*                                                                         *)
(* One attempt calls the function and tests its result, undoes it when     *)
(* either raised, always cleans up, and then decides: return, give up, or  *)
(* sleep and try again.  run is a try statement in a while loop, and the   *)
(* decision is taken INSIDE its finally clause; which exception is on its  *)
(* way out of the try is therefore part of the state (pending).            *)
(*                                                                         *)
(* The attempt of CommandWait is prep and setup of a Command, its undoing  *)
(* is revert; the attempt of a plain wait() is the function it was given,  *)
(* which has nothing to undo or to clean.  Time is an integer; only the    *)
(* attempt and the sleep take any.                                         *)
(***************************************************************************)
EXTENDS Integers

CONSTANTS
    Timeout,        \* the three times a Wait is made with
    Interval,
    Stabilize,
    Negated,        \* a Wait for the function to fail
    Truthy,         \* what the condition may return when it is met
    MaxAttempt,     \* how long an attempt may take
    Handling        \* whether run is called while an exception is being handled

ASSUME WaitAssumption ==
    /\ Timeout \in Nat
    /\ Interval \in Nat \ {0}
    /\ Stabilize \in Nat
    /\ Negated \in BOOLEAN
    /\ 1 \in Truthy                \* True
    /\ Truthy \subseteq Nat \ {0}
    /\ MaxAttempt \in Nat
    /\ Handling \in BOOLEAN

\* What the condition returns when it is not met; and a time that has not come.
Falsy == 0
Never == -1

VARIABLES
    now,
    end,            \* the time from which no attempt is begun
    lastTime,       \* when the attempt before this one was judged
    stable,         \* for how long the criterion has been met, as run counts it
    success,
    lastSuccess,
    lastExc,        \* what the attempt raised
    pending,        \* the exception the finally clause holds back
    pc,
    outcome,
    command,        \* the Command of a CommandWait: whether an attempt left traces
    failedAt,       \* history: when the last attempt that failed was judged
    metSince,       \* history: when the first of the latest successes was judged
    stopped         \* history: whether the function raised StopWait

vars == <<now, end, lastTime, stable, success, lastSuccess, lastExc, pending, pc,
          outcome, command, failedAt, metSince, stopped>>

history == <<failedAt, metSince>>

Exceptions == {"error", "StopWait"}

Outcomes == {"returned", "WaitTimedOut", "StopWait", "RuntimeError", "outer",
             "reverting", "cleaning"}

TypeOK ==
    /\ now \in Nat /\ end \in Nat /\ lastTime \in Nat
    /\ stable \in Nat /\ failedAt \in Nat
    /\ success \in {Falsy} \cup Truthy
    /\ lastSuccess \in {Falsy} \cup Truthy
    /\ lastExc \in Exceptions \cup {"none"}
    /\ pending \in {"none", "reverting"}
    /\ pc \in {"loop", "call", "handle", "cleanup", "judge", "sleep", "done"}
    /\ outcome \in Outcomes \cup {"none"}
    /\ command \in {"clean", "used", "reverted"}
    /\ metSince \in Nat \cup {Never}
    /\ stopped \in BOOLEAN

Init ==
    /\ now = 0 /\ end = Timeout /\ lastTime = 0
    /\ stable = 0
    /\ success = Falsy /\ lastSuccess = Falsy
    /\ lastExc = "none" /\ pending = "none"
    /\ pc = "loop" /\ outcome = "none"
    /\ command = "clean"
    /\ failedAt = 0 /\ metSince = Never /\ stopped = FALSE

Finish(how) == pc' = "done" /\ outcome' = how

-----------------------------------------------------------------------------
\* while time.time() < end
Begin ==
    /\ pc = "loop"
    /\ now < end
    /\ pc' = "call"
    /\ success' = Falsy
    /\ lastExc' = "none"
    /\ UNCHANGED <<now, end, lastTime, stable, lastSuccess, pending, outcome,
                   command, history, stopped>>

GiveUp ==
    /\ pc = "loop"
    /\ now >= end
    /\ Finish("WaitTimedOut")
    /\ UNCHANGED <<now, end, lastTime, stable, success, lastSuccess, lastExc,
                   pending, command, history, stopped>>

\* self.function(...), self.test_result(): the condition is met or not, or one
\* of the two raises.
Call ==
    /\ pc = "call"
    /\ \E duration \in 0 .. MaxAttempt : now' = now + duration
    /\ command' = "used"
    /\ \/ /\ success' \in {Falsy} \cup Truthy
          /\ pc' = "cleanup"
          /\ UNCHANGED <<lastExc, stopped>>
       \/ /\ lastExc' \in Exceptions
          /\ stopped' = (lastExc' = "StopWait")
          /\ pc' = "handle"
          /\ UNCHANGED success
    /\ UNCHANGED <<end, lastTime, stable, lastSuccess, pending, outcome, history>>

\* The except clause: test_error, which makes the Command revert and may raise
\* itself.
Handle ==
    /\ pc = "handle"
    /\ command' = "reverted"
    /\ pc' = "cleanup"
    /\ \/ /\ success' = IF Negated THEN 1 ELSE Falsy
          /\ UNCHANGED pending
       \/ /\ pending' = "reverting"
          /\ UNCHANGED success
    /\ UNCHANGED <<now, end, lastTime, stable, lastSuccess, lastExc, outcome,
                   history, stopped>>

\* Mutant: the cleanup is left out when the attempt raised.
CleanupIfCalled ==
    /\ pc = "cleanup"
    /\ command' = IF lastExc = "none" THEN "clean" ELSE command
    /\ pc' = "judge"
    /\ UNCHANGED <<now, end, lastTime, stable, success, lastSuccess, lastExc,
                   pending, outcome, history, stopped>>

\* finally: self.cleanup().  An exception of its own leaves run at once.
Cleanup ==
    /\ pc = "cleanup"
    /\ \/ pc' = "judge" /\ command' = "clean" /\ UNCHANGED outcome
       \/ Finish("cleaning") /\ UNCHANGED command
    /\ UNCHANGED <<now, end, lastTime, stable, success, lastSuccess, lastExc,
                   pending, history, stopped>>

-----------------------------------------------------------------------------
(* Still in the finally clause: the decision *)

\* How long the criterion has been met.
\* Mutant: a failure does not set it back.
NeverReset == IF success = Falsy THEN stable ELSE stable + (now - lastTime)

\* Mutant: only the time since the success before is looked at.
LastStepOnly == IF success = Falsy THEN 0 ELSE now - lastTime

Stable ==
    IF success # Falsy /\ (stable = 0 \/ lastSuccess = success)
      THEN stable + (now - lastTime)
      ELSE 0

\* break: the criterion is met and stable.
Break == success # Falsy /\ Stable >= Stabilize

\* A bare raise in a finally clause raises what is pending.  When the except
\* clause has dealt with the exception nothing is: then it raises what run's
\* caller is handling, and without that a RuntimeError.
Reraised ==
    IF pending # "none" THEN pending
    ELSE IF Handling THEN "outer" ELSE "RuntimeError"

\* Mutant: the wait goes on after StopWait.
NeverStops == FALSE

Stops == lastExc = "StopWait"

\* progress(), called after a failure, may raise: run logs that and goes on.
Judge ==
    /\ pc = "judge"
    /\ stable' = Stable
    /\ failedAt' = IF success = Falsy THEN now ELSE failedAt
    /\ metSince' = IF success = Falsy THEN Never
                   ELSE IF metSince = Never THEN now ELSE metSince
    /\ \/ Break /\ Finish("returned") /\ UNCHANGED <<lastSuccess, lastTime>>
       \/ ~Break /\ Stops /\ Finish(Reraised) /\ UNCHANGED <<lastSuccess, lastTime>>
       \/ /\ ~Break /\ ~Stops
          /\ pc' = "sleep"
          /\ lastSuccess' = success
          /\ lastTime' = now
          /\ UNCHANGED outcome
    /\ UNCHANGED <<now, end, success, lastExc, pending, command, stopped>>

\* Mutant: no sleep between attempts.
Spin ==
    /\ pc = "sleep"
    /\ IF pending = "none" THEN pc' = "loop" /\ UNCHANGED outcome
                           ELSE Finish(pending)
    /\ UNCHANGED <<now, end, lastTime, stable, success, lastSuccess, lastExc,
                   pending, command, history, stopped>>

\* time.sleep(self.interval), the end of the finally clause: what was pending
\* leaves run after the sleep.
Sleep ==
    /\ pc = "sleep"
    /\ now' = now + Interval
    /\ IF pending = "none" THEN pc' = "loop" /\ UNCHANGED outcome
                           ELSE Finish(pending)
    /\ UNCHANGED <<end, lastTime, stable, success, lastSuccess, lastExc, pending,
                   command, history, stopped>>

Terminated == pc = "done" /\ UNCHANGED vars

Next ==
    \/ Begin \/ GiveUp \/ Call \/ Handle \/ Cleanup \/ Judge \/ Sleep
    \/ Terminated

Spec == Init /\ [][Next]_vars

\* The thread that waits runs, and the function returns.
FairSpec == Spec /\ WF_vars(Next)

-----------------------------------------------------------------------------
(* What a wait promises *)

\* When run returns, no attempt has failed for the last Stabilize seconds: the
\* failure that stable is counted from is the latest there was.
SettledSince == outcome = "returned" => now - failedAt >= Stabilize

\* A criterion that stays met is never given up on: when run times out, it had
\* not been met for as long as Stabilize (and one sleep, during which the time
\* may run out) when the time was up.  The condition is taken to return a
\* boolean, as WaitableCommand asks (commands/base.py:151).
NoFalseTimeout ==
    outcome = "WaitTimedOut" /\ metSince # Never => end - metSince < Stabilize + Interval

\* The time is checked only before an attempt: run outlasts its timeout by an
\* attempt and a sleep, never by more.
OverrunBounded == now <= end + MaxAttempt + Interval

\* No attempt finds the traces of the one before it, and none are left when
\* run ends, whatever raised: function, condition, revert; only a cleanup that
\* fails leaves them.
LeavesNoTrace ==
    pc \in {"loop", "sleep", "done"} =>
        command = "clean" \/ outcome = "cleaning"

\* StopWait is not a success, except for a Wait for the function to fail, and
\* no attempt follows it.
StopNeverRetries ==
    [][stopped => pc' # "call" /\ (outcome' = "returned" => Negated)]_vars

\* run ends, in any case.
Terminates == <>(pc = "done")

-----------------------------------------------------------------------------
(* The inductive invariant behind these *)

\* The part of stable that the properties rest on: it is counted from the last
\* failure.  (The judgement that ends run may come after another one.)
CountedFromFailure ==
    /\ lastTime <= now /\ failedAt <= now
    /\ pc # "done" => failedAt <= lastTime /\ stable <= lastTime - failedAt
    /\ outcome # "none" => pc = "done"

\* Where the time can be in each part of the loop.
InTime ==
    /\ pc = "call" => now < end
    /\ pc \in {"handle", "cleanup", "judge", "sleep"} => now <= end + MaxAttempt
    /\ OverrunBounded

\* The Command in each part of the loop.
Traces == LeavesNoTrace /\ (pc \in {"call", "judge"} => command = "clean")

\* When the condition returns a boolean, stable has counted every second since
\* the first success, and it is less than Stabilize when another attempt is due.
CountedFully ==
    Truthy = {1} =>
        /\ pc # "done" /\ metSince # Never =>
              /\ metSince <= lastTime
              /\ lastTime - metSince <= stable
              /\ stable < Stabilize
              /\ lastSuccess = 1
        /\ pc \in {"loop", "sleep"} => now <= lastTime + Interval
        /\ pc = "sleep" => now = lastTime
        /\ NoFalseTimeout

IInv ==
    /\ TypeOK
    /\ CountedFromFailure
    /\ SettledSince
    /\ InTime
    /\ Traces
    /\ CountedFully

=============================================================================
