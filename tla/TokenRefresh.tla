---------------------------- MODULE TokenRefresh ----------------------------
(***************************************************************************)
(* The token of a REST interface and the thread that keeps it from         *)
(* expiring: interfaces/rest/emapi/resources.py, EmapiInterface.open,      *)
(* close and RestIfcRefresh.  (ApicInterface and ApicRefresh, in           *)
(* interfaces/rest/apic/resources.py, follow the same scheme with a PAUSE  *)
(* of 30 seconds.)                                                         *)
(*                                                                         *)
(* The module is about one opening of the interface: the next one makes    *)
(* another client, Event and thread and shares nothing with this one.      *)
(*                                                                         *)
(* Time is counted in half seconds, the unit of the code's "- 0.5", and by *)
(* clocks that a tick advances together: elapsed is current_time -         *)
(* initial_time of the thread, left what remains of its wait, spent the    *)
(* time its request has taken, age how long ago the device issued the      *)
(* token that requests carry.  Logging in, a request, and waking from a    *)
(* wait are each late by Delay at most.                                    *)
(***************************************************************************)
EXTENDS Integers

CONSTANTS
    PAUSE,      \* RestIfcRefresh.PAUSE
    Timeouts,   \* how long the tokens of the device may be valid
    Delay,      \* how late whatever takes time may be
    MaxAge      \* bound: ages are not counted further

ASSUME RefreshAssumption ==
    /\ PAUSE \in Nat \ {0}
    /\ Timeouts \subseteq Nat \ {0}
    /\ Delay \in Nat
    /\ MaxAge \in Nat
    /\ \A t \in Timeouts : MaxAge > t + 3 * Delay

VARIABLES
    interface,  \* the interface: new, open or closed
    timeout,    \* token_timeout, as the device told it at the login
    age,
    thread,     \* where the refresh thread is
    stop,       \* t_stop is set
    elapsed,
    left,
    spent

vars == <<interface, timeout, age, thread, stop, elapsed, left, spent>>

clocks == <<elapsed, left, spent>>

TypeOK ==
    /\ interface \in {"new", "open", "closed"}
    /\ timeout \in Timeouts \cup {0}
    /\ age \in 0 .. MaxAge
    /\ thread \in {"none", "check", "post", "wait", "done", "failed"}
    /\ stop \in BOOLEAN
    /\ elapsed \in Nat
    /\ left \in -Delay .. PAUSE
    /\ spent \in 0 .. Delay

\* There is no thread yet, or no more.
Alive == thread \in {"check", "post", "wait"}

Init ==
    /\ interface = "new" /\ timeout = 0 /\ age = 0
    /\ thread = "none" /\ stop = FALSE
    /\ elapsed = 0 /\ left = 0 /\ spent = 0

-----------------------------------------------------------------------------
(* What start makes of the timeout *)

\* Less than PAUSE: the token is to be looked at shortly before it expires.
Short == timeout < PAUSE

\* Mutant: the pause is not taken off the timeout.
WholeTimeout == timeout

Interval == IF Short THEN timeout ELSE timeout - PAUSE

Pause == IF Short THEN Interval - 1 ELSE PAUSE

-----------------------------------------------------------------------------
(* The thread that uses the interface *)

\* The login yields a token, and as a rule a refresh token, without which there
\* is no thread.
Open ==
    /\ interface = "new"
    /\ interface' = "open"
    /\ timeout' \in Timeouts
    /\ age' \in 0 .. Delay
    /\ thread' \in {"check", "none"}
    /\ UNCHANGED <<stop, clocks>>

\* close does not wait for the thread to end.
Close ==
    /\ interface = "open"
    /\ interface' = "closed"
    /\ stop' = (thread # "none")
    /\ UNCHANGED <<timeout, age, thread, clocks>>

-----------------------------------------------------------------------------
(* refresh *)

End ==
    /\ thread = "check" /\ stop
    /\ thread' = "done"
    /\ UNCHANGED <<interface, timeout, age, stop, clocks>>

\* The interval has passed: the refresh token is exchanged for a token.
Exchange ==
    /\ thread = "check" /\ ~stop
    /\ elapsed >= Interval
    /\ thread' = "post"
    /\ spent' = 0
    /\ UNCHANGED <<interface, timeout, age, stop, elapsed, left>>

\* Mutant: initial_time is set at every check.
NotYetFromNow ==
    /\ thread = "check" /\ ~stop
    /\ elapsed < Interval
    /\ thread' = "wait"
    /\ elapsed' = 0
    /\ left' = Pause
    /\ UNCHANGED <<interface, timeout, age, stop, spent>>

NotYet ==
    /\ thread = "check" /\ ~stop
    /\ elapsed < Interval
    /\ thread' = "wait"
    /\ left' = Pause
    /\ UNCHANGED <<interface, timeout, age, stop, elapsed, spent>>

\* Requests carry the new token, which the device issued while the exchange was
\* on its way; initial_time becomes the time before the exchange.
Answer ==
    /\ thread = "post"
    /\ age' \in 0 .. spent
    /\ elapsed' = spent
    /\ thread' = "wait"
    /\ left' = Pause
    /\ spent' = 0
    /\ UNCHANGED <<interface, timeout, stop>>

\* The exchange raises, and nobody catches it.
Fail ==
    /\ thread = "post"
    /\ thread' = "failed"
    /\ spent' = 0
    /\ UNCHANGED <<interface, timeout, age, stop, elapsed, left>>

\* Mutant: the Event is cleared when it has been seen.
WakeAndClear ==
    /\ thread = "wait"
    /\ left <= 0 \/ stop
    /\ thread' = "check"
    /\ left' = 0
    /\ stop' = FALSE
    /\ UNCHANGED <<interface, timeout, age, elapsed, spent>>

\* stop_event.wait(pause) returns after pause, or when the Event is set.
Wake ==
    /\ thread = "wait"
    /\ left <= 0 \/ stop
    /\ thread' = "check"
    /\ left' = 0
    /\ UNCHANGED <<interface, timeout, age, stop, elapsed, spent>>

-----------------------------------------------------------------------------

\* Time passes, except that nothing is later than Delay.
Tick ==
    /\ interface # "new"
    /\ thread # "check"
    /\ thread = "post" => spent < Delay
    /\ thread = "wait" => left > -Delay
    /\ age' = IF age < MaxAge THEN age + 1 ELSE age
    /\ elapsed' = IF Alive THEN elapsed + 1 ELSE elapsed
    /\ spent' = IF thread = "post" THEN spent + 1 ELSE spent
    /\ left' = IF thread = "wait" THEN left - 1 ELSE left
    /\ UNCHANGED <<interface, timeout, thread, stop>>

Refresh == End \/ Exchange \/ NotYet \/ Answer \/ Fail \/ Wake

Next == Open \/ Close \/ Refresh \/ Tick

Spec == Init /\ [][Next]_vars

\* The thread runs, and every exchange is answered or fails (it has a timeout).
FairSpec == Spec /\ WF_vars(Refresh) /\ WF_vars(Tick)

-----------------------------------------------------------------------------
(* What the refreshing is for *)

Refreshed == interface = "open" /\ Alive

\* When a token is valid for longer than PAUSE and the delays, but not for more
\* than twice PAUSE, every check refreshes it, and no request of the interface
\* carries a token that has expired.  (300 seconds, for a PAUSE of 270.)
NeverExpired ==
    Refreshed /\ PAUSE + 3 * Delay < timeout /\ timeout <= 2 * PAUSE => age < timeout

\* Otherwise a token may expire between two checks, but is then replaced: it is
\* overdue by three delays at most, unless it was to be looked at shortly before
\* it expires.
OverdueBounded == Refreshed /\ ~Short => age <= timeout + 3 * Delay

\* A thread that is told to stop ends, whatever it is doing.
StoppedThreadEnds == stop ~> ~Alive

\* As long as the interface is open and no exchange fails the token is replaced
\* by a new one, again and again.
AlwaysRenewed == Refreshed ~> ~Refreshed \/ (thread = "wait" /\ age <= Delay)

-----------------------------------------------------------------------------
(* The inductive invariant behind these *)

\* initial_time is before the time the token was issued, a login excepted.
AgeIsElapsed == Alive => age <= elapsed + Delay

\* A wait was begun by a check that found less than interval elapsed, or by an
\* answer, which brought a new token.
Waiting ==
    /\ thread = "wait" =>
          \/ elapsed + left < Interval + Pause
          \/ age + left <= Delay + Pause
    /\ thread = "check" /\ ~stop =>
          \/ elapsed < Interval + Pause + Delay
          \/ age <= Pause + 2 * Delay
    /\ thread = "post" /\ ~stop =>
          \/ elapsed < Interval + Pause + Delay + spent
          \/ age <= Pause + 2 * Delay + spent

\* When interval is not longer than the pause a check refreshes, the first excepted.
EveryCheck ==
    Alive /\ ~Short /\ timeout <= 2 * PAUSE =>
      /\ thread = "wait" => age + left <= Delay + PAUSE /\ elapsed + left >= PAUSE
      /\ thread = "check" /\ ~stop =>
            \/ elapsed = 0 /\ age <= Delay
            \/ elapsed >= PAUSE /\ age <= PAUSE + 2 * Delay
      /\ thread = "post" /\ ~stop => age <= PAUSE + 2 * Delay + spent

IInv ==
    /\ TypeOK
    /\ Alive => timeout \in Timeouts
    /\ interface = "new" => thread = "none" /\ ~stop /\ elapsed = 0
    /\ interface = "open" => ~stop
    /\ AgeIsElapsed
    /\ Waiting
    /\ EveryCheck

=============================================================================
