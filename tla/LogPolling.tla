----------------------------- MODULE LogPolling -----------------------------
(***************************************************************************)
(* The logs of tasks, as a web page follows them: web/tasks.py saves the   *)
(* lines of a task under one key of memcached, web/modules/common.py       *)
(* answers with the lines after an offset, and web/media/app.base.js polls *)
(* every second, whether or not the last answer has come.                  *)
(*                                                                         *)
(* A line is its number.  The handler keeps the last Keep lines and counts *)
(* all of them: what it saves is told by the count.  A page looks at one   *)
(* task at a time, and is turned to another by its Start button, or by the *)
(* user going back and forth; its logs and its offset do not always go     *)
(* with the task.  A refresh is a request and a timer, set when it is      *)
(* sent; the answer clears the timer of its own refresh, or does not.      *)
(***************************************************************************)
EXTENDS Integers, FiniteSets

CONSTANTS
    Keep,           \* MAX_LOG_LINE: the lines the handler's buffer holds
    MaxLines,       \* bound: the lines the first task logs; each next one a line less
    MaxTasks,       \* bound: the tasks there are, the first of which was linked to
    MaxFlight,      \* bound: the refreshes on their way at a time
    MaxMoves,       \* bound: how often the user opens a task, leaves it or starts
                    \* one, or memcached loses the logs of one
    Patience,       \* pending_count
    None

ASSUME PollingAssumption ==
    {Keep, MaxLines, MaxTasks, MaxFlight, MaxMoves, Patience} \subseteq Nat \ {0}

VARIABLES
    status,     \* the state of each task
    tip,        \* MyMemoryHandler.tip of each
    meta,       \* memcached: the tip that is saved, 0 while no logs are
    moves,      \* how often the user has turned the page, or memcached lost a key
    hash,       \* the task in the page's address, or None
    task,       \* page: task_id()
    patience,   \* page: pending_count, not counted below 0
    offset,     \* page: self.tip
    shown,      \* page: the lines in self.logs
    doubled,    \* page: whether a line is in it more than once
    flight,     \* the refreshes that have no answer yet
    timers,     \* timers that are set, of refreshes that were answered
    gone,       \* history: lines that had left the buffer when they were asked for,
                \* or that were counted as seen and a move of the user's took away
    late,       \* history: a refresh was sent while another had no answer
    torn        \* history: the offset and the logs are not those of the task

server  == <<status, tip, meta>>
place   == <<hash, task>>
logs    == <<offset, shown, doubled>>
page    == <<place, patience, logs>>
history == <<gone, late, torn>>
vars    == <<server, page, flight, timers, history, moves>>

Tasks == 1 .. MaxTasks
Slots == 1 .. MaxFlight
Lines == 1 .. MaxLines
Active == {"PENDING", "STARTED"}
States == Active \cup {"NEW", "ENDED"}

Refresh ==
    [task: Tasks, s: 0 .. MaxLines, upto: 0 .. MaxLines, timer: BOOLEAN,
     at: {"sent", "read", "answered"}, status: States]

TypeOK ==
    /\ status \in [Tasks -> States]
    /\ tip \in [Tasks -> 0 .. MaxLines]
    /\ meta \in [Tasks -> 0 .. MaxLines] /\ \A t \in Tasks : meta[t] \in {0, tip[t]}
    /\ moves \in 0 .. MaxMoves
    /\ hash \in Tasks \cup {None} /\ task \in Tasks
    /\ patience \in 0 .. Patience
    /\ offset \in 0 .. MaxLines
    /\ shown \subseteq Lines /\ gone \subseteq Lines
    /\ doubled \in BOOLEAN
    /\ flight \in [Slots -> Refresh \cup {None}]
    /\ timers \in Nat
    /\ late \in BOOLEAN /\ torn \in BOOLEAN

\* There is a task, and a page that is not at it yet.
Init ==
    /\ status = [t \in Tasks |-> IF t = 1 THEN "PENDING" ELSE "NEW"]
    /\ tip = [t \in Tasks |-> 0] /\ meta = tip
    /\ moves = 0
    /\ hash = None /\ task = 1
    /\ patience = Patience
    /\ offset = 0 /\ shown = {} /\ doubled = FALSE
    /\ flight = [i \in Slots |-> None]
    /\ timers = 0
    /\ gone = {}
    /\ late = FALSE /\ torn = FALSE

-----------------------------------------------------------------------------
(* A task *)

Move == moves < MaxMoves /\ moves' = moves + 1

TaskStarts(t) ==
    /\ status[t] = "PENDING"
    /\ status' = [status EXCEPT ![t] = "STARTED"]
    /\ UNCHANGED <<tip, meta, page, flight, timers, history, moves>>

\* MyMemoryHandler.emit: one set of the whole buffer and the count.
Emit(t) ==
    /\ status[t] = "STARTED" /\ tip[t] <= MaxLines - t
    /\ tip' = [tip EXCEPT ![t] = @ + 1]
    /\ meta' = [meta EXCEPT ![t] = tip[t] + 1]
    /\ UNCHANGED <<status, page, flight, timers, history, moves>>

\* It ends well or badly, or is revoked, perhaps before it has started.
TaskEnds(t) ==
    /\ status[t] \in Active
    /\ status' = [status EXCEPT ![t] = "ENDED"]
    /\ UNCHANGED <<tip, meta, page, flight, timers, history, moves>>

Evict(t) ==
    /\ meta[t] # 0
    /\ Move
    /\ meta' = [meta EXCEPT ![t] = 0]
    /\ UNCHANGED <<status, tip, page, flight, timers, history>>

-----------------------------------------------------------------------------
(* status_handler *)

\* The logs are loaded before the status is: the task may log, and end, in
\* between.
LoadMeta(i) ==
    /\ flight[i] # None /\ flight[i].at = "sent"
    /\ flight' = [flight EXCEPT ![i].at = "read", ![i].upto = meta[flight[i].task]]
    /\ UNCHANGED <<server, page, timers, history, moves>>

LoadStatus(i) ==
    /\ flight[i] # None /\ flight[i].at = "read"
    /\ flight' = [flight EXCEPT ![i].at = "answered", ![i].status = status[flight[i].task]]
    /\ UNCHANGED <<server, page, timers, history, moves>>

\* What left the buffer before the count was upto.
Base(upto) == IF upto > Keep THEN upto - Keep ELSE 0

\* Mutant: the slice begins one line too late.
OneShort(s, upto) == {n \in Base(upto) + 1 .. upto : n > s + 1}

\* logs[last:] for last = s - tip.  A negative one counts from the end, and
\* takes no more than there is; but the offset may be another task's, and
\* beyond the count: then it counts from the front.
Slice(s, upto) ==
    {n \in Base(upto) + 1 .. upto :
        n > IF s <= upto THEN s ELSE Base(upto) + (s - upto)}

-----------------------------------------------------------------------------
(* The page *)

NoneElse(i) == \A j \in Slots \ {i} : flight[j] = None

\* No refresh is on its way and no timer is set.
AllAnswered == \A i \in Slots : flight[i] = None
Quiet == timers = 0 /\ AllAnswered

\* refresh(): the request, and the timer for the next.
Send(i, t, rest) ==
    /\ \A j \in 1 .. i : flight[j] = None <=> j = i
    /\ flight' = [rest EXCEPT ![i] =
                    [task |-> t, s |-> offset, upto |-> 0, timer |-> TRUE,
                     at |-> "sent", status |-> "PENDING"]]
    /\ late' = (late \/ ~AllAnswered)

\* The route #:task_id, when the address changes: to the task of the page, or
\* to any other one, with the logs and the offset the page has.
Open(t) ==
    /\ status[t] # "NEW" /\ hash # t
    /\ Move
    /\ hash' = t /\ task' = t
    /\ patience' = Patience
    /\ torn' = (torn \/ t # task)
    /\ \E i \in Slots : Send(i, t, flight)
    /\ UNCHANGED <<server, logs, timers, gone>>

\* The route task_uri, where Back and the Home link lead: the logs are cleared,
\* the offset stays, and so do the timers.
Home ==
    /\ hash # None
    /\ Move
    /\ hash' = None
    /\ shown' = {} /\ doubled' = FALSE
    /\ gone' = gone \cup shown
    /\ UNCHANGED <<server, task, patience, offset, flight, timers,
                   late, torn>>

\* start(), whose button is enabled once the page has heard that its task has
\* ended, in an answer or in that to its Stop button: the logs are cleared, and
\* the offset stays, as if as much had been seen of the new task.  The page goes
\* to it by its address a little later.  (Bound: a page that has not heard of its
\* task yet could start another one beside it.)
Start ==
    /\ Move
    /\ \E t \in Tasks :
        /\ \A u \in Tasks : status[u] = IF u < t THEN "ENDED" ELSE "NEW"
        /\ status' = [status EXCEPT ![t] = "PENDING"]
        /\ task' = t
    /\ shown' = {} /\ doubled' = FALSE
    /\ gone' = gone \cup 1 .. offset
    /\ torn' = (torn \/ ~AllAnswered)
    /\ UNCHANGED <<tip, meta, hash, patience, offset, flight, timers, late>>

\* A timer goes off: of a refresh that was answered, or of one that was not.
Fire ==
    /\ timers > 0
    /\ timers' = timers - 1
    /\ \E i \in Slots : Send(i, task, flight)
    /\ UNCHANGED <<server, page, gone, torn, moves>>

FireLate(j) ==
    /\ flight[j] # None /\ flight[j].timer
    /\ \E i \in Slots : Send(i, task, [flight EXCEPT ![j].timer = FALSE])
    /\ UNCHANGED <<server, page, timers, gone, torn, moves>>

\* Mutant: the offset is moved on by the lines that came.
CountLines(s, upto) == s + Cardinality(Slice(s, upto))

NewOffset(s, upto) == upto

\* Without logs in the answer the page starts over; nothing of what was before
\* is left, but for other answers that are still to come.
StartOver(i) ==
    /\ offset' = 0 /\ shown' = {} /\ doubled' = FALSE
    /\ gone' = {}
    /\ torn' = ~NoneElse(i)
    /\ late' = (late /\ ~NoneElse(i))

Show(s, upto) ==
    /\ shown' = shown \cup Slice(s, upto)
    /\ doubled' = (doubled \/ shown \cap Slice(s, upto) # {})
    /\ gone' = gone \cup {n \in 1 .. upto : n > s /\ n <= upto - Keep}
    /\ offset' = NewOffset(s, upto)
    /\ UNCHANGED <<late, torn>>

\* Mutant: a task that has ended is asked about again.
StopsPending(answer) == patience' = 0

Stops(answer) == answer \notin Active \/ patience' = 0

\* The answer is applied whichever task it was of.  stop_refresh clears the
\* timer of this refresh, if it has not gone off.
Answer(i) ==
    /\ flight[i] # None /\ flight[i].at = "answered"
    /\ LET r == flight[i] IN
        /\ patience' = IF r.status = "PENDING" /\ patience > 0
                         THEN patience - 1 ELSE patience
        /\ IF r.upto = 0 THEN StartOver(i) ELSE Show(r.s, r.upto)
        /\ timers' = IF r.timer /\ ~Stops(r.status) THEN timers + 1 ELSE timers
    /\ flight' = [flight EXCEPT ![i] = None]
    /\ UNCHANGED <<server, place, moves>>

\* "If there is an error stop pulling from the server"
Error(i) ==
    /\ flight[i] # None
    /\ flight' = [flight EXCEPT ![i] = None]
    /\ UNCHANGED <<server, page, timers, history, moves>>

Serve(i) == LoadMeta(i) \/ LoadStatus(i) \/ Answer(i)

-----------------------------------------------------------------------------
Over == Quiet /\ (\A t \in Tasks : status[t] \notin Active) /\ UNCHANGED vars

Next ==
    \/ \E t \in Tasks : TaskStarts(t) \/ Emit(t) \/ TaskEnds(t) \/ Evict(t)
    \/ \E t \in Tasks : Open(t)
    \/ Home \/ Start \/ Fire
    \/ \E i \in Slots : Serve(i) \/ FireLate(i) \/ Error(i)
    \/ Over

Spec == Init /\ [][Next]_vars

\* Tasks end, timers go off, requests are answered; none has to fail.
FairSpec ==
    /\ Spec
    /\ \A t \in Tasks : WF_vars(TaskEnds(t))
    /\ WF_vars(Fire)
    /\ \A i \in Slots : WF_vars(Serve(i))

-----------------------------------------------------------------------------
(* Properties *)

\* However many polls overlap, and in whatever order they are answered, a line
\* of its task that the page counts as seen is on it; or it had left the buffer
\* when it was asked for, or the user went back to the page without a task, or
\* started the task when so much had been seen of the one before: the page
\* never asks for such lines again.  This is so unless the page is torn: it was
\* routed to another task than its own, or it started over or had a task
\* started while a poll was on its way; until it starts over with none.
NothingSkipped == torn \/ 1 .. offset \subseteq shown \cup gone

\* A line is on the page once, unless two polls were on their way together
\* since it last started over, or it is torn.
ShownOnce == doubled => late \/ torn

\* The page stops asking, unless its answers take longer than a second for
\* ever: an answer whose refresh's timer has gone off stops nothing.
Overlapping == \E i \in Slots : flight[i] # None /\ ~flight[i].timer

PollingStops == []<>Overlapping \/ <>[]Quiet
=============================================================================
