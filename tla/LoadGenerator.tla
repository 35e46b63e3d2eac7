---------------------------- MODULE LoadGenerator ---------------------------
(***************************************************************************)
(* The load generator: utils/palb/core.py, and the macro that drives it,   *)
(* macros/trafficgen.py.                                                   *)
(*                                                                         *)
(* A producer thread puts URLs into a bounded queue; the workers of a pool *)
(* take them, request them and put a result into a second queue; the       *)
(* macro's thread adds and removes workers by a pattern, waits for the     *)
(* results, and stops everything through the global keep_processing.  The  *)
(* queues are Python's, each call on them one step; ratios is updated      *)
(* under a lock and compared without it.                                   *)
(***************************************************************************)
EXTENDS Integers, Sequences, FiniteSets, SequencesExt

CONSTANTS
    MaxWorkers,     \* bound: the worker threads there may be
    Urls,           \* the list of URLs, which the producer goes round
    Cap,            \* the length of url_queue (100 in LoadManager)
    Settings,       \* how TrafficGen may be called
    NoUrl

ASSUME LoadAssumption ==
    /\ MaxWorkers \in Nat
    /\ Urls \in Seq(Range(Urls)) /\ Urls # <<>>
    /\ NoUrl \notin Range(Urls)
    /\ Cap \in Nat \ {0}
    /\ \A s \in Settings :
        /\ s.requests \in Nat \cup {-1}     \* -1: until interrupted
        /\ s.concurrency \in Nat
        /\ s.stats \in BOOLEAN /\ s.balancing \in BOOLEAN
        /\ s.pattern \in Seq(Int) /\ s.pattern # <<>>  \* workers to add or remove
        /\ s.requests < 0 => ~s.stats       \* bound: results are not counted for ever

\* Threads, numbered in the order in which they are made.
Workers == 1 .. MaxWorkers

VARIABLES
    setting,    \* options, fixed before start
    keep,       \* the global keep_processing
    queue,      \* url_queue
    results,    \* how many results result_queue has
    made,       \* the producer's i; stays 0 when there is no limit
    turn,       \* where url_iter is in the list
    producer,   \* where the producer is
    getters,    \* pool.getters, which is every worker's signup_list
    size,       \* pool.size
    ratio,      \* pool.ratios
    pc,         \* where each worker is
    url,        \* the URL each worker has in hand
    quit,       \* the done flag of each worker
    main,       \* where TrafficGen.setup is
    pattern,    \* the part of the pattern it has not come to
    adding,     \* how many workers add has still to start
    collected   \* how many results get_stats has got

threads == <<pc, url, quit>>
macro   == <<main, pattern, adding, collected>>
vars    == <<setting, keep, queue, results, made, turn, producer, getters, size, ratio,
             threads, macro>>

Length == Len(Urls)

Places == {"new", "signed", "loop", "ask", "weigh", "count", "took", "get", "put",
           "leave", "left"}

TypeOK ==
    /\ setting \in Settings
    /\ keep \in BOOLEAN
    /\ queue \in Seq(Range(Urls)) /\ Len(queue) <= Cap
    /\ results \in Nat /\ collected \in Nat
    /\ made \in Nat /\ turn \in 0 .. Length - 1
    /\ producer \in {"check", "put", "done"}
    /\ getters \in Seq(Workers) /\ IsInjective(getters)
    /\ size \in Int
    /\ ratio \in [Range(Urls) -> Nat]
    /\ pc \in [Workers -> Places]
    /\ url \in [Workers -> Range(Urls) \cup {NoUrl}]
    /\ quit \in [Workers -> BOOLEAN]
    /\ main \in {"add", "start", "pattern", "drain", "stats", "stop", "wait", "end",
                "raised"}
    /\ pattern \in Seq(Int)
    /\ adding \in Nat

Init ==
    /\ setting \in Settings
    /\ keep = TRUE
    /\ queue = <<>>
    /\ results = 0
    /\ made = 0 /\ turn = 0
    /\ producer = "check"
    /\ getters = <<>>
    /\ size = setting.concurrency
    /\ ratio = [u \in Range(Urls) |-> 0]
    /\ pc = [w \in Workers |-> "new"]
    /\ url = [w \in Workers |-> NoUrl]
    /\ quit = [w \in Workers |-> FALSE]
    /\ main = "add"
    /\ pattern = setting.pattern
    /\ adding = setting.concurrency
    /\ collected = 0

-----------------------------------------------------------------------------
(* URLProducer.run *)

Unlimited == setting.requests < 0

\* Mutant: one request too many.
OneMore == Unlimited \/ made <= setting.requests

More == Unlimited \/ made < setting.requests

ProducerLoop ==
    /\ producer = "check"
    /\ producer' = IF keep /\ More THEN "put" ELSE "done"
    /\ UNCHANGED <<setting, keep, queue, results, made, turn, getters, size, ratio,
                   threads, macro>>

Room == Len(queue) < Cap

\* url_queue.put(next(url_iter), timeout=1), which waits for room: begun
\* before a stop it may end after it.
ProducerPut ==
    /\ producer = "put"
    /\ Room
    /\ queue' = Append(queue, Urls[turn + 1])
    /\ turn' = (turn + 1) % Length
    /\ made' = IF Unlimited THEN 0 ELSE made + 1
    /\ producer' = "check"
    /\ UNCHANGED <<setting, keep, results, getters, size, ratio, threads, macro>>

\* The put timed out.  The next one takes the next URL: this one is skipped.
ProducerFull ==
    /\ producer = "put"
    /\ ~Room
    /\ turn' = (turn + 1) % Length
    /\ producer' = "check"
    /\ UNCHANGED <<setting, keep, queue, results, made, getters, size, ratio,
                   threads, macro>>

Produce == ProducerLoop \/ ProducerPut \/ ProducerFull

-----------------------------------------------------------------------------
(* URLGetter.run, and the pool's job_request and job_done *)

At(w, here, there) == pc[w] = here /\ pc' = [pc EXCEPT ![w] = there]

\* Mutant: a worker leaves only when it was removed.
LoopOn(w) ==
    /\ At(w, "loop", "ask")
    /\ UNCHANGED <<setting, keep, queue, results, made, turn, producer, getters,
                   size, ratio, url, quit, macro>>

WorkerLoop(w) ==
    /\ At(w, "loop", IF keep THEN "ask" ELSE "leave")
    /\ UNCHANGED <<setting, keep, queue, results, made, turn, producer, getters,
                   size, ratio, url, quit, macro>>

\* job_request without an answer: the loop goes on.
AskInVain(w) ==
    /\ queue = <<>>
    /\ At(w, "ask", "loop")
    /\ UNCHANGED <<setting, keep, queue, results, made, turn, producer, getters,
                   size, ratio, url, quit, macro>>

Ask(w) ==
    /\ queue # <<>>
    /\ At(w, "ask", IF setting.balancing THEN "weigh" ELSE "took")
    /\ url' = [url EXCEPT ![w] = Head(queue)]
    /\ queue' = Tail(queue)
    /\ UNCHANGED <<setting, keep, results, made, turn, producer, getters, size,
                   ratio, quit, macro>>

\* ratios.get(url, 0) >= size / urls_len, without the lock.
Busiest(u) == ratio[u] * Length >= size

\* A URL that is busy enough is dropped and another one taken.
WeighAndDrop(w) ==
    /\ At(w, "weigh", "ask")
    /\ Busiest(url[w])
    /\ url' = [url EXCEPT ![w] = NoUrl]
    /\ UNCHANGED <<setting, keep, queue, results, made, turn, producer, getters,
                   size, ratio, quit, macro>>

WeighAndKeep(w) ==
    /\ At(w, "weigh", "count")
    /\ ~Busiest(url[w])
    /\ UNCHANGED <<setting, keep, queue, results, made, turn, producer, getters,
                   size, ratio, url, quit, macro>>

\* Mutant: a URL that is counted is not counted again.
CountOnce(w) ==
    /\ At(w, "count", "took")
    /\ ratio' = [ratio EXCEPT ![url[w]] = 1]
    /\ UNCHANGED <<setting, keep, queue, results, made, turn, producer, getters,
                   size, url, quit, macro>>

Count(w) ==
    /\ At(w, "count", "took")
    /\ ratio' = [ratio EXCEPT ![url[w]] = @ + 1]
    /\ UNCHANGED <<setting, keep, queue, results, made, turn, producer, getters,
                   size, url, quit, macro>>

\* A worker that has been removed learns of it with a URL in its hand: that
\* URL is not requested, and stays counted in ratios.
Took(w) ==
    /\ At(w, "took", IF quit[w] THEN "leave" ELSE "get")
    /\ url' = [url EXCEPT ![w] = IF quit[w] THEN NoUrl ELSE @]
    /\ UNCHANGED <<setting, keep, queue, results, made, turn, producer, getters,
                   size, ratio, quit, macro>>

\* Mutant: a request that fails ends the worker.
Returns(stats) == IF stats THEN {"put", "leave"} ELSE {"loop", "leave"}

Answers(stats) == IF stats THEN {"put"} ELSE {"loop"}

\* get_url returns, with None when the request failed; job_done.
Done(w) ==
    /\ \E there \in Answers(setting.stats) : At(w, "get", there)
    /\ ratio' = IF setting.balancing /\ ratio[url[w]] > 0
                  THEN [ratio EXCEPT ![url[w]] = @ - 1] ELSE ratio
    /\ url' = [url EXCEPT ![w] = NoUrl]
    /\ UNCHANGED <<setting, keep, queue, results, made, turn, producer, getters,
                   size, quit, macro>>

Put(w) ==
    /\ At(w, "put", "loop")
    /\ results' = results + 1
    /\ UNCHANGED <<setting, keep, queue, made, turn, producer, getters, size,
                   ratio, url, quit, macro>>

Leave(w) ==
    /\ At(w, "leave", "left")
    /\ \E i \in DOMAIN getters : getters[i] = w /\ getters' = RemoveAt(getters, i)
    /\ UNCHANGED <<setting, keep, queue, results, made, turn, producer, size,
                   ratio, url, quit, macro>>

Work(w) ==
    \/ WorkerLoop(w) \/ AskInVain(w) \/ Ask(w) \/ WeighAndDrop(w) \/ WeighAndKeep(w)
    \/ Count(w) \/ Took(w) \/ Done(w) \/ Put(w) \/ Leave(w)

-----------------------------------------------------------------------------
(* TrafficGen.setup, and the pool's add, remove and stop *)

\* add, for one worker: its constructor appends it to getters, and once it has
\* been told its options it is started.  (Bound: there is a thread to be made.)
SignUp ==
    /\ main = "add" /\ adding > 0
    /\ \E w \in Workers :
        /\ At(w, "new", "signed")
        /\ \A v \in Workers : pc[v] = "new" => w <= v
        /\ getters' = Append(getters, w)
    /\ main' = "start"
    /\ UNCHANGED <<setting, keep, queue, results, made, turn, producer, size, ratio,
                   url, quit, pattern, adding, collected>>

StartWorker ==
    /\ main = "start"
    /\ \E w \in Workers : At(w, "signed", "loop")
    /\ adding' = adding - 1
    /\ main' = "add"
    /\ UNCHANGED <<setting, keep, queue, results, made, turn, producer, getters, size,
                   ratio, url, quit, pattern, collected>>

Added ==
    /\ main = "add" /\ adding = 0
    /\ size' = Len(getters)
    /\ main' = "pattern"
    /\ UNCHANGED <<setting, keep, queue, results, made, turn, producer, getters,
                   ratio, threads, pattern, adding, collected>>

\* The first n workers, if there are as many, are told to go.
RemoveWorkers(n) ==
    LET gone == {getters[i] : i \in (1 .. n) \cap DOMAIN getters} IN
    /\ quit' = [w \in Workers |-> quit[w] \/ w \in gone]
    /\ size' = size - n

Enlarge ==
    /\ main = "pattern" /\ pattern # <<>> /\ Head(pattern) >= 0
    /\ adding' = Head(pattern)
    /\ main' = "add"
    /\ pattern' = Tail(pattern)
    /\ UNCHANGED <<setting, keep, queue, results, made, turn, producer, getters,
                   size, ratio, threads, collected>>

Diminish ==
    /\ main = "pattern" /\ pattern # <<>> /\ Head(pattern) < 0
    /\ RemoveWorkers(-Head(pattern))
    /\ pattern' = Tail(pattern)
    /\ UNCHANGED <<setting, keep, queue, results, made, turn, producer, getters,
                   ratio, pc, url, main, adding, collected>>

Goto(there) ==
    /\ main' = there
    /\ UNCHANGED <<setting, keep, queue, results, made, turn, producer, getters,
                   size, ratio, threads, pattern, adding>>

\* Looked at while the pattern sleeps, which it does after each number of
\* workers.  (Bound: the model does not go round the pattern again.)
SeesProducerDone ==
    /\ main = "pattern" /\ producer = "done"
    /\ pattern # setting.pattern
    /\ Goto("drain")
    /\ UNCHANGED collected

Drained ==
    /\ main = "drain" /\ queue = <<>>
    /\ Goto(IF setting.stats THEN "stats" ELSE "stop")
    /\ UNCHANGED collected

\* get_stats: one result after another, none of which has a timeout.
Collect ==
    /\ main = "stats" /\ collected < setting.requests /\ results > 0
    /\ results' = results - 1
    /\ collected' = collected + 1
    /\ UNCHANGED <<setting, keep, queue, made, turn, producer, getters, size, ratio,
                   threads, main, pattern, adding>>

Collected ==
    /\ main = "stats" /\ collected = setting.requests
    /\ Goto("stop")
    /\ UNCHANGED collected

\* m.start() adds workers before the loop over the pattern is entered.
Starting == pattern = setting.pattern /\ main \in {"add", "start", "pattern"}
InLoop ==
    \/ main = "pattern"
    \/ pattern # setting.pattern /\ main \in {"add", "start"}

\* Ctrl-C where it is caught: in the loop, between any two steps of adding
\* workers too; while the queue drains; in get_stats, which gives up.  When it
\* was caught before get_stats, get_stats_so_far takes what there is.  (One in
\* the middle of a removal leaves less than the removal that stop begins with.)
Interrupt ==
    /\ InLoop \/ main \in {"drain", "stats"}
    /\ main' = "stop"
    /\ IF setting.stats /\ main # "stats"
         THEN collected' = collected + results /\ results' = 0
         ELSE UNCHANGED <<collected, results>>
    /\ UNCHANGED <<setting, keep, queue, made, turn, producer, getters, size, ratio,
                   threads, pattern, adding>>

\* Ctrl-C where nothing catches it: setup is left, and the threads with it.
Abandon ==
    /\ Starting \/ main \in {"drain", "stop", "wait"}
    /\ Goto("raised")
    /\ UNCHANGED collected

\* LoadManager.stop, up to its wait for the workers.
Stop ==
    /\ main = "stop"
    /\ keep' = FALSE
    /\ RemoveWorkers(Len(getters))
    /\ main' = "wait"
    /\ UNCHANGED <<setting, queue, results, made, turn, producer, getters, ratio,
                   pc, url, pattern, adding, collected>>

\* Mutant: stop waits for the size to come down.
SizeIsZero == size <= 0

AllGone == getters = <<>>

Stopped ==
    /\ main = "wait" /\ AllGone
    /\ Goto("end")
    /\ UNCHANGED collected

Drive ==
    \/ SignUp \/ StartWorker \/ Added \/ Enlarge \/ Diminish \/ SeesProducerDone \/ Drained
    \/ Collect \/ Collected \/ Stop \/ Stopped

\* Setup has been left, and the producer has ended.
Ended == main \in {"end", "raised"}
Over  == Ended /\ producer = "done" /\ UNCHANGED vars

-----------------------------------------------------------------------------
Next ==
    \/ Produce
    \/ \E w \in Workers : Work(w)
    \/ Drive
    \/ Interrupt \/ Abandon
    \/ Over

Spec == Init /\ [][Next]_vars

\* Every thread is scheduled, requests and sleeps end; nobody has to interrupt.
FairSpec ==
    /\ Spec
    /\ WF_vars(Produce) /\ WF_vars(Drive)
    /\ \A w \in Workers : WF_vars(Work(w))

-----------------------------------------------------------------------------
(* Properties *)

Counted(u) == {w \in Workers : url[w] = u /\ pc[w] \in {"took", "get"}}
Removed    == {w \in Workers : quit[w] /\ pc[w] \in {"leave", "left"}}

\* When balancing, ratios counts for each URL the workers that have it in hand
\* ("BUG: Tried to set a negative ratio!", core.py:150, is never logged), and,
\* for ever, those that were removed with it: one URL for each of them at most.
RatiosCount ==
    setting.balancing =>
        \E lost \in [Removed -> Range(Urls) \cup {NoUrl}] :
            \A u \in Range(Urls) :
                ratio[u] = Cardinality(Counted(u))
                           + Cardinality({w \in Removed : lost[w] = u})

InHand == {w \in Workers : url[w] # NoUrl \/ pc[w] = "put"}

\* Without balancing a URL that was put is waiting, in hand, or requested,
\* but for one that each removed worker threw away; and when get_stats has what
\* it waited for, everything has been requested and nothing is under way: the
\* statistics are those of all requests.
StatsAreComplete ==
    setting.stats =>
        /\ ~setting.balancing =>
              made - (Len(queue) + Cardinality(InHand) + results + collected)
                  <= Cardinality(Removed)
        /\ collected >= setting.requests =>
              queue = <<>> /\ InHand = {} /\ results = 0

\* When stop returns no worker is running, and none will be.
WorkersAreGone ==
    main = "end" => \A w \in Workers : pc[w] \in {"new", "left"}

\* A worker that signed up, and was not started when Ctrl-C came in between,
\* stays on the list of those that stop waits for.
Stranded == main \notin {"add", "start"} /\ \E w \in Workers : pc[w] = "signed"

\* A stop ends, whatever the queue holds and the workers are doing, unless a
\* worker is stranded, or Ctrl-C comes once more.
StopEnds == main = "stop" /\ ~Stranded ~> Ended

\* A run with a number of requests ends, results included, unless a worker is
\* removed or stranded.  (One that is removed takes a URL with it, and get_stats
\* waits for its result for ever; so it does for one that was dropped by
\* balancing.)
Finishes ==
    (~Unlimited /\ (setting.balancing => ~setting.stats)) =>
        <>(Ended \/ Removed # {} \/ Stranded)
=============================================================================
