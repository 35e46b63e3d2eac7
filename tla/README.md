# nosest in TLA+

nosest is a test framework for network devices: runners (nose and pytest
plugins), interfaces to devices (SSH, iControl, REST, Selenium), commands and
macros built on them, and the utilities they share. Most of its code is
input and output. The part that decides something, and that several threads or
processes can get wrong, is what this project models: `src/f5test/utils`, and the
pieces of `interfaces`, `macros` and `web` that use it.

## 1. Inventory

Paths are under `src/f5test/`.

| component | state | operations | what is hard | what makes it correct |
|---|---|---|---|---|
| resource pools, `utils/respool/{base,net,memcache}.py` | memcached: an index key and a key per item; each process: its copy of the pool | get, get_multi, free, free_all, sync, flush | every operation is several commands on memcached, interleaved with those of other processes; items expire; processes die | no value reserved twice; memcached lists and stores what callers have; a name keeps its item; sizes are kept; the retry loops end |
| load generator, `utils/palb/core.py`, `macros/trafficgen.py` | two queues, the list of workers, a count per URL, flags | a producer, workers, add, remove, stop, get_stats | counts compared without their lock; workers removed with a URL in their hand; a stop that waits for workers | counts tell what is requested, statistics are complete, stop and get_stats end |
| stages, `utils/stages.py`, `macros/base.py` | groups of stages, the threads of a group, its queue of errors | carry_flag, process_stages, MacroThread.run | threads per device, a cap, who is joined when | groups are in order, no error is lost, caps hold, nothing is left running |
| waiting, `utils/wait.py`, `commands/base.py` | deadline, last result, time it has been stable | run, cached run | the clock, exceptions of the function, cleanup order | it returns only what was met, and ends |
| rate limits, `utils/stb.py` | tokens, a timestamp, a lock | consume, RateLimit | threads that sleep for tokens others take; a full bucket | never more than the rate; a sleep is long enough; someone is served |
| contexts, `interfaces/testcase.py` | containers per context name | set_data, get_data, get_interface, teardown | lookup along the name, interfaces shared or closed too early | an interface is closed by the context that opened it |
| tokens of REST interfaces, `interfaces/rest/{emapi,apic}/resources.py` | token, its timeout, a refresh thread, an Event | open, close, refresh | the clock, a thread that is told to stop while it waits or asks | the token of an open interface does not expire, a stopped thread ends |
| configuration, `interfaces/config/`, `utils/dicts.py`, `web/tasks.py` | the merged dictionary | load, extend, merge | recursion, the order of files | the first source that has a place decides it |
| versions, `utils/version.py` | - | comparison, parsing | versions of unequal length | the versions of a product are ordered |
| web service, `web/` | the log of a task in memcached, the page's offset, polls under way | emit, status_handler, refresh, get_harness | polls that overlap, a buffer that forgets, a key that is lost | no line is skipped, or shown twice; the page stops asking |
| plugins, `noseplugins/`, `pytestplugins/` | results of the run | hooks of the runner | order of hooks | reports say what happened |
| interfaces to devices, `interfaces/{ssh,icontrol,rest,...}` | a connection | open, close, calls | reconnection | - |
| commands and macros, `commands/`, `macros/` | - | scripts for a device | the device | - |
| lock in memcached, `utils/memcachelock/` | - | - | a vendored package that nothing imports | - |

Interaction: plugins and `interfaces/config` construct pools and lend them to tests
(`interfaces/config/respool.py`, `interfaces/config/core.py:394`); tests call the
pools; pools call memcached. Contexts own interfaces; commands and macros take an
interface from a context, and wait with Wait. Stages start macros in threads.

## 2. Modules

| module | what it is | extends |
|---|---|---|
| `Allocator` | what a pool promises: values lent to one caller at a time | - |
| `ResourcePool` | operators: the local pool, `utils/respool/base.py` and the size of `net.py` | - |
| `MemcachePool` | state machine: processes sharing a pool through memcached, `memcache.py`; `Lending`, an instance of `Allocator` it implements | `ResourcePool` |
| `Wait` | one run of `utils/wait.py` | - |
| `TokenRefresh` | an interface, its token and the refresh thread | - |
| `InterfaceContexts` | the store of interfaces of `interfaces/testcase.py` | - |
| `LoadGenerator` | producer, workers and the macro that drives them, `utils/palb/core.py` | - |
| `Stages` | `process_stages` and its threads, `utils/stages.py` | - |
| `LogPolling` | the log of a task, from the handler to the page, `web/` | - |
| `TokenBucket` | the bucket of `utils/stb.py` and the threads that wait for it | - |
| `Versions`, `Configuration` | operators: comparison of versions; merging of files that extend each other | - |
| `MCMemcachePool`, `MCInterfaceContexts`, `MCLoadGenerator`, `MCStages` | instances of these for TLC | the module they are named for |
| `MCVersions` | pairs of versions, each compared in one step | `Versions` |
| `MCAlgorithms` | the same, and loads of configurations, for TLC | `MCVersions`, `Configuration` |
| `MemcachePoolProofs`, `TokenRefreshProofs`, `InterfaceContextsProofs`, `TokenBucketProofs`, `LoadGeneratorProofs`, `StagesProofs`, `LogPollingProofs` | theorems | the module they are named for |
| `UtilitiesProofs` | theorems about waiting and about versions | `Wait`, `MCVersions` |

The parts share no state in the program, and are not composed: a test gets its
pools from the configuration, its interfaces from a context, and waits for
something; no step of one depends on where another is. What does interact is in one
module: the processes around memcached, TrafficGen with the pool of workers and the
producer, process_stages with MacroThread, the task with the web service and the page,
RateLimit with the bucket.

Definitions marked *Mutant* are plausible bugs: none is part of a specification. Each
takes the place of the definition after it to show that a property notices.

### MemcachePool

A pool hands out values 1 .. N, the positions in the iterable it was made with.
`index` is the value stored under the pool's name, `store` what is stored under
each item's key; `items[c]` is client c's `pool.items`, `pc[c]` the command it
sends next, and `call`, `token`, `keys`, `todo`, `read`, `pend`, `keyName` are
the local variables of the operation in progress. **One action is one command on
one key of memcached** (`add`, `gets`, one key of `get_multi`, `cas`, one key of
`set_multi` or `delete_multi`); what a client computes in between is part of the
cas that publishes it.

| action | code |
|---|---|
| `Construct`, `BeginGet` ... `BeginFlush` | the calls: `memcache.py` 33, 55, 75, 104, 122, 142, 160 |
| `AddIndex`, `Gets`, `Fetch` | the reading part all loops begin with |
| `Reserve`, `Exhaust` | `pool.get`, `pool.get_multi` and the cas; PoolExhausted |
| `Release`, `ReleaseAll` | `pool.free`, `pool.free_all` and the cas |
| `Collide` | a cas that fails: the loop starts over, at its add in `sync` and `__init__`, at its gets in the others (`LoopStart`) |
| `AddLocal`, `PublishLocal`, `UpdateLocal` | `sync` |
| `StoreItem`, `StoreNothing`, `Delete` | what follows the cas |
| `ReadIndex`, `DeleteIndex` | `flush` |
| `Crash`, `Expire` | a process dies and is started again; memcached drops an item |

`token[c]` is all a cas token can tell: whether the index was written since.
Exceptions are modelled where they happen (`Raise`): an index that is missing, a
`None` passed to the library, `pool.free(None)` in a retry, a `key_name` nobody bound.

`held` and `lapsed` are what callers have, with a lease that runs and with one that
ran out. `overlooked` and `clash` are history. *overlooked[c]*: c's get_multi came
to a key that was listed and whose item was still on its way, and so takes the pool
for smaller than it is. *clash*: someone acted on that, or an add was refused, or a
listed item was overwritten or deleted. The code does all of these (see
`pool_reserve_doc`), and after the first one hardly anything can be promised;
the properties say what holds **until** then, and the runs that check only such
properties stop there (`CONSTRAINT NoClash`). That is sound because clash never
becomes false again and each of those properties is implied by it or is about
states without it. `pool_rest` runs on past clashes.

`Allocator` is the promise in one variable, what each client has been lent: a step
lends one client what nobody else has, or takes something back from one client.
`Lending` is the refinement, `lent <- held`; `LendsUntilClash` says that the
pool starts as an allocator and that every step until a clash is one of its steps or
changes nothing that is lent.

### Wait

One run of `Wait.run`, attempt by attempt: `Begin` (the while and its clock), `Call`
(the function, which takes up to MaxAttempt and may raise an error or StopWait),
`Handle` (`test_error`, which may raise itself), `Cleanup`, `Judge` (the decision that
is taken inside the finally clause, with whatever exception is on its way held in
`pending`), `Sleep`, `GiveUp`. `command` tells whether the Command of a CommandWait
has been left with traces of an attempt.

### TokenRefresh

One opening of a REST interface with a token (`Open`, `Close`) and the thread
`RestIfcRefresh.refresh`: it looks whether the interval has passed (`Exchange`,
`NotYet`), asks (`Answer`, `Fail`), waits (`Wake`) and ends when it is told to
(`End`). `Tick` lets half a second pass; `age` is that of the token, counted from
its issue by the device, which is earlier than the client hears of it.
`Interval` and `Pause` are what `start` computes.

### InterfaceContexts

`order` and `store` are the dictionary of one thread: the keys in the order they were
set and the interfaces filed under each. `Found(path, n)` is what `get_container`
finds when it merges dictionaries along the names a name begins with; the key of the
dictionary is the pattern and the name is what is matched, which is the relation
`Matches`. `GetFirst`, `GetAgain` and `GetAnother` are the three ways through
`get_interface`; `Exit`, `CloseFails` and `UnsetFails` the three ends of
`_teardown`; `Drop` is a connection lost or closed by its user. `stack` holds the
helpers in use: they are used as fixtures, setUp and with statements are, and a class
is set up before its tests. `Delete(c)` is the last line of
`_teardown`, which takes the context out of the dictionary; an exception before it leaves
the context there. `owner` and `failed` are history.

### LoadGenerator

One call of `TrafficGen.setup`, with its `LoadManager`. `queue` is url_queue, `results`
the length of result_queue; `pc[w]` is where worker w is in `URLGetter.run` and in
`job_request`, `url[w]` the URL in its hand; `getters` is the list workers sign up
in, `ratio` is `ratios`; `main` is where setup is, with what is left of its `pattern`.
Calls on queues are single steps, as Python's queues are locked.

| action | code |
|---|---|
| `ProducerLoop`, `ProducerPut`, `ProducerFull` | `URLProducer.run`: its test, a put, a put that timed out |
| `WorkerLoop`, `AskInVain`, `Ask` | the loop of a worker; job_request with an empty queue and with a URL |
| `WeighAndDrop`, `WeighAndKeep`, `Count` | balancing: the comparison without the lock, and the count under it |
| `Took`, `Done`, `Put`, `Leave` | the done flag, the request and job_done, the result, signing off |
| `SignUp`, `StartWorker` | add, for one worker: its constructor, which puts it on the list (`core.py:45`), and `t.start()` (`core.py:168`) |
| `Added`, `Enlarge`, `Diminish` | the end of add; add and remove, by the pattern |
| `SeesProducerDone`, `Drained`, `Collect`, `Collected` | the waits of setup, get_stats |
| `Stop`, `Stopped` | `LoadManager.stop` before and after its wait |
| `Interrupt`, `Abandon` | Ctrl-C where setup catches it, and where nothing does |

Ctrl-C is caught in the loop over the pattern, in `m.add` as well, while the queue
drains and in get_stats; in `m.start()` and in `stop` it leaves setup. While the queue
drains it may come in the wait or beside it, so both are possible. A worker that
has signed up and is not started when it comes is *stranded*: it stays on the list that stop waits
for (see section 5). `StopEnds` and `Finishes` say so.

### Stages

`section` is the section of the configuration, `todo` the stages process_stages has not
come to, `group` and `stage` those it is in, `pool` the threads it will join and
`errors` the queue of the group. `BeginGroup`, `BeginStage`, `StartThread`, `EndStage`,
`EndGroup` are the loops; `AfterJoin`, `BelowCap`, `JoinPool` the waits in between;
`RunInline` a stage that has no devices, and `ConstructorRaises` a thread that cannot
be made: both may leave process_stages at once. `End`, `Raise` and `Report` are a
thread's. `Enabled` is what carry_flag comes to for one stage.

### LogPolling

The task logs (`Emit`) into a buffer that keeps the last lines; the handler saves it
with the count of all lines, which `meta` is. A refresh of the page is an element of
`flight`: sent with an offset, answered by `status_handler` in two steps (`LoadMeta`,
`LoadStatus`), applied by the page (`Answer`) or failed (`Error`). Each has a timer,
which goes off after it is answered (`Fire`) or before (`FireLate`), and sends the
next; so polls overlap. There are several tasks, one after the other, and the page is turned from one
to another: `Open` is the route `#:task_id` (`app.base.js:264`), to the page's own task or
any other; `Home` the route without a task (`app.base.js:263`), which Back and the Home link lead to;
`Start` the button (`app.base.js:158`). `Home` and `Start` clear the logs and keep the
offset, `Open` keeps both, and none touches a timer or a poll that is on its way. `Evict` is
memcached.

What the page can promise is less than one would like, and three history variables say
how much less. *gone* are lines the page counts as seen and does not have, for a reason a
property may name: they had left the buffer, or `Home` or `Start` took them. *late*: a
poll was sent while another had no answer. *torn*: the offset and the logs are not of the
page's task, because it was routed to another one, or a poll was on its way when a task was
started or the page started over. An answer without logs starts the page over
(`StartOver`), and with no poll on its way that ends all three.

### TokenBucket

`tokens` and `accrued` are the bucket: what was counted, and what the time since the
timestamp is worth. A thread reads the tokens (`Read`), with the lock, and is granted
its block (`Grant`) or told how long to sleep (`Deny`) after a second reading, time
passing in between (`Tick`). `Call` and `Wake` are RateLimit's. `credit` is history: a
meter against which what is granted is charged. `robbed` are sleepers whose tokens
somebody else was given.

### Versions, Configuration

`Cmp` is `Version._cmp`, `Lt` and `Le` what two of its comparisons decide; `merge`,
`extend` and `load` are the functions of these names, with what the web service adds
before and after (`BeforeExtend`). The latter are recursive, and for TLC only. `$extends`
is a list here; a single name, which `driver.py:198` accepts too, is in section 5.

## 3. Runs

| run | asks | bounds |
|---|---|---|
| `pool_get` | does the pool implement `Allocator`, do tokens, answers and reservations agree (`IInv`), and does a name keep its item, while leases run out and a process dies at any command | 2 clients, 2 values, one name; get and free |
| `pool_sync` | is no value reserved twice, and is what callers have listed and stored, under all operations but flush | 2 clients, 2 values, symmetric |
| `pool_rest` | what is left when everyone is done; does the size hold; do the retry loops end; also around a flush and after a clash | 2 clients, 2 values, Size 1; get, free, flush |
| `pool_reserve_doc` | the finding below | 2 clients, get |
| `wait` | does it return only what was met, does it give up too early, does an attempt find traces of another, is StopWait retried, does it end | Timeout 9, Interval 2, Stabilize 3, attempts of 0 to 2 |
| `token_refresh` | which tokens never expire, by how much others are overdue, does the thread stop, is the token renewed | a pause of 3 s, timeouts of 1 to 10 s, delays up to 0.5 s |
| `contexts` | is the store consistent (`IInv`), is what a context opened closed by it, and by it alone; is a helper given the same interface every time | 6 helpers of 5 names, two deep, 3 interfaces of 2 kinds |
| `load` | do the counts tell what is requested, are statistics complete, is a worker left, does stop end, does a run; with Ctrl-C between any two steps of setup | 6 calls, up to 3 workers, 2 URLs, 2 or 3 requests, a queue of one |
| `stages` | are groups in order and caps kept, do serial stages run alone, do errors come out, does it end | every section of two stages with up to 3 devices, and four of up to 5 stages |
| `polling` | is a line skipped or shown twice, does the page stop asking; with the page turned between tasks | 2 tasks, of 2 lines and of one, a buffer of one, 2 polls at a time, 3 moves (a route, a start or the loss of a key), `pending_count` 2 |
| `bucket` | is the rate kept, is a sleep long enough, is anyone served | 3 threads, capacity 3, rate 2, blocks of 1, 3 and 4 |
| `algorithms` | are versions ordered; does the first source that has a place decide it | versions of 1 or 2 digits up to 2, builds of 0 or 1 digit; 3 files and a form, 3 places |

Why the bounds are enough.

*Pools.* Two clients and two values are enough for every pair of
commands to interleave, for a value to be free while another is taken, for get_multi
to run out half way, and for a name to move from one value to another; the loops
carry no state from one attempt to the next but `item` and `key_name`, which are in
the model. A third client adds no kind of step: every property is about a pair of
clients, and the theorems hold for any number.

*Wait* has every order of timeout, settling time and duration within reach: an attempt
that ends before, at and after the deadline, a criterion that settles at it. The timeouts
of `token_refresh` lie below, at, between one and two times, at twice, and above twice the
pause; `MaxAge` only stops ages from being counted when the token is long dead (it is
above anything the properties compare with). Two nested helpers are enough in
`contexts` because contexts affect each other only in pairs, the one that is torn down
or opens something and the one around it; what failed teardowns of earlier
helpers leave behind is in the store.

*Load.* A queue of one URL is empty and full within two steps; three workers are enough
for one to be added while another is removed and a third works; every call has its own
pattern, so that workers are added, removed, and removed when there are none; no call
makes more workers than there may be (`EnoughWorkers`, so that nothing in the model waits
for a thread that the program would have made). *Stages.* What two stages can do to
each other, before, in and after one group, is in the pairs; the larger sections add
a third stage behind them, a cap that is reached twice, and flags at every level.
*Polling.* A buffer of one line forgets at the second; two polls at a time can be
answered in both orders, and a third is the first again, since an answered one frees its
slot. The second task is started when the first has ended and logs fewer lines, so that the
offset the page kept can lie below, at and beyond its count; three moves are enough to leave
a task, start the next and come back, or to lose a key on the way. *Bucket.* One block fills the bucket, one does not fit, one leaves a rest; the rate
does not divide the capacity. *Algorithms.* Unequal lengths need a second digit, and a
third digit would be compared as the second is; three files make a chain and a diamond,
with sections and plain values in each place.

Symmetry: in `pool_sync` the two clients together with their prefixes, in `contexts` two
interfaces of one kind and the two helpers of a file; none is named in a property.

Deadlock is checked in all runs but `algorithms`, where a question is answered once.
Where a system ends, its end is an action (`Terminated`, `Over`) that requires that it
really is over: of `load`, for one, that setup and the producer have ended.

Fairness. `MemcachePool`: each client, once in an operation, goes on (weak fairness
of its next command: it is a running process); nothing is assumed of the beginning of
operations, of crashes and of leases. `Wait`: the loop runs on (a function that never
returns is not modelled; an attempt takes at most MaxAttempt). `TokenRefresh`: time
passes and the thread runs; an exchange is answered or fails, since the client has a
timeout of 90 s. `LoadGenerator`: every thread is scheduled, requests and sleeps end;
nobody has to interrupt, and who does may do so once more. `Stages`: the caller and the threads are scheduled, what a stage
does ends. `LogPolling`: tasks end, timers go off, requests are answered; none has
to fail, and no user has to come. `TokenBucket`: time passes, threads are scheduled; strong
fairness for taking the lock, which others take and release in between, as Python's
locks give it in practice though no documentation promises it.

## 4. Proofs

| theorem | for every | rests on |
|---|---|---|
| `MemcachePoolProofs!TypeCorrect`, `Invariance`, `NeverReservedTwice`, `ReservationsAreStored`, `PoolLends`, `NamesAreKept` | number of clients, values, names, requests, with timeouts and crashes | `PoolAssumption`, `ClientAssumption`; all but the first: `OwnMachines`, a prefix of its own for each client, none a prefix of another |
| `MemcachePoolProofs!SizesAreKept` | the same, and any size | the same, and no get_multi |
| `MemcachePoolProofs!NothingIsLeftOver` | number of clients, values, names, requests; all operations | the same, and no lease runs out, no client dies; get_multi and sync are not called on one pool |
| `MemcachePoolProofs!SettledReadsAreSafe`, `TurnsAreSafe` | the same; all operations but flush | the same, and the index is not read between a cas and the last item it announces (`ReadsSettled`); or clients take turns (`OneBusy`) |
| `UtilitiesProofs!Invariance`, `ReturnsWhenSettled`, `NotGivenUpTooEarly`, `OutlastsByOneAttempt`, `AttemptsLeaveNoTrace`, `StopWaitStops` | timeout, interval, settling time, duration | `WaitAssumption`; `NotGivenUpTooEarly`: a condition whose only true value is True |
| `UtilitiesProofs!ComparisonIsOrder`, `AnswersAreOrdered` | number of digits, and digits | `VersionsAssumption`: digits are numbers |
| `TokenRefreshProofs!Invariance`, `TokenNeverExpires`, `TokenReplacedInTime` | pause, timeouts, delay | `RefreshAssumption` |
| `InterfaceContextsProofs!ContextsAreConsistent`, `NothingGetsLost`, `TeardownCloses`, `TeardownIsLocal`, `GetsTheSame` | names and patterns, helpers, interfaces, depth | `ContextsAssumption`: a name ends its own prefixes, and what comes before a prefix is one of that prefix's own, unless it comes again |
| `TokenBucketProofs!BucketTypeCorrect`, `BucketKeepsRate`, `BucketSleeps` | capacity, rate, sizes, threads | `BucketAssumption` |
| `LoadGeneratorProofs!LoadTypeCorrect`, `NoWorkerIsLeft`, `NoResultIsLost`, `RatiosAreRight` | workers, URLs, queue length, calls | `LoadAssumption` |
| `StagesProofs!StagesTypeCorrect`, `FailuresComeOut`, `OneGroupAfterAnother`, `CapOfTheGroup`, `SerialOneByOne` | section | `StagesAssumption` |
| `LogPollingProofs!PollingTypeCorrect`, `PollingSkipsNothing`, `PollingShowsOnce` | buffer, number of tasks, lines, polls and moves | `PollingAssumption` |

Types that have no run of their own are proved and not checked; `MemcachePool`, `Wait`,
`TokenRefresh` and `InterfaceContexts` have theirs in `IInv`.

*MemcachePool.* That no value is reserved twice follows from the cas only if the
client that wins it knows all reservations. `IInv` says so: a token that is current
proves that the index is the one read (`CurrentToken`); reservations are listed, and
stored unless their holder is still storing them (`Backed`); so a client that has not
come to a key too early has read every reservation, or has its key before it
(`Informed`), and what it chooses is nobody's (`Exclusive`). The last three hold until
a clash; `KeyOfItem`, `ReadOnce` and `CallerOwns` always. The proof has one lemma for
each group of actions, first for the types and then for the invariant, with lemmas
for what leaving an operation, a failed cas and a successful one leave alone.

`PoolLends`, the refinement, needs no invariant of its own. Each step that changes `held`
is one of three: a cas that succeeds adds to its caller's items (`LendLends`, with
`Exclusive` of the state after the step, which `IInv'` gives), a free, a crash or a lease
takes away from one client's (`DropTakesBack`), and all others leave `held` alone (lemmas
for the beginnings, the commands and the leases). By
`IInv` a clash has not happened unless the step itself is the clash, which
`LendsUntilClash` exempts.

`NamesAreKept`: a client gives a name to a new item only when what it has read holds none
of its own with that name. Where its cas succeeds it has read all of its reservations
(`Informed`), so there is none (`ReserveKnows`); what else a request asks for has another
name, or none. `SizesAreKept` counts: the items in a client's view are those of its
`read`, each of which is one value, and all reservations are among them when its cas
succeeds; the pool adds one at most, and only below the size. For a get_multi it counts
wrongly, since several items are added at once: then the property is not claimed.

`NothingIsLeftOver` needs to know what a client in the middle of an operation will still
do (`Whole`). An item that is given back is its caller's until the cas that strikes its key
(`Has`, `Returned`), and about to be deleted after it (`Striking`). Every item stored is
listed and somebody's, or about to be deleted (`Accounted`); every key listed is that of an
item somebody has (`Claimed`). A client that comes to its cas has read all that is listed
and stored, and not only what is reserved (`Attentive`), so that free finds its item in
every attempt (`Recovers`, `OwnName`), and free_all every item of its client. A sync
publishes what its client's copy of the pool has of its own: that is no more than the client
has, between operations and in a sync (`OwnHeld`); in the attempts of a get the copy has
what was chosen and not yet published too, and a get that fails has chosen nothing. A
get_multi that fails has, and leaves it in the copy for the next sync; a lease that runs
out and a process that dies leave a key behind, or an item, that nobody has. The theorem is
about pools without these three. When nobody is in an operation nothing is given back
or about to be deleted, and what is left of `Accounted` and `Claimed` is the property.

`SettledReadsAreSafe` says where clashes come from, and so what the finding of
section 5 amounts to. The other theorems hold until a clash; this one says that there is
none, and no value is reserved twice ever, if nobody reads the index in the time between a
cas and the last of the items it announces or strikes, whatever else overlaps. It is a
theorem about behaviours in which that holds throughout: the code does not ensure it, as
`pool_reserve_doc` shows. `Settled` is what such behaviours keep: who holds a current token has
overlooked nothing, and what it read is still there (`ReadIsStored`); one client at a time
is sending items (`OneSends`), since who publishes holds a current token, and nobody
sends then; where an item is about to be stored there is no other (`RoomIsKept`): the value was
chosen by a client that had read all that is listed and stored, and what is stored without being
listed is about to be deleted by somebody who is sending; what is about to be deleted is not
listed (`StruckIsUnlisted`); and no two stored items have one name (`Distinct`), so that the
copy of a client is all that it has read (`ViewIsRead`). Clients that take turns,
each operation from its first command to its last, are a case of this (`TurnsAreSafe`).

*Wait.* `stable` is tied to the times of the last failure and of the first of the
latest successes (`CountedFromFailure`, `CountedFully`), the deadline to the time an
attempt began (`InTime`), and what an attempt leaves behind to where it is (`Traces`). `StopInv`
says where the run can be once the function has raised StopWait: on its way out, with
StopWait as the last exception, and with a success only if the wait is a negated one.

*Versions.* The lists of digits are padded with zeros, so a version is compared as an
endless sequence of digits in two parts, version and build: `Wins` says that one has the
greater digit where two differ first, `Same` that they never differ. The result of
`reduce` is the first that is not 0 (`FirstIsLeast`, by the well-foundedness of the natural
numbers), and so is 1, -1 or 0 as the one wins, the other does, or neither (`CmpDecides`). `Wins` is
irreflexive and transitive, and goes through `Same` on either side (`WinsOrders`), which
makes `Cmp` an order for versions of any length (`ComparisonIsOrder`); that the answers the run
looks at are ordered is a case of it (`AnswersAreOrdered`).

*TokenRefresh.* `AgeIsElapsed` ties the age of the token to the thread's own clock;
`Waiting` bounds elapsed time plus what remains of the wait, by whether the wait was
begun by a check or by an answer; `EveryCheck` says that when the interval is no
longer than the pause every check but the first refreshes.

*InterfaceContexts.* An interface is filed in one place (`StoredOnce`), and the place
is of the context that opened it (`OwnedByStore`); what is open is filed
(`NothingLost`); a plain context that has anything filed has a helper in use, or had a
teardown that failed (`Attended`); a helper is in use once, and was entered before those
whose names begin with its own (`Nested`). `ClosedAtExit` follows from these. The two action properties come
down to what a lookup finds: along plain names it is what is filed under the longest
one that has anything (`FoundInnermost`). A teardown looks under its own name only,
and `OwnedByStore` tells whose that is. A context that has to open an interface found
nothing along its own names, so that what another one finds beyond them is under a longer
name and stays what it finds (`FirstIsOutside`, `FirstStays`); a helper that is torn
down is the innermost, and no other's name begins with its own (`TearStays`).

*TokenBucket.* `RateIsKept` is about the past and not inductive. `Covered` is: the meter
has at least what is in the bucket and what time can still bring. A tick adds as much to
the meter as to the bucket, or fills it to twice the capacity, which is all that tokens
and accrued time can be together; a grant takes from both what is there. `OneHolds` and
`Asked` tell that the decision is made on what the holder of the lock is about to take.

*LoadGenerator.* `Signed`: the sign-up list has exactly the workers that signed up and have
not left, and while one of them is to be started it is still counted in `adding`; so stop,
which waits for the list to be empty, waits for all of them, and for ever for one that was not
started. Its lemmas are about lists without
repetitions, from which an element is taken or to which one is added. `Hands` says when a
worker has a URL in its hand. `Flow` counts: what is in the queue, in hand, answered and
collected is no more than was put, and without balancing it falls short of that by at most
one for each worker that was removed; each step moves one URL from one of these places to another, or
loses it with its worker. `RatiosCount` says that there is a URL, or none, that each removed
worker took with it, such that the count of each URL is the number of workers that have
it in hand or took it along; it is inductive, given `Hands`.

*Stages.* Failures are queued or reported (`Reports`), and the queue of a group is only
thrown away when it is empty, because between groups nothing runs (`Pooled`); that no
thread is started twice, and a failure forgotten, needs `Unstarted`. For the order of
groups, `OrderInv` says where process_stages is: stages it has come to have their threads
(`Started`); what runs is of the group it is in (`Placed`); of a group it is not in it has come to
all stages or to none (`Whole`); no group to come is before one it has been in (`Sorted`). For
the cap, `CountInv`: before a thread is started the pool has fewer than some stage of
the group allows. For serial stages, `SerialInv`: while the thread of one runs, process_stages
is at its join.

*LogPolling.* `NoGaps` says of every poll under way, and not only of the page's offset,
that what lies before it has been seen, or is gone, and that it is of the page's task: then
answers may come in any order. It holds unless the page is torn; a step that clears the logs
adds what it clears to `gone`, so that it keeps `NoGaps` as well. `InTurn` says of a poll that is under way
alone that it begins where the page ends and is answered with no less (`Alone`), and that
what is shown lies before that; it claims this while neither *late* nor *torn*. When nothing is shown, as
after `Start`, the answer may be of a count below the offset, and then nothing can be doubled.

Model-checked only: `FirstSourceWins`, which is about a recursive definition, of files
nested to any depth, and would need induction over data; and, because liveness is out of
the prover's reach, `LockFree`, `Terminates`, `StoppedThreadEnds`, `AlwaysRenewed`,
`StopEnds`, `Finishes`, `Ends`, `PollingStops`, `SomeoneIsServed`. All other properties of the passing runs are theorems.

## 5. Findings

`pool_reserve_doc`: two calls of get can reserve one value. The key is listed before
its item is stored; whoever reads in between sees a listed key without an item and
takes its value for free.

Seen while modelling, in models that behave the same way, without a run of their own:

- pools: free looks an item up by its name and strikes its value's key (`base.py:263`);
  after the lease of a named item has run out and the value went to someone else, it takes
  the other's key out of the index.
- waiting: StopWait never comes out of `run` (`wait.py:90`): the bare raise stands where
  there is no exception left, and RuntimeError comes out. `wait.py:81` counts the time the
  criterion has been met from the attempt before, so that after a failure the sleep is
  counted (`SettledSince` says what holds). `wait.py:75` swallows a StopWait raised by
  the progress callback, where `irack_checkout.py:84` raises it to stop the wait.
- tokens: one valid for less than the pause is refreshed only after it has expired, at
  twice its timeout less a second (`emapi/resources.py:204`). `apic/resources.py:242` reads a
  variable that is bound only without a token.
- contexts: the id of a parametrized pytest test does not match itself as a pattern
  (`testcase.py:201`); its interfaces are neither reused nor closed. The ids of pytest's
  modules, classes and functions are no dotted prefixes of each other, so that their
  contexts share nothing. `commands/rest/system.py:150` opens interfaces with
  reuse=False that no teardown closes.
- load generator: a put that times out skips its URL (`core.py:213`); a worker that is
  removed throws its URL away, and get_stats waits for its result for ever (`core.py:314`);
  so it does when balancing dropped one. `keep_processing` is cleared and never set again
  (`core.py:22`): a second LoadManager in the process does nothing. Ctrl-C between a worker's sign-up (`core.py:45`) and its start
  (`core.py:168`), which `trafficgen.py:78` catches, leaves a worker on the list that
  never takes itself off it: stop waits for ever (`core.py:179`).
- stages: an exception of a stage without devices leaves the threads of its group running
  and their errors unread (`stages.py:144`), against the comment at `stages.py:104`.
- web service: the logs are read before the status (`modules/common.py:61`), so that the
  last lines may be missing from the last answer; overlapping polls double lines, or lose
  them when the page starts over. The page's offset does not go with its logs: the route without a task
  clears the logs and keeps the offset (`app.base.js:263`), so does start (`app.base.js:161`), for which
  the first lines of the new task then count as seen, and the route to another task keeps
  both (`app.base.js:264`): its lines come after the other's, without those before the
  offset. `get_harness` gives the second harness to the first caller,
  whatever its log says (`modules/common.py:42`).
- rate limits: a full bucket grants a second bucketful at once (`stb.py:52`), since its
  timestamp stands still; a block larger than the bucket waits for ever;
  `read_limiting_rate` calls RateLimit with an argument too many.
- versions: 12.2 and 12.2.0 are equal and have different hashes (`version.py:290`);
  versions of two products are neither equal nor unequal (`version.py:196`).
- configuration: where one file has a section and another a plain value, what `merge` makes
  of three depends on how they are grouped (`dicts.py:25`), and so an early file may come
  through. A `$extends` that is a string is a name for `driver.py:198`; the web service
  appends to it (`tasks.py:191`), which raises TypeError when it is the file's, and takes
  its characters for names when it is the form's.

## 6. Not modelled

The parts listed in PROJECT.json as not_modelled, with the reason for each: pure
input and output, scripts against devices, generated and vendored code. They are most
of the repository's lines: command and macro scripts against devices (`commands/`,
`macros/`), bindings to device APIs (`interfaces/rest`), a vendored memcached client and the
formatting of reports. What they decide is decided by a device, and a model of them would
be a model of the device. Nothing in the repository has a subclass of CachedCommand, so its
cache is not modelled either. Within the modelled parts: pools with `prefix=` or
`iterable=` of their own and the directories `MemberResourcePool` fills in; the clock going
backwards; the APIC variant of an interface; the containers of contexts that hold user data
and statistics; helpers used from several threads at once; a second LoadManager; an
empty list of URLs; a Ctrl-C half way through remove, which leaves less than the removal that
stop begins with; a `$extends` that is a string; a page that is loaded anew, a task started
beside one that runs, and what revoking a task does but end it; the other routes of the web service; parsing of versions; YAML's own
merging and the formats other than YAML.

## 7. Plan

1. The APIC variant of `TokenRefresh`, with a logout, a second open and a login for each.
2. `FirstSourceWins` for files of a fixed depth, with `merge` as a function of it.
