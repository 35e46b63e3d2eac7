------------------------------- MODULE Stages -------------------------------
(***************************************************************************)
(* The setup of a test bed in stages: utils/stages.py, process_stages, and *)
(* the threads of macros/base.py it runs them in.                          *)
(*                                                                         *)
(* A section of the configuration has stages; sorted by priority and name  *)
(* they are collected in groups, a group in the place of its first stage.  *)
(* Every stage of a group starts a thread for each of its devices, and the *)
(* group ends when they have been joined.  A thread that fails puts itself *)
(* into the queue of errors of its group.                                  *)
(*                                                                         *)
(* A name is a number, for its place among the names.  Devices of a stage  *)
(* are numbered in the order in which it comes to them.                    *)
(***************************************************************************)
EXTENDS Integers, FiniteSets

CONSTANTS
    Sections,       \* the sections: for each, what the stage of a name is
    MaxDevices,     \* bound: the devices of a stage
    NoFlag          \* a dictionary without the key 'enabled'

Flags == BOOLEAN \cup {NoFlag}

\* How many devices a stage has: a number, or one of
Inline    == -1     \* no device was asked for: the stage runs in the caller
Undefined == -2     \* no class has the type

ASSUME StagesAssumption ==
    /\ MaxDevices \in Nat
    /\ NoFlag \notin BOOLEAN
    /\ \A section \in Sections :
        /\ DOMAIN section \subseteq Nat /\ IsFiniteSet(DOMAIN section)
        /\ \A n \in DOMAIN section :
            /\ section[n].priority \in Nat
            /\ section[n].group \in Nat         \* its own name when it gives none
            /\ section[n].root \in Flags /\ section[n].parent \in Flags
            /\ section[n].own \in Flags
            /\ section[n].devices \in (0 .. MaxDevices) \cup {Inline, Undefined}
            /\ section[n].parallel \in BOOLEAN
            /\ section[n].threads \in Nat

VARIABLES
    section,    \* the section, and
    stops,      \* stop_on_error, the arguments of process_stages
    at,         \* where process_stages is
    todo,       \* stages it has not come to
    group,      \* the group it is in
    stage,      \* the stage whose devices it goes through
    next,       \* the next device of that stage
    pool,       \* the threads to join
    errors,     \* q, the queue of errors of the group
    thread,     \* how far each thread is
    reported    \* history: the errors process_stages has taken out of q

vars == <<section, stops, at, todo, group, stage, next, pool, errors, thread, reported>>

-----------------------------------------------------------------------------
(* The order of stages *)

Before(n, m) ==
    \/ section[n].priority < section[m].priority
    \/ section[n].priority = section[m].priority /\ n < m

First(n, names) == n \in names /\ \A m \in names \ {n} : Before(n, m)

InGroup(g) == {n \in todo : section[n].group = g}

\* carry_flag: a stage that does not say whether it is enabled gets the flag
\* of the outermost dictionary around it that does.
Enabled(n) ==
    LET flag == IF section[n].own # NoFlag THEN section[n].own
                ELSE IF section[n].root # NoFlag THEN section[n].root
                ELSE section[n].parent
    IN flag # NoFlag /\ flag

Devices(n) == IF Enabled(n) THEN 1 .. section[n].devices ELSE {}

\* A thread is named for its stage and its device.
Threads == UNION {{n} \X Devices(n) : n \in DOMAIN section}

Running == {t \in Threads : thread[t] \in {"running", "failing"}}
Failed  == {t \in Threads : thread[t] = "failed"}

\* join returns when the thread has ended.
Joined(threads) == \A t \in threads : thread[t] \in {"ended", "failed"}

TypeOK ==
    /\ section \in Sections /\ stops \in BOOLEAN
    /\ at \in {"group", "stage", "inline", "device", "join", "cap", "last",
               "returned", "stage_error", "raised"}
    /\ todo \subseteq DOMAIN section
    /\ group \in Nat /\ stage \in Nat /\ next \in Nat
    /\ at \in {"device", "join", "cap"} => stage \in DOMAIN section
    /\ pool \subseteq Threads /\ errors \subseteq Threads /\ reported \subseteq Threads
    /\ thread \in [Threads -> {"new", "running", "failing", "ended", "failed"}]

Init ==
    /\ section \in Sections /\ stops \in BOOLEAN
    /\ at = "group"
    /\ todo = DOMAIN section
    /\ group = 0 /\ stage = 0 /\ next = 0
    /\ pool = {} /\ errors = {} /\ reported = {}
    /\ thread = [t \in Threads |-> "new"]

-----------------------------------------------------------------------------
(* process_stages *)

BeginGroup ==
    /\ at = "group" /\ todo # {}
    /\ \E n \in todo : First(n, todo) /\ group' = section[n].group
    /\ pool' = {} /\ errors' = {}
    /\ at' = "stage"
    /\ UNCHANGED <<section, stops, todo, stage, next, thread, reported>>

Return ==
    /\ at = "group" /\ todo = {}
    /\ at' = "returned"
    /\ UNCHANGED <<section, stops, todo, group, stage, next, pool, errors,
                   thread, reported>>

\* Mutant: a stage that is passed over is come to again.
StillToDo(n) == IF Devices(n) = {} THEN todo ELSE todo \ {n}

LeftToDo(n) == todo \ {n}

\* The next stage of the group; one that is disabled, of an unknown type or
\* without a device is passed over.
BeginStage ==
    /\ at = "stage"
    /\ \E n \in InGroup(group) :
        /\ First(n, InGroup(group))
        /\ todo' = LeftToDo(n)
        /\ stage' = n
        /\ at' = CASE Devices(n) # {} -> "device"
                   [] Enabled(n) /\ section[n].devices = Inline -> "inline"
                   [] OTHER -> "stage"
    /\ next' = 1
    /\ UNCHANGED <<section, stops, group, pool, errors, thread, reported>>

EndStages ==
    /\ at = "stage" /\ InGroup(group) = {}
    /\ at' = "last"
    /\ UNCHANGED <<section, stops, todo, group, stage, next, pool, errors,
                   thread, reported>>

\* A stage that runs inline, or the constructor of one, returns or raises:
\* the exception leaves process_stages, whatever threads are running.
RunInline ==
    /\ at = "inline"
    /\ at' \in {"stage", "raised"}
    /\ UNCHANGED <<section, stops, todo, group, stage, next, pool, errors,
                   thread, reported>>

ConstructorRaises ==
    /\ at = "device" /\ next \in Devices(stage)
    /\ at' = "raised"
    /\ UNCHANGED <<section, stops, todo, group, stage, next, pool, errors,
                   thread, reported>>

StartThread ==
    /\ at = "device" /\ next \in Devices(stage)
    /\ thread' = [thread EXCEPT ![<<stage, next>>] = "running"]
    /\ pool' = pool \cup {<<stage, next>>}
    /\ next' = next + 1
    /\ at' = IF section[stage].parallel THEN "cap" ELSE "join"
    /\ UNCHANGED <<section, stops, todo, group, stage, errors, reported>>

\* Mutant: join is left out.
JoinNothing == at = "join"

\* A stage that is not parallelizable waits for each of its threads.
JoinOne == at = "join" /\ Joined({<<stage, next - 1>>})

AfterJoin ==
    /\ JoinOne
    /\ at' = "cap"
    /\ UNCHANGED <<section, stops, todo, group, stage, next, pool, errors,
                   thread, reported>>

\* Mutant: one thread too many.
PastCap == Cardinality(pool) > section[stage].threads

AtCap == Cardinality(pool) >= section[stage].threads

BelowCap ==
    /\ at = "cap" /\ ~AtCap
    /\ at' = "device"
    /\ UNCHANGED <<section, stops, todo, group, stage, next, pool, errors,
                   thread, reported>>

\* "Cap the number parallel threads": all of the pool is joined.
JoinPool ==
    /\ at = "cap" /\ AtCap /\ Joined(pool)
    /\ pool' = {}
    /\ at' = "device"
    /\ UNCHANGED <<section, stops, todo, group, stage, next, errors, thread,
                   reported>>

EndStage ==
    /\ at = "device" /\ next \notin Devices(stage)
    /\ at' = "stage"
    /\ UNCHANGED <<section, stops, todo, group, stage, next, pool, errors,
                   thread, reported>>

\* Mutant: the threads of the last stage are joined.
JoinLastStage == \A t \in pool : t[1] = stage => Joined({t})

AllJoined == Joined(pool)

\* The end of a group: the queue of errors is emptied.
EndGroup ==
    /\ at = "last" /\ AllJoined
    /\ reported' = reported \cup errors
    /\ errors' = {}
    /\ at' = IF errors # {} /\ stops THEN "stage_error" ELSE "group"
    /\ UNCHANGED <<section, stops, todo, group, stage, next, pool, thread>>

Process ==
    \/ BeginGroup \/ Return \/ BeginStage \/ EndStages \/ RunInline
    \/ ConstructorRaises \/ StartThread \/ AfterJoin \/ BelowCap \/ JoinPool
    \/ EndStage \/ EndGroup

-----------------------------------------------------------------------------
(* MacroThread.run *)

End(t) ==
    /\ thread[t] = "running"
    /\ thread' = [thread EXCEPT ![t] = "ended"]
    /\ UNCHANGED <<section, stops, at, todo, group, stage, next, pool, errors,
                   reported>>

Raise(t) ==
    /\ thread[t] = "running"
    /\ thread' = [thread EXCEPT ![t] = "failing"]
    /\ UNCHANGED <<section, stops, at, todo, group, stage, next, pool, errors,
                   reported>>

\* Mutant: a second error takes the place of the first.
OnlyLast(t) == {t}

Queued(t) == errors \cup {t}

Report(t) ==
    /\ thread[t] = "failing"
    /\ errors' = Queued(t)
    /\ thread' = [thread EXCEPT ![t] = "failed"]
    /\ UNCHANGED <<section, stops, at, todo, group, stage, next, pool, reported>>

Run(t) == End(t) \/ Raise(t) \/ Report(t)

-----------------------------------------------------------------------------
Ended == at \in {"returned", "stage_error", "raised"}

Over == Ended /\ Running = {} /\ UNCHANGED vars

Next == Process \/ (\E t \in Threads : Run(t)) \/ Over

Spec == Init /\ [][Next]_vars

\* The caller and the threads are scheduled; a stage ends.
FairSpec ==
    /\ Spec
    /\ WF_vars(Process)
    /\ \A n \in UNION {DOMAIN s : s \in Sections}, d \in 1 .. MaxDevices :
        WF_vars(<<n, d>> \in Threads /\ Run(<<n, d>>))

-----------------------------------------------------------------------------
(* Properties *)

Members(g) == {n \in DOMAIN section : section[n].group = g}

GroupBefore(g, h) ==
    \E n \in Members(g), m \in Members(h) :
        First(n, Members(g)) /\ First(m, Members(h)) /\ Before(n, m)

\* No thread of a group starts before every thread of the groups before it,
\* in the order of priorities and names, has ended; when process_stages returns
\* every device of every enabled stage has had its thread, and none is running,
\* nor is one after a StageError.
GroupsInOrder ==
    /\ \A t, u \in Threads :
        /\ GroupBefore(section[t[1]].group, section[u[1]].group)
        /\ thread[u] # "new"
        => Joined({t})
    /\ at = "returned" => Joined(Threads)
    /\ at = "stage_error" => Running = {}

\* In a group never more threads run than the largest cap of its stages
\* allows.  (A stage may exceed its own: the pool it counts is the group's,
\* and what an earlier stage with a larger cap has started goes on.)
CapIsKept ==
    Running # {} =>
        \E n \in Members(group) :
            Cardinality(Running) <= section[n].threads \/ Cardinality(Running) <= 1

\* Two threads of stages that are not parallelizable never run together, not
\* even of two stages of a group.
SerialRunsAlone ==
    \A t, u \in Running :
        ~section[t[1]].parallel /\ ~section[u[1]].parallel => t = u

\* Every failure comes out: in the StageError of its group, or in the log when
\* errors do not stop it; and process_stages returns normally from a group
\* with a failure only if it was told to.
ErrorsComeOut ==
    /\ at \in {"returned", "stage_error"} => reported = Failed
    /\ at = "returned" /\ stops => Failed = {}

\* process_stages ends.
Ends == <>Ended

=============================================================================
