---------------------------- MODULE StagesProofs -----------------------------
(***************************************************************************)
(* For every section, with any number of stages, groups and devices: the   *)
(* types of process_stages; every failure of a thread comes out; groups    *)
(* are processed in order, within their caps; serial stages run alone.     *)
(***************************************************************************)
EXTENDS Stages, FiniteSetTheorems, TLAPS

LEMMA Given ==
    ASSUME NEW s \in Sections, NEW n \in DOMAIN s
    PROVE  n \in Nat /\ s[n].group \in Nat
  BY StagesAssumption DEF StagesAssumption

LEMMA InitType == Init => TypeOK
  BY DEF Init, TypeOK

LEMMA DeviceIsNumber ==
    ASSUME NEW n, NEW d \in Devices(n) PROVE d \in Nat
  BY DEF Devices

LEMMA StepType == TypeOK /\ [Next]_vars => TypeOK'
<1> SUFFICES ASSUME TypeOK, [Next]_vars PROVE TypeOK'
  OBVIOUS
<1> USE DEF TypeOK
<1>0. section' = section => Threads' = Threads
  BY DEF Threads, Devices, Enabled
<1>1. CASE BeginGroup
  BY <1>0, <1>1, Given DEF BeginGroup, First
<1>2. CASE Return
  BY <1>0, <1>2 DEF Return
<1>3. CASE BeginStage
  <2>1. PICK n \in InGroup(group) :
            /\ todo' = LeftToDo(n) /\ stage' = n
            /\ at' = CASE Devices(n) # {} -> "device"
                       [] Enabled(n) /\ section[n].devices = Inline -> "inline"
                       [] OTHER -> "stage"
    BY <1>3 DEF BeginStage
  <2>2. n \in DOMAIN section /\ n \in Nat
    BY Given DEF InGroup
  <2>3. at' \in {"device", "inline", "stage"}
    BY <2>1
  <2> QED
    BY <1>0, <1>3, <2>1, <2>2, <2>3 DEF BeginStage, LeftToDo
<1>4. CASE EndStages
  BY <1>0, <1>4 DEF EndStages
<1>5. CASE RunInline
  BY <1>0, <1>5 DEF RunInline
<1>6. CASE ConstructorRaises
  BY <1>0, <1>6 DEF ConstructorRaises
<1>7. CASE StartThread
  <2>1. <<stage, next>> \in Threads
    BY <1>7 DEF StartThread, Threads
  <2>2. at' \in {"join", "cap"}
    BY <1>7 DEF StartThread
  <2> QED
    BY <1>0, <1>7, <2>1, <2>2 DEF StartThread
<1>8. CASE AfterJoin
  BY <1>0, <1>8 DEF AfterJoin, JoinOne
<1>9. CASE BelowCap
  BY <1>0, <1>9 DEF BelowCap
<1>10. CASE JoinPool
  BY <1>0, <1>10 DEF JoinPool
<1>11. CASE EndStage
  BY <1>0, <1>11 DEF EndStage
<1>12. CASE EndGroup
  BY <1>0, <1>12 DEF EndGroup
<1>13. ASSUME NEW t \in Threads, Run(t) PROVE TypeOK'
  BY <1>0, <1>13 DEF Run, End, Raise, Report, Queued
<1>14. CASE Over \/ UNCHANGED vars
  BY <1>0, <1>14 DEF Over, vars
<1> QED
  BY <1>1, <1>2, <1>3, <1>4, <1>5, <1>6, <1>7, <1>8, <1>9, <1>10, <1>11, <1>12,
     <1>13, <1>14 DEF Next, Process

\* Every variable of process_stages and its threads keeps its type.
THEOREM StagesTypeCorrect == Spec => []TypeOK
  BY InitType, StepType, PTL DEF Spec

-----------------------------------------------------------------------------
(* Every failure comes out *)

\* A thread is started once: one whose stage is to do, or whose device
\* process_stages has not come to, is new.
Unstarted ==
    /\ at \in {"device", "join", "cap"} => stage \notin todo
    /\ \A t \in Threads : thread[t] # "new" =>
        /\ t[1] \notin todo
        /\ at \in {"device", "join", "cap"} /\ t[1] = stage => t[2] < next

States == {"new", "running", "failing", "ended", "failed"}

\* What runs is in the pool, and nothing runs between two groups.
Pooled ==
    /\ Running \subseteq pool
    /\ at \in {"group", "returned", "stage_error"} => Running = {}

\* A failure is in the queue of its group or has been reported.
Reports ==
    /\ errors \cup reported = Failed
    /\ at \in {"group", "returned", "stage_error"} => errors = {}
    /\ stops /\ at # "stage_error" => reported = {}

ErrorInv == TypeOK /\ Unstarted /\ Pooled /\ Reports

LEMMA InitErrors == Init => ErrorInv
<1> SUFFICES ASSUME Init PROVE Unstarted /\ Pooled /\ Reports
  BY InitType DEF ErrorInv
<1>1. \A t \in Threads : thread[t] = "new"
  BY DEF Init
<1>2. Running = {} /\ Failed = {}
  BY <1>1 DEF Running, Failed
<1> QED
  BY <1>1, <1>2 DEF Init, Unstarted, Pooled, Reports

\* What has been joined does not run.
LEMMA JoinedRunsNot ==
    ASSUME Pooled, Joined(pool) PROVE Running = {}
  BY DEF Pooled, Joined, Running

\* A step that starts and ends no thread leaves them as they were.
LEMMA ThreadsStay ==
    ASSUME UNCHANGED <<section, thread>>
    PROVE  Threads' = Threads /\ Running' = Running /\ Failed' = Failed
  BY DEF Threads, Devices, Enabled, Running, Failed

LEMMA StepErrors == ErrorInv /\ [Next]_vars => ErrorInv'
<1> SUFFICES ASSUME ErrorInv, [Next]_vars PROVE (Unstarted /\ Pooled /\ Reports)'
  BY StepType DEF ErrorInv
<1>0. TypeOK /\ Unstarted /\ Pooled /\ Reports
  BY DEF ErrorInv
<1> USE DEF Unstarted, Pooled, Reports
<1>1. CASE BeginGroup
  BY <1>0, <1>1, ThreadsStay DEF BeginGroup
<1>2. CASE Return \/ EndStages \/ EndStage
  BY <1>0, <1>2, ThreadsStay DEF Return, EndStages, EndStage
<1>3. CASE BeginStage
  <2>1. PICK n \in InGroup(group) :
            /\ todo' = LeftToDo(n) /\ stage' = n
            /\ at' = CASE Devices(n) # {} -> "device"
                       [] Enabled(n) /\ section[n].devices = Inline -> "inline"
                       [] OTHER -> "stage"
    BY <1>3 DEF BeginStage
  <2>2. at' \in {"device", "inline", "stage"} /\ n \in todo /\ at = "stage"
    BY <1>3, <2>1 DEF InGroup, BeginStage
  <2>3. /\ UNCHANGED <<section, stops, pool, errors, thread, reported>>
    BY <1>3 DEF BeginStage
  <2>4. todo' \subseteq todo /\ stage' = n /\ n \notin todo'
    BY <2>1 DEF LeftToDo
  <2>5. \A t \in Threads : thread[t] # "new" => t[1] \notin todo /\ t[1] # n
    BY <1>0, <2>2
  <2>6. Unstarted'
    BY <2>3, <2>4, <2>5, ThreadsStay
  <2>7. (Pooled /\ Reports)'
    BY <1>0, <2>2, <2>3, ThreadsStay
  <2> QED
    BY <2>6, <2>7
<1>4. CASE RunInline \/ ConstructorRaises
  BY <1>0, <1>4, ThreadsStay DEF RunInline, ConstructorRaises
<1>5. CASE StartThread
  <2> DEFINE t == <<stage, next>>
  <2>1. /\ at = "device" /\ t \in Threads /\ thread' = [thread EXCEPT ![t] = "running"]
        /\ pool' = pool \cup {t} /\ next' = next + 1 /\ at' \in {"join", "cap"}
        /\ UNCHANGED <<section, stops, todo, stage, errors, reported>>
    BY <1>0, <1>5 DEF StartThread, Threads, TypeOK
  <2>2. thread \in [Threads -> States] /\ next \in Nat
    BY <1>0 DEF TypeOK, States
  <2>7. thread[t] = "new"
    BY <1>0, <2>1, <2>2
  <2>3. Threads' = Threads
    BY <2>1 DEF Threads, Devices, Enabled
  <2>4. Failed' = Failed
    BY <2>1, <2>2, <2>3, <2>7 DEF Failed
  <2>5. Running' \subseteq Running \cup {t}
    BY <2>1, <2>2, <2>3 DEF Running
  <2>6. ASSUME NEW u \in Threads, thread'[u] # "new"
        PROVE  u[1] \notin todo /\ (u[1] = stage => u[2] < next + 1)
    <3>1. CASE u = t
      BY <1>0, <2>1, <2>2, <3>1
    <3>2. CASE u # t
      <4>1. thread[u] # "new"
        BY <2>1, <2>2, <2>6, <3>2
      <4>2. u[1] = stage => u[2] < next
        BY <1>0, <2>1, <4>1
      <4>3. u[2] \in Nat
        BY DEF Threads, Devices
      <4> QED
        BY <1>0, <2>2, <4>1, <4>2, <4>3
    <3> QED
      BY <3>1, <3>2
  <2> QED
    BY <1>0, <2>1, <2>3, <2>4, <2>5, <2>6
<1>6. CASE AfterJoin \/ BelowCap
  BY <1>0, <1>6, ThreadsStay DEF AfterJoin, BelowCap, JoinOne
<1>7. CASE JoinPool
  BY <1>0, <1>7, ThreadsStay, JoinedRunsNot DEF JoinPool
<1>8. CASE EndGroup
  <2>1. Running = {}
    BY <1>0, <1>8, JoinedRunsNot DEF EndGroup, AllJoined
  <2> QED
    BY <1>0, <1>8, <2>1, ThreadsStay DEF EndGroup
<1>9. ASSUME NEW t \in Threads, Run(t) PROVE (Unstarted /\ Pooled /\ Reports)'
  <2>1. /\ t \in Running /\ thread \in [Threads -> States]
        /\ \E s \in {"ended", "failing", "failed"} : thread' = [thread EXCEPT ![t] = s]
        /\ UNCHANGED <<section, stops, at, todo, stage, next, pool, reported>>
    <3>1. t \in Running /\ thread \in [Threads -> States]
      BY <1>0, <1>9 DEF Run, End, Raise, Report, Running, TypeOK, States
    <3>2. CASE End(t)
      BY <3>1, <3>2 DEF End
    <3>3. CASE Raise(t)
      BY <3>1, <3>3 DEF Raise
    <3>4. CASE Report(t)
      BY <3>1, <3>4 DEF Report
    <3> QED
      BY <1>9, <3>2, <3>3, <3>4 DEF Run
  <2>2. Threads' = Threads
    BY <2>1 DEF Threads, Devices, Enabled
  <2>3. Running' \subseteq Running
    BY <1>0, <2>1, <2>2 DEF Running, TypeOK
  <2>4. at \notin {"group", "returned", "stage_error"}
    BY <1>0, <2>1
  <2>5. (errors \cup reported = Failed)'
    BY <1>0, <1>9, <2>1, <2>2 DEF Run, End, Raise, Report, Queued, Running, Failed, TypeOK
  <2>6. \A u \in Threads : thread'[u] # "new" => thread[u] # "new"
    BY <1>0, <2>1 DEF Running, TypeOK
  <2> QED
    BY <1>0, <2>1, <2>2, <2>3, <2>4, <2>5, <2>6
<1>10. CASE Over \/ UNCHANGED vars
  BY <1>0, <1>10, ThreadsStay DEF Over, vars
<1> QED
  BY <1>1, <1>2, <1>3, <1>4, <1>5, <1>6, <1>7, <1>8, <1>9, <1>10 DEF Next, Process

LEMMA ErrorsEnough == ErrorInv => ErrorsComeOut
  BY DEF ErrorInv, Reports, ErrorsComeOut

\* Every failure of a thread comes out when process_stages ends: raised with
\* its group when errors stop it, taken from the queue when they do not.
THEOREM FailuresComeOut == Spec => []ErrorsComeOut
  BY InitErrors, StepErrors, ErrorsEnough, PTL DEF Spec

-----------------------------------------------------------------------------
(* Groups in order *)

Outside == at \in {"group", "returned", "stage_error"}

InStage == at \in {"device", "join", "cap"}

\* A stage process_stages has come to has its threads, up to the next device
\* of the one it is in.
Started ==
    \A t \in Threads :
        t[1] \notin todo /\ (InStage \/ at = "raised" => t[1] # stage \/ t[2] < next)
            => thread[t] # "new"

\* Where process_stages is.
Placed ==
    /\ InStage \/ at = "inline" => stage \in DOMAIN section /\ section[stage].group = group
    /\ at = "raised" => section[stage].group = group
    /\ InStage => next >= 1
    /\ at = "last" => \A n \in todo : section[n].group # group
    /\ at = "returned" => todo = {}
    /\ ~Outside => \A t \in Running : section[t[1]].group = group

\* Of a group that it is not in, process_stages has come to all stages or none.
Whole ==
    \A n \in todo, m \in (DOMAIN section) \ todo :
        section[n].group = section[m].group => ~Outside /\ section[n].group = group

\* No group to come is before one it has been in, nor before the one it is in,
\* nor is this one before an earlier one.
Sorted ==
    /\ \A n \in todo, m \in (DOMAIN section) \ todo :
          ~GroupBefore(section[n].group, section[m].group)
    /\ ~Outside => \A n \in todo : ~GroupBefore(section[n].group, group)
    /\ ~Outside => \A m \in (DOMAIN section) \ todo : ~GroupBefore(group, section[m].group)

OrderInv == ErrorInv /\ Started /\ Placed /\ Whole /\ Sorted

LEMMA InitOrder == Init => OrderInv
<1> SUFFICES ASSUME Init PROVE Started /\ Placed /\ Whole /\ Sorted
  BY InitErrors DEF OrderInv
<1> QED
  BY DEF Init, Started, Placed, Whole, Sorted, Outside, InStage, Threads

\* Before is an order.
LEMMA NotBoth ==
    ASSUME TypeOK, NEW n \in DOMAIN section, NEW m \in DOMAIN section,
           Before(n, m), Before(m, n)
    PROVE  FALSE
  BY StagesAssumption DEF StagesAssumption, TypeOK, Before

\* A group that is before another has another first stage.
LEMMA NotItself ==
    ASSUME TypeOK, NEW g PROVE ~GroupBefore(g, g)
<1> SUFFICES ASSUME NEW n \in Members(g), NEW m \in Members(g), First(n, Members(g)),
                    First(m, Members(g)), Before(n, m)
             PROVE  FALSE
  BY DEF GroupBefore
<1>1. n \in DOMAIN section /\ m \in DOMAIN section
  BY DEF Members
<1>2. n # m => Before(m, n)
  BY DEF First
<1>3. CASE n = m
  BY <1>1, <1>3, NotBoth
<1> QED
  BY <1>1, <1>2, <1>3, NotBoth

LEMMA OrderStays ==
    ASSUME section' = section
    PROVE  \A g, h : GroupBefore(g, h)' <=> GroupBefore(g, h)
  BY DEF GroupBefore, Members, First, Before

\* A group whose first stage is the first of the stages to do is before every
\* other group of stages to do.
LEMMA FirstGroup ==
    ASSUME TypeOK, NEW n \in todo, First(n, todo), NEW g, Members(g) \subseteq todo
    PROVE  ~GroupBefore(g, section[n].group)
<1> SUFFICES ASSUME NEW a \in Members(g), NEW b \in Members(section[n].group),
                    First(b, Members(section[n].group)), Before(a, b)
             PROVE  FALSE
  BY DEF GroupBefore
<1>1. a \in todo /\ a \in DOMAIN section /\ b \in DOMAIN section /\ n \in DOMAIN section
  BY DEF Members, TypeOK
<1>2. n \in Members(section[n].group)
  BY <1>1 DEF Members
<1>3. b = n \/ Before(b, n)
  BY <1>2 DEF First
<1>4. a = n \/ Before(n, a)
  BY <1>1 DEF First
<1>5. Before(a, n)
  BY <1>1, <1>3, StagesAssumption DEF StagesAssumption, TypeOK, Before
<1> QED
  BY <1>1, <1>4, <1>5, NotBoth

\* The next stage is taken from the group, and with a device it is gone into.
LEMMA BeginsStage ==
    ASSUME TypeOK, BeginStage
    PROVE  /\ at = "stage"
           /\ UNCHANGED <<section, stops, group, pool, errors, thread, reported>>
           /\ next' = 1
           /\ \E n \in todo :
                /\ n \in DOMAIN section /\ section[n].group = group
                /\ todo' = todo \ {n} /\ stage' = n
                /\ at' \in {"device", "inline", "stage"}
                /\ Devices(n) # {} => at' = "device"
<1>1. PICK n \in InGroup(group) :
          /\ todo' = LeftToDo(n) /\ stage' = n
          /\ at' = CASE Devices(n) # {} -> "device"
                     [] Enabled(n) /\ section[n].devices = Inline -> "inline"
                     [] OTHER -> "stage"
  BY DEF BeginStage
<1>2. at' \in {"device", "inline", "stage"}
  BY <1>1
<1>3. ~(Devices(n) # {} /\ section[n].devices = Inline)
  BY DEF Devices, Inline
<1>4. Devices(n) # {} => at' = "device"
  BY <1>1, <1>3
<1> QED
  BY <1>1, <1>2, <1>4 DEF BeginStage, InGroup, LeftToDo, TypeOK

\* The steps of a thread: none begins to run and none is new again.
LEMMA ThreadSteps ==
    ASSUME TypeOK, NEW t \in Threads, Run(t)
    PROVE  /\ UNCHANGED <<section, stops, at, todo, group, stage, next, pool, reported>>
           /\ Threads' = Threads /\ Running' \subseteq Running
           /\ \A u \in Threads : thread[u] # "new" => thread'[u] # "new"
<1>1. /\ UNCHANGED <<section, stops, at, todo, group, stage, next, pool, reported>>
      /\ t \in Running /\ thread \in [Threads -> States]
      /\ \E s \in {"ended", "failing", "failed"} : thread' = [thread EXCEPT ![t] = s]
  <2>1. t \in Running /\ thread \in [Threads -> States]
    BY DEF Run, End, Raise, Report, Running, TypeOK, States
  <2> QED
    BY <2>1 DEF Run, End, Raise, Report
<1>2. Threads' = Threads
  BY <1>1 DEF Threads, Devices, Enabled
<1> QED
  BY <1>1, <1>2 DEF Running

\* A thread is started: it alone begins to run.
LEMMA Starts ==
    ASSUME TypeOK, StartThread
    PROVE  /\ at = "device" /\ at' \in {"join", "cap"}
           /\ UNCHANGED <<section, stops, todo, group, stage, errors, reported>>
           /\ next' = next + 1 /\ pool' = pool \cup {<<stage, next>>}
           /\ Threads' = Threads /\ <<stage, next>> \in Threads
           /\ thread'[<<stage, next>>] = "running"
           /\ \A u \in Threads \ {<<stage, next>>} : thread'[u] = thread[u]
           /\ Running' = Running \cup {<<stage, next>>}
<1>1. /\ at = "device" /\ at' \in {"join", "cap"}
      /\ UNCHANGED <<section, stops, todo, group, stage, errors, reported>>
      /\ next' = next + 1 /\ pool' = pool \cup {<<stage, next>>}
      /\ <<stage, next>> \in Threads
      /\ thread' = [thread EXCEPT ![<<stage, next>>] = "running"]
  BY DEF StartThread, TypeOK, Threads
<1>2. Threads' = Threads
  BY <1>1 DEF Threads, Devices, Enabled
<1>3. thread \in [Threads -> States]
  BY DEF TypeOK, States
<1> HIDE DEF TypeOK
<1>4. /\ thread'[<<stage, next>>] = "running"
      /\ \A u \in Threads \ {<<stage, next>>} : thread'[u] = thread[u]
  BY <1>1, <1>3
<1> QED
  BY <1>1, <1>2, <1>4 DEF Running

LEMMA ThreadIsPair ==
    ASSUME TypeOK, NEW t \in Threads
    PROVE  /\ t = <<t[1], t[2]>> /\ t[1] \in DOMAIN section
           /\ t[2] \in Devices(t[1])
           /\ t[2] \in Nat /\ t[2] >= 1 /\ section[t[1]].devices \in Int
           /\ t[2] <= section[t[1]].devices
<1>1. t = <<t[1], t[2]>> /\ t[1] \in DOMAIN section /\ t[2] \in Devices(t[1])
  BY DEF Threads
<1>2. section[t[1]].devices \in Int
  BY <1>1, StagesAssumption DEF StagesAssumption, TypeOK, Inline, Undefined
<1> QED
  BY <1>1, <1>2 DEF Devices

LEMMA StepStarted == OrderInv /\ [Next]_vars => Started'
<1> SUFFICES ASSUME OrderInv, [Next]_vars PROVE Started'
  OBVIOUS
<1>0. TypeOK /\ Unstarted /\ Started /\ Placed
  BY DEF OrderInv, ErrorInv
<1> USE DEF Started, InStage
<1>1. CASE BeginGroup \/ Return \/ EndStages \/ RunInline \/ ConstructorRaises
  BY <1>0, <1>1, ThreadsStay
     DEF BeginGroup, Return, EndStages, RunInline, ConstructorRaises
<1>2. CASE AfterJoin \/ BelowCap \/ JoinPool \/ EndGroup \/ Over \/ UNCHANGED vars
  BY <1>0, <1>2, ThreadsStay
     DEF AfterJoin, JoinOne, BelowCap, JoinPool, EndGroup, Over, vars
<1>3. CASE BeginStage
  <2>1. PICK n \in todo :
          /\ todo' = todo \ {n} /\ stage' = n
          /\ Devices(n) # {} => at' = "device"
    BY <1>0, <1>3, BeginsStage
  <2>2. next' = 1 /\ at = "stage" /\ UNCHANGED <<section, thread>> /\ Threads' = Threads
    BY <1>0, <1>3, BeginsStage, ThreadsStay
  <2>3. ASSUME NEW t \in Threads, t[1] \notin todo',
               InStage' => t[1] # n \/ t[2] < 1
        PROVE  thread[t] # "new"
    <3>1. t[1] # n
      BY <1>0, <2>1, <2>3, ThreadIsPair
    <3> QED
      BY <1>0, <2>1, <2>2, <2>3, <3>1
  <2> QED
    BY <2>1, <2>2, <2>3
<1>4. CASE StartThread
  <2>1. ASSUME NEW t \in Threads, t[1] \notin todo, t[1] # stage \/ t[2] < next + 1
        PROVE  thread'[t] # "new"
    <3>1. CASE t = <<stage, next>>
      BY <1>0, <1>4, <3>1, Starts
    <3>2. CASE t # <<stage, next>>
      <4>1. t[1] # stage \/ t[2] # next
        BY <1>0, <3>2, ThreadIsPair
      <4>2. t[1] # stage \/ t[2] < next
        BY <1>0, <2>1, <4>1, ThreadIsPair DEF TypeOK
      <4>3. thread[t] # "new"
        BY <1>0, <2>1, <4>2
      <4> QED
        BY <1>0, <1>4, <3>2, <4>3, Starts
    <3> QED
      BY <3>1, <3>2
  <2> QED
    BY <1>0, <1>4, <2>1, Starts
<1>5. CASE EndStage
  <2>1. ASSUME NEW t \in Threads, t[1] = stage PROVE t[2] < next
    <3>1. next \notin Devices(stage) /\ next >= 1 /\ next \in Nat
      BY <1>0, <1>5 DEF EndStage, Placed, TypeOK
    <3>2. Enabled(stage)
      BY <1>0, <2>1, ThreadIsPair DEF Devices
    <3> QED
      BY <1>0, <2>1, <3>1, <3>2, ThreadIsPair DEF Devices
  <2> QED
    BY <1>0, <1>5, <2>1, ThreadsStay DEF EndStage
<1>6. ASSUME NEW t \in Threads, Run(t) PROVE Started'
  BY <1>0, <1>6, ThreadSteps
<1> QED
  BY <1>1, <1>2, <1>3, <1>4, <1>5, <1>6 DEF Next, Process

LEMMA StepPlaced == OrderInv /\ [Next]_vars => Placed'
<1> SUFFICES ASSUME OrderInv, [Next]_vars PROVE Placed'
  OBVIOUS
<1>0. TypeOK /\ Pooled /\ Placed
  BY DEF OrderInv, ErrorInv
<1> USE DEF Placed, InStage, Outside
<1>1. CASE BeginGroup \/ Return
  <2>1. Running = {}
    BY <1>0, <1>1 DEF BeginGroup, Return, Pooled
  <2> QED
    BY <1>0, <1>1, <2>1, ThreadsStay DEF BeginGroup, Return
<1>2. CASE EndStages
  BY <1>0, <1>2, ThreadsStay DEF EndStages, InGroup
<1>3. CASE RunInline \/ ConstructorRaises \/ AfterJoin \/ BelowCap \/ JoinPool \/ EndStage
  BY <1>0, <1>3, ThreadsStay
     DEF RunInline, ConstructorRaises, AfterJoin, JoinOne, BelowCap, JoinPool, EndStage
<1>4. CASE EndGroup \/ Over \/ UNCHANGED vars
  BY <1>0, <1>4, ThreadsStay DEF EndGroup, Over, vars
<1>5. CASE BeginStage
  BY <1>0, <1>5, BeginsStage, ThreadsStay
<1>6. CASE StartThread
  <2>1. next + 1 >= 1
    BY <1>0 DEF TypeOK
  <2> QED
    BY <1>0, <1>6, <2>1, Starts
<1>7. ASSUME NEW t \in Threads, Run(t) PROVE Placed'
  BY <1>0, <1>7, ThreadSteps
<1> QED
  BY <1>1, <1>2, <1>3, <1>4, <1>5, <1>6, <1>7 DEF Next, Process

\* A step that takes no stage and begins no group leaves the order alone.
LEMMA WholeStays ==
    ASSUME Whole, UNCHANGED <<section, todo, group>>, Outside' => Outside
    PROVE  Whole'
  BY DEF Whole

LEMMA SortedStays ==
    ASSUME Sorted, UNCHANGED <<section, todo, group>>, Outside => Outside'
    PROVE  Sorted'
  BY DEF Sorted, GroupBefore, Members, First, Before

LEMMA StepWhole == OrderInv /\ [Next]_vars => Whole'
<1> SUFFICES ASSUME OrderInv, [Next]_vars PROVE Whole'
  OBVIOUS
<1>0. TypeOK /\ Placed /\ Whole
  BY DEF OrderInv, ErrorInv
<1>1. CASE BeginGroup
  BY <1>0, <1>1 DEF BeginGroup, Whole, Outside
<1>2. CASE BeginStage
  BY <1>0, <1>2, BeginsStage DEF Whole, Outside
<1>3. CASE EndGroup
  BY <1>0, <1>3 DEF EndGroup, Placed, Whole
<1>4. CASE Return \/ EndStages \/ RunInline \/ ConstructorRaises \/ AfterJoin
           \/ BelowCap \/ JoinPool \/ EndStage \/ Over \/ UNCHANGED vars
  BY <1>0, <1>4, WholeStays
     DEF Return, EndStages, RunInline, ConstructorRaises, AfterJoin, JoinOne, BelowCap,
         JoinPool, EndStage, Over, vars, Outside
<1>5. CASE StartThread
  BY <1>0, <1>5, Starts, WholeStays DEF Outside
<1>6. ASSUME NEW t \in Threads, Run(t) PROVE Whole'
  BY <1>0, <1>6, ThreadSteps, WholeStays DEF Outside
<1> QED
  BY <1>1, <1>2, <1>3, <1>4, <1>5, <1>6 DEF Next, Process

LEMMA StepSorted == OrderInv /\ [Next]_vars => Sorted'
<1> SUFFICES ASSUME OrderInv, [Next]_vars PROVE Sorted'
  OBVIOUS
<1>0. TypeOK /\ Placed /\ Whole /\ Sorted
  BY DEF OrderInv, ErrorInv
<1>1. CASE BeginGroup
  <2>1. PICK n \in todo : First(n, todo) /\ group' = section[n].group
    BY <1>1 DEF BeginGroup
  <2>2. UNCHANGED <<section, todo>> /\ at = "group" /\ at' = "stage"
    BY <1>1 DEF BeginGroup
  <2>3. ASSUME NEW m \in todo PROVE ~GroupBefore(section[m].group, section[n].group)
    <3>1. Members(section[m].group) \subseteq todo
      BY <1>0, <2>2 DEF Whole, Members, Outside
    <3> QED
      BY <1>0, <2>1, <3>1, FirstGroup
  <2>4. \A m \in (DOMAIN section) \ todo : ~GroupBefore(section[n].group, section[m].group)
    BY <1>0 DEF Sorted
  <2>5. \A g, h : GroupBefore(g, h)' <=> GroupBefore(g, h)
    BY <2>2, OrderStays
  <2>6. \A k \in todo, m \in (DOMAIN section) \ todo :
            ~GroupBefore(section[k].group, section[m].group)
    BY <1>0 DEF Sorted
  <2> QED
    BY <2>1, <2>2, <2>3, <2>4, <2>5, <2>6 DEF Sorted
<1>2. CASE BeginStage
  <2>1. PICK n \in todo :
          n \in DOMAIN section /\ section[n].group = group /\ todo' = todo \ {n}
    BY <1>0, <1>2, BeginsStage
  <2>2. UNCHANGED <<section, group>> /\ ~Outside
    BY <1>0, <1>2, BeginsStage DEF Outside
  <2>3. \A m \in (DOMAIN section) \ todo' : m = n \/ m \in (DOMAIN section) \ todo
    BY <2>1
  <2>4. ~GroupBefore(group, group)
    BY <1>0, NotItself
  <2>5. \A k \in todo', m \in (DOMAIN section) \ todo' :
            ~GroupBefore(section[k].group, section[m].group)
    BY <1>0, <2>1, <2>2, <2>3 DEF Sorted
  <2>6. \A k \in todo' : ~GroupBefore(section[k].group, group)
    BY <1>0, <2>1, <2>2 DEF Sorted
  <2>7. \A m \in (DOMAIN section) \ todo' : ~GroupBefore(group, section[m].group)
    BY <1>0, <2>1, <2>2, <2>3, <2>4 DEF Sorted
  <2>8. \A g, h : GroupBefore(g, h)' <=> GroupBefore(g, h)
    BY <2>2, OrderStays
  <2> QED
    BY <2>2, <2>5, <2>6, <2>7, <2>8 DEF Sorted
<1>3. CASE Return \/ EndStages \/ RunInline \/ ConstructorRaises \/ AfterJoin
           \/ BelowCap \/ JoinPool \/ EndStage \/ EndGroup \/ Over \/ UNCHANGED vars
  BY <1>0, <1>3, SortedStays
     DEF Return, EndStages, RunInline, ConstructorRaises, AfterJoin, JoinOne, BelowCap,
         JoinPool, EndStage, EndGroup, Over, vars, Outside
<1>4. CASE StartThread
  BY <1>0, <1>4, Starts, SortedStays DEF Outside
<1>5. ASSUME NEW t \in Threads, Run(t) PROVE Sorted'
  BY <1>0, <1>5, ThreadSteps, SortedStays DEF Outside
<1> QED
  BY <1>1, <1>2, <1>3, <1>4, <1>5 DEF Next, Process

LEMMA StepOrder == OrderInv /\ [Next]_vars => OrderInv'
  BY StepErrors, StepStarted, StepPlaced, StepWhole, StepSorted DEF OrderInv

LEMMA OrderEnough == OrderInv => GroupsInOrder
<1> SUFFICES ASSUME OrderInv PROVE GroupsInOrder
  OBVIOUS
<1>0. /\ TypeOK /\ Unstarted /\ Pooled
      /\ Started /\ Placed /\ Sorted
  BY DEF OrderInv, ErrorInv
<1>1. \A t \in Threads : thread[t] # "new" /\ t \notin Running => Joined({t})
  BY <1>0 DEF Joined, Running, TypeOK
<1>2. ASSUME NEW t \in Threads, NEW u \in Threads,
             GroupBefore(section[t[1]].group, section[u[1]].group), thread[u] # "new"
      PROVE  Joined({t})
  <2>1. /\ t[1] \in DOMAIN section /\ t[1] \notin todo
        /\ u[1] \in DOMAIN section /\ u[1] \notin todo
    BY <1>0, <1>2, ThreadIsPair DEF Unstarted, Sorted
  <2>2. CASE Outside
    <3>1. thread[t] # "new" /\ t \notin Running
      BY <1>0, <2>1, <2>2 DEF Started, Pooled, InStage, Outside
    <3> QED
      BY <1>1, <3>1
  <2>3. CASE ~Outside
    <3>1. section[t[1]].group # group
      BY <1>0, <1>2, <2>1, <2>3 DEF Sorted
    <3>2. t \notin Running
      BY <1>0, <2>3, <3>1 DEF Placed
    <3>3. InStage \/ at = "raised" => t[1] # stage
      BY <1>0, <3>1 DEF Placed
    <3>4. thread[t] # "new"
      BY <1>0, <2>1, <3>3 DEF Started
    <3> QED
      BY <1>1, <3>2, <3>4
  <2> QED
    BY <2>2, <2>3
<1>3. ASSUME at = "returned" PROVE Joined(Threads)
  <2>1. \A t \in Threads : thread[t] # "new" /\ t \notin Running
    BY <1>0, <1>3 DEF Started, Placed, Pooled, InStage
  <2> QED
    BY <1>1, <2>1 DEF Joined
<1>4. at = "stage_error" => Running = {}
  BY <1>0 DEF Pooled
<1> QED
  BY <1>2, <1>3, <1>4 DEF GroupsInOrder

\* No thread starts before those of the groups before its own have ended.
THEOREM OneGroupAfterAnother == Spec => []GroupsInOrder
  BY InitOrder, StepOrder, OrderEnough, PTL DEF Spec

-----------------------------------------------------------------------------
(* How many run *)

\* How many threads the pool has before one is started, and after it.
CountInv ==
    /\ IsFiniteSet(pool)
    /\ at \in {"stage", "device", "inline", "last", "raised"} =>
          pool = {} \/ \E n \in Members(group) : Cardinality(pool) < section[n].threads
    /\ at \in {"join", "cap"} =>
          \E n \in Members(group) :
              Cardinality(pool) <= section[n].threads \/ Cardinality(pool) <= 1

\* Nobody goes on before the thread of a stage that is not parallelizable ends.
SerialInv ==
    \A t \in Running : ~section[t[1]].parallel => at = "join" /\ t = <<stage, next - 1>>

CapInv == OrderInv /\ CountInv

LEMMA InitCap == Init => CapInv
<1> SUFFICES ASSUME Init PROVE CountInv
  BY InitOrder DEF CapInv
<1> QED
  BY FS_EmptySet DEF Init, CountInv

LEMMA MembersStay == section' = section => \A g : Members(g)' = Members(g)
  BY DEF Members

LEMMA StepCount == CapInv /\ [Next]_vars => CountInv'
<1> SUFFICES ASSUME CapInv, [Next]_vars PROVE CountInv'
  OBVIOUS
<1>0. TypeOK /\ Placed /\ CountInv
  BY DEF CapInv, OrderInv, ErrorInv
<1> USE DEF CountInv
<1>1. CASE BeginGroup
  BY <1>0, <1>1, FS_EmptySet DEF BeginGroup
<1>2. CASE Return \/ EndGroup
  BY <1>0, <1>2 DEF Return, EndGroup
<1>3. CASE EndStages \/ RunInline \/ ConstructorRaises \/ EndStage
  BY <1>0, <1>3 DEF EndStages, RunInline, ConstructorRaises, EndStage, Members
<1>4. CASE AfterJoin \/ Over \/ UNCHANGED vars
  BY <1>0, <1>4 DEF AfterJoin, JoinOne, Over, vars, Members
<1>5. CASE BeginStage
  <2>1. at = "stage" /\ at' \in {"device", "inline", "stage"}
        /\ UNCHANGED <<section, group, pool>>
    BY <1>0, <1>5, BeginsStage
  <2> QED
    BY <1>0, <2>1 DEF Members
<1>6. CASE StartThread
  <2> DEFINE t == <<stage, next>>
  <2>1. /\ at = "device" /\ at' \in {"join", "cap"} /\ UNCHANGED <<section, group>>
        /\ pool' = pool \cup {t}
    BY <1>0, <1>6, Starts
  <2>2. stage \in Members(group)
    BY <1>0, <2>1 DEF Placed, InStage, Members
  <2>3. /\ IsFiniteSet(pool')
        /\ Cardinality(pool') = IF t \in pool THEN Cardinality(pool) ELSE Cardinality(pool) + 1
    BY <1>0, <2>1, FS_AddElement
  <2>4. Cardinality(pool) \in Nat
    BY <1>0, FS_CardinalityType
  <2>5. \E n \in Members(group) :
            Cardinality(pool') <= section[n].threads \/ Cardinality(pool') <= 1
    <3>1. CASE pool = {}
      BY <2>2, <2>3, <3>1, FS_EmptySet
    <3>2. CASE pool # {}
      <4>1. PICK n \in Members(group) : Cardinality(pool) < section[n].threads
        BY <1>0, <2>1, <3>2
      <4>2. section[n].threads \in Nat
        BY <1>0, StagesAssumption DEF StagesAssumption, TypeOK, Members
      <4> QED
        BY <2>3, <2>4, <4>1, <4>2
    <3> QED
      BY <3>1, <3>2
  <2> QED
    BY <2>1, <2>3, <2>5, MembersStay
<1>7. CASE BelowCap
  <2>1. stage \in Members(group)
    BY <1>0, <1>7 DEF BelowCap, Placed, InStage, Members
  <2>2. section[stage].threads \in Nat /\ Cardinality(pool) \in Nat
    BY <1>0, <2>1, StagesAssumption, FS_CardinalityType DEF StagesAssumption, TypeOK, Members
  <2>3. Cardinality(pool) < section[stage].threads
    BY <1>7, <2>2 DEF BelowCap, AtCap
  <2> QED
    BY <1>0, <1>7, <2>1, <2>3, MembersStay DEF BelowCap
<1>8. CASE JoinPool
  BY <1>8, FS_EmptySet DEF JoinPool
<1>9. ASSUME NEW t \in Threads, Run(t) PROVE CountInv'
  BY <1>0, <1>9, ThreadSteps DEF Members
<1> QED
  BY <1>1, <1>2, <1>3, <1>4, <1>5, <1>6, <1>7, <1>8, <1>9 DEF Next, Process

LEMMA StepCap == CapInv /\ [Next]_vars => CapInv'
  BY StepOrder, StepCount DEF CapInv

LEMMA CapEnough == CapInv => CapIsKept
<1> SUFFICES ASSUME CapInv, Running # {}
             PROVE  \E n \in Members(group) :
                      Cardinality(Running) <= section[n].threads \/ Cardinality(Running) <= 1
  BY DEF CapIsKept
<1>0. TypeOK /\ Pooled /\ CountInv
  BY DEF CapInv, OrderInv, ErrorInv
<1>1. /\ Cardinality(Running) <= Cardinality(pool)
      /\ Cardinality(Running) \in Nat /\ Cardinality(pool) \in Nat
  BY <1>0, FS_Subset, FS_CardinalityType DEF Pooled, CountInv
<1>2. pool # {}
  BY <1>0 DEF Pooled
<1>3. PICK n \in Members(group) :
          Cardinality(pool) <= section[n].threads \/ Cardinality(pool) <= 1
  <2>1. CASE at \in {"join", "cap"}
    BY <1>0, <2>1 DEF CountInv
  <2>2. CASE at \in {"stage", "device", "inline", "last", "raised"}
    <3>1. PICK n \in Members(group) : Cardinality(pool) < section[n].threads
      BY <1>0, <1>2, <2>2 DEF CountInv
    <3>2. section[n].threads \in Nat
      BY <1>0, StagesAssumption DEF StagesAssumption, TypeOK, Members
    <3> QED
      BY <1>1, <3>1, <3>2
  <2>3. at \notin {"group", "returned", "stage_error"}
    BY <1>0 DEF Pooled
  <2> QED
    BY <1>0, <2>1, <2>2, <2>3 DEF TypeOK
<1>4. section[n].threads \in Nat
  BY <1>0, StagesAssumption DEF StagesAssumption, TypeOK, Members
<1> QED
  BY <1>1, <1>3, <1>4

\* No more threads run than the largest cap of the stages of the group.
THEOREM CapOfTheGroup == Spec => []CapIsKept
  BY InitCap, StepCap, CapEnough, PTL DEF Spec

RunsInv == ErrorInv /\ SerialInv

LEMMA StepSerial == RunsInv /\ [Next]_vars => RunsInv'
<1> SUFFICES ASSUME RunsInv, [Next]_vars PROVE SerialInv'
  BY StepErrors DEF RunsInv
<1>0. TypeOK /\ SerialInv
  BY DEF RunsInv, ErrorInv
<1> USE DEF SerialInv
<1>1. CASE BeginGroup \/ Return \/ EndStages \/ RunInline \/ ConstructorRaises \/ BelowCap
  BY <1>0, <1>1, ThreadsStay
     DEF BeginGroup, Return, EndStages, RunInline, ConstructorRaises, BelowCap
<1>2. CASE JoinPool \/ EndStage \/ EndGroup \/ Over \/ UNCHANGED vars
  BY <1>0, <1>2, ThreadsStay DEF JoinPool, EndStage, EndGroup, Over, vars
<1>3. CASE BeginStage
  BY <1>0, <1>3, BeginsStage, ThreadsStay
<1>4. CASE StartThread
  <2>1. at' = IF section[stage].parallel THEN "cap" ELSE "join"
    BY <1>4 DEF StartThread
  <2>2. next \in Nat /\ (next + 1) - 1 = next
    BY <1>0 DEF TypeOK
  <2> QED
    BY <1>0, <1>4, <2>1, <2>2, Starts
<1>5. CASE AfterJoin
  <2>1. <<stage, next - 1>> \notin Running
    BY <1>5 DEF AfterJoin, JoinOne, Joined, Running
  <2> QED
    BY <1>0, <1>5, <2>1, ThreadsStay DEF AfterJoin
<1>6. ASSUME NEW t \in Threads, Run(t) PROVE SerialInv'
  BY <1>0, <1>6, ThreadSteps
<1> QED
  BY <1>1, <1>2, <1>3, <1>4, <1>5, <1>6 DEF Next, Process

LEMMA InitRuns == Init => RunsInv
<1> SUFFICES ASSUME Init PROVE SerialInv
  BY InitErrors DEF RunsInv
<1> QED
  BY DEF Init, SerialInv, Running

LEMMA SerialEnough == RunsInv => SerialRunsAlone
  BY DEF RunsInv, SerialInv, SerialRunsAlone

\* Threads of stages that are not parallelizable run one after the other.
THEOREM SerialOneByOne == Spec => []SerialRunsAlone
  BY InitRuns, StepSerial, SerialEnough, PTL DEF Spec
=============================================================================
