-------------------------- MODULE LogPollingProofs ---------------------------
(***************************************************************************)
(* What LogPolling promises the page, for any buffer, task, and number of  *)
(* polls: the types of its variables, and that a line that counts as seen  *)
(* is on the page, or had left the buffer, unless the page was torn.       *)
(***************************************************************************)
EXTENDS LogPolling, TLAPS

USE DEF Active, States, Tasks, Slots, Lines

LEMMA Bounds ==
    /\ Keep \in Nat /\ MaxLines \in Nat /\ MaxMoves \in Nat /\ Patience \in Nat
    /\ MaxTasks \in Nat /\ 1 \in Tasks
  BY PollingAssumption DEF PollingAssumption

LEMMA InitType == Init => TypeOK
<1> SUFFICES ASSUME Init PROVE TypeOK
  OBVIOUS
<1>1. flight \in [Slots -> Refresh \cup {None}]
  BY DEF Init
<1>2. late \in BOOLEAN /\ torn \in BOOLEAN /\ doubled \in BOOLEAN
  BY DEF Init
<1>3. status \in [Tasks -> States]
  BY DEF Init
<1>4. /\ tip \in [Tasks -> 0 .. MaxLines] /\ meta \in [Tasks -> 0 .. MaxLines]
      /\ \A t \in Tasks : meta[t] \in {0, tip[t]}
  BY Bounds DEF Init
<1> QED
  BY <1>1, <1>2, <1>3, <1>4, Bounds DEF Init, TypeOK

\* A refresh that is sent is a refresh.
LEMMA SendType ==
    ASSUME TypeOK, NEW i \in Slots, NEW t \in Tasks,
           NEW rest \in [Slots -> Refresh \cup {None}], Send(i, t, rest)
    PROVE  flight' \in [Slots -> Refresh \cup {None}] /\ late' \in BOOLEAN
<1>1. [task |-> t, s |-> offset, upto |-> 0, timer |-> TRUE, at |-> "sent",
       status |-> "PENDING"] \in Refresh
  BY Bounds DEF TypeOK, Refresh
<1>2. late' \in BOOLEAN
  BY DEF TypeOK, Send
<1> QED
  BY <1>1, <1>2 DEF Send

LEMMA SliceIsLines ==
    ASSUME NEW s \in 0 .. MaxLines, NEW upto \in 0 .. MaxLines
    PROVE  Slice(s, upto) \subseteq 1 .. upto /\ Slice(s, upto) \subseteq Lines
<1>1. Base(upto) \in Nat
  BY Bounds DEF Base
<1> QED
  BY <1>1, Bounds DEF Slice

LEMMA StepType == TypeOK /\ [Next]_vars => TypeOK'
<1> SUFFICES ASSUME TypeOK, [Next]_vars PROVE TypeOK'
  OBVIOUS
<1> USE Bounds
<1>1. ASSUME NEW t \in Tasks, TaskStarts(t) PROVE TypeOK'
  BY <1>1 DEF TypeOK, TaskStarts, page, place, logs, history
<1>2. ASSUME NEW t \in Tasks, Emit(t) PROVE TypeOK'
  <2>1. tip[t] + 1 \in 0 .. MaxLines
    BY <1>2 DEF TypeOK, Emit
  <2>2. /\ tip' \in [Tasks -> 0 .. MaxLines] /\ meta' \in [Tasks -> 0 .. MaxLines]
        /\ \A u \in Tasks : meta'[u] \in {0, tip'[u]}
    BY <1>2, <2>1 DEF TypeOK, Emit
  <2> QED
    BY <1>2, <2>2 DEF TypeOK, Emit, page, place, logs, history
<1>3. ASSUME NEW t \in Tasks, TaskEnds(t) PROVE TypeOK'
  BY <1>3 DEF TypeOK, TaskEnds, page, place, logs, history
<1>4. ASSUME NEW t \in Tasks, Evict(t) PROVE TypeOK'
  BY <1>4 DEF TypeOK, Evict, Move, page, place, logs, history
<1>5. ASSUME NEW t \in Tasks, Open(t) PROVE TypeOK'
  <2>1. flight' \in [Slots -> Refresh \cup {None}] /\ late' \in BOOLEAN
    BY <1>5, SendType DEF Open, TypeOK
  <2>2. torn' \in BOOLEAN
    BY <1>5 DEF Open, TypeOK
  <2> QED
    BY <1>5, <2>1, <2>2 DEF TypeOK, Open, Move, server, logs
<1>6. CASE Home
  <2>1. shown' = {} /\ gone' \subseteq Lines /\ hash' = None /\ moves' \in 0 .. MaxMoves
    BY <1>6 DEF TypeOK, Home, Move
  <2>2. doubled' \in BOOLEAN
    BY <1>6 DEF Home
  <2>3. UNCHANGED <<server, task, patience, offset, flight, timers, late, torn>>
    BY <1>6 DEF Home
  <2> QED
    BY <2>1, <2>2, <2>3 DEF TypeOK, server
<1>7. CASE Start
  <2>1. PICK t \in Tasks :
            /\ status' = [status EXCEPT ![t] = "PENDING"]
            /\ task' = t
    BY <1>7 DEF Start
  <2>2. status' \in [Tasks -> States] /\ task' \in Tasks
    BY <2>1 DEF TypeOK
  <2>3. torn' \in BOOLEAN
    BY <1>7 DEF Start, TypeOK
  <2>4. gone' \subseteq Lines
    BY <1>7 DEF Start, TypeOK
  <2>5. doubled' \in BOOLEAN
    BY <1>7 DEF Start
  <2>6. shown' = {} /\ moves' \in 0 .. MaxMoves
    BY <1>7 DEF TypeOK, Start, Move
  <2>7. UNCHANGED <<tip, meta, hash, patience, offset, flight, timers, late>>
    BY <1>7 DEF Start
  <2> QED
    BY <2>2, <2>3, <2>4, <2>5, <2>6, <2>7 DEF TypeOK
<1>8. CASE Fire
  <2>1. flight' \in [Slots -> Refresh \cup {None}] /\ late' \in BOOLEAN
    BY <1>8, SendType DEF Fire, TypeOK
  <2> QED
    BY <1>8, <2>1 DEF TypeOK, Fire, server, page, place, logs
<1>9. ASSUME NEW j \in Slots, FireLate(j) PROVE TypeOK'
  <2>1. [flight EXCEPT ![j].timer = FALSE] \in [Slots -> Refresh \cup {None}]
    BY <1>9 DEF FireLate, TypeOK, Refresh
  <2>2. flight' \in [Slots -> Refresh \cup {None}] /\ late' \in BOOLEAN
    BY <1>9, <2>1, SendType DEF FireLate, TypeOK
  <2> QED
    BY <1>9, <2>2 DEF TypeOK, FireLate, server, page, place, logs
<1>10. ASSUME NEW i \in Slots, LoadMeta(i) \/ LoadStatus(i) PROVE TypeOK'
  <2>1. flight' \in [Slots -> Refresh \cup {None}]
    <3>1. flight[i] \in Refresh
      BY <1>10 DEF TypeOK, LoadMeta, LoadStatus
    <3>2. meta[flight[i].task] \in 0 .. MaxLines
      BY <3>1 DEF TypeOK, Refresh
    <3>3. CASE LoadMeta(i)
      <4>1. [flight[i] EXCEPT !.at = "read", !.upto = meta[flight[i].task]] \in Refresh
        BY <3>1, <3>2 DEF Refresh
      <4> QED
        BY <3>3, <4>1 DEF TypeOK, LoadMeta
    <3>4. CASE LoadStatus(i)
      <4>1. status[flight[i].task] \in States
        BY <3>1 DEF TypeOK, Refresh
      <4>2. [flight[i] EXCEPT !.at = "answered", !.status = status[flight[i].task]] \in Refresh
        BY <3>1, <4>1 DEF Refresh
      <4> QED
        BY <3>4, <4>2 DEF TypeOK, LoadStatus
    <3> QED
      BY <1>10, <3>3, <3>4
  <2> QED
    BY <1>10, <2>1 DEF TypeOK, LoadMeta, LoadStatus, server, page, place, logs, history
<1>11. ASSUME NEW i \in Slots, Answer(i) PROVE TypeOK'
  <2> DEFINE r == flight[i]
  <2>1. r.s \in 0 .. MaxLines /\ r.upto \in 0 .. MaxLines
    BY <1>11 DEF Answer, TypeOK, Refresh
  <2>2. IF r.upto = 0 THEN StartOver(i) ELSE Show(r.s, r.upto)
    BY <1>11 DEF Answer
  <2>3. /\ shown' \subseteq Lines /\ gone' \subseteq Lines /\ offset' \in 0 .. MaxLines
        /\ doubled' \in BOOLEAN /\ late' \in BOOLEAN /\ torn' \in BOOLEAN
    <3>1. CASE r.upto = 0
      <4>1. StartOver(i)
        BY <2>2, <3>1
      <4>2. doubled' \in BOOLEAN /\ torn' \in BOOLEAN
        BY <4>1 DEF StartOver
      <4>3. late' \in BOOLEAN
        BY <4>1 DEF StartOver, TypeOK
      <4> QED
        BY <4>1, <4>2, <4>3 DEF StartOver
    <3>2. CASE r.upto # 0
      <4>1. Show(r.s, r.upto) /\ Slice(r.s, r.upto) \subseteq Lines
        BY <2>1, <2>2, <3>2, SliceIsLines
      <4>2. {n \in 1 .. r.upto : n > r.s /\ n <= r.upto - Keep} \subseteq Lines
        BY <2>1
      <4>3. shown' \subseteq Lines /\ gone' \subseteq Lines
        BY <4>1, <4>2 DEF Show, TypeOK
      <4>4. offset' \in 0 .. MaxLines
        BY <2>1, <4>1 DEF Show, NewOffset
      <4>5. doubled' \in BOOLEAN /\ late' \in BOOLEAN /\ torn' \in BOOLEAN
        BY <4>1 DEF Show, TypeOK
      <4> QED
        BY <4>3, <4>4, <4>5
    <3> QED
      BY <3>1, <3>2
  <2>4. flight' \in [Slots -> Refresh \cup {None}]
    BY <1>11 DEF Answer, TypeOK
  <2>5. patience' \in 0 .. Patience /\ timers' \in Nat
    BY <1>11 DEF Answer, TypeOK
  <2> QED
    BY <1>11, <2>3, <2>4, <2>5 DEF TypeOK, Answer, server, place
<1>12. ASSUME NEW i \in Slots, Error(i) PROVE TypeOK'
  BY <1>12 DEF TypeOK, Error, server, page, place, logs, history
<1>13. CASE Over \/ UNCHANGED vars
  BY <1>13 DEF TypeOK, Over, vars, server, page, place, logs, history
<1> QED
  BY <1>1, <1>2, <1>3, <1>4, <1>5, <1>6, <1>7, <1>8, <1>9, <1>10, <1>11, <1>12, <1>13
  DEF Next, Serve

\* Every variable of the tasks, the page and the polls keeps its type.
THEOREM PollingTypeCorrect == Spec => []TypeOK
  BY InitType, StepType, PTL DEF Spec

-----------------------------------------------------------------------------
(* No line that counts as seen is skipped *)

Seen(s) == 1 .. s \subseteq shown \cup gone

\* Unless the page is torn, every poll on its way is of its task; and what the
\* page counts as seen, and what it counted as seen when it sent those polls,
\* it has seen.
NoGaps ==
    torn \/ /\ Seen(offset)
            /\ \A i \in Slots : flight[i] # None => Seen(flight[i].s)
            /\ \A i \in Slots : flight[i] # None => flight[i].task = task

SeenInv == TypeOK /\ NoGaps

LEMMA InitSeen == Init => SeenInv
<1> SUFFICES ASSUME Init PROVE NoGaps
  BY InitType DEF SeenInv
<1> QED
  BY DEF Init, NoGaps, Seen

\* A poll that is sent asks for what the page has not counted as seen.
LEMMA SendSeen ==
    ASSUME NoGaps, NEW i \in Slots, NEW rest \in [Slots -> Refresh \cup {None}],
           flight \in [Slots -> Refresh \cup {None}],
           \A j \in Slots : rest[j] # None =>
               flight[j] # None /\ rest[j].s = flight[j].s /\ rest[j].task = flight[j].task,
           Send(i, task, rest), UNCHANGED <<task, offset, shown, gone, torn>>
    PROVE  NoGaps'
<1> SUFFICES ASSUME ~torn PROVE NoGaps'
  BY DEF NoGaps
<1>1. \A j \in Slots : flight'[j] # None => Seen(flight'[j].s) /\ flight'[j].task = task
  <2> SUFFICES ASSUME NEW j \in Slots, flight'[j] # None
               PROVE Seen(flight'[j].s) /\ flight'[j].task = task
    OBVIOUS
  <2>1. CASE j = i
    BY <2>1 DEF Send, NoGaps
  <2>2. CASE j # i
    BY <2>2 DEF Send, NoGaps
  <2> QED
    BY <2>1, <2>2
<1> QED
  BY <1>1 DEF NoGaps, Seen

\* An answer shows what its poll asked for, as far as the buffer still had it.
LEMMA ShowSeen ==
    ASSUME NEW s \in 0 .. MaxLines, NEW upto \in 0 .. MaxLines, Show(s, upto), Seen(s)
    PROVE  Seen(offset)' /\ shown \subseteq shown' /\ gone \subseteq gone'
<1>1. shown' = shown \cup Slice(s, upto) /\ offset' = upto
  BY DEF Show, NewOffset
<1>2. gone' = gone \cup {n \in 1 .. upto : n > s /\ n <= upto - Keep}
  BY DEF Show
<1>3. ASSUME NEW n \in 1 .. upto PROVE n \in shown' \cup gone'
  <2>1. n \in Nat /\ n >= 1 /\ s \in Nat /\ upto \in Nat
    BY Bounds
  <2>2. CASE n <= s
    <3>1. n \in 1 .. s
      BY <2>1, <2>2
    <3> QED
      BY <3>1, <1>1, <1>2 DEF Seen
  <2>3. CASE n > s /\ n > upto - Keep
    <3>1. n \in Base(upto) + 1 .. upto /\ s <= upto
      BY <2>1, <2>3, Bounds DEF Base
    <3> QED
      BY <2>3, <3>1, <1>1 DEF Slice
  <2>4. CASE n > s /\ n <= upto - Keep
    BY <2>4, <1>2
  <2> QED
    BY <2>1, <2>2, <2>3, <2>4, Bounds
<1> QED
  BY <1>1, <1>2, <1>3 DEF Seen

LEMMA StepSeen == SeenInv /\ [Next]_vars => SeenInv'
<1> SUFFICES ASSUME SeenInv, [Next]_vars PROVE NoGaps'
  BY StepType DEF SeenInv
<1>0. TypeOK /\ NoGaps /\ flight \in [Slots -> Refresh \cup {None}]
  BY DEF SeenInv, TypeOK
<1>1. ASSUME NEW t \in Tasks, TaskStarts(t) \/ Emit(t) \/ TaskEnds(t) \/ Evict(t)
      PROVE  NoGaps'
  BY <1>0, <1>1 DEF TaskStarts, Emit, TaskEnds, Evict, page, place, logs, history,
                    NoGaps, Seen
<1>2. CASE Over \/ UNCHANGED vars
  BY <1>0, <1>2 DEF Over, vars, page, place, logs, history, NoGaps, Seen
<1>3. ASSUME NEW t \in Tasks, Open(t) PROVE NoGaps'
  <2>1. CASE t # task
    BY <1>3, <2>1 DEF Open, NoGaps
  <2>2. CASE t = task
    <3>1. PICK i \in Slots : Send(i, task, flight)
      BY <1>3, <2>2 DEF Open
    <3>2. UNCHANGED <<task, offset, shown, gone, torn>>
      BY <1>0, <1>3, <2>2 DEF Open, logs, TypeOK
    <3> QED
      BY <1>0, <3>1, <3>2, SendSeen
  <2> QED
    BY <2>1, <2>2
<1>4. CASE Home
  BY <1>0, <1>4 DEF Home, server, NoGaps, Seen
<1>5. CASE Start
  <2> SUFFICES ASSUME ~torn' PROVE NoGaps'
    BY DEF NoGaps
  <2>1. AllAnswered /\ UNCHANGED <<offset, flight>> /\ gone' = gone \cup 1 .. offset
    BY <1>5 DEF Start
  <2> QED
    BY <2>1 DEF AllAnswered, NoGaps, Seen
<1>6. CASE Fire
  <2>1. UNCHANGED <<task, offset, shown, gone, torn>>
    BY <1>6 DEF Fire, page, place, logs
  <2> QED
    BY <1>0, <1>6, <2>1, SendSeen DEF Fire
<1>7. ASSUME NEW j \in Slots, FireLate(j) PROVE NoGaps'
  <2> DEFINE rest == [flight EXCEPT ![j].timer = FALSE]
  <2>1. flight[j] \in Refresh
    BY <1>0, <1>7 DEF FireLate
  <2>2. /\ rest \in [Slots -> Refresh \cup {None}]
        /\ \A k \in Slots : rest[k] # None =>
              flight[k] # None /\ rest[k].s = flight[k].s /\ rest[k].task = flight[k].task
    BY <1>0, <1>7, <2>1 DEF FireLate, Refresh
  <2>3. UNCHANGED <<task, offset, shown, gone, torn>>
    BY <1>7 DEF FireLate, page, place, logs
  <2> QED
    BY <1>0, <1>7, <2>2, <2>3, SendSeen DEF FireLate
<1>8. ASSUME NEW i \in Slots, LoadMeta(i) \/ LoadStatus(i) PROVE NoGaps'
  <2>1. flight[i] \in Refresh
    BY <1>0, <1>8 DEF LoadMeta, LoadStatus
  <2>2. \A j \in Slots : flight'[j] # None =>
            flight[j] # None /\ flight'[j].s = flight[j].s /\ flight'[j].task = flight[j].task
    <3>1. CASE LoadMeta(i)
      BY <1>0, <3>1, <2>1 DEF LoadMeta, Refresh
    <3>2. CASE LoadStatus(i)
      BY <1>0, <3>2, <2>1 DEF LoadStatus, Refresh
    <3> QED
      BY <1>8, <3>1, <3>2
  <2>3. UNCHANGED <<task, offset, shown, gone, torn>>
    BY <1>8 DEF LoadMeta, LoadStatus, page, place, logs, history
  <2> QED
    BY <1>0, <2>2, <2>3 DEF NoGaps, Seen
<1>9. ASSUME NEW i \in Slots, Error(i) PROVE NoGaps'
  BY <1>0, <1>9 DEF Error, page, place, logs, history, NoGaps, Seen
<1>10. ASSUME NEW i \in Slots, Answer(i) PROVE NoGaps'
  <2> DEFINE r == flight[i]
  <2>1. r \in Refresh /\ r # None
        /\ IF r.upto = 0 THEN StartOver(i) ELSE Show(r.s, r.upto)
    BY <1>0, <1>10 DEF Answer
  <2>2. r.s \in 0 .. MaxLines /\ r.upto \in 0 .. MaxLines
    BY <2>1 DEF Refresh
  <2>3. flight' = [flight EXCEPT ![i] = None] /\ task' = task
    BY <1>10 DEF Answer, place
  <2>4. SUFFICES ASSUME ~torn' PROVE NoGaps'
    BY DEF NoGaps
  <2>5. CASE r.upto = 0
    <3>1. StartOver(i)
      BY <2>1, <2>5
    <3>2. \A j \in Slots : flight'[j] = None
      BY <1>0, <2>3, <2>4, <3>1 DEF StartOver, NoneElse
    <3> QED
      BY <3>1, <3>2 DEF StartOver, NoGaps, Seen
  <2>6. CASE r.upto # 0
    <3>1. Show(r.s, r.upto) /\ ~torn
      BY <2>1, <2>4, <2>6 DEF Show
    <3>2. /\ Seen(r.s)
          /\ \A j \in Slots : flight[j] # None => Seen(flight[j].s) /\ flight[j].task = task
      BY <1>0, <2>1, <3>1 DEF NoGaps
    <3>3. Seen(offset)' /\ shown \subseteq shown' /\ gone \subseteq gone'
      BY <2>2, <3>1, <3>2, ShowSeen
    <3>4. \A j \in Slots : flight'[j] # None => flight'[j] = flight[j] /\ flight[j] # None
      BY <1>0, <2>3
    <3> QED
      BY <2>3, <3>2, <3>3, <3>4 DEF NoGaps, Seen
  <2> QED
    BY <2>5, <2>6
<1> QED
  BY <1>1, <1>2, <1>3, <1>4, <1>5, <1>6, <1>7, <1>8, <1>9, <1>10 DEF Next, Serve

LEMMA SeenEnough == SeenInv => NothingSkipped
  BY DEF SeenInv, NoGaps, Seen, NothingSkipped

\* However many polls overlap, however they are answered and wherever the user
\* turns the page, a line of its task that the page counts as seen is on it, or
\* had left the buffer, or was taken off it or kept off it by the user's going
\* back or starting the task; unless the page is torn.
THEOREM PollingSkipsNothing == Spec => []NothingSkipped
  BY InitSeen, StepSeen, SeenEnough, PTL DEF Spec

-----------------------------------------------------------------------------
(* No line is shown twice while polls take turns *)

\* A poll that is on its way alone is of the page's task, asks for what is not
\* shown, and is answered with no less than the page has counted: unless nothing
\* is shown, when what it counted may be another task's.
Alone(r) ==
    /\ r.task = task /\ r.s = offset
    /\ r.at # "sent" => r.upto <= tip[task]
    /\ r.at # "sent" /\ shown # {} => r.upto = 0 \/ r.upto >= offset

InTurn ==
    late \/ torn \/
        /\ ~doubled /\ shown \subseteq 1 .. offset
        /\ shown # {} => offset <= tip[task]
        /\ \A i \in Slots : flight[i] # None => Alone(flight[i])
        /\ \A i, j \in Slots : flight[i] # None /\ flight[j] # None => i = j

TurnInv == TypeOK /\ InTurn

LEMMA InitTurn == Init => TurnInv
<1> SUFFICES ASSUME Init PROVE InTurn
  BY InitType DEF TurnInv
<1> QED
  BY DEF Init, InTurn

LEMMA SendTurn ==
    ASSUME TypeOK, InTurn, NEW i \in Slots, NEW rest \in [Slots -> Refresh \cup {None}],
           \A j \in Slots : flight[j] = None => rest[j] = None,
           Send(i, task, rest), UNCHANGED <<task, offset, shown, doubled, tip, torn>>
    PROVE  InTurn'
<1> SUFFICES ASSUME ~late', ~torn PROVE InTurn'
  BY DEF InTurn
<1>1. ~late /\ \A j \in Slots : flight[j] = None
  BY DEF Send, AllAnswered
<1>2. \A j \in Slots : rest[j] = None
  BY <1>1
<1>3. \A j \in Slots : flight'[j] # None => j = i
  BY <1>2 DEF Send
<1>4. flight'[i].s = offset /\ flight'[i].at = "sent" /\ flight'[i].task = task
  BY DEF Send
<1> QED
  BY <1>1, <1>3, <1>4 DEF InTurn, Alone

\* What an answer that is alone shows is new to the page.
LEMMA ShowTurn ==
    ASSUME TypeOK, ~doubled, shown \subseteq 1 .. offset,
           NEW upto \in 0 .. MaxLines, shown # {} => upto >= offset, Show(offset, upto)
    PROVE  ~doubled' /\ shown' \subseteq 1 .. offset'
<1> DEFINE new == Slice(offset, upto)
<1>1. /\ offset' = upto /\ shown' = shown \cup new
      /\ doubled' = (doubled \/ shown \cap new # {})
  BY DEF Show, NewOffset
<1>2. offset \in Nat /\ upto \in Nat
  BY Bounds DEF TypeOK
<1>3. new \subseteq 1 .. upto
  BY SliceIsLines DEF TypeOK
<1>4. CASE shown = {}
  BY <1>1, <1>3, <1>4
<1>5. CASE shown # {}
  <2>1. shown \subseteq 1 .. upto
    BY <1>2, <1>5
  <2>2. \A n \in new : n \notin 1 .. offset
    BY <1>2, <1>5 DEF Slice
  <2>3. shown \cap new = {}
    BY <2>2
  <2> QED
    BY <1>1, <1>3, <2>1, <2>3
<1> QED
  BY <1>4, <1>5

LEMMA StepTurn == TurnInv /\ [Next]_vars => TurnInv'
<1> SUFFICES ASSUME TurnInv, [Next]_vars PROVE InTurn'
  BY StepType DEF TurnInv
<1>0. /\ TypeOK /\ InTurn /\ flight \in [Slots -> Refresh \cup {None}]
      /\ task \in Tasks /\ \A t \in Tasks : tip[t] \in Nat /\ meta[t] \in {0, tip[t]}
      /\ offset \in Nat
  BY Bounds DEF TurnInv, TypeOK
<1>1. ASSUME NEW t \in Tasks, TaskStarts(t) \/ TaskEnds(t) \/ Evict(t) PROVE InTurn'
  BY <1>0, <1>1 DEF TaskStarts, TaskEnds, Evict, page, place, logs, history, InTurn, Alone
<1>2. CASE Over \/ UNCHANGED vars
  BY <1>0, <1>2 DEF Over, vars, server, page, place, logs, history, InTurn, Alone
<1>3. ASSUME NEW t \in Tasks, Emit(t) PROVE InTurn'
  <2>1. UNCHANGED <<task, flight, offset, shown, doubled, late, torn>>
    BY <1>3 DEF Emit, page, place, logs, history
  <2>2. tip'[task] >= tip[task] /\ tip'[task] \in Nat
    BY <1>0, <1>3 DEF Emit, TypeOK
  <2>3. ASSUME NEW i \in Slots, flight[i] # None, Alone(flight[i]) PROVE Alone(flight[i])'
    <3>1. flight[i].upto \in Nat
      BY <1>0, <2>3, Bounds DEF Refresh
    <3> QED
      BY <1>0, <2>1, <2>2, <2>3, <3>1 DEF Alone
  <2> QED
    BY <1>0, <2>1, <2>2, <2>3 DEF InTurn
<1>4. ASSUME NEW t \in Tasks, Open(t) PROVE InTurn'
  <2>1. CASE t # task
    BY <1>4, <2>1 DEF Open, InTurn
  <2>2. CASE t = task
    <3>1. PICK i \in Slots : Send(i, task, flight)
      BY <1>4, <2>2 DEF Open
    <3>2. UNCHANGED <<task, offset, shown, doubled, tip, torn>>
      BY <1>0, <1>4, <2>2 DEF Open, logs, server, TypeOK
    <3> QED
      BY <1>0, <3>1, <3>2, SendTurn
  <2> QED
    BY <2>1, <2>2
<1>5. CASE Home
  BY <1>0, <1>5 DEF Home, server, InTurn, Alone
<1>6. CASE Start
  <2> SUFFICES ASSUME ~torn' PROVE InTurn'
    BY DEF InTurn
  <2>1. AllAnswered /\ UNCHANGED flight /\ shown' = {} /\ ~doubled'
    BY <1>6 DEF Start
  <2> QED
    BY <2>1 DEF AllAnswered, InTurn
<1>7. CASE Fire
  <2>1. UNCHANGED <<task, offset, shown, doubled, tip, torn>>
    BY <1>7 DEF Fire, page, place, logs, server
  <2> QED
    BY <1>0, <1>7, <2>1, SendTurn DEF Fire
<1>8. ASSUME NEW j \in Slots, FireLate(j) PROVE InTurn'
  <2>1. late'
    BY <1>8 DEF FireLate, Send, AllAnswered
  <2> QED
    BY <2>1 DEF InTurn
<1>9. ASSUME NEW i \in Slots, LoadMeta(i) PROVE InTurn'
  <2>1. /\ flight[i] \in Refresh /\ flight[i] # None
        /\ flight' = [flight EXCEPT ![i].at = "read", ![i].upto = meta[flight[i].task]]
        /\ UNCHANGED <<task, offset, shown, doubled, tip, late, torn>>
    BY <1>0, <1>9 DEF LoadMeta, page, place, logs, server, history
  <2>2. SUFFICES ASSUME ~late, ~torn PROVE InTurn'
    BY <2>1 DEF InTurn
  <2>3. /\ flight'[i].s = flight[i].s /\ flight'[i].task = flight[i].task
        /\ flight'[i].upto = meta[flight[i].task]
    BY <1>0, <2>1 DEF Refresh
  <2>4. \A j \in Slots : flight'[j] # None => flight[j] # None /\ (j # i => flight'[j] = flight[j])
    BY <1>0, <2>1
  <2>5. flight[i].task = task /\ flight[i].s = offset /\ (shown # {} => offset <= tip[task])
    BY <2>1, <2>2, <1>0 DEF InTurn, Alone
  <2>6. Alone(flight[i])'
    BY <1>0, <2>1, <2>3, <2>5 DEF Alone
  <2> QED
    BY <1>0, <2>1, <2>2, <2>4, <2>6 DEF InTurn, Alone
<1>10. ASSUME NEW i \in Slots, LoadStatus(i) PROVE InTurn'
  <2>1. /\ flight[i] \in Refresh /\ flight[i] # None /\ flight[i].at = "read"
        /\ flight' = [flight EXCEPT ![i].at = "answered", ![i].status = status[flight[i].task]]
        /\ UNCHANGED <<task, offset, shown, doubled, tip, late, torn>>
    BY <1>0, <1>10 DEF LoadStatus, page, place, logs, server, history
  <2>2. /\ flight'[i].s = flight[i].s /\ flight'[i].task = flight[i].task
        /\ flight'[i].upto = flight[i].upto
    BY <1>0, <2>1 DEF Refresh
  <2>3. \A j \in Slots : flight'[j] # None => flight[j] # None /\ (j # i => flight'[j] = flight[j])
    BY <1>0, <2>1
  <2> QED
    BY <1>0, <2>1, <2>2, <2>3 DEF InTurn, Alone
<1>11. ASSUME NEW i \in Slots, Error(i) PROVE InTurn'
  BY <1>0, <1>11 DEF Error, page, place, logs, server, history, InTurn, Alone
<1>12. ASSUME NEW i \in Slots, Answer(i) PROVE InTurn'
  <2> DEFINE r == flight[i]
  <2>1. r \in Refresh /\ r # None /\ r.at = "answered"
        /\ IF r.upto = 0 THEN StartOver(i) ELSE Show(r.s, r.upto)
    BY <1>0, <1>12 DEF Answer
  <2>2. r.s \in 0 .. MaxLines /\ r.upto \in 0 .. MaxLines
    BY <2>1 DEF Refresh
  <2>3. flight' = [flight EXCEPT ![i] = None] /\ UNCHANGED <<task, tip>>
    BY <1>12 DEF Answer, server, place
  <2>4. SUFFICES ASSUME ~late', ~torn' PROVE InTurn'
    BY DEF InTurn
  <2>5. CASE r.upto = 0
    <3>1. StartOver(i) /\ NoneElse(i)
      BY <2>1, <2>4, <2>5 DEF StartOver
    <3>2. \A j \in Slots : flight'[j] = None
      BY <1>0, <2>3, <3>1 DEF NoneElse
    <3> QED
      BY <3>1, <3>2 DEF StartOver, InTurn
  <2>6. CASE r.upto # 0
    <3>1. Show(r.s, r.upto) /\ ~late /\ ~torn
      BY <2>1, <2>4, <2>6 DEF Show
    <3>2. /\ ~doubled /\ shown \subseteq 1 .. offset /\ Alone(r)
          /\ \A j \in Slots : flight[j] # None => j = i
      BY <1>0, <2>1, <3>1 DEF InTurn
    <3>3. \A j \in Slots : flight'[j] = None
      BY <1>0, <2>3, <3>2
    <3>4. r.s = offset /\ (shown # {} => r.upto >= offset) /\ r.upto <= tip[task]
      BY <2>1, <2>6, <3>2 DEF Alone
    <3>5. ~doubled' /\ shown' \subseteq 1 .. offset'
      BY <1>0, <2>2, <3>1, <3>2, <3>4, ShowTurn
    <3>6. offset' = r.upto
      BY <3>1 DEF Show, NewOffset
    <3> QED
      BY <2>3, <3>3, <3>4, <3>5, <3>6 DEF InTurn
  <2> QED
    BY <2>5, <2>6
<1> QED
  BY <1>1, <1>2, <1>3, <1>4, <1>5, <1>6, <1>7, <1>8, <1>9, <1>10, <1>11, <1>12
  DEF Next, Serve

LEMMA TurnEnough == TurnInv => ShownOnce
  BY DEF TurnInv, InTurn, ShownOnce

\* A line is on the page once, unless a poll was sent while another one was on
\* its way since the page last started over, or the page is torn.
THEOREM PollingShowsOnce == Spec => []ShownOnce
  BY InitTurn, StepTurn, TurnEnough, PTL DEF Spec
=============================================================================
