------------------------- MODULE LoadGeneratorProofs -------------------------
(***************************************************************************)
(* For any number of workers, list of URLs, queue and call: the types of   *)
(* the load generator; no worker is left when it has stopped; no result is *)
(* lost, and the counts of balancing are right, but for what workers that  *)
(* are removed throw away.                                                 *)
(***************************************************************************)
EXTENDS LoadGenerator, SequenceTheorems, FiniteSetTheorems, TLAPS

-----------------------------------------------------------------------------
(* Lists without repetitions *)

\* What is left of a list of different elements when one is taken out.
LEMMA RemoveOne ==
    ASSUME NEW S, NEW s \in Seq(S), IsInjective(s), NEW i \in DOMAIN s
    PROVE  /\ RemoveAt(s, i) \in Seq(S) /\ IsInjective(RemoveAt(s, i))
           /\ Range(RemoveAt(s, i)) = Range(s) \ {s[i]}
<1> DEFINE r == RemoveAt(s, i)
           Old(k) == IF k < i THEN k ELSE k + 1
<1>1. i \in 1 .. Len(s) /\ Len(s) \in Nat /\ DOMAIN s = 1 .. Len(s)
  OBVIOUS
<1>2. r = SubSeq(s, 1, i - 1) \o SubSeq(s, i + 1, Len(s))
  BY DEF RemoveAt
<1> DEFINE a == SubSeq(s, 1, i - 1)
             b == SubSeq(s, i + 1, Len(s))
<1>b. /\ a \in Seq(S) /\ Len(a) = i - 1
      /\ \A k \in 1 .. i - 1 : a[k] = s[k]
  BY <1>1
<1>c. /\ b \in Seq(S) /\ Len(b) = Len(s) - i
      /\ \A k \in 1 .. Len(s) - i : b[k] = s[i + k]
  BY <1>1
<1> HIDE DEF a, b, r
<1>d. r = a \o b
  BY <1>2 DEF a, b, r
<1>e. /\ r \in Seq(S) /\ Len(r) = Len(a) + Len(b)
      /\ \A k \in 1 .. Len(a) + Len(b) : r[k] = IF k <= Len(a) THEN a[k] ELSE b[k - Len(a)]
  BY <1>b, <1>c, <1>d, ConcatProperties
<1>3. r \in Seq(S) /\ Len(r) = Len(s) - 1
  BY <1>1, <1>b, <1>c, <1>e
<1>4. \A k \in 1 .. Len(s) - 1 : r[k] = s[Old(k)]
  <2> SUFFICES ASSUME NEW k \in 1 .. Len(s) - 1 PROVE r[k] = s[Old(k)]
    OBVIOUS
  <2>1. CASE k < i
    BY <1>1, <1>b, <1>c, <1>d, <2>1
  <2>2. CASE k >= i
    <3>1. k - (i - 1) \in 1 .. Len(s) - i /\ i + (k - (i - 1)) = k + 1
      BY <1>1, <2>2
    <3>2. r[k] = b[k - (i - 1)]
      BY <1>1, <1>b, <1>c, <1>d, <2>2
    <3> QED
      BY <1>1, <1>c, <2>2, <3>1, <3>2
  <2> QED
    BY <1>1, <2>1, <2>2
<1>5. DOMAIN r = 1 .. Len(s) - 1
  BY <1>1, <1>3
<1>6. \A k \in DOMAIN r : Old(k) \in DOMAIN s /\ Old(k) # i
  BY <1>1, <1>5
<1>7. IsInjective(r)
  <2> SUFFICES ASSUME NEW k \in DOMAIN r, NEW l \in DOMAIN r, r[k] = r[l] PROVE k = l
    BY DEF IsInjective
  <2>1. s[Old(k)] = s[Old(l)] /\ Old(k) \in DOMAIN s /\ Old(l) \in DOMAIN s
    BY <1>4, <1>5, <1>6
  <2>2. Old(k) = Old(l)
    BY <2>1 DEF IsInjective
  <2> QED
    BY <1>1, <1>5, <2>2
<1>8. Range(r) \subseteq Range(s) \ {s[i]}
  <2> SUFFICES ASSUME NEW k \in DOMAIN r PROVE r[k] \in Range(s) /\ r[k] # s[i]
    BY DEF Range
  <2>1. r[k] = s[Old(k)] /\ Old(k) \in DOMAIN s /\ Old(k) # i
    BY <1>4, <1>5, <1>6
  <2> QED
    BY <2>1 DEF IsInjective, Range
<1>9. Range(s) \ {s[i]} \subseteq Range(r)
  <2> SUFFICES ASSUME NEW j \in DOMAIN s, j # i PROVE s[j] \in Range(r)
    BY DEF Range
  <2>1. CASE j < i
    <3>1. j \in DOMAIN r /\ Old(j) = j
      BY <1>1, <1>5, <2>1
    <3> QED
      BY <1>4, <1>5, <3>1 DEF Range
  <2>2. CASE j > i
    <3>1. j - 1 \in DOMAIN r /\ Old(j - 1) = j
      BY <1>1, <1>5, <2>2
    <3> QED
      BY <1>4, <1>5, <3>1 DEF Range
  <2> QED
    BY <1>1, <2>1, <2>2
<1> QED
  BY <1>3, <1>7, <1>8, <1>9 DEF r

\* A new element at the end of the list.
LEMMA AppendOne ==
    ASSUME NEW S, NEW s \in Seq(S), IsInjective(s), NEW e \in S, e \notin Range(s)
    PROVE  /\ Append(s, e) \in Seq(S) /\ IsInjective(Append(s, e))
           /\ Range(Append(s, e)) = Range(s) \cup {e}
<1> DEFINE r == Append(s, e)
<1>1. /\ Len(s) \in Nat /\ DOMAIN s = 1 .. Len(s) /\ DOMAIN r = 1 .. Len(s) + 1
      /\ \A k \in 1 .. Len(s) : r[k] = s[k]
      /\ r[Len(s) + 1] = e /\ r \in Seq(S)
  OBVIOUS
<1>2. \A k \in DOMAIN r : k \in DOMAIN s \/ k = Len(s) + 1
  BY <1>1
<1>3. \A k \in DOMAIN s : s[k] # e
  BY DEF Range
<1>4. IsInjective(r)
  BY <1>1, <1>2, <1>3 DEF IsInjective
<1>5. Range(r) = Range(s) \cup {e}
  BY <1>1, <1>2 DEF Range
<1> QED
  BY <1>1, <1>4, <1>5

-----------------------------------------------------------------------------
(* The types, and who is on the sign-up list *)

\* Exactly the workers that signed up and have not left are on the list, and
\* nobody when stop has returned; one that is to be started is still to be
\* counted as added.
Signed ==
    /\ Range(getters) = {w \in Workers : pc[w] \notin {"new", "left"}}
    /\ main = "end" => getters = <<>>
    /\ main = "start" => adding > 0

IInv == TypeOK /\ Signed

LEMMA Given ==
    /\ MaxWorkers \in Nat /\ Urls \in Seq(Range(Urls)) /\ Length \in Nat \ {0}
    /\ DOMAIN Urls = 1 .. Length
    /\ \A s \in Settings :
        s.requests \in Int /\ s.concurrency \in Nat /\ s.pattern \in Seq(Int)
  BY LoadAssumption DEF LoadAssumption, Length

LEMMA InitInv == Init => IInv
<1> SUFFICES ASSUME Init PROVE IInv
  OBVIOUS
<1>1. getters \in Seq(Workers) /\ IsInjective(getters) /\ Range(getters) = {}
  BY DEF Init, IsInjective, Range
<1>2. queue \in Seq(Range(Urls)) /\ Len(queue) <= Cap
  BY LoadAssumption DEF Init, LoadAssumption
<1>3. /\ setting.concurrency \in Nat /\ setting.pattern \in Seq(Int)
      /\ turn \in 0 .. Length - 1
  BY Given DEF Init
<1>4. /\ ratio \in [Range(Urls) -> Nat] /\ pc \in [Workers -> Places]
      /\ url \in [Workers -> Range(Urls) \cup {NoUrl}] /\ quit \in [Workers -> BOOLEAN]
  BY DEF Init, Places
<1>5. TypeOK
  BY <1>1, <1>2, <1>3, <1>4 DEF Init, TypeOK
<1>6. Signed
  BY <1>1 DEF Init, Signed
<1> QED
  BY <1>5, <1>6 DEF IInv

\* A worker that goes on, neither starting nor leaving.
LEMMA GoesOn ==
    ASSUME IInv, NEW w \in Workers, NEW here, NEW there \in Places \ {"new", "left"},
           At(w, here, there), here \notin {"new", "left"}, UNCHANGED <<getters, main, adding>>
    PROVE  Signed' /\ pc' \in [Workers -> Places]
<1>1. pc \in [Workers -> Places] /\ pc[w] = here /\ pc' = [pc EXCEPT ![w] = there]
  BY DEF IInv, TypeOK, At
<1>2. \A v \in Workers : pc'[v] \in {"new", "left"} <=> pc[v] \in {"new", "left"}
  BY <1>1 DEF Places
<1> QED
  BY <1>1, <1>2 DEF IInv, Signed

LEMMA ProduceInv == IInv /\ Produce => IInv'
<1> SUFFICES ASSUME IInv, Produce PROVE IInv'
  OBVIOUS
<1>0. TypeOK /\ Signed
  BY DEF IInv
<1> USE <1>0 DEF IInv, TypeOK, Signed, threads, macro
<1>1. CASE ProducerLoop
  BY <1>1 DEF ProducerLoop
<1>2. CASE ProducerPut
  <2>1. Urls[turn + 1] \in Range(Urls) /\ (turn + 1) % Length \in 0 .. Length - 1
    BY Given DEF Range
  <2>2. queue' \in Seq(Range(Urls)) /\ Len(queue') = Len(queue) + 1
    BY <1>2, <2>1 DEF ProducerPut
  <2>3. Len(queue') <= Cap
    BY <1>2, <2>2, LoadAssumption DEF ProducerPut, Room, LoadAssumption
  <2>4. made' \in Nat
    BY <1>2 DEF ProducerPut
  <2> QED
    BY <1>2, <2>1, <2>2, <2>3, <2>4 DEF ProducerPut
<1>3. CASE ProducerFull
  <2>1. (turn + 1) % Length \in 0 .. Length - 1
    BY Given
  <2> QED
    BY <1>3, <2>1 DEF ProducerFull
<1> QED
  BY <1>1, <1>2, <1>3 DEF Produce

\* ratios counts up, and down to nothing.
LEMMA CountType ==
    ASSUME NEW f \in [Range(Urls) -> Nat], NEW u
    PROVE  /\ [f EXCEPT ![u] = @ + 1] \in [Range(Urls) -> Nat]
           /\ f[u] > 0 => [f EXCEPT ![u] = @ - 1] \in [Range(Urls) -> Nat]
<1>1. CASE u \in Range(Urls)
  BY <1>1
<1>2. CASE u \notin Range(Urls)
  <2>1. \A e : [f EXCEPT ![u] = e] = f
    BY <1>2
  <2> QED
    BY <2>1
<1> QED
  BY <1>1, <1>2

LEMMA WorkInv ==
    ASSUME IInv, NEW w \in Workers, Work(w) PROVE IInv'
<1>0. TypeOK /\ Signed
  BY DEF IInv
<1> USE <1>0 DEF IInv, TypeOK, macro
<1>1. CASE WorkerLoop(w)
  <2>1. Signed' /\ pc' \in [Workers -> Places]
    BY <1>1, GoesOn DEF WorkerLoop, Places
  <2> QED
    BY <1>1, <2>1 DEF WorkerLoop
<1>2. CASE AskInVain(w)
  <2>1. Signed' /\ pc' \in [Workers -> Places]
    BY <1>2, GoesOn DEF AskInVain, Places
  <2> QED
    BY <1>2, <2>1 DEF AskInVain
<1>3. CASE Ask(w)
  <2>1. Signed' /\ pc' \in [Workers -> Places]
    BY <1>3, GoesOn DEF Ask, Places
  <2>2. /\ Head(queue) \in Range(Urls) /\ Tail(queue) \in Seq(Range(Urls))
        /\ Len(Tail(queue)) <= Cap
    BY <1>3, LoadAssumption DEF Ask, LoadAssumption
  <2>3. url' \in [Workers -> Range(Urls) \cup {NoUrl}]
    BY <1>3, <2>2 DEF Ask
  <2> QED
    BY <1>3, <2>1, <2>2, <2>3 DEF Ask
<1>4. CASE WeighAndDrop(w)
  <2>1. Signed' /\ pc' \in [Workers -> Places]
    BY <1>4, GoesOn DEF WeighAndDrop, Places
  <2> QED
    BY <1>4, <2>1 DEF WeighAndDrop
<1>5. CASE WeighAndKeep(w)
  <2>1. Signed' /\ pc' \in [Workers -> Places]
    BY <1>5, GoesOn DEF WeighAndKeep, Places
  <2> QED
    BY <1>5, <2>1 DEF WeighAndKeep
<1>6. CASE Count(w)
  <2>1. Signed' /\ pc' \in [Workers -> Places]
    BY <1>6, GoesOn DEF Count, Places
  <2>2. ratio' \in [Range(Urls) -> Nat]
    BY <1>6, CountType DEF Count
  <2> QED
    BY <1>6, <2>1, <2>2 DEF Count
<1>7. CASE Took(w)
  <2>1. Signed' /\ pc' \in [Workers -> Places]
    BY <1>7, GoesOn DEF Took, Places
  <2>2. url' \in [Workers -> Range(Urls) \cup {NoUrl}]
    BY <1>7 DEF Took
  <2> QED
    BY <1>7, <2>1, <2>2 DEF Took
<1>8. CASE Done(w)
  <2>1. PICK there \in {"put", "loop"} : At(w, "get", there)
    BY <1>8 DEF Done, Answers
  <2>2. Signed' /\ pc' \in [Workers -> Places]
    BY <1>8, <2>1, GoesOn DEF Done, Places
  <2>3. ratio' \in [Range(Urls) -> Nat]
    BY <1>8, CountType DEF Done
  <2>4. url' \in [Workers -> Range(Urls) \cup {NoUrl}]
    BY <1>8 DEF Done
  <2> QED
    BY <1>8, <2>2, <2>3, <2>4 DEF Done
<1>9. CASE Put(w)
  <2>1. Signed' /\ pc' \in [Workers -> Places]
    BY <1>9, GoesOn DEF Put, Places
  <2> QED
    BY <1>9, <2>1 DEF Put
<1>10. CASE Leave(w)
  <2>1. PICK i \in DOMAIN getters : getters[i] = w /\ getters' = RemoveAt(getters, i)
    BY <1>10 DEF Leave
  <2>2. /\ getters' \in Seq(Workers) /\ IsInjective(getters')
        /\ Range(getters') = Range(getters) \ {w}
    BY <2>1, RemoveOne
  <2>3. pc' = [pc EXCEPT ![w] = "left"]
    BY <1>10 DEF Leave, At
  <2>4. pc' \in [Workers -> Places]
    BY <2>3 DEF Places
  <2>5. main # "end"
    BY <2>1 DEF Signed
  <2>6. Signed'
    BY <1>10, <2>2, <2>3, <2>5 DEF Leave, Signed
  <2> QED
    BY <1>10, <2>2, <2>4, <2>6 DEF Leave
<1> QED
  BY <1>1, <1>2, <1>3, <1>4, <1>5, <1>6, <1>7, <1>8, <1>9, <1>10 DEF Work

LEMMA RemoveType ==
    ASSUME NEW n \in Int, TypeOK, RemoveWorkers(n)
    PROVE  quit' \in [Workers -> BOOLEAN] /\ size' \in Int
<1>1. size' \in Int
  BY DEF TypeOK, RemoveWorkers
<1>2. quit' \in [Workers -> BOOLEAN]
  BY DEF TypeOK, RemoveWorkers
<1> QED
  BY <1>1, <1>2

LEMMA DriveInv == IInv /\ (Drive \/ Interrupt \/ Abandon) => IInv'
<1> SUFFICES ASSUME IInv, Drive \/ Interrupt \/ Abandon PROVE IInv'
  OBVIOUS
<1>0. TypeOK /\ Signed
  BY DEF IInv
<1> USE <1>0 DEF IInv, TypeOK, threads
<1>1. CASE SignUp
  <2>1. PICK w \in Workers : At(w, "new", "signed") /\ getters' = Append(getters, w)
    BY <1>1 DEF SignUp
  <2>2. pc[w] = "new" /\ pc' = [pc EXCEPT ![w] = "signed"] /\ w \notin Range(getters)
    BY <2>1 DEF At, Signed
  <2>3. /\ getters' \in Seq(Workers) /\ IsInjective(getters')
        /\ Range(getters') = Range(getters) \cup {w}
    BY <2>1, <2>2, AppendOne
  <2>4. pc' \in [Workers -> Places]
    BY <2>2 DEF Places
  <2>5. Signed'
    BY <1>1, <2>2, <2>3 DEF SignUp, Signed
  <2> QED
    BY <1>1, <2>3, <2>4, <2>5 DEF SignUp
<1>10. CASE StartWorker
  <2>1. PICK w \in Workers : At(w, "signed", "loop")
    BY <1>10 DEF StartWorker
  <2>2. pc[w] = "signed" /\ pc' = [pc EXCEPT ![w] = "loop"]
    BY <2>1 DEF At
  <2>3. pc' \in [Workers -> Places]
    BY <2>2 DEF Places
  <2>4. Signed' /\ adding' \in Nat
    BY <1>10, <2>2 DEF StartWorker, Signed
  <2> QED
    BY <1>10, <2>3, <2>4 DEF StartWorker
<1>2. CASE Added
  BY <1>2 DEF Added, Signed
<1>3. CASE Enlarge
  <2>1. adding' \in Nat /\ pattern' \in Seq(Int)
    BY <1>3 DEF Enlarge
  <2> QED
    BY <1>3, <2>1 DEF Enlarge, Signed
<1>4. CASE Diminish
  <2>1. -Head(pattern) \in Int /\ pattern' \in Seq(Int)
    BY <1>4 DEF Diminish
  <2>2. quit' \in [Workers -> BOOLEAN] /\ size' \in Int
    BY <1>4, <2>1, RemoveType DEF Diminish
  <2> QED
    BY <1>4, <2>1, <2>2 DEF Diminish, Signed
<1>5. CASE SeesProducerDone \/ Drained \/ Collected \/ Abandon
  BY <1>5 DEF SeesProducerDone, Drained, Collected, Abandon, Goto, Signed
<1>6. CASE Stopped
  BY <1>6 DEF Stopped, AllGone, Goto, Signed
<1>7. CASE Collect
  <2>1. results' \in Nat /\ collected' \in Nat
    BY <1>7 DEF Collect
  <2> QED
    BY <1>7, <2>1 DEF Collect, Signed
<1>8. CASE Stop
  <2>1. Len(getters) \in Int /\ RemoveWorkers(Len(getters))
    BY <1>8 DEF Stop
  <2>2. quit' \in [Workers -> BOOLEAN] /\ size' \in Int
    BY <2>1, RemoveType
  <2> QED
    BY <1>8, <2>2 DEF Stop, Signed
<1>9. CASE Interrupt
  <2>1. results' \in Nat /\ collected' \in Nat
    BY <1>9 DEF Interrupt
  <2> QED
    BY <1>9, <2>1 DEF Interrupt, Signed
<1> QED
  BY <1>1, <1>2, <1>3, <1>4, <1>5, <1>6, <1>7, <1>8, <1>9, <1>10 DEF Drive

LEMMA StepInv == IInv /\ [Next]_vars => IInv'
<1>1. IInv /\ (Over \/ UNCHANGED vars) => IInv'
  BY DEF IInv, TypeOK, Signed, Over, vars, threads, macro
<1> QED
  BY <1>1, ProduceInv, WorkInv, DriveInv DEF Next

\* Every variable of the producer, the workers and the macro keeps its type:
\* the queue within its bound, the sign-up list without a worker twice.
THEOREM LoadTypeCorrect == Spec => []TypeOK
<1>1. IInv => TypeOK
  BY DEF IInv
<1> QED
  BY <1>1, InitInv, StepInv, PTL DEF Spec

\* When stop returns no worker is running, and none will be.
THEOREM NoWorkerIsLeft == Spec => []WorkersAreGone
<1>1. IInv => WorkersAreGone
  BY DEF IInv, Signed, WorkersAreGone, Range
<1> QED
  BY <1>1, InitInv, StepInv, PTL DEF Spec

-----------------------------------------------------------------------------
(* What the workers have in hand *)

\* A worker has a URL from the queue until it has been requested or thrown
\* away; only when balancing does it weigh and count it.
Hands ==
    \A w \in Workers :
        /\ url[w] # NoUrl <=> pc[w] \in {"weigh", "count", "took", "get"}
        /\ pc[w] \in {"weigh", "count"} => setting.balancing

LEMMA NotAUrl == NoUrl \notin Range(Urls)
  BY LoadAssumption DEF LoadAssumption

\* The steps of a worker concern nobody else, and it tells itself nothing.
LEMMA OthersStay ==
    ASSUME IInv, NEW w \in Workers, Work(w)
    PROVE  /\ \A v \in Workers \ {w} : pc'[v] = pc[v] /\ url'[v] = url[v]
           /\ UNCHANGED <<quit, setting, made, producer, collected>>
<1>0. pc \in [Workers -> Places] /\ url \in [Workers -> Range(Urls) \cup {NoUrl}]
  BY DEF IInv, TypeOK
<1>1. \A v \in Workers \ {w} : pc'[v] = pc[v]
  BY <1>0 DEF Work, WorkerLoop, AskInVain, Ask, WeighAndDrop, WeighAndKeep, Count, Took,
              Done, Put, Leave, At
<1>2. \A v \in Workers \ {w} : url'[v] = url[v]
  BY <1>0 DEF Work, WorkerLoop, AskInVain, Ask, WeighAndDrop, WeighAndKeep, Count, Took,
              Done, Put, Leave
<1>3. UNCHANGED <<quit, setting, made, producer, collected>>
  BY DEF Work, WorkerLoop, AskInVain, Ask, WeighAndDrop, WeighAndKeep, Count, Took, Done,
         Put, Leave, macro
<1> QED
  BY <1>1, <1>2, <1>3

\* Where the worker was and is, and its URL.
LEMMA WorkerMoves ==
    ASSUME IInv, Hands, NEW w \in Workers
    PROVE  /\ WorkerLoop(w) => pc[w] = "loop" /\ pc'[w] \in {"ask", "leave"} /\ url' = url
           /\ AskInVain(w) => pc[w] = "ask" /\ pc'[w] = "loop" /\ url' = url
           /\ Ask(w) => /\ pc[w] = "ask" /\ url'[w] \in Range(Urls)
                        /\ pc'[w] = IF setting.balancing THEN "weigh" ELSE "took"
           /\ WeighAndDrop(w) => pc[w] = "weigh" /\ pc'[w] = "ask" /\ url'[w] = NoUrl
           /\ WeighAndKeep(w) => pc[w] = "weigh" /\ pc'[w] = "count" /\ url' = url
           /\ Count(w) => pc[w] = "count" /\ pc'[w] = "took" /\ url' = url
           /\ Took(w) => /\ pc[w] = "took"
                         /\ quit[w] => pc'[w] = "leave" /\ url'[w] = NoUrl
                         /\ ~quit[w] => pc'[w] = "get" /\ url' = url
           /\ Done(w) => /\ pc[w] = "get" /\ url'[w] = NoUrl
                         /\ pc'[w] = IF setting.stats THEN "put" ELSE "loop"
           /\ Put(w) => pc[w] = "put" /\ pc'[w] = "loop" /\ url' = url
           /\ Leave(w) => pc[w] = "leave" /\ pc'[w] = "left" /\ url' = url
<1>0. /\ pc \in [Workers -> Places] /\ url \in [Workers -> Range(Urls) \cup {NoUrl}]
      /\ queue \in Seq(Range(Urls)) /\ quit \in [Workers -> BOOLEAN]
  BY DEF IInv, TypeOK
<1>1. WorkerLoop(w) => pc[w] = "loop" /\ pc'[w] \in {"ask", "leave"} /\ url' = url
  BY <1>0 DEF WorkerLoop, At
<1>2. AskInVain(w) => pc[w] = "ask" /\ pc'[w] = "loop" /\ url' = url
  BY <1>0 DEF AskInVain, At
<1>3. Ask(w) => /\ pc[w] = "ask" /\ url'[w] \in Range(Urls)
                /\ pc'[w] = IF setting.balancing THEN "weigh" ELSE "took"
  <2>1. queue # <<>> => Head(queue) \in Range(Urls)
    BY <1>0
  <2> QED
    BY <1>0, <2>1 DEF Ask, At
<1>4. WeighAndDrop(w) => pc[w] = "weigh" /\ pc'[w] = "ask" /\ url'[w] = NoUrl
  BY <1>0 DEF WeighAndDrop, At
<1>5. WeighAndKeep(w) => pc[w] = "weigh" /\ pc'[w] = "count" /\ url' = url
  BY <1>0 DEF WeighAndKeep, At
<1>6. Count(w) => pc[w] = "count" /\ pc'[w] = "took" /\ url' = url
  BY <1>0 DEF Count, At
<1>7. Took(w) => /\ pc[w] = "took"
                 /\ quit[w] => pc'[w] = "leave" /\ url'[w] = NoUrl
                 /\ ~quit[w] => pc'[w] = "get" /\ url' = url
  BY <1>0 DEF Took, At
<1>8. Done(w) => /\ pc[w] = "get" /\ url'[w] = NoUrl
                 /\ pc'[w] = IF setting.stats THEN "put" ELSE "loop"
  BY <1>0 DEF Done, At, Answers
<1>9. Put(w) => pc[w] = "put" /\ pc'[w] = "loop" /\ url' = url
  BY <1>0 DEF Put, At
<1>10. Leave(w) => pc[w] = "leave" /\ pc'[w] = "left" /\ url' = url
  BY <1>0 DEF Leave, At
<1> QED
  BY <1>1, <1>2, <1>3, <1>4, <1>5, <1>6, <1>7, <1>8, <1>9, <1>10

\* Starting a worker, or telling one to go, does nothing to what any has in hand.
LEMMA DriveMoves ==
    ASSUME IInv, Produce \/ Drive \/ Interrupt \/ Abandon \/ Over \/ UNCHANGED vars
    PROVE  /\ \A v \in Workers : pc'[v] = pc[v] \/ (pc[v] \in {"new", "signed"} /\ pc'[v] \in {"signed", "loop"})
           /\ UNCHANGED <<setting, url, ratio>>
           /\ \A v \in Workers : quit[v] => quit'[v]
<1>0. pc \in [Workers -> Places] /\ quit \in [Workers -> BOOLEAN]
  BY DEF IInv, TypeOK
<1> USE DEF threads, macro
<1>1. CASE Produce
  BY <1>1 DEF Produce, ProducerLoop, ProducerPut, ProducerFull
<1>2. CASE SignUp \/ StartWorker
  BY <1>0, <1>2 DEF SignUp, StartWorker, At
<1>3. CASE Added \/ Enlarge \/ SeesProducerDone \/ Drained \/ Collect \/ Collected
  BY <1>3 DEF Added, Enlarge, SeesProducerDone, Drained, Collect, Collected, Goto
<1>4. CASE Diminish
  BY <1>0, <1>4 DEF Diminish, RemoveWorkers
<1>5. CASE Stop
  BY <1>0, <1>5 DEF Stop, RemoveWorkers
<1>6. CASE Stopped \/ Interrupt \/ Abandon \/ Over \/ UNCHANGED vars
  BY <1>6 DEF Stopped, Goto, Interrupt, Abandon, Over, vars
<1> QED
  BY <1>1, <1>2, <1>3, <1>4, <1>5, <1>6 DEF Drive

LEMMA StepHands == IInv /\ Hands /\ [Next]_vars => Hands'
<1>1. ASSUME IInv, Hands, NEW w \in Workers, Work(w) PROVE Hands'
  <2>1. \A v \in Workers \ {w} : pc'[v] = pc[v] /\ url'[v] = url[v]
    BY <1>1, OthersStay
  <2>2. /\ url'[w] # NoUrl <=> pc'[w] \in {"weigh", "count", "took", "get"}
        /\ pc'[w] \in {"weigh", "count"} => setting.balancing
    BY <1>1, WorkerMoves, NotAUrl DEF Work, Hands
  <2>3. setting' = setting
    BY <1>1, OthersStay
  <2> QED
    BY <1>1, <2>1, <2>2, <2>3 DEF Hands
<1>2. ASSUME IInv, Hands, Produce \/ Drive \/ Interrupt \/ Abandon \/ Over \/ UNCHANGED vars
      PROVE  Hands'
  BY <1>2, DriveMoves DEF Hands
<1> QED
  BY <1>1, <1>2 DEF Next

LEMMA InitHands == Init => Hands
  BY DEF Init, Hands

-----------------------------------------------------------------------------
(* Where the URLs are *)

\* The URLs that were put and not thrown away.
Known == Len(queue) + Cardinality(InHand) + results + collected

\* The producer puts no more than it was asked for, nothing is known that it
\* did not put, and only removed workers throw URLs away.
Flow ==
    setting.stats =>
        /\ made <= setting.requests
        /\ producer = "put" => made < setting.requests
        /\ Known <= made
        /\ ~setting.balancing => made - Known <= Cardinality(Removed)

LEMMA WorkersAreFinite ==
    \A S : S \subseteq Workers => IsFiniteSet(S) /\ Cardinality(S) \in Nat
<1>1. IsFiniteSet(Workers)
  BY Given, FS_Interval DEF Workers
<1> QED
  BY <1>1, FS_Subset, FS_CardinalityType

LEMMA SetsAreFinite ==
    /\ IsFiniteSet(InHand) /\ Cardinality(InHand) \in Nat
    /\ IsFiniteSet(Removed) /\ Cardinality(Removed) \in Nat
    /\ \A u : IsFiniteSet(Counted(u)) /\ Cardinality(Counted(u)) \in Nat
<1>1. InHand \subseteq Workers /\ Removed \subseteq Workers
      /\ \A u : Counted(u) \subseteq Workers
  BY DEF InHand, Removed, Counted
<1> QED
  BY <1>1, WorkersAreFinite

LEMMA SetsAreFiniteNext ==
    /\ IsFiniteSet(InHand') /\ Cardinality(InHand') \in Nat
    /\ IsFiniteSet(Removed') /\ Cardinality(Removed') \in Nat
<1>1. InHand' \subseteq Workers /\ Removed' \subseteq Workers
  BY DEF InHand, Removed
<1> QED
  BY <1>1, WorkersAreFinite

\* Who was removed stays removed.
LEMMA RemovedGrows ==
    IInv /\ Hands /\ [Next]_vars =>
        Removed \subseteq Removed' /\ Cardinality(Removed) <= Cardinality(Removed')
<1>1. ASSUME IInv, Hands, NEW w \in Workers, Work(w) PROVE Removed \subseteq Removed'
  <2>1. \A v \in Workers \ {w} : pc'[v] = pc[v] /\ quit' = quit
    BY <1>1, OthersStay
  <2>2. pc[w] \in {"leave", "left"} => pc'[w] \in {"leave", "left"}
    BY <1>1, WorkerMoves DEF Work
  <2>3. quit' = quit
    BY <1>1, OthersStay
  <2> QED
    BY <2>1, <2>2, <2>3 DEF Removed
<1>2. ASSUME IInv, Hands, Produce \/ Drive \/ Interrupt \/ Abandon \/ Over \/ UNCHANGED vars
      PROVE  Removed \subseteq Removed'
  BY <1>2, DriveMoves DEF Removed
<1>3. IInv /\ Hands /\ [Next]_vars => Removed \subseteq Removed'
  BY <1>1, <1>2 DEF Next
<1> QED
  BY <1>3, SetsAreFiniteNext, FS_Subset

\* A request was asked for, and every count is one.
LEMMA Numbers ==
    ASSUME IInv
    PROVE  /\ Len(queue) \in Nat /\ results \in Nat /\ collected \in Nat /\ made \in Nat
           /\ setting.requests \in Int
           /\ setting.stats => setting.requests >= 0
           /\ Known \in Nat
<1>1. /\ Len(queue) \in Nat /\ results \in Nat /\ collected \in Nat /\ made \in Nat
      /\ setting \in Settings
  BY DEF IInv, TypeOK
<1>2. setting.requests \in Int /\ (setting.stats => setting.requests >= 0)
  BY <1>1, LoadAssumption DEF LoadAssumption
<1> QED
  BY <1>1, <1>2, SetsAreFinite DEF Known

\* What a step of a worker does to the URLs: the queue, the hands and the
\* results have as many as before, or one has been thrown away.
LEMMA WorkFlow ==
    ASSUME IInv, Hands, setting.stats, NEW w \in Workers, Work(w)
    PROVE  \/ Known' = Known
           \/ /\ Known' = Known - 1
              /\ setting.balancing \/ Cardinality(Removed') = Cardinality(Removed) + 1
<1>0. /\ \A v \in Workers \ {w} : pc'[v] = pc[v] /\ url'[v] = url[v]
      /\ UNCHANGED <<quit, setting, made, producer, collected>>
  BY OthersStay
<1>1. /\ w \in InHand <=> pc[w] \in {"weigh", "count", "took", "get", "put"}
      /\ w \in InHand' <=> url'[w] # NoUrl \/ pc'[w] = "put"
      /\ \A v \in Workers \ {w} : v \in InHand' <=> v \in InHand
      /\ InHand \subseteq Workers /\ InHand' \subseteq Workers
  BY <1>0 DEF InHand, Hands
<1>2. /\ Len(queue) \in Nat /\ results \in Nat /\ collected \in Nat
      /\ Cardinality(InHand) \in Nat /\ Cardinality(Removed) \in Nat
  BY Numbers, SetsAreFinite
<1>3. ASSUME w \notin InHand, w \in InHand' PROVE Cardinality(InHand') = Cardinality(InHand) + 1
  <2>1. InHand' = InHand \cup {w}
    BY <1>1, <1>3
  <2> QED
    BY <1>3, <2>1, SetsAreFinite, FS_AddElement
<1>4. ASSUME w \in InHand, w \notin InHand' PROVE Cardinality(InHand') = Cardinality(InHand) - 1
  <2>1. InHand' = InHand \ {w}
    BY <1>1, <1>4
  <2> QED
    BY <1>4, <2>1, SetsAreFinite, FS_RemoveElement
<1>5. ASSUME w \in InHand <=> w \in InHand' PROVE InHand' = InHand
  BY <1>1, <1>5
<1>6. CASE WorkerLoop(w) \/ AskInVain(w) \/ WeighAndKeep(w) \/ Count(w) \/ Leave(w)
  <2>1. /\ url' = url /\ pc'[w] # "put"
        /\ pc[w] # "put" /\ UNCHANGED <<queue, results, collected>>
    BY <1>6, WorkerMoves, OthersStay
       DEF WorkerLoop, AskInVain, WeighAndKeep, Count, Leave
  <2>2. w \in InHand <=> w \in InHand'
    BY <1>1, <2>1 DEF Hands
  <2> QED
    BY <1>5, <2>1, <2>2 DEF Known
<1>7. CASE Ask(w)
  <2>1. pc[w] = "ask" /\ url'[w] # NoUrl
    BY <1>7, WorkerMoves, NotAUrl
  <2>2. Len(queue') = Len(queue) - 1 /\ UNCHANGED <<results, collected>>
    BY <1>0, <1>7 DEF Ask, IInv, TypeOK
  <2> QED
    BY <1>1, <1>2, <1>3, <2>1, <2>2 DEF Known
<1>8. CASE WeighAndDrop(w)
  <2>1. pc[w] = "weigh" /\ url'[w] = NoUrl /\ pc'[w] = "ask" /\ setting.balancing
    BY <1>8, WorkerMoves DEF Hands
  <2>2. UNCHANGED <<queue, results, collected>>
    BY <1>0, <1>8 DEF WeighAndDrop
  <2> QED
    BY <1>1, <1>2, <1>4, <2>1, <2>2 DEF Known
<1>9. CASE Took(w)
  <2>1. UNCHANGED <<queue, results, collected>>
    BY <1>0, <1>9 DEF Took
  <2>2. CASE quit[w]
    <3>1. pc[w] = "took" /\ pc'[w] = "leave" /\ url'[w] = NoUrl
      BY <1>9, <2>2, WorkerMoves
    <3>2. Removed' = Removed \cup {w} /\ w \notin Removed
      BY <1>0, <2>2, <3>1 DEF Removed
    <3>3. Cardinality(Removed') = Cardinality(Removed) + 1
      BY <3>2, SetsAreFinite, FS_AddElement
    <3> QED
      BY <1>1, <1>2, <1>4, <2>1, <3>1, <3>3 DEF Known
  <2>3. CASE ~quit[w]
    <3>1. pc[w] = "took" /\ pc'[w] = "get" /\ url' = url
      BY <1>9, <2>3, WorkerMoves
    <3>2. w \in InHand <=> w \in InHand'
      BY <1>1, <3>1 DEF Hands
    <3> QED
      BY <1>5, <2>1, <3>2 DEF Known
  <2> QED
    BY <2>2, <2>3
<1>10. CASE Done(w)
  <2>1. pc[w] = "get" /\ pc'[w] = "put"
    BY <1>10, WorkerMoves
  <2>2. UNCHANGED <<queue, results, collected>>
    BY <1>0, <1>10 DEF Done
  <2> QED
    BY <1>1, <1>5, <2>1, <2>2 DEF Known
<1>11. CASE Put(w)
  <2>1. pc[w] = "put" /\ pc'[w] = "loop" /\ url' = url
    BY <1>11, WorkerMoves
  <2>2. results' = results + 1 /\ UNCHANGED <<queue, collected>>
    BY <1>0, <1>11 DEF Put
  <2>3. w \in InHand /\ w \notin InHand'
    BY <1>1, <2>1 DEF Hands
  <2>4. Cardinality(InHand') = Cardinality(InHand) - 1
    BY <1>4, <2>3
  <2>5. Known' = Len(queue) + (Cardinality(InHand) - 1) + (results + 1) + collected
    BY <2>2, <2>4, Zenon DEF Known
  <2>6. \A q, h, r, k \in Nat : q + (h - 1) + (r + 1) + k = q + h + r + k
    OBVIOUS
  <2>7. Known' = Known
    BY <1>2, <2>5, <2>6 DEF Known
  <2> QED
    BY <2>7
<1> QED
  BY <1>6, <1>7, <1>8, <1>9, <1>10, <1>11 DEF Work

LEMMA ProduceFlow ==
    ASSUME IInv, Flow, setting.stats, Produce, InHand' = InHand
    PROVE  /\ made' <= setting.requests /\ (producer' = "put" => made' < setting.requests)
           /\ \/ Known' = Known /\ made' = made
              \/ Known' = Known + 1 /\ made' = made + 1
<1>0. /\ made <= setting.requests /\ (producer = "put" => made < setting.requests)
      /\ made \in Nat /\ setting.requests \in Int /\ setting.requests >= 0
      /\ Cardinality(InHand) \in Nat /\ results \in Nat /\ collected \in Nat
      /\ queue \in Seq(Range(Urls)) /\ Len(queue) \in Nat
  BY Numbers, SetsAreFinite DEF Flow, IInv, TypeOK
<1>1. CASE ProducerLoop
  BY <1>0, <1>1 DEF ProducerLoop, More, Unlimited, Known, macro
<1>2. CASE ProducerPut
  <2>1. Len(queue') = Len(queue) + 1
    <3>1. Urls[turn + 1] \in Range(Urls)
      BY Given DEF IInv, TypeOK, Range
    <3> QED
      BY <1>0, <1>2, <3>1 DEF ProducerPut
  <2>2. made' = made + 1 /\ producer = "put" /\ producer' = "check"
        /\ UNCHANGED <<results, collected>>
    BY <1>0, <1>2 DEF ProducerPut, Unlimited, macro
  <2>3. Known' = Known + 1
    BY <1>0, <2>1, <2>2 DEF Known
  <2>4. made < setting.requests
    BY <1>0, <2>2
  <2>5. made' <= setting.requests /\ producer' # "put"
    BY <1>0, <2>2, <2>4
  <2> QED
    BY <2>2, <2>3, <2>5
<1>3. CASE ProducerFull
  BY <1>0, <1>3 DEF ProducerFull, Known, macro
<1> QED
  BY <1>1, <1>2, <1>3 DEF Produce

LEMMA DriveFlow ==
    ASSUME IInv, Drive \/ Interrupt \/ Abandon \/ Over \/ UNCHANGED vars, InHand' = InHand
    PROVE  Known' = Known /\ UNCHANGED <<made, producer>>
<1>0. results \in Nat /\ collected \in Nat /\ Len(queue) \in Nat /\ Cardinality(InHand) \in Nat
  BY Numbers, SetsAreFinite
<1> USE DEF threads, macro
<1>1. CASE SignUp \/ StartWorker \/ Added \/ Enlarge \/ Diminish \/ SeesProducerDone
           \/ Drained \/ Collected \/ Abandon
  BY <1>1 DEF SignUp, StartWorker, Added, Enlarge, Diminish, SeesProducerDone, Drained,
              Collected, Abandon, Goto, Known
<1>2. CASE Stop \/ Stopped \/ Over \/ UNCHANGED vars
  BY <1>2 DEF Stop, Stopped, Goto, Over, vars, Known
<1>3. CASE Collect
  <2>1. results' = results - 1 /\ collected' = collected + 1
        /\ UNCHANGED <<queue, made, producer>>
    BY <1>3 DEF Collect
  <2>2. Known' = Len(queue) + Cardinality(InHand) + (results - 1) + (collected + 1)
    BY <2>1, Zenon DEF Known
  <2>3. \A q, h, r, k \in Nat : q + h + (r - 1) + (k + 1) = q + h + r + k
    OBVIOUS
  <2>4. Known' = Known
    BY <1>0, <2>2, <2>3 DEF Known
  <2> QED
    BY <2>1, <2>4
<1>4. CASE Interrupt
  BY <1>0, <1>4 DEF Interrupt, Known
<1> QED
  BY <1>1, <1>2, <1>3, <1>4 DEF Drive

LEMMA StepFlow == IInv /\ Hands /\ Flow /\ [Next]_vars => Flow'
<1> SUFFICES ASSUME IInv, Hands, Flow, [Next]_vars, setting'.stats PROVE Flow'
  BY DEF Flow
<1>0. Cardinality(Removed) <= Cardinality(Removed')
      /\ Cardinality(Removed) \in Nat /\ Cardinality(Removed') \in Nat
  BY RemovedGrows, SetsAreFinite, SetsAreFiniteNext
<1>n. Known \in Int /\ made \in Int /\ setting.requests \in Int
  BY Numbers
<1>1. ASSUME NEW w \in Workers, Work(w) PROVE Flow'
  <2>1. UNCHANGED <<setting, made, producer>>
    BY <1>1, OthersStay
  <2>2. \/ Known' = Known
        \/ /\ Known' = Known - 1
           /\ setting.balancing \/ Cardinality(Removed') = Cardinality(Removed) + 1
    BY <1>1, <2>1, WorkFlow
  <2> QED
    BY <1>0, <1>n, <2>1, <2>2 DEF Flow
<1>2. ASSUME Produce \/ Drive \/ Interrupt \/ Abandon \/ Over \/ UNCHANGED vars PROVE Flow'
  <2>1. UNCHANGED <<setting, url>>
        /\ \A v \in Workers : pc'[v] = pc[v] \/ (pc[v] \in {"new", "signed"} /\ pc'[v] \in {"signed", "loop"})
    BY <1>2, DriveMoves
  <2>2. InHand' = InHand
    BY <2>1 DEF InHand
  <2>3. CASE Produce
    <3>1. /\ made' <= setting.requests /\ (producer' = "put" => made' < setting.requests)
          /\ \/ Known' = Known /\ made' = made
             \/ Known' = Known + 1 /\ made' = made + 1
      BY <2>1, <2>2, <2>3, ProduceFlow
    <3>3. Known <= made /\ (~setting.balancing => made - Known <= Cardinality(Removed))
      BY <2>1 DEF Flow
    <3>4. Known' <= made'
      BY <1>n, <3>1, <3>3
    <3>5. ~setting.balancing => made' - Known' <= Cardinality(Removed')
      BY <1>0, <1>n, <3>1, <3>3
    <3> QED
      BY <2>1, <3>1, <3>4, <3>5 DEF Flow
  <2>4. CASE Drive \/ Interrupt \/ Abandon \/ Over \/ UNCHANGED vars
    <3>1. Known' = Known /\ UNCHANGED <<made, producer>>
      BY <2>2, <2>4, DriveFlow
    <3> QED
      BY <1>0, <1>n, <2>1, <3>1 DEF Flow
  <2> QED
    BY <1>2, <2>3, <2>4
<1> QED
  BY <1>1, <1>2 DEF Next

FlowInv == IInv /\ Hands /\ Flow

LEMMA InitFlow == Init => FlowInv
<1> SUFFICES ASSUME Init PROVE Flow
  BY InitInv, InitHands DEF FlowInv
<1>1. setting \in Settings /\ made = 0 /\ producer = "check" /\ queue = <<>>
      /\ results = 0 /\ collected = 0
  BY DEF Init
<1>2. InHand = {}
  BY DEF Init, InHand
<1>3. Known = 0
  BY <1>1, <1>2, FS_EmptySet DEF Known
<1>4. setting.stats => setting.requests \in Int /\ setting.requests >= 0
  BY <1>1, LoadAssumption DEF LoadAssumption
<1> QED
  BY <1>1, <1>3, <1>4, SetsAreFinite DEF Flow

LEMMA StepFlowInv == FlowInv /\ [Next]_vars => FlowInv'
  BY StepInv, StepHands, StepFlow DEF FlowInv

LEMMA FlowEnough == FlowInv => StatsAreComplete
<1> SUFFICES ASSUME FlowInv, setting.stats
             PROVE  /\ ~setting.balancing =>
                          made - (Len(queue) + Cardinality(InHand) + results + collected)
                              <= Cardinality(Removed)
                    /\ collected >= setting.requests =>
                          queue = <<>> /\ InHand = {} /\ results = 0
  BY DEF StatsAreComplete
<1>0. IInv /\ Flow
  BY DEF FlowInv
<1>1. /\ Len(queue) \in Nat /\ results \in Nat /\ collected \in Nat /\ made \in Nat
      /\ setting.requests \in Int /\ Cardinality(InHand) \in Nat
  BY <1>0, Numbers, SetsAreFinite
<1>2. ~setting.balancing =>
          made - (Len(queue) + Cardinality(InHand) + results + collected)
              <= Cardinality(Removed)
  BY <1>0 DEF Flow, Known
<1>3. ASSUME collected >= setting.requests PROVE queue = <<>> /\ InHand = {} /\ results = 0
  <2>1. Len(queue) + Cardinality(InHand) + results + collected <= collected
    BY <1>0, <1>1, <1>3 DEF Flow, Known
  <2>2. Len(queue) = 0 /\ Cardinality(InHand) = 0 /\ results = 0
    BY <1>1, <2>1
  <2>3. queue = <<>>
    BY <1>0, <2>2, EmptySeq DEF IInv, TypeOK
  <2>4. InHand = {}
    BY <2>2, SetsAreFinite, FS_EmptySet
  <2> QED
    BY <2>2, <2>3, <2>4
<1> QED
  BY <1>2, <1>3

\* Only a removed worker loses a URL, one at most, and the statistics are those
\* of all requests.
THEOREM NoResultIsLost == Spec => []StatsAreComplete
  BY InitFlow, StepFlowInv, FlowEnough, PTL DEF Spec

-----------------------------------------------------------------------------
(* What ratios counts *)

\* A step that gives and takes no URL: who it removes has lost none.
LEMMA LostStays ==
    ASSUME RatiosCount, Removed \subseteq Removed', UNCHANGED <<setting, ratio>>,
           \A u \in Range(Urls) : Counted(u)' = Counted(u)
    PROVE  RatiosCount'
<1> SUFFICES ASSUME setting.balancing
             PROVE  \E lost \in [Removed' -> Range(Urls) \cup {NoUrl}] :
                      \A u \in Range(Urls) :
                        ratio[u] = Cardinality(Counted(u))
                                   + Cardinality({w \in Removed' : lost[w] = u})
  BY DEF RatiosCount
<1>1. PICK lost \in [Removed -> Range(Urls) \cup {NoUrl}] :
          \A u \in Range(Urls) :
            ratio[u] = Cardinality(Counted(u)) + Cardinality({w \in Removed : lost[w] = u})
  BY DEF RatiosCount
<1> DEFINE more == [w \in Removed' |-> IF w \in Removed THEN lost[w] ELSE NoUrl]
<1>2. more \in [Removed' -> Range(Urls) \cup {NoUrl}]
  OBVIOUS
<1>3. ASSUME NEW u \in Range(Urls)
      PROVE  {w \in Removed' : more[w] = u} = {w \in Removed : lost[w] = u}
  BY NotAUrl
<1> HIDE DEF more
<1> QED
  BY <1>1, <1>2, <1>3

\* What a step of a worker does to those that have a URL counted.
LEMMA CountedMoves ==
    ASSUME IInv, Hands, NEW w \in Workers, Work(w)
    PROVE  /\ \A u \in Range(Urls), v \in Workers \ {w} :
                  v \in Counted(u)' <=> v \in Counted(u)
           /\ \A u \in Range(Urls) : w \in Counted(u) <=> url[w] = u /\ pc[w] \in {"took", "get"}
           /\ \A u \in Range(Urls) :
                  w \in Counted(u)' <=> url'[w] = u /\ pc'[w] \in {"took", "get"}
           /\ \A u \in Range(Urls) : Counted(u) \subseteq Workers /\ Counted(u)' \subseteq Workers
<1>1. \A v \in Workers \ {w} : pc'[v] = pc[v] /\ url'[v] = url[v]
  BY OthersStay
<1> QED
  BY <1>1 DEF Counted

LEMMA WorkRatios ==
    ASSUME IInv, Hands, RatiosCount, NEW w \in Workers, Work(w), Removed \subseteq Removed'
    PROVE  RatiosCount'
<1>0. UNCHANGED <<quit, setting>>
  BY OthersStay
<1>r. ratio \in [Range(Urls) -> Nat] /\ url \in [Workers -> Range(Urls) \cup {NoUrl}]
  BY DEF IInv, TypeOK
<1>1. CASE WorkerLoop(w) \/ AskInVain(w) \/ Ask(w) \/ WeighAndDrop(w) \/ WeighAndKeep(w)
           \/ Put(w) \/ Leave(w)
  <2>1. ratio' = ratio
    BY <1>1 DEF WorkerLoop, AskInVain, Ask, WeighAndDrop, WeighAndKeep, Put, Leave
  <2>2. CASE setting.balancing
    <3>1. pc[w] \notin {"took", "get"} /\ pc'[w] \notin {"took", "get"}
      BY <1>1, <2>2, WorkerMoves
    <3>2. \A u \in Range(Urls) : Counted(u)' = Counted(u)
      BY <3>1, CountedMoves
    <3> QED
      BY <1>0, <2>1, <3>2, LostStays
  <2>3. CASE ~setting.balancing
    BY <1>0, <2>3 DEF RatiosCount
  <2> QED
    BY <2>2, <2>3
<1>2. ASSUME Count(w) \/ Took(w) \/ Done(w), setting.balancing PROVE RatiosCount'
  <2>1. PICK url0 \in Range(Urls) : url0 = url[w]
    BY <1>2, <1>r, WorkerMoves DEF Hands
  <2>2. PICK lost \in [Removed -> Range(Urls) \cup {NoUrl}] :
            \A u \in Range(Urls) :
              ratio[u] = Cardinality(Counted(u)) + Cardinality({v \in Removed : lost[v] = u})
    BY <1>2 DEF RatiosCount
  <2> DEFINE gone(u) == {v \in Removed : lost[v] = u}
  <2>3. \A u \in Range(Urls) : /\ IsFiniteSet(Counted(u)) /\ Cardinality(Counted(u)) \in Nat
                               /\ IsFiniteSet(gone(u)) /\ Cardinality(gone(u)) \in Nat
    <3>1. \A u : gone(u) \subseteq Workers
      BY DEF Removed
    <3> QED
      BY <3>1, WorkersAreFinite, SetsAreFinite
  <2>4. \A u \in Range(Urls) : ratio[u] = Cardinality(Counted(u)) + Cardinality(gone(u))
    BY <2>2
  <2> HIDE DEF gone
  <2>5. /\ ratio[url0] = Cardinality(Counted(url0)) + Cardinality(gone(url0))
         /\ Cardinality(Counted(url0)) \in Nat /\ Cardinality(gone(url0)) \in Nat
         /\ ratio[url0] \in Nat
    BY <1>r, <2>3, <2>4
  <2>6. ASSUME NEW u \in Range(Urls), u # url0, pc'[w] \in {"took", "get"} => url' = url,
               pc[w] \in {"took", "get"} \/ url' = url
        PROVE  Counted(u)' = Counted(u)
    <3>1. w \notin Counted(u) /\ w \notin Counted(u)'
      BY <2>1, <2>6, CountedMoves
    <3> QED
      BY <2>6, <3>1, CountedMoves
  <2>7. CASE Count(w)
    <3>1. pc[w] = "count" /\ pc'[w] = "took" /\ url' = url
      BY <2>7, WorkerMoves
    <3>2. Removed' = Removed
      BY <1>0, <3>1, OthersStay DEF Removed
    <3>3. Counted(url0)' = Counted(url0) \cup {w} /\ w \notin Counted(url0)
      BY <2>1, <3>1, CountedMoves
    <3>4. \A u \in Range(Urls) \ {url0} : Counted(u)' = Counted(u)
      BY <2>6, <3>1
    <3>5. ratio' = [ratio EXCEPT ![url0] = @ + 1]
      BY <2>1, <2>7 DEF Count
    <3>6. Cardinality(Counted(url0)') = Cardinality(Counted(url0)) + 1
      BY <2>1, <2>3, <3>3, FS_AddElement
    <3>7. \A u \in Range(Urls) :
            ratio'[u] = Cardinality(Counted(u)') + Cardinality(gone(u))
      <4>1. ratio'[url0] = ratio[url0] + 1 /\ ratio[url0] \in Nat
        BY <1>r, <2>1, <3>5
      <4>2. \A u \in Range(Urls) \ {url0} : ratio'[u] = ratio[u]
        BY <1>r, <3>5
      <4>3. ratio'[url0] = Cardinality(Counted(url0)')
                           + Cardinality(gone(url0))
        BY <2>5, <3>6, <4>1
      <4>4. ASSUME NEW u \in Range(Urls), u # url0
            PROVE  ratio'[u] = Cardinality(Counted(u)')
                               + Cardinality(gone(u))
        BY <2>4, <3>4, <4>2, <4>4
      <4> QED
        BY <4>3, <4>4
    <3> QED
      BY <1>0, <3>2, <3>7 DEF RatiosCount, gone
  <2>8. CASE Took(w) /\ quit[w]
    <3>1. pc[w] = "took" /\ pc'[w] = "leave" /\ url'[w] = NoUrl
      BY <2>8, WorkerMoves
    <3>2. Removed' = Removed \cup {w} /\ w \notin Removed
      <4>1. \A v \in Workers \ {w} : pc'[v] = pc[v]
        BY OthersStay
      <4> QED
        BY <1>0, <2>8, <3>1, <4>1 DEF Removed
    <3> DEFINE more == [v \in Removed' |-> IF v = w THEN url0 ELSE lost[v]]
    <3>3. more \in [Removed' -> Range(Urls) \cup {NoUrl}]
      BY <2>1, <3>2
    <3>4. {v \in Removed' : more[v] = url0} = gone(url0) \cup {w}
      BY <3>2 DEF gone
    <3>5. \A u \in Range(Urls) \ {url0} :
              {v \in Removed' : more[v] = u} = gone(u)
      BY <3>2 DEF gone
    <3>6. Counted(url0)' = Counted(url0) \ {w} /\ w \in Counted(url0)
      BY <2>1, <3>1, CountedMoves
    <3>7. \A u \in Range(Urls) \ {url0} : Counted(u)' = Counted(u)
      BY <2>6, <3>1
    <3> HIDE DEF more
    <3>8. Cardinality(Counted(url0)') = Cardinality(Counted(url0)) - 1
      BY <2>1, <2>3, <3>6, FS_RemoveElement
    <3>9. Cardinality({v \in Removed' : more[v] = url0})
              = Cardinality(gone(url0)) + 1
      <4>1. w \notin gone(url0)
        BY <3>2 DEF gone
      <4> QED
        BY <2>1, <2>3, <3>4, <4>1, FS_AddElement
    <3>10. ratio' = ratio
      BY <2>8 DEF Took
    <3>11. ratio[url0] = Cardinality(Counted(url0)')
                         + Cardinality({v \in Removed' : more[v] = url0})
      BY <2>5, <3>8, <3>9
    <3>12. ASSUME NEW u \in Range(Urls), u # url0
           PROVE  ratio[u] = Cardinality(Counted(u)')
                             + Cardinality({v \in Removed' : more[v] = u})
      BY <2>4, <3>5, <3>7, <3>12
    <3>13. \A u \in Range(Urls) :
              ratio'[u] = Cardinality(Counted(u)') + Cardinality({v \in Removed' : more[v] = u})
      BY <3>10, <3>11, <3>12
    <3> QED
      BY <3>3, <3>13 DEF RatiosCount
  <2>9. CASE Took(w) /\ ~quit[w]
    <3>1. pc[w] = "took" /\ pc'[w] = "get" /\ url' = url /\ ratio' = ratio
      BY <2>9, WorkerMoves DEF Took
    <3>2. \A u \in Range(Urls) : Counted(u)' = Counted(u)
      BY <3>1, CountedMoves
    <3> QED
      BY <1>0, <3>1, <3>2, LostStays
  <2>10. CASE Done(w)
    <3>1. pc[w] = "get" /\ pc'[w] \in {"put", "loop"} /\ url'[w] = NoUrl
      BY <2>10, WorkerMoves
    <3>2. Removed' = Removed
      <4>1. \A v \in Workers \ {w} : pc'[v] = pc[v]
        BY OthersStay
      <4> QED
        BY <1>0, <3>1, <4>1 DEF Removed
    <3>3. Counted(url0)' = Counted(url0) \ {w} /\ w \in Counted(url0)
      BY <2>1, <3>1, CountedMoves
    <3>4. \A u \in Range(Urls) \ {url0} : Counted(u)' = Counted(u)
      BY <2>6, <3>1
    <3>5. Cardinality(Counted(url0)') = Cardinality(Counted(url0)) - 1
      BY <2>1, <2>3, <3>3, FS_RemoveElement
    <3>6. ratio[url0] \in Nat /\ ratio[url0] > 0
      <4>1. Cardinality(Counted(url0)) # 0
        BY <2>1, <2>3, <3>3, FS_EmptySet
      <4> QED
        BY <2>5, <4>1
    <3>7. ratio' = [ratio EXCEPT ![url0] = @ - 1]
      BY <1>2, <2>1, <2>10, <3>6 DEF Done
    <3>8. ratio'[url0] = ratio[url0] - 1 /\ (\A u \in Range(Urls) \ {url0} : ratio'[u] = ratio[u])
      BY <1>r, <2>1, <3>7
    <3>9. ratio'[url0] = Cardinality(Counted(url0)')
                         + Cardinality(gone(url0))
      BY <2>5, <3>5, <3>8
    <3>10. ASSUME NEW u \in Range(Urls), u # url0
           PROVE  ratio'[u] = Cardinality(Counted(u)')
                              + Cardinality(gone(u))
      BY <2>4, <3>4, <3>8, <3>10
    <3>11. \A u \in Range(Urls) :
              ratio'[u] = Cardinality(Counted(u)') + Cardinality(gone(u))
      BY <3>9, <3>10
    <3> QED
      BY <3>2, <3>11 DEF RatiosCount, gone
  <2> QED
    BY <1>2, <2>7, <2>8, <2>9, <2>10
<1>3. ~setting.balancing => RatiosCount'
  BY <1>0 DEF RatiosCount
<1> QED
  BY <1>1, <1>2, <1>3 DEF Work

RatioInv == IInv /\ Hands /\ RatiosCount

LEMMA InitRatios == Init => RatioInv
<1> SUFFICES ASSUME Init PROVE RatiosCount
  BY InitInv, InitHands DEF RatioInv
<1>1. Removed = {} /\ \A u : Counted(u) = {}
  BY DEF Init, Removed, Counted
<1> DEFINE none == [w \in Removed |-> NoUrl]
<1>2. none \in [Removed -> Range(Urls) \cup {NoUrl}]
  OBVIOUS
<1>3. \A u : {w \in Removed : none[w] = u} = {}
  BY <1>1
<1>4. \A u \in Range(Urls) : ratio[u] = 0
  BY DEF Init
<1> HIDE DEF none
<1>5. \A u \in Range(Urls) :
          ratio[u] = Cardinality(Counted(u)) + Cardinality({w \in Removed : none[w] = u})
  BY <1>1, <1>3, <1>4, FS_EmptySet
<1> QED
  BY <1>2, <1>5 DEF RatiosCount

LEMMA StepRatios == RatioInv /\ [Next]_vars => RatioInv'
<1> SUFFICES ASSUME RatioInv, [Next]_vars PROVE RatiosCount'
  BY StepInv, StepHands DEF RatioInv
<1>0. IInv /\ Hands /\ RatiosCount /\ Removed \subseteq Removed'
  BY RemovedGrows DEF RatioInv
<1>1. ASSUME NEW w \in Workers, Work(w) PROVE RatiosCount'
  BY <1>0, <1>1, WorkRatios
<1>2. ASSUME Produce \/ Drive \/ Interrupt \/ Abandon \/ Over \/ UNCHANGED vars PROVE RatiosCount'
  <2>1. UNCHANGED <<setting, url, ratio>>
        /\ \A v \in Workers : pc'[v] = pc[v] \/ (pc[v] \in {"new", "signed"} /\ pc'[v] \in {"signed", "loop"})
    BY <1>0, <1>2, DriveMoves
  <2>2. \A u \in Range(Urls) : Counted(u)' = Counted(u)
    BY <2>1 DEF Counted
  <2> QED
    BY <1>0, <2>1, <2>2, LostStays
<1> QED
  BY <1>1, <1>2 DEF Next

\* When balancing, ratios counts what the workers have in hand, and what those
\* that were removed with a URL had: never less than nothing.
THEOREM RatiosAreRight == Spec => []RatiosCount
<1>1. RatioInv => RatiosCount
  BY DEF RatioInv
<1> QED
  BY <1>1, InitRatios, StepRatios, PTL DEF Spec
=============================================================================
