----------------------- MODULE InterfaceContextsProofs -----------------------
(***************************************************************************)
(* For any contexts, patterns, helpers, interfaces and depth: what a       *)
(* context opened stays in the store and is closed by its teardown, which  *)
(* closes nothing else, and a helper is given the same interface as long   *)
(* as it is in use.                                                        *)
(***************************************************************************)
EXTENDS InterfaceContexts, SequenceTheorems, WellFoundedInduction, TLAPS

-----------------------------------------------------------------------------
(* Keys, each of which a dictionary has once *)

Once(s) == \A i, j \in DOMAIN s : s[i] = s[j] => i = j

LEMMA AppendKey ==
    ASSUME NEW S, NEW s \in Seq(S), Once(s), NEW e \in S, e \notin Elements(s)
    PROVE  /\ Append(s, e) \in Seq(S) /\ Once(Append(s, e))
           /\ Elements(Append(s, e)) = Elements(s) \cup {e}
<1> DEFINE r == Append(s, e)
<1>1. /\ Len(s) \in Nat /\ DOMAIN s = 1 .. Len(s) /\ DOMAIN r = 1 .. Len(s) + 1
      /\ \A k \in 1 .. Len(s) : r[k] = s[k]
      /\ r[Len(s) + 1] = e /\ r \in Seq(S)
  OBVIOUS
<1>2. \A k \in DOMAIN r : k \in DOMAIN s \/ k = Len(s) + 1
  BY <1>1
<1>3. \A k \in DOMAIN s : s[k] # e
  BY DEF Elements
<1>4. Once(r)
  BY <1>1, <1>2, <1>3 DEF Once
<1>5. Elements(r) = Elements(s) \cup {e}
  BY <1>1, <1>2 DEF Elements
<1> QED
  BY <1>1, <1>4, <1>5

Without(s, i) == SubSeq(s, 1, i - 1) \o SubSeq(s, i + 1, Len(s))

LEMMA DropKey ==
    ASSUME NEW S, NEW s \in Seq(S), Once(s), NEW i \in DOMAIN s
    PROVE  /\ Without(s, i) \in Seq(S) /\ Once(Without(s, i))
           /\ Elements(Without(s, i)) = Elements(s) \ {s[i]}
<1> DEFINE r == Without(s, i)
           a == SubSeq(s, 1, i - 1)
           b == SubSeq(s, i + 1, Len(s))
           Old(k) == IF k < i THEN k ELSE k + 1
<1>1. i \in 1 .. Len(s) /\ Len(s) \in Nat /\ DOMAIN s = 1 .. Len(s)
  OBVIOUS
<1>2. /\ a \in Seq(S) /\ Len(a) = i - 1
      /\ \A k \in 1 .. i - 1 : a[k] = s[k]
  BY <1>1
<1>3. /\ b \in Seq(S) /\ Len(b) = Len(s) - i
      /\ \A k \in 1 .. Len(s) - i : b[k] = s[i + k]
  BY <1>1
<1> HIDE DEF a, b
<1>4. r = a \o b
  BY DEF a, b, Without
<1> HIDE DEF r
<1>5. /\ r \in Seq(S) /\ Len(r) = Len(a) + Len(b)
      /\ \A k \in 1 .. Len(a) + Len(b) : r[k] = IF k <= Len(a) THEN a[k] ELSE b[k - Len(a)]
  BY <1>2, <1>3, <1>4, ConcatProperties
<1>6. DOMAIN r = 1 .. Len(s) - 1
  BY <1>1, <1>2, <1>3, <1>5
<1>7. \A k \in 1 .. Len(s) - 1 : r[k] = s[Old(k)]
  <2> SUFFICES ASSUME NEW k \in 1 .. Len(s) - 1 PROVE r[k] = s[Old(k)]
    OBVIOUS
  <2>1. CASE k < i
    BY <1>1, <1>2, <1>3, <1>5, <2>1
  <2>2. CASE k >= i
    <3>1. k - (i - 1) \in 1 .. Len(s) - i /\ i + (k - (i - 1)) = k + 1
      BY <1>1, <2>2
    <3>2. r[k] = b[k - (i - 1)]
      BY <1>1, <1>2, <1>3, <1>5, <2>2
    <3> QED
      BY <1>1, <1>3, <2>2, <3>1, <3>2
  <2> QED
    BY <1>1, <2>1, <2>2
<1>8. \A k \in DOMAIN r : Old(k) \in DOMAIN s /\ Old(k) # i
  BY <1>1, <1>6
<1>9. \A k, l \in DOMAIN r : Old(k) = Old(l) => k = l
  BY <1>1, <1>6
<1>10. \A j \in DOMAIN s : j # i => \E k \in DOMAIN r : Old(k) = j
  <2> SUFFICES ASSUME NEW j \in DOMAIN s, j # i PROVE \E k \in DOMAIN r : Old(k) = j
    OBVIOUS
  <2>1. CASE j < i
    BY <1>1, <1>6, <2>1
  <2>2. CASE j > i
    <3>1. j - 1 \in DOMAIN r /\ Old(j - 1) = j
      BY <1>1, <1>6, <2>2
    <3> QED
      BY <3>1
  <2> QED
    BY <1>1, <2>1, <2>2
<1> HIDE DEF Old
<1>11. Once(r)
  BY <1>6, <1>7, <1>8, <1>9 DEF Once
<1>12. \A k \in DOMAIN s : s[k] = s[i] => k = i
  BY DEF Once
<1>13. Elements(r) = Elements(s) \ {s[i]}
  BY <1>6, <1>7, <1>8, <1>10, <1>12 DEF Elements
<1> QED
  BY <1>5, <1>11, <1>13 DEF r

\* Taking the last one from a list.
Shorter(s) == SubSeq(s, 1, Len(s) - 1)

LEMMA DropLast ==
    ASSUME NEW S, NEW s \in Seq(S), s # <<>>
    PROVE  /\ Len(s) \in Nat \ {0} /\ Shorter(s) \in Seq(S)
           /\ Len(Shorter(s)) = Len(s) - 1
           /\ \A i \in 1 .. Len(s) - 1 : Shorter(s)[i] = s[i]
           /\ Elements(s) = Elements(Shorter(s)) \cup {s[Len(s)]}
<1> DEFINE r == Shorter(s)
<1>1. Len(s) \in Nat \ {0} /\ DOMAIN s = 1 .. Len(s)
  OBVIOUS
<1>2. /\ r \in Seq(S) /\ Len(r) = Len(s) - 1
      /\ \A i \in 1 .. Len(s) - 1 : r[i] = s[i]
  BY <1>1 DEF Shorter
<1> HIDE DEF r
<1>3. \A i \in DOMAIN s : i = Len(s) \/ i \in DOMAIN r
  BY <1>1, <1>2
<1>4. DOMAIN r \subseteq DOMAIN s /\ Len(s) \in DOMAIN s /\ DOMAIN r = 1 .. Len(s) - 1
  BY <1>1, <1>2
<1>5. Elements(s) = Elements(r) \cup {s[Len(s)]}
  BY <1>2, <1>3, <1>4 DEF Elements
<1> QED
  BY <1>1, <1>2, <1>5 DEF r

-----------------------------------------------------------------------------
(* What a lookup finds *)

LEMMA Given ==
    /\ Prefixes \in [Contexts -> Seq(Contexts)]
    /\ \A c \in Contexts :
        /\ Prefixes[c] # <<>> /\ Prefixes[c][Len(Prefixes[c])] = c
        /\ Torn(c) \in Seq(Contexts)
    /\ NameOf \in [Helpers -> Contexts] /\ KindOf \in [Objects -> Kinds]
    /\ None \notin Objects /\ None \notin Contexts /\ Depth \in Nat
  BY ContextsAssumption DEF ContextsAssumption, Torn, Exact

\* What is found is stored, with a context that matches one of the names.
LEMMA FoundIsStored ==
    ASSUME TypeOK, NEW path \in Seq(Contexts), NEW n \in Kinds
    PROVE  \A o \in Found(path, n) :
              /\ \E k \in Contexts, i \in DOMAIN path :
                    <<path[i], k>> \in Matches /\ store[k][n] = o
              /\ o \in Objects /\ o # None
<1> TAKE o \in Found(path, n)
<1>1. PICK p \in Places(path, n) : o = store[order[p[2]]][n]
  BY DEF Found, LastOf
<1>2. /\ p[1] \in DOMAIN path /\ p[2] \in DOMAIN order
      /\ <<path[p[1]], order[p[2]]>> \in Matches /\ o # None
  BY <1>1 DEF Places
<1>3. order[p[2]] \in Contexts
  BY <1>2 DEF TypeOK
<1>4. o \in Objects
  BY <1>1, <1>2, <1>3 DEF TypeOK
<1> QED
  BY <1>1, <1>2, <1>3, <1>4, Given

\* A plain name alone finds what its own context stores.
LEMMA FoundByPlain ==
    ASSUME TypeOK, NEW c \in Contexts, Plain(c), NEW n \in Kinds
    PROVE  Found(Torn(c), n) = {store[c][n]} \ {None}
<1>0. Torn(c) \in Seq(Contexts)
  BY Given
<1>1. DOMAIN Torn(c) = {1} /\ Torn(c)[1] = c
  BY DEF Torn, Exact
<1>2. \A k \in Contexts : <<c, k>> \in Matches <=> k = c
  BY DEF Plain
<1>3. ASSUME NEW o \in Found(Torn(c), n) PROVE o = store[c][n] /\ o # None
  <2>1. /\ \E k \in Contexts, i \in DOMAIN Torn(c) : <<Torn(c)[i], k>> \in Matches /\ store[k][n] = o
        /\ o # None
    BY <1>0, <1>3, FoundIsStored
  <2> QED
    BY <1>1, <1>2, <2>1
<1>4. ASSUME store[c][n] # None PROVE store[c][n] \in Found(Torn(c), n)
  <2>1. c \in Elements(order)
    <3>1. store[c] # Empty
      BY <1>4 DEF Empty
    <3> QED
      BY <3>1 DEF TypeOK
  <2>2. PICK j \in DOMAIN order : order[j] = c
    BY <2>1 DEF Elements
  <2>3. \A k \in DOMAIN order : order[k] \in Contexts /\ (order[k] = c => k = j)
    BY <2>2 DEF TypeOK
  <2>4. Places(Torn(c), n) = {<<1, j>>}
    <3>1. \A p \in Places(Torn(c), n) : p = <<1, j>>
      BY <1>1, <1>2, <2>3 DEF Places
    <3>2. <<1, j>> \in Places(Torn(c), n)
      BY <1>1, <1>2, <1>4, <2>2 DEF Places
    <3> QED
      BY <3>1, <3>2
  <2>5. <<1, j>> \in LastOf(Places(Torn(c), n))
    BY <2>4 DEF LastOf
  <2> QED
    BY <2>2, <2>5 DEF Found
<1> QED
  BY <1>3, <1>4

-----------------------------------------------------------------------------
(* The steps, as far as the invariant is about them *)

\* A get opens an interface.
Opens(o, c) == o \in Objects /\ c \in Contexts \cup {None} /\ Open(o, c)

\* A teardown closes what is in gone and leaves its context what is in rest.
TearsDown(h, gone, rest) ==
    LET c == NameOf[h] IN
    /\ Leave(h) /\ Close(gone)
    /\ \A o \in gone : \E k \in Contexts, n \in Kinds :
          <<c, k>> \in Matches /\ store[k][n] = o
    /\ rest \in [Kinds -> Objects \cup {None}]
    /\ \A n \in Kinds : rest[n] \in {store[c][n], None}
    /\ Plain(c) => \A n \in Kinds : rest[n] = store[c][n] \/ store[c][n] \in gone
    /\ store' = [store EXCEPT ![c] = rest]
    /\ failed' = failed \cup {c} \/ (failed' = failed \ {c} /\ rest = Empty)
    /\ order' \in Seq(Contexts) /\ Once(order')
    /\ Elements(order) \ {c} \subseteq Elements(order')
    /\ rest # Empty => c \in Elements(order')

LEMMA TouchKeeps ==
    ASSUME TypeOK, NEW c \in Contexts
    PROVE  /\ Touch(c) \in Seq(Contexts) /\ Once(Touch(c))
           /\ Elements(Touch(c)) = Elements(order) \cup {c}
<1>1. order \in Seq(Contexts) /\ Once(order)
  BY DEF TypeOK, Once
<1>2. CASE c \in Elements(order)
  BY <1>1, <1>2 DEF Touch
<1>3. CASE c \notin Elements(order)
  BY <1>1, <1>3, AppendKey DEF Touch
<1> QED
  BY <1>2, <1>3

LEMMA UnsetIs ==
    ASSUME TypeOK, NEW c \in Contexts, NEW ns
    PROVE  LET rest == [n \in Kinds |-> IF n \in ns THEN None ELSE store[c][n]] IN
           /\ Unset(c, ns) = [store EXCEPT ![c] = rest]
           /\ rest \in [Kinds -> Objects \cup {None}]
           /\ rest # Empty => c \in Elements(order)
<1> DEFINE rest == [n \in Kinds |-> IF n \in ns THEN None ELSE store[c][n]]
<1>1. store[c] \in [Kinds -> Objects \cup {None}]
  BY DEF TypeOK
<1>2. rest \in [Kinds -> Objects \cup {None}]
  BY <1>1
<1>3. Unset(c, ns) = [store EXCEPT ![c] = rest]
  BY DEF Unset
<1>4. ASSUME rest # Empty PROVE c \in Elements(order)
  <2>1. store[c] # Empty
    BY <1>4 DEF Empty
  <2> QED
    BY <2>1 DEF TypeOK
<1> QED
  BY <1>2, <1>3, <1>4

\* What a teardown closes matches its context.
LEMMA ClosedIsStored ==
    ASSUME TypeOK, NEW c \in Contexts, NEW ns \in SUBSET Kinds, NEW o \in Closed(c, ns)
    PROVE  \E k \in Contexts, n \in Kinds : <<c, k>> \in Matches /\ store[k][n] = o
<1>1. PICK n \in ns : o \in Found(Torn(c), n)
  BY DEF Closed
<1>t. Torn(c) \in Seq(Contexts) /\ n \in Kinds
  BY Given
<1>2. PICK k \in Contexts, i \in DOMAIN Torn(c) :
        <<Torn(c)[i], k>> \in Matches /\ store[k][n] = o
  BY <1>1, <1>t, FoundIsStored
<1>3. Torn(c)[i] = c
  BY <1>2 DEF Torn, Exact
<1> QED
  BY <1>1, <1>2, <1>3

\* The interfaces that a plain context stores are closed.
LEMMA PlainIsClosed ==
    ASSUME TypeOK, NEW c \in Contexts, Plain(c), NEW ns \in SUBSET Kinds, NEW n \in ns,
           store[c][n] # None
    PROVE  store[c][n] \in Closed(c, ns) /\ n \in Stored(c)
<1>1. store[c][n] \in Found(Torn(c), n)
  BY FoundByPlain
<1> QED
  BY <1>1 DEF Closed, Stored

LEMMA ExitTears ==
    ASSUME TypeOK, NEW h \in Helpers, Exit(h)
    PROVE  \E gone, rest : TearsDown(h, gone, rest)
<1> DEFINE c == NameOf[h]
           gone == Closed(c, Stored(c))
<1>1. c \in Contexts /\ Stored(c) \in SUBSET Kinds
  BY Given DEF Stored
<1>2. Plain(c) => \A n \in Kinds : Empty[n] = store[c][n] \/ store[c][n] \in gone
  <2> SUFFICES ASSUME Plain(c), NEW n \in Kinds, store[c][n] # None
               PROVE  store[c][n] \in gone
    BY DEF Empty
  <2>1. n \in Stored(c)
    BY <1>1, PlainIsClosed
  <2> QED
    BY <1>1, <2>1, PlainIsClosed
<1>3. order' \in Seq(Contexts) /\ Once(order') /\ Elements(order) \ {c} \subseteq Elements(order')
  <2>1. order \in Seq(Contexts) /\ Once(order) /\ Delete(c)
    BY DEF TypeOK, Once, Exit
  <2>2. CASE c \in Elements(order)
    <3>1. PICK i \in DOMAIN order : order[i] = c /\ order' = Without(order, i)
      BY <2>1, <2>2 DEF Delete, Without
    <3> QED
      BY <2>1, <3>1, DropKey
  <2>3. CASE c \notin Elements(order)
    BY <2>1, <2>3 DEF Delete
  <2> QED
    BY <2>2, <2>3
<1>4. \A o \in gone : \E k \in Contexts, n \in Kinds : <<c, k>> \in Matches /\ store[k][n] = o
  BY <1>1, ClosedIsStored
<1>5. Empty \in [Kinds -> Objects \cup {None}] /\ \A n \in Kinds : Empty[n] = None
  BY DEF Empty
<1>6. /\ Leave(h) /\ Close(gone) /\ store' = [store EXCEPT ![c] = Empty]
      /\ failed' = failed \ {c}
  BY DEF Exit
<1> HIDE DEF gone
<1>7. TearsDown(h, gone, Empty)
  BY <1>2, <1>3, <1>4, <1>5, <1>6 DEF TearsDown
<1> QED
  BY <1>7

LEMMA FailureTears ==
    ASSUME TypeOK, NEW h \in Helpers, CloseFails(h) \/ UnsetFails(h)
    PROVE  \E gone, rest : TearsDown(h, gone, rest)
<1> DEFINE c == NameOf[h]
<1>1. PICK ns \in SUBSET (Stored(c) \cap Own(c)), ms \in SUBSET Stored(c) :
        /\ ns \subseteq ms /\ Close(Closed(c, ms)) /\ store' = Unset(c, ns)
        /\ order' = order \/ order' = Touch(c)
  <2>1. CASE CloseFails(h)
    <3>1. PICK ns \in SUBSET (Stored(c) \cap Own(c)) :
            Close(Closed(c, ns)) /\ store' = Unset(c, ns)
      BY <2>1 DEF CloseFails
    <3> QED
      BY <2>1, <3>1 DEF CloseFails
  <2>2. CASE UnsetFails(h)
    <3>1. PICK ns \in SUBSET (Stored(c) \cap Own(c)), n \in Stored(c) \ Own(c) :
            Close(Closed(c, ns \cup {n})) /\ store' = Unset(c, ns)
      BY <2>2 DEF UnsetFails
    <3>2. ns \cup {n} \in SUBSET Stored(c) /\ order' = Touch(c)
      BY <2>2, <3>1 DEF UnsetFails
    <3> QED
      BY <3>1, <3>2
  <2> QED
    BY <2>1, <2>2
<1>2. c \in Contexts /\ Stored(c) \subseteq Kinds /\ Leave(h) /\ failed' = failed \cup {c}
  BY Given DEF Stored, CloseFails, UnsetFails
<1> DEFINE gone == Closed(c, ms)
           rest == [n \in Kinds |-> IF n \in ns THEN None ELSE store[c][n]]
<1>3. /\ store' = [store EXCEPT ![c] = rest] /\ rest \in [Kinds -> Objects \cup {None}]
      /\ rest # Empty => c \in Elements(order)
  BY <1>1, <1>2, UnsetIs
<1>4. /\ order' \in Seq(Contexts) /\ Once(order') /\ Elements(order) \subseteq Elements(order')
  BY <1>1, <1>2, TouchKeeps DEF TypeOK, Once
<1>5. \A n \in Kinds : rest[n] = store[c][n] \/ (n \in ns /\ rest[n] = None)
  OBVIOUS
<1> HIDE DEF rest
<1>6. ASSUME Plain(c), NEW n \in Kinds PROVE rest[n] = store[c][n] \/ store[c][n] \in gone
  <2>1. CASE n \in ns
    <3>1. store[c][n] # None
      BY <2>1 DEF Own
    <3> QED
      BY <1>1, <1>2, <1>6, <2>1, <3>1, PlainIsClosed
  <2> QED
    BY <1>5, <2>1
<1>7. \A o \in gone : \E k \in Contexts, n \in Kinds : <<c, k>> \in Matches /\ store[k][n] = o
  BY <1>1, <1>2, ClosedIsStored
<1>8. Close(gone)
  BY <1>1
<1> HIDE DEF gone
<1>9. TearsDown(h, gone, rest)
  BY <1>2, <1>3, <1>4, <1>5, <1>6, <1>7, <1>8 DEF TearsDown
<1> QED
  BY <1>9

-----------------------------------------------------------------------------
(* The inductive invariant *)

LEMMA InitInv == Init => IInv
<1> SUFFICES ASSUME Init PROVE IInv
  OBVIOUS
<1>1. /\ stack = <<>> /\ order = <<>> /\ open = {} /\ failed = {}
      /\ \A c \in Contexts : store[c] = Empty /\ \A n \in Kinds : store[c][n] = None
      /\ store \in [Contexts -> [Kinds -> Objects \cup {None}]]
      /\ owner \in [Objects -> Contexts \cup {None}] /\ \A o \in Objects : owner[o] = None
  BY DEF Init, Empty
<1>2. TypeOK
  BY <1>1, Given DEF TypeOK
<1>3. StoredOnce /\ OwnedByStore /\ NothingLost /\ Attended /\ Nested
  BY <1>1 DEF StoredOnce, OwnedByStore, NothingLost, Attended, Nested
<1> QED
  BY <1>2, <1>3 DEF IInv

LEMMA EnterInv == ASSUME IInv, NEW h \in Helpers, Enter(h) PROVE IInv'
<1>1. /\ TypeOK /\ Nested /\ h \notin Entered /\ stack' = Append(stack, h)
      /\ Len(stack) < Depth /\ UNCHANGED <<order, store, open, owner, failed>>
      /\ \A g \in Entered : NameOf[g] # NameOf[h] => NameOf[h] \notin Elements(Prefixes[NameOf[g]])
  BY DEF IInv, Enter
<1>2. /\ stack' \in Seq(Helpers) /\ Len(stack') = Len(stack) + 1 /\ Len(stack) \in Nat
      /\ \A i \in 1 .. Len(stack) : stack'[i] = stack[i] /\ stack[i] \in Entered
      /\ stack'[Len(stack) + 1] = h
      /\ DOMAIN stack' = 1 .. Len(stack) + 1 /\ DOMAIN stack = 1 .. Len(stack)
  BY <1>1 DEF TypeOK, Entered, Elements
<1>3. TypeOK'
  <2>1. Len(stack') <= Depth
    BY <1>1, <1>2, Given
  <2> QED
    BY <1>1, <1>2, <2>1 DEF TypeOK
<1>4. Nested'
  <2> SUFFICES ASSUME NEW j \in 1 .. Len(stack) + 1, NEW i \in 1 .. j - 1
               PROVE  /\ stack'[i] # stack'[j]
                      /\ NameOf[stack'[i]] # NameOf[stack'[j]] =>
                           NameOf[stack'[j]] \notin Elements(Prefixes[NameOf[stack'[i]]])
    BY <1>2 DEF Nested
  <2>1. i \in 1 .. Len(stack) /\ stack'[i] = stack[i] /\ stack[i] \in Entered
    BY <1>2
  <2>2. CASE j = Len(stack) + 1
    BY <1>1, <1>2, <2>1, <2>2
  <2>3. CASE j \in 1 .. Len(stack)
    BY <1>1, <1>2, <2>1, <2>3 DEF Nested
  <2> QED
    BY <1>2, <2>2, <2>3
<1>5. Entered \subseteq Entered'
  BY <1>1, <1>2 DEF Entered, Elements
<1>6. StoredOnce' /\ OwnedByStore' /\ NothingLost' /\ Attended'
  BY <1>1, <1>5 DEF IInv, StoredOnce, OwnedByStore, NothingLost, Attended
<1> QED
  BY <1>3, <1>4, <1>6 DEF IInv

\* Opening an interface where it is stored, or one that is not stored for nobody.
LEMMA OpenInv ==
    ASSUME IInv, NEW o \in Objects, NEW c \in Contexts \cup {None}, Open(o, c),
           UNCHANGED <<order, store>>,
           c = None => \A d \in Contexts, n \in Kinds : store[d][n] # o,
           c # None => \E n \in Kinds : store[c][n] = o
    PROVE  IInv'
<1>1. /\ TypeOK /\ open' = open \cup {o} /\ owner' = [owner EXCEPT ![o] = c]
      /\ UNCHANGED <<stack, order, store, failed>>
  BY DEF IInv, Open
<1>2. owner' \in [Objects -> Contexts \cup {None}] /\ owner'[o] = c
      /\ \A p \in Objects \ {o} : owner'[p] = owner[p]
  BY <1>1 DEF TypeOK
<1>3. TypeOK'
  BY <1>1, <1>2 DEF TypeOK
<1>4. StoredOnce' /\ Attended' /\ Nested'
  BY <1>1 DEF IInv, StoredOnce, Attended, Nested, Entered
<1>5. ASSUME NEW d \in Contexts, NEW n \in Kinds, store[d][n] = o
      PROVE  d = c /\ n = KindOf[o]
  <2>1. o # None /\ StoredOnce
    BY Given DEF IInv
  <2>2. KindOf[o] = n
    BY <1>5, <2>1 DEF StoredOnce
  <2>3. c # None
    BY <1>5
  <2>4. PICK k \in Kinds : store[c][k] = o
    BY <2>3
  <2>5. c \in Contexts /\ k = n
    BY <2>1, <2>2, <2>3, <2>4 DEF StoredOnce
  <2> QED
    BY <1>5, <2>1, <2>2, <2>4, <2>5 DEF StoredOnce
<1>6. KindOf \in [Objects -> Kinds] /\ open \subseteq Objects
  BY <1>1, Given DEF TypeOK
<1>7. OwnedByStore'
  BY <1>1, <1>2, <1>5, <1>6 DEF IInv, OwnedByStore
<1>8. NothingLost'
  BY <1>1, <1>2, <1>5, <1>6 DEF IInv, NothingLost
<1> QED
  BY <1>3, <1>4, <1>7, <1>8 DEF IInv

\* Closing some, by whoever has them.
LEMMA DropInv ==
    ASSUME IInv, NEW os, Close(os), UNCHANGED <<stack, order, store, failed>>
    PROVE  IInv'
<1>1. /\ TypeOK /\ open' = open \ os
      /\ owner' = [o \in Objects |-> IF o \in os THEN None ELSE owner[o]]
  BY DEF IInv, Close
<1>2. /\ owner' \in [Objects -> Contexts \cup {None}]
      /\ \A o \in Objects : owner'[o] = IF o \in os THEN None ELSE owner[o]
  BY <1>1 DEF TypeOK
<1>3. TypeOK'
  BY <1>1, <1>2 DEF TypeOK
<1>4. StoredOnce' /\ Attended' /\ Nested'
  BY DEF IInv, StoredOnce, Attended, Nested, Entered
<1>5. OwnedByStore' /\ NothingLost'
  BY <1>1, <1>2 DEF IInv, OwnedByStore, NothingLost, TypeOK
<1> QED
  BY <1>3, <1>4, <1>5 DEF IInv

\* What a plain name of the path has stored is somewhere.
LEMMA StoredHasPlace ==
    ASSUME TypeOK, NEW path \in Seq(Contexts), NEW c \in Elements(path), Plain(c),
           NEW n \in Kinds, store[c][n] # None
    PROVE  Places(path, n) # {}
<1>1. PICK k \in DOMAIN path : path[k] = c
  BY DEF Elements
<1>2. c \in Contexts /\ store[c] # Empty
  BY <1>1 DEF Empty
<1>3. PICK j \in DOMAIN order : order[j] = c
  BY <1>2 DEF TypeOK, Elements
<1>4. <<c, c>> \in Matches
  BY <1>2 DEF Plain
<1>5. <<k, j>> \in Places(path, n)
  BY <1>1, <1>3, <1>4 DEF Places
<1> QED
  BY <1>5

\* A name is one of its own prefixes.
LEMMA OwnPrefix ==
    ASSUME NEW c \in Contexts
    PROVE  Prefixes[c] \in Seq(Contexts) /\ c \in Elements(Prefixes[c])
<1>1. /\ Prefixes[c] \in Seq(Contexts) /\ Prefixes[c] # <<>>
      /\ Prefixes[c][Len(Prefixes[c])] = c
  BY Given
<1>2. Len(Prefixes[c]) \in DOMAIN Prefixes[c]
  BY <1>1
<1> QED
  BY <1>1, <1>2 DEF Elements

\* Numbers up to a bound have a greatest.
LEMMA Greatest ==
    ASSUME NEW b \in Nat, NEW T \in SUBSET (0 .. b), T # {}
    PROVE  \E x \in T : \A y \in T : y <= x
<1> DEFINE R == OpToRel(<, Nat)
           U == {b - x : x \in T}
<1>1. U \subseteq Nat /\ U # {}
  <2>1. \A x \in T : x \in 0 .. b /\ b - x \in Nat
    OBVIOUS
  <2>2. \A x \in T : b - x \in U
    OBVIOUS
  <2> QED
    BY <2>1, <2>2
<1>2. IsWellFoundedOn(R, Nat)
  BY NatLessThanWellFounded
<1>3. \A x, y \in Nat : y < x => <<y, x>> \in R
  BY DEF OpToRel
<1> HIDE DEF R
<1>4. PICK u \in U : \A v \in U : <<v, u>> \notin R
  BY <1>1, <1>2, WFMin
<1>5. PICK x \in T : u = b - x
  BY <1>4
<1>6. ASSUME NEW y \in T PROVE y <= x
  <2>1. b - y \in U
    BY <1>6
  <2>2. ~(b - y < u)
    BY <1>1, <1>3, <1>4, <2>1
  <2> QED
    BY <1>5, <2>2
<1> QED
  BY <1>6

\* Of the places where there is an interface one is the last.
LEMMA PlacesAreFound ==
    ASSUME TypeOK, NEW path \in Seq(Contexts), NEW n \in Kinds, Places(path, n) # {}
    PROVE  Found(path, n) # {}
<1> DEFINE T == {p[1] : p \in Places(path, n)}
<1>1. /\ DOMAIN path = 1 .. Len(path) /\ Len(path) \in Nat
      /\ DOMAIN order = 1 .. Len(order) /\ Len(order) \in Nat
  BY DEF TypeOK
<1>2. \A p \in Places(path, n) : p \in (1 .. Len(path)) \X (1 .. Len(order))
  BY <1>1 DEF Places
<1>3. T \subseteq 0 .. Len(path) /\ T # {}
  BY <1>1, <1>2
<1> HIDE DEF T
<1>4. PICK i \in T : \A k \in T : k <= i
  BY <1>1, <1>3, Greatest
<1> DEFINE U == {p[2] : p \in {q \in Places(path, n) : q[1] = i}}
<1>5. U \subseteq 0 .. Len(order) /\ U # {}
  BY <1>1, <1>2, <1>4 DEF T
<1> HIDE DEF U
<1>6. PICK j \in U : \A k \in U : k <= j
  BY <1>1, <1>5, Greatest
<1>7. PICK p \in Places(path, n) : p[1] = i /\ p[2] = j
  BY <1>6 DEF U
<1>8. ASSUME NEW q \in Places(path, n) PROVE p = q \/ Over(p, q)
  <2>1. /\ p \in (1 .. Len(path)) \X (1 .. Len(order))
        /\ q \in (1 .. Len(path)) \X (1 .. Len(order))
    BY <1>2, <1>7, <1>8
  <2>2. q[1] <= i
    BY <1>4, <1>8 DEF T
  <2>3. q[1] = i => q[2] <= j
    BY <1>6, <1>8 DEF U
  <2> QED
    BY <1>1, <1>7, <2>1, <2>2, <2>3 DEF Over
<1>9. p \in LastOf(Places(path, n))
  BY <1>7, <1>8 DEF LastOf
<1> QED
  BY <1>9 DEF Found

LEMMA GetFirstInv ==
    ASSUME IInv, NEW h \in Helpers, NEW n \in Kinds, GetFirst(h, n) PROVE IInv'
<1> DEFINE c == NameOf[h]
<1>1. PICK o \in Fresh(n) :
        /\ h \in Entered /\ Found(Prefixes[c], n) = {}
        /\ Open(o, c) /\ order' = Touch(c) /\ store' = [store EXCEPT ![c][n] = o]
  BY DEF GetFirst
<1>2. /\ TypeOK /\ c \in Contexts /\ Prefixes[c] \in Seq(Contexts)
      /\ KindOf \in [Objects -> Kinds] /\ None \notin Objects /\ None \notin Contexts
  BY Given DEF IInv
<1>3. /\ o \in Objects /\ KindOf[o] = n /\ o \notin open
      /\ \A d \in Contexts : store[d][n] # o
  BY DEF Fresh
<1>4. \A d \in Contexts, k \in Kinds : store[d][k] # o
  BY <1>2, <1>3 DEF IInv, StoredOnce
<1>5. Plain(c) => store[c][n] = None
  BY <1>1, <1>2, OwnPrefix, StoredHasPlace, PlacesAreFound
<1>6. /\ store' \in [Contexts -> [Kinds -> Objects \cup {None}]] /\ store'[c][n] = o
      /\ \A d \in Contexts, k \in Kinds : d # c \/ k # n => store'[d][k] = store[d][k]
      /\ \A d \in Contexts : d # c => store'[d] = store[d]
  BY <1>1, <1>2, <1>3 DEF TypeOK
<1>7. /\ open' = open \cup {o} /\ UNCHANGED <<stack, failed>>
      /\ owner' \in [Objects -> Contexts \cup {None}] /\ owner'[o] = c
      /\ \A p \in Objects \ {o} : owner'[p] = owner[p]
  BY <1>1, <1>2, <1>3 DEF Open, TypeOK
<1>8. /\ order' \in Seq(Contexts) /\ Once(order')
      /\ Elements(order') = Elements(order) \cup {c}
  BY <1>1, <1>2, TouchKeeps
<1>9. TypeOK'
  <2>1. \A d \in Contexts : store'[d] # Empty => d \in Elements(order')
    BY <1>2, <1>6, <1>8 DEF TypeOK
  <2>2. open' \subseteq Objects /\ \A p \in Objects \ open' : owner'[p] = None
    BY <1>2, <1>3, <1>7 DEF TypeOK
  <2>3. (stack \in Seq(Helpers) /\ Len(stack) <= Depth /\ failed \subseteq Contexts)'
    BY <1>2, <1>7 DEF TypeOK
  <2>4. (\A i, j \in DOMAIN order : order[i] = order[j] => i = j)'
    BY <1>8 DEF Once
  <2> QED
    BY <1>6, <1>7, <1>8, <2>1, <2>2, <2>3, <2>4 DEF TypeOK
<1>10. StoredOnce'
  <2> SUFFICES ASSUME NEW d \in Contexts, NEW e \in Contexts, NEW k \in Kinds,
                      store'[d][k] # None
               PROVE  KindOf[store'[d][k]] = k /\ (store'[d][k] = store'[e][k] => d = e)
    BY DEF StoredOnce
  <2>1. CASE d = c /\ k = n
    BY <1>3, <1>4, <1>6, <2>1
  <2>2. CASE d # c \/ k # n
    BY <1>3, <1>4, <1>6, <2>2 DEF IInv, StoredOnce
  <2> QED
    BY <2>1, <2>2
<1>11. OwnedByStore'
  <2> SUFFICES ASSUME NEW p \in open', NEW d \in Contexts, store'[d][KindOf[p]] = p
               PROVE  owner'[p] = d
    BY DEF OwnedByStore
  <2>0. p \in Objects /\ KindOf[p] \in Kinds
    BY <1>2, <1>3, <1>7 DEF TypeOK
  <2>1. CASE p = o
    BY <1>3, <1>4, <1>6, <1>7, <2>1
  <2>2. CASE p # o
    <3>1. store[d][KindOf[p]] = p
      BY <1>6, <2>0, <2>2
    <3> QED
      BY <1>7, <2>0, <2>2, <3>1 DEF IInv, OwnedByStore
  <2> QED
    BY <2>1, <2>2
<1>12. NothingLost'
  <2> SUFFICES ASSUME NEW p \in open', owner'[p] # None, Plain(owner'[p])
               PROVE  store'[owner'[p]][KindOf[p]] = p
    BY DEF NothingLost
  <2>0. p \in Objects /\ KindOf[p] \in Kinds
    BY <1>2, <1>3, <1>7 DEF TypeOK
  <2>1. CASE p = o
    BY <1>3, <1>6, <1>7, <2>1
  <2>2. CASE p # o
    <3>1. p \in open /\ owner'[p] = owner[p] /\ owner[p] \in Contexts
      BY <1>2, <1>7, <2>0, <2>2 DEF TypeOK
    <3>2. store[owner[p]][KindOf[p]] = p
      BY <3>1 DEF IInv, NothingLost
    <3>3. owner[p] # c \/ KindOf[p] # n
      BY <1>2, <1>5, <2>0, <3>1, <3>2
    <3> QED
      BY <1>6, <2>0, <3>1, <3>2, <3>3
  <2> QED
    BY <2>1, <2>2
<1>13. Attended'
  <2>1. Entered' = Entered
    BY <1>7 DEF Entered
  <2> QED
    BY <1>1, <1>6, <1>7, <2>1 DEF IInv, Attended
<1>14. Nested'
  BY <1>7 DEF IInv, Nested
<1> QED
  BY <1>9, <1>10, <1>11, <1>12, <1>13, <1>14 DEF IInv

LEMMA TearInv ==
    ASSUME IInv, NEW h \in Helpers, NEW gone, NEW rest, TearsDown(h, gone, rest)
    PROVE  IInv'
<1> DEFINE c == NameOf[h]
<1>1. /\ TypeOK /\ c \in Contexts /\ KindOf \in [Objects -> Kinds]
      /\ None \notin Objects /\ None \notin Contexts
  BY Given DEF IInv
<1>2. /\ stack # <<>> /\ h = stack[Len(stack)] /\ stack' = Shorter(stack)
      /\ open' = open \ gone
      /\ owner' = [o \in Objects |-> IF o \in gone THEN None ELSE owner[o]]
      /\ store' = [store EXCEPT ![c] = rest]
      /\ rest \in [Kinds -> Objects \cup {None}]
      /\ \A n \in Kinds : rest[n] \in {store[c][n], None}
      /\ Plain(c) => \A n \in Kinds : rest[n] = store[c][n] \/ store[c][n] \in gone
      /\ failed' = failed \cup {c} \/ (failed' = failed \ {c} /\ rest = Empty)
  BY DEF TearsDown, Leave, Close, Shorter
<1>3. /\ Len(stack) \in Nat \ {0} /\ stack' \in Seq(Helpers) /\ Len(stack') = Len(stack) - 1
      /\ \A i \in 1 .. Len(stack) - 1 : stack'[i] = stack[i]
      /\ Entered = Entered' \cup {h}
  BY <1>1, <1>2, DropLast DEF TypeOK, Entered
<1>4. /\ store' \in [Contexts -> [Kinds -> Objects \cup {None}]] /\ store'[c] = rest
      /\ \A d \in Contexts : d # c => store'[d] = store[d]
      /\ \A d \in Contexts, n \in Kinds : store'[d][n] \in {store[d][n], None}
  BY <1>1, <1>2 DEF TypeOK
<1>5. /\ owner' \in [Objects -> Contexts \cup {None}]
      /\ \A o \in Objects : owner'[o] = IF o \in gone THEN None ELSE owner[o]
  BY <1>1, <1>2 DEF TypeOK
<1>6. TypeOK'
  <2>1. /\ order' \in Seq(Contexts)
        /\ (\A i, j \in DOMAIN order : order[i] = order[j] => i = j)'
        /\ Elements(order) \ {c} \subseteq Elements(order')
        /\ rest # Empty => c \in Elements(order')
    BY DEF TearsDown, Once
  <2>2. \A d \in Contexts : store'[d] # Empty => d \in Elements(order')
    BY <1>1, <1>4, <2>1 DEF TypeOK
  <2>3. open' \subseteq Objects /\ failed' \subseteq Contexts
        /\ \A o \in Objects \ open' : owner'[o] = None
    BY <1>1, <1>2, <1>5 DEF TypeOK
  <2>4. Len(stack') <= Depth
    BY <1>1, <1>3, Given DEF TypeOK
  <2> QED
    BY <1>3, <1>4, <1>5, <2>1, <2>2, <2>3, <2>4 DEF TypeOK
<1>7. StoredOnce'
  <2> SUFFICES ASSUME NEW d \in Contexts, NEW e \in Contexts, NEW k \in Kinds,
                      store'[d][k] # None
               PROVE  KindOf[store'[d][k]] = k /\ (store'[d][k] = store'[e][k] => d = e)
    BY DEF StoredOnce
  <2>1. store'[d][k] = store[d][k] /\ store'[e][k] \in {store[e][k], None}
    BY <1>4
  <2> QED
    BY <2>1 DEF IInv, StoredOnce
<1>8. OwnedByStore'
  <2> SUFFICES ASSUME NEW o \in open', NEW d \in Contexts, store'[d][KindOf[o]] = o
               PROVE  owner'[o] = d
    BY DEF OwnedByStore
  <2>1. o \in open /\ o \in Objects /\ o \notin gone /\ KindOf[o] \in Kinds /\ o # None
    BY <1>1, <1>2 DEF TypeOK
  <2>2. store[d][KindOf[o]] = o
    BY <1>4, <2>1
  <2> QED
    BY <1>5, <2>1, <2>2 DEF IInv, OwnedByStore
<1>9. NothingLost'
  <2> SUFFICES ASSUME NEW o \in open', owner'[o] # None, Plain(owner'[o])
               PROVE  store'[owner'[o]][KindOf[o]] = o
    BY DEF NothingLost
  <2>1. /\ o \in open /\ o \in Objects /\ o \notin gone /\ KindOf[o] \in Kinds
        /\ owner'[o] = owner[o] /\ owner[o] \in Contexts
    BY <1>1, <1>2, <1>5 DEF TypeOK
  <2>2. store[owner[o]][KindOf[o]] = o
    BY <2>1 DEF IInv, NothingLost
  <2>3. CASE owner[o] = c
    BY <1>2, <1>4, <2>1, <2>2, <2>3
  <2>4. CASE owner[o] # c
    BY <1>4, <2>1, <2>2, <2>4
  <2> QED
    BY <2>3, <2>4
<1>10. Attended'
  <2> SUFFICES ASSUME NEW d \in Contexts, Plain(d), d \notin failed', store'[d] # Empty
               PROVE  \E g \in Entered' : NameOf[g] = d
    BY DEF Attended
  <2>1. d # c /\ d \notin failed /\ store[d] # Empty
    BY <1>1, <1>2, <1>4
  <2> QED
    BY <1>3, <2>1 DEF IInv, Attended
<1>11. Nested'
  <2> SUFFICES ASSUME NEW j \in DOMAIN stack', NEW i \in 1 .. j - 1
               PROVE  /\ stack'[i] # stack'[j]
                      /\ NameOf[stack'[i]] # NameOf[stack'[j]] =>
                           NameOf[stack'[j]] \notin Elements(Prefixes[NameOf[stack'[i]]])
    BY DEF Nested
  <2>1. DOMAIN stack' = 1 .. Len(stack) - 1 /\ DOMAIN stack = 1 .. Len(stack)
    BY <1>1, <1>3 DEF TypeOK
  <2>2. j \in DOMAIN stack /\ stack'[j] = stack[j] /\ stack'[i] = stack[i]
    BY <1>3, <2>1
  <2> QED
    BY <2>2 DEF IInv, Nested
<1> QED
  BY <1>6, <1>7, <1>8, <1>9, <1>10, <1>11 DEF IInv

LEMMA StepInv == IInv /\ [Next]_vars => IInv'
<1> SUFFICES ASSUME IInv, [Next]_vars PROVE IInv'
  OBVIOUS
<1>0. TypeOK
  BY DEF IInv
<1>1. ASSUME NEW o \in Objects, Drop(o) PROVE IInv'
  BY <1>1, DropInv DEF Drop
<1>2. ASSUME NEW h \in Helpers, NEW n \in Kinds, GetAgain(h, n) PROVE IInv'
  <2>1. PICK c \in Contexts : store[c][n] \in Found(Prefixes[NameOf[h]], n)
                              /\ Open(store[c][n], c)
    BY <1>2 DEF GetAgain
  <2>2. Prefixes[NameOf[h]] \in Seq(Contexts) /\ c # None
    BY Given
  <2>3. store[c][n] \in Objects
    BY <1>0, <2>1, <2>2, FoundIsStored
  <2>4. UNCHANGED <<order, store>>
    BY <1>2 DEF GetAgain
  <2> QED
    BY <2>1, <2>2, <2>3, <2>4, OpenInv
<1>3. ASSUME NEW h \in Helpers, NEW n \in Kinds, GetAnother(h, n) PROVE IInv'
  <2>1. PICK o \in Fresh(n) : Open(o, None)
    BY <1>3 DEF GetAnother
  <2>2. /\ o \in Objects /\ KindOf[o] = n /\ o # None
        /\ \A c \in Contexts : store[c][n] # o
    BY <2>1, Given DEF Fresh
  <2>3. \A d \in Contexts, k \in Kinds : store[d][k] # o
    BY <2>2 DEF IInv, StoredOnce
  <2>4. UNCHANGED <<order, store>>
    BY <1>3 DEF GetAnother
  <2> QED
    BY <2>1, <2>2, <2>3, <2>4, OpenInv
<1>4. ASSUME NEW h \in Helpers, Exit(h) \/ CloseFails(h) \/ UnsetFails(h) PROVE IInv'
  <2>1. PICK gone, rest : TearsDown(h, gone, rest)
    BY <1>0, <1>4, ExitTears, FailureTears
  <2> QED
    BY <2>1, TearInv
<1>5. ASSUME UNCHANGED vars PROVE IInv'
  <2>1. UNCHANGED <<stack, order, store, open, owner, failed>>
    BY <1>5 DEF vars
  <2> QED
    BY <2>1 DEF IInv, TypeOK, StoredOnce, OwnedByStore, NothingLost, Attended, Nested, Entered
<1> QED
  BY <1>1, <1>2, <1>3, <1>4, <1>5, EnterInv, GetFirstInv DEF Next

\* Types, the keys of the store, who owns what is stored, and the nesting of
\* helpers are as they should be.
THEOREM ContextsAreConsistent == Spec => []IInv
  BY InitInv, StepInv, PTL DEF Spec

\* An interface that a context of a plain name opened is in the store as long
\* as it is open.
THEOREM NothingGetsLost == Spec => []NothingLost
<1>1. IInv => NothingLost
  BY DEF IInv
<1> QED
  BY <1>1, InitInv, StepInv, PTL DEF Spec

LEMMA InvCloses == IInv => ClosedAtExit
<1> SUFFICES ASSUME IInv, NEW o \in open, owner[o] # None, Plain(owner[o]),
                    owner[o] \notin failed
             PROVE  \E h \in Entered : NameOf[h] = owner[o]
  BY DEF ClosedAtExit
<1>1. o \in Objects /\ KindOf[o] \in Kinds /\ owner[o] \in Contexts /\ o # None
  BY Given DEF IInv, TypeOK
<1>2. store[owner[o]][KindOf[o]] = o
  BY DEF IInv, NothingLost
<1>3. store[owner[o]] # Empty
  BY <1>1, <1>2 DEF Empty
<1> QED
  BY <1>1, <1>3 DEF IInv, Attended

\* What a context of a plain name opened is closed when its helpers have been
\* torn down and no close has raised.
THEOREM TeardownCloses == Spec => []ClosedAtExit
  BY InitInv, StepInv, InvCloses, PTL DEF Spec

-----------------------------------------------------------------------------
(* A teardown closes the interfaces of its own context *)

ClosesItsOwn ==
    \A o \in open \ open' :
        Len(stack') < Len(stack) /\ Plain(NameOf[stack[Len(stack)]]) =>
          owner[o] = NameOf[stack[Len(stack)]]

LEMMA StepCloses == IInv /\ [Next]_vars => [ClosesItsOwn]_vars
<1> SUFFICES ASSUME IInv, Next, NEW o \in open \ open', Len(stack') < Len(stack),
                    Plain(NameOf[stack[Len(stack)]])
             PROVE  owner[o] = NameOf[stack[Len(stack)]]
  BY DEF ClosesItsOwn
<1>0. TypeOK
  BY DEF IInv
<1>1. Len(stack) \in Nat
  BY <1>0 DEF TypeOK
<1>2. PICK h \in Helpers : Exit(h) \/ CloseFails(h) \/ UnsetFails(h)
  <2>1. ASSUME stack' = stack PROVE FALSE
    BY <1>1, <2>1
  <2>2. ASSUME NEW h \in Helpers, Enter(h) PROVE FALSE
    <3>1. Len(stack') = Len(stack) + 1
      BY <1>0, <2>2 DEF Enter, TypeOK
    <3> QED
      BY <1>1, <3>1
  <2>3. ASSUME NEW h \in Helpers, NEW n \in Kinds,
               GetAgain(h, n) \/ GetFirst(h, n) \/ GetAnother(h, n)
        PROVE  stack' = stack
    BY <2>3 DEF GetAgain, GetFirst, GetAnother, Open
  <2>4. ASSUME NEW p \in Objects, Drop(p) PROVE stack' = stack
    BY <2>4 DEF Drop
  <2> QED
    BY <2>1, <2>2, <2>3, <2>4 DEF Next
<1>3. PICK gone, rest : TearsDown(h, gone, rest)
  BY <1>0, <1>2, ExitTears, FailureTears
<1>4. h = stack[Len(stack)] /\ o \in gone /\ o \in open /\ o \in Objects
  BY <1>0, <1>3 DEF TearsDown, Leave, Close, TypeOK
<1>5. PICK k \in Contexts, n \in Kinds : <<NameOf[h], k>> \in Matches /\ store[k][n] = o
  BY <1>3, <1>4 DEF TearsDown
<1>6. k = NameOf[h]
  BY <1>4, <1>5 DEF Plain
<1>7. KindOf[o] = n
  BY <1>4, <1>5, Given DEF IInv, StoredOnce
<1> QED
  BY <1>4, <1>5, <1>6, <1>7 DEF IInv, OwnedByStore

\* The teardown of a context of a plain name closes no interface of another.
THEOREM TeardownIsLocal == Spec => OnlyItsOwn
  BY InitInv, StepInv, StepCloses, PTL DEF Spec, OnlyItsOwn, ClosesItsOwn

-----------------------------------------------------------------------------
(* Along plain names the order of the keys does not matter *)

PlainPath(path) == path \in Seq(Contexts) /\ \A c \in Elements(path) : Plain(c)

\* The innermost name with an interface of kind n.
Innermost(path, n) ==
    {i \in DOMAIN path :
        /\ store[path[i]][n] # None
        /\ \A k \in DOMAIN path : k > i => store[path[k]][n] = None}

FoundInnermost ==
    \A path, n : PlainPath(path) /\ n \in Kinds =>
        Found(path, n) = {store[path[i]][n] : i \in Innermost(path, n)}

LEMMA TypeFinds == TypeOK => FoundInnermost
<1> SUFFICES ASSUME TypeOK, NEW path, NEW n, PlainPath(path), n \in Kinds
             PROVE  Found(path, n) = {store[path[i]][n] : i \in Innermost(path, n)}
  BY DEF FoundInnermost
<1>1. /\ DOMAIN path = 1 .. Len(path) /\ Len(path) \in Nat
      /\ DOMAIN order = 1 .. Len(order) /\ Len(order) \in Nat
      /\ \A i, j \in DOMAIN order : order[i] = order[j] => i = j
      /\ \A j \in DOMAIN order : order[j] \in Contexts
  BY DEF TypeOK, PlainPath
<1>2. \A i \in DOMAIN path : path[i] \in Contexts /\ Plain(path[i])
  BY DEF PlainPath, Elements
<1>3. ASSUME NEW p \in Places(path, n)
      PROVE  /\ p[1] \in DOMAIN path /\ p[2] \in DOMAIN order /\ p = <<p[1], p[2]>>
             /\ order[p[2]] = path[p[1]] /\ store[path[p[1]]][n] # None
  <2>1. /\ p[1] \in DOMAIN path /\ p[2] \in DOMAIN order /\ p = <<p[1], p[2]>>
        /\ <<path[p[1]], order[p[2]]>> \in Matches /\ store[order[p[2]]][n] # None
    BY <1>3 DEF Places
  <2>2. order[p[2]] = path[p[1]]
    BY <1>1, <1>2, <2>1 DEF Plain
  <2> QED
    BY <2>1, <2>2
<1>4. ASSUME NEW i \in DOMAIN path, store[path[i]][n] # None
      PROVE  \E j \in DOMAIN order : order[j] = path[i] /\ <<i, j>> \in Places(path, n)
  <2>1. path[i] \in Contexts /\ <<path[i], path[i]>> \in Matches
    BY <1>2 DEF Plain
  <2>2. store[path[i]] # Empty
    BY <1>4 DEF Empty
  <2>3. path[i] \in Elements(order)
    BY <2>1, <2>2 DEF TypeOK
  <2>4. PICK j \in DOMAIN order : order[j] = path[i]
    BY <2>3 DEF Elements
  <2>5. <<i, j>> \in Places(path, n)
    BY <1>4, <2>1, <2>4 DEF Places
  <2> QED
    BY <2>4, <2>5
<1>5. ASSUME NEW p \in LastOf(Places(path, n))
      PROVE  p[1] \in Innermost(path, n) /\ store[order[p[2]]][n] = store[path[p[1]]][n]
  <2>1. p \in Places(path, n) /\ \A q \in Places(path, n) : p = q \/ Over(p, q)
    BY <1>5 DEF LastOf
  <2>2. ASSUME NEW k \in DOMAIN path, k > p[1], store[path[k]][n] # None PROVE FALSE
    <3>1. PICK j \in DOMAIN order : <<k, j>> \in Places(path, n)
      BY <1>4, <2>2
    <3>2. p = <<k, j>> \/ Over(p, <<k, j>>)
      BY <2>1, <3>1
    <3>3. p[1] = k \/ p[1] > k
      BY <3>2 DEF Over
    <3>4. p[1] \in 1 .. Len(path) /\ k \in 1 .. Len(path)
      BY <1>1, <1>3, <2>1
    <3> QED
      BY <1>1, <2>2, <3>3, <3>4
  <2> QED
    BY <1>3, <2>1, <2>2 DEF Innermost
<1>6. ASSUME NEW i \in Innermost(path, n)
      PROVE  \E p \in LastOf(Places(path, n)) : store[order[p[2]]][n] = store[path[i]][n]
  <2>1. /\ i \in DOMAIN path /\ store[path[i]][n] # None
        /\ \A k \in DOMAIN path : k > i => store[path[k]][n] = None
    BY <1>6 DEF Innermost
  <2>2. PICK j \in DOMAIN order : order[j] = path[i] /\ <<i, j>> \in Places(path, n)
    BY <1>4, <2>1
  <2>3. ASSUME NEW q \in Places(path, n) PROVE <<i, j>> = q \/ Over(<<i, j>>, q)
    <3>1. /\ q[1] \in DOMAIN path /\ q[2] \in DOMAIN order /\ q = <<q[1], q[2]>>
          /\ order[q[2]] = path[q[1]] /\ ~(q[1] > i)
      BY <1>3, <2>1, <2>3
    <3>2. CASE q[1] = i
      BY <1>1, <2>2, <3>1, <3>2
    <3>3. CASE q[1] # i
      <4>1. i > q[1]
        BY <1>1, <2>1, <3>1, <3>3
      <4> QED
        BY <4>1 DEF Over
    <3> QED
      BY <3>2, <3>3
  <2>4. <<i, j>> \in LastOf(Places(path, n))
    BY <2>2, <2>3 DEF LastOf
  <2> QED
    BY <2>2, <2>4
<1> QED
  BY <1>5, <1>6 DEF Found

LEMMA TypeFindsNext == TypeOK' => FoundInnermost'
  BY TypeFinds, PTL

\* If nothing changes in the contexts of the path, the same is found.
LEMMA SameAlong ==
    ASSUME TypeOK, TypeOK', NEW path, PlainPath(path), NEW n \in Kinds,
           \A i \in DOMAIN path : store'[path[i]][n] = store[path[i]][n]
    PROVE  Found(path, n)' = Found(path, n)
<1>1. Innermost(path, n)' = Innermost(path, n)
  BY DEF Innermost
<1>2. Found(path, n) = {store[path[i]][n] : i \in Innermost(path, n)}
  BY TypeFinds DEF FoundInnermost
<1>3. Found(path, n)' = {store'[path[i]][n] : i \in Innermost(path, n)'}
  BY TypeFindsNext DEF FoundInnermost
<1>4. Innermost(path, n) \subseteq DOMAIN path
  BY DEF Innermost
<1> QED
  BY <1>1, <1>2, <1>3, <1>4

\* A context that stores its first interface of a kind is outside of those
\* that have one already, or not one of the names.
LEMMA FirstIsOutside ==
    ASSUME TypeOK, NEW h \in Contexts, PlainPath(Prefixes[h]), NEW n \in Kinds,
           NEW k \in DOMAIN Prefixes[h], Found(Prefixes[Prefixes[h][k]], n) = {},
           NEW i \in Innermost(Prefixes[h], n)
    PROVE  k < i
<1> DEFINE path == Prefixes[h]
           c == path[k]
<1>1. /\ path \in Seq(Contexts) /\ c \in Contexts /\ Prefixes[c] \in Seq(Contexts)
      /\ DOMAIN path = 1 .. Len(path) /\ Len(path) \in Nat
      /\ i \in DOMAIN path /\ path[i] \in Contexts
  BY Given DEF PlainPath, Innermost
<1>2. store[path[i]][n] # None /\ \A l \in DOMAIN path : l > i => store[path[l]][n] = None
  BY DEF Innermost
<1>3. \A d \in Elements(path) : Plain(d)
  BY DEF PlainPath
<1>4. Places(Prefixes[c], n) = {}
  BY <1>1, PlacesAreFound
<1>5. path[i] \notin Elements(Prefixes[c])
  <2>1. path[i] \in Elements(path)
    BY <1>1 DEF Elements
  <2> QED
    BY <1>1, <1>2, <1>3, <1>4, <2>1, StoredHasPlace
<1>6. k # i
  BY <1>1, <1>5, OwnPrefix
<1>7. ASSUME k > i PROVE FALSE
  <2>1. i \in 1 .. k - 1 /\ k \in DOMAIN path
    BY <1>1, <1>7
  <2>2. \/ \E l \in DOMAIN Prefixes[c] : Prefixes[c][l] = path[i]
        \/ \E l \in k + 1 .. Len(path) : path[l] = path[i]
    BY <2>1, ContextsAssumption DEF ContextsAssumption
  <2>3. ASSUME NEW l \in k + 1 .. Len(path), path[l] = path[i] PROVE FALSE
    <3>1. l \in DOMAIN path /\ l > i
      BY <1>1, <1>7
    <3> QED
      BY <1>2, <2>3, <3>1
  <2> QED
    BY <1>5, <2>2, <2>3 DEF Elements
<1> QED
  BY <1>1, <1>6, <1>7

StaysFound ==
    \A h \in Entered, n \in Kinds :
        h \in Entered' /\ Undisturbed(h) /\ Found(Prefixes[NameOf[h]], n) # {} =>
          Found(Prefixes[NameOf[h]], n)' = Found(Prefixes[NameOf[h]], n)

LEMMA FirstStays ==
    ASSUME IInv, IInv', NEW h \in Helpers, NEW n \in Kinds, Undisturbed(h),
           Found(Prefixes[NameOf[h]], n) # {},
           NEW g \in Helpers, NEW m \in Kinds, GetFirst(g, m)
    PROVE  Found(Prefixes[NameOf[h]], n)' = Found(Prefixes[NameOf[h]], n)
<1> DEFINE path == Prefixes[NameOf[h]]
           c == NameOf[g]
<1>1. /\ TypeOK /\ TypeOK' /\ NameOf[h] \in Contexts /\ c \in Contexts
      /\ path \in Seq(Contexts) /\ PlainPath(path)
  BY Given DEF IInv, PlainPath, Undisturbed
<1>2. PICK o \in Fresh(m) : store' = [store EXCEPT ![c][m] = o]
  BY DEF GetFirst
<1>3. \A d \in Contexts : d # c \/ m # n => store'[d][n] = store[d][n]
  BY <1>1, <1>2 DEF TypeOK
<1>4. \A i \in DOMAIN path : path[i] \in Contexts
  BY <1>1
<1>5. CASE m # n \/ c \notin Elements(path)
  <2>1. \A i \in DOMAIN path : store'[path[i]][n] = store[path[i]][n]
    BY <1>3, <1>4, <1>5 DEF Elements
  <2> QED
    BY <1>1, <2>1, SameAlong
<1>6. CASE m = n /\ c \in Elements(path)
  <2>1. Found(path, n) = {store[path[i]][n] : i \in Innermost(path, n)}
    BY <1>1, TypeFinds DEF FoundInnermost
  <2>2. PICK i \in Innermost(path, n) : TRUE
    BY <2>1
  <2>3. Found(Prefixes[c], n) = {}
    BY <1>6 DEF GetFirst
  <2>4. \A k \in DOMAIN path : path[k] = c => k < i
    BY <1>1, <2>2, <2>3, FirstIsOutside
  <2>5. /\ i \in DOMAIN path /\ DOMAIN path \subseteq Nat /\ store[path[i]][n] # None
        /\ \A k \in DOMAIN path : k > i => store[path[k]][n] = None
    BY <1>1, <2>2 DEF Innermost
  <2>6. \A k \in DOMAIN path : k >= i => store'[path[k]][n] = store[path[k]][n]
    BY <1>3, <1>4, <2>4, <2>5
  <2>7. Innermost(path, n) = {i}
    BY <2>5 DEF Innermost
  <2>8. Innermost(path, n)' = {i}
    <3>1. i \in Innermost(path, n)'
      BY <2>5, <2>6 DEF Innermost
    <3>2. \A k \in Innermost(path, n)' : k = i
      BY <2>5, <2>6 DEF Innermost
    <3> QED
      BY <3>1, <3>2
  <2>9. Found(path, n)' = {store'[path[k]][n] : k \in Innermost(path, n)'}
    BY <1>1, TypeFindsNext DEF FoundInnermost
  <2> QED
    BY <2>1, <2>5, <2>6, <2>7, <2>8, <2>9
<1> QED
  BY <1>5, <1>6

LEMMA TearStays ==
    ASSUME IInv, IInv', NEW h \in Helpers, h \in Entered', NEW n \in Kinds, Undisturbed(h),
           NEW g \in Helpers, NEW gone, NEW rest, TearsDown(g, gone, rest)
    PROVE  Found(Prefixes[NameOf[h]], n)' = Found(Prefixes[NameOf[h]], n)
<1> DEFINE path == Prefixes[NameOf[h]]
<1>1. /\ TypeOK /\ TypeOK' /\ NameOf[h] \in Contexts /\ NameOf[g] \in Contexts
      /\ path \in Seq(Contexts) /\ PlainPath(path)
  BY Given DEF IInv, PlainPath, Undisturbed
<1>2. /\ stack # <<>> /\ g = stack[Len(stack)] /\ stack' = Shorter(stack)
      /\ store' = [store EXCEPT ![NameOf[g]] = rest]
  BY DEF TearsDown, Leave, Shorter
<1>3. PICK i \in 1 .. Len(stack) - 1 : h = stack[i]
  <2>1. /\ Len(stack) \in Nat \ {0} /\ stack' \in Seq(Helpers)
        /\ Len(stack') = Len(stack) - 1
        /\ \A i \in 1 .. Len(stack) - 1 : stack'[i] = stack[i]
    BY <1>1, <1>2, DropLast DEF TypeOK
  <2>2. PICK i \in DOMAIN stack' : h = stack'[i]
    BY DEF Entered, Elements
  <2> QED
    BY <2>1, <2>2
<1>4. Len(stack) \in DOMAIN stack
  BY <1>1, <1>2 DEF TypeOK
<1>5. h # g /\ (NameOf[h] # NameOf[g] => NameOf[g] \notin Elements(path))
  BY <1>2, <1>3, <1>4 DEF IInv, Nested
<1>6. NameOf[h] # NameOf[g]
  <2>1. NameOf[h] \in Elements(path)
    BY <1>1, OwnPrefix
  <2> QED
    BY <1>5, <2>1 DEF Undisturbed
<1>7. \A k \in DOMAIN path : path[k] \in Contexts /\ path[k] # NameOf[g]
  BY <1>1, <1>5, <1>6 DEF Elements
<1>8. \A k \in DOMAIN path : store'[path[k]][n] = store[path[k]][n]
  BY <1>1, <1>2, <1>7 DEF TypeOK
<1> QED
  BY <1>1, <1>8, SameAlong

LEMMA StepStays == IInv /\ IInv' /\ [Next]_vars => [StaysFound]_vars
<1> SUFFICES ASSUME IInv, IInv', Next, NEW h \in Entered, NEW n \in Kinds, h \in Entered',
                    Undisturbed(h), Found(Prefixes[NameOf[h]], n) # {}
             PROVE  Found(Prefixes[NameOf[h]], n)' = Found(Prefixes[NameOf[h]], n)
  BY DEF StaysFound
<1>0. TypeOK /\ TypeOK'
  BY DEF IInv
<1>1. h \in Helpers
  BY <1>0 DEF Entered, Elements, TypeOK
<1>2. PlainPath(Prefixes[NameOf[h]])
  BY <1>1, Given DEF PlainPath, Undisturbed
<1>3. ASSUME store' = store
      PROVE  Found(Prefixes[NameOf[h]], n)' = Found(Prefixes[NameOf[h]], n)
  BY <1>0, <1>2, <1>3, SameAlong
<1>4. ASSUME NEW o \in Objects, Drop(o) PROVE store' = store
  BY <1>4 DEF Drop
<1>5. ASSUME NEW g \in Helpers, NEW m \in Kinds, Enter(g) \/ GetAgain(g, m) \/ GetAnother(g, m)
      PROVE  store' = store
  BY <1>5 DEF Enter, GetAgain, GetAnother
<1>6. ASSUME NEW g \in Helpers, NEW m \in Kinds, GetFirst(g, m)
      PROVE  Found(Prefixes[NameOf[h]], n)' = Found(Prefixes[NameOf[h]], n)
  BY <1>1, <1>6, FirstStays
<1>7. ASSUME NEW g \in Helpers, Exit(g) \/ CloseFails(g) \/ UnsetFails(g)
      PROVE  Found(Prefixes[NameOf[h]], n)' = Found(Prefixes[NameOf[h]], n)
  <2>1. PICK gone, rest : TearsDown(g, gone, rest)
    BY <1>0, <1>7, ExitTears, FailureTears
  <2> QED
    BY <1>1, <2>1, TearStays
<1> QED
  BY <1>3, <1>4, <1>5, <1>6, <1>7 DEF Next

\* As long as a helper is in use every get of a kind gives it the same
\* interface, where names are plain and no two helpers share a context.
THEOREM GetsTheSame == Spec => SameInterface
  BY InitInv, StepInv, StepStays, PTL DEF Spec, SameInterface, StaysFound
=============================================================================
