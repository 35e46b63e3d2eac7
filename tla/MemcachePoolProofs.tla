------------------------- MODULE MemcachePoolProofs -------------------------
(***************************************************************************)
(* Theorems about MemcachePool, for any number of clients and values, any  *)
(* names, prefixes and workload: no value is reserved twice, memcached has *)
(* what callers have and nothing else, names and sizes are kept.           *)
(***************************************************************************)
EXTENDS MemcachePool, FiniteSetTheorems, TLAPS

-----------------------------------------------------------------------------
(* The operators of ResourcePool *)

LEMMA ViewsType ==
    ASSUME NEW read_, read_ \subseteq Item, NEW view \in Views(read_)
    PROVE  view \subseteq Item
BY DEF Views

LEMMA NewItemsType ==
    ASSUME NEW prefix \in Prefixes, NEW request \in Seq(Names \cup {NoName}),
           NEW items_, NEW free, free \subseteq Values,
           NEW f \in Allotments(Missing(items_, prefix, request), free)
    PROVE  NewItems(prefix, request, f) \subseteq Item
<1>1. DOMAIN f \subseteq DOMAIN request
  BY DEF Allotments, Missing
<1>2. \A n \in DOMAIN f : f[n] \in free
  BY DEF Allotments
<1>3. \A n \in DOMAIN request : request[n] \in Names \cup {NoName}
  OBVIOUS
<1> QED
  BY <1>1, <1>2, <1>3 DEF NewItems, Fresh, Item

LEMMA OldItemsType ==
    ASSUME NEW prefix, NEW request, NEW items_
    PROVE  OldItems(items_, prefix, request) \subseteq items_
BY DEF OldItems, Saved

LEMMA ValsType ==
    ASSUME NEW S, S \subseteq Item
    PROVE  Vals(S) \subseteq Values
BY DEF Vals, Item

-----------------------------------------------------------------------------
(* Types *)

LEMMA NoCallType == NoCall \in Call
BY DEF NoCall, Call

LEMMA InitType == Init => TypeOK
<1> SUFFICES ASSUME Init PROVE TypeOK
  OBVIOUS
<1>1. call \in [Clients -> Call]
  BY NoCallType DEF Init
<1> QED
  BY <1>1 DEF Init, TypeOK, PCs

LEMMA LeaveType ==
    ASSUME TypeOK, NEW c \in Clients, NEW label \in PCs,
           NEW tokens \in [Clients -> {"none", "current", "stale"}],
           Leave(c, label, tokens)
    PROVE  /\ pc' \in [Clients -> PCs]
           /\ call' \in [Clients -> Call]
           /\ token' \in [Clients -> {"none", "current", "stale"}]
           /\ keys' \in [Clients -> SUBSET Values]
           /\ todo' \in [Clients -> SUBSET Values]
           /\ read' \in [Clients -> SUBSET Item]
           /\ pend' \in [Clients -> SUBSET Item]
           /\ keyName' \in [Clients -> Values \cup {0}]
           /\ overlooked' \in [Clients -> BOOLEAN]
BY NoCallType DEF TypeOK, Leave, Goto

LEMMA OutdatedType ==
    ASSUME TypeOK
    PROVE  Outdated \in [Clients -> {"none", "current", "stale"}]
BY DEF TypeOK, Outdated

LEMMA RaiseType ==
    ASSUME TypeOK, NEW c \in Clients, Raise(c)
    PROVE  \E label \in {"idle", "new"} : Leave(c, label, token)
BY DEF Raise

LEMMA StartType ==
    ASSUME TypeOK, NEW c \in Clients, NEW op \in Operations \cup {"init"},
           NEW request \in Seq(Names \cup {NoName}), NEW item \in Item \cup {NoItem},
           NEW label \in PCs, Start(c, op, request, item, label),
           held' \in [Clients -> SUBSET Item], lapsed' \in [Clients -> SUBSET Item]
    PROVE  TypeOK'
<1>1. [op |-> op, request |-> request, item |-> item] \in Call
  BY DEF Call
<1> QED
  BY <1>1 DEF TypeOK, Start, Goto, server

LEMMA BeginType ==
    ASSUME TypeOK, NEW c \in Clients, Begin(c)
    PROVE  TypeOK'
<1>0. <<>> \in Seq(Names \cup {NoName})
  OBVIOUS
<1>1. CASE Construct(c)
  BY <1>0, <1>1, StartType DEF Construct, caller, PCs, TypeOK
<1>2. CASE BeginGet(c)
  <2>1. PICK request \in Requests["get"] : Start(c, "get", request, NoItem, "gets")
    BY <1>2 DEF BeginGet
  <2>2. request \in Seq(Names \cup {NoName})
    BY ClientAssumption
  <2> QED
    BY <1>2, <2>1, <2>2, StartType DEF BeginGet, caller, PCs, TypeOK, Operations
<1>3. CASE BeginGetMulti(c)
  <2>1. PICK request \in Requests["get_multi"] :
            Start(c, "get_multi", request, NoItem, "gets")
    BY <1>3 DEF BeginGetMulti
  <2>2. request \in Seq(Names \cup {NoName})
    BY ClientAssumption
  <2> QED
    BY <1>3, <2>1, <2>2, StartType DEF BeginGetMulti, caller, PCs, TypeOK, Operations
<1>4. CASE BeginFree(c)
  <2>1. PICK item \in held[c] \cup lapsed[c] :
            /\ Start(c, "free", <<>>, item, "gets")
            /\ held' = [held EXCEPT ![c] = @ \ {item}]
            /\ lapsed' = [lapsed EXCEPT ![c] = @ \ {item}]
    BY <1>4 DEF BeginFree
  <2>2. item \in Item
    BY DEF TypeOK
  <2> QED
    BY <1>0, <2>1, <2>2, StartType DEF PCs, TypeOK, Operations
<1>5. CASE BeginFreeAll(c)
  BY <1>0, <1>5, StartType DEF BeginFreeAll, PCs, TypeOK, Operations
<1>6. CASE BeginSync(c)
  BY <1>0, <1>6, StartType DEF BeginSync, caller, PCs, TypeOK, Operations
<1>7. CASE BeginFlush(c)
  BY <1>0, <1>7, StartType DEF BeginFlush, caller, PCs, TypeOK, Operations
<1> QED
  BY <1>1, <1>2, <1>3, <1>4, <1>5, <1>6, <1>7 DEF Begin

LEMMA ReadingType ==
    ASSUME TypeOK, NEW c \in Clients, AddIndex(c) \/ Gets(c) \/ Fetch(c)
    PROVE  TypeOK'
<1>1. CASE AddIndex(c)
  BY <1>1, OutdatedType DEF TypeOK, AddIndex, Goto, PCs, caller
<1>2. CASE Gets(c)
  <2>1. CASE Raise(c)
    BY <1>2, <2>1, RaiseType, LeaveType DEF TypeOK, Gets, PCs, caller, server
  <2>2. CASE ~Raise(c)
    <3>1. LocalItems(Prefix[c], items[c]) \subseteq Item
      BY DEF LocalItems, TypeOK
    <3>2. index # NoIndex => index \in SUBSET Values
      BY DEF TypeOK
    <3>3. /\ pc' \in [Clients -> PCs]
          /\ token' \in [Clients -> {"none", "current", "stale"}]
          /\ read' \in [Clients -> SUBSET Item]
          /\ overlooked' \in [Clients -> BOOLEAN]
      BY <1>2, <2>2 DEF TypeOK, Gets, Goto, PCs
    <3>4. /\ keys' \in [Clients -> SUBSET Values]
          /\ todo' \in [Clients -> SUBSET Values]
      BY <1>2, <2>2, <3>2 DEF TypeOK, Gets
    <3>5. pend' \in [Clients -> SUBSET Item]
      BY <1>2, <2>2, <3>1 DEF TypeOK, Gets
    <3> QED
      BY <1>2, <2>2, <3>3, <3>4, <3>5 DEF TypeOK, Gets, caller, server
  <2> QED
    BY <2>1, <2>2
<1>3. CASE Fetch(c)
  BY <1>3 DEF TypeOK, Fetch, caller, server, Awaited
<1> QED
  BY <1>1, <1>2, <1>3

LEMMA CollideType ==
    ASSUME TypeOK, NEW c \in Clients, NEW item \in Item \cup {NoItem},
           NEW name \in Values \cup {0}, Collide(c, item, name),
           items' \in [Clients -> SUBSET Item], UNCHANGED <<store, caller>>
    PROVE  TypeOK'
<1>1. CASE index = NoIndex
  <2>1. Raise(c)
    BY <1>1 DEF Collide
  <2> QED
    BY <2>1, RaiseType, LeaveType DEF TypeOK, Collide, PCs, caller
<1>2. CASE index # NoIndex
  <2>1. /\ call[c] \in Call
        /\ call' = [call EXCEPT ![c] =
                      [op |-> call[c].op, request |-> call[c].request, item |-> item]]
        /\ pc' = [pc EXCEPT ![c] = LoopStart(c)]
        /\ token' = [token EXCEPT ![c] = "none"]
        /\ keys' = [keys EXCEPT ![c] = {}]
        /\ read' = [read EXCEPT ![c] = {}]
        /\ overlooked' = [overlooked EXCEPT ![c] = FALSE]
        /\ keyName' = [keyName EXCEPT ![c] = name]
        /\ UNCHANGED <<todo, pend, index, clash>>
    BY <1>2 DEF Collide, TypeOK, Goto
  <2>2. [op |-> call[c].op, request |-> call[c].request, item |-> item] \in Call
    BY <2>1 DEF Call
  <2>3. call' \in [Clients -> Call]
    BY <2>1, <2>2 DEF TypeOK
  <2>4. LoopStart(c) \in PCs
    BY DEF LoopStart, PCs
  <2>5. /\ pc' \in [Clients -> PCs]
        /\ token' \in [Clients -> {"none", "current", "stale"}]
        /\ keys' \in [Clients -> SUBSET Values]
        /\ read' \in [Clients -> SUBSET Item]
        /\ overlooked' \in [Clients -> BOOLEAN]
        /\ keyName' \in [Clients -> Values \cup {0}]
    BY <2>1, <2>4 DEF TypeOK
  <2> QED
    BY <2>1, <2>3, <2>5 DEF TypeOK, caller
<1> QED
  BY <1>1, <1>2

LEMMA ProceedType ==
    ASSUME TypeOK, NEW c \in Clients, NEW label \in PCs, Proceed(c, label)
    PROVE  /\ pc' \in [Clients -> PCs]
           /\ call' \in [Clients -> Call]
           /\ token' \in [Clients -> {"none", "current", "stale"}]
           /\ keys' \in [Clients -> SUBSET Values]
           /\ read' \in [Clients -> SUBSET Item]
           /\ overlooked' \in [Clients -> BOOLEAN]
BY OutdatedType DEF TypeOK, Proceed, Goto

\* What a client that has its answers knows of the types.
LEMMA ViewType ==
    ASSUME TypeOK, NEW c \in Clients, NEW view \in Views(read[c])
    PROVE  /\ view \subseteq Item
           /\ Vals(read[c]) \subseteq Values
           /\ Values \ Vals(view) \subseteq Values
BY ViewsType, ValsType DEF TypeOK

LEMMA PutType ==
    ASSUME NEW S, S \subseteq Item, NEW T, T \subseteq Item
    PROVE  Put(S, T) \subseteq Item
BY DEF Put

LEMMA ReserveType ==
    ASSUME TypeOK, NEW c \in Clients, Reserve(c)
    PROVE  TypeOK'
<1>0. PICK view \in Views(read[c]) :
        \E f \in Allotments(Wanted(c, view), Values \ Vals(view)) : Claim(c, view, f)
  BY DEF Reserve
<1>1. PICK f \in Allotments(Wanted(c, view), Values \ Vals(view)) : Claim(c, view, f)
  BY <1>0
<1> DEFINE new == NewItems(Prefix[c], call[c].request, f)
           got == new \cup OldItems(view, Prefix[c], call[c].request)
<1>2. call[c].request \in Seq(Names \cup {NoName}) /\ Prefix[c] \in Prefixes
  BY ClientAssumption DEF TypeOK, Call
<1>3. new \subseteq Item /\ got \subseteq Item
  BY <1>2, ViewType, NewItemsType, OldItemsType DEF Wanted
<1>4. items' \in [Clients -> SUBSET Item]
  BY <1>1, <1>3, PutType, ViewType DEF TypeOK, Claim
<1>5. UNCHANGED <<store, lapsed>>
  BY DEF Reserve
<1>6. CASE Collide(c, NoItem, 0) /\ UNCHANGED held
  BY <1>4, <1>5, <1>6, CollideType DEF caller
<1>7. CASE /\ Publish(c, Vals(read[c]) \cup Vals(got))
           /\ Proceed(c, "store")
           /\ pend' = [pend EXCEPT ![c] = got]
           /\ held' = [held EXCEPT ![c] = @ \cup got]
           /\ clash' = (clash \/ overlooked[c] \/ view # read[c])
           /\ UNCHANGED <<todo, keyName>>
  <2>1. index' \in SUBSET Values
    BY <1>3, <1>7, ViewType, ValsType DEF Publish
  <2>2. "store" \in PCs
    BY DEF PCs
  <2>3. /\ pend' \in [Clients -> SUBSET Item]
        /\ held' \in [Clients -> SUBSET Item]
        /\ clash' \in BOOLEAN
    BY <1>3, <1>7 DEF TypeOK
  <2> QED
    BY <1>4, <1>5, <1>7, <2>1, <2>2, <2>3, ProceedType DEF TypeOK
<1> QED
  BY <1>1, <1>6, <1>7 DEF Claim

LEMMA ExhaustType ==
    ASSUME TypeOK, NEW c \in Clients, Exhaust(c)
    PROVE  TypeOK'
<1>1. call[c].request \in Seq(Names \cup {NoName}) /\ Prefix[c] \in Prefixes
  BY ClientAssumption DEF TypeOK, Call
<1>2. PICK view \in Views(read[c]) :
        \/ items' = [items EXCEPT ![c] = view]
        \/ \E f \in Allotments(Wanted(c, view), Values \ Vals(view)) :
             items' = [items EXCEPT ![c] =
                         Put(view, NewItems(Prefix[c], call[c].request, f))]
  BY DEF Exhaust
<1>3. ASSUME items' = [items EXCEPT ![c] = view]
      PROVE  items' \in [Clients -> SUBSET Item]
  BY <1>3, ViewType DEF TypeOK
<1>4. ASSUME NEW f \in Allotments(Wanted(c, view), Values \ Vals(view)),
             items' = [items EXCEPT ![c] =
                         Put(view, NewItems(Prefix[c], call[c].request, f))]
      PROVE  items' \in [Clients -> SUBSET Item]
  <2>1. NewItems(Prefix[c], call[c].request, f) \subseteq Item
    BY <1>1, ViewType, NewItemsType DEF Wanted
  <2> QED
    BY <1>4, <2>1, ViewType, PutType DEF TypeOK
<1>5. items' \in [Clients -> SUBSET Item]
  BY <1>2, <1>3, <1>4 DEF TypeOK
<1>6. Raise(c) /\ UNCHANGED <<server, caller, clash>>
  BY DEF Exhaust
<1> QED
  BY <1>5, <1>6, RaiseType, LeaveType DEF TypeOK, server, caller, PCs

LEMMA GiveBackType ==
    ASSUME TypeOK, NEW c \in Clients, NEW view \in Views(read[c]), NEW item \in Item,
           GiveBack(c, view, item), UNCHANGED <<store, caller>>
    PROVE  TypeOK'
<1> DEFINE freed == Frees(view, Prefix[c], item)
           name  == IF freed THEN item.value ELSE keyName[c]
<1>1. name \in Values \cup {0} /\ (IF freed THEN item ELSE NoItem) \in Item \cup {NoItem}
  BY DEF TypeOK, Item
<1>2. items' \in [Clients -> SUBSET Item]
  BY ViewType DEF TypeOK, GiveBack
<1>3. CASE Collide(c, IF freed THEN item ELSE NoItem, name)
  BY <1>1, <1>2, <1>3, CollideType
<1>4. CASE /\ Publish(c, Vals(read[c]) \ (IF freed THEN {item.value} ELSE {}))
           /\ clash' = (clash \/ overlooked[c] \/ view # read[c]
                              \/ (freed /\ item \notin view))
           /\ name = 0
           /\ Leave(c, "idle", Outdated)
  <2>1. index' \in SUBSET Values /\ clash' \in BOOLEAN /\ "idle" \in PCs
    BY <1>4, ViewType DEF Publish, TypeOK, PCs
  <2> QED
    BY <1>2, <1>4, <2>1, OutdatedType, LeaveType DEF TypeOK, caller
<1>5. CASE /\ Publish(c, Vals(read[c]) \ (IF freed THEN {item.value} ELSE {}))
           /\ clash' = (clash \/ overlooked[c] \/ view # read[c]
                              \/ (freed /\ item \notin view))
           /\ name # 0
           /\ Proceed(c, "delete")
           /\ todo' = [todo EXCEPT ![c] = {name}]
           /\ keyName' = [keyName EXCEPT ![c] = name]
           /\ UNCHANGED pend
  <2>1. index' \in SUBSET Values /\ clash' \in BOOLEAN /\ "delete" \in PCs
    BY <1>5, ViewType DEF Publish, TypeOK, PCs
  <2>2. todo' \in [Clients -> SUBSET Values] /\ keyName' \in [Clients -> Values \cup {0}]
    BY <1>1, <1>5 DEF TypeOK
  <2> QED
    BY <1>2, <1>5, <2>1, <2>2, ProceedType DEF TypeOK, caller
<1> QED
  BY <1>3, <1>4, <1>5 DEF GiveBack

LEMMA ReleaseType ==
    ASSUME TypeOK, NEW c \in Clients, Release(c)
    PROVE  TypeOK'
<1>1. PICK view \in Views(read[c]) :
        \/ /\ call[c].item # NoItem
           /\ GiveBack(c, view, call[c].item)
        \/ /\ call[c].item = NoItem
           /\ items' = [items EXCEPT ![c] = view]
           /\ Raise(c)
           /\ UNCHANGED <<index, clash>>
  BY DEF Release
<1>2. UNCHANGED <<store, caller>>
  BY DEF Release
<1>3. CASE call[c].item # NoItem /\ GiveBack(c, view, call[c].item)
  <2>1. call[c].item \in Item
    BY <1>3 DEF TypeOK, Call
  <2> QED
    BY <1>2, <1>3, <2>1, GiveBackType
<1>4. CASE /\ items' = [items EXCEPT ![c] = view]
           /\ Raise(c)
           /\ UNCHANGED <<index, clash>>
  <2>1. items' \in [Clients -> SUBSET Item]
    BY <1>4, ViewType DEF TypeOK
  <2> QED
    BY <1>2, <1>4, <2>1, RaiseType, LeaveType DEF TypeOK, caller, PCs
<1> QED
  BY <1>1, <1>3, <1>4

LEMMA ReleaseAllType ==
    ASSUME TypeOK, NEW c \in Clients, ReleaseAll(c)
    PROVE  TypeOK'
<1>1. PICK view \in Views(read[c]) : GiveBackAll(c, view, LocalItems(Prefix[c], view))
  BY DEF ReleaseAll
<1> DEFINE gone == LocalItems(Prefix[c], view)
<1>2. UNCHANGED <<store, caller>>
  BY DEF ReleaseAll
<1>3. gone \subseteq Item /\ Vals(gone) \subseteq Values
  BY ViewType, ValsType DEF LocalItems
<1>4. items' \in [Clients -> SUBSET Item]
  BY <1>1, ViewType DEF TypeOK, GiveBackAll
<1>5. CASE Collide(c, NoItem, 0)
  BY <1>2, <1>4, <1>5, CollideType
<1>6. CASE /\ Publish(c, Vals(read[c]) \ Vals(gone))
           /\ clash' = (clash \/ overlooked[c] \/ view # read[c])
           /\ Leave(c, "idle", Outdated)
  <2>1. index' \in SUBSET Values /\ clash' \in BOOLEAN /\ "idle" \in PCs
    BY <1>6, ViewType DEF Publish, TypeOK, PCs
  <2> QED
    BY <1>2, <1>4, <1>6, <2>1, OutdatedType, LeaveType DEF TypeOK, caller
<1>7. CASE /\ Publish(c, Vals(read[c]) \ Vals(gone))
           /\ clash' = (clash \/ overlooked[c] \/ view # read[c])
           /\ Proceed(c, "delete")
           /\ todo' = [todo EXCEPT ![c] = Vals(gone)]
           /\ UNCHANGED <<pend, keyName>>
  <2>1. index' \in SUBSET Values /\ clash' \in BOOLEAN /\ "delete" \in PCs
    BY <1>7, ViewType DEF Publish, TypeOK, PCs
  <2>2. todo' \in [Clients -> SUBSET Values]
    BY <1>3, <1>7 DEF TypeOK
  <2> QED
    BY <1>2, <1>4, <1>7, <2>1, <2>2, ProceedType DEF TypeOK, caller
<1> QED
  BY <1>1, <1>5, <1>6, <1>7 DEF GiveBackAll

LEMMA PublishLocalType ==
    ASSUME TypeOK, NEW c \in Clients, PublishLocal(c)
    PROVE  TypeOK'
<1> DEFINE ids == Vals(read[c]) \cup Vals(LocalItems(Prefix[c], items[c]))
<1>1. UNCHANGED <<store, items, caller>>
  BY DEF PublishLocal
<1>2. CASE Raise(c) /\ UNCHANGED <<index, clash>>
  BY <1>1, <1>2, RaiseType, LeaveType DEF TypeOK, caller, PCs
<1>3. CASE Collide(c, NoItem, 0)
  BY <1>1, <1>3, CollideType DEF TypeOK
<1>4. CASE /\ Publish(c, ids)
           /\ clash' = (clash \/ overlooked[c])
           /\ Proceed(c, "update")
           /\ todo' = [todo EXCEPT ![c] = keys[c]]
           /\ UNCHANGED <<pend, keyName>>
  <2>1. ids \subseteq Values
    BY ValsType DEF TypeOK, LocalItems
  <2>2. index' \in SUBSET Values /\ clash' \in BOOLEAN /\ "update" \in PCs
    BY <1>4, <2>1 DEF Publish, TypeOK, PCs
  <2>3. todo' \in [Clients -> SUBSET Values]
    BY <1>4 DEF TypeOK
  <2> QED
    BY <1>1, <1>4, <2>2, <2>3, ProceedType DEF TypeOK, caller
<1> QED
  BY <1>2, <1>3, <1>4 DEF PublishLocal

LEMMA AddLocalType ==
    ASSUME TypeOK, NEW c \in Clients, AddLocal(c)
    PROVE  TypeOK'
<1>1. PICK item \in pend[c] :
        /\ pend' = [pend EXCEPT ![c] = @ \ {item}]
        /\ store' = IF store[item.value] = NoItem
                      THEN [store EXCEPT ![item.value] = item] ELSE store
  BY DEF AddLocal
<1>2. item \in Item
  BY DEF TypeOK
<1>3. /\ pend' \in [Clients -> SUBSET Item]
      /\ store' \in [Values -> Item \cup {NoItem}]
  BY <1>1, <1>2 DEF TypeOK
<1> QED
  BY <1>3 DEF TypeOK, AddLocal, caller

LEMMA StoreItemType ==
    ASSUME TypeOK, NEW c \in Clients, StoreItem(c)
    PROVE  TypeOK'
<1>1. PICK item \in pend[c] :
        /\ \/ store' = store
           \/ store' = [store EXCEPT ![item.value] = item]
        /\ clash' \in BOOLEAN
        /\ \/ Return(c)
           \/ /\ pend' = [pend EXCEPT ![c] = @ \ {item}]
              /\ UNCHANGED <<pc, call, token, keys, todo, read, keyName, overlooked>>
  BY DEF StoreItem, TypeOK
<1>2. item \in Item
  BY DEF TypeOK
<1>3. store' \in [Values -> Item \cup {NoItem}]
  BY <1>1, <1>2 DEF TypeOK
<1>4. UNCHANGED <<index, items, held, lapsed>>
  BY DEF StoreItem, caller
<1>5. CASE Return(c)
  BY <1>1, <1>3, <1>4, <1>5, LeaveType DEF TypeOK, Return, PCs
<1>6. CASE /\ pend' = [pend EXCEPT ![c] = @ \ {item}]
           /\ UNCHANGED <<pc, call, token, keys, todo, read, keyName, overlooked>>
  BY <1>1, <1>3, <1>4, <1>6 DEF TypeOK
<1> QED
  BY <1>1, <1>5, <1>6

LEMMA DeleteType ==
    ASSUME TypeOK, NEW c \in Clients, Delete(c)
    PROVE  TypeOK'
<1>1. PICK k \in todo[c] :
        /\ store' = [store EXCEPT ![k] = NoItem]
        /\ clash' \in BOOLEAN
        /\ \/ Return(c)
           \/ /\ todo' = [todo EXCEPT ![c] = @ \ {k}]
              /\ UNCHANGED <<pc, call, token, keys, read, pend, keyName, overlooked>>
  BY DEF Delete, TypeOK
<1>2. store' \in [Values -> Item \cup {NoItem}]
  BY <1>1 DEF TypeOK
<1>3. UNCHANGED <<index, items, held, lapsed>>
  BY DEF Delete, caller
<1>4. CASE Return(c)
  BY <1>1, <1>2, <1>3, <1>4, LeaveType DEF TypeOK, Return, PCs
<1>5. CASE /\ todo' = [todo EXCEPT ![c] = @ \ {k}]
           /\ UNCHANGED <<pc, call, token, keys, read, pend, keyName, overlooked>>
  BY <1>1, <1>2, <1>3, <1>5 DEF TypeOK
<1> QED
  BY <1>1, <1>4, <1>5

LEMMA StepType ==
    ASSUME TypeOK, NEW c \in Clients, Step(c)
    PROVE  TypeOK'
<1>1. CASE StoreNothing(c)
  BY <1>1, LeaveType DEF StoreNothing, Return, TypeOK, server, caller, PCs
<1>2. CASE UpdateLocal(c)
  <2>1. items' \in [Clients -> SUBSET Item]
    BY <1>2, ViewType DEF UpdateLocal, TypeOK
  <2> QED
    BY <1>2, <2>1, LeaveType DEF UpdateLocal, Return, TypeOK, server, caller, PCs
<1>3. CASE ReadIndex(c)
  <2>1. CASE index = NoIndex
    BY <1>3, <2>1, RaiseType, LeaveType DEF ReadIndex, TypeOK, server, caller, PCs
  <2>2. CASE index # NoIndex
    BY <1>3, <2>2 DEF ReadIndex, Goto, TypeOK, server, caller, PCs
  <2> QED
    BY <2>1, <2>2
<1>4. CASE DeleteIndex(c)
  BY <1>4, OutdatedType, LeaveType DEF DeleteIndex, TypeOK, caller, PCs
<1> QED
  BY <1>1, <1>2, <1>3, <1>4, ReadingType, ReserveType, ExhaustType, ReleaseType,
     ReleaseAllType, PublishLocalType, AddLocalType, StoreItemType, DeleteType
  DEF Step

LEMMA FailureType ==
    ASSUME TypeOK, (\E c \in Clients : Crash(c)) \/ (\E k \in Values : Expire(k))
    PROVE  TypeOK'
<1>1. ASSUME NEW c \in Clients, Crash(c)
      PROVE  TypeOK'
  BY <1>1, LeaveType DEF Crash, TypeOK, server, PCs
<1>2. ASSUME NEW k \in Values, Expire(k)
      PROVE  TypeOK'
  BY <1>2 DEF Expire, TypeOK, locals
<1> QED
  BY <1>1, <1>2

\* Every variable keeps its type: no command stores under a key that is not
\* the pool's, leaves an operation half left, or loses a client's state.
THEOREM TypeCorrect == Spec => []TypeOK
<1>1. TypeOK /\ [Next]_vars => TypeOK'
  <2>1. TypeOK /\ UNCHANGED vars => TypeOK'
    BY DEF TypeOK, vars, server, locals, caller
  <2> QED
    BY <2>1, BeginType, StepType, FailureType DEF Next
<1> QED
  BY <1>1, InitType, PTL DEF Spec

-----------------------------------------------------------------------------
(* Reservations *)

\* What holds whether or not there has been a clash.
Local == TypeOK /\ KeyOfItem /\ CurrentToken /\ ReadOnce /\ CallerOwns

Shared == Exclusive /\ Backed /\ Informed

\* A caller begins an operation, and gives up what the operation gives back.
LEMMA StartKeeps ==
    ASSUME Local, TypeOK', NEW c \in Clients, pc[c] \in {"new", "idle"}, NEW op,
           NEW request, NEW item, NEW label \in {"add_index", "gets", "flush"},
           Start(c, op, request, item, label),
           held'[c] \subseteq held[c], lapsed'[c] \subseteq lapsed[c],
           \A d \in Clients \ {c} : held'[d] = held[d] /\ lapsed'[d] = lapsed[d],
           item # NoItem => /\ op = "free"
                            /\ item \in held[c] \cup lapsed[c]
                            /\ item \notin held'[c],
           op = "free_all" => held'[c] = {}
    PROVE  Local' /\ (Shared => Shared')
<1>1. /\ pc' = [pc EXCEPT ![c] = label]
      /\ call' = [call EXCEPT ![c] = [op |-> op, request |-> request, item |-> item]]
      /\ UNCHANGED <<index, store, items, token, keys, todo, read, pend, keyName,
                     overlooked, clash>>
  BY DEF Start, Goto, server
<1>2. KeyOfItem' /\ CurrentToken' /\ ReadOnce'
  BY <1>1 DEF Local, TypeOK, KeyOfItem, CurrentToken, ReadOnce
<1>3. /\ call'[c].op = op
      /\ call'[c].item = item
      /\ \A d \in Clients : d # c => call'[d] = call[d] /\ pc'[d] = pc[d]
      /\ pc'[c] # "store"
  BY <1>1 DEF Local, TypeOK
<1>4. ASSUME NEW d \in Clients PROVE Owns(d)'
  <2>1. \A i \in held[d] \cup lapsed[d] : i.prefix = Prefix[d]
    BY DEF Local, CallerOwns, Owns
  <2>2. CASE d = c
    BY <1>3, <2>1, <2>2 DEF Owns
  <2>3. CASE d # c
    BY <1>1, <1>3, <2>1, <2>3 DEF Local, CallerOwns, Owns
  <2> QED
    BY <2>2, <2>3
<1>5. ASSUME Shared PROVE Shared'
  <2>1. Exclusive' /\ Informed'
    BY <1>1, <1>5 DEF Shared, Exclusive, Informed
  <2>2. Backed'
    BY <1>1, <1>3, <1>5 DEF Shared, Backed
  <2> QED
    BY <2>1, <2>2 DEF Shared
<1> QED
  BY <1>2, <1>4, <1>5 DEF Local, CallerOwns

LEMMA BeginKeeps ==
    ASSUME Local, NEW c \in Clients, Begin(c)
    PROVE  Local' /\ (Shared => Shared')
<1>1. TypeOK'
  BY BeginType DEF Local
<1>2. CASE BeginFree(c)
  <2>1. PICK item \in held[c] \cup lapsed[c] :
            /\ Start(c, "free", <<>>, item, "gets")
            /\ held' = [held EXCEPT ![c] = @ \ {item}]
            /\ lapsed' = [lapsed EXCEPT ![c] = @ \ {item}]
    BY <1>2 DEF BeginFree
  <2> QED
    BY <1>1, <1>2, <2>1, StartKeeps DEF BeginFree, Idle, Local, TypeOK
<1>3. CASE BeginFreeAll(c)
  BY <1>1, <1>3, StartKeeps DEF BeginFreeAll, Idle, Local, TypeOK
<1>4. CASE Construct(c)
  BY <1>1, <1>4, StartKeeps DEF Construct, caller
<1>5. CASE BeginGet(c) \/ BeginGetMulti(c)
  BY <1>1, <1>5, StartKeeps DEF BeginGet, BeginGetMulti, Idle, caller
<1>6. CASE BeginSync(c) \/ BeginFlush(c)
  BY <1>1, <1>6, StartKeeps DEF BeginSync, BeginFlush, Idle, caller
<1> QED
  BY <1>2, <1>3, <1>4, <1>5, <1>6 DEF Begin

\* All that a step of one client does to another is to outdate its token.
Alone(c) ==
    \A d \in Clients \ {c} :
        /\ <<pc[d], call[d], keys[d], todo[d], read[d], pend[d], overlooked[d],
             held[d], lapsed[d]>>'
           = <<pc[d], call[d], keys[d], todo[d], read[d], pend[d], overlooked[d],
               held[d], lapsed[d]>>
        /\ token'[d] = "current" => token[d] = "current" /\ index' = index

\* A step after which the client has read nothing.
LEMMA SettledKeeps ==
    ASSUME Local, TypeOK', KeyOfItem', NEW c \in Clients, Alone(c),
           token'[c] # "current", read'[c] = {}, Owns(c)'
    PROVE  /\ Local'
           /\ Shared /\ held'[c] \subseteq held[c] /\ Backed' => Shared'
<1>1. CurrentToken' /\ ReadOnce'
  BY DEF Local, CurrentToken, ReadOnce, Alone
<1>2. CallerOwns'
  <2> SUFFICES ASSUME NEW d \in Clients, d # c PROVE Owns(d)'
    BY DEF CallerOwns
  <2> QED
    BY DEF Local, CallerOwns, Owns, Alone
<1>3. ASSUME Shared, held'[c] \subseteq held[c], Backed'
      PROVE  Shared'
  <2>1. \A d \in Clients : held'[d] \subseteq held[d]
    BY <1>3 DEF Alone
  <2>2. Exclusive'
    BY <1>3, <2>1 DEF Shared, Exclusive
  <2>3. Informed'
    BY <1>3, <2>1 DEF Shared, Informed, Alone
  <2> QED
    BY <1>3, <2>2, <2>3 DEF Shared
<1> QED
  BY <1>1, <1>2, <1>3 DEF Local

\* The client has left its operation.
LEMMA LeaveSettles ==
    ASSUME Local, NEW c \in Clients, NEW label \in {"idle", "new"},
           NEW tokens \in {token, Outdated}, Leave(c, label, tokens),
           index' = index \/ tokens = Outdated,
           held'[c] \subseteq held[c], lapsed'[c] \subseteq lapsed[c],
           \A d \in Clients \ {c} : held'[d] = held[d] /\ lapsed'[d] = lapsed[d]
    PROVE  /\ Alone(c) /\ token'[c] # "current" /\ read'[c] = {} /\ Owns(c)'
           /\ pc'[c] = label
<1>1. /\ pc'[c] = label /\ token'[c] = "none" /\ call'[c] = NoCall
      /\ read'[c] = {} /\ pend'[c] = {}
  BY OutdatedType DEF Local, TypeOK, Leave, Goto
<1>2. ASSUME NEW d \in Clients \ {c}
      PROVE  /\ pc'[d] = pc[d] /\ call'[d] = call[d] /\ keys'[d] = keys[d]
             /\ todo'[d] = todo[d] /\ read'[d] = read[d] /\ pend'[d] = pend[d]
             /\ overlooked'[d] = overlooked[d]
             /\ token'[d] = tokens[d]
  BY OutdatedType DEF Local, TypeOK, Leave, Goto
<1>3. \A d \in Clients : Outdated[d] # "current"
  BY DEF Outdated, Local, TypeOK
<1>4. Alone(c)
  BY <1>2, <1>3 DEF Alone
<1>5. NoCall.item = NoItem /\ NoCall.op # "free_all"
  BY ClientAssumption DEF NoCall, Operations
<1>6. Owns(c)'
  BY <1>1, <1>5 DEF Owns, Local, CallerOwns
<1> QED
  BY <1>1, <1>4, <1>6

LEMMA CollideKeeps ==
    ASSUME Local, TypeOK', NEW c \in Clients, pc[c] = "get_multi",
           NEW item \in {NoItem, call[c].item}, NEW name, Collide(c, item, name),
           UNCHANGED <<store, held, lapsed>>
    PROVE  Local' /\ (Shared => Shared')
<1>1. KeyOfItem' /\ UNCHANGED index
  BY DEF Local, KeyOfItem, Collide
<1>2. /\ Alone(c) /\ token'[c] # "current" /\ read'[c] = {} /\ Owns(c)'
      /\ pc'[c] # "store"
  <2>1. CASE index = NoIndex
    <3>1. PICK label \in {"idle", "new"} : Leave(c, label, token)
      BY <2>1 DEF Collide, Raise
    <3> QED
      BY <1>1, <3>1, LeaveSettles
  <2>2. CASE index # NoIndex
    <3>1. /\ pc' = [pc EXCEPT ![c] = LoopStart(c)]
          /\ token' = [token EXCEPT ![c] = "none"]
          /\ keys' = [keys EXCEPT ![c] = {}]
          /\ read' = [read EXCEPT ![c] = {}]
          /\ overlooked' = [overlooked EXCEPT ![c] = FALSE]
          /\ call' = [call EXCEPT ![c] =
                        [op |-> call[c].op, request |-> call[c].request, item |-> item]]
          /\ UNCHANGED <<todo, pend>>
      BY <2>2 DEF Collide, Local, TypeOK, Goto
    <3>2. Alone(c)
      BY <1>1, <3>1 DEF Alone, Local, TypeOK
    <3>3. /\ pc'[c] \in {"gets", "add_index"} /\ token'[c] = "none" /\ read'[c] = {}
          /\ call'[c].op = call[c].op /\ call'[c].item = item
      BY <3>1 DEF Local, TypeOK, LoopStart
    <3>4. Owns(c)'
      BY <3>3 DEF Owns, Local, CallerOwns
    <3> QED
      BY <3>2, <3>3, <3>4
  <2> QED
    BY <2>1, <2>2
<1>3. ASSUME Shared PROVE Backed'
  BY <1>1, <1>2, <1>3 DEF Shared, Backed, Alone
<1> QED
  BY <1>1, <1>2, <1>3, SettledKeeps

LEMMA ProceedSettles ==
    ASSUME Local, NEW c \in Clients, NEW label, Proceed(c, label),
           \A d \in Clients \ {c} : /\ todo'[d] = todo[d] /\ pend'[d] = pend[d]
                                    /\ held'[d] = held[d] /\ lapsed'[d] = lapsed[d]
    PROVE  /\ Alone(c) /\ read'[c] = {} /\ pc'[c] = label /\ call' = call
           /\ \A d \in Clients : token'[d] # "current"
<1>1. \A d \in Clients : Outdated[d] # "current"
  BY DEF Outdated, Local, TypeOK
<1>2. \A d \in Clients : token'[d] # "current"
  BY <1>1, OutdatedType DEF Proceed, Local, TypeOK
<1>3. /\ read'[c] = {} /\ pc'[c] = label /\ call' = call
      /\ \A d \in Clients \ {c} : /\ pc'[d] = pc[d] /\ keys'[d] = keys[d]
                                  /\ read'[d] = read[d]
                                  /\ overlooked'[d] = overlooked[d]
  BY DEF Proceed, Goto, Local, TypeOK
<1> QED
  BY <1>2, <1>3 DEF Alone

\* Reading: what a client learns is true, and stays true while its token lasts.
LEMMA AddIndexKeeps ==
    ASSUME Local, TypeOK', NEW c \in Clients, AddIndex(c)
    PROVE  Local' /\ (Shared => Shared')
<1>1. KeyOfItem'
  BY DEF AddIndex, Local, KeyOfItem
<1>2. /\ pc' = [pc EXCEPT ![c] = "gets"]
      /\ UNCHANGED <<store, call, keys, todo, read, pend, overlooked, held, lapsed>>
      /\ \/ index' = index /\ token' = token
         \/ index = NoIndex /\ \A d \in Clients : token'[d] # "current"
  BY DEF AddIndex, Goto, caller, Outdated, Local, TypeOK
<1>3. Alone(c) /\ token'[c] # "current" /\ read'[c] = {} /\ pc'[c] = "gets"
  <2>1. pc[c] = "add_index"
    BY DEF AddIndex
  <2> QED
    BY <1>2, <2>1 DEF Alone, Local, TypeOK, CurrentToken, ReadOnce
<1>4. Owns(c)'
  BY <1>2, <1>3 DEF Owns, Local, CallerOwns
<1>5. ASSUME Shared PROVE Backed'
  <2>1. pc[c] # "store"
    BY DEF AddIndex
  <2> QED
    BY <1>2, <1>3, <1>5, <2>1 DEF Shared, Backed, Alone
<1> QED
  BY <1>1, <1>2, <1>3, <1>4, <1>5, SettledKeeps

LEMMA GetsKeeps ==
    ASSUME Local, TypeOK', NEW c \in Clients, Gets(c)
    PROVE  Local' /\ (Shared => Shared')
<1>1. KeyOfItem' /\ UNCHANGED <<index, store, held, lapsed>> /\ pc[c] = "gets"
  BY DEF Gets, Local, KeyOfItem, server, caller
<1>2. CASE Raise(c)
  <2>1. PICK label \in {"idle", "new"} : Leave(c, label, token)
    BY <1>2 DEF Raise
  <2>2. /\ Alone(c) /\ token'[c] # "current" /\ read'[c] = {} /\ Owns(c)'
        /\ pc'[c] # "store"
    BY <1>1, <2>1, LeaveSettles
  <2>3. ASSUME Shared PROVE Backed'
    BY <1>1, <2>2, <2>3 DEF Shared, Backed, Alone
  <2> QED
    BY <1>1, <2>2, <2>3, SettledKeeps
<1>3. CASE ~Raise(c)
  <2>1. /\ pc' = [pc EXCEPT ![c] = "get_multi"]
        /\ read' = [read EXCEPT ![c] = {}]
        /\ UNCHANGED call
        /\ index # NoIndex => /\ keys' = [keys EXCEPT ![c] = index]
                              /\ todo' = [todo EXCEPT ![c] = index]
                              /\ token' = [token EXCEPT ![c] = "current"]
        /\ index = NoIndex => /\ keys' = [keys EXCEPT ![c] = {}]
                              /\ todo' = [todo EXCEPT ![c] = {}]
                              /\ token' = [token EXCEPT ![c] = "none"]
    BY <1>3 DEF Gets, Goto
  <2>2. \A d \in Clients \ {c} :
            /\ pc'[d] = pc[d] /\ keys'[d] = keys[d] /\ todo'[d] = todo[d]
            /\ token'[d] = token[d] /\ read'[d] = read[d] /\ pend'[d] = pend[d]
            /\ overlooked'[d] = overlooked[d]
    BY <1>3, <2>1 DEF Gets, Local, TypeOK
  <2>3. /\ pc'[c] = "get_multi" /\ read'[c] = {}
        /\ token'[c] = "current" => index # NoIndex /\ keys'[c] = index /\ todo'[c] = index
    BY <2>1 DEF Local, TypeOK
  <2>4. CurrentToken' /\ ReadOnce'
    BY <1>1, <2>2, <2>3 DEF Local, CurrentToken, ReadOnce
  <2>5. CallerOwns'
    BY <1>1, <2>1, <2>2, <2>3 DEF Local, CallerOwns, Owns
  <2>6. ASSUME Shared PROVE Shared'
    <3>1. Exclusive' /\ Backed'
      BY <1>1, <2>2, <2>3, <2>6 DEF Shared, Exclusive, Backed
    <3>2. Informed'
      BY <1>1, <2>2, <2>3, <2>6 DEF Shared, Informed, Backed
    <3> QED
      BY <3>1, <3>2 DEF Shared
  <2> QED
    BY <1>1, <2>4, <2>5, <2>6 DEF Local
<1> QED
  BY <1>2, <1>3

LEMMA FetchKeeps ==
    ASSUME Local, TypeOK', NEW c \in Clients, Fetch(c)
    PROVE  Local' /\ (Shared => Shared')
<1>1. /\ KeyOfItem' /\ CurrentToken'
      /\ UNCHANGED <<index, store, pc, call, token, pend, held, lapsed>>
      /\ pc[c] \in {"get_multi", "update"}
  BY DEF Fetch, Local, KeyOfItem, CurrentToken, server, caller
<1>2. PICK k \in todo[c] :
        /\ todo' = [todo EXCEPT ![c] = @ \ {k}]
        /\ read' = [read EXCEPT ![c] = @ \cup ({store[k]} \ {NoItem})]
        /\ overlooked' = [overlooked EXCEPT ![c] = @ \/ Awaited(k)]
  BY DEF Fetch
<1>3. /\ todo'[c] = todo[c] \ {k}
      /\ read'[c] = read[c] \cup ({store[k]} \ {NoItem})
      /\ overlooked'[c] = (overlooked[c] \/ Awaited(k))
      /\ \A d \in Clients \ {c} : /\ todo'[d] = todo[d] /\ read'[d] = read[d]
                                  /\ overlooked'[d] = overlooked[d]
  BY <1>2 DEF Local, TypeOK
<1>4. store[k] # NoItem => store[k].value = k
  BY DEF Local, TypeOK, KeyOfItem
<1>5. ReadOnce'
  <2> SUFFICES ASSUME NEW d \in Clients, NEW i \in read'[d], NEW j \in read'[d]
               PROVE  /\ pc'[d] \in {"get_multi", "update"}
                      /\ i.value \notin todo'[d]
                      /\ i.value = j.value => i = j
    BY DEF ReadOnce
  <2>1. CASE d = c
    BY <1>1, <1>3, <1>4, <2>1 DEF Local, ReadOnce
  <2>2. CASE d # c
    BY <1>1, <1>3, <2>2 DEF Local, ReadOnce
  <2> QED
    BY <2>1, <2>2
<1>6. CallerOwns'
  BY <1>1 DEF Local, CallerOwns, Owns
<1>7. ASSUME Shared PROVE Shared'
  <2>1. Exclusive' /\ Backed'
    BY <1>1, <1>7 DEF Shared, Exclusive, Backed
  <2>2. ASSUME NEW e \in Clients, token[e] = "current", ~overlooked'[e],
               NEW d \in Clients, NEW i \in held[d]
        PROVE  i \in read'[e] \/ i.value \in todo'[e]
    <3>1. CASE e # c
      BY <1>3, <1>7, <2>2, <3>1 DEF Shared, Informed
    <3>2. CASE e = c /\ i.value = k
      <4>1. store[k] = i
        BY <1>3, <1>7, <2>2, <3>2 DEF Shared, Backed, Awaited
      <4>2. i # NoItem
        BY PoolAssumption DEF Local, TypeOK, Item, Values
      <4> QED
        BY <1>3, <3>2, <4>1, <4>2
    <3>3. CASE e = c /\ i.value # k
      <4>1. ~overlooked[c]
        BY <1>3, <2>2, <3>3
      <4> QED
        BY <1>3, <1>7, <2>2, <3>3, <4>1 DEF Shared, Informed
    <3> QED
      BY <3>1, <3>2, <3>3
  <2>3. Informed'
    BY <1>1, <2>2 DEF Informed
  <2> QED
    BY <2>1, <2>3 DEF Shared
<1> QED
  BY <1>1, <1>5, <1>6, <1>7 DEF Local

\* An operation ends with the index, the items and the callers as they were.
LEMMA QuitKeeps ==
    ASSUME Local, TypeOK', NEW c \in Clients, Raise(c) \/ Return(c), pc[c] # "store",
           UNCHANGED <<index, store, held, lapsed>>
    PROVE  Local' /\ (Shared => Shared')
<1>1. PICK label \in {"idle", "new"} : Leave(c, label, token)
  BY DEF Raise, Return
<1>2. /\ Alone(c) /\ token'[c] # "current" /\ read'[c] = {} /\ Owns(c)'
  BY <1>1, LeaveSettles
<1>3. KeyOfItem'
  BY DEF Local, KeyOfItem
<1>4. ASSUME Shared PROVE Backed'
  BY <1>2, <1>4 DEF Shared, Backed, Alone
<1> QED
  BY <1>2, <1>3, <1>4, SettledKeeps

\* A reservation another client has read is not taken, nor given, twice.
LEMMA ReserveKeeps ==
    ASSUME Local, TypeOK', NEW c \in Clients, Reserve(c), OwnMachines
    PROVE  Local' /\ (Shared /\ ~clash' => Shared')
<1>0. PICK view \in Views(read[c]) :
        \E f \in Allotments(Wanted(c, view), Values \ Vals(view)) : Claim(c, view, f)
  BY DEF Reserve
<1>1. PICK f \in Allotments(Wanted(c, view), Values \ Vals(view)) : Claim(c, view, f)
  BY <1>0
<1> DEFINE request == call[c].request
           new == NewItems(Prefix[c], request, f)
           old == OldItems(view, Prefix[c], request)
           got == new \cup old
<1>2. /\ UNCHANGED <<store, lapsed>>
      /\ pc[c] = "get_multi" /\ todo[c] = {}
      /\ call[c].op \in {"get", "get_multi"}
  BY DEF Reserve, Chooses, Answered
<1>3. CASE Collide(c, NoItem, 0) /\ UNCHANGED held
  BY <1>2, <1>3, CollideKeeps
<1>4. CASE /\ Publish(c, Vals(read[c]) \cup Vals(got))
           /\ Proceed(c, "store")
           /\ pend' = [pend EXCEPT ![c] = got]
           /\ held' = [held EXCEPT ![c] = @ \cup got]
           /\ clash' = (clash \/ overlooked[c] \/ view # read[c])
           /\ UNCHANGED <<todo, keyName>>
  <2>1. /\ pend'[c] = got /\ held'[c] = held[c] \cup got
        /\ \A d \in Clients \ {c} : /\ todo'[d] = todo[d] /\ pend'[d] = pend[d]
                                    /\ held'[d] = held[d] /\ lapsed'[d] = lapsed[d]
    BY <1>2, <1>4 DEF Local, TypeOK
  <2>2. /\ Alone(c) /\ read'[c] = {} /\ pc'[c] = "store" /\ call' = call
        /\ \A d \in Clients : token'[d] # "current"
    BY <1>4, <2>1, ProceedSettles
  <2>3. view \subseteq read[c] /\ old \subseteq view
    BY OldItemsType DEF Views
  <2>4. \A i \in got : i.prefix = Prefix[c]
    BY DEF NewItems, Fresh, OldItems, Saved, Id
  <2>5. Owns(c)'
    <3>1. call[c].item = NoItem
      BY <1>2 DEF Local, CallerOwns, Owns
    <3> QED
      BY <1>2, <2>1, <2>2, <2>4, <3>1 DEF Local, CallerOwns, Owns
  <2>6. KeyOfItem'
    BY <1>2 DEF Local, KeyOfItem
  <2>7. Local'
    BY <2>2, <2>5, <2>6, SettledKeeps
  <2>8. ASSUME Shared, ~clash' PROVE Shared'
    <3>1. ~overlooked[c] /\ view = read[c] /\ token[c] = "current"
      BY <1>4, <2>8 DEF Publish
    <3>2. \A d \in Clients : \A j \in held[d] : j \in view
      BY <1>2, <2>8, <3>1 DEF Shared, Informed
    <3>3. \A i \in new : i.value \notin Vals(view)
      BY DEF NewItems, Fresh, Allotments
    <3>4. \A i, j \in new : i.value = j.value => i = j
      <4>1. DOMAIN f \subseteq DOMAIN request
        BY DEF Allotments, Missing, Wanted
      <4>2. request \in Seq(Names \cup {NoName})
        BY DEF Local, TypeOK, Call
      <4>3. \A m, n \in DOMAIN f : m \in Int /\ n \in Int /\ f[m] \in Int /\ f[n] \in Int
        BY <4>1, <4>2, PoolAssumption DEF Allotments, Values
      <4>4. \A m, n \in DOMAIN f : m < n => f[m] < f[n]
        BY DEF Allotments
      <4>5. \A m, n \in DOMAIN f : f[m] = f[n] => m = n
        BY <4>3, <4>4
      <4> QED
        BY <4>5 DEF NewItems, Fresh
    <3>5. \A i \in view : i.value \in Vals(view)
      BY DEF Vals
    <3>6. \A i, j \in view : i.value = j.value => i = j
      BY <3>1 DEF Local, ReadOnce
    <3>7. \A i, j \in view \cup new : i.value = j.value => i = j
      BY <3>3, <3>4, <3>5, <3>6
    <3>8. \A d \in Clients : \A j \in held'[d] : j \in view \cup new /\ j.prefix = Prefix[d]
      <4>1. \A d \in Clients : \A j \in held[d] : j.prefix = Prefix[d]
        BY DEF Local, CallerOwns, Owns
      <4> QED
        BY <2>1, <2>3, <2>4, <3>2, <4>1
    <3>9. Exclusive'
      BY <3>7, <3>8 DEF Exclusive, OwnMachines
    <3>10. index' = Vals(view) \cup Vals(got) /\ index' # NoIndex
      <4>1. index' = Vals(view) \cup Vals(got)
        BY <1>4, <3>1 DEF Publish
      <4>2. \A i \in got : i \in Item
        <5>1. held'[c] \subseteq Item
          BY DEF TypeOK
        <5> QED
          BY <2>1, <5>1
      <4>3. index' \subseteq Values
        BY <4>1, <4>2, <3>1, ViewType, ValsType DEF Local
      <4> QED
        BY <4>1, <4>3, ClientAssumption
    <3>11. Backed'
      <4> SUFFICES ASSUME NEW d \in Clients, NEW i \in held'[d]
                   PROVE  /\ i.value \in index'
                          /\ \/ store'[i.value] = i
                             \/ pc'[d] = "store" /\ i \in pend'[d]
        BY <3>10 DEF Backed
      <4>1. CASE i \in held[d]
        <5>1. i.value \in index'
          BY <3>2, <3>5, <3>10, <4>1
        <5>2. store[i.value] = i \/ (pc[d] = "store" /\ i \in pend[d])
          BY <2>8, <4>1 DEF Shared, Backed
        <5>3. pc[d] = "store" => d # c
          BY <1>2
        <5> QED
          BY <1>2, <2>1, <2>2, <5>1, <5>2, <5>3 DEF Alone
      <4>2. CASE i \notin held[d]
        <5>1. d = c /\ i \in got
          BY <2>1, <4>2
        <5> QED
          BY <2>1, <2>2, <3>10, <5>1 DEF Vals
      <4> QED
        BY <4>1, <4>2
    <3>12. Informed'
      BY <2>2 DEF Informed
    <3> QED
      BY <3>9, <3>11, <3>12 DEF Shared
  <2> QED
    BY <2>7, <2>8
<1> QED
  BY <1>1, <1>3, <1>4 DEF Claim

LEMMA ReleaseKeeps ==
    ASSUME Local, TypeOK', NEW c \in Clients, Release(c), OwnMachines
    PROVE  Local' /\ (Shared /\ ~clash' => Shared')
<1>1. PICK view \in Views(read[c]) :
        \/ /\ call[c].item # NoItem
           /\ GiveBack(c, view, call[c].item)
        \/ Raise(c) /\ UNCHANGED <<index, clash>>
  BY DEF Release
<1>2. UNCHANGED <<store, held, lapsed>> /\ pc[c] = "get_multi" /\ todo[c] = {}
  BY DEF Release, Answered, caller
<1>3. CASE Raise(c) /\ UNCHANGED <<index, clash>>
  BY <1>2, <1>3, QuitKeeps
<1> DEFINE item  == call[c].item
           freed == Frees(view, Prefix[c], item)
           name  == IF freed THEN item.value ELSE keyName[c]
           gone  == IF freed THEN {item.value} ELSE {}
<1>4. CASE item # NoItem /\ Collide(c, IF freed THEN item ELSE NoItem, name)
  BY <1>2, <1>4, CollideKeeps
<1>5. CASE /\ item # NoItem
           /\ Publish(c, Vals(read[c]) \ gone)
           /\ clash' = (clash \/ overlooked[c] \/ view # read[c]
                              \/ (freed /\ item \notin view))
           /\ \/ Leave(c, "idle", Outdated)
              \/ /\ Proceed(c, "delete")
                 /\ todo' = [todo EXCEPT ![c] = {name}]
                 /\ UNCHANGED pend
  <2>1. /\ Alone(c) /\ token'[c] # "current" /\ read'[c] = {} /\ Owns(c)'
        /\ pc'[c] # "store"
    <3>1. CASE Leave(c, "idle", Outdated)
      BY <1>2, <3>1, LeaveSettles
    <3>2. CASE /\ Proceed(c, "delete")
               /\ todo' = [todo EXCEPT ![c] = {name}]
               /\ UNCHANGED pend
      <4>1. \A d \in Clients \ {c} : /\ todo'[d] = todo[d] /\ pend'[d] = pend[d]
                                     /\ held'[d] = held[d] /\ lapsed'[d] = lapsed[d]
        BY <1>2, <3>2 DEF Local, TypeOK
      <4>2. /\ Alone(c) /\ read'[c] = {} /\ pc'[c] = "delete" /\ call' = call
            /\ token'[c] # "current"
        BY <3>2, <4>1, ProceedSettles
      <4>3. Owns(c)'
        BY <1>2, <4>2 DEF Local, CallerOwns, Owns
      <4> QED
        BY <4>2, <4>3
    <3> QED
      BY <1>5, <3>1, <3>2
  <2>2. KeyOfItem'
    BY <1>2 DEF Local, KeyOfItem
  <2>3. ASSUME Shared, ~clash' PROVE Backed'
    <3>1. ~overlooked[c] /\ view = read[c] /\ token[c] = "current" /\ (freed => item \in view)
      BY <1>5, <2>3 DEF Publish
    <3>2. /\ item.prefix = Prefix[c] /\ item \notin held[c]
          /\ \A d \in Clients : \A i \in held[d] : i.prefix = Prefix[d]
      BY <1>5 DEF Local, CallerOwns, Owns
    <3>3. \A d \in Clients : \A i \in held[d] : i \in view
      BY <1>2, <2>3, <3>1 DEF Shared, Informed
    <3>4. \A i, j \in view : i.value = j.value => i = j
      BY <3>1 DEF Local, ReadOnce
    <3>5. \A d \in Clients : \A i \in held[d] : i.value \notin gone
      BY <3>1, <3>2, <3>3, <3>4 DEF OwnMachines
    <3>6. index' = Vals(view) \ gone /\ index' # NoIndex
      <4>1. index' = Vals(view) \ gone
        BY <1>5, <3>1 DEF Publish
      <4>2. index' \subseteq Values
        BY <4>1, <3>1, ViewType DEF Local
      <4> QED
        BY <4>1, <4>2, ClientAssumption
    <3> QED
      BY <1>2, <2>1, <2>3, <3>3, <3>5, <3>6 DEF Shared, Backed, Alone, Vals
  <2> QED
    BY <1>2, <2>1, <2>2, <2>3, SettledKeeps
<1> QED
  BY <1>1, <1>3, <1>4, <1>5 DEF GiveBack

LEMMA ReleaseAllKeeps ==
    ASSUME Local, TypeOK', NEW c \in Clients, ReleaseAll(c), OwnMachines
    PROVE  Local' /\ (Shared /\ ~clash' => Shared')
<1>1. PICK view \in Views(read[c]) : GiveBackAll(c, view, LocalItems(Prefix[c], view))
  BY DEF ReleaseAll
<1>2. /\ UNCHANGED <<store, held, lapsed>> /\ pc[c] = "get_multi" /\ todo[c] = {}
      /\ call[c].op = "free_all"
  BY DEF ReleaseAll, Answered, caller
<1> DEFINE gone == LocalItems(Prefix[c], view)
<1>3. CASE Collide(c, NoItem, 0)
  BY <1>2, <1>3, CollideKeeps
<1>4. CASE /\ Publish(c, Vals(read[c]) \ Vals(gone))
           /\ clash' = (clash \/ overlooked[c] \/ view # read[c])
           /\ \/ Leave(c, "idle", Outdated)
              \/ /\ Proceed(c, "delete")
                 /\ todo' = [todo EXCEPT ![c] = Vals(gone)]
                 /\ UNCHANGED pend
  <2>1. /\ Alone(c) /\ token'[c] # "current" /\ read'[c] = {} /\ Owns(c)'
        /\ pc'[c] # "store"
    <3>1. CASE Leave(c, "idle", Outdated)
      BY <1>2, <3>1, LeaveSettles
    <3>2. CASE /\ Proceed(c, "delete")
               /\ todo' = [todo EXCEPT ![c] = Vals(gone)]
               /\ UNCHANGED pend
      <4>1. \A d \in Clients \ {c} : /\ todo'[d] = todo[d] /\ pend'[d] = pend[d]
                                     /\ held'[d] = held[d] /\ lapsed'[d] = lapsed[d]
        BY <1>2, <3>2 DEF Local, TypeOK
      <4>2. /\ Alone(c) /\ read'[c] = {} /\ pc'[c] = "delete" /\ call' = call
            /\ token'[c] # "current"
        BY <3>2, <4>1, ProceedSettles
      <4>3. Owns(c)'
        BY <1>2, <4>2 DEF Local, CallerOwns, Owns
      <4> QED
        BY <4>2, <4>3
    <3> QED
      BY <1>4, <3>1, <3>2
  <2>2. KeyOfItem'
    BY <1>2 DEF Local, KeyOfItem
  <2>3. ASSUME Shared, ~clash' PROVE Backed'
    <3>1. ~overlooked[c] /\ view = read[c] /\ token[c] = "current"
      BY <1>4, <2>3 DEF Publish
    <3>2. /\ held[c] = {}
          /\ \A d \in Clients : \A i \in held[d] : i.prefix = Prefix[d]
      BY <1>2 DEF Local, CallerOwns, Owns
    <3>3. \A d \in Clients : \A i \in held[d] : i \in view
      BY <1>2, <2>3, <3>1 DEF Shared, Informed
    <3>4. \A i, j \in view : i.value = j.value => i = j
      BY <3>1 DEF Local, ReadOnce
    <3>5. gone \subseteq view /\ \A i \in gone : i.prefix = Prefix[c]
      BY DEF LocalItems, Covers, OwnMachines
    <3>6. \A d \in Clients : \A i \in held[d] : i \notin gone
      BY <3>2, <3>5 DEF OwnMachines
    <3>7. \A d \in Clients : \A i \in held[d] : i.value \notin Vals(gone)
      BY <3>3, <3>4, <3>5, <3>6 DEF Vals
    <3>8. index' = Vals(view) \ Vals(gone) /\ index' # NoIndex
      <4>1. index' = Vals(view) \ Vals(gone)
        BY <1>4, <3>1 DEF Publish
      <4>2. index' \subseteq Values
        BY <4>1, <3>1, ViewType DEF Local
      <4> QED
        BY <4>1, <4>2, ClientAssumption
    <3>9. \A d \in Clients : \A i \in held[d] : i.value \in index'
      BY <3>3, <3>7, <3>8 DEF Vals
    <3> QED
      BY <1>2, <2>1, <2>3, <3>8, <3>9 DEF Shared, Backed, Alone
  <2> QED
    BY <1>2, <2>1, <2>2, <2>3, SettledKeeps
<1> QED
  BY <1>1, <1>3, <1>4 DEF GiveBackAll

LEMMA PublishLocalKeeps ==
    ASSUME Local, TypeOK', NEW c \in Clients, PublishLocal(c)
    PROVE  Local' /\ (Shared /\ ~clash' => Shared')
<1>1. /\ UNCHANGED <<store, held, lapsed>> /\ pc[c] = "get_multi" /\ todo[c] = {}
  BY DEF PublishLocal, Answered, caller
<1>2. CASE Raise(c) /\ UNCHANGED <<index, clash>>
  BY <1>1, <1>2, QuitKeeps
<1>3. CASE Collide(c, NoItem, 0)
  BY <1>1, <1>3, CollideKeeps
<1>4. CASE /\ Publish(c, Vals(read[c]) \cup Vals(LocalItems(Prefix[c], items[c])))
           /\ clash' = (clash \/ overlooked[c])
           /\ Proceed(c, "update")
           /\ todo' = [todo EXCEPT ![c] = keys[c]]
           /\ UNCHANGED <<pend, keyName>>
  <2>1. \A d \in Clients \ {c} : /\ todo'[d] = todo[d] /\ pend'[d] = pend[d]
                                 /\ held'[d] = held[d] /\ lapsed'[d] = lapsed[d]
    BY <1>1, <1>4 DEF Local, TypeOK
  <2>2. /\ Alone(c) /\ read'[c] = {} /\ pc'[c] = "update" /\ call' = call
        /\ token'[c] # "current"
    BY <1>4, <2>1, ProceedSettles
  <2>3. Owns(c)' /\ KeyOfItem'
    BY <1>1, <2>2 DEF Local, CallerOwns, Owns, KeyOfItem
  <2>4. ASSUME Shared, ~clash' PROVE Backed'
    <3>1. ~overlooked[c] /\ token[c] = "current"
      BY <1>4, <2>4 DEF Publish
    <3>2. \A d \in Clients : \A i \in held[d] : i.value \in Vals(read[c])
      BY <1>1, <2>4, <3>1 DEF Shared, Informed, Vals
    <3>3. /\ index' = Vals(read[c]) \cup Vals(LocalItems(Prefix[c], items[c]))
          /\ index' # NoIndex
      <4>1. LocalItems(Prefix[c], items[c]) \subseteq Item /\ read[c] \subseteq Item
        BY DEF Local, TypeOK, LocalItems
      <4>2. index' \subseteq Values
        BY <1>4, <4>1, ValsType DEF Publish
      <4> QED
        BY <1>4, <4>2, ClientAssumption DEF Publish
    <3> QED
      BY <1>1, <2>2, <2>4, <3>2, <3>3 DEF Shared, Backed, Alone
  <2> QED
    BY <1>1, <2>2, <2>3, <2>4, SettledKeeps
<1> QED
  BY <1>2, <1>3, <1>4 DEF PublishLocal

\* The items: what is added, set or deleted is not what another client relies on.
LEMMA AddLocalKeeps ==
    ASSUME Local, TypeOK', NEW c \in Clients, AddLocal(c)
    PROVE  Local' /\ (Shared => Shared')
<1>1. PICK item \in pend[c] :
        /\ pend' = [pend EXCEPT ![c] = @ \ {item}]
        /\ store' = IF store[item.value] = NoItem
                      THEN [store EXCEPT ![item.value] = item] ELSE store
  BY DEF AddLocal
<1>2. /\ UNCHANGED <<index, pc, call, token, keys, todo, read, overlooked, held, lapsed>>
      /\ pc[c] = "get_multi"
  BY DEF AddLocal, Answered, caller
<1>3. item \in Item /\ item.value \in Values
  BY DEF Local, TypeOK, Item
<1>4. \A k \in Values : store'[k] = store[k] \/ (store[k] = NoItem /\ store'[k] = item
                                                 /\ item.value = k)
  BY <1>1, <1>3 DEF Local, TypeOK
<1>5. /\ pend'[c] \subseteq pend[c]
      /\ \A d \in Clients \ {c} : pend'[d] = pend[d]
  BY <1>1 DEF Local, TypeOK
<1>6. KeyOfItem'
  BY <1>4 DEF Local, KeyOfItem
<1>7. CurrentToken' /\ ReadOnce'
  BY <1>2 DEF Local, CurrentToken, ReadOnce
<1>8. CallerOwns'
  BY <1>2, <1>5 DEF Local, CallerOwns, Owns
<1>9. ASSUME Shared PROVE Shared'
  <2>1. Exclusive' /\ Informed'
    BY <1>2, <1>9 DEF Shared, Exclusive, Informed
  <2>2. \A d \in Clients : \A i \in held[d] : i # NoItem /\ i.value \in Values
    BY PoolAssumption DEF Local, TypeOK, Item, Values
  <2>3. Backed'
    BY <1>2, <1>4, <1>5, <1>9, <2>2 DEF Shared, Backed
  <2> QED
    BY <2>1, <2>3 DEF Shared
<1> QED
  BY <1>6, <1>7, <1>8, <1>9 DEF Local

LEMMA StoreItemKeeps ==
    ASSUME Local, TypeOK', NEW c \in Clients, StoreItem(c)
    PROVE  Local' /\ (Shared /\ ~clash' => Shared')
<1>1. PICK item \in pend[c] :
        /\ \/ store[item.value] # NoItem /\ store' = store
           \/ store' = [store EXCEPT ![item.value] = item]
        /\ clash' = (clash \/ store[item.value] \notin {NoItem, item})
        /\ \/ pend[c] = {item} /\ Return(c)
           \/ /\ pend' = [pend EXCEPT ![c] = @ \ {item}]
              /\ UNCHANGED <<pc, call, token, keys, todo, read, keyName, overlooked>>
  BY DEF StoreItem
<1>2. UNCHANGED <<index, held, lapsed>> /\ pc[c] = "store"
  BY DEF StoreItem, caller
<1>3. item \in Item /\ item.value \in Values /\ item \in held[c]
  BY <1>2 DEF Local, TypeOK, Item, CallerOwns, Owns
<1>4. \A k \in Values : store'[k] = store[k] \/ (store'[k] = item /\ item.value = k)
  BY <1>1, <1>3 DEF Local, TypeOK
<1>5. KeyOfItem'
  BY <1>4 DEF Local, KeyOfItem
<1>6. /\ Alone(c) /\ token'[c] # "current" /\ read'[c] = {} /\ Owns(c)'
      /\ \A i \in pend[c] \ {item} : pc'[c] = "store" /\ i \in pend'[c]
  <2>1. CASE pend[c] = {item} /\ Return(c)
    <3>1. Leave(c, "idle", token)
      BY <2>1 DEF Return
    <3> QED
      BY <1>2, <2>1, <3>1, LeaveSettles
  <2>2. CASE /\ pend' = [pend EXCEPT ![c] = @ \ {item}]
             /\ UNCHANGED <<pc, call, token, keys, todo, read, keyName, overlooked>>
    <3>1. /\ pend'[c] = pend[c] \ {item}
          /\ \A d \in Clients \ {c} : pend'[d] = pend[d]
      BY <2>2 DEF Local, TypeOK
    <3>2. token[c] # "current" /\ read[c] = {}
      BY <1>2 DEF Local, CurrentToken, ReadOnce
    <3>3. Owns(c)'
      BY <1>2, <2>2, <3>1 DEF Local, CallerOwns, Owns
    <3> QED
      BY <1>2, <2>2, <3>1, <3>2, <3>3 DEF Alone
  <2> QED
    BY <1>1, <2>1, <2>2
<1>7. ASSUME Shared, ~clash' PROVE Backed'
  <2>1. store'[item.value] = item
    BY <1>1, <1>3, <1>7 DEF Local, TypeOK
  <2> SUFFICES ASSUME NEW d \in Clients, NEW i \in held[d]
               PROVE  store'[i.value] = i \/ (pc'[d] = "store" /\ i \in pend'[d])
    BY <1>2, <1>7 DEF Shared, Backed
  <2>2. CASE i.value = item.value
    BY <1>3, <1>7, <2>1, <2>2 DEF Shared, Exclusive
  <2>3. CASE i.value # item.value
    <3>1. i.value \in Values
      BY DEF Local, TypeOK, Item
    <3>2. store'[i.value] = store[i.value]
      BY <1>4, <2>3, <3>1
    <3>3. store[i.value] = i \/ (pc[d] = "store" /\ i \in pend[d])
      BY <1>7 DEF Shared, Backed
    <3> QED
      BY <1>6, <2>3, <3>2, <3>3 DEF Alone
  <2> QED
    BY <2>2, <2>3
<1> QED
  BY <1>5, <1>6, <1>7, <1>2, SettledKeeps

LEMMA DeleteKeeps ==
    ASSUME Local, TypeOK', NEW c \in Clients, Delete(c)
    PROVE  Local' /\ (Shared /\ ~clash' => Shared')
<1>1. PICK k \in todo[c] :
        /\ store' = [store EXCEPT ![k] = NoItem]
        /\ clash' = (clash \/ index = NoIndex \/ k \in index)
        /\ \/ Return(c)
           \/ /\ todo' = [todo EXCEPT ![c] = @ \ {k}]
              /\ UNCHANGED <<pc, call, token, keys, read, pend, keyName, overlooked>>
  BY DEF Delete
<1>2. UNCHANGED <<index, held, lapsed>> /\ pc[c] = "delete"
  BY DEF Delete, caller
<1>3. \A j \in Values : store'[j] = IF j = k THEN NoItem ELSE store[j]
  BY <1>1 DEF Local, TypeOK
<1>4. KeyOfItem'
  BY <1>3 DEF Local, KeyOfItem
<1>5. Alone(c) /\ token'[c] # "current" /\ read'[c] = {} /\ Owns(c)'
  <2>1. CASE Return(c)
    <3>1. Leave(c, "idle", token)
      BY <2>1 DEF Return
    <3> QED
      BY <1>2, <3>1, LeaveSettles
  <2>2. CASE /\ todo' = [todo EXCEPT ![c] = @ \ {k}]
             /\ UNCHANGED <<pc, call, token, keys, read, pend, keyName, overlooked>>
    <3>1. \A d \in Clients \ {c} : todo'[d] = todo[d]
      BY <2>2 DEF Local, TypeOK
    <3>2. token[c] # "current" /\ read[c] = {}
      BY <1>2 DEF Local, CurrentToken, ReadOnce
    <3>3. Owns(c)'
      BY <1>2, <2>2 DEF Local, CallerOwns, Owns
    <3> QED
      BY <1>2, <2>2, <3>1, <3>2, <3>3 DEF Alone
  <2> QED
    BY <1>1, <2>1, <2>2
<1>6. ASSUME Shared, ~clash' PROVE Backed'
  <2>0. k \notin index
    BY <1>1, <1>6
  <2>1. \A d \in Clients : \A i \in held[d] : i.value \in Values /\ i.value # k
    <3>1. \A d \in Clients : \A i \in held[d] : i.value \in Values
      BY DEF Local, TypeOK, Item
    <3> QED
      BY <1>6, <2>0, <3>1 DEF Shared, Backed
  <2> QED
    BY <1>2, <1>3, <1>5, <1>6, <2>1 DEF Shared, Backed, Alone
<1> QED
  BY <1>2, <1>4, <1>5, <1>6, SettledKeeps

LEMMA FlushKeeps ==
    ASSUME Local, TypeOK', NEW c \in Clients, ReadIndex(c) \/ DeleteIndex(c)
    PROVE  Local' /\ (Shared /\ ~clash' => Shared')
<1>1. CASE ReadIndex(c)
  <2>1. UNCHANGED <<index, store, held, lapsed>> /\ pc[c] = "flush"
    BY <1>1 DEF ReadIndex, server, caller
  <2>2. CASE Raise(c)
    BY <2>1, <2>2, QuitKeeps
  <2>3. CASE ~Raise(c)
    <3>1. /\ pc' = [pc EXCEPT ![c] = "delete"]
          /\ todo' = [todo EXCEPT ![c] = index]
          /\ UNCHANGED <<call, token, keys, read, pend, keyName, overlooked>>
      BY <1>1, <2>3 DEF ReadIndex, Goto
    <3>2. /\ pc'[c] = "delete"
          /\ \A d \in Clients \ {c} : todo'[d] = todo[d] /\ pc'[d] = pc[d]
      BY <3>1 DEF Local, TypeOK
    <3>3. token[c] # "current" /\ read[c] = {}
      BY <2>1 DEF Local, CurrentToken, ReadOnce
    <3>4. Alone(c) /\ token'[c] # "current" /\ read'[c] = {}
      BY <2>1, <3>1, <3>2, <3>3 DEF Alone
    <3>5. Owns(c)' /\ KeyOfItem'
      BY <2>1, <3>1, <3>2 DEF Local, CallerOwns, Owns, KeyOfItem
    <3>6. ASSUME Shared PROVE Backed'
      BY <2>1, <3>4, <3>6 DEF Shared, Backed, Alone
    <3> QED
      BY <2>1, <3>4, <3>5, <3>6, SettledKeeps
  <2> QED
    BY <2>2, <2>3
<1>2. CASE DeleteIndex(c)
  <2>1. /\ UNCHANGED <<store, held, lapsed>>
        /\ clash' = TRUE
        /\ Leave(c, "idle", Outdated)
    BY <1>2 DEF DeleteIndex, caller
  <2>2. Alone(c) /\ token'[c] # "current" /\ read'[c] = {} /\ Owns(c)'
    BY <2>1, LeaveSettles
  <2>3. KeyOfItem'
    BY <2>1 DEF Local, KeyOfItem
  <2> QED
    BY <2>1, <2>2, <2>3, SettledKeeps
<1> QED
  BY <1>1, <1>2

LEMMA StepKeeps ==
    ASSUME Local, OwnMachines, NEW c \in Clients, Step(c)
    PROVE  Local' /\ (Shared /\ ~clash' => Shared')
<1>1. TypeOK'
  BY StepType DEF Local
<1>2. CASE Exhaust(c)
  BY <1>1, <1>2, QuitKeeps DEF Exhaust, Chooses, Answered, server, caller
<1>3. CASE UpdateLocal(c)
  BY <1>1, <1>3, QuitKeeps DEF UpdateLocal, server, caller
<1>4. CASE StoreNothing(c)
  <2>1. Leave(c, "idle", token) /\ UNCHANGED <<index, store, held, lapsed>>
    BY <1>4 DEF StoreNothing, Return, server, caller
  <2>2. Alone(c) /\ token'[c] # "current" /\ read'[c] = {} /\ Owns(c)'
    BY <2>1, LeaveSettles
  <2>3. KeyOfItem'
    BY <2>1 DEF Local, KeyOfItem
  <2>4. ASSUME Shared PROVE Backed'
    BY <1>4, <2>1, <2>2, <2>4 DEF Shared, Backed, Alone, StoreNothing
  <2> QED
    BY <1>1, <2>1, <2>2, <2>3, <2>4, SettledKeeps
<1> QED
  BY <1>1, <1>2, <1>3, <1>4, AddIndexKeeps, GetsKeeps, FetchKeeps, ReserveKeeps,
     ReleaseKeeps, ReleaseAllKeeps, PublishLocalKeeps, AddLocalKeeps, StoreItemKeeps,
     DeleteKeeps, FlushKeeps DEF Step

LEMMA CrashKeeps ==
    ASSUME Local, TypeOK', NEW c \in Clients, Crash(c)
    PROVE  Local' /\ (Shared => Shared')
<1>1. /\ Leave(c, "new", token) /\ UNCHANGED <<index, store>>
      /\ held'[c] = {} /\ lapsed'[c] = {}
      /\ \A d \in Clients \ {c} : held'[d] = held[d] /\ lapsed'[d] = lapsed[d]
  BY DEF Crash, server, Local, TypeOK
<1>2. Alone(c) /\ token'[c] # "current" /\ read'[c] = {} /\ Owns(c)'
  BY <1>1, LeaveSettles
<1>3. KeyOfItem'
  BY <1>1 DEF Local, KeyOfItem
<1>4. ASSUME Shared PROVE Backed'
  BY <1>1, <1>2, <1>4 DEF Shared, Backed, Alone
<1> QED
  BY <1>1, <1>2, <1>3, <1>4, SettledKeeps

LEMMA ExpireKeeps ==
    ASSUME Local, TypeOK', NEW k \in Values, Expire(k)
    PROVE  Local' /\ (Shared => Shared')
<1>1. /\ UNCHANGED <<index, pc, call, token, keys, todo, read, pend, overlooked>>
      /\ store' = [store EXCEPT ![k] = NoItem]
  BY DEF Expire, locals
<1>2. \A j \in Values : store'[j] = IF j = k THEN NoItem ELSE store[j]
  BY <1>1 DEF Local, TypeOK
<1>3. \A d \in Clients :
        /\ held'[d] \subseteq held[d]
        /\ held'[d] \cup lapsed'[d] \subseteq held[d] \cup lapsed[d]
        /\ \A i \in held'[d] : i # store[k] \/ Renewing(d, i)
        /\ \A i \in held[d] : Renewing(d, i) => i \in held'[d]
  BY DEF Expire
<1>4. KeyOfItem' /\ CurrentToken' /\ ReadOnce'
  BY <1>1, <1>2 DEF Local, KeyOfItem, CurrentToken, ReadOnce
<1>5. CallerOwns'
  <2> SUFFICES ASSUME NEW d \in Clients PROVE Owns(d)'
    BY DEF CallerOwns
  <2>1. Owns(d)
    BY DEF Local, CallerOwns
  <2> QED
    BY <1>1, <1>3, <2>1 DEF Owns, Renewing
<1>6. ASSUME Shared PROVE Shared'
  <2>1. Exclusive' /\ Informed'
    BY <1>1, <1>3, <1>6 DEF Shared, Exclusive, Informed
  <2>2. Backed'
    <3> SUFFICES ASSUME NEW d \in Clients, NEW i \in held'[d]
                 PROVE  store'[i.value] = i \/ (pc[d] = "store" /\ i \in pend[d])
      BY <1>1, <1>3, <1>6 DEF Shared, Backed
    <3>1. i.value \in Values /\ i \in held[d]
      BY <1>3 DEF Local, TypeOK, Item
    <3>2. store[i.value] = i \/ (pc[d] = "store" /\ i \in pend[d])
      BY <1>6, <3>1 DEF Shared, Backed
    <3> QED
      BY <1>2, <1>3, <3>1, <3>2 DEF Renewing
  <2> QED
    BY <2>1, <2>2 DEF Shared
<1> QED
  BY <1>4, <1>5, <1>6 DEF Local

LEMMA InitKeeps == Init => IInv
<1> SUFFICES ASSUME Init PROVE IInv
  OBVIOUS
<1>1. NoCall.item = NoItem /\ NoCall.op # "free_all"
  BY ClientAssumption DEF NoCall, Operations
<1>2. TypeOK
  BY InitType
<1>3. KeyOfItem /\ CurrentToken /\ ReadOnce
  BY DEF Init, KeyOfItem, CurrentToken, ReadOnce
<1>4. CallerOwns
  BY <1>1 DEF Init, CallerOwns, Owns
<1>5. Exclusive /\ Backed /\ Informed
  BY DEF Init, Exclusive, Backed, Informed
<1> QED
  BY <1>2, <1>3, <1>4, <1>5 DEF IInv

\* clash is never taken back.
LEMMA ClashStays ==
    ASSUME [Next]_vars, TypeOK, clash PROVE clash'
<1>1. ASSUME NEW c \in Clients, Begin(c) PROVE clash'
  BY <1>1 DEF Begin, Construct, BeginGet, BeginGetMulti, BeginFree, BeginFreeAll,
              BeginSync, BeginFlush, Start
<1>2. ASSUME NEW c \in Clients, Step(c) PROVE clash'
  BY <1>2 DEF Step, AddIndex, Gets, Fetch, Reserve, Claim, Exhaust, Release, GiveBack,
              ReleaseAll, GiveBackAll, PublishLocal, AddLocal, StoreItem, StoreNothing,
              Delete, UpdateLocal, ReadIndex, DeleteIndex, Collide
<1> QED
  BY <1>1, <1>2 DEF Next, Crash, Expire, vars

\* The inductive invariant.
THEOREM Invariance ==
    ASSUME OwnMachines
    PROVE  Spec => []IInv
<1>1. IInv /\ [Next]_vars => IInv'
  <2> SUFFICES ASSUME IInv, [Next]_vars PROVE IInv'
    OBVIOUS
  <2>1. Local /\ (clash \/ Shared)
    BY DEF IInv, Local, Shared
  <2>2. Local' /\ (Shared /\ ~clash' => Shared')
    <3>1. ASSUME NEW c \in Clients, Begin(c) PROVE Local' /\ (Shared => Shared')
      BY <2>1, <3>1, BeginKeeps
    <3>2. ASSUME NEW c \in Clients, Step(c)
          PROVE  Local' /\ (Shared /\ ~clash' => Shared')
      BY <2>1, <3>2, StepKeeps
    <3>3. ASSUME NEW c \in Clients, Crash(c) PROVE Local' /\ (Shared => Shared')
      BY <2>1, <3>3, CrashKeeps, FailureType DEF Local
    <3>4. ASSUME NEW k \in Values, Expire(k) PROVE Local' /\ (Shared => Shared')
      BY <2>1, <3>4, ExpireKeeps, FailureType DEF Local
    <3>5. ASSUME UNCHANGED vars PROVE Local' /\ (Shared => Shared')
      <4>1. TypeOK'
        BY <2>1, <3>5 DEF Local, TypeOK, vars, server, locals, caller
      <4>2. KeyOfItem' /\ CurrentToken' /\ ReadOnce' /\ CallerOwns'
        BY <2>1, <3>5 DEF Local, KeyOfItem, CurrentToken, ReadOnce, CallerOwns, Owns,
                          vars, server, locals, caller
      <4>3. Shared => Shared'
        BY <3>5 DEF Shared, Exclusive, Backed, Informed, vars, server, locals, caller
      <4> QED
        BY <4>1, <4>2, <4>3 DEF Local
    <3> QED
      BY <3>1, <3>2, <3>3, <3>4, <3>5 DEF Next
  <2>3. clash => clash'
    BY <2>1, ClashStays DEF Local
  <2>4. clash' \/ Shared'
    BY <2>1, <2>2, <2>3
  <2> QED
    BY <2>2, <2>4 DEF IInv, Local, Shared
<1> QED
  BY <1>1, InitKeeps, PTL DEF Spec

\* No value is reserved by two callers, or twice by one, until a clash: for
\* any number of processes, each on a machine of its own.
THEOREM NeverReservedTwice ==
    ASSUME OwnMachines
    PROVE  Spec => []ReservedOnce
<1>1. IInv => ReservedOnce
  BY DEF IInv, ReservedOnce
<1> QED
  BY <1>1, Invariance, PTL

\* And until then memcached lists and stores every reservation whose caller
\* has its answer.
THEOREM ReservationsAreStored ==
    ASSUME OwnMachines
    PROVE  Spec => []HeldIsStored
<1>1. IInv => HeldIsStored
  <2> SUFFICES ASSUME IInv, ~clash, NEW c \in Clients, NEW i \in held[c]
               PROVE  /\ index # NoIndex /\ i.value \in index
                      /\ ~Busy(c) => store[i.value] = i
    BY DEF HeldIsStored
  <2> QED
    BY DEF IInv, Backed, Busy
<1> QED
  BY <1>1, Invariance, PTL

-----------------------------------------------------------------------------
(* The pool implements Allocator until a clash *)

LEMMA LendLends ==
    ASSUME NEW c \in Clients, NEW got, TypeOK, TypeOK', Exclusive',
           held' = [held EXCEPT ![c] = @ \cup got]
    PROVE  Lending!Lend(c)
<1>1. held \in [Clients -> SUBSET Item] /\ held' \in [Clients -> SUBSET Item]
  BY DEF TypeOK
<1>2. held' = [held EXCEPT ![c] = held'[c]] /\ held[c] \subseteq held'[c]
  BY <1>1
<1>3. \A i, j \in held'[c] : i.value = j.value => i = j
  BY DEF Exclusive
<1>4. \A d \in Clients \ {c} : \A i \in held'[c], j \in held[d] : i.value # j.value
  <2>1. \A d \in Clients \ {c} : held'[d] = held[d]
    BY <1>1
  <2> QED
    BY <2>1 DEF Exclusive
<1> QED
  BY <1>1, <1>2, <1>3, <1>4 DEF Lending!Lend, Lending!Alone

LEMMA DropTakesBack ==
    ASSUME NEW c \in Clients, NEW gone, TypeOK,
           held' = [held EXCEPT ![c] = @ \ gone]
    PROVE  Lending!TakeBack(c)
<1>1. held \in [Clients -> SUBSET Item]
  BY DEF TypeOK
<1>2. held' = [held EXCEPT ![c] = held'[c]] /\ held'[c] \subseteq held[c]
  BY <1>1
<1> QED
  BY <1>2 DEF Lending!TakeBack, Lending!Alone

\* What a client begins takes back, or leaves the loans alone.
LEMMA BeginLends ==
    ASSUME NEW c \in Clients, TypeOK, Begin(c)
    PROVE  Lending!TakeBack(c) \/ UNCHANGED held
<1>1. CASE BeginFree(c)
  <2>1. PICK item : held' = [held EXCEPT ![c] = @ \ {item}]
    BY <1>1 DEF BeginFree
  <2> QED
    BY <2>1, DropTakesBack
<1>2. CASE BeginFreeAll(c)
  <2>1. held' = [held EXCEPT ![c] = @ \ held[c]]
    BY <1>2 DEF BeginFreeAll, TypeOK
  <2> QED
    BY <2>1, DropTakesBack
<1>3. ASSUME ~BeginFree(c), ~BeginFreeAll(c) PROVE UNCHANGED held
  BY <1>3 DEF Begin, Construct, BeginGet, BeginGetMulti, BeginSync, BeginFlush, caller
<1> QED
  BY <1>1, <1>2, <1>3

\* Only a cas that succeeds lends.
LEMMA StepLends ==
    ASSUME NEW c \in Clients, TypeOK, TypeOK', Exclusive', Step(c)
    PROVE  Lending!Lend(c) \/ UNCHANGED held
<1>1. CASE Reserve(c)
  <2>1. PICK view, f : Claim(c, view, f)
    BY <1>1 DEF Reserve
  <2>2. UNCHANGED held \/ \E got : held' = [held EXCEPT ![c] = @ \cup got]
    BY <2>1 DEF Claim
  <2> QED
    BY <2>2, LendLends
<1>2. ASSUME ~Reserve(c) PROVE UNCHANGED held
  BY <1>2 DEF Step, AddIndex, Gets, Fetch, Exhaust, Release, ReleaseAll, PublishLocal,
              AddLocal, StoreItem, StoreNothing, Delete, UpdateLocal, ReadIndex,
              DeleteIndex, caller
<1> QED
  BY <1>1, <1>2

\* A lease that runs out is one client's: no other has the item.
LEMMA ExpireLends ==
    ASSUME NEW k \in Values, TypeOK, Exclusive, Expire(k)
    PROVE  UNCHANGED held \/ \E c \in Clients : Lending!TakeBack(c)
<1> DEFINE lost == [c \in Clients |-> {i \in held[c] : i = store[k] /\ ~Renewing(c, i)}]
<1>1. held' = [c \in Clients |-> held[c] \ lost[c]]
  BY DEF Expire
<1>2. held \in [Clients -> SUBSET Item]
  BY DEF TypeOK
<1>3. CASE \A c \in Clients : lost[c] = {}
  BY <1>1, <1>2, <1>3
<1>4. ASSUME NEW c \in Clients, lost[c] # {} PROVE Lending!TakeBack(c)
  <2>1. store[k] \in held[c]
    BY <1>4
  <2>2. \A d \in Clients \ {c} : store[k] \notin held[d]
    BY <2>1 DEF Exclusive
  <2>3. \A d \in Clients \ {c} : lost[d] = {}
    BY <2>2
  <2>4. held' = [held EXCEPT ![c] = @ \ lost[c]]
    <3> HIDE DEF lost
    <3> QED
      BY <1>1, <1>2, <2>3
  <2> QED
    BY <2>4, DropTakesBack
<1> QED
  BY <1>3, <1>4

\* Every step of the pool is a step of the allocator or changes no loan, until
\* a reservation is overlooked, refused or deleted: for any number of clients
\* and values, leases and crashes included.
THEOREM PoolLends ==
    ASSUME OwnMachines
    PROVE  Spec => LendsUntilClash
<1>1. Init => Lending!Init
  BY DEF Init, Lending!Init
<1>2. IInv /\ IInv' /\ [Next]_vars => [clash' \/ Lending!Next]_held
  <2> SUFFICES ASSUME IInv, IInv', [Next]_vars, ~clash'
               PROVE  Lending!Next \/ UNCHANGED held
    OBVIOUS
  <2>1. TypeOK /\ TypeOK' /\ ~clash
    BY ClashStays DEF IInv
  <2>2. Exclusive /\ Exclusive'
    BY <2>1 DEF IInv
  <2>3. ASSUME NEW c \in Clients, Begin(c) PROVE Lending!Next \/ UNCHANGED held
    BY <2>1, <2>3, BeginLends DEF Lending!Next
  <2>4. ASSUME NEW c \in Clients, Step(c) PROVE Lending!Next \/ UNCHANGED held
    BY <2>1, <2>2, <2>4, StepLends DEF Lending!Next
  <2>5. ASSUME NEW c \in Clients, Crash(c) PROVE Lending!Next
    <3>1. held' = [held EXCEPT ![c] = @ \ held[c]]
      BY <2>1, <2>5 DEF Crash, TypeOK
    <3> QED
      BY <2>1, <3>1, DropTakesBack DEF Lending!Next
  <2>6. ASSUME NEW k \in Values, Expire(k) PROVE Lending!Next \/ UNCHANGED held
    BY <2>1, <2>2, <2>6, ExpireLends DEF Lending!Next
  <2> QED
    BY <2>3, <2>4, <2>5, <2>6 DEF Next, vars, caller
<1> QED
  BY <1>1, <1>2, Invariance, PTL DEF Spec, LendsUntilClash

-----------------------------------------------------------------------------
(* Names and sizes *)

\* What an operation that reserves was called with.
Asked ==
    \A c \in Clients : call[c].op \in {"get", "get_multi"} =>
        call[c].op \in Workload /\ call[c].request \in Requests[call[c].op]

LEMMA AskedBegins ==
    ASSUME TypeOK, Asked, NEW c \in Clients, Begin(c) PROVE Asked'
<1>1. ASSUME NEW op, NEW request, NEW item, NEW label,
             Start(c, op, request, item, label),
             op \in {"get", "get_multi"} => op \in Workload /\ request \in Requests[op]
      PROVE  Asked'
  BY <1>1 DEF Start, Asked, TypeOK
<1>2. CASE Construct(c)
  BY <1>1, <1>2 DEF Construct
<1>3. CASE BeginGet(c)
  BY <1>1, <1>3 DEF BeginGet, Idle
<1>4. CASE BeginGetMulti(c)
  BY <1>1, <1>4 DEF BeginGetMulti, Idle
<1>5. CASE BeginFree(c)
  BY <1>1, <1>5 DEF BeginFree
<1>6. CASE BeginFreeAll(c)
  BY <1>1, <1>6 DEF BeginFreeAll
<1>7. CASE BeginSync(c)
  BY <1>1, <1>7 DEF BeginSync
<1>8. CASE BeginFlush(c)
  BY <1>1, <1>8 DEF BeginFlush
<1> QED
  BY <1>2, <1>3, <1>4, <1>5, <1>6, <1>7, <1>8 DEF Begin

\* An operation keeps what it was called with, until it is over.
LEMMA CallStays ==
    ASSUME TypeOK, NEW c \in Clients, Step(c) \/ Crash(c)
    PROVE  \A d \in Clients :
              \/ call'[d] = NoCall
              \/ call'[d].op = call[d].op /\ call'[d].request = call[d].request
<1> DEFINE Kept == \A d \in Clients :
                     \/ call'[d] = NoCall
                     \/ call'[d].op = call[d].op /\ call'[d].request = call[d].request
<1>1. ASSUME UNCHANGED call PROVE Kept
  BY <1>1
<1>2. ASSUME NEW label, NEW tokens, Leave(c, label, tokens) PROVE Kept
  BY <1>2 DEF Leave, TypeOK
<1>3. Raise(c) \/ Return(c) => Kept
  BY <1>2 DEF Raise, Return
<1>4. ASSUME NEW item, NEW name, Collide(c, item, name) PROVE Kept
  <2>1. CASE Raise(c)
    BY <1>3, <2>1
  <2>2. CASE ~Raise(c)
    <3>1. call' = [call EXCEPT ![c] =
                     [op |-> call[c].op, request |-> call[c].request, item |-> item]]
      BY <1>4, <2>2 DEF Collide, TypeOK
    <3> QED
      BY <3>1 DEF TypeOK
  <2> QED
    BY <2>1, <2>2
<1> SUFFICES Kept
  OBVIOUS
<1> HIDE DEF Kept
<1>5. ASSUME NEW label, Proceed(c, label) PROVE Kept
  BY <1>1, <1>5 DEF Proceed
<1>6. CASE AddIndex(c) \/ Gets(c) \/ Fetch(c)
  BY <1>1, <1>3, <1>6 DEF AddIndex, Gets, Fetch
<1>7. CASE Reserve(c)
  BY <1>4, <1>5, <1>7 DEF Reserve, Claim
<1>8. CASE Exhaust(c) \/ UpdateLocal(c)
  BY <1>3, <1>8 DEF Exhaust, UpdateLocal
<1>9. CASE Release(c)
  BY <1>2, <1>3, <1>4, <1>5, <1>9 DEF Release, GiveBack
<1>10. CASE ReleaseAll(c)
  BY <1>2, <1>4, <1>5, <1>10 DEF ReleaseAll, GiveBackAll
<1>11. CASE PublishLocal(c)
  BY <1>3, <1>4, <1>5, <1>11 DEF PublishLocal
<1>12. CASE AddLocal(c) \/ StoreItem(c) \/ StoreNothing(c) \/ Delete(c)
  BY <1>1, <1>3, <1>12 DEF AddLocal, StoreItem, StoreNothing, Delete
<1>13. CASE ReadIndex(c) \/ DeleteIndex(c)
  BY <1>1, <1>2, <1>3, <1>13 DEF ReadIndex, DeleteIndex
<1>14. CASE Crash(c)
  BY <1>2, <1>14 DEF Crash
<1> QED
  BY <1>6, <1>7, <1>8, <1>9, <1>10, <1>11, <1>12, <1>13, <1>14 DEF Step

LEMMA StepAsked == TypeOK /\ Asked /\ [Next]_vars => Asked'
<1> SUFFICES ASSUME TypeOK, Asked, [Next]_vars PROVE Asked'
  OBVIOUS
<1>1. ASSUME NEW c \in Clients, Begin(c) PROVE Asked'
  BY <1>1, AskedBegins
<1>2. ASSUME NEW c \in Clients, Step(c) \/ Crash(c) PROVE Asked'
  <2>1. NoCall.op \notin {"get", "get_multi"}
    BY ClientAssumption DEF NoCall, Operations
  <2> QED
    BY <1>2, <2>1, CallStays DEF Asked
<1>3. ASSUME UNCHANGED call PROVE Asked'
  BY <1>3 DEF Asked
<1> QED
  BY <1>1, <1>2, <1>3 DEF Next, Expire, locals, vars

\* Only what a client reserves is added to what callers have.
LEMMA HeldShrinks ==
    ASSUME IInv, ~clash, [Next]_vars, \A c \in Clients : ~Reserve(c)
    PROVE  \A c \in Clients : held'[c] \subseteq held[c]
<1>0. TypeOK /\ Exclusive /\ held \in [Clients -> SUBSET Item]
  BY DEF IInv, TypeOK
<1>1. ASSUME NEW c \in Clients, Lending!TakeBack(c)
      PROVE  \A d \in Clients : held'[d] \subseteq held[d]
  BY <1>0, <1>1 DEF Lending!TakeBack, Lending!Alone
<1>2. ASSUME NEW c \in Clients, Begin(c)
      PROVE  \A d \in Clients : held'[d] \subseteq held[d]
  BY <1>0, <1>1, <1>2, BeginLends
<1>3. ASSUME NEW c \in Clients, Step(c) PROVE UNCHANGED held
  BY <1>3 DEF Step, AddIndex, Gets, Fetch, Exhaust, Release, ReleaseAll, PublishLocal,
              AddLocal, StoreItem, StoreNothing, Delete, UpdateLocal, ReadIndex,
              DeleteIndex, caller
<1>4. ASSUME NEW c \in Clients, Crash(c)
      PROVE  \A d \in Clients : held'[d] \subseteq held[d]
  BY <1>0, <1>4 DEF Crash
<1>5. ASSUME NEW k \in Values, Expire(k)
      PROVE  \A d \in Clients : held'[d] \subseteq held[d]
  BY <1>5 DEF Expire
<1> QED
  BY <1>2, <1>3, <1>4, <1>5 DEF Next, vars, caller

\* A client that reserves knows everything that is reserved.
LEMMA ReserveKnows ==
    ASSUME IInv, NEW c \in Clients, Reserve(c), ~clash', ~UNCHANGED held
    PROVE  \E view \in Views(read[c]) :
             \E f \in Allotments(Wanted(c, view), Values \ Vals(view)) :
               /\ view = read[c] /\ ~Refused(c, view)
               /\ call[c].op \in {"get", "get_multi"}
               /\ held' = [held EXCEPT ![c] = @ \cup NewItems(Prefix[c], call[c].request, f)
                                              \cup OldItems(view, Prefix[c], call[c].request)]
               /\ \A d \in Clients : held[d] \subseteq view
<1>1. PICK view \in Views(read[c]) :
        /\ ~Refused(c, view)
        /\ \E f \in Allotments(Wanted(c, view), Values \ Vals(view)) : Claim(c, view, f)
  BY DEF Reserve
<1>2. PICK f \in Allotments(Wanted(c, view), Values \ Vals(view)) : Claim(c, view, f)
  BY <1>1
<1>3. /\ token[c] = "current"
      /\ held' = [held EXCEPT ![c] = @ \cup (NewItems(Prefix[c], call[c].request, f)
                                        \cup OldItems(view, Prefix[c], call[c].request))]
      /\ ~overlooked[c] /\ view = read[c] /\ ~clash
  BY <1>2 DEF Claim, Publish
<1>4. todo[c] = {} /\ call[c].op \in {"get", "get_multi"}
  BY DEF Reserve, Chooses, Answered
<1>5. \A d \in Clients : held[d] \subseteq view
  BY <1>3, <1>4 DEF IInv, Informed
<1>6. held' = [held EXCEPT ![c] = @ \cup NewItems(Prefix[c], call[c].request, f)
                                    \cup OldItems(view, Prefix[c], call[c].request)]
  BY <1>3
<1> QED
  BY <1>1, <1>3, <1>4, <1>5, <1>6

NamesInv == IInv /\ Asked /\ NameIsKept

LEMMA StepNames ==
    ASSUME NamesInv, IInv', [Next]_vars PROVE NameIsKept'
<1> SUFFICES ASSUME ~clash',
                    NEW d \in Clients, NEW i \in held'[d], NEW j \in held'[d],
                    i.name \in Names, i.name = j.name
             PROVE  i = j
  BY DEF NameIsKept
<1>0. /\ TypeOK /\ ~clash /\ Asked /\ held \in [Clients -> SUBSET Item]
      /\ \A c \in Clients : \A k, l \in held[c] :
            k.name \in Names /\ k.name = l.name => k = l
  BY ClashStays DEF NamesInv, IInv, NameIsKept, TypeOK
<1>1. CASE \A c \in Clients : ~Reserve(c) \/ UNCHANGED held
  <2>1. held'[d] \subseteq held[d]
    <3>1. CASE UNCHANGED held
      BY <3>1
    <3>2. CASE ~UNCHANGED held
      BY <1>0, <1>1, <3>2, HeldShrinks DEF NamesInv
    <3> QED
      BY <3>1, <3>2
  <2> QED
    BY <1>0, <2>1
<1>2. ASSUME NEW c \in Clients, Reserve(c), ~UNCHANGED held PROVE i = j
  <2> DEFINE request == call[c].request
  <2>1. PICK view \in Views(read[c]) :
          \E f \in Allotments(Wanted(c, view), Values \ Vals(view)) :
            /\ call[c].op \in {"get", "get_multi"}
            /\ held' = [held EXCEPT ![c] = @ \cup NewItems(Prefix[c], request, f)
                                           \cup OldItems(view, Prefix[c], request)]
            /\ \A e \in Clients : held[e] \subseteq view
    BY <1>2, ReserveKnows DEF NamesInv
  <2>2. PICK f \in Allotments(Wanted(c, view), Values \ Vals(view)) :
          held' = [held EXCEPT ![c] = @ \cup NewItems(Prefix[c], request, f)
                                        \cup OldItems(view, Prefix[c], request)]
    BY <2>1
  <2> DEFINE new == NewItems(Prefix[c], request, f)
  <2>3. CASE d # c
    BY <1>0, <2>2, <2>3
  <2>4. CASE d = c
    <3>1. i \in view \cup new /\ j \in view \cup new
      <4>1. OldItems(view, Prefix[c], request) \subseteq view
        BY OldItemsType
      <4>2. held'[c] = held[c] \cup new \cup OldItems(view, Prefix[c], request)
        BY <1>0, <2>2
      <4> QED
        BY <2>1, <2>4, <4>1, <4>2
    <3>2. i.prefix = Prefix[c] /\ j.prefix = Prefix[c]
      BY <2>4 DEF NamesInv, IInv, CallerOwns, Owns
    <3>3. \A k \in new : k.name \in Names =>
            \E n \in DOMAIN f : /\ k = Fresh(Prefix[c], request[n], f[n])
                                /\ k.name = request[n] /\ request[n] # NoName
                                /\ n \in DOMAIN request
                                /\ Saved(view, Prefix[c], request[n]) = {}
      <4> SUFFICES ASSUME NEW n \in DOMAIN f,
                          Fresh(Prefix[c], request[n], f[n]).name \in Names
                   PROVE  /\ Fresh(Prefix[c], request[n], f[n]).name = request[n]
                          /\ request[n] # NoName /\ n \in DOMAIN request
                          /\ Saved(view, Prefix[c], request[n]) = {}
        BY DEF NewItems
      <4>1. n \in DOMAIN request /\ Saved(view, Prefix[c], request[n]) = {}
        BY DEF Allotments, Wanted, Missing
      <4>2. f[n] \in Values
        BY DEF Allotments
      <4>3. request[n] # NoName
        BY <4>2, PoolAssumption DEF Fresh, Values
      <4> QED
        BY <4>1, <4>3 DEF Fresh
    <3>4. \A k \in new, l \in view :
            k.name \in Names /\ l.prefix = Prefix[c] => k.name # l.name
      BY <3>3 DEF Saved, Id
    <3>5. \A k, l \in new : k.name \in Names /\ k.name = l.name => k = l
      <4>1. \A m, n \in DOMAIN request : request[m] = request[n] => m = n \/ request[m] = NoName
        BY <1>0, <2>1, ClientAssumption DEF Asked
      <4> QED
        BY <3>3, <4>1
    <3>6. \A k, l \in view : Id(k) = Id(l) => k = l
      BY DEF Views
    <3> QED
      BY <3>1, <3>2, <3>4, <3>5, <3>6 DEF Id
  <2> QED
    BY <2>3, <2>4
<1> QED
  BY <1>1, <1>2

\* get(name) returns the item of the name: until a clash no process has two of
\* one name, for any number of processes, names and values.
THEOREM NamesAreKept ==
    ASSUME OwnMachines
    PROVE  Spec => []NameIsKept
<1>1. Init => Asked /\ NameIsKept
  BY ClientAssumption DEF Init, Asked, NameIsKept, NoCall, Operations
<1>2. IInv /\ IInv' /\ Asked /\ NameIsKept /\ [Next]_vars => Asked' /\ NameIsKept'
  BY StepNames, StepAsked DEF NamesInv, IInv
<1> QED
  BY <1>1, <1>2, Invariance, PTL DEF Spec

\* As many items as values, when no value is there twice.
LEMMA FiniteByValue ==
    ASSUME NEW S, S \subseteq Item, \A i, j \in S : i.value = j.value => i = j
    PROVE  IsFiniteSet(S) /\ Cardinality(S) \in Nat
<1> DEFINE f == [i \in S |-> i.value]
<1>1. f \in Injection(S, Values)
  BY DEF Injection, IsInjective, Item
<1>2. IsFiniteSet(Values)
  BY PoolAssumption, FS_Interval DEF Values, PoolAssumption
<1> QED
  BY <1>1, <1>2, FS_Injection, FS_CardinalityType

Lent == UNION {held[c] : c \in Clients}

LEMMA StepSize ==
    ASSUME "get_multi" \notin Workload, IInv, Asked, SizeIsKept, IInv', [Next]_vars
    PROVE  SizeIsKept'
<1> SUFFICES ASSUME ~clash', Size # 0
             PROVE  Cardinality(Lent') <= Size
  BY DEF SizeIsKept, Lent
<1>0. /\ TypeOK /\ ~clash /\ held \in [Clients -> SUBSET Item] /\ Exclusive
      /\ Cardinality(Lent) <= Size /\ Size \in Nat
  BY ClashStays, PoolAssumption DEF IInv, SizeIsKept, TypeOK, Lent, PoolAssumption
<1>1. CASE \A c \in Clients : ~Reserve(c) \/ UNCHANGED held
  <2>1. Lent' \subseteq Lent
    <3>1. CASE UNCHANGED held
      BY <3>1 DEF Lent
    <3>2. CASE ~UNCHANGED held
      BY <1>0, <1>1, <3>2, HeldShrinks DEF Lent
    <3> QED
      BY <3>1, <3>2
  <2>2. IsFiniteSet(Lent) /\ Cardinality(Lent) \in Nat
    <3>1. Lent \subseteq Item /\ \A i, j \in Lent : i.value = j.value => i = j
      BY <1>0 DEF Lent, Exclusive
    <3> QED
      BY <3>1, FiniteByValue
  <2>3. IsFiniteSet(Lent') /\ Cardinality(Lent') <= Cardinality(Lent)
    BY <2>1, <2>2, FS_Subset
  <2>4. Cardinality(Lent') \in Nat
    BY <2>3, FS_CardinalityType
  <2> QED
    BY <1>0, <2>2, <2>3, <2>4
<1>2. ASSUME NEW c \in Clients, Reserve(c), ~UNCHANGED held
      PROVE  Cardinality(Lent') <= Size
  <2> DEFINE request == call[c].request
  <2>1. PICK view \in Views(read[c]) :
          \E f \in Allotments(Wanted(c, view), Values \ Vals(view)) :
            /\ view = read[c] /\ ~Refused(c, view)
            /\ call[c].op \in {"get", "get_multi"}
            /\ held' = [held EXCEPT ![c] = @ \cup NewItems(Prefix[c], request, f)
                                           \cup OldItems(view, Prefix[c], request)]
            /\ \A e \in Clients : held[e] \subseteq view
    BY <1>2, ReserveKnows
  <2>2. PICK f \in Allotments(Wanted(c, view), Values \ Vals(view)) :
          held' = [held EXCEPT ![c] = @ \cup NewItems(Prefix[c], request, f)
                                        \cup OldItems(view, Prefix[c], request)]
    BY <2>1
  <2>3. call[c].op = "get" /\ Len(request) = 1 /\ request \in Seq(Names \cup {NoName})
    BY <2>1, ClientAssumption DEF Asked
  <2>4. DOMAIN f \subseteq {1}
    BY <2>3 DEF Allotments, Wanted, Missing
  <2> DEFINE item == Fresh(Prefix[c], request[1], f[1])
  <2>5. NewItems(Prefix[c], request, f) \subseteq {item}
    BY <2>4 DEF NewItems
  <2>6. Lent' \subseteq view \cup {item}
    <3>1. OldItems(view, Prefix[c], request) \subseteq view
      BY OldItemsType
    <3>2. ASSUME NEW d \in Clients PROVE held'[d] \subseteq view \cup {item}
      <4> HIDE DEF item, request
      <4> QED
        BY <1>0, <2>1, <2>2, <2>5, <3>1
    <3> QED
      BY <3>2 DEF Lent
  <2>7. IsFiniteSet(view) /\ Cardinality(view) \in Nat
    <3>1. view \subseteq Item /\ \A i, j \in view : i.value = j.value => i = j
      BY <1>0, <2>1 DEF IInv, ReadOnce, TypeOK
    <3> QED
      BY <3>1, FiniteByValue
  <2>8. Cardinality(view) < Size
    BY <1>0, <2>1, <2>3, <2>7 DEF Refused, AtSize
  <2> HIDE DEF item
  <2>9. IsFiniteSet(view \cup {item}) /\ Cardinality(view \cup {item}) <= Cardinality(view) + 1
    <3>1. /\ IsFiniteSet(view \cup {item})
          /\ \/ Cardinality(view \cup {item}) = Cardinality(view)
             \/ Cardinality(view \cup {item}) = Cardinality(view) + 1
      BY <2>7, FS_AddElement, Zenon
    <3> QED
      BY <2>7, <3>1
  <2>10. IsFiniteSet(Lent') /\ Cardinality(Lent') <= Cardinality(view \cup {item})
    BY <2>6, <2>9, FS_Subset
  <2>11. Cardinality(Lent') \in Nat /\ Cardinality(view \cup {item}) \in Nat
    BY <2>9, <2>10, FS_CardinalityType
  <2> QED
    BY <1>0, <2>7, <2>8, <2>9, <2>10, <2>11
<1> QED
  BY <1>1, <1>2

\* A pool with a size that is asked for one item at a time never has more
\* reserved than that, until a clash.
THEOREM SizesAreKept ==
    ASSUME OwnMachines, "get_multi" \notin Workload
    PROVE  Spec => []SizeIsKept
<1>1. Init => Asked /\ SizeIsKept
  <2> SUFFICES ASSUME Init PROVE Asked /\ SizeIsKept
    OBVIOUS
  <2>1. Asked
    BY ClientAssumption DEF Init, Asked, NoCall, Operations
  <2>2. UNION {held[c] : c \in Clients} = {}
    BY DEF Init
  <2> QED
    BY <2>1, <2>2, FS_EmptySet, PoolAssumption DEF SizeIsKept, PoolAssumption
<1>2. IInv /\ IInv' /\ Asked /\ SizeIsKept /\ [Next]_vars => Asked' /\ SizeIsKept'
  BY StepSize, StepAsked DEF IInv
<1> QED
  BY <1>1, <1>2, Invariance, PTL DEF Spec

-----------------------------------------------------------------------------
(* What memcached has, and whose it is *)

Listed(k) == index # NoIndex /\ k \in index

\* An item goes back when its key is struck from the index: until the cas of
\* free or free_all succeeds it is still the caller's, although the caller no
\* longer has it.
Giving(c) == call[c].op \in {"free", "free_all"} /\ pc[c] \in {"gets", "get_multi"}

Returned(c, i) ==
    /\ Giving(c)
    /\ i.prefix = Prefix[c] /\ store[i.value] = i
    /\ call[c].op = "free" => i = call[c].item

Has(c, i) == i \in held[c] \/ Returned(c, i)

\* After that it is about to be deleted.
Striking(c, k) == pc[c] = "delete" /\ k \in todo[c]

\* Every item stored is listed and somebody's, or is about to be deleted.
Accounted ==
    \A k \in Values : store[k] # NoItem =>
        \/ Listed(k) /\ \E c \in Clients : Has(c, store[k])
        \/ \E c \in Clients : store[k].prefix = Prefix[c] /\ Striking(c, k)

\* Every key listed is that of an item somebody has.
Claimed ==
    index # NoIndex =>
        \A k \in index : \E c \in Clients : \E i \in Item : Has(c, i) /\ i.value = k

\* As Informed, but of all that is listed and stored, not of what is held.
Attentive(c) ==
    token[c] = "current" /\ ~overlooked[c] =>
        \A k \in index : store[k] # NoItem => store[k] \in read[c] \/ k \in todo[c]

\* free finds its item in every attempt: it is there until free takes it out,
\* and no other item of the client goes by its name.
Recovers(c) ==
    call[c].op = "free" /\ Giving(c) =>
        /\ call[c].item # NoItem
        /\ Listed(call[c].item.value)
        /\ store[call[c].item.value] = call[c].item
        /\ \A j \in held[c] : j.name # call[c].item.name
        /\ pc[c] = "get_multi" =>
              /\ call[c].item \in read[c] \/ call[c].item.value \in todo[c]
              /\ \A i \in read[c] : i.prefix = Prefix[c] =>
                    i \in held[c] \/ i = call[c].item

\* An item without a name is called by its key.
OwnName == \A c \in Clients : \A i \in held[c] : i.name \in Values => i.name = i.value

Whole ==
    /\ Accounted
    /\ Claimed
    /\ \A c \in Clients : Attentive(c) /\ Recovers(c)
    /\ OwnName

\* No lease runs out, nothing is called but the workload, the constructor has no
\* items to add, only a sync adds any, and what is read was listed.
Quiet(c) ==
    /\ lapsed[c] = {}
    /\ call[c].op \in Operations => call[c].op \in Workload
    /\ pc[c] = "new" \/ call[c].op = "init" => items[c] = {}
    /\ pc[c] \in {"add_index", "update"} => Syncing(c)
    /\ pc[c] = "flush" => call[c].op = "flush"
    /\ pc[c] = "get_multi" =>
          /\ call[c].op # "sync" => pend[c] = {}
          /\ todo[c] \subseteq keys[c]
          /\ \A i \in read[c] : i.value \in keys[c]

\* Who has come as far as reading the index finds one, unless it was flushed.
Founded(c) == pc[c] \in {"new", "add_index"} \/ index # NoIndex

\* What a client reads under its own prefix is what it has, or gives back; so is
\* what its copy of the pool has for the next sync to add.  In the attempts of an
\* operation the copy has more: what was chosen and not published.
OwnHeld(c) ==
    /\ \A i \in read[c] : i.prefix = Prefix[c] =>
          \/ i \in held[c]
          \/ call[c].op = "free" /\ i = call[c].item
          \/ call[c].op = "free_all"
    /\ pc[c] \notin {"gets", "get_multi"} \/ Syncing(c) =>
          \A i \in items[c] : i.prefix = Prefix[c] => i \in held[c]
    /\ call[c].op = "sync" /\ pc[c] = "get_multi" => pend[c] \subseteq held[c]

\* get_multi leaves in the copy what it chose before it found the pool exhausted.
Copied(c) == "get_multi" \in Workload \/ OwnHeld(c)

SyncAlone == "sync" \notin Workload \/ "get_multi" \notin Workload

Sound ==
    /\ IInv /\ ~clash /\ Asked /\ NameIsKept
    /\ \A c \in Clients : Quiet(c) /\ Founded(c) /\ Copied(c)
    /\ Whole

\* A step of c that leaves the server alone.
LEMMA ServerStays ==
    ASSUME Sound, NEW c \in Clients, UNCHANGED <<index, store>>, Alone(c),
           \A i \in Item : Has(c, i) => Has(c, i)',
           \A k \in Values : Striking(c, k) => Striking(c, k)',
           held'[c] \subseteq held[c], Attentive(c)', Recovers(c)'
    PROVE  Whole'
<1>0. TypeOK /\ Whole
  BY DEF Sound, IInv
<1>1. \A d \in Clients, i \in Item : Has(d, i) => Has(d, i)'
  BY DEF Alone, Has, Returned, Giving
<1>2. \A d \in Clients, k \in Values : Striking(d, k) => Striking(d, k)'
  BY DEF Alone, Striking
<1>3. Accounted'
  <2> SUFFICES ASSUME NEW k \in Values, store[k] # NoItem
               PROVE  \/ Listed(k)' /\ \E d \in Clients : Has(d, store[k])'
                      \/ \E d \in Clients : store[k].prefix = Prefix[d] /\ Striking(d, k)'
    BY DEF Accounted
  <2>1. store[k] \in Item /\ (Listed(k) => Listed(k)')
    BY <1>0 DEF TypeOK, Listed
  <2> QED
    BY <1>0, <1>1, <1>2, <2>1 DEF Whole, Accounted
<1>4. Claimed'
  BY <1>0, <1>1 DEF Whole, Claimed
<1>5. \A d \in Clients : Attentive(d)' /\ Recovers(d)'
  <2> SUFFICES ASSUME NEW d \in Clients \ {c} PROVE Attentive(d)' /\ Recovers(d)'
    OBVIOUS
  <2>1. Attentive(d) /\ Recovers(d)
    BY <1>0 DEF Whole
  <2> QED
    BY <2>1 DEF Attentive, Recovers, Giving, Listed, Alone
<1>6. OwnName'
  BY <1>0 DEF Whole, OwnName, Alone
<1> QED
  BY <1>3, <1>4, <1>5, <1>6 DEF Whole

\* Where nothing is listed nobody has anything to give back.
LEMMA NothingListed ==
    ASSUME OwnMachines, Sound, NEW c \in Clients, Giving(c)
    PROVE  /\ \A i \in Item : Returned(c, i) => Listed(i.value)
           /\ \A i \in held[c] : Listed(i.value)
<1>0. TypeOK /\ KeyOfItem /\ Backed /\ Accounted
  BY DEF Sound, IInv, Whole
<1>1. ASSUME NEW i \in Item, Returned(c, i) PROVE Listed(i.value)
  <2>1. i.value \in Values /\ store[i.value] = i /\ i # NoItem /\ i.prefix = Prefix[c]
    BY <1>1, PoolAssumption DEF Item, Values, Returned
  <2>2. ~ \E d \in Clients : i.prefix = Prefix[d] /\ Striking(d, i.value)
    BY <2>1 DEF OwnMachines, Striking, Giving
  <2> QED
    BY <1>0, <2>1, <2>2 DEF Accounted
<1> QED
  BY <1>0, <1>1 DEF Backed, Listed

\* A client that has nothing to return and nothing to delete leaves.
LEMMA LeavesNothing ==
    ASSUME Sound, NEW c \in Clients, NEW label \in {"idle", "new"},
           Leave(c, label, token), UNCHANGED <<index, store, held, lapsed>>,
           \A i \in Item : ~Returned(c, i), \A k \in Values : ~Striking(c, k)
    PROVE  Whole'
<1>0. Local
  BY DEF Sound, IInv, Local
<1>1. Alone(c) /\ token'[c] # "current"
  BY <1>0, LeaveSettles
<1>2. call'[c] = NoCall /\ call'[c].op \notin {"free", "free_all"}
  BY <1>0, ClientAssumption DEF Local, TypeOK, Leave, NoCall, Operations
<1>3. \A i \in Item : Has(c, i) => Has(c, i)'
  BY DEF Has
<1>4. Attentive(c)' /\ Recovers(c)'
  BY <1>1, <1>2 DEF Attentive, Recovers
<1> QED
  BY <1>1, <1>3, <1>4, ServerStays

\* A client begins: what it gives back was stored under its key.
LEMMA StartWhole ==
    ASSUME Sound, IInv', NEW c \in Clients, pc[c] \in {"new", "idle"}, NEW op,
           NEW request, NEW item, NEW label \in {"add_index", "gets", "flush"},
           Start(c, op, request, item, label), UNCHANGED lapsed,
           \A d \in Clients \ {c} : held'[d] = held[d],
           held'[c] \subseteq held[c],
           op \notin {"free", "free_all"} => held'[c] = held[c],
           op = "free" => item \in held[c] /\ held'[c] = held[c] \ {item}
                                           /\ label = "gets",
           op = "free_all" => label = "gets"
    PROVE  Whole'
<1>0. /\ TypeOK /\ Backed /\ Exclusive /\ CurrentToken /\ Owns(c) /\ Whole /\ ~clash
      /\ NameIsKept
  BY DEF Sound, IInv, CallerOwns
<1>1. /\ pc' = [pc EXCEPT ![c] = label]
      /\ call' = [call EXCEPT ![c] = [op |-> op, request |-> request, item |-> item]]
      /\ UNCHANGED <<index, store, items, token, keys, todo, read, pend, keyName,
                     overlooked, clash>>
  BY DEF Start, Goto, server
<1>2. pc'[c] = label /\ call'[c].op = op /\ call'[c].item = item
  BY <1>0, <1>1 DEF TypeOK
<1>3. Alone(c)
  BY <1>0, <1>1 DEF Alone, TypeOK
<1>4. ASSUME NEW i \in held[c]
      PROVE  /\ i \in Item /\ i # NoItem /\ i.prefix = Prefix[c] /\ Listed(i.value)
             /\ store[i.value] = i
  BY <1>0, PoolAssumption DEF TypeOK, Backed, Owns, Listed, Item, Values
<1>5. \A i \in Item : Has(c, i) => Has(c, i)'
  BY <1>1, <1>2, <1>4 DEF Has, Returned, Giving
<1>6. Attentive(c)'
  BY <1>0, <1>1 DEF Attentive, CurrentToken
<1>7. Recovers(c)'
  <2> SUFFICES ASSUME op = "free" PROVE Recovers(c)'
    BY <1>2 DEF Recovers
  <2>1. item \in held[c] /\ held'[c] = held[c] \ {item} /\ label = "gets"
    OBVIOUS
  <2>2. \A j \in held'[c] : j.name # item.name
    <3> SUFFICES ASSUME NEW j \in held[c], j # item, j.name = item.name PROVE FALSE
      BY <2>1
    <3>1. item.name \in Names \cup Values
      BY <1>4, <2>1 DEF Item
    <3>2. item.name \notin Names
      BY <1>0, <2>1 DEF NameIsKept
    <3>3. j.value = item.value
      BY <1>0, <2>1, <3>1, <3>2 DEF Whole, OwnName
    <3> QED
      BY <1>0, <2>1, <3>3 DEF Exclusive
  <2>3. Listed(item.value)' /\ store'[item.value] = item /\ item # NoItem
    BY <1>1, <1>4, <2>1 DEF Listed
  <2> QED
    BY <1>2, <2>1, <2>2, <2>3 DEF Recovers
<1>8. \A k \in Values : ~Striking(c, k)
  BY DEF Striking
<1> QED
  BY <1>1, <1>3, <1>5, <1>6, <1>7, <1>8, ServerStays

LEMMA BeginWhole ==
    ASSUME Sound, IInv', NEW c \in Clients, Begin(c)
    PROVE  Whole'
<1>0. /\ held \in [Clients -> SUBSET Item] /\ lapsed \in [Clients -> SUBSET Item]
      /\ lapsed[c] = {}
  BY DEF Sound, IInv, TypeOK, Quiet
<1>1. CASE BeginFree(c)
  <2>1. PICK item \in held[c] :
            /\ Start(c, "free", <<>>, item, "gets")
            /\ held' = [held EXCEPT ![c] = @ \ {item}]
            /\ lapsed' = [lapsed EXCEPT ![c] = @ \ {item}]
    BY <1>0, <1>1 DEF BeginFree
  <2>2. held'[c] = held[c] \ {item} /\ \A d \in Clients \ {c} : held'[d] = held[d]
    BY <1>0, <2>1
  <2>3. lapsed' = lapsed
    BY <1>0, <2>1
  <2> QED
    BY <1>1, <2>1, <2>2, <2>3, StartWhole DEF BeginFree, Idle
<1>2. CASE BeginFreeAll(c)
  <2>1. held'[c] = {} /\ \A d \in Clients \ {c} : held'[d] = held[d]
    BY <1>0, <1>2 DEF BeginFreeAll
  <2>2. lapsed' = lapsed
    BY <1>0, <1>2 DEF BeginFreeAll
  <2> QED
    BY <1>2, <2>1, <2>2, StartWhole DEF BeginFreeAll, Idle
<1>3. CASE Construct(c)
  BY <1>3, StartWhole DEF Construct, caller
<1>4. CASE BeginGet(c) \/ BeginGetMulti(c)
  BY <1>4, StartWhole DEF BeginGet, BeginGetMulti, Idle, caller
<1>5. CASE BeginSync(c) \/ BeginFlush(c)
  BY <1>5, StartWhole DEF BeginSync, BeginFlush, Idle, caller
<1> QED
  BY <1>1, <1>2, <1>3, <1>4, <1>5 DEF Begin

-----------------------------------------------------------------------------
LEMMA AddIndexWhole ==
    ASSUME Sound, IInv', NEW c \in Clients, AddIndex(c)
    PROVE  Whole'
<1>0. TypeOK /\ CurrentToken /\ ReadOnce /\ Whole
  BY DEF Sound, IInv
<1>1. /\ pc[c] = "add_index" /\ pc' = [pc EXCEPT ![c] = "gets"]
      /\ UNCHANGED <<store, call, keys, todo, read, pend, overlooked, held, lapsed>>
      /\ \/ index' = index /\ token' = token
         \/ /\ index = NoIndex /\ index' = {}
            /\ \A d \in Clients : token'[d] # "current"
  BY <1>0 DEF AddIndex, Goto, caller, Outdated, TypeOK
<1>2. Alone(c) /\ pc'[c] = "gets" /\ token'[c] # "current"
  BY <1>0, <1>1 DEF Alone, TypeOK, CurrentToken
<1>3. /\ \A i \in Item : Has(c, i) => Has(c, i)'
      /\ \A k \in Values : ~Striking(c, k)
      /\ call[c].op # "free"
  BY <1>0, <1>1, <1>2 DEF Has, Returned, Giving, Striking, Sound, Quiet, Syncing
<1>4. Attentive(c)' /\ Recovers(c)'
  BY <1>1, <1>2, <1>3 DEF Attentive, Recovers
<1>5. CASE index' = index
  BY <1>1, <1>2, <1>3, <1>4, <1>5, ServerStays
<1>6. CASE index = NoIndex /\ index' = {} /\ \A d \in Clients : token'[d] # "current"
  <2>1. Accounted'
    BY <1>0, <1>1, <1>2, <1>3, <1>6 DEF Whole, Accounted, Listed, Striking, Alone
  <2>2. Claimed' /\ OwnName'
    BY <1>0, <1>1, <1>6 DEF Claimed, Whole, OwnName
  <2>3. ASSUME NEW d \in Clients \ {c} PROVE Attentive(d)' /\ Recovers(d)'
    <3>1. Recovers(d)
      BY <1>0 DEF Whole
    <3> QED
      BY <1>2, <1>6, <3>1 DEF Attentive, Recovers, Listed, Giving, Alone
  <2> QED
    BY <1>4, <2>1, <2>2, <2>3 DEF Whole
<1> QED
  BY <1>1, <1>5, <1>6

LEMMA GetsWhole ==
    ASSUME OwnMachines, Sound, IInv', NEW c \in Clients, Gets(c)
    PROVE  Whole'
<1>0. TypeOK /\ Recovers(c) /\ Quiet(c) /\ Owns(c)
  BY DEF Sound, IInv, Whole, CallerOwns
<1>1. UNCHANGED <<index, store, held, lapsed>> /\ pc[c] = "gets"
  BY DEF Gets, server, caller
<1>2. \A k \in Values : ~Striking(c, k)
  BY <1>1 DEF Striking
<1>3. CASE index = NoIndex /\ ~Syncing(c)
  <2>1. PICK label \in {"idle", "new"} : Leave(c, label, token)
    BY <1>3 DEF Gets, Raise
  <2>2. \A i \in Item : ~Returned(c, i)
    BY <1>3, NothingListed DEF Returned, Listed
  <2> QED
    BY <1>1, <1>2, <2>1, <2>2, LeavesNothing
<1>4. CASE ~(index = NoIndex /\ ~Syncing(c))
  <2>1. /\ pc' = [pc EXCEPT ![c] = "get_multi"]
        /\ keys' = [keys EXCEPT ![c] = IF index = NoIndex THEN {} ELSE index]
        /\ todo' = [todo EXCEPT ![c] = IF index = NoIndex THEN {} ELSE index]
        /\ token' = [token EXCEPT ![c] = IF index = NoIndex THEN "none" ELSE "current"]
        /\ read' = [read EXCEPT ![c] = {}]
        /\ \E new : pend' = [pend EXCEPT ![c] = new]
        /\ overlooked' = [overlooked EXCEPT ![c] = FALSE]
        /\ UNCHANGED call
    BY <1>4 DEF Gets, Goto
  <2>2. /\ Alone(c) /\ pc'[c] = "get_multi" /\ call'[c] = call[c] /\ read'[c] = {}
        /\ index # NoIndex => todo'[c] = index
        /\ index = NoIndex => token'[c] = "none"
    BY <1>0, <1>1, <2>1 DEF Alone, TypeOK
  <2>3. \A i \in Item : Has(c, i) => Has(c, i)'
    BY <1>1, <2>2 DEF Has, Returned, Giving
  <2>4. Attentive(c)'
    BY <1>1, <2>2 DEF Attentive
  <2>5. Recovers(c)'
    BY <1>0, <1>1, <2>2 DEF Recovers, Giving, Listed
  <2> QED
    BY <1>1, <1>2, <2>2, <2>3, <2>4, <2>5, ServerStays
<1> QED
  BY <1>3, <1>4

\* What a client comes to under its own prefix is what it has.
LEMMA OwnIsHad ==
    ASSUME OwnMachines, Sound, NEW c \in Clients, pc[c] \in {"get_multi", "update"},
           NEW k \in Values, store[k] # NoItem, store[k].prefix = Prefix[c]
    PROVE  Has(c, store[k])
<1>1. PICK d \in Clients : store[k].prefix = Prefix[d]
                           /\ (Has(d, store[k]) \/ Striking(d, k))
  <2>1. \A d \in Clients : Has(d, store[k]) => store[k].prefix = Prefix[d]
    BY DEF Has, Returned, Sound, IInv, CallerOwns, Owns
  <2> QED
    BY <2>1 DEF Sound, Whole, Accounted
<1>2. d = c
  BY <1>1 DEF OwnMachines
<1> QED
  BY <1>1, <1>2 DEF Striking

\* What is read of one's own items is what one has.
LEMMA FetchWhole ==
    ASSUME OwnMachines, Sound, IInv', NEW c \in Clients, Fetch(c)
    PROVE  Whole'
<1>0. /\ TypeOK /\ Recovers(c) /\ Attentive(c) /\ Accounted /\ KeyOfItem /\ CurrentToken
      /\ Owns(c)
  BY DEF Sound, IInv, Whole, CallerOwns
<1>1. PICK k \in todo[c] :
        /\ todo' = [todo EXCEPT ![c] = @ \ {k}]
        /\ read' = [read EXCEPT ![c] = @ \cup ({store[k]} \ {NoItem})]
        /\ overlooked' = [overlooked EXCEPT ![c] = @ \/ Awaited(k)]
  BY DEF Fetch
<1>2. /\ pc[c] \in {"get_multi", "update"} /\ k \in Values
      /\ UNCHANGED <<index, store, items, pc, call, token, keys, pend, held, lapsed>>
  BY <1>0 DEF Fetch, server, caller, TypeOK
<1>3. /\ Alone(c) /\ todo'[c] = todo[c] \ {k}
      /\ read'[c] = read[c] \cup ({store[k]} \ {NoItem})
      /\ ~overlooked'[c] => ~overlooked[c]
  BY <1>0, <1>1, <1>2 DEF Alone, TypeOK
<1>4. \A i \in Item : Has(c, i) => Has(c, i)'
  BY <1>2 DEF Has, Returned, Giving
<1>5. Attentive(c)'
  BY <1>0, <1>2, <1>3 DEF Attentive
<1>6. Recovers(c)'
  <2> SUFFICES ASSUME call[c].op = "free", Giving(c) PROVE Recovers(c)'
    BY <1>2 DEF Recovers, Giving
  <2>1. ASSUME store[k] # NoItem, store[k].prefix = Prefix[c]
        PROVE  store[k] \in held[c] \/ store[k] = call[c].item
    BY <1>2, <2>1, OwnIsHad DEF Has, Returned
  <2>2. call[c].item \in read'[c] \/ call[c].item.value \in todo'[c]
    BY <1>0, <1>2, <1>3 DEF Recovers, Giving
  <2> QED
    BY <1>0, <1>2, <1>3, <2>1, <2>2 DEF Recovers, Giving, Listed
<1>7. \A j \in Values : ~Striking(c, j)
  BY <1>2 DEF Striking
<1> QED
  BY <1>2, <1>3, <1>4, <1>5, <1>6, <1>7, ServerStays

-----------------------------------------------------------------------------
\* An attempt that fails leaves the item the next one looks for.
LEMMA CollideWhole ==
    ASSUME OwnMachines, Sound, IInv', NEW c \in Clients, pc[c] = "get_multi",
           NEW item, NEW name, Collide(c, item, name),
           call[c].op = "free" => item = call[c].item,
           UNCHANGED <<store, held, lapsed>>
    PROVE  Whole'
<1>0. TypeOK /\ Recovers(c) /\ Owns(c) /\ UNCHANGED index
  BY DEF Sound, IInv, Whole, CallerOwns, Collide
<1>1. \A k \in Values : ~Striking(c, k)
  BY DEF Striking
<1>2. CASE index = NoIndex
  <2>1. PICK label \in {"idle", "new"} : Leave(c, label, token)
    BY <1>2 DEF Collide, Raise
  <2>2. \A i \in Item : ~Returned(c, i)
    BY <1>2, NothingListed DEF Returned, Listed
  <2> QED
    BY <1>0, <1>1, <2>1, <2>2, LeavesNothing
<1>3. CASE index # NoIndex
  <2>1. /\ pc' = [pc EXCEPT ![c] = LoopStart(c)]
        /\ token' = [token EXCEPT ![c] = "none"]
        /\ keys' = [keys EXCEPT ![c] = {}]
        /\ read' = [read EXCEPT ![c] = {}]
        /\ overlooked' = [overlooked EXCEPT ![c] = FALSE]
        /\ call' = [call EXCEPT ![c] =
                      [op |-> call[c].op, request |-> call[c].request, item |-> item]]
        /\ UNCHANGED <<todo, pend>>
    BY <1>0, <1>3 DEF Collide, TypeOK, Goto
  <2>2. /\ Alone(c) /\ pc'[c] = LoopStart(c) /\ call'[c].op = call[c].op
        /\ call'[c].item = item /\ token'[c] = "none"
    BY <1>0, <2>1 DEF Alone, TypeOK
  <2>3. \A i \in Item : Has(c, i) => Has(c, i)'
    BY <2>2 DEF Has, Returned, Giving, LoopStart, Syncing
  <2>4. Attentive(c)' /\ Recovers(c)'
    BY <1>0, <2>2 DEF Attentive, Recovers, Giving, Listed, LoopStart, Syncing
  <2> QED
    BY <1>0, <1>1, <2>2, <2>3, <2>4, ServerStays
<1> QED
  BY <1>2, <1>3

\* free finds what it was called with.
LEMMA FreesIt ==
    ASSUME Sound, NEW c \in Clients, Answered(c), call[c].op = "free",
           NEW view \in Views(read[c])
    PROVE  /\ call[c].item \in Item /\ call[c].item # NoItem
           /\ call[c].item \in view /\ Frees(view, Prefix[c], call[c].item)
<1> DEFINE item == call[c].item
<1>1. Recovers(c) /\ TypeOK /\ Owns(c)
  BY DEF Sound, IInv, Whole, CallerOwns
<1>2. /\ item # NoItem /\ item \in read[c]
      /\ \A j \in held[c] : j.name # item.name
      /\ \A i \in read[c] : i.prefix = Prefix[c] => i \in held[c] \/ i = item
      /\ item.prefix = Prefix[c]
  BY <1>1 DEF Recovers, Giving, Answered, Owns
<1>3. item \in Item
  BY <1>1, <1>2 DEF TypeOK
<1>4. PICK j \in view : Id(j) = Id(item)
  BY <1>2 DEF Views, Ids
<1>5. j \in read[c] /\ j.prefix = Prefix[c] /\ j.name = item.name
  BY <1>2, <1>4 DEF Views, Id
<1>6. j = item
  BY <1>2, <1>5
<1>7. item \in Popped(view, Prefix[c], item)
  BY <1>2, <1>4, <1>6 DEF Popped, Id
<1> QED
  BY <1>2, <1>3, <1>4, <1>6, <1>7 DEF Frees, Vals

\* A client that publishes has read all that is listed and stored.
LEMMA PublishKnows ==
    ASSUME Sound, NEW c \in Clients, Answered(c), token[c] = "current", ~overlooked[c]
    PROVE  /\ index # NoIndex
           /\ \A k \in index : store[k] # NoItem => store[k] \in read[c]
           /\ Vals(read[c]) \subseteq index
<1>1. CurrentToken /\ Attentive(c) /\ Quiet(c)
  BY DEF Sound, IInv, Whole
<1>2. index # NoIndex /\ keys[c] = index /\ todo[c] = {} /\ pc[c] = "get_multi"
  BY <1>1 DEF CurrentToken, Answered
<1> QED
  BY <1>1, <1>2 DEF Attentive, Quiet, Vals

\* A cas that succeeds.  Keys it strikes are those of the client's own items,
\* which it then deletes; keys it adds are those of items it then has.
LEMMA PublishWhole ==
    ASSUME OwnMachines, Sound, IInv', NEW c \in Clients,
           Answered(c), Alone(c), UNCHANGED store,
           index' # NoIndex, \A d \in Clients : token'[d] # "current",
           \A k \in index' : k \in index \/ \E i \in held'[c] : i.value = k,
           \A k \in index \ index' :
                store[k] # NoItem => store[k].prefix = Prefix[c] /\ Striking(c, k)',
           \A i \in Item : Has(c, i) => Has(c, i)' \/ i.value \notin index',
           ~Giving(c)', OwnName', index # NoIndex
    PROVE  Whole'
<1>0. TypeOK /\ TypeOK' /\ KeyOfItem /\ Whole /\ CallerOwns
  BY DEF Sound, IInv
<1>1. \A d \in Clients, i \in Item : Has(d, i) => Has(d, i)' \/ i.value \notin index'
  BY DEF Alone, Has, Returned, Giving
<1>2. \A d \in Clients, k \in Values : Striking(d, k) => Striking(d, k)'
  BY DEF Alone, Striking, Answered
<1>3. Accounted'
  <2> SUFFICES ASSUME NEW k \in Values, store[k] # NoItem
               PROVE  \/ Listed(k)' /\ \E d \in Clients : Has(d, store[k])'
                      \/ \E d \in Clients : store[k].prefix = Prefix[d] /\ Striking(d, k)'
    BY DEF Accounted
  <2>1. store[k] \in Item /\ store[k].value = k
    BY <1>0 DEF TypeOK, KeyOfItem
  <2>2. CASE Listed(k) /\ k \notin index'
    BY <2>2 DEF Listed
  <2>3. CASE Listed(k) /\ k \in index' /\ \E d \in Clients : Has(d, store[k])
    BY <1>1, <2>1, <2>3 DEF Listed
  <2>4. CASE \E d \in Clients : store[k].prefix = Prefix[d] /\ Striking(d, k)
    BY <1>2, <2>4
  <2> QED
    BY <1>0, <2>2, <2>3, <2>4 DEF Whole, Accounted
<1>4. Claimed'
  <2> SUFFICES ASSUME NEW k \in index'
               PROVE  \E d \in Clients : \E i \in Item : Has(d, i)' /\ i.value = k
    BY DEF Claimed
  <2>1. CASE \E i \in held'[c] : i.value = k
    BY <1>0, <2>1 DEF Has, TypeOK
  <2>2. CASE k \in index
    BY <1>0, <1>1, <2>2 DEF Whole, Claimed
  <2> QED
    BY <2>1, <2>2
<1>5. ASSUME NEW d \in Clients PROVE Attentive(d)' /\ Recovers(d)'
  <2>1. Attentive(d)'
    BY DEF Attentive
  <2>2. CASE d = c
    BY <2>1, <2>2 DEF Recovers
  <2>3. CASE d # c
    <3> SUFFICES ASSUME call[d].op = "free", Giving(d) PROVE Recovers(d)'
      BY <2>1, <2>3 DEF Recovers, Alone, Giving
    <3>1. Recovers(d) /\ Owns(d)
      BY <1>0 DEF Whole, CallerOwns
    <3>2. call[d].item.prefix # Prefix[c]
      BY <2>3, <3>1 DEF Recovers, Owns, OwnMachines
    <3>3. PICK k : k = call[d].item.value
      OBVIOUS
    <3>4. k \in index /\ store[k] # NoItem /\ store[k].prefix # Prefix[c]
      BY <3>1, <3>2, <3>3 DEF Recovers, Listed
    <3>5. Listed(k)'
      BY <3>4 DEF Listed
    <3> QED
      BY <2>3, <3>1, <3>3, <3>5 DEF Recovers, Alone, Giving, Listed
  <2> QED
    BY <2>1, <2>2, <2>3
<1> QED
  BY <1>3, <1>4, <1>5 DEF Whole

LEMMA ReserveWhole ==
    ASSUME OwnMachines, Sound, IInv', ~clash', NEW c \in Clients, Reserve(c)
    PROVE  Whole'
<1>0. /\ TypeOK /\ TypeOK' /\ Local /\ Answered(c) /\ pc[c] = "get_multi" /\ Whole
      /\ call[c].op \in {"get", "get_multi"} /\ UNCHANGED <<store, lapsed>>
  BY DEF Sound, IInv, Local, Reserve, Chooses, Answered
<1>1. PICK view \in Views(read[c]) :
        \E f \in Allotments(Wanted(c, view), Values \ Vals(view)) : Claim(c, view, f)
  BY DEF Reserve
<1>4. PICK f \in Allotments(Wanted(c, view), Values \ Vals(view)) : Claim(c, view, f)
  BY <1>1
<1>5. call[c].request \in Seq(Names \cup {NoName})
  BY <1>0 DEF TypeOK, Call
<1> DEFINE new == NewItems(Prefix[c], call[c].request, f)
           old == OldItems(view, Prefix[c], call[c].request)
<1>2. CASE Collide(c, NoItem, 0) /\ UNCHANGED held
  BY <1>0, <1>2, CollideWhole
<1>3. CASE /\ Publish(c, Vals(read[c]) \cup Vals(new \cup old))
           /\ Proceed(c, "store")
           /\ pend' = [pend EXCEPT ![c] = new \cup old]
           /\ held' = [held EXCEPT ![c] = @ \cup new \cup old]
           /\ clash' = (clash \/ overlooked[c] \/ view # read[c])
           /\ UNCHANGED <<todo, keyName>>
  <2>1. /\ held'[c] = held[c] \cup new \cup old
        /\ \A d \in Clients \ {c} : held'[d] = held[d] /\ todo'[d] = todo[d]
                                    /\ pend'[d] = pend[d] /\ lapsed'[d] = lapsed[d]
    <3> HIDE DEF new, old
    <3> QED
      BY <1>0, <1>3 DEF TypeOK
  <2>2. /\ Alone(c) /\ pc'[c] = "store" /\ call' = call
        /\ \A d \in Clients : token'[d] # "current"
    BY <1>0, <1>3, <2>1, ProceedSettles
  <2>3. /\ index # NoIndex
        /\ \A k \in index : store[k] # NoItem => store[k] \in read[c]
        /\ Vals(read[c]) \subseteq index
    BY <1>0, <1>3, PublishKnows DEF Publish
  <2>4. index' = Vals(read[c]) \cup Vals(new \cup old) /\ index' # NoIndex
    <3>1. index' = Vals(read[c]) \cup Vals(new \cup old)
      BY <1>3 DEF Publish
    <3>2. new \cup old \subseteq held'[c]
      BY <2>1
    <3>3. index' \subseteq Values
      <4> HIDE DEF new, old
      <4> QED
        BY <1>0, <3>1, <3>2 DEF Vals, TypeOK, Item
    <3> QED
      BY <3>1, <3>3, ClientAssumption
  <2>5. \A k \in index' : k \in index \/ \E i \in held'[c] : i.value = k
    BY <2>1, <2>3, <2>4 DEF Vals
  <2>6. \A k \in index : store[k] # NoItem => k \in index'
    <3> SUFFICES ASSUME NEW k \in index, store[k] # NoItem PROVE k \in index'
      OBVIOUS
    <3>1. store[k].value = k
      BY <1>0, <2>3 DEF TypeOK, Local, KeyOfItem
    <3> QED
      BY <2>3, <2>4, <3>1 DEF Vals
  <2>7. \A i \in Item : Has(c, i) => Has(c, i)'
    BY <1>0, <2>1 DEF Has, Returned, Giving
  <2>8. OwnName'
    <3>1. \A i \in new : i.name \in Values => i.name = i.value
      <4>1. ASSUME NEW n \in DOMAIN f,
                   Fresh(Prefix[c], call[c].request[n], f[n]).name \in Values
            PROVE  Fresh(Prefix[c], call[c].request[n], f[n]).name = f[n]
        <5>1. call[c].request[n] \in Names \cup {NoName}
          BY <1>5 DEF Allotments, Wanted, Missing
        <5> QED
          BY <4>1, <5>1, PoolAssumption DEF Fresh, Values
      <4> QED
        BY <4>1 DEF NewItems, Fresh
    <3>2. \A i \in old : i.name \notin Values
      <4> SUFFICES ASSUME NEW n \in DOMAIN call[c].request,
                          NEW i \in Saved(view, Prefix[c], call[c].request[n])
                   PROVE  i.name \notin Values
        BY DEF OldItems
      <4>1. call[c].request[n] \in Names \cup {NoName}
        BY <1>5
      <4> QED
        BY <4>1, PoolAssumption DEF Saved, Id, Values
    <3> QED
      <4> HIDE DEF new, old
      <4> QED
        BY <1>0, <2>1, <3>1, <3>2 DEF Whole, OwnName
  <2>9. ~Giving(c)'
    BY <1>0, <2>2 DEF Giving
  <2> QED
    BY <1>0, <2>2, <2>3, <2>4, <2>5, <2>6, <2>7, <2>8, <2>9, PublishWhole
<1> QED
  BY <1>2, <1>3, <1>4 DEF Claim

LEMMA ReleaseWhole ==
    ASSUME OwnMachines, Sound, IInv', ~clash', NEW c \in Clients, Release(c)
    PROVE  Whole'
<1> DEFINE item == call[c].item
<1>0. /\ TypeOK /\ TypeOK' /\ Local /\ Answered(c) /\ pc[c] = "get_multi" /\ Whole
      /\ call[c].op = "free" /\ UNCHANGED <<store, held, lapsed>>
      /\ Recovers(c) /\ Owns(c)
  BY DEF Sound, IInv, Local, Release, Answered, Whole, CallerOwns, caller
<1>1. PICK view \in Views(read[c]) : item # NoItem => GiveBack(c, view, item)
  BY DEF Release
<1>2. /\ item \in Item /\ item # NoItem
      /\ item \in view /\ Frees(view, Prefix[c], item)
  BY <1>0, FreesIt
<1>3. CASE Collide(c, item, item.value)
  BY <1>0, <1>3, CollideWhole
<1>4. CASE /\ Publish(c, Vals(read[c]) \ {item.value})
           /\ clash' = (clash \/ overlooked[c] \/ view # read[c])
           /\ Proceed(c, "delete")
           /\ todo' = [todo EXCEPT ![c] = {item.value}]
           /\ UNCHANGED pend
  <2>1. todo'[c] = {item.value} /\ \A d \in Clients \ {c} : todo'[d] = todo[d]
    BY <1>0, <1>4 DEF TypeOK
  <2>2. /\ Alone(c) /\ pc'[c] = "delete" /\ call' = call
        /\ \A d \in Clients : token'[d] # "current"
    BY <1>0, <1>4, <2>1, ProceedSettles
  <2>3. /\ index # NoIndex
        /\ \A k \in index : store[k] # NoItem => store[k] \in read[c]
        /\ Vals(read[c]) \subseteq index
    BY <1>0, <1>4, PublishKnows DEF Publish
  <2>4. index' = Vals(read[c]) \ {item.value}
    BY <1>4 DEF Publish
  <2>5. index' # NoIndex
    BY <1>0, <2>4, ValsType, ClientAssumption DEF TypeOK
  <2>6. \A k \in index \ index' : store[k] # NoItem =>
           store[k].prefix = Prefix[c] /\ Striking(c, k)'
    <3> SUFFICES ASSUME NEW k \in index \ index', store[k] # NoItem
                 PROVE  store[k].prefix = Prefix[c] /\ Striking(c, k)'
      OBVIOUS
    <3>1. store[k].value = k /\ store[k] \in read[c]
      BY <1>0, <2>3 DEF TypeOK, Local, KeyOfItem
    <3>2. k = item.value
      BY <2>4, <3>1 DEF Vals
    <3>3. store[k] = item /\ item.prefix = Prefix[c]
      BY <1>0, <1>2, <3>2 DEF Recovers, Giving, Owns
    <3> QED
      BY <2>1, <2>2, <3>2, <3>3 DEF Striking
  <2>7. \A i \in Item : Has(c, i) => Has(c, i)' \/ i.value \notin index'
    BY <1>0, <2>4 DEF Has, Returned
  <2>8. OwnName' /\ ~Giving(c)'
    BY <1>0, <2>2 DEF Whole, OwnName, Giving
  <2> QED
    BY <1>0, <2>2, <2>3, <2>4, <2>5, <2>6, <2>7, <2>8, PublishWhole
<1>5. item.value # 0
  BY <1>2, PoolAssumption DEF Item, Values
<1> QED
  BY <1>1, <1>2, <1>3, <1>4, <1>5 DEF GiveBack

\* free_all takes out what is listed under the client's prefix.
LEMMA ReleaseAllWhole ==
    ASSUME OwnMachines, Sound, IInv', ~clash', NEW c \in Clients, ReleaseAll(c)
    PROVE  Whole'
<1>0. /\ TypeOK /\ TypeOK' /\ Local /\ Answered(c) /\ pc[c] = "get_multi" /\ Whole
      /\ call[c].op = "free_all" /\ UNCHANGED <<store, held, lapsed>>
      /\ Giving(c) /\ held[c] = {}
  BY DEF Sound, IInv, Local, ReleaseAll, Answered, CallerOwns, Owns, caller, Giving
<1>1. PICK view \in Views(read[c]) : GiveBackAll(c, view, LocalItems(Prefix[c], view))
  BY DEF ReleaseAll
<1> DEFINE gone == LocalItems(Prefix[c], view)
<1>2. \A i \in view : i \in gone <=> i.prefix = Prefix[c]
  BY DEF LocalItems, Covers, OwnMachines
<1>3. gone \subseteq view /\ view \subseteq read[c] /\ Vals(gone) \subseteq Values
  BY <1>0, ViewsType, ValsType DEF LocalItems, Views, TypeOK
<1> HIDE DEF gone
<1>4. CASE Collide(c, NoItem, 0)
  BY <1>0, <1>4, CollideWhole
<1>5. CASE /\ Publish(c, Vals(read[c]) \ Vals(gone))
           /\ clash' = (clash \/ overlooked[c] \/ view # read[c])
           /\ \/ gone = {} /\ Leave(c, "idle", Outdated)
              \/ /\ gone # {} /\ Proceed(c, "delete")
                 /\ todo' = [todo EXCEPT ![c] = Vals(gone)]
                 /\ UNCHANGED <<pend, keyName>>
  <2>1. index' = Vals(read[c]) \ Vals(gone) /\ view = read[c]
    BY <1>5 DEF Publish
  <2>2. /\ Alone(c) /\ ~Giving(c)' /\ \A d \in Clients : token'[d] # "current"
        /\ \A k \in Vals(gone) : Striking(c, k)'
    <3>1. CASE gone = {} /\ Leave(c, "idle", Outdated)
      <4>1. Alone(c) /\ pc'[c] = "idle"
        BY <1>0, <3>1, LeaveSettles
      <4>2. \A d \in Clients : token'[d] # "current"
        BY <1>0, <3>1 DEF Leave, Outdated, Local, TypeOK
      <4> QED
        BY <3>1, <4>1, <4>2 DEF Giving, Vals
    <3>2. CASE /\ Proceed(c, "delete")
               /\ todo' = [todo EXCEPT ![c] = Vals(gone)]
               /\ UNCHANGED <<pend, keyName>>
      <4>1. todo'[c] = Vals(gone) /\ \A d \in Clients \ {c} : todo'[d] = todo[d]
        BY <1>0, <3>2 DEF TypeOK
      <4> QED
        BY <1>0, <3>2, <4>1, ProceedSettles DEF Giving, Striking
    <3> QED
      BY <1>5, <3>1, <3>2
  <2>3. /\ index # NoIndex
        /\ \A k \in index : store[k] # NoItem => store[k] \in read[c]
        /\ Vals(read[c]) \subseteq index
    BY <1>0, <1>5, PublishKnows DEF Publish
  <2>4. index' # NoIndex
    BY <1>0, <2>1, ValsType, ClientAssumption DEF TypeOK
  <2>5. \A k \in index \ index' : store[k] # NoItem =>
           store[k].prefix = Prefix[c] /\ Striking(c, k)'
    <3> SUFFICES ASSUME NEW k \in index \ index', store[k] # NoItem
                 PROVE  store[k].prefix = Prefix[c] /\ Striking(c, k)'
      OBVIOUS
    <3>1. store[k].value = k /\ store[k] \in read[c]
      BY <1>0, <2>3 DEF TypeOK, Local, KeyOfItem
    <3>2. k \in Vals(gone)
      BY <2>1, <3>1 DEF Vals
    <3>3. PICK g \in gone : g.value = k
      BY <3>2 DEF Vals
    <3>4. g = store[k]
      BY <1>0, <1>3, <3>1, <3>3 DEF Local, ReadOnce
    <3> QED
      BY <1>2, <1>3, <2>2, <3>2, <3>3, <3>4
  <2>6. \A i \in Item : Has(c, i) => i.value \notin index'
    <3> SUFFICES ASSUME NEW i \in Item, Returned(c, i) PROVE i.value \in Vals(gone)
      BY <1>0, <2>1 DEF Has
    <3>1. Listed(i.value) /\ store[i.value] = i /\ i.prefix = Prefix[c]
      BY <1>0, NothingListed DEF Returned
    <3>2. i \in gone
      BY <1>2, <2>1, <2>3, <3>1, PoolAssumption DEF Listed, Item, Values
    <3> QED
      BY <3>2 DEF Vals
  <2>7. OwnName'
    BY <1>0 DEF Whole, OwnName
  <2> QED
    BY <1>0, <2>1, <2>2, <2>3, <2>4, <2>5, <2>6, <2>7, PublishWhole
<1> QED
  BY <1>1, <1>4, <1>5 DEF GiveBackAll, gone

\* The items a sync adds are the client's.
LEMMA SyncOwns ==
    ASSUME OwnMachines, SyncAlone, Sound, NEW c \in Clients, Syncing(c)
    PROVE  /\ LocalItems(Prefix[c], items[c]) \subseteq held[c]
           /\ pc[c] = "get_multi" => pend[c] \subseteq held[c]
<1>1. Quiet(c) /\ Copied(c)
  BY DEF Sound
<1>2. CASE call[c].op = "init"
  BY <1>1, <1>2 DEF Quiet, LocalItems
<1>3. CASE call[c].op = "sync"
  <2>1. OwnHeld(c)
    BY <1>1, <1>3 DEF Quiet, Copied, SyncAlone, Operations
  <2> QED
    BY <1>3, <2>1 DEF OwnHeld, LocalItems, Covers, OwnMachines, Syncing
<1> QED
  BY <1>2, <1>3 DEF Syncing

\* A sync publishes nothing that it has not read.
LEMMA PublishLocalWhole ==
    ASSUME OwnMachines, SyncAlone, Sound, IInv', ~clash', NEW c \in Clients,
           PublishLocal(c)
    PROVE  Whole'
<1>0. /\ TypeOK /\ TypeOK' /\ Local /\ Answered(c) /\ pc[c] = "get_multi" /\ Whole
      /\ Syncing(c) /\ Informed /\ UNCHANGED <<store, items, held, lapsed>>
  BY DEF Sound, IInv, Local, PublishLocal, Answered, caller
<1>1. ~Giving(c) /\ call[c].op # "free" /\ \A k \in Values : ~Striking(c, k)
  BY <1>0 DEF Giving, Striking, Syncing
<1>2. CASE Raise(c) /\ UNCHANGED index
  <2>1. PICK label \in {"idle", "new"} : Leave(c, label, token)
    BY <1>2 DEF Raise
  <2> QED
    BY <1>0, <1>1, <1>2, <2>1, LeavesNothing DEF Returned
<1>3. CASE Collide(c, NoItem, 0)
  BY <1>0, <1>1, <1>3, CollideWhole
<1>4. CASE /\ Publish(c, Vals(read[c]) \cup Vals(LocalItems(Prefix[c], items[c])))
           /\ clash' = (clash \/ overlooked[c])
           /\ Proceed(c, "update")
           /\ todo' = [todo EXCEPT ![c] = keys[c]]
           /\ UNCHANGED <<pend, keyName>>
  <2>1. index' = Vals(read[c])
    <3>1. LocalItems(Prefix[c], items[c]) \subseteq read[c]
      BY <1>0, <1>4, SyncOwns DEF Publish, Informed, Answered
    <3> QED
      BY <1>4, <3>1 DEF Publish, Vals
  <2>2. \A d \in Clients \ {c} : todo'[d] = todo[d]
    BY <1>0, <1>4 DEF TypeOK
  <2>3. /\ Alone(c) /\ pc'[c] = "update" /\ call' = call
        /\ \A d \in Clients : token'[d] # "current"
    BY <1>0, <1>4, <2>2, ProceedSettles
  <2>4. /\ index # NoIndex
        /\ \A k \in index : store[k] # NoItem => store[k] \in read[c]
        /\ Vals(read[c]) \subseteq index
    BY <1>0, <1>4, PublishKnows DEF Publish
  <2>5. \A k \in index \ index' : store[k] = NoItem
    <3> SUFFICES ASSUME NEW k \in index, store[k] # NoItem PROVE k \in index'
      OBVIOUS
    <3>1. store[k].value = k
      BY <1>0, <2>4 DEF TypeOK, Local, KeyOfItem
    <3> QED
      BY <2>1, <2>4, <3>1 DEF Vals
  <2>6. index' # NoIndex
    BY <1>0, <2>1, ValsType, ClientAssumption DEF TypeOK
  <2>7. ~Giving(c)' /\ OwnName' /\ \A i \in Item : Has(c, i) => Has(c, i)'
    BY <1>0, <1>1, <2>3 DEF Giving, Whole, OwnName, Has, Returned
  <2> QED
    BY <1>0, <2>1, <2>3, <2>4, <2>5, <2>6, <2>7, PublishWhole
<1> QED
  BY <1>2, <1>3, <1>4 DEF PublishLocal

LEMMA StoreItemWhole ==
    ASSUME OwnMachines, Sound, IInv', ~clash', NEW c \in Clients, StoreItem(c)
    PROVE  Whole'
<1>0. /\ TypeOK /\ TypeOK' /\ Local /\ Whole /\ Shared /\ pc[c] = "store"
      /\ ~clash /\ UNCHANGED <<index, items, held, lapsed>>
  BY DEF Sound, IInv, Local, Shared, StoreItem, caller
<1>1. PICK item \in pend[c] :
        /\ store' = IF call[c].op = "get" /\ store[item.value] # NoItem THEN store
                    ELSE [store EXCEPT ![item.value] = item]
        /\ store[item.value] \in {NoItem, item}
        /\ IF pend[c] = {item}
             THEN Return(c)
             ELSE /\ pend' = [pend EXCEPT ![c] = @ \ {item}]
                  /\ UNCHANGED <<pc, call, token, keys, todo, read, keyName, overlooked>>
  BY DEF StoreItem
<1>2. item \in held[c] /\ item \in Item /\ item.value \in Values /\ item # NoItem
  BY <1>0, PoolAssumption DEF Local, CallerOwns, Owns, TypeOK, Item, Values
<1>3. \A k \in Values : store'[k] = IF k = item.value THEN item ELSE store[k]
  BY <1>0, <1>1, <1>2 DEF TypeOK
<1>4. /\ Alone(c) /\ token'[c] # "current" /\ ~Giving(c)'
  <2>1. CASE pend[c] = {item}
    <3>1. Leave(c, "idle", token)
      BY <1>1, <2>1 DEF Return
    <3>2. Alone(c) /\ token'[c] # "current" /\ pc'[c] = "idle"
      BY <1>0, <3>1, LeaveSettles
    <3> QED
      BY <3>2 DEF Giving
  <2>2. CASE pend[c] # {item}
    BY <1>0, <1>1, <2>2 DEF Alone, Giving, Local, CurrentToken, TypeOK
  <2> QED
    BY <2>1, <2>2
<1>5. \A i \in Item, d \in Clients : Has(d, i) => Has(d, i)'
  <2> SUFFICES ASSUME NEW i \in Item, NEW d \in Clients, Returned(d, i), i \notin held[d]
               PROVE  Has(d, i)'
    BY <1>0 DEF Has
  <2>1. d # c
    BY <1>0 DEF Returned, Giving
  <2>2. store[i.value] = i /\ i.value \in Values /\ i # NoItem
    BY PoolAssumption DEF Returned, Item, Values
  <2>3. store'[i.value] = i
    BY <1>1, <1>3, <2>2
  <2> QED
    BY <1>4, <2>1, <2>3 DEF Has, Returned, Giving, Alone
<1>6. Accounted'
  <2> SUFFICES ASSUME NEW k \in Values, store'[k] # NoItem
               PROVE  \/ Listed(k)' /\ \E d \in Clients : Has(d, store[k])'
                      \/ \E d \in Clients : store'[k].prefix = Prefix[d] /\ Striking(d, k)'
    BY DEF Accounted
  <2>1. CASE k = item.value
    BY <1>0, <1>2, <1>3, <2>1 DEF Shared, Backed, Listed, Has
  <2>2. CASE k # item.value
    <3>1. store'[k] = store[k] /\ store[k] \in Item
      BY <1>0, <1>3, <2>2 DEF TypeOK
    <3>2. \A d \in Clients : Striking(d, k) => Striking(d, k)'
      BY <1>0, <1>4 DEF Striking, Alone
    <3> QED
      BY <1>0, <1>5, <3>1, <3>2 DEF Whole, Accounted, Listed
  <2> QED
    BY <2>1, <2>2
<1>7. Claimed' /\ OwnName'
  BY <1>0, <1>5 DEF Whole, Claimed, OwnName
<1>8. ASSUME NEW d \in Clients PROVE Attentive(d)'
  <2> SUFFICES ASSUME d # c, token[d] = "current", ~overlooked[d],
                      NEW k \in index, store'[k] # NoItem
               PROVE  store'[k] \in read[d] \/ k \in todo[d]
    BY <1>0, <1>4 DEF Attentive, Alone
  <2>1. k \in Values
    BY <1>0 DEF Local, CurrentToken, TypeOK
  <2> QED
    BY <1>0, <1>2, <1>3, <2>1 DEF Whole, Attentive, Shared, Informed
<1>9. ASSUME NEW d \in Clients PROVE Recovers(d)'
  <2> SUFFICES ASSUME d # c, call[d].op = "free", Giving(d) PROVE Recovers(d)'
    BY <1>4 DEF Recovers, Giving, Alone
  <2> DEFINE own == call[d].item
  <2>1. own # NoItem /\ store[own.value] = own /\ own.value \in Values
    BY <1>0, PoolAssumption DEF Whole, Recovers, TypeOK, Call, Item, Values
  <2>2. store'[own.value] = own
    BY <1>1, <1>3, <2>1
  <2> QED
    BY <1>0, <1>4, <2>2 DEF Whole, Recovers, Giving, Alone, Listed
<1> QED
  BY <1>6, <1>7, <1>8, <1>9 DEF Whole

\* A key that is deleted is not listed, or that is a clash.
LEMMA DeleteWhole ==
    ASSUME OwnMachines, Sound, IInv', ~clash', NEW c \in Clients, Delete(c)
    PROVE  Whole'
<1>0. /\ TypeOK /\ TypeOK' /\ Local /\ Whole /\ pc[c] = "delete"
      /\ UNCHANGED <<index, items, held, lapsed>>
  BY DEF Sound, IInv, Local, Delete, caller
<1>1. PICK k \in todo[c] :
        /\ store' = [store EXCEPT ![k] = NoItem]
        /\ index # NoIndex /\ k \notin index
        /\ IF todo[c] = {k} /\ call[c].op # "flush"
             THEN Return(c)
             ELSE /\ todo' = [todo EXCEPT ![c] = @ \ {k}]
                  /\ UNCHANGED <<pc, call, token, keys, read, pend, keyName, overlooked>>
  BY DEF Delete
<1>2. k \in Values /\ \A j \in Values : store'[j] = IF j = k THEN NoItem ELSE store[j]
  BY <1>0, <1>1 DEF TypeOK
<1>3. /\ Alone(c) /\ token'[c] # "current" /\ ~Giving(c)'
      /\ \A j \in Values : Striking(c, j) /\ j # k => Striking(c, j)'
  <2>1. CASE todo[c] = {k} /\ call[c].op # "flush"
    <3>1. Leave(c, "idle", token)
      BY <1>1, <2>1 DEF Return
    <3>2. Alone(c) /\ token'[c] # "current" /\ pc'[c] = "idle"
      BY <1>0, <3>1, LeaveSettles
    <3> QED
      BY <2>1, <3>2 DEF Giving, Striking
  <2>2. CASE ~(todo[c] = {k} /\ call[c].op # "flush")
    <3>1. /\ todo' = [todo EXCEPT ![c] = @ \ {k}]
          /\ UNCHANGED <<pc, call, token, keys, read, pend, keyName, overlooked>>
      BY <1>1, <2>2
    <3> QED
      BY <1>0, <3>1 DEF Alone, Giving, Striking, Local, CurrentToken, TypeOK
  <2> QED
    BY <2>1, <2>2
<1>4. \A i \in Item, d \in Clients : Has(d, i) /\ i.value # k => Has(d, i)'
  <2> SUFFICES ASSUME NEW i \in Item, NEW d \in Clients, Returned(d, i), i.value # k
               PROVE  Returned(d, i)'
    BY <1>0 DEF Has
  <2>1. store'[i.value] = store[i.value] /\ d # c
    BY <1>0, <1>2 DEF Item, Returned, Giving
  <2> QED
    BY <1>3, <2>1 DEF Returned, Giving, Alone
<1>5. Accounted'
  <2> SUFFICES ASSUME NEW j \in Values, j # k, store[j] # NoItem
               PROVE  \/ Listed(j)' /\ \E d \in Clients : Has(d, store[j])'
                      \/ \E d \in Clients : store[j].prefix = Prefix[d] /\ Striking(d, j)'
    BY <1>2 DEF Accounted
  <2>1. store[j] \in Item /\ store[j].value = j
    BY <1>0 DEF TypeOK, Local, KeyOfItem
  <2>2. \A d \in Clients : Striking(d, j) => Striking(d, j)'
    BY <1>3 DEF Striking, Alone
  <2>3. store'[j] = store[j]
    BY <1>2
  <2> QED
    BY <1>0, <1>4, <2>1, <2>2, <2>3 DEF Whole, Accounted, Listed
<1>6. Claimed' /\ OwnName'
  BY <1>0, <1>1, <1>4 DEF Whole, Claimed, OwnName
<1>7. ASSUME NEW d \in Clients PROVE Attentive(d)'
  <2> SUFFICES ASSUME d # c, token[d] = "current", ~overlooked[d],
                      NEW j \in index, store'[j] # NoItem
               PROVE  store'[j] \in read[d] \/ j \in todo[d]
    BY <1>0, <1>3 DEF Attentive, Alone
  <2>1. j \in Values /\ j # k
    BY <1>0, <1>1 DEF TypeOK
  <2> QED
    BY <1>0, <1>2, <2>1 DEF Whole, Attentive
<1>8. ASSUME NEW d \in Clients PROVE Recovers(d)'
  <2> SUFFICES ASSUME d # c, call[d].op = "free", Giving(d) PROVE Recovers(d)'
    BY <1>3 DEF Recovers, Giving, Alone
  <2> DEFINE own == call[d].item
  <2>1. own # NoItem /\ own.value \in Values /\ own.value # k
    BY <1>0, <1>1 DEF Whole, Recovers, Listed, TypeOK, Call, Item
  <2>2. store'[own.value] = store[own.value]
    BY <1>2, <2>1
  <2> QED
    BY <1>0, <1>3, <2>2 DEF Whole, Recovers, Giving, Alone, Listed
<1> QED
  BY <1>5, <1>6, <1>7, <1>8 DEF Whole

\* What a sync adds is there already.
LEMMA AddLocalWhole ==
    ASSUME OwnMachines, SyncAlone, Sound, IInv', NEW c \in Clients, AddLocal(c)
    PROVE  Whole' /\ UNCHANGED store
<1>0. TypeOK /\ Backed /\ CallerOwns /\ Whole
  BY DEF Sound, IInv
<1>1. PICK item \in pend[c] :
        /\ pend' = [pend EXCEPT ![c] = @ \ {item}]
        /\ store' = IF store[item.value] = NoItem
                      THEN [store EXCEPT ![item.value] = item] ELSE store
  BY DEF AddLocal
<1>2. /\ pc[c] = "get_multi"
      /\ UNCHANGED <<index, items, pc, call, token, keys, todo, read, overlooked, held,
                     lapsed>>
  BY DEF AddLocal, Answered, caller
<1>3. Syncing(c)
  BY <1>1, <1>2 DEF Sound, Quiet, Syncing
<1>4. item \in held[c] /\ item # NoItem
  BY <1>0, <1>1, <1>2, <1>3, SyncOwns, PoolAssumption DEF TypeOK, Item, Values
<1>5. UNCHANGED store
  BY <1>0, <1>1, <1>2, <1>4 DEF Backed
<1>6. Alone(c)
  BY <1>0, <1>1, <1>2 DEF Alone, TypeOK
<1>7. Attentive(c)' /\ Recovers(c)'
  BY <1>0, <1>2, <1>3, <1>5 DEF Whole, Attentive, Recovers, Syncing
<1>8. /\ \A i \in Item : Has(c, i) => Has(c, i)'
      /\ \A k \in Values : Striking(c, k) => Striking(c, k)'
  BY <1>2, <1>5 DEF Has, Returned, Giving, Striking
<1> QED
  BY <1>2, <1>5, <1>6, <1>7, <1>8, ServerStays

LEMMA OtherStepsWhole ==
    ASSUME OwnMachines, Sound, IInv', ~clash', NEW c \in Clients,
           Exhaust(c) \/ StoreNothing(c) \/ UpdateLocal(c) \/ ReadIndex(c)
           \/ DeleteIndex(c)
    PROVE  Whole'
<1>0. TypeOK /\ Local /\ CurrentToken /\ Quiet(c)
  BY DEF Sound, IInv, Local
<1>1. CASE Exhaust(c)
  <2>1. PICK label \in {"idle", "new"} : Leave(c, label, token)
    BY <1>1 DEF Exhaust, Raise
  <2> QED
    BY <1>1, <2>1, LeavesNothing
       DEF Exhaust, Chooses, Answered, Returned, Giving, Striking, server, caller
<1>2. CASE StoreNothing(c) \/ UpdateLocal(c)
  <2>1. Leave(c, "idle", token) /\ UNCHANGED <<index, store, held, lapsed>>
    BY <1>2 DEF StoreNothing, UpdateLocal, Return, server, caller
  <2>2. pc[c] \in {"store", "update"}
    BY <1>2 DEF StoreNothing, UpdateLocal
  <2> QED
    BY <2>1, <2>2, LeavesNothing DEF Returned, Giving, Striking
<1>3. CASE ReadIndex(c)
  <2>1. pc[c] = "flush" /\ UNCHANGED <<index, store, held, lapsed>>
    BY <1>3 DEF ReadIndex, server, caller
  <2>2. CASE Raise(c)
    <3>1. PICK label \in {"idle", "new"} : Leave(c, label, token)
      BY <2>2 DEF Raise
    <3> QED
      BY <2>1, <3>1, LeavesNothing DEF Returned, Giving, Striking
  <2>3. CASE ~Raise(c)
    <3>1. /\ pc' = [pc EXCEPT ![c] = "delete"]
          /\ todo' = [todo EXCEPT ![c] = index]
          /\ UNCHANGED <<call, token, keys, read, pend, keyName, overlooked>>
      BY <1>3, <2>3 DEF ReadIndex, Goto
    <3>2. Alone(c) /\ pc'[c] = "delete" /\ token'[c] # "current"
      BY <1>0, <2>1, <3>1 DEF Alone, TypeOK, CurrentToken
    <3>3. Attentive(c)' /\ Recovers(c)' /\ \A i \in Item : Has(c, i) => Has(c, i)'
      BY <2>1, <3>2 DEF Attentive, Recovers, Giving, Has, Returned
    <3> QED
      BY <2>1, <3>2, <3>3, ServerStays DEF Striking
  <2> QED
    BY <2>2, <2>3
<1>4. CASE DeleteIndex(c)
  BY <1>4 DEF DeleteIndex
<1> QED
  BY <1>1, <1>2, <1>3, <1>4

LEMMA StepWhole ==
    ASSUME OwnMachines, SyncAlone, ~Timed, Crashes = {}, Sound, IInv', ~clash',
           [Next]_vars
    PROVE  Whole'
<1>1. ASSUME NEW c \in Clients, Begin(c) PROVE Whole'
  BY <1>1, BeginWhole
<1>2. ASSUME NEW c \in Clients, Step(c) PROVE Whole'
  BY <1>2, AddIndexWhole, GetsWhole, FetchWhole, ReserveWhole, ReleaseWhole,
     ReleaseAllWhole, PublishLocalWhole, AddLocalWhole, StoreItemWhole, DeleteWhole,
     OtherStepsWhole
     DEF Step
<1>3. ASSUME UNCHANGED vars PROVE Whole'
  BY <1>3 DEF Sound, Whole, Accounted, Claimed, Attentive, Recovers, OwnName, Listed, Has,
              Returned, Giving, Striking, vars, server, locals, caller
<1> QED
  BY <1>1, <1>2, <1>3 DEF Next, Crash, Expire

-----------------------------------------------------------------------------
\* A step of one client does not disturb what Quiet says of another.
QuietStays(d) ==
    /\ lapsed'[d] = lapsed[d] /\ call'[d] = call[d] /\ items'[d] = items[d]
    /\ pc'[d] = pc[d] /\ pend'[d] = pend[d] /\ todo'[d] = todo[d]
    /\ keys'[d] = keys[d] /\ read'[d] = read[d]

LeavesQuiet(c) == Quiet(c)' /\ \A d \in Clients \ {c} : QuietStays(d)

LEMMA QuietLeave ==
    ASSUME TypeOK, NEW c \in Clients, Quiet(c), NEW label \in {"idle", "new"}, NEW tokens,
           Leave(c, label, tokens), UNCHANGED lapsed,
           \A d \in Clients \ {c} : items'[d] = items[d],
           label = "new" => items'[c] = {}
    PROVE  LeavesQuiet(c)
<1>1. pc'[c] = label /\ call'[c].op \notin Operations \cup {"init"}
  BY ClientAssumption DEF TypeOK, Leave, Goto, NoCall
<1>2. Quiet(c)'
  BY <1>1 DEF Quiet
<1>3. \A d \in Clients \ {c} : QuietStays(d)
  BY DEF TypeOK, Leave, Goto, QuietStays
<1> QED
  BY <1>2, <1>3 DEF LeavesQuiet

LEMMA QuietRaise ==
    ASSUME TypeOK, NEW c \in Clients, Quiet(c), Raise(c), UNCHANGED lapsed,
           \A d \in Clients \ {c} : items'[d] = items[d],
           call[c].op = "init" => items'[c] = items[c]
    PROVE  LeavesQuiet(c)
<1>1. CASE call[c].op = "init"
  <2>1. Leave(c, "new", token) /\ items'[c] = {}
    BY <1>1 DEF Raise, Quiet
  <2> QED
    BY <2>1, QuietLeave
<1>2. CASE call[c].op # "init"
  <2>1. Leave(c, "idle", token)
    BY <1>2 DEF Raise
  <2> QED
    BY <2>1, QuietLeave
<1> QED
  BY <1>1, <1>2

LEMMA QuietCollide ==
    ASSUME TypeOK, NEW c \in Clients, Quiet(c), NEW item, NEW name, Collide(c, item, name),
           UNCHANGED lapsed, \A d \in Clients \ {c} : items'[d] = items[d],
           call[c].op = "init" => items'[c] = items[c]
    PROVE  LeavesQuiet(c)
<1>1. CASE Raise(c)
  BY <1>1, QuietRaise
<1>2. CASE ~Raise(c)
  <2>1. /\ pc' = [pc EXCEPT ![c] = LoopStart(c)]
        /\ keys' = [keys EXCEPT ![c] = {}]
        /\ read' = [read EXCEPT ![c] = {}]
        /\ call' = [call EXCEPT ![c] =
                      [op |-> call[c].op, request |-> call[c].request, item |-> item]]
        /\ UNCHANGED <<todo, pend>>
    BY <1>2 DEF Collide, TypeOK, Goto
  <2>2. pc'[c] = LoopStart(c) /\ call'[c].op = call[c].op
    BY <2>1 DEF TypeOK
  <2>3. Quiet(c)'
    BY <2>2 DEF Quiet, Syncing, LoopStart
  <2> QED
    BY <2>1, <2>3 DEF TypeOK, LeavesQuiet, QuietStays
<1> QED
  BY <1>1, <1>2

LEMMA QuietProceed ==
    ASSUME TypeOK, NEW c \in Clients, Quiet(c), NEW label \in {"store", "delete", "update"},
           Proceed(c, label), UNCHANGED lapsed,
           \A d \in Clients \ {c} : /\ items'[d] = items[d] /\ todo'[d] = todo[d]
                                    /\ pend'[d] = pend[d],
           call[c].op = "init" => items'[c] = items[c],
           label = "update" => Syncing(c)
    PROVE  LeavesQuiet(c)
<1>1. pc'[c] = label /\ call' = call
  BY DEF TypeOK, Proceed, Goto
<1>2. Quiet(c)'
  BY <1>1 DEF Quiet, Syncing
<1>3. \A d \in Clients \ {c} : QuietStays(d)
  BY DEF TypeOK, Proceed, Goto, QuietStays
<1> QED
  BY <1>2, <1>3 DEF LeavesQuiet

LEMMA BeginQuiet ==
    ASSUME TypeOK, NEW c \in Clients, Quiet(c), Begin(c)
    PROVE  LeavesQuiet(c)
<1>1. ASSUME NEW op, NEW request, NEW item, NEW label,
             Start(c, op, request, item, label),
             op \in Workload \/ (op = "init" /\ pc[c] = "new"),
             label \in {"add_index", "gets", "flush"},
             label = "add_index" => op \in {"init", "sync"},
             label = "flush" => op = "flush",
             lapsed'[c] = {}, \A d \in Clients \ {c} : lapsed'[d] = lapsed[d]
      PROVE  LeavesQuiet(c)
  <2>1. /\ pc' = [pc EXCEPT ![c] = label]
        /\ call' = [call EXCEPT ![c] = [op |-> op, request |-> request, item |-> item]]
        /\ UNCHANGED <<items, keys, todo, read, pend>>
    BY <1>1 DEF Start, Goto
  <2>2. pc'[c] = label /\ call'[c].op = op
    BY <2>1 DEF TypeOK
  <2>3. op = "init" => pc[c] = "new"
    BY <1>1, ClientAssumption DEF Operations
  <2>4. "init" \notin Operations
    BY DEF Operations
  <2>5. Quiet(c)'
    BY <1>1, <2>1, <2>2, <2>3, <2>4 DEF Quiet, Syncing
  <2> QED
    BY <1>1, <2>1, <2>5 DEF TypeOK, LeavesQuiet, QuietStays
<1>2. lapsed[c] = {} /\ lapsed \in [Clients -> SUBSET Item]
  BY DEF Quiet, TypeOK
<1>3. CASE Construct(c)
  BY <1>1, <1>2, <1>3 DEF Construct, caller
<1>4. CASE BeginGet(c) \/ BeginGetMulti(c) \/ BeginSync(c) \/ BeginFlush(c)
  BY <1>1, <1>2, <1>4 DEF BeginGet, BeginGetMulti, BeginSync, BeginFlush, Idle, caller
<1>5. CASE BeginFree(c) \/ BeginFreeAll(c)
  BY <1>1, <1>2, <1>5 DEF BeginFree, BeginFreeAll, Idle
<1> QED
  BY <1>3, <1>4, <1>5 DEF Begin

LEMMA ReadingQuiet ==
    ASSUME TypeOK, KeyOfItem, NEW c \in Clients, Quiet(c), AddIndex(c) \/ Gets(c) \/ Fetch(c)
    PROVE  LeavesQuiet(c)
<1>1. CASE AddIndex(c)
  <2>1. /\ pc' = [pc EXCEPT ![c] = "gets"] /\ pc[c] = "add_index"
        /\ UNCHANGED <<items, call, keys, todo, read, pend, lapsed>>
    BY <1>1 DEF AddIndex, Goto, caller
  <2> QED
    BY <2>1 DEF TypeOK, Quiet, Syncing, LeavesQuiet, QuietStays
<1>2. CASE Gets(c)
  <2>1. UNCHANGED <<items, lapsed>>
    BY <1>2 DEF Gets, caller
  <2>2. CASE Raise(c)
    BY <2>1, <2>2, QuietRaise
  <2>3. CASE ~Raise(c)
    <3> DEFINE names == IF index = NoIndex THEN {} ELSE index
    <3>1. /\ pc' = [pc EXCEPT ![c] = "get_multi"]
          /\ keys' = [keys EXCEPT ![c] = names]
          /\ todo' = [todo EXCEPT ![c] = names]
          /\ read' = [read EXCEPT ![c] = {}]
          /\ pend' = [pend EXCEPT ![c] =
                        IF Syncing(c) THEN LocalItems(Prefix[c], items[c]) ELSE {}]
          /\ UNCHANGED call
      BY <1>2, <2>3 DEF Gets, Goto
    <3>2. call[c].op = "init" => LocalItems(Prefix[c], items[c]) = {}
      BY DEF Quiet, LocalItems
    <3>3. /\ call[c].op # "sync" => pend'[c] = {}
          /\ todo'[c] = keys'[c] /\ read'[c] = {} /\ pc'[c] = "get_multi"
      BY <3>1, <3>2 DEF TypeOK, Syncing
    <3>4. Quiet(c)'
      BY <2>1, <3>1, <3>3 DEF Quiet
    <3> QED
      BY <2>1, <3>1, <3>4 DEF TypeOK, LeavesQuiet, QuietStays
  <2> QED
    BY <2>2, <2>3
<1>3. CASE Fetch(c)
  <2>1. PICK k \in todo[c] :
          /\ todo' = [todo EXCEPT ![c] = @ \ {k}]
          /\ read' = [read EXCEPT ![c] = @ \cup ({store[k]} \ {NoItem})]
    BY <1>3 DEF Fetch
  <2>2. UNCHANGED <<items, pc, call, keys, pend, lapsed>> /\ k \in Values
    BY <1>3 DEF Fetch, caller, TypeOK
  <2>3. todo'[c] = todo[c] \ {k} /\ read'[c] = read[c] \cup ({store[k]} \ {NoItem})
    BY <2>1 DEF TypeOK
  <2>4. Quiet(c)'
    BY <2>2, <2>3 DEF Quiet, KeyOfItem, Syncing
  <2> QED
    BY <2>1, <2>2, <2>4 DEF TypeOK, LeavesQuiet, QuietStays
<1> QED
  BY <1>1, <1>2, <1>3

LEMMA DecidingQuiet ==
    ASSUME TypeOK, NEW c \in Clients, Quiet(c),
           Reserve(c) \/ Exhaust(c) \/ Release(c) \/ ReleaseAll(c) \/ PublishLocal(c)
    PROVE  LeavesQuiet(c)
<1>1. /\ UNCHANGED lapsed
      /\ \A d \in Clients \ {c} : items'[d] = items[d]
      /\ call[c].op = "init" => items' = items
  BY DEF Reserve, Claim, Chooses, Exhaust, Release, GiveBack, ReleaseAll, GiveBackAll,
         PublishLocal, Syncing, caller, TypeOK
<1>2. CASE Raise(c)
  BY <1>1, <1>2, QuietRaise
<1>3. CASE \E item, name : Collide(c, item, name)
  BY <1>1, <1>3, QuietCollide
<1>4. CASE Leave(c, "idle", Outdated)
  BY <1>1, <1>4, QuietLeave
<1>5. CASE \E label \in {"store", "delete", "update"} :
             /\ Proceed(c, label) /\ (label = "update" => Syncing(c))
             /\ \A d \in Clients \ {c} : todo'[d] = todo[d] /\ pend'[d] = pend[d]
  BY <1>1, <1>5, QuietProceed
<1>6. CASE Reserve(c)
  BY <1>3, <1>5, <1>6 DEF Reserve, Claim, TypeOK
<1>7. CASE Exhaust(c)
  BY <1>2, <1>7 DEF Exhaust
<1>8. CASE Release(c)
  BY <1>2, <1>3, <1>4, <1>5, <1>8 DEF Release, GiveBack, TypeOK
<1>9. CASE ReleaseAll(c)
  BY <1>3, <1>4, <1>5, <1>9 DEF ReleaseAll, GiveBackAll, TypeOK
<1>10. CASE PublishLocal(c)
  BY <1>2, <1>3, <1>5, <1>10 DEF PublishLocal, TypeOK
<1> QED
  BY <1>6, <1>7, <1>8, <1>9, <1>10

LEMMA SendingQuiet ==
    ASSUME TypeOK, NEW c \in Clients, Quiet(c),
           \/ AddLocal(c) \/ StoreItem(c) \/ StoreNothing(c) \/ Delete(c)
           \/ UpdateLocal(c) \/ ReadIndex(c) \/ DeleteIndex(c)
    PROVE  LeavesQuiet(c)
<1>1. UNCHANGED lapsed /\ \A d \in Clients \ {c} : items'[d] = items[d]
  BY DEF AddLocal, StoreItem, StoreNothing, Delete, UpdateLocal, ReadIndex, DeleteIndex,
         caller, TypeOK
<1>2. CASE Leave(c, "idle", token) \/ Leave(c, "idle", Outdated)
  BY <1>1, <1>2, QuietLeave
<1>3. CASE Raise(c) /\ items' = items
  BY <1>1, <1>3, QuietRaise
<1>4. CASE AddLocal(c)
  <2>1. /\ \E item \in pend[c] : pend' = [pend EXCEPT ![c] = @ \ {item}]
        /\ UNCHANGED <<items, pc, call, todo, keys, read>>
    BY <1>4 DEF AddLocal
  <2>2. Quiet(c)'
    BY <1>1, <2>1 DEF TypeOK, Quiet, Syncing
  <2> QED
    BY <1>1, <2>1, <2>2 DEF TypeOK, LeavesQuiet, QuietStays
<1>5. CASE /\ pc[c] \in {"store", "delete"}
           /\ \/ \E new : pend' = [pend EXCEPT ![c] = new] /\ UNCHANGED todo
              \/ \E new : todo' = [todo EXCEPT ![c] = new] /\ UNCHANGED pend
           /\ UNCHANGED <<items, pc, call, keys, read>>
  BY <1>1, <1>5 DEF TypeOK, Quiet, LeavesQuiet, QuietStays
<1>6. CASE StoreItem(c)
  <2>1. CASE Return(c)
    BY <1>2, <2>1 DEF Return
  <2>2. CASE ~Return(c)
    BY <1>5, <1>6, <2>2 DEF StoreItem
  <2> QED
    BY <2>1, <2>2
<1>7. CASE Delete(c)
  <2>1. CASE Return(c)
    BY <1>2, <2>1 DEF Return
  <2>2. CASE ~Return(c)
    BY <1>5, <1>7, <2>2 DEF Delete
  <2> QED
    BY <2>1, <2>2
<1>8. CASE StoreNothing(c) \/ UpdateLocal(c) \/ DeleteIndex(c)
  BY <1>2, <1>8 DEF StoreNothing, UpdateLocal, DeleteIndex, Return
<1>9. CASE ReadIndex(c)
  <2>1. CASE Raise(c)
    BY <1>3, <1>9, <2>1 DEF ReadIndex
  <2>2. CASE ~Raise(c)
    <3>1. /\ pc' = [pc EXCEPT ![c] = "delete"]
          /\ todo' = [todo EXCEPT ![c] = index]
          /\ UNCHANGED <<items, call, keys, read, pend>>
      BY <1>9, <2>2 DEF ReadIndex, Goto
    <3> QED
      BY <1>1, <3>1 DEF TypeOK, Quiet, LeavesQuiet, QuietStays
  <2> QED
    BY <2>1, <2>2
<1> QED
  BY <1>4, <1>6, <1>7, <1>8, <1>9

LEMMA OneSteps ==
    ASSUME TypeOK, KeyOfItem, ~Timed, Crashes = {}, \A c \in Clients : Quiet(c), Next
    PROVE  \E c \in Clients : (Begin(c) \/ Step(c)) /\ LeavesQuiet(c)
<1>1. ASSUME NEW c \in Clients, Begin(c) PROVE LeavesQuiet(c)
  BY <1>1, BeginQuiet
<1>2. ASSUME NEW c \in Clients, Step(c) PROVE LeavesQuiet(c)
  BY <1>2, ReadingQuiet, DecidingQuiet, SendingQuiet DEF Step
<1> QED
  BY <1>1, <1>2 DEF Next, Crash, Expire

LEMMA StepQuiet ==
    ASSUME TypeOK, KeyOfItem, ~Timed, Crashes = {}, \A c \in Clients : Quiet(c),
           [Next]_vars
    PROVE  \A c \in Clients : Quiet(c)'
<1>1. ASSUME NEW c \in Clients, LeavesQuiet(c) PROVE \A d \in Clients : Quiet(d)'
  BY <1>1 DEF LeavesQuiet, QuietStays, Quiet, Syncing
<1>2. CASE UNCHANGED vars
  BY <1>2 DEF Quiet, Syncing, vars, server, locals, caller
<1> QED
  BY <1>1, <1>2, OneSteps

-----------------------------------------------------------------------------
(* What a client's copy of the pool has of its own *)

\* Only a flush takes the index away.
LEMMA IndexStays ==
    ASSUME Sound, ~clash', NEW c \in Clients, Begin(c) \/ Step(c), index # NoIndex
    PROVE  index' # NoIndex
<1>0. TypeOK
  BY DEF Sound, IInv
<1>1. \A ids \in SUBSET Values : ids # NoIndex
  BY ClientAssumption
<1>2. CASE UNCHANGED index
  BY <1>2
<1>3. CASE Reserve(c)
  <2>1. PICK view \in Views(read[c]) :
          \E f \in Allotments(Wanted(c, view), Values \ Vals(view)) : Claim(c, view, f)
    BY <1>3 DEF Reserve
  <2>2. PICK f \in Allotments(Wanted(c, view), Values \ Vals(view)) : Claim(c, view, f)
    BY <2>1
  <2> DEFINE new == NewItems(Prefix[c], call[c].request, f)
             got == new \cup OldItems(view, Prefix[c], call[c].request)
  <2>3. call[c].request \in Seq(Names \cup {NoName}) /\ view \subseteq Item
    BY <1>0, ViewsType DEF TypeOK, Call
  <2>4. got \subseteq Item
    <3>1. new \subseteq Item
      BY <2>2, <2>3, NewItemsType, ClientAssumption DEF Wanted
    <3>2. OldItems(view, Prefix[c], call[c].request) \subseteq Item
      BY <2>3, OldItemsType
    <3> QED
      BY <3>1, <3>2
  <2>5. Collide(c, NoItem, 0) \/ index' = Vals(read[c]) \cup Vals(got)
    BY <2>2 DEF Claim, Publish
  <2>6. Vals(read[c]) \subseteq Values /\ Vals(got) \subseteq Values
    <3> HIDE DEF got
    <3> QED
      BY <1>0, <2>4, ValsType DEF TypeOK
  <2> QED
    BY <1>1, <2>5, <2>6 DEF Collide
<1>4. CASE Release(c) \/ ReleaseAll(c) \/ PublishLocal(c)
  <2>1. \/ UNCHANGED index
        \/ \E ids : index' = Vals(read[c]) \ ids
        \/ index' = Vals(read[c]) \cup Vals(LocalItems(Prefix[c], items[c]))
    BY <1>4 DEF Release, GiveBack, ReleaseAll, GiveBackAll, PublishLocal, Publish, Collide
  <2>2. /\ Vals(read[c]) \subseteq Values
        /\ Vals(LocalItems(Prefix[c], items[c])) \subseteq Values
    BY <1>0, ValsType DEF TypeOK, LocalItems
  <2> QED
    BY <1>1, <2>1, <2>2
<1>5. CASE Begin(c)
  BY <1>2, <1>5 DEF Begin, Construct, BeginGet, BeginGetMulti, BeginFree, BeginFreeAll,
                    BeginSync, BeginFlush, Start, server
<1>6. CASE AddIndex(c)
  BY <1>2, <1>6 DEF AddIndex
<1>7. CASE DeleteIndex(c)
  BY <1>7 DEF DeleteIndex
<1> QED
  BY <1>2, <1>3, <1>4, <1>5, <1>6, <1>7
     DEF Step, Gets, Fetch, Exhaust, AddLocal, StoreItem, StoreNothing, Delete, UpdateLocal,
         ReadIndex, server

LEMMA StepFounded ==
    ASSUME Sound, ~clash', NEW c \in Clients, Begin(c) \/ Step(c), LeavesQuiet(c)
    PROVE  \A d \in Clients : Founded(d)'
<1>0. TypeOK /\ \A d \in Clients : Founded(d)
  BY DEF Sound, IInv
<1>1. CASE index # NoIndex
  BY <1>1, IndexStays DEF Founded
<1>2. CASE index = NoIndex
  <2>1. pc[c] \in {"new", "add_index"}
    BY <1>0, <1>2 DEF Founded
  <2>2. CASE AddIndex(c)
    <3>1. index' = {}
      BY <1>2, <2>2 DEF AddIndex
    <3> QED
      BY <3>1, ClientAssumption DEF Founded
  <2>3. CASE Construct(c)
    <3>1. pc'[c] = "add_index"
      BY <1>0, <2>3 DEF Construct, Start, Goto, TypeOK
    <3> QED
      BY <1>0, <1>2, <3>1 DEF Founded, LeavesQuiet, QuietStays
  <2> QED
    BY <2>1, <2>2, <2>3
       DEF Begin, BeginGet, BeginGetMulti, BeginFree, BeginFreeAll, BeginSync, BeginFlush,
           Idle, Step, Gets, Fetch, Reserve, Chooses, Exhaust, Release, ReleaseAll,
           PublishLocal, Answered, AddLocal, StoreItem, StoreNothing, Delete, UpdateLocal,
           ReadIndex, DeleteIndex
<1> QED
  BY <1>1, <1>2

\* The own items of c's copy.
Own(c) == {i \in items[c] : i.prefix = Prefix[c]}

LEMMA OwnLeave ==
    ASSUME TypeOK, NEW c \in Clients, NEW label \in {"idle", "new"}, NEW tokens,
           Leave(c, label, tokens), Own(c)' \subseteq held'[c]
    PROVE  OwnHeld(c)'
<1>1. pc'[c] = label /\ read'[c] = {}
  BY DEF Leave, Goto, TypeOK
<1> QED
  BY <1>1 DEF OwnHeld, Own

LEMMA OwnProceed ==
    ASSUME TypeOK, NEW c \in Clients, NEW label \in {"store", "delete", "update"},
           Proceed(c, label), Own(c)' \subseteq held'[c]
    PROVE  OwnHeld(c)'
<1>1. pc'[c] = label /\ read'[c] = {}
  BY DEF Proceed, Goto, TypeOK
<1> QED
  BY <1>1 DEF OwnHeld, Own

LEMMA OwnCollide ==
    ASSUME OwnMachines, TypeOK, NEW c \in Clients, index # NoIndex, NEW item, NEW name,
           Collide(c, item, name), Syncing(c) => Own(c)' \subseteq held'[c]
    PROVE  OwnHeld(c)'
<1>1. pc'[c] = LoopStart(c) /\ read'[c] = {} /\ call'[c].op = call[c].op
  BY DEF Collide, Goto, TypeOK
<1> QED
  BY <1>1 DEF OwnHeld, Own, Syncing, LoopStart

LEMMA BeginOwns ==
    ASSUME Sound, NEW c \in Clients, OwnHeld(c), Begin(c)
    PROVE  OwnHeld(c)' /\ \A d \in Clients \ {c} : held'[d] = held[d]
<1>0. TypeOK /\ ReadOnce
  BY DEF Sound, IInv
<1>1. ASSUME NEW op, NEW request, NEW item, NEW label,
             Start(c, op, request, item, label), pc[c] \in {"new", "idle"},
             label # "get_multi",
             held'[c] = held[c] \/ (label = "gets" /\ op \in {"free", "free_all"})
      PROVE  OwnHeld(c)'
  <2>1. pc'[c] = label /\ call'[c].op = op /\ UNCHANGED <<items, read, pend>>
    BY <1>0, <1>1 DEF Start, Goto, TypeOK
  <2>2. read[c] = {}
    BY <1>0, <1>1 DEF ReadOnce
  <2> QED
    BY <1>1, <2>1, <2>2 DEF OwnHeld, Syncing
<1>2. CASE Construct(c)
  BY <1>1, <1>2 DEF Construct, caller
<1>3. CASE BeginGet(c) \/ BeginGetMulti(c) \/ BeginSync(c) \/ BeginFlush(c)
  BY <1>1, <1>3 DEF BeginGet, BeginGetMulti, BeginSync, BeginFlush, Idle, caller
<1>4. CASE BeginFree(c) \/ BeginFreeAll(c)
  <2>1. OwnHeld(c)'
    BY <1>1, <1>4 DEF BeginFree, BeginFreeAll, Idle
  <2>2. \A d \in Clients \ {c} : held'[d] = held[d]
    BY <1>0, <1>4 DEF BeginFree, BeginFreeAll, TypeOK
  <2> QED
    BY <2>1, <2>2
<1> QED
  BY <1>2, <1>3, <1>4 DEF Begin

LEMMA ReadingOwns ==
    ASSUME OwnMachines, SyncAlone, Sound, NEW c \in Clients, OwnHeld(c),
           AddIndex(c) \/ Gets(c) \/ Fetch(c)
    PROVE  OwnHeld(c)'
<1>0. TypeOK /\ ReadOnce /\ Quiet(c) /\ Founded(c)
  BY DEF Sound, IInv
<1>1. CASE AddIndex(c)
  <2>1. /\ pc[c] = "add_index" /\ pc'[c] = "gets"
        /\ UNCHANGED <<items, call, read, pend, held>>
    BY <1>0, <1>1 DEF AddIndex, Goto, caller, TypeOK
  <2> QED
    BY <2>1 DEF OwnHeld, Syncing
<1>2. CASE Gets(c)
  <2>1. pc[c] = "gets" /\ UNCHANGED <<items, held>> /\ index # NoIndex
    BY <1>0, <1>2 DEF Gets, caller, Founded
  <2>2. /\ pc' = [pc EXCEPT ![c] = "get_multi"]
        /\ read' = [read EXCEPT ![c] = {}]
        /\ pend' = [pend EXCEPT ![c] =
                      IF Syncing(c) THEN LocalItems(Prefix[c], items[c]) ELSE {}]
        /\ UNCHANGED call
    BY <1>2, <2>1 DEF Gets, Goto
  <2>3. /\ pc'[c] = "get_multi" /\ read'[c] = {}
        /\ Syncing(c) => pend'[c] = LocalItems(Prefix[c], items[c])
    BY <1>0, <2>2 DEF TypeOK
  <2>4. Syncing(c) => pend'[c] \subseteq held[c]
    BY <2>3, SyncOwns
  <2> QED
    BY <2>1, <2>2, <2>3, <2>4 DEF OwnHeld, Syncing
<1>3. CASE Fetch(c)
  <2>1. PICK k \in todo[c] : read' = [read EXCEPT ![c] = @ \cup ({store[k]} \ {NoItem})]
    BY <1>3 DEF Fetch
  <2>2. /\ pc[c] \in {"get_multi", "update"} /\ k \in Values
        /\ UNCHANGED <<items, pc, call, pend, held>>
    BY <1>0, <1>3 DEF Fetch, caller, TypeOK
  <2>3. read'[c] = read[c] \cup ({store[k]} \ {NoItem})
    BY <1>0, <2>1 DEF TypeOK
  <2>4. ASSUME store[k] # NoItem, store[k].prefix = Prefix[c]
        PROVE  \/ store[k] \in held[c]
               \/ call[c].op = "free" /\ store[k] = call[c].item
               \/ call[c].op = "free_all"
    BY <2>2, <2>4, OwnIsHad DEF Has, Returned, Giving
  <2> QED
    BY <2>2, <2>3, <2>4 DEF OwnHeld, Syncing
<1> QED
  BY <1>1, <1>2, <1>3

\* get chooses one item at most.
LEMMA ChoosesOne ==
    ASSUME Sound, NEW c \in Clients, call[c].op = "get", NEW view,
           NEW f \in Allotments(Wanted(c, view), Values \ Vals(view)),
           DOMAIN f # Wanted(c, view)
    PROVE  NewItems(Prefix[c], call[c].request, f) = {}
<1>1. Len(call[c].request) = 1 /\ call[c].request \in Seq(Names \cup {NoName})
  BY ClientAssumption DEF Sound, Asked, IInv, TypeOK, Call
<1>2. Wanted(c, view) \subseteq {1}
  BY <1>1 DEF Wanted, Missing
<1>3. DOMAIN f \subseteq Wanted(c, view)
  BY DEF Allotments
<1>4. DOMAIN f = {}
  BY <1>2, <1>3
<1> QED
  BY <1>4 DEF NewItems

LEMMA ReserveOwns ==
    ASSUME OwnMachines, "get_multi" \notin Workload, Sound, NEW c \in Clients, OwnHeld(c),
           Reserve(c) \/ Exhaust(c)
    PROVE  OwnHeld(c)' /\ \A d \in Clients \ {c} : held'[d] = held[d]
<1>0. /\ TypeOK /\ pc[c] = "get_multi" /\ call[c].op = "get" /\ index # NoIndex
      /\ ~Syncing(c)
  BY DEF Sound, IInv, Reserve, Exhaust, Chooses, Answered, Quiet, Operations, Founded,
         Syncing
<1>1. ASSUME NEW view \in Views(read[c])
      PROVE  \A i \in view : i.prefix = Prefix[c] => i \in held[c]
  BY <1>0 DEF OwnHeld, Views
<1>2. CASE Reserve(c)
  <2>1. PICK view \in Views(read[c]) :
          \E f \in Allotments(Wanted(c, view), Values \ Vals(view)) : Claim(c, view, f)
    BY <1>2 DEF Reserve
  <2>2. PICK f \in Allotments(Wanted(c, view), Values \ Vals(view)) : Claim(c, view, f)
    BY <2>1
  <2> DEFINE new == NewItems(Prefix[c], call[c].request, f)
             got == new \cup OldItems(view, Prefix[c], call[c].request)
  <2>3. CASE Collide(c, NoItem, 0) /\ UNCHANGED held
    BY <1>0, <2>3, OwnCollide
  <2>4. CASE Proceed(c, "store") /\ held' = [held EXCEPT ![c] = @ \cup got]
    <3>1. /\ held'[c] = held[c] \cup got
          /\ \A d \in Clients \ {c} : held'[d] = held[d]
      <4> HIDE DEF got
      <4> QED
        BY <1>0, <2>4 DEF TypeOK
    <3>2. items'[c] = Put(view, new)
      <4>1. items' = [items EXCEPT ![c] = Put(view, new)]
        BY <2>2 DEF Claim
      <4> HIDE DEF new
      <4> QED
        BY <1>0, <4>1 DEF TypeOK
    <3>3. Own(c)' \subseteq held'[c]
      BY <1>1, <3>1, <3>2 DEF Own, Put
    <3> QED
      BY <1>0, <2>4, <3>1, <3>3, OwnProceed
  <2> QED
    BY <2>2, <2>3, <2>4 DEF Claim
<1>3. CASE Exhaust(c)
  <2>1. UNCHANGED held /\ Raise(c)
    BY <1>3 DEF Exhaust, caller
  <2>2. PICK label \in {"idle", "new"} : Leave(c, label, token)
    BY <2>1 DEF Raise
  <2>3. \E view \in Views(read[c]) : items'[c] \subseteq view
    <3>1. PICK view \in Views(read[c]) :
            \/ items' = [items EXCEPT ![c] = view]
            \/ \E f \in Allotments(Wanted(c, view), Values \ Vals(view)) :
                 /\ DOMAIN f # Wanted(c, view)
                 /\ items' = [items EXCEPT ![c] =
                                Put(view, NewItems(Prefix[c], call[c].request, f))]
      BY <1>3 DEF Exhaust
    <3>2. CASE items' = [items EXCEPT ![c] = view]
      BY <1>0, <3>2 DEF TypeOK
    <3>3. CASE \E f \in Allotments(Wanted(c, view), Values \ Vals(view)) :
                 /\ DOMAIN f # Wanted(c, view)
                 /\ items' = [items EXCEPT ![c] =
                                Put(view, NewItems(Prefix[c], call[c].request, f))]
      <4>1. items' = [items EXCEPT ![c] = Put(view, {})]
        BY <1>0, <3>3, ChoosesOne
      <4> QED
        BY <1>0, <4>1 DEF TypeOK, Put
    <3> QED
      BY <3>1, <3>2, <3>3
  <2>4. Own(c)' \subseteq held'[c]
    BY <1>1, <2>1, <2>3 DEF Own
  <2> QED
    BY <1>0, <2>1, <2>2, <2>4, OwnLeave
<1> QED
  BY <1>2, <1>3

LEMMA GivingOwns ==
    ASSUME OwnMachines, Sound, NEW c \in Clients, OwnHeld(c), Release(c) \/ ReleaseAll(c)
    PROVE  OwnHeld(c)'
<1>0. /\ TypeOK /\ pc[c] = "get_multi" /\ index # NoIndex /\ UNCHANGED held
      /\ call[c].op \in {"free", "free_all"} /\ ~Syncing(c)
  BY DEF Sound, IInv, Release, ReleaseAll, Answered, Founded, Syncing, caller
<1>1. CASE \E item, name : Collide(c, item, name)
  BY <1>0, <1>1, OwnCollide
<1>2. CASE Release(c)
  <2> DEFINE item == call[c].item
  <2>1. PICK view \in Views(read[c]) : item # NoItem => GiveBack(c, view, item)
    BY <1>2 DEF Release
  <2>2. Answered(c) /\ call[c].op = "free"
    BY <1>2 DEF Release
  <2>3. item \in Item /\ item # NoItem /\ Frees(view, Prefix[c], item)
    BY <2>2, FreesIt
  <2>4. item.value # 0
    BY <2>3, PoolAssumption DEF Item, Values
  <2>5. GiveBack(c, view, item)
    BY <2>1, <2>3
  <2>6. \/ \E it, name : Collide(c, it, name)
        \/ Proceed(c, "delete")
    BY <2>3, <2>4, <2>5 DEF GiveBack
  <2>7. items'[c] = view \ Popped(view, Prefix[c], item)
    BY <1>0, <2>5 DEF GiveBack, TypeOK
  <2>8. Own(c)' \subseteq held'[c]
    <3> SUFFICES ASSUME NEW i \in view, i \notin Popped(view, Prefix[c], item),
                        i.prefix = Prefix[c]
                 PROVE  i \in held[c]
      BY <1>0, <2>7 DEF Own
    <3>1. i # item
      BY DEF Popped, Id
    <3> QED
      BY <2>2, <3>1 DEF OwnHeld, Views
  <2> QED
    BY <1>0, <1>1, <2>6, <2>8, OwnProceed
<1>3. CASE ReleaseAll(c)
  <2>1. PICK view \in Views(read[c]) : GiveBackAll(c, view, LocalItems(Prefix[c], view))
    BY <1>3 DEF ReleaseAll
  <2>2. items'[c] = view \ LocalItems(Prefix[c], view)
    BY <1>0, <2>1 DEF GiveBackAll, TypeOK
  <2>3. Own(c)' \subseteq held'[c]
    BY <2>2 DEF Own, LocalItems, Covers
  <2>4. \/ \E it, name : Collide(c, it, name)
        \/ Leave(c, "idle", Outdated)
        \/ Proceed(c, "delete")
    BY <2>1 DEF GiveBackAll
  <2> QED
    BY <1>0, <1>1, <2>3, <2>4, OwnLeave, OwnProceed
<1> QED
  BY <1>2, <1>3

LEMMA SyncingOwns ==
    ASSUME OwnMachines, SyncAlone, Sound, NEW c \in Clients, OwnHeld(c),
           PublishLocal(c) \/ AddLocal(c) \/ UpdateLocal(c)
    PROVE  OwnHeld(c)'
<1>0. TypeOK /\ Quiet(c) /\ Founded(c) /\ UNCHANGED held
  BY DEF Sound, IInv, PublishLocal, AddLocal, UpdateLocal, caller
<1>1. CASE PublishLocal(c)
  <2>1. Syncing(c) /\ index # NoIndex /\ UNCHANGED items
    BY <1>0, <1>1 DEF PublishLocal, Answered, Founded
  <2>2. Own(c)' \subseteq held'[c]
    BY <1>0, <2>1, SyncOwns DEF Own, LocalItems, Covers
  <2>3. \/ \E label \in {"idle", "new"} : Leave(c, label, token)
        \/ Collide(c, NoItem, 0)
        \/ Proceed(c, "update")
    BY <1>1 DEF PublishLocal, Raise
  <2> QED
    BY <1>0, <2>1, <2>2, <2>3, OwnLeave, OwnCollide, OwnProceed
<1>2. CASE AddLocal(c)
  <2>1. /\ \E item \in pend[c] : pend' = [pend EXCEPT ![c] = @ \ {item}]
        /\ UNCHANGED <<items, pc, call, read>>
    BY <1>2 DEF AddLocal
  <2>2. pend'[c] \subseteq pend[c]
    BY <1>0, <2>1 DEF TypeOK
  <2> QED
    BY <1>0, <2>1, <2>2 DEF OwnHeld, Syncing
<1>3. CASE UpdateLocal(c)
  <2>1. PICK view \in Views(read[c]) : items' = [items EXCEPT ![c] = view]
    BY <1>3 DEF UpdateLocal
  <2>2. Syncing(c) /\ Leave(c, "idle", token)
    BY <1>0, <1>3 DEF UpdateLocal, Quiet, Return
  <2>3. Own(c)' \subseteq held'[c]
    BY <1>0, <2>1, <2>2 DEF Own, OwnHeld, Views, TypeOK, Syncing
  <2> QED
    BY <1>0, <2>2, <2>3, OwnLeave
<1> QED
  BY <1>1, <1>2, <1>3

LEMMA SendingOwns ==
    ASSUME Sound, ~clash', NEW c \in Clients, OwnHeld(c),
           \/ StoreItem(c) \/ StoreNothing(c) \/ Delete(c) \/ ReadIndex(c)
           \/ DeleteIndex(c)
    PROVE  OwnHeld(c)'
<1>0. /\ TypeOK /\ UNCHANGED <<items, held>>
      /\ pc[c] \in {"store", "delete", "flush"} /\ Own(c) \subseteq held[c]
  BY DEF Sound, IInv, StoreItem, StoreNothing, Delete, ReadIndex, DeleteIndex, caller,
         Own, OwnHeld
<1>1. Own(c)' \subseteq held'[c]
  BY <1>0 DEF Own
<1>2. CASE Leave(c, "idle", token) \/ Leave(c, "new", token)
  BY <1>0, <1>1, <1>2, OwnLeave
<1>3. CASE Return(c) \/ Raise(c)
  BY <1>2, <1>3 DEF Return, Raise
<1>4. CASE /\ pc'[c] \notin {"gets", "get_multi"}
           /\ UNCHANGED <<call, read>>
  BY <1>0, <1>1, <1>4 DEF OwnHeld, Own
<1>5. CASE StoreItem(c) \/ StoreNothing(c) \/ Delete(c)
  <2>1. Return(c) \/ UNCHANGED <<pc, call, read>>
    BY <1>5 DEF StoreItem, StoreNothing, Delete
  <2> QED
    BY <1>0, <1>3, <1>4, <2>1
<1>6. CASE ReadIndex(c)
  <2>1. Raise(c) \/ (pc' = [pc EXCEPT ![c] = "delete"] /\ UNCHANGED <<call, read>>)
    BY <1>6 DEF ReadIndex, Goto
  <2> QED
    BY <1>0, <1>3, <1>4, <2>1 DEF TypeOK
<1>7. CASE DeleteIndex(c)
  BY <1>7 DEF DeleteIndex
<1> QED
  BY <1>5, <1>6, <1>7

LEMMA StepCopied ==
    ASSUME OwnMachines, SyncAlone, Sound, ~clash', NEW c \in Clients,
           Begin(c) \/ Step(c), LeavesQuiet(c)
    PROVE  \A d \in Clients : Copied(d)'
<1> SUFFICES ASSUME "get_multi" \notin Workload PROVE \A d \in Clients : OwnHeld(d)'
  BY DEF Copied
<1>0. \A d \in Clients : OwnHeld(d)
  BY DEF Sound, Copied
<1>1. OwnHeld(c)' /\ \A d \in Clients \ {c} : held'[d] = held[d]
  <2>1. CASE Begin(c)
    BY <1>0, <2>1, BeginOwns
  <2>2. CASE Reserve(c) \/ Exhaust(c)
    BY <1>0, <2>2, ReserveOwns
  <2>3. CASE Step(c) /\ ~(Reserve(c) \/ Exhaust(c))
    <3>1. OwnHeld(c)'
      BY <1>0, <2>3, ReadingOwns, GivingOwns, SyncingOwns, SendingOwns DEF Step
    <3>2. UNCHANGED held
      BY <2>3 DEF Step, AddIndex, Gets, Fetch, Release, ReleaseAll, PublishLocal, AddLocal,
                  StoreItem, StoreNothing, Delete, UpdateLocal, ReadIndex, DeleteIndex,
                  caller
    <3> QED
      BY <3>1, <3>2
  <2> QED
    BY <2>1, <2>2, <2>3
<1> QED
  BY <1>0, <1>1 DEF OwnHeld, Syncing, LeavesQuiet, QuietStays

\* When nobody is in an operation, nothing is being given back or deleted.
LEMMA WholeAtRest == Sound => NothingLeaks
<1> SUFFICES ASSUME Sound, Resting PROVE /\ index = {k \in Values : store[k] # NoItem}
                                         /\ index = UNION {Vals(held[c]) : c \in Clients}
  BY DEF NothingLeaks
<1>0. /\ TypeOK /\ KeyOfItem /\ Backed /\ Whole /\ index # NoIndex
      /\ \A c \in Clients : pc[c] \in {"new", "idle"}
  BY DEF Sound, IInv, Resting, Busy
<1>1. /\ \A c \in Clients, i \in Item : Has(c, i) => i \in held[c]
      /\ \A c \in Clients, k \in Values : ~Striking(c, k)
  BY <1>0 DEF Has, Returned, Giving, Striking
<1>2. index \subseteq Values
  BY <1>0 DEF TypeOK
<1>3. \A c \in Clients : \A i \in held[c] :
         i \in Item /\ i # NoItem /\ i.value \in index /\ store[i.value] = i
  BY <1>0, PoolAssumption DEF Backed, TypeOK, Item, Values
<1>4. \A k \in index : \E c \in Clients : \E i \in held[c] : i.value = k
  BY <1>0, <1>1 DEF Whole, Claimed
<1>5. \A k \in Values : store[k] # NoItem => k \in index
  BY <1>0, <1>1 DEF Whole, Accounted, Listed
<1>6. index = {k \in Values : store[k] # NoItem}
  BY <1>2, <1>3, <1>4, <1>5
<1>7. index = UNION {Vals(held[c]) : c \in Clients}
  BY <1>3, <1>4 DEF Vals
<1> QED
  BY <1>6, <1>7

LEMMA InitSound ==
    ASSUME OwnMachines, Init PROVE Sound
<1>1. Asked /\ NameIsKept /\ ~clash
  BY ClientAssumption DEF Init, Asked, NameIsKept, NoCall, Operations
<1>2. \A c \in Clients : Quiet(c) /\ Founded(c) /\ OwnHeld(c)
  BY ClientAssumption DEF Init, Quiet, Founded, OwnHeld, NoCall, Operations
<1>3. Whole
  BY ClientAssumption DEF Init, Whole, Accounted, Claimed, Attentive, Recovers, OwnName,
                          NoCall, Operations
<1> QED
  BY <1>1, <1>2, <1>3, InitKeeps DEF Sound, Copied

LEMMA StepSound ==
    ASSUME OwnMachines, SyncAlone, ~Timed, Crashes = {}, Sound, IInv', NameIsKept', ~clash',
           [Next]_vars
    PROVE  Sound'
<1>1. Asked' /\ \A c \in Clients : Quiet(c)'
  BY StepQuiet, StepAsked DEF Sound, IInv
<1>2. \A c \in Clients : Founded(c)' /\ Copied(c)'
  <2>1. CASE UNCHANGED vars
    BY <2>1 DEF Sound, Founded, Copied, OwnHeld, Syncing, vars, server, locals, caller
  <2>2. CASE Next
    <3>1. PICK c \in Clients : (Begin(c) \/ Step(c)) /\ LeavesQuiet(c)
      BY <2>2, OneSteps DEF Sound, IInv
    <3> QED
      BY <3>1, StepFounded, StepCopied
  <2> QED
    BY <2>1, <2>2
<1> QED
  BY <1>1, <1>2, StepWhole DEF Sound

\* Nothing that was given back stays reserved, and nothing is listed that
\* nobody has: for any number of processes that do not die, items without a
\* lease, and all operations, as long as pools with a sync do without get_multi.
THEOREM NothingIsLeftOver ==
    ASSUME OwnMachines, SyncAlone, ~Timed, Crashes = {}
    PROVE  Spec => []NothingLeaks
<1>1. Init => Sound
  BY InitSound
<1>2. IInv /\ IInv' /\ NameIsKept' /\ (clash \/ Sound) /\ [Next]_vars => (clash \/ Sound)'
  <2>1. IInv => TypeOK
    BY DEF IInv
  <2> QED
    BY ClashStays, StepSound, <2>1 DEF IInv
<1>3. clash \/ Sound => NothingLeaks
  BY WholeAtRest DEF NothingLeaks, Resting
<1> QED
  BY <1>1, <1>2, <1>3, Invariance, NamesAreKept, PTL DEF Spec

-----------------------------------------------------------------------------
(* Reading only what is settled *)

\* Between the cas that publishes a decision and the last of the items that it
\* announces or strikes, the index and the items do not agree.
Sending(c) == pc[c] \in {"store", "delete"}

\* What history variable clash records can only come from reading in that time:
\* nobody who is about to publish what it decides on has read the index then.
ReadsSettled == \A c, d \in Clients : Sending(d) => token[c] # "current"

\* Clients take turns.
OneBusy == \A c, d \in Clients : Busy(c) /\ Busy(d) => c = d

\* No two items that are stored go by one name.
Distinct ==
    \A k, l \in Values :
        store[k] # NoItem /\ store[l] # NoItem /\ Id(store[k]) = Id(store[l]) => k = l

\* Who would succeed has overlooked nothing, and what it read is still there.
ReadIsStored ==
    \A c \in Clients : token[c] = "current" =>
        ~overlooked[c] /\ \A i \in read[c] : store[i.value] = i

\* Where an item is about to be stored nothing else is.
RoomIsKept ==
    \A c \in Clients : pc[c] = "store" =>
        \A i \in pend[c] : store[i.value] \in {NoItem, i}

\* What is about to be deleted is off the list.
StruckIsUnlisted ==
    \A c \in Clients, k \in Values : Striking(c, k) => index # NoIndex /\ ~Listed(k)

OneSends == \A c, d \in Clients : Sending(c) /\ Sending(d) => c = d

Settled == ReadIsStored /\ RoomIsKept /\ StruckIsUnlisted /\ OneSends /\ Distinct

\* What was read has one name each, and so the copy is all that was read.
LEMMA ViewIsRead ==
    ASSUME Sound, Settled, NEW c \in Clients, token[c] = "current",
           NEW view \in Views(read[c])
    PROVE  view = read[c]
<1>1. ASSUME NEW i \in read[c], NEW j \in read[c], Id(i) = Id(j) PROVE i = j
  <2>1. /\ i \in Item /\ j \in Item /\ store[i.value] = i /\ store[j.value] = j
    BY DEF Sound, IInv, TypeOK, Settled, ReadIsStored
  <2> QED
    BY <1>1, <2>1, PoolAssumption DEF Settled, Distinct, Item, Values
<1>2. ASSUME NEW i \in read[c] PROVE i \in view
  <2>1. PICK j \in view : Id(j) = Id(i)
    BY DEF Views, Ids
  <2> QED
    BY <1>1, <2>1 DEF Views
<1> QED
  BY <1>2 DEF Views

\* Nothing of another client is in the way.
LEMMA SettledDoesNotClash ==
    ASSUME Sound, Settled, "flush" \notin Workload, NEW c \in Clients, Begin(c) \/ Step(c)
    PROVE  ~clash'
<1>0. TypeOK /\ ~clash /\ (token[c] = "current" => ~overlooked[c])
  BY DEF Sound, IInv, Settled, ReadIsStored
<1>1. CASE UNCHANGED clash
  BY <1>0, <1>1
<1>2. CASE Begin(c)
  BY <1>1, <1>2 DEF Begin, Construct, BeginGet, BeginGetMulti, BeginFree, BeginFreeAll,
                    BeginSync, BeginFlush, Start
<1>3. CASE Reserve(c)
  BY <1>0, <1>3, ViewIsRead DEF Reserve, Claim, Collide, Publish
<1>4. CASE Release(c)
  <2>1. Answered(c) /\ call[c].op = "free"
    BY <1>4 DEF Release
  <2>2. PICK view \in Views(read[c]) :
          \/ GiveBack(c, view, call[c].item)
          \/ UNCHANGED clash
    BY <1>4 DEF Release
  <2>3. token[c] = "current" => view = read[c] /\ call[c].item \in view
    BY <2>1, ViewIsRead, FreesIt
  <2> QED
    BY <1>0, <2>2, <2>3 DEF GiveBack, Collide, Publish
<1>5. CASE ReleaseAll(c)
  BY <1>0, <1>5, ViewIsRead DEF ReleaseAll, GiveBackAll, Collide, Publish
<1>6. CASE PublishLocal(c)
  BY <1>0, <1>6 DEF PublishLocal, Collide, Publish
<1>7. CASE StoreItem(c)
  <2>1. PICK item \in pend[c] :
          clash' = (clash \/ store[item.value] \notin {NoItem, item})
    BY <1>7 DEF StoreItem
  <2> QED
    BY <1>0, <1>7, <2>1 DEF StoreItem, Settled, RoomIsKept
<1>8. CASE Delete(c)
  <2>1. PICK k \in todo[c] : clash' = (clash \/ index = NoIndex \/ k \in index)
    BY <1>8 DEF Delete
  <2>2. k \in Values /\ Striking(c, k)
    BY <1>0, <1>8 DEF Delete, Striking, TypeOK
  <2> QED
    BY <1>0, <2>1, <2>2 DEF Settled, StruckIsUnlisted, Listed
<1>9. CASE DeleteIndex(c)
  BY <1>9 DEF DeleteIndex, Sound, Quiet, Operations
<1> QED
  BY <1>1, <1>2, <1>3, <1>4, <1>5, <1>6, <1>7, <1>8, <1>9
     DEF Step, AddIndex, Gets, Fetch, Exhaust, AddLocal, StoreNothing, UpdateLocal,
         ReadIndex

LEMMA LeavesLabel ==
    ASSUME TypeOK, NEW c \in Clients
    PROVE  /\ \A label, tokens : Leave(c, label, tokens) => pc'[c] = label
           /\ \A label : Proceed(c, label) => pc'[c] = label
           /\ Return(c) \/ Raise(c) => pc'[c] \in {"idle", "new"}
           /\ \A item, name : Collide(c, item, name) =>
                 pc'[c] \in {"gets", "add_index", "idle", "new"}
<1>1. ASSUME NEW label, Goto(c, label) PROVE pc'[c] = label
  BY <1>1 DEF Goto, TypeOK
<1>2. \A label, tokens : Leave(c, label, tokens) => pc'[c] = label
  BY <1>1 DEF Leave
<1>3. Return(c) \/ Raise(c) => pc'[c] \in {"idle", "new"}
  BY <1>2 DEF Return, Raise
<1>4. \A label : Proceed(c, label) => pc'[c] = label
  BY <1>1 DEF Proceed
<1>5. \A item, name : Collide(c, item, name) =>
         pc'[c] \in {"gets", "add_index", "idle", "new"}
  BY <1>1, <1>3 DEF Collide, LoopStart
<1> QED
  BY <1>2, <1>3, <1>4, <1>5

LEMMA StepLabel ==
    ASSUME TypeOK, NEW c \in Clients, Begin(c) \/ Step(c)
    PROVE  /\ pc'[c] = "get_multi" => Gets(c) \/ Fetch(c) \/ AddLocal(c)
           /\ pc'[c] = "store" => Reserve(c) \/ StoreItem(c)
           /\ pc'[c] = "delete" => Release(c) \/ ReleaseAll(c) \/ Delete(c) \/ ReadIndex(c)
<1>1. CASE Begin(c)
  BY <1>1 DEF Begin, Construct, BeginGet, BeginGetMulti, BeginFree, BeginFreeAll,
              BeginSync, BeginFlush, Start, Goto, TypeOK
<1>2. CASE AddIndex(c)
  BY <1>2 DEF AddIndex, Goto, TypeOK
<1>3. CASE Gets(c)
  <2>1. CASE Raise(c)
    BY <1>3, <2>1, LeavesLabel
  <2>2. CASE ~Raise(c)
    BY <1>3, <2>2 DEF Gets, Goto, TypeOK
  <2> QED
    BY <2>1, <2>2
<1>4. CASE Fetch(c) \/ AddLocal(c)
  BY <1>4 DEF Fetch, AddLocal, Answered
<1>5. CASE Reserve(c) \/ Exhaust(c) \/ PublishLocal(c)
  BY <1>5, LeavesLabel DEF Reserve, Claim, Exhaust, PublishLocal
<1>6. CASE Release(c)
  BY <1>6, LeavesLabel DEF Release, GiveBack
<1>7. CASE ReleaseAll(c)
  BY <1>7, LeavesLabel DEF ReleaseAll, GiveBackAll
<1>8. CASE StoreItem(c) \/ StoreNothing(c)
  BY <1>8, LeavesLabel DEF StoreItem, StoreNothing
<1>9. CASE Delete(c)
  BY <1>9, LeavesLabel DEF Delete
<1>10. CASE UpdateLocal(c) \/ DeleteIndex(c)
  BY <1>10, LeavesLabel DEF UpdateLocal, DeleteIndex
<1>11. CASE ReadIndex(c)
  <2>1. CASE Raise(c)
    BY <1>11, <2>1, LeavesLabel
  <2>2. CASE ~Raise(c)
    BY <1>11, <2>2 DEF ReadIndex, Goto, TypeOK
  <2> QED
    BY <2>1, <2>2
<1> QED
  BY <1>1, <1>2, <1>3, <1>4, <1>5, <1>6, <1>7, <1>8, <1>9, <1>10, <1>11 DEF Step

\* Only a client whose token is current, or one that is at it already, sends.
LEMMA SendingStays ==
    ASSUME Sound, "flush" \notin Workload, NEW c \in Clients, Begin(c) \/ Step(c),
           Sending(c)'
    PROVE  Sending(c) \/ token[c] = "current"
<1>0. TypeOK
  BY DEF Sound, IInv
<1>1. CASE Reserve(c)
  BY <1>0, <1>1, LeavesLabel DEF Reserve, Claim, Publish, Sending
<1>2. CASE Release(c)
  BY <1>0, <1>2, LeavesLabel DEF Release, GiveBack, Publish, Sending
<1>3. CASE ReleaseAll(c)
  BY <1>0, <1>3, LeavesLabel DEF ReleaseAll, GiveBackAll, Publish, Sending
<1>4. CASE StoreItem(c) \/ Delete(c)
  BY <1>4 DEF StoreItem, Delete, Sending
<1>5. CASE ReadIndex(c)
  BY <1>5 DEF ReadIndex, Sound, Quiet, Operations
<1> QED
  BY <1>0, <1>1, <1>2, <1>3, <1>4, <1>5, StepLabel DEF Sending

\* The index is written by who publishes, the items by who sends.
LEMMA ServerIsKept ==
    ASSUME OwnMachines, SyncAlone, Sound, IInv', "flush" \notin Workload,
           NEW c \in Clients, Begin(c) \/ Step(c)
    PROVE  /\ index # NoIndex /\ token[c] # "current" => UNCHANGED index
           /\ ~Sending(c) => UNCHANGED store
<1>1. CASE AddLocal(c)
  BY <1>1, AddLocalWhole DEF AddLocal
<1>2. CASE Begin(c)
  BY <1>2 DEF Begin, Construct, BeginGet, BeginGetMulti, BeginFree, BeginFreeAll,
              BeginSync, BeginFlush, Start, server
<1>3. CASE Reserve(c) \/ Release(c) \/ ReleaseAll(c) \/ PublishLocal(c)
  BY <1>3 DEF Reserve, Claim, Release, GiveBack, ReleaseAll, GiveBackAll, PublishLocal,
              Publish, Collide
<1>4. CASE StoreItem(c) \/ Delete(c)
  BY <1>4 DEF StoreItem, Delete, Sending
<1>5. CASE DeleteIndex(c)
  BY <1>5 DEF DeleteIndex, Sound, Quiet, Operations
<1>6. CASE AddIndex(c) \/ Gets(c) \/ Fetch(c) \/ Exhaust(c)
  BY <1>6 DEF AddIndex, Gets, Fetch, Exhaust, server
<1>7. CASE StoreNothing(c) \/ UpdateLocal(c) \/ ReadIndex(c)
  BY <1>7 DEF StoreNothing, UpdateLocal, ReadIndex, server
<1> QED
  BY <1>1, <1>2, <1>3, <1>4, <1>5, <1>6, <1>7 DEF Step

\* The token of another client is outdated at most.
LEMMA TokensRunOut ==
    ASSUME TypeOK, NEW c \in Clients, Begin(c) \/ Step(c)
    PROVE  \A d \in Clients \ {c} :
              /\ token'[d] = "current" => token[d] = "current"
              /\ overlooked'[d] = overlooked[d]
<1> DEFINE Aside == \A d \in Clients \ {c} :
                       /\ token'[d] = "current" => token[d] = "current"
                       /\ overlooked'[d] = overlooked[d]
<1>1. \A d \in Clients : Outdated[d] = "current" => token[d] = "current"
  BY DEF Outdated
<1>2. ASSUME NEW label, NEW tokens \in {token, Outdated}, Leave(c, label, tokens)
      PROVE  Aside
  BY <1>1, <1>2, OutdatedType DEF Leave, TypeOK
<1>3. ASSUME Return(c) \/ Raise(c) PROVE Aside
  BY <1>2, <1>3 DEF Return, Raise
<1>4. ASSUME NEW label, Proceed(c, label) PROVE Aside
  BY <1>1, <1>4, OutdatedType DEF Proceed, TypeOK
<1>5. ASSUME NEW item, NEW name, Collide(c, item, name) PROVE Aside
  BY <1>3, <1>5 DEF Collide, TypeOK
<1>6. CASE UNCHANGED <<token, overlooked>>
  BY <1>6
<1>7. CASE Begin(c)
  BY <1>6, <1>7 DEF Begin, Construct, BeginGet, BeginGetMulti, BeginFree, BeginFreeAll,
                    BeginSync, BeginFlush, Start
<1>8. CASE AddIndex(c)
  BY <1>1, <1>8 DEF AddIndex
<1>9. CASE Gets(c) \/ Fetch(c)
  BY <1>3, <1>9 DEF Gets, Fetch, TypeOK
<1>10. CASE Reserve(c)
  BY <1>4, <1>5, <1>10 DEF Reserve, Claim
<1>11. CASE Release(c)
  BY <1>2, <1>3, <1>4, <1>5, <1>11 DEF Release, GiveBack
<1>12. CASE ReleaseAll(c) \/ PublishLocal(c)
  BY <1>2, <1>3, <1>4, <1>5, <1>12 DEF ReleaseAll, GiveBackAll, PublishLocal
<1>13. CASE StoreItem(c) \/ Delete(c) \/ ReadIndex(c)
  BY <1>3, <1>6, <1>13 DEF StoreItem, Delete, ReadIndex
<1>14. CASE Exhaust(c) \/ StoreNothing(c) \/ UpdateLocal(c)
  BY <1>3, <1>14 DEF Exhaust, StoreNothing, UpdateLocal
<1>15. CASE AddLocal(c) \/ DeleteIndex(c)
  BY <1>2, <1>6, <1>15 DEF AddLocal, DeleteIndex
<1> QED
  BY <1>7, <1>8, <1>9, <1>10, <1>11, <1>12, <1>13, <1>14, <1>15 DEF Step

\* One at a time comes to send.
LEMMA OneSendsStays ==
    ASSUME Sound, Settled, ReadsSettled, "flush" \notin Workload, NEW c \in Clients,
           Begin(c) \/ Step(c), LeavesQuiet(c)
    PROVE  OneSends'
<1>1. Sending(c)' => Sending(c) \/ token[c] = "current"
  BY SendingStays
<1>2. \A d \in Clients \ {c} : Sending(d)' <=> Sending(d)
  BY DEF LeavesQuiet, QuietStays, Sending
<1> QED
  BY <1>1, <1>2 DEF OneSends, Settled, ReadsSettled

\* Who is in the middle of reading reads what nobody changes, and has not come to
\* a key whose item somebody is about to store.
LEMMA ReadIsStoredStays ==
    ASSUME OwnMachines, SyncAlone, Sound, IInv', Settled, ReadsSettled,
           "flush" \notin Workload, NEW c \in Clients, Begin(c) \/ Step(c), LeavesQuiet(c)
    PROVE  ReadIsStored'
<1>0. TypeOK /\ KeyOfItem
  BY DEF Sound, IInv
<1>1. ASSUME NEW d \in Clients \ {c}, token'[d] = "current"
      PROVE  ~overlooked'[d] /\ \A i \in read'[d] : store'[i.value] = i
  <2>1. token[d] = "current" /\ overlooked'[d] = overlooked[d] /\ read'[d] = read[d]
    BY <1>0, <1>1, TokensRunOut DEF LeavesQuiet, QuietStays
  <2>2. UNCHANGED store
    BY <2>1, ServerIsKept DEF ReadsSettled
  <2> QED
    BY <2>1, <2>2 DEF Settled, ReadIsStored
<1>2. ASSUME token'[c] = "current"
      PROVE  ~overlooked'[c] /\ \A i \in read'[c] : store'[i.value] = i
  <2>1. pc'[c] = "get_multi"
    BY <1>2 DEF IInv, CurrentToken
  <2>2. CASE Gets(c)
    <3>1. /\ read' = [read EXCEPT ![c] = {}]
          /\ overlooked' = [overlooked EXCEPT ![c] = FALSE]
      BY <2>2 DEF Gets, Raise, Leave
    <3> QED
      BY <1>0, <3>1 DEF TypeOK
  <2>3. CASE Fetch(c)
    <3>1. PICK k \in todo[c] :
            /\ read' = [read EXCEPT ![c] = @ \cup ({store[k]} \ {NoItem})]
            /\ overlooked' = [overlooked EXCEPT ![c] = @ \/ Awaited(k)]
      BY <2>3 DEF Fetch
    <3>2. UNCHANGED <<store, token>> /\ k \in Values
      BY <1>0, <2>3 DEF Fetch, server, TypeOK
    <3>3. ~Awaited(k)
      BY <1>2, <3>2 DEF Awaited, ReadsSettled, Sending
    <3>4. /\ read'[c] = read[c] \cup ({store[k]} \ {NoItem})
          /\ overlooked'[c] = overlooked[c]
      BY <1>0, <3>1, <3>3 DEF TypeOK
    <3> QED
      BY <1>0, <1>2, <3>2, <3>4 DEF KeyOfItem, Settled, ReadIsStored
  <2>4. CASE AddLocal(c)
    <3>1. UNCHANGED <<store, token, read, overlooked>>
      BY <2>4, AddLocalWhole DEF AddLocal
    <3> QED
      BY <1>2, <3>1 DEF Settled, ReadIsStored
  <2> QED
    BY <1>0, <2>1, <2>2, <2>3, <2>4, StepLabel
<1> QED
  BY <1>1, <1>2 DEF ReadIsStored

\* A value is chosen where nothing is stored, and nothing is stored there until
\* the item that was chosen is.
LEMMA RoomIsKeptStays ==
    ASSUME OwnMachines, SyncAlone, Sound, IInv', ~clash', Settled, ReadsSettled,
           "flush" \notin Workload, NEW c \in Clients, Begin(c) \/ Step(c), LeavesQuiet(c)
    PROVE  RoomIsKept'
<1>0. TypeOK /\ KeyOfItem /\ Exclusive /\ Accounted
  BY DEF Sound, IInv, Whole
<1>1. ASSUME NEW d \in Clients \ {c}, pc'[d] = "store", NEW i \in pend'[d]
      PROVE  store'[i.value] \in {NoItem, i}
  <2>1. pc[d] = "store" /\ i \in pend[d]
    BY <1>1 DEF LeavesQuiet, QuietStays
  <2>2. UNCHANGED store
    BY <2>1, ServerIsKept DEF Settled, OneSends, Sending
  <2> QED
    BY <2>1, <2>2 DEF Settled, RoomIsKept
<1>2. ASSUME StoreItem(c), pc'[c] = "store", NEW i \in pend'[c]
      PROVE  store'[i.value] \in {NoItem, i}
  <2>1. PICK item \in pend[c] :
          /\ store' \in {store, [store EXCEPT ![item.value] = item]}
          /\ Return(c) \/ pend' = [pend EXCEPT ![c] = @ \ {item}]
    BY <1>2 DEF StoreItem
  <2>2. pc[c] = "store" /\ i \in pend[c]
    BY <1>0, <1>2, <2>1, LeavesLabel DEF StoreItem, TypeOK
  <2>3. i \in held[c] /\ item \in held[c] /\ i.value \in Values
    BY <1>0, <2>1, <2>2 DEF Sound, IInv, CallerOwns, Owns, TypeOK, Item
  <2>4. i.value = item.value => i = item
    BY <1>0, <2>3 DEF Exclusive
  <2> QED
    BY <1>0, <2>1, <2>2, <2>3, <2>4 DEF TypeOK, Settled, RoomIsKept
<1>3. ASSUME Reserve(c), pc'[c] = "store", NEW i \in pend'[c]
      PROVE  store'[i.value] \in {NoItem, i}
  <2>1. PICK view \in Views(read[c]) :
          \E f \in Allotments(Wanted(c, view), Values \ Vals(view)) : Claim(c, view, f)
    BY <1>3 DEF Reserve
  <2>2. PICK f \in Allotments(Wanted(c, view), Values \ Vals(view)) : Claim(c, view, f)
    BY <2>1
  <2> DEFINE new == NewItems(Prefix[c], call[c].request, f)
             old == OldItems(view, Prefix[c], call[c].request)
  <2>3. ~Collide(c, NoItem, 0)
    BY <1>0, <1>3, LeavesLabel
  <2>4. /\ token[c] = "current" /\ view = read[c] /\ ~overlooked[c]
        /\ pend' = [pend EXCEPT ![c] = new \cup old]
    BY <2>2, <2>3 DEF Claim, Publish
  <2>5. i \in new \cup old /\ UNCHANGED store /\ Answered(c)
    <3> HIDE DEF new, old
    <3> QED
      BY <1>0, <1>3, <2>4 DEF TypeOK, Reserve, Chooses
  <2>6. CASE i \in old
    <3>1. i \in read[c]
      BY <2>4, <2>6, OldItemsType
    <3> QED
      BY <2>4, <2>5, <3>1 DEF Settled, ReadIsStored
  <2>7. CASE i \in new
    <3>1. i.value \in Values \ Vals(view)
      BY <2>7 DEF NewItems, Fresh, Allotments
    <3>2. ASSUME store[i.value] # NoItem PROVE FALSE
      <4>1. ~ \E d \in Clients : Striking(d, i.value)
        BY <2>4 DEF ReadsSettled, Sending, Striking
      <4>2. i.value \in index
        BY <1>0, <3>1, <3>2, <4>1 DEF Accounted, Listed
      <4>3. store[i.value] \in view /\ store[i.value].value = i.value
        BY <1>0, <2>4, <2>5, <3>1, <3>2, <4>2, PublishKnows DEF KeyOfItem
      <4> QED
        BY <3>1, <4>3 DEF Vals
    <3> QED
      BY <2>5, <3>2
  <2> QED
    BY <2>5, <2>6, <2>7
<1> QED
  BY <1>0, <1>1, <1>2, <1>3, StepLabel DEF RoomIsKept

\* Who deletes has struck the keys before, and nobody lists them again.
LEMMA StrikesStay ==
    ASSUME OwnMachines, SyncAlone, Sound, IInv', ~clash', Settled, ReadsSettled,
           "flush" \notin Workload, NEW c \in Clients, Begin(c) \/ Step(c), LeavesQuiet(c)
    PROVE  StruckIsUnlisted'
<1>0. TypeOK /\ Founded(c)
  BY DEF Sound, IInv
<1>1. ASSUME NEW d \in Clients \ {c}, NEW k \in Values, Striking(d, k)'
      PROVE  (index # NoIndex /\ ~Listed(k))'
  <2>1. Striking(d, k)
    BY <1>1 DEF LeavesQuiet, QuietStays, Striking
  <2>2. index # NoIndex /\ ~Listed(k) /\ UNCHANGED index
    BY <2>1, ServerIsKept DEF ReadsSettled, Sending, Striking, Settled, StruckIsUnlisted
  <2> QED
    BY <2>2 DEF Listed
<1>2. ASSUME NEW k \in Values, pc'[c] = "delete", k \in todo'[c]
      PROVE  index' # NoIndex /\ k \notin index'
  <2>1. pc[c] \notin {"new", "add_index"} => index' # NoIndex
    BY IndexStays DEF Founded, Sound
  <2>2. CASE Release(c)
    <3> DEFINE item == call[c].item
    <3>1. PICK view \in Views(read[c]) : item # NoItem => GiveBack(c, view, item)
      BY <2>2 DEF Release
    <3>2. Answered(c) /\ call[c].op = "free"
      BY <2>2 DEF Release
    <3>3. item \in Item /\ item # NoItem /\ Frees(view, Prefix[c], item)
      BY <3>2, FreesIt
    <3>4. GiveBack(c, view, item) /\ item.value # 0
      BY <3>1, <3>3, PoolAssumption DEF Item, Values
    <3>5. /\ index' = Vals(read[c]) \ {item.value}
          /\ todo' = [todo EXCEPT ![c] = {item.value}]
      BY <1>0, <1>2, <3>3, <3>4, LeavesLabel DEF GiveBack, Publish
    <3>6. pc[c] = "get_multi" /\ todo'[c] = {item.value}
      BY <1>0, <3>2, <3>5 DEF Answered, TypeOK
    <3> QED
      BY <1>2, <2>1, <3>5, <3>6
  <2>3. CASE ReleaseAll(c)
    <3>1. PICK view \in Views(read[c]) : GiveBackAll(c, view, LocalItems(Prefix[c], view))
      BY <2>3 DEF ReleaseAll
    <3> DEFINE gone == LocalItems(Prefix[c], view)
    <3>2. index' = Vals(read[c]) \ Vals(gone) /\ todo' = [todo EXCEPT ![c] = Vals(gone)]
      BY <1>0, <1>2, <3>1, LeavesLabel DEF GiveBackAll, Publish
    <3>3. pc[c] = "get_multi" /\ todo'[c] = Vals(gone)
      BY <1>0, <2>3, <3>2 DEF ReleaseAll, Answered, TypeOK
    <3> QED
      BY <1>2, <2>1, <3>2, <3>3
  <2>4. CASE Delete(c)
    <3>1. pc[c] = "delete" /\ UNCHANGED index
      BY <2>4 DEF Delete
    <3>2. ~Return(c)
      BY <1>0, <1>2, LeavesLabel
    <3>3. \E j \in todo[c] : todo' = [todo EXCEPT ![c] = @ \ {j}]
      BY <2>4, <3>2 DEF Delete
    <3>4. k \in todo[c]
      BY <1>0, <1>2, <3>3 DEF TypeOK
    <3> QED
      BY <1>2, <3>1, <3>4 DEF Settled, StruckIsUnlisted, Striking, Listed
  <2>5. CASE ReadIndex(c)
    BY <2>5 DEF ReadIndex, Sound, Quiet, Operations
  <2> QED
    BY <1>0, <1>2, <2>2, <2>3, <2>4, <2>5, StepLabel
<1> QED
  BY <1>1, <1>2 DEF StruckIsUnlisted, Striking, Listed

\* A client stores an item under a name only if it has none of that name.
LEMMA DistinctStays ==
    ASSUME OwnMachines, SyncAlone, Sound, IInv', Settled, NEW c \in Clients,
           Begin(c) \/ Step(c)
    PROVE  Distinct'
<1>0. TypeOK /\ Distinct
  BY DEF Sound, IInv, Settled
<1>1. CASE UNCHANGED store
  BY <1>0, <1>1 DEF Distinct
<1>2. CASE Delete(c)
  <2>1. PICK k \in todo[c] : store' = [store EXCEPT ![k] = NoItem]
    BY <1>2 DEF Delete
  <2>2. \A j \in Values : store'[j] \in {NoItem, store[j]}
    BY <1>0, <2>1 DEF TypeOK
  <2> QED
    BY <1>0, <2>2 DEF Distinct
<1>3. CASE StoreItem(c)
  <2>1. PICK item \in pend[c] : store' \in {store, [store EXCEPT ![item.value] = item]}
    BY <1>3 DEF StoreItem
  <2>2. pc[c] = "store" /\ item \in held[c] /\ item \in Item
    BY <1>0, <1>3 DEF StoreItem, Sound, IInv, CallerOwns, Owns, TypeOK
  <2>3. ASSUME NEW k \in Values, k # item.value, store[k] # NoItem, Id(store[k]) = Id(item)
        PROVE  FALSE
    <3> DEFINE other == store[k]
    <3>1. other.value = k /\ other.prefix = item.prefix /\ other.name = item.name
      BY <2>3 DEF Sound, IInv, KeyOfItem, Id
    <3>2. item.prefix = Prefix[c]
      BY <2>2 DEF Sound, IInv, CallerOwns, Owns
    <3>3. /\ \A d \in Clients : ~Striking(d, k)
          /\ \A d \in Clients : other.prefix = Prefix[d] => d = c
          /\ ~Giving(c)
      BY <2>2, <3>1, <3>2 DEF OwnMachines, Settled, OneSends, Sending, Giving, Striking
    <3>4. other \in held[c]
      BY <2>3, <3>3 DEF Sound, IInv, CallerOwns, Owns, Whole, Accounted, Has, Returned
    <3>6. item.name \in Names \cup Values
      BY <2>2 DEF Item
    <3>7. CASE item.name \in Names
      BY <2>2, <2>3, <3>1, <3>4, <3>7 DEF Sound, NameIsKept
    <3>8. CASE item.name \in Values
      BY <2>2, <2>3, <3>1, <3>4, <3>8 DEF Sound, Whole, OwnName
    <3> QED
      BY <3>6, <3>7, <3>8
  <2>4. CASE store' = [store EXCEPT ![item.value] = item]
    <3>1. \A j \in Values : store'[j] = IF j = item.value THEN item ELSE store[j]
      BY <1>0, <2>4 DEF TypeOK
    <3> QED
      BY <1>0, <2>3, <3>1 DEF Distinct
  <2> QED
    BY <1>1, <2>1, <2>4
<1>4. CASE AddLocal(c)
  BY <1>1, <1>4, AddLocalWhole
<1> QED
  BY <1>1, <1>2, <1>3, <1>4
     DEF Begin, Construct, BeginGet, BeginGetMulti, BeginFree, BeginFreeAll, BeginSync,
         BeginFlush, Start, Step, AddIndex, Gets, Fetch, Reserve, Exhaust, Release,
         ReleaseAll, PublishLocal, StoreNothing, UpdateLocal, ReadIndex, DeleteIndex, server

\* If nobody reads the index between a cas and the last of the items it announces,
\* there is no clash: no value is ever reserved twice, under all operations but
\* flush, for any number of clients and values.  Before and after that gap the
\* operations may overlap as they please.
THEOREM SettledReadsAreSafe ==
    ASSUME OwnMachines, SyncAlone, ~Timed, Crashes = {}, "flush" \notin Workload
    PROVE  Spec /\ []ReadsSettled => [](Exclusive /\ ~clash)
<1> DEFINE Kept == Sound /\ Settled
<1>1. Init => Kept
  <2> SUFFICES ASSUME Init PROVE Settled
    BY InitSound
  <2>1. Distinct
    BY DEF Init, Distinct
  <2> QED
    BY <2>1 DEF Init, Settled, ReadIsStored, RoomIsKept, StruckIsUnlisted, OneSends,
                Sending, Striking
<1>2. IInv' /\ NameIsKept' /\ Kept /\ ReadsSettled /\ [Next]_vars => Kept'
  <2> SUFFICES ASSUME IInv', NameIsKept', Sound, Settled, ReadsSettled, [Next]_vars
               PROVE  Sound' /\ Settled'
    OBVIOUS
  <2>1. CASE UNCHANGED vars
    <3>1. ~clash'
      BY <2>1 DEF Sound, vars
    <3> QED
      BY <2>1, <3>1, StepSound
         DEF Settled, ReadIsStored, RoomIsKept, StruckIsUnlisted, OneSends, Distinct,
             Sending, Striking, Listed, vars, server, locals, caller
  <2>2. CASE Next
    <3>1. PICK c \in Clients : (Begin(c) \/ Step(c)) /\ LeavesQuiet(c)
      BY <2>2, OneSteps DEF Sound, IInv
    <3>2. ~clash'
      BY <3>1, SettledDoesNotClash
    <3>3. Settled'
      BY <3>1, <3>2, ReadIsStoredStays, RoomIsKeptStays, StrikesStay, OneSendsStays,
         DistinctStays DEF Settled
    <3> QED
      BY <3>2, <3>3, StepSound
  <2> QED
    BY <2>1, <2>2
<1>3. Kept => Exclusive /\ ~clash
  BY DEF Sound, IInv
<1> HIDE DEF Kept
<1> QED
  BY <1>1, <1>2, <1>3, Invariance, NamesAreKept, PTL DEF Spec

\* So it is in particular where clients take turns, each operation from its first
\* command to its last.
COROLLARY TurnsAreSafe ==
    ASSUME OwnMachines, SyncAlone, ~Timed, Crashes = {}, "flush" \notin Workload
    PROVE  Spec /\ []OneBusy => [](Exclusive /\ ~clash)
<1>1. IInv /\ OneBusy => ReadsSettled
  BY DEF IInv, CurrentToken, OneBusy, ReadsSettled, Sending, Busy
<1> QED
  BY <1>1, Invariance, SettledReadsAreSafe, PTL
=============================================================================
