---------------------------- MODULE MemcachePool ----------------------------
(***************************************************************************)
(* A resource pool that several processes share through memcached:         *)
(* utils/respool/memcache.py, MemcachePool over ResourcePool.              *)
(*                                                                         *)
(* memcached holds one key per reserved item and an index key, the pool's  *)
(* name, whose value is the set of item keys.  Every operation reads the   *)
(* index (gets), the items it lists (get_multi), updates the local pool,   *)
(* decides, writes the index back with cas, and only then writes or        *)
(* deletes the items.  One action is one command on one memcached key; the *)
(* multi-key commands are sequences of single-key ones.  A local decision  *)
(* is part of the cas that publishes it: nothing is shared in between.     *)
(*                                                                         *)
(* A cas token is a number in memcached that every write of the key        *)
(* changes; all a client can learn from its token is whether the index was *)
(* written since its gets, so that is what token[c] records.               *)
(***************************************************************************)
EXTENDS ResourcePool

CONSTANTS
    Clients,        \* the processes that hold a MemcachePool of this name
    Prefix,         \* the prefix of each client's pool
    Requests,       \* the names get and get_multi are called with
    Workload,       \* the operations the clients call
    Timed,          \* whether items are stored with a timeout
    Crashes,        \* the clients that may die
    NoIndex,        \* the pool's name is not a key of memcached
    NoOp

Operations == {"get", "get_multi", "free", "free_all", "sync", "flush"}

ASSUME ClientAssumption ==
    /\ Prefix \in [Clients -> Prefixes]
    /\ DOMAIN Requests = {"get", "get_multi"}
    /\ \A request \in Requests["get"] : Len(request) = 1
    /\ \A op \in DOMAIN Requests : Requests[op] \subseteq Seq(Names \cup {NoName})
    /\ \A op \in DOMAIN Requests : \A request \in Requests[op] :  \* name % (i + 1)
        \A m, n \in DOMAIN request : request[m] = request[n] => m = n \/ request[m] = NoName
    /\ Workload \subseteq Operations
    /\ Timed \in BOOLEAN
    /\ Crashes \subseteq Clients
    /\ \A ids \in SUBSET Values : NoIndex # ids
    /\ NoOp \notin Operations \cup {"init"}

VARIABLES
    index,      \* memcached: the value of the pool's name
    store,      \* memcached: the item stored under each item key
    items,      \* pool.items of each client
    pc,         \* the command each client is about to send
    call,       \* the operation in progress and its argument
    token,      \* the cas token returned by the last gets
    keys,       \* key_names
    todo,       \* keys the multi-key command in progress has not reached
    read,       \* the items get_multi has returned so far
    pend,       \* items still to be stored
    keyName,    \* free's key_name; 0 while the variable is unbound
    held,       \* items reserved for the caller, from the cas that claims them
    lapsed,     \* items the caller still has although their lease ran out
    overlooked, \* history: get_multi came to a key before its item was stored
    clash       \* history: a reservation was overlooked, refused or deleted

server  == <<index, store>>
locals  == <<call, token, keys, todo, read, pend, keyName, overlooked>>
caller  == <<held, lapsed>>
vars    == <<server, items, pc, locals, caller, clash>>

NoCall == [op |-> NoOp, request |-> <<>>, item |-> NoItem]

Call == [op: Operations \cup {"init", NoOp},
         request: Seq(Names \cup {NoName}),
         item: Item \cup {NoItem}]

PCs == {"new", "idle", "add_index", "gets", "get_multi", "store", "delete",
        "update", "flush"}

Busy(c) == pc[c] \notin {"new", "idle"}

TypeOK ==
    /\ index \in {NoIndex} \cup SUBSET Values
    /\ store \in [Values -> Item \cup {NoItem}]
    /\ items \in [Clients -> SUBSET Item]
    /\ pc \in [Clients -> PCs]
    /\ call \in [Clients -> Call]
    /\ token \in [Clients -> {"none", "current", "stale"}]
    /\ keys \in [Clients -> SUBSET Values]
    /\ todo \in [Clients -> SUBSET Values]
    /\ read \in [Clients -> SUBSET Item]
    /\ pend \in [Clients -> SUBSET Item]
    /\ keyName \in [Clients -> Values \cup {0}]
    /\ held \in [Clients -> SUBSET Item]
    /\ lapsed \in [Clients -> SUBSET Item]
    /\ overlooked \in [Clients -> BOOLEAN]
    /\ clash \in BOOLEAN

Init ==
    /\ index = NoIndex
    /\ store = [k \in Values |-> NoItem]
    /\ items = [c \in Clients |-> {}]
    /\ pc = [c \in Clients |-> "new"]
    /\ call = [c \in Clients |-> NoCall]
    /\ token = [c \in Clients |-> "none"]
    /\ keys = [c \in Clients |-> {}]
    /\ todo = [c \in Clients |-> {}]
    /\ read = [c \in Clients |-> {}]
    /\ pend = [c \in Clients |-> {}]
    /\ keyName = [c \in Clients |-> 0]
    /\ held = [c \in Clients |-> {}]
    /\ lapsed = [c \in Clients |-> {}]
    /\ overlooked = [c \in Clients |-> FALSE]
    /\ clash = FALSE

-----------------------------------------------------------------------------
(* Beginning and ending an operation *)

Goto(c, label) == pc' = [pc EXCEPT ![c] = label]

\* The variables of the operation go out of scope.
Leave(c, label, tokens) ==
    /\ Goto(c, label)
    /\ token' = [tokens EXCEPT ![c] = "none"]
    /\ call' = [call EXCEPT ![c] = NoCall]
    /\ keys' = [keys EXCEPT ![c] = {}]
    /\ todo' = [todo EXCEPT ![c] = {}]
    /\ read' = [read EXCEPT ![c] = {}]
    /\ pend' = [pend EXCEPT ![c] = {}]
    /\ keyName' = [keyName EXCEPT ![c] = 0]
    /\ overlooked' = [overlooked EXCEPT ![c] = FALSE]

\* The operation returns, or is left by an exception; when that happens in
\* the constructor there is no pool.
Return(c) == Leave(c, "idle", token)
Raise(c) == Leave(c, IF call[c].op = "init" THEN "new" ELSE "idle", token)

\* The index is written: every token handed out for it is out of date.
Outdated == [c \in Clients |-> IF token[c] = "current" THEN "stale" ELSE token[c]]

Start(c, op, request, item, label) ==
    /\ call' = [call EXCEPT ![c] = [op |-> op, request |-> request, item |-> item]]
    /\ Goto(c, label)
    /\ UNCHANGED <<server, items, token, keys, todo, read, pend, keyName,
                   overlooked, clash>>

Idle(c, op) == pc[c] = "idle" /\ op \in Workload

\* The constructor ends with a sync of a pool that has no items.
Construct(c) ==
    /\ pc[c] = "new"
    /\ Start(c, "init", <<>>, NoItem, "add_index")
    /\ UNCHANGED caller

BeginGet(c) ==
    /\ Idle(c, "get")
    /\ \E request \in Requests["get"] : Start(c, "get", request, NoItem, "gets")
    /\ UNCHANGED caller

BeginGetMulti(c) ==
    /\ Idle(c, "get_multi")
    /\ \E request \in Requests["get_multi"] :
        Start(c, "get_multi", request, NoItem, "gets")
    /\ UNCHANGED caller

\* The caller gives an item back: one whose lease runs, or one whose lease ran
\* out without the caller being told.
BeginFree(c) ==
    /\ Idle(c, "free")
    /\ \E item \in held[c] \cup lapsed[c] :
        /\ Start(c, "free", <<>>, item, "gets")
        /\ held' = [held EXCEPT ![c] = @ \ {item}]
        /\ lapsed' = [lapsed EXCEPT ![c] = @ \ {item}]

BeginFreeAll(c) ==
    /\ Idle(c, "free_all")
    /\ Start(c, "free_all", <<>>, NoItem, "gets")
    /\ held' = [held EXCEPT ![c] = {}]
    /\ lapsed' = [lapsed EXCEPT ![c] = {}]

BeginSync(c) ==
    /\ Idle(c, "sync")
    /\ Start(c, "sync", <<>>, NoItem, "add_index")
    /\ UNCHANGED caller

BeginFlush(c) ==
    /\ Idle(c, "flush")
    /\ Start(c, "flush", <<>>, NoItem, "flush")
    /\ UNCHANGED caller

-----------------------------------------------------------------------------
(* Reading memcached *)

Syncing(c) == call[c].op \in {"init", "sync"}

\* Mutant: sync sets the index where it should add it.
SetIndex(c) ==
    /\ pc[c] = "add_index"
    /\ Goto(c, "gets")
    /\ index' = {}
    /\ token' = Outdated
    /\ UNCHANGED <<store, items, call, keys, todo, read, pend, keyName,
                   overlooked, caller, clash>>

\* sync: mc.add(pool.name, pool.local_items).  What is added when the index is
\* missing is the dict of the local items: its members are prefix + name, no
\* item key is among them.
AddIndex(c) ==
    /\ pc[c] = "add_index"
    /\ Goto(c, "gets")
    /\ IF index = NoIndex
         THEN index' = {} /\ token' = Outdated
         ELSE UNCHANGED <<index, token>>
    /\ UNCHANGED <<store, items, call, keys, todo, read, pend, keyName,
                   overlooked, caller, clash>>

\* key_names, cas = mc.gets(pool.name).  Without an index both are None, which
\* get_multi does not take; sync passes an empty list in its place.
Gets(c) ==
    /\ pc[c] = "gets"
    /\ IF index = NoIndex /\ ~Syncing(c)
         THEN Raise(c)
         ELSE /\ Goto(c, "get_multi")
              /\ LET names == IF index = NoIndex THEN {} ELSE index IN
                   /\ keys' = [keys EXCEPT ![c] = names]
                   /\ todo' = [todo EXCEPT ![c] = names]
              /\ token' = [token EXCEPT ![c] =
                             IF index = NoIndex THEN "none" ELSE "current"]
              /\ read' = [read EXCEPT ![c] = {}]
              /\ pend' = [pend EXCEPT ![c] =
                             IF Syncing(c) THEN LocalItems(Prefix[c], items[c]) ELSE {}]
              /\ overlooked' = [overlooked EXCEPT ![c] = FALSE]
              /\ UNCHANGED <<call, keyName>>
    /\ UNCHANGED <<server, items, caller, clash>>

\* A client has published the key and not yet stored its item.
Awaited(k) ==
    \E d \in Clients : \E item \in pend[d] :
        pc[d] = "store" /\ item.value = k /\ store[k] # item

\* One key of get_multi; a key without an item is left out of the answer.
Fetch(c) ==
    /\ pc[c] \in {"get_multi", "update"}
    /\ \E k \in todo[c] :
        /\ todo' = [todo EXCEPT ![c] = @ \ {k}]
        /\ read' = [read EXCEPT ![c] = @ \cup ({store[k]} \ {NoItem})]
        /\ overlooked' = [overlooked EXCEPT ![c] = @ \/ Awaited(k)]
    /\ UNCHANGED <<server, items, pc, call, token, keys, pend, keyName, caller, clash>>

\* Mutant: an answer that is not complete is taken for one.
PartlyAnswered(c) == pc[c] = "get_multi"

Answered(c) == pc[c] = "get_multi" /\ todo[c] = {}

-----------------------------------------------------------------------------
(* Publishing a decision: mc.cas(pool.name, pool_ids, cas) *)

\* Mutant: the loop starts over after its gets.
CollideAgain(c, item, name) ==
    /\ token[c] = "stale"
    /\ UNCHANGED <<index, pc, locals, clash>>

\* The loop of an operation; that of sync adds the index before its gets.
LoopStart(c) == IF Syncing(c) THEN "add_index" ELSE "gets"

\* The index was written since the gets: sent a token that is out of date
\* the command fails and the loop starts over, with the item and key_name the
\* attempt has left; the key itself missing is an error the library raises.
Collide(c, item, name) ==
    /\ token[c] = "stale"
    /\ IF index = NoIndex
         THEN Raise(c)
         ELSE /\ Goto(c, LoopStart(c))
              /\ token' = [token EXCEPT ![c] = "none"]
              /\ keys' = [keys EXCEPT ![c] = {}]
              /\ read' = [read EXCEPT ![c] = {}]
              /\ overlooked' = [overlooked EXCEPT ![c] = FALSE]
              /\ call' = [call EXCEPT ![c] =
                             [op |-> @.op, request |-> @.request, item |-> item]]
              /\ keyName' = [keyName EXCEPT ![c] = name]
              /\ UNCHANGED <<todo, pend>>
    /\ UNCHANGED <<index, clash>>

\* Mutant: the index is written with set.
Overwrite(c, ids) == index' = ids

Publish(c, ids) ==
    /\ token[c] = "current"
    /\ index' = ids

\* The cas succeeded and the operation has commands left to send.
Proceed(c, label) ==
    /\ Goto(c, label)
    /\ token' = [Outdated EXCEPT ![c] = "none"]
    /\ keys' = [keys EXCEPT ![c] = {}]
    /\ read' = [read EXCEPT ![c] = {}]
    /\ overlooked' = [overlooked EXCEPT ![c] = FALSE]
    /\ UNCHANGED call

\* get and get_multi: the local pool chooses, the index gains the keys.
Claim(c, view, f) ==
    LET new == NewItems(Prefix[c], call[c].request, f)
        got == new \cup OldItems(view, Prefix[c], call[c].request)
    IN
    /\ items' = [items EXCEPT ![c] = Put(view, new)]
    /\ \/ /\ Collide(c, NoItem, 0)
          /\ UNCHANGED held
       \/ /\ Publish(c, Vals(read[c]) \cup Vals(got))
          /\ Proceed(c, "store")
          /\ pend' = [pend EXCEPT ![c] = got]
          /\ held' = [held EXCEPT ![c] = @ \cup got]
          /\ clash' = (clash \/ overlooked[c] \/ view # read[c])
          /\ UNCHANGED <<todo, keyName>>

Chooses(c) == Answered(c) /\ call[c].op \in {"get", "get_multi"}

Wanted(c, view) == Missing(view, Prefix[c], call[c].request)

Refused(c, view) == call[c].op = "get" /\ AtSize(view)

Reserve(c) ==
    /\ Chooses(c)
    /\ \E view \in Views(read[c]) :
        /\ ~Refused(c, view)
        /\ \E f \in Allotments(Wanted(c, view), Values \ Vals(view)) :
            DOMAIN f = Wanted(c, view) /\ Claim(c, view, f)
    /\ UNCHANGED <<store, lapsed>>

\* PoolExhausted, before anything is published.  What get_multi had already
\* chosen stays in the local pool.
Exhaust(c) ==
    /\ Chooses(c)
    /\ \E view \in Views(read[c]) :
        \/ /\ Refused(c, view)
           /\ items' = [items EXCEPT ![c] = view]
        \/ /\ ~Refused(c, view)
           /\ \E f \in Allotments(Wanted(c, view), Values \ Vals(view)) :
                /\ DOMAIN f # Wanted(c, view)
                /\ items' = [items EXCEPT ![c] =
                               Put(view, NewItems(Prefix[c], call[c].request, f))]
    /\ Raise(c)
    /\ UNCHANGED <<server, caller, clash>>

\* free: the item the last attempt returned is what the next one frees, so
\* after one that found nothing the retry fails on None.  Once the index is
\* written, a key_name no attempt has bound ends the operation too.
GiveBack(c, view, item) ==
    LET freed == Frees(view, Prefix[c], item)
        name  == IF freed THEN item.value ELSE keyName[c]
    IN
    /\ items' = [items EXCEPT ![c] = view \ Popped(view, Prefix[c], item)]
    /\ \/ Collide(c, IF freed THEN item ELSE NoItem, name)
       \/ /\ Publish(c, Vals(read[c]) \ (IF freed THEN {item.value} ELSE {}))
          /\ clash' = (clash \/ overlooked[c] \/ view # read[c]
                             \/ (freed /\ item \notin view))
          /\ IF name = 0
               THEN Leave(c, "idle", Outdated)
               ELSE /\ Proceed(c, "delete")
                    /\ todo' = [todo EXCEPT ![c] = {name}]
                    /\ keyName' = [keyName EXCEPT ![c] = name]
                    /\ UNCHANGED pend

Release(c) ==
    /\ Answered(c)
    /\ call[c].op = "free"
    /\ \E view \in Views(read[c]) :
        \/ /\ call[c].item # NoItem
           /\ GiveBack(c, view, call[c].item)
        \/ /\ call[c].item = NoItem
           /\ items' = [items EXCEPT ![c] = view]
           /\ Raise(c)
           /\ UNCHANGED <<index, clash>>
    /\ UNCHANGED <<store, caller>>

\* free_all: every item under the client's prefix, whichever process got it.
GiveBackAll(c, view, gone) ==
    /\ items' = [items EXCEPT ![c] = view \ gone]
    /\ \/ Collide(c, NoItem, 0)
       \/ /\ Publish(c, Vals(read[c]) \ Vals(gone))
          /\ clash' = (clash \/ overlooked[c] \/ view # read[c])
          /\ IF gone = {}
               THEN Leave(c, "idle", Outdated)
               ELSE /\ Proceed(c, "delete")
                    /\ todo' = [todo EXCEPT ![c] = Vals(gone)]
                    /\ UNCHANGED <<pend, keyName>>

ReleaseAll(c) ==
    /\ Answered(c)
    /\ call[c].op = "free_all"
    /\ \E view \in Views(read[c]) : GiveBackAll(c, view, LocalItems(Prefix[c], view))
    /\ UNCHANGED <<store, caller>>

\* sync publishes the items it read and its own, when it has added them all.
\* A gets that found no index left None for the token: cas does not take it.
PublishLocal(c) ==
    /\ Answered(c)
    /\ Syncing(c)
    /\ pend[c] = {}
    /\ \/ /\ token[c] = "none"
          /\ Raise(c)
          /\ UNCHANGED <<index, clash>>
       \/ Collide(c, NoItem, 0)
       \/ /\ Publish(c, Vals(read[c]) \cup Vals(LocalItems(Prefix[c], items[c])))
          /\ clash' = (clash \/ overlooked[c])
          /\ Proceed(c, "update")
          /\ todo' = [todo EXCEPT ![c] = keys[c]]
          /\ UNCHANGED <<pend, keyName>>
    /\ UNCHANGED <<store, items, caller>>

-----------------------------------------------------------------------------
(* After the index: the items *)

\* sync: mc.add of each local item, before the index is written.
AddLocal(c) ==
    /\ Answered(c)
    /\ \E item \in pend[c] :
        /\ pend' = [pend EXCEPT ![c] = @ \ {item}]
        /\ store' = IF store[item.value] = NoItem
                      THEN [store EXCEPT ![item.value] = item] ELSE store
    /\ UNCHANGED <<index, items, pc, call, token, keys, todo, read, keyName,
                   overlooked, caller, clash>>

\* get stores its item with add, which does nothing when the key exists, and
\* does not look at the answer; get_multi stores with set.  The caller gets
\* the items when the last one is sent.
StoreItem(c) ==
    /\ pc[c] = "store"
    /\ \E item \in pend[c] :
        LET k == item.value
            refused == call[c].op = "get" /\ store[k] # NoItem
        IN
        /\ store' = IF refused THEN store ELSE [store EXCEPT ![k] = item]
        /\ clash' = (clash \/ store[k] \notin {NoItem, item})
        /\ IF pend[c] = {item}
             THEN Return(c)
             ELSE /\ pend' = [pend EXCEPT ![c] = @ \ {item}]
                  /\ UNCHANGED <<pc, call, token, keys, todo, read, keyName, overlooked>>
    /\ UNCHANGED <<index, items, caller>>

\* get_multi(0, ...) has nothing to store.
StoreNothing(c) ==
    /\ pc[c] = "store"
    /\ pend[c] = {}
    /\ Return(c)
    /\ UNCHANGED <<server, items, caller, clash>>

\* mc.delete and mc.delete_multi of free, free_all and flush.
Delete(c) ==
    /\ pc[c] = "delete"
    /\ \E k \in todo[c] :
        /\ store' = [store EXCEPT ![k] = NoItem]
        /\ clash' = (clash \/ index = NoIndex \/ k \in index)
        /\ IF todo[c] = {k} /\ call[c].op # "flush"
             THEN Return(c)
             ELSE /\ todo' = [todo EXCEPT ![c] = @ \ {k}]
                  /\ UNCHANGED <<pc, call, token, keys, read, pend, keyName, overlooked>>
    /\ UNCHANGED <<index, items, caller>>

\* sync's last get_multi, of the keys listed BEFORE its cas.
UpdateLocal(c) ==
    /\ pc[c] = "update"
    /\ todo[c] = {}
    /\ \E view \in Views(read[c]) : items' = [items EXCEPT ![c] = view]
    /\ Return(c)
    /\ UNCHANGED <<server, caller, clash>>

-----------------------------------------------------------------------------
(* flush *)

\* key_names = mc.get(pool.name); delete_multi does not take None.
ReadIndex(c) ==
    /\ pc[c] = "flush"
    /\ IF index = NoIndex
         THEN Raise(c)
         ELSE /\ Goto(c, "delete")
              /\ todo' = [todo EXCEPT ![c] = index]
              /\ UNCHANGED <<call, token, keys, read, pend, keyName, overlooked>>
    /\ UNCHANGED <<server, items, caller, clash>>

DeleteIndex(c) ==
    /\ pc[c] = "delete"
    /\ call[c].op = "flush"
    /\ todo[c] = {}
    /\ index' = NoIndex
    /\ clash' = TRUE
    /\ Leave(c, "idle", Outdated)
    /\ UNCHANGED <<store, items, caller>>

-----------------------------------------------------------------------------
(* Failures *)

\* The process dies; the one that replaces it starts with an empty pool.
Crash(c) ==
    /\ c \in Crashes
    /\ pc[c] # "new"
    /\ Leave(c, "new", token)
    /\ items' = [items EXCEPT ![c] = {}]
    /\ held' = [held EXCEPT ![c] = {}]
    /\ lapsed' = [lapsed EXCEPT ![c] = {}]
    /\ UNCHANGED <<server, clash>>

\* memcached drops an item whose time is up.  Callers that got it are not
\* told; one that is about to store it again is about to renew it.
Renewing(c, item) == pc[c] = "store" /\ item \in pend[c]

Expire(k) ==
    /\ Timed
    /\ store[k] # NoItem
    /\ store' = [store EXCEPT ![k] = NoItem]
    /\ LET lost == [c \in Clients |->
                      {i \in held[c] : i = store[k] /\ ~Renewing(c, i)}] IN
         /\ held' = [c \in Clients |-> held[c] \ lost[c]]
         /\ lapsed' = [c \in Clients |-> lapsed[c] \cup lost[c]]
    /\ UNCHANGED <<index, items, pc, locals, clash>>

-----------------------------------------------------------------------------
Begin(c) ==
    \/ Construct(c) \/ BeginGet(c) \/ BeginGetMulti(c) \/ BeginFree(c)
    \/ BeginFreeAll(c) \/ BeginSync(c) \/ BeginFlush(c)

\* The next command of an operation in progress.
Step(c) ==
    \/ AddIndex(c) \/ Gets(c) \/ Fetch(c)
    \/ Reserve(c) \/ Exhaust(c) \/ Release(c) \/ ReleaseAll(c) \/ PublishLocal(c)
    \/ AddLocal(c) \/ StoreItem(c) \/ StoreNothing(c) \/ Delete(c) \/ UpdateLocal(c)
    \/ ReadIndex(c) \/ DeleteIndex(c)

Next ==
    \/ \E c \in Clients : Begin(c) \/ Step(c) \/ Crash(c)
    \/ \E k \in Values : Expire(k)

Spec == Init /\ [][Next]_vars

\* A client in an operation goes on with it and memcached answers; nobody has
\* to begin an operation, to crash, or to lose an item.
FairSpec == Spec /\ \A c \in Clients : WF_vars(Step(c))

-----------------------------------------------------------------------------
(* What the pool promises *)

\* The processes are on different machines, and each machine has an id.
OwnMachines ==
    /\ \A c, d \in Clients : Prefix[c] = Prefix[d] => c = d
    /\ \A c \in Clients : Prefix[c] # EmptyPrefix

\* "Call get() to reserve one item" (base.py:156): no value is reserved twice,
\* neither by two clients nor by one, while the lease of the first lasts.
Exclusive ==
    \A c, d \in Clients : \A i \in held[c], j \in held[d] :
        i.value = j.value => c = d /\ i = j

\* The code keeps that promise until one of the events that history variable
\* clash records, each a sign the code could see and does not look at: a
\* listed key read before its item was stored, an add that is refused, a
\* delete of a key that is listed again, an item freed that is not the one
\* memcached has, two items under one name, a flush.
ReservedOnce == clash \/ Exclusive

\* Put differently: until a clash the pool implements Allocator.  What is lent
\* is what its callers have; only a cas that succeeds lends, and only to its
\* own caller; only the caller, its death or its lease takes back.
Lending == INSTANCE Allocator WITH lent <- held

LendsUntilClash == Lending!Init /\ [][clash' \/ Lending!Next]_held

\* Until then, too, memcached has every reservation a client relies on: its
\* key is in the index, and its item is stored by the time get returns, so
\* that whoever asks next can see it (memcache.py:24).
HeldIsStored ==
    clash \/ \A c \in Clients : \A i \in held[c] :
        /\ index # NoIndex /\ i.value \in index
        /\ ~Busy(c) => store[i.value] = i

\* And get(name) returns the item saved under the name, however often it is
\* called and whatever happened to the process in between: a client never
\* has two items of one name (test_memcache.py:49).
NameIsKept ==
    clash \/ \A c \in Clients : \A i, j \in held[c] :
        i.name \in Names /\ i.name = j.name => i = j

\* A pool with a size never has more items reserved than that, over all its
\* clients, when they come from get: IpPortResourcePool.get counts its copy
\* of the pool, and cas rejects what was decided on an old copy.
SizeIsKept ==
    clash \/ Size = 0 \/ Cardinality(UNION {held[c] : c \in Clients}) <= Size

\* At rest memcached has the N+1 pairs of memcache.py:24: the index lists the
\* items that are stored, and each of them is somebody's.  Nothing that was
\* given back stays reserved.  (A process that dies, an item whose time is up
\* and a sync of what a failed get_multi had chosen do leave something.)
Resting == ~clash /\ index # NoIndex /\ \A c \in Clients : ~Busy(c)

NothingLeaks ==
    Resting => /\ index = {k \in Values : store[k] # NoItem}
               /\ index = UNION {Vals(held[c]) : c \in Clients}

\* The retry loop is lock-free: an attempt fails only because another client
\* got through, so as long as some client is in an operation, operations
\* keep ending.
Ends(c) == Busy(c) /\ ~Busy(c)'

LockFree ==
    \/ <>[](\A c \in Clients : ~Busy(c))
    \/ []<><<\E c \in Clients : Ends(c)>>_vars

-----------------------------------------------------------------------------
(* The inductive invariant behind ReservedOnce *)

\* memcached stores an item under its own key.
KeyOfItem == \A k \in Values : store[k] # NoItem => store[k].value = k

\* A token that is not out of date proves that the index is the one read.
CurrentToken ==
    \A c \in Clients : token[c] = "current" =>
        index # NoIndex /\ pc[c] = "get_multi" /\ keys[c] = index

\* get_multi returns at most one item for each key, and none for a key it has
\* not reached yet.
ReadOnce ==
    \A c \in Clients : \A i, j \in read[c] :
        /\ pc[c] \in {"get_multi", "update"}
        /\ i.value \notin todo[c]
        /\ i.value = j.value => i = j

\* What a caller has was got under its own prefix; what is being stored is
\* reserved; what is being given back is not.
Owns(c) ==
    /\ \A i \in held[c] \cup lapsed[c] : i.prefix = Prefix[c]
    /\ call[c].item # NoItem =>
          /\ call[c].op = "free"
          /\ call[c].item.prefix = Prefix[c]
          /\ call[c].item \notin held[c]
    /\ call[c].op = "free_all" => held[c] = {}
    /\ pc[c] = "store" => pend[c] \subseteq held[c]

CallerOwns == \A c \in Clients : Owns(c)

\* A reservation is listed, and stored unless its holder is still at it.
Backed ==
    \A c \in Clients : \A i \in held[c] :
        /\ index # NoIndex /\ i.value \in index
        /\ store[i.value] = i \/ (pc[c] = "store" /\ i \in pend[c])

\* A client whose cas would succeed, and who came to no key too early, has
\* read every reservation there is or has yet to reach its key.
Informed ==
    \A c \in Clients : token[c] = "current" /\ ~overlooked[c] =>
        \A d \in Clients : \A i \in held[d] : i \in read[c] \/ i.value \in todo[c]

IInv ==
    /\ TypeOK
    /\ KeyOfItem
    /\ CurrentToken
    /\ ReadOnce
    /\ CallerOwns
    /\ clash \/ (Exclusive /\ Backed /\ Informed)
=============================================================================
