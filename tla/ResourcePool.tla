---------------------------- MODULE ResourcePool ----------------------------
(***************************************************************************)
(* The local half of a resource pool: utils/respool/base.py, ResourcePool. *)
(*                                                                         *)
(* A pool hands out the values of a finite iterable.  A value is          *)
(* represented by its position in the iterable, 1 .. N, so "the first      *)
(* value that is not taken" is the smallest one; the iterable is taken to  *)
(* list no value twice (a range, or a product of an IP and a port range).  *)
(*                                                                         *)
(* self.items, a dict from prefix + name to item, is the set of its items: *)
(* the dict key of an item is Id(item).  self.values, the set of the keys  *)
(* of the items, is Vals(items): update_with recomputes it before every    *)
(* operation that reads it.                                                *)
(*                                                                         *)
(* The operators are relations where the code's answer depends on the      *)
(* order of a dict or on a loop: an action picks a member of Views or of   *)
(* Allotments.                                                             *)
(***************************************************************************)
EXTENDS Integers, FiniteSets, Sequences

CONSTANTS
    N,              \* how many values the iterable has
    Size,           \* IpPortResourcePool's size argument; 0 when it is None
    Names,          \* the names items are asked for by
    Prefixes,       \* the prefixes of the machines sharing the pool
    NoName,         \* get() without a name
    EmptyPrefix,    \* the prefix '' (no machine id): every key starts with it
    NoItem          \* None, and a key that memcached does not have

\* A name is no item's key: keys are addresses, or numbers.
ASSUME PoolAssumption ==
    /\ N \in Nat \ {0}
    /\ Size \in Nat
    /\ NoName \notin Names
    /\ Names \cap (1 .. N) = {}
    /\ NoItem \notin [value: 1 .. N, name: Names \cup 1 .. N, prefix: Prefixes]

Values == 1 .. N

\* An item without a name is called by its key.
Item == [value: Values, name: Names \cup Values, prefix: Prefixes]

Id(item) == <<item.prefix, item.name>>

Ids(items) == {Id(i) : i \in items}

Vals(items) == {i.value : i \in items}

(***************************************************************************)
(* update_with(values): the dict built from the items that were read.  Of  *)
(* two items with one prefix + name the dict keeps the one it meets last.  *)
(***************************************************************************)
Views(read) ==
    {view \in SUBSET read :
        /\ Ids(view) = Ids(read)
        /\ \A i, j \in view : Id(i) = Id(j) => i = j}

\* local_items: the items whose dict key starts with the pool's prefix.
\* Mutant: every key starts with the pool's prefix.
CoversAll(prefix, item) == TRUE

Covers(prefix, item) == prefix \in {EmptyPrefix, item.prefix}

LocalItems(prefix, items) == {i \in items : Covers(prefix, i)}

\* self.items[prefix + item.name] = item
Put(items, new) == {i \in items : Id(i) \notin Ids(new)} \cup new

(***************************************************************************)
(* get and get_multi.  A request is the sequence of names asked for: one   *)
(* name (or NoName) for get, the expansions of the template for get_multi. *)
(* A name the pool already has is answered with the saved item; each other *)
(* one, in turn, with the first value that is not taken.                   *)
(***************************************************************************)
\* Mutant: the saved items are not looked at.
SavedNever(items, prefix, name) == {}

Saved(items, prefix, name) ==
    {i \in items : name # NoName /\ Id(i) = <<prefix, name>>}

Missing(items, prefix, request) ==
    {n \in DOMAIN request : Saved(items, prefix, request[n]) = {}}

Fresh(prefix, name, value) ==
    [value |-> value, name |-> IF name = NoName THEN value ELSE name, prefix |-> prefix]

\* What the loop assigns: the missing names in order, to the free values in
\* order, until either runs out.
Allotments(missing, free) ==
    {f \in UNION {[served -> free] : served \in SUBSET missing} :
        /\ \A m, n \in DOMAIN f : m < n => f[m] < f[n]
        /\ \A n \in DOMAIN f, m \in missing : m < n => m \in DOMAIN f
        /\ \A n \in DOMAIN f, v \in free : v < f[n] => \E m \in DOMAIN f : f[m] = v
        /\ DOMAIN f = missing \/ {f[n] : n \in DOMAIN f} = free}

NewItems(prefix, request, f) == {Fresh(prefix, request[n], f[n]) : n \in DOMAIN f}

OldItems(items, prefix, request) ==
    UNION {Saved(items, prefix, request[n]) : n \in DOMAIN request}

\* IpPortResourcePool.get counts the items before it looks a name up.
\* Mutant: one item too many.
PastSize(items) == Size > 0 /\ Cardinality(items) > Size

AtSize(items) == Size > 0 /\ Cardinality(items) >= Size

(***************************************************************************)
(* free(item): the dict entry is found by the item's NAME, its value then  *)
(* is struck from the values.  Both removals may raise KeyError, which     *)
(* free turns into None: the second one after the entry is gone.           *)
(***************************************************************************)
\* Mutant: the entry is looked up by the item's key.
PoppedByKey(items, prefix, item) == {i \in items : Id(i) = <<prefix, item.value>>}

Popped(items, prefix, item) == {i \in items : Id(i) = <<prefix, item.name>>}

Frees(items, prefix, item) ==
    Popped(items, prefix, item) # {} /\ item.value \in Vals(items)
=============================================================================
