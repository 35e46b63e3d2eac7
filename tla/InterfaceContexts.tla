-------------------------- MODULE InterfaceContexts --------------------------
(***************************************************************************)
(* The interfaces to devices that contexts open, share and close:          *)
(* interfaces/testcase.py, InterfaceHelper and ContextHelper.              *)
(*                                                                         *)
(* Helpers are the objects that tests, fixtures, commands and plugins call;*)
(* all they have is the name of their context.  What they store is kept by *)
(* that name, in one dictionary per thread, of which this is a model: a    *)
(* get finds the interfaces of the contexts whose names begin its own.     *)
(* Helpers are used in a nested way, as fixtures, setUp and tearDown, and  *)
(* with statements do.                                                     *)
(*                                                                         *)
(* The dictionary is searched for keys that, as shell patterns, match the  *)
(* name looked up: Matches.  A plain name only matches itself.  The id of  *)
(* a parametrized test, test[a], does not match itself, and matches testa. *)
(***************************************************************************)
EXTENDS Naturals, Sequences

CONSTANTS
    Contexts,   \* the names of contexts
    Prefixes,   \* of a name: the names it begins with, up to a dot, and itself
    Matches,    \* pairs of a name and of a key that matches it
    Helpers,
    NameOf,     \* the context of a helper
    Kinds,      \* what repr(interface) tells apart
    Objects,    \* bound: interfaces there are at the same time
    KindOf,     \* what kind an interface is of
    Depth,      \* bound: helpers in use at the same time
    None

ASSUME ContextsAssumption ==
    /\ Prefixes \in [Contexts -> Seq(Contexts)]
    /\ \A c \in Contexts : Prefixes[c] # <<>> /\ Prefixes[c][Len(Prefixes[c])] = c
    \* What comes before a prefix is one of its own, unless it comes again: the
    \* name .a.b begins with itself, with .a, and with itself.
    /\ \A c \in Contexts : \A j \in DOMAIN Prefixes[c] : \A i \in 1 .. j - 1 :
          \/ \E k \in DOMAIN Prefixes[Prefixes[c][j]] :
                Prefixes[Prefixes[c][j]][k] = Prefixes[c][i]
          \/ \E k \in j + 1 .. Len(Prefixes[c]) : Prefixes[c][k] = Prefixes[c][i]
    /\ Matches \subseteq Contexts \X Contexts
    /\ NameOf \in [Helpers -> Contexts]
    /\ KindOf \in [Objects -> Kinds]
    /\ None \notin Objects \cup Contexts
    /\ Depth \in Nat

VARIABLES
    stack,      \* the helpers in use, the innermost last
    order,      \* the keys of the dictionary, in the order they were set
    store,      \* its interfaces containers
    open,       \* the interfaces that are open
    owner,      \* history: the context that stores an open interface
    failed      \* history: the contexts whose last teardown raised

vars == <<stack, order, store, open, owner, failed>>

Elements(s) == {s[i] : i \in DOMAIN s}

Entered == Elements(stack)

Empty == [n \in Kinds |-> None]

TypeOK ==
    /\ stack \in Seq(Helpers) /\ Len(stack) <= Depth
    /\ order \in Seq(Contexts)
    /\ \A i, j \in DOMAIN order : order[i] = order[j] => i = j
    /\ store \in [Contexts -> [Kinds -> Objects \cup {None}]]
    /\ open \subseteq Objects
    /\ owner \in [Objects -> Contexts \cup {None}]
    /\ failed \subseteq Contexts
    /\ \A c \in Contexts : store[c] # Empty => c \in Elements(order)
    /\ \A o \in Objects \ open : owner[o] = None

Init ==
    /\ stack = <<>> /\ order = <<>>
    /\ store = [c \in Contexts |-> Empty]
    /\ open = {}
    /\ owner = [o \in Objects |-> None]
    /\ failed = {}

-----------------------------------------------------------------------------
(* get_container: the dictionaries found are merged, the later over the     *)
(* earlier, along the names first and then in the order of the keys         *)

\* Where an interface of kind n is stored, seen along the names of path.
Places(path, n) ==
    {p \in (DOMAIN path) \X (DOMAIN order) :
        /\ <<path[p[1]], order[p[2]]>> \in Matches
        /\ store[order[p[2]]][n] # None}

Over(p, q) == p[1] > q[1] \/ (p[1] = q[1] /\ p[2] > q[2])

\* Mutant: the dictionaries are merged the other way round.
FirstOf(places) == {p \in places : \A q \in places : p = q \/ Over(q, p)}

LastOf(places) == {p \in places : \A q \in places : p = q \/ Over(p, q)}

\* The interface of kind n in the merged dictionary, if there is one.
Found(path, n) ==
    LET places == Places(path, n)
    IN  {store[order[p[2]]][n] : p \in LastOf(places)}

\* exact: the name alone.
Exact(c) == <<c>>

\* Mutant: teardown sees what the context sees.
NotExact(c) == Prefixes[c]

Torn(c) == Exact(c)

-----------------------------------------------------------------------------
(* The interface that a get is about *)

\* An interface that is neither open nor stored is nobody's: a new one.
Fresh(n) ==
    {o \in Objects : /\ KindOf[o] = n /\ o \notin open
                     /\ \A c \in Contexts : store[c][n] # o}

\* Mutant: a context is stored anew whether it is there or not.
TouchAnew(c) == Append(order, c)

\* setdefault: a context that is not there becomes the last one.
Touch(c) == IF c \in Elements(order) THEN order ELSE Append(order, c)

Open(o, c) ==
    /\ open' = open \cup {o}
    /\ owner' = [owner EXCEPT ![o] = c]
    /\ UNCHANGED <<stack, failed>>

Close(os) ==
    /\ open' = open \ os
    /\ owner' = [o \in Objects |-> IF o \in os THEN None ELSE owner[o]]

-----------------------------------------------------------------------------

\* Outer contexts are set up first: a class before its tests.
Enter(h) ==
    /\ Len(stack) < Depth
    /\ h \notin Entered
    /\ \A g \in Entered : NameOf[g] # NameOf[h] =>
          NameOf[h] \notin Elements(Prefixes[NameOf[g]])
    /\ stack' = Append(stack, h)
    /\ UNCHANGED <<order, store, open, owner, failed>>

\* get_interface, for one that was stored before; it is opened if it is closed.
\* (Here and below an open that raises leaves everything as it was.)
GetAgain(h, n) ==
    /\ h \in Entered
    /\ \E c \in Contexts : /\ store[c][n] \in Found(Prefixes[NameOf[h]], n)
                          /\ Open(store[c][n], c)
    /\ UNCHANGED <<order, store>>

\* Mutant: a new interface is stored with the outermost context.
GetFirstOutside(h, n) ==
    /\ h \in Entered
    /\ Found(Prefixes[NameOf[h]], n) = {}
    /\ \E o \in Fresh(n), c \in {Prefixes[NameOf[h]][1]} :
          /\ Open(o, NameOf[h])
          /\ order' = Touch(c)
          /\ store' = [store EXCEPT ![c][n] = o]

\* get_interface, for one that was not: set_data stores it with the context.
GetFirst(h, n) ==
    /\ h \in Entered
    /\ Found(Prefixes[NameOf[h]], n) = {}
    /\ \E o \in Fresh(n), c \in {NameOf[h]} :
          /\ Open(o, c)
          /\ order' = Touch(c)
          /\ store' = [store EXCEPT ![c][n] = o]

\* get_interface with reuse=False: nothing is stored.
GetAnother(h, n) ==
    /\ h \in Entered
    /\ \E o \in Fresh(n) : Open(o, None)
    /\ UNCHANGED <<order, store>>

\* An interface is closed by its user, or loses its connection.
Drop(o) ==
    /\ o \in open
    /\ Close({o})
    /\ UNCHANGED <<stack, order, store, failed>>

-----------------------------------------------------------------------------
(* _teardown *)

\* The interfaces of the kinds ns, as teardown finds them.
Closed(c, ns) == UNION {Found(Torn(c), n) : n \in ns}

\* The kinds that teardown finds.
Stored(c) == {n \in Kinds : Found(Torn(c), n) # {}}

\* The kinds of which the context itself has an interface, as unset_data needs.
Own(c) == {n \in Kinds : store[c][n] # None}

\* Mutant: the context is deleted even if a close raised.
UnsetAll(c, ns) == [store EXCEPT ![c] = Empty]

Unset(c, ns) == [store EXCEPT ![c] = [n \in Kinds |-> IF n \in ns THEN None ELSE @[n]]]

\* del self._config[self._name]: a key is there once.
Delete(c) ==
    IF c \in Elements(order)
      THEN \E i \in DOMAIN order :
              /\ order[i] = c
              /\ order' = SubSeq(order, 1, i - 1) \o SubSeq(order, i + 1, Len(order))
      ELSE UNCHANGED order

Leave(h) ==
    /\ stack # <<>> /\ h = stack[Len(stack)]
    /\ stack' = SubSeq(stack, 1, Len(stack) - 1)

\* Every interface is closed and taken out, and then the context.
Exit(h) ==
    LET c == NameOf[h] IN
    /\ Leave(h)
    /\ Stored(c) \subseteq Own(c)
    /\ Close(Closed(c, Stored(c)))
    /\ store' = [store EXCEPT ![c] = Empty]
    /\ Delete(c)
    /\ failed' = failed \ {c}

\* A close raises, after those of ns: the interface stays open and stored.
CloseFails(h) ==
    LET c == NameOf[h] IN
    /\ Leave(h)
    /\ \E ns \in SUBSET (Stored(c) \cap Own(c)) :
          /\ ns # Stored(c)
          /\ Close(Closed(c, ns))
          /\ store' = Unset(c, ns)
    /\ failed' = failed \cup {c}
    /\ UNCHANGED order

\* An interface was found that is another context's: it is closed, but unset_data
\* raises KeyError, having made a container to delete it from.
UnsetFails(h) ==
    LET c == NameOf[h] IN
    /\ Leave(h)
    /\ \E ns \in SUBSET (Stored(c) \cap Own(c)), n \in Stored(c) \ Own(c) :
          /\ Close(Closed(c, ns \cup {n}))
          /\ store' = Unset(c, ns)
    /\ order' = Touch(c)
    /\ failed' = failed \cup {c}

-----------------------------------------------------------------------------

Next ==
    \/ \E o \in Objects : Drop(o)
    \/ \E h \in Helpers :
        \/ Enter(h)
        \/ \E n \in Kinds : GetAgain(h, n) \/ GetFirst(h, n) \/ GetAnother(h, n)
        \/ Exit(h) \/ CloseFails(h) \/ UnsetFails(h)

Spec == Init /\ [][Next]_vars

-----------------------------------------------------------------------------
(* What contexts are for *)

\* A name that matches itself, and no pattern among the names matches.
Plain(c) == \A k \in Contexts : <<c, k>> \in Matches <=> k = c

\* An interface that a context opened is in the store as long as it is open, so
\* that it will be found and closed: no other takes its place.
NothingLost ==
    \A o \in open : owner[o] # None /\ Plain(owner[o]) => store[owner[o]][KindOf[o]] = o

\* Once the helpers of a context have been torn down, and no close has raised,
\* no interface it opened is open.
ClosedAtExit ==
    \A o \in open :
        owner[o] # None /\ Plain(owner[o]) /\ owner[o] \notin failed =>
          \E h \in Entered : NameOf[h] = owner[o]

\* The teardown of a context does not close the interfaces of another, whoever
\* uses them.
OnlyItsOwn ==
    [][\A o \in open \ open' :
          Len(stack') < Len(stack) /\ Plain(NameOf[stack[Len(stack)]]) =>
            owner[o] = NameOf[stack[Len(stack)]]]_vars

\* Every name the context of h begins with is plain, and one helper's alone.
Undisturbed(h) ==
    \A c \in Elements(Prefixes[NameOf[h]]) :
        /\ Plain(c)
        /\ \A f, g \in Helpers : NameOf[f] = c /\ NameOf[g] = c => f = g

\* As long as a helper is in use every get of a kind of interface gives it the
\* same one, whatever the contexts around it open or close.
SameInterface ==
    [][\A h \in Entered, n \in Kinds :
          h \in Entered' /\ Undisturbed(h) /\ Found(Prefixes[NameOf[h]], n) # {} =>
            Found(Prefixes[NameOf[h]], n)' = Found(Prefixes[NameOf[h]], n)]_vars

-----------------------------------------------------------------------------
(* The inductive invariant behind NothingLost and ClosedAtExit *)

\* An interface is stored as what it is, and in one place.
StoredOnce ==
    \A c, d \in Contexts, n \in Kinds : store[c][n] # None =>
        /\ KindOf[store[c][n]] = n
        /\ store[c][n] = store[d][n] => c = d

\* Where an open interface is stored, the context that stores it owns it.
OwnedByStore ==
    \A o \in open, c \in Contexts : store[c][KindOf[o]] = o => owner[o] = c

\* A context has something only while a helper of it is in use, unless its last
\* teardown raised.
Attended ==
    \A c \in Contexts : Plain(c) /\ c \notin failed /\ store[c] # Empty =>
        \E h \in Entered : NameOf[h] = c

\* A helper is in use once, and what is entered later is no name around it.
Nested ==
    \A j \in DOMAIN stack : \A i \in 1 .. j - 1 :
        /\ stack[i] # stack[j]
        /\ NameOf[stack[i]] # NameOf[stack[j]] =>
              NameOf[stack[j]] \notin Elements(Prefixes[NameOf[stack[i]]])

IInv == TypeOK /\ StoredOnce /\ OwnedByStore /\ NothingLost /\ Attended /\ Nested

=============================================================================
