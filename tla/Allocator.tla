----------------------------- MODULE Allocator ------------------------------
(***************************************************************************)
(* What a resource pool promises its callers (utils/respool/base.py,       *)
(* 143-163): a caller is lent items whose values nobody has, keeps each of *)
(* them until it gives it back, and nobody else can take them away.        *)
(***************************************************************************)
CONSTANTS
    Clients,        \* who asks
    Item            \* records with a value, the resource that is lent

VARIABLE lent       \* the items each client has

Init == lent = [c \in Clients |-> {}]

\* A step is one client's.
Alone(c) == lent' = [lent EXCEPT ![c] = lent'[c]]

\* get, get_multi: c may be lent again what it has already (the item saved
\* under a name), but nobody is lent a value that is lent.
Lend(c) ==
    /\ Alone(c)
    /\ lent[c] \subseteq lent'[c] /\ lent'[c] \subseteq Item
    /\ \A i, j \in lent'[c] : i.value = j.value => i = j
    /\ \A d \in Clients \ {c} : \A i \in lent'[c], j \in lent[d] : i.value # j.value

\* free, free_all; also the end of the process or of the lease
TakeBack(c) == Alone(c) /\ lent'[c] \subseteq lent[c]

Next == \E c \in Clients : Lend(c) \/ TakeBack(c)

Spec == Init /\ [][Next]_lent
=============================================================================
