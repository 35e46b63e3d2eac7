--------------------------- MODULE MCMemcachePool ---------------------------
(* Instances of MemcachePool for TLC. *)
EXTENDS MemcachePool

CONSTANTS c1, c2, m1, m2, vip

\* Each process on a machine of its own.
OwnPrefix == [c \in Clients |-> IF c = c1 THEN m1 ELSE m2]

\* get(), and get_multi of nothing and of two; get('vip'); get() and get('vip').
Anonymous == [get |-> {<<NoName>>}, get_multi |-> {<<>>, <<NoName, NoName>>}]
Mixed == [get |-> {<<NoName>>}, get_multi |-> {<<>>, <<NoName, vip>>}]
Named == [get |-> {<<vip>>}, get_multi |-> {}]
Both == [get |-> {<<NoName>>, <<vip>>}, get_multi |-> {}]

\* The processes are interchangeable, together with their machines.
Swap == [x \in {c1, c2, m1, m2} |->
            CASE x = c1 -> c2 [] x = c2 -> c1 [] x = m1 -> m2 [] x = m2 -> m1]
Interchange == {Swap}

\* clash never becomes false again, and what the properties say of states
\* after a clash is nothing.
NoClash == ~clash
=============================================================================
