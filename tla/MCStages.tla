------------------------------ MODULE MCStages -------------------------------
(* Instances of Stages for TLC. *)
EXTENDS Stages, TLC

Stage(priority, g, devices, parallel, threads) ==
    [priority |-> priority, group |-> g, devices |-> devices, parallel |-> parallel,
     threads |-> threads, root |-> TRUE, parent |-> NoFlag, own |-> NoFlag]

With(s, root, parent, own) ==
    [s EXCEPT !.root = root, !.parent = parent, !.own = own]

\* A group of a parallel stage and a serial one, then a stage of its own that
\* comes later in the section and earlier by its priority.
Serial ==
    1 :> Stage(2, 1, 2, TRUE, 10) @@ 2 :> Stage(3, 1, 2, FALSE, 10)
    @@ 3 :> Stage(1, 3, 1, TRUE, 10)

\* A cap smaller than the devices, and one smaller than the first's.
Capped ==
    1 :> Stage(1, 1, 3, TRUE, 2) @@ 2 :> Stage(1, 1, 2, TRUE, 1)
    @@ 3 :> Stage(1, 3, 1, TRUE, 0)

\* Stages in the caller among threads, one of them of an unknown type.
Inlined ==
    1 :> Stage(1, 1, 2, TRUE, 10) @@ 2 :> Stage(2, 1, Inline, TRUE, 10)
    @@ 3 :> Stage(3, 1, Undefined, TRUE, 10) @@ 4 :> Stage(3, 4, 1, TRUE, 10)

\* Stages enabled and disabled by themselves, by their parent and by the root.
Flagged ==
    1 :> With(Stage(1, 1, 1, TRUE, 10), NoFlag, NoFlag, NoFlag)
    @@ 2 :> With(Stage(1, 2, 1, TRUE, 10), NoFlag, TRUE, NoFlag)
    @@ 3 :> With(Stage(1, 2, 1, TRUE, 10), FALSE, TRUE, NoFlag)
    @@ 4 :> With(Stage(1, 2, 1, TRUE, 10), FALSE, FALSE, TRUE)
    @@ 5 :> With(Stage(1, 5, 0, TRUE, 10), TRUE, FALSE, NoFlag)

\* And every pair of stages, in one group or in two.
Kinds(g, priorities, devices) ==
    {Stage(priority, g, d, parallel, threads) :
        priority \in priorities, d \in devices, parallel \in BOOLEAN, threads \in {1, 2}}

Pairs ==
    {1 :> s @@ 2 :> t : s \in Kinds(1, {2}, {Inline, 2, 3}),
                        t \in UNION {Kinds(g, {1, 2}, {Inline, 2}) : g \in {1, 2}}}

AllSections == {Serial, Capped, Inlined, Flagged} \cup Pairs
=============================================================================
