---------------------------- MODULE MCAlgorithms ----------------------------
(***************************************************************************)
(* The pure algorithms, Versions and Configuration, for TLC: a question is *)
(* one of a set of inputs, and is answered in one step.                    *)
(***************************************************************************)
EXTENDS MCVersions, Configuration, TLC

vars == <<question, answer>>

-----------------------------------------------------------------------------
(* Inputs *)

\* What the key x is in a file, every leaf being the name of its file: not
\* there, a leaf, or a section of up to two leaves.
Sections(f) ==
    {<< >>} \cup {[x |-> s] : s \in {Leaf(f)} \cup {[k \in ks |-> Leaf(f)] : ks \in SUBSET {"p", "q"}}}

Extending(bases, config) == IF bases = << >> THEN config ELSE (Extends :> Leaf(bases)) @@ config

\* Three files, the first the configuration, and a form.
Loads ==
    {[kind |-> "load",
      files |-> <<Extending(b1, f1), Extending(b2, f2), f3>>,
      form |-> Extending(b, f)] :
        b1 \in {<< >>, <<2>>, <<3>>, <<2, 3>>, <<3, 2>>}, b2 \in {<< >>, <<3>>},
        b \in {<< >>, <<3>>},
        f1 \in Sections("f1"), f2 \in Sections("f2"), f3 \in Sections("f3"),
        f \in Sections("form")}

Init == AskCompare \/ (\E q \in Loads : Ask(q))

AnswerLoad ==
    /\ answer = NoAnswer /\ question.kind = "load"
    /\ answer' = load(question.files, 1, question.form)
    /\ UNCHANGED question

Next == AnswerCompare \/ AnswerLoad

Spec == Init /\ [][Next]_vars

Loaded == question.kind = "load" /\ answer # NoAnswer

-----------------------------------------------------------------------------
(* Properties *)

\* The places of a value that are not dictionaries themselves.
Places == {<<"x">>, <<"x", "p">>, <<"x", "q">>}

RECURSIVE At(_, _)
At(value, place) ==
    IF place = << >> THEN value
    ELSE IF IsDict(value) /\ Head(place) \in DOMAIN value
      THEN At(value[Head(place)], Tail(place))
      ELSE NoAnswer

LeafAt(value, place) ==
    At(value, place) # NoAnswer /\ ~IsDict(At(value, place))

\* The sources of a configuration, those that decide first: the form, the
\* configuration, what it extends from the last to the first, each after
\* what it is extended by.
RECURSIVE Sources(_, _)
Sources(files, config) ==
    <<config>> \o FlattenSeq([i \in DOMAIN Bases(config) |->
                    Sources(files, files[Reverse(Bases(config))[i]])])

AllSources(q) == <<q.form>> \o Sources(q.files, BeforeExtend(q.files[1], q.form))

\* No place is a section in one source and something else in another.
Agree(q) ==
    \A s, t \in {AllSources(q)[i] : i \in DOMAIN AllSources(q)} :
        {"x"} \subseteq DOMAIN s \cap DOMAIN t => IsDict(s["x"]) = IsDict(t["x"])

\* Where the sources agree on what is a section, each place has what the first
\* source that has it says, through however many files (driver.py:209).
FirstSourceWins ==
    Loaded /\ Agree(question) =>
        \A place \in Places :
            LET Having == {i \in DOMAIN AllSources(question) :
                              LeafAt(AllSources(question)[i], place)}
            IN  IF Having = {}
                  THEN ~LeafAt(answer, place)
                  ELSE At(answer, place) =
                         At(AllSources(question)[CHOOSE i \in Having :
                                                    \A j \in Having : i <= j], place)
=============================================================================
