-------------------------- MODULE MCLoadGenerator ---------------------------
(* An instance of LoadGenerator for TLC. *)
EXTENDS LoadGenerator

CONSTANTS a, b

TwoUrls == <<a, b>>

\* For each way to call it a pattern that adds, removes, or does both.
Calls == {
    [requests |-> 3, concurrency |-> 2, stats |-> TRUE, balancing |-> FALSE,
     pattern |-> <<0>>],
    [requests |-> 2, concurrency |-> 2, stats |-> TRUE, balancing |-> FALSE,
     pattern |-> <<-1, 1>>],
    [requests |-> 2, concurrency |-> 2, stats |-> TRUE, balancing |-> TRUE,
     pattern |-> <<-1, 1>>],
    [requests |-> 2, concurrency |-> 1, stats |-> FALSE, balancing |-> TRUE,
     pattern |-> <<2, -1>>],
    [requests |-> -1, concurrency |-> 2, stats |-> FALSE, balancing |-> FALSE,
     pattern |-> <<1>>],
    [requests |-> -1, concurrency |-> 2, stats |-> FALSE, balancing |-> TRUE,
     pattern |-> <<-1>>]}

\* No call asks for more threads than there are.
ASSUME EnoughWorkers ==
    \A s \in Calls :
        s.concurrency + FoldSeq(LAMBDA n, sum : IF n > 0 THEN n + sum ELSE sum, 0, s.pattern)
            <= MaxWorkers
=============================================================================
