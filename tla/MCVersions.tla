----------------------------- MODULE MCVersions -----------------------------
(***************************************************************************)
(* Comparisons of versions, for TLC: a question is a pair of versions, and *)
(* is answered in one step.  MCAlgorithms asks other questions besides.    *)
(***************************************************************************)
EXTENDS Versions

CONSTANTS
    MaxDigit,       \* bound: digits of versions
    MaxVersion,     \* bound: how many of them a version has
    MaxBuild,       \* bound: and its build
    NoAnswer

ASSUME VersionsAssumption == MaxDigit \in Nat

VARIABLES question, answer

Products == {"", "bigip"}

AllVersions ==
    [product: Products,
     version: UNION {[1 .. n -> 0 .. MaxDigit] : n \in 1 .. MaxVersion},
     build: UNION {[1 .. n -> 0 .. MaxDigit] : n \in 0 .. MaxBuild}]

Comparisons == [kind: {"compare"}, v: AllVersions, w: AllVersions]

Ask(q) == question = q /\ answer = NoAnswer

AskCompare == \E q \in Comparisons : Ask(q)

AnswerCompare ==
    /\ answer = NoAnswer /\ question.kind = "compare"
    /\ answer' = Cmp(question.v, question.w)
    /\ UNCHANGED question

Compared == question.kind = "compare" /\ answer # NoAnswer

\* The versions of one product are ordered, with however many digits they are
\* written (version.py:247): turning a comparison round turns its result, and
\* what is less or equal to something less or equal is less or equal.
VersionsAreOrdered ==
    Compared /\ question.v.product = question.w.product =>
        LET v == question.v  w == question.w IN
        /\ Cmp(w, v) = -answer
        /\ \A u \in AllVersions :
            /\ Le(v, u) /\ Le(u, w) => answer \in {-1, 0}
            /\ Lt(v, u) /\ Le(u, w) => answer = -1
=============================================================================
