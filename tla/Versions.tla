------------------------------ MODULE Versions ------------------------------
(***************************************************************************)
(* utils/version.py: the comparison of versions, by which commands and     *)
(* macros decide what a device can do.                                     *)
(*                                                                         *)
(* A version has a product, "" when its string names none, and the digits  *)
(* of its version and its build, as many as there were in the string.  A   *)
(* comparison of two products has no result: -1, 0, 1, or NoResult.        *)
(***************************************************************************)
EXTENDS Integers, Sequences

NoResult == 2

\* py2x_cmp
Compare(a, b) == IF a > b THEN 1 ELSE IF a < b THEN -1 ELSE 0

Digit(s, i) == IF i \in DOMAIN s THEN s[i] ELSE 0

\* Mutant: zip.
Zipped(s, t) == [i \in DOMAIN s \cap DOMAIN t |-> Compare(s[i], t[i])]

\* zip_longest(..., fillvalue=0)
Pairs(s, t) == [i \in DOMAIN s \cup DOMAIN t |-> Compare(Digit(s, i), Digit(t, i))]

\* The first that is not 0, as reduce finds it.
FirstDecides(results) ==
    LET Deciding == {i \in DOMAIN results : results[i] # 0}
    IN  IF Deciding = {} THEN 0
        ELSE results[CHOOSE i \in Deciding : \A j \in Deciding : i <= j]

\* Version._cmp
Cmp(v, w) ==
    IF v.product # w.product
      THEN NoResult
      ELSE FirstDecides(Pairs(v.version, w.version) \o Pairs(v.build, w.build))

\* __lt__, __le__
Lt(v, w) == Cmp(v, w) = -1
Le(v, w) == Cmp(v, w) \in {-1, 0}
=============================================================================
