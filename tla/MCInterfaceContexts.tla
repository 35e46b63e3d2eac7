------------------------- MODULE MCInterfaceContexts -------------------------
(***************************************************************************)
(* A class and a test of it, a file whose commands share one context, a    *)
(* parametrized test, and the test whose name its id matches as a pattern. *)
(***************************************************************************)
EXTENDS InterfaceContexts, TLC

CONSTANTS class, test, file, param, other
CONSTANTS h1, h2, h3, h4, h5, h6, o1, o2, o3, k1, k2

AllContexts == {class, test, file, param, other}

AllObjects == {o1, o2, o3}

AllKinds == [o \in AllObjects |-> IF o = o3 THEN k2 ELSE k1]

\* The helpers of the file are alike, and so are two of the interfaces.
Alike == {x @@ y : x \in Permutations({h3, h4}), y \in Permutations({o1, o2})}

AllPrefixes ==
    [c \in AllContexts |-> IF c = test THEN <<class, test>> ELSE <<c>>]

AllMatches ==
    {<<c, c>> : c \in AllContexts \ {param}} \cup {<<other, param>>}

AllHelpers == {h1, h2, h3, h4, h5, h6}

Names ==
    [h \in AllHelpers |->
        CASE h = h1 -> class
          [] h = h2 -> test
          [] h \in {h3, h4} -> file
          [] h = h5 -> param
          [] h = h6 -> other]
=============================================================================
