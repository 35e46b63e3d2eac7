\* Two helpers of one context, a context within another, and a pattern, two deep.
CONSTANTS
    class = class  test = test  file = file  param = param  other = other
    h1 = h1  h2 = h2  h3 = h3  h4 = h4  h5 = h5  h6 = h6
    Contexts <- AllContexts
    Prefixes <- AllPrefixes
    Matches <- AllMatches
    Helpers <- AllHelpers
    NameOf <- Names
    Kinds = {k1, k2}
    o1 = o1  o2 = o2  o3 = o3  k1 = k1  k2 = k2
    Objects <- AllObjects
    KindOf <- AllKinds
    Depth = 2
    None = None
SYMMETRY Alike
SPECIFICATION Spec
INVARIANTS IInv NothingLost ClosedAtExit
PROPERTIES OnlyItsOwn SameInterface
