\* Named items whose leases run out, and a process that dies.
CONSTANTS
  N = 2
  Size = 0
  Names = {vip}
  Prefixes = {m1, m2}
  NoName = NoName
  EmptyPrefix = EmptyPrefix
  NoItem = NoItem
  Clients = {c1, c2}
  Prefix <- OwnPrefix
  Requests <- Named
  Workload = {"get", "free"}
  Timed = TRUE
  Crashes = {c1}
  NoIndex = NoIndex
  NoOp = NoOp
  c1 = c1
  c2 = c2
  m1 = m1
  m2 = m2
  vip = vip
SPECIFICATION Spec
CONSTRAINT NoClash
INVARIANTS IInv NameIsKept
PROPERTIES LendsUntilClash
