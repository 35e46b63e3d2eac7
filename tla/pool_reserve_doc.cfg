\* Two calls of get reserve one value.
CONSTANTS
  N = 2
  Size = 0
  Names = {}
  Prefixes = {m1, m2}
  NoName = NoName
  EmptyPrefix = EmptyPrefix
  NoItem = NoItem
  Clients = {c1, c2}
  Prefix <- OwnPrefix
  Requests <- Anonymous
  Workload = {"get"}
  Timed = FALSE
  Crashes = {}
  NoIndex = NoIndex
  NoOp = NoOp
  c1 = c1
  c2 = c2
  m1 = m1
  m2 = m2
  vip = vip
SPECIFICATION Spec
INVARIANTS Exclusive
