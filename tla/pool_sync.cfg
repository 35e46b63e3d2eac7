\* Operations on whole pools.
CONSTANTS
  N = 2
  Size = 0
  Names = {vip}
  Prefixes = {m1, m2}
  NoName = NoName
  EmptyPrefix = EmptyPrefix
  NoItem = NoItem
  Clients = {c1, c2}
  Prefix <- OwnPrefix
  Requests <- Mixed
  Workload = {"get", "get_multi", "free", "free_all", "sync"}
  Timed = FALSE
  Crashes = {}
  NoIndex = NoIndex
  NoOp = NoOp
  c1 = c1
  c2 = c2
  m1 = m1
  m2 = m2
  vip = vip
SPECIFICATION Spec
CONSTRAINT NoClash
INVARIANTS ReservedOnce HeldIsStored
SYMMETRY Interchange
