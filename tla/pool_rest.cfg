\* What is left in memcached when nobody is at it, in a pool of two values that
\* lends one; flush at any time; the retry loops end.
CONSTANTS
  N = 2
  Size = 1
  Names = {vip}
  Prefixes = {m1, m2}
  NoName = NoName
  EmptyPrefix = EmptyPrefix
  NoItem = NoItem
  Clients = {c1, c2}
  Prefix <- OwnPrefix
  Requests <- Both
  Workload = {"get", "free", "flush"}
  Timed = FALSE
  Crashes = {}
  NoIndex = NoIndex
  NoOp = NoOp
  c1 = c1
  c2 = c2
  m1 = m1
  m2 = m2
  vip = vip
SPECIFICATION FairSpec
INVARIANTS NothingLeaks SizeIsKept
PROPERTIES LockFree
