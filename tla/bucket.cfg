\* Three threads share a bucket; one of the blocks fills it, one does not fit.
CONSTANTS
  Users = {u1, u2, u3}
  capacity = 3
  fill_rate = 2
  Sizes = {1, 3, 4}
  u1 = u1
  u2 = u2
  u3 = u3
SPECIFICATION FairSpec
INVARIANTS RateIsKept SleepIsEnough
PROPERTIES SomeoneIsServed
