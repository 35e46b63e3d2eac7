\* A load generator of up to three workers, two URLs and a queue of one.
CONSTANTS
  a = a
  b = b
  NoUrl = NoUrl
  MaxWorkers = 3
  Urls <- TwoUrls
  Cap = 1
  Settings <- Calls
SPECIFICATION FairSpec
INVARIANTS RatiosCount StatsAreComplete WorkersAreGone
PROPERTIES StopEnds Finishes
