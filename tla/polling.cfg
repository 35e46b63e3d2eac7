\* A page, two tasks, a buffer of one line, two polls on their way; three times the
\* user turns the page or a key gets lost.
CONSTANTS
  Keep = 1
  MaxLines = 2
  MaxTasks = 2
  MaxFlight = 2
  MaxMoves = 3
  Patience = 2
  None = None
SPECIFICATION FairSpec
INVARIANTS NothingSkipped ShownOnce
PROPERTIES PollingStops
