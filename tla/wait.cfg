\* A wait for a condition that has to be met for 3 seconds, called while an
\* exception is handled.
CONSTANTS
    Timeout = 9
    Interval = 2
    Stabilize = 3
    Negated = FALSE
    Truthy = {1}
    MaxAttempt = 2
    Handling = TRUE
SPECIFICATION FairSpec
INVARIANTS SettledSince NoFalseTimeout LeavesNoTrace
PROPERTIES StopNeverRetries Terminates
