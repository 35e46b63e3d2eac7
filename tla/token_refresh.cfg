\* Tokens that are valid for less than the pause, for up to twice the pause, and for longer.
CONSTANTS
    PAUSE = 6
    Timeouts = {2, 4, 6, 8, 10, 12, 14, 20}
    Delay = 1
    MaxAge = 24
SPECIFICATION FairSpec
INVARIANTS NeverExpired OverdueBounded
PROPERTIES StoppedThreadEnds AlwaysRenewed
