SPECIFICATION FairSpec
CONSTANTS
    Size = 5
    Block = 2
    MaxAttempts = 4
    MaxFaults = 3
INVARIANTS PullSafe
PROPERTIES PullEnds
