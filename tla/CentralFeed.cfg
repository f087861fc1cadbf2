SPECIFICATION FairSpec
CONSTANTS
    w1 = w1
    w2 = w2
    NoWorker = NoWorker
    Workers <- TwoWorkers
    MaxEvents = 4
    BatchCount = 2
    MaxFaults = 1
    Refused <- LastRefused
CHECK_DEADLOCK FALSE
INVARIANTS TypeOK RetiredIsApplied PollReachesCursor Coherent
PROPERTIES ImplementsOrderedDelivery EventuallyRetired
