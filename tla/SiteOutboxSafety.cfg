SPECIFICATION Spec
CONSTANTS
    w1 = w1
    w2 = w2
    s1 = s1
    s2 = s2
    NoWorker = NoWorker
    Workers <- TwoWorkers
    Slots <- TwoSlots
    MaxEvents = 3
    MaxAttempts = 2
    BatchCount = 2
    MaxTokens = 2
    MaxFaults = 1
    Rejected <- LastRejected
SYMMETRY Symmetry
CHECK_DEADLOCK FALSE
INVARIANTS TypeOK Coherent OnlyFaultsLose OnlyRefusalFails
PROPERTIES SucceededIsFinal ImplementsOrderedDelivery
