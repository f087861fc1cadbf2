SPECIFICATION Spec
CONSTANTS
    w1 = w1
    w2 = w2
    s1 = s1
    s2 = s2
    NoWorker = NoWorker
    Workers <- OneWorker
    Slots <- TwoSlots
    MaxEvents = 2
    MaxAttempts = 2
    BatchCount = 2
    MaxTokens = 1
    MaxFaults = 2
    Rejected <- NoneRejected
INVARIANTS AckedIsReceived
CHECK_DEADLOCK FALSE
