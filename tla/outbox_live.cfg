SPECIFICATION FairSpec
CONSTANTS
    w1 = w1
    w2 = w2
    NoEvent = NoEvent
    Events <- TwoEvents
    Workers <- OneWorker
    BatchSize = 1
    FailureThreshold = 2
    VisibilityTimeout = 1
INVARIANTS
    DeadIsLogged
PROPERTIES
    EventuallySettled
