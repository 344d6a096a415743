SPECIFICATION RecoveringSpec
CONSTANTS
    w1 = w1
    w2 = w2
    NoEvent = NoEvent
    Events <- OneEvent
    Workers <- OneWorker
    BatchSize = 1
    FailureThreshold = 2
    VisibilityTimeout = 1
PROPERTIES
    NeverLost
