SPECIFICATION Spec
CONSTANTS
    w1 = w1
    w2 = w2
    NoEvent = NoEvent
    Events <- TwoEvents
    Workers <- TwoWorkers
    BatchSize = 2
    FailureThreshold = 2
    VisibilityTimeout = 1
SYMMETRY Symmetry
INVARIANTS
    TypeOK
    PublishedIsDelivered
    ExclusiveLease
    RetryBudget
PROPERTIES
    Delivers
