\* Two goroutines publish three messages to two topics; a stream and an
\* expecter subscribe at any moment. Channels hold one message and results have
\* room for one, so that both buffers fill up (100 and 16 in the code).
SPECIFICATION FirstSpec
CONSTANTS
    t1 = t1
    t2 = t2
    c1 = c1
    c2 = c2
    Topics <- TwoTopics
    Callers <- TwoCallers
    Streams = {s1}
    Expecters = {x1}
    ChannelCap = 1
    HandledCap = 1
    MaxMessages = 3
INVARIANTS
    TypeOK
    DeliveredOnce
    NothingElse
    ResultsInOrder
PROPERTIES
    HangingPublishIsUndrained
    CancelledConsumeReturns
\* A test may end anywhere, or hang where the comments say it should.
CHECK_DEADLOCK FALSE
