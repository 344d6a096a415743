\* One process with two requests, started with every environment that differs
\* from a valid one in at most two variables.
SPECIFICATION StartupSpec
CONSTANTS
    Requests = {r1, r2}
    Environments <- MCEnvironments
    MaxInt4 = 100
INVARIANTS
    TypeOK
    WhatIsUsedIsOpen
    NothingCutShort
    StoppingCostsNoRetry
    AcceptedIsUsable
PROPERTIES
    StopsWhenAsked
\* The process ends.
CHECK_DEADLOCK FALSE
