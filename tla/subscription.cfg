SPECIFICATION Spec
CONSTANTS
    m1 = m1
    m2 = m2
    b1 = b1
    b2 = b2
    Messages = {m1, m2}
    Callbacks = {b1, b2}
    Capacity = 1
    MaxN = 2
    MaxWaits = 2
    MaxDeliveries = 3
    Nothing = Nothing
INVARIANTS
    TypeOK
    ForgottenIsHandedOver
    WaitsLoseNothing
PROPERTIES
    StopReturns
CHECK_DEADLOCK FALSE
