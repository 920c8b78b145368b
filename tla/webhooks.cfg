\* Two events, three deliveries of which one cannot be sent.
SPECIFICATION FairSpec
CONSTANTS
    e1 = e1
    e2 = e2
    h1 = h1
    h3 = h3
    Hooks = {h1, h3}
    Events = {e1, e2}
    Wants <- SomeWants
    Unsendable <- SomeUnsendable
    QueueSize = 1
    MaxAttempts = 3
    NoJob = NoJob
CHECK_DEADLOCK FALSE
INVARIANTS
    OneJobPerDelivery
    AttemptsInOrder
PROPERTIES
    DeliveriesSettle
