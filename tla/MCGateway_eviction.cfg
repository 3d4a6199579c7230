SPECIFICATION Spec
CONSTANTS
    r1 = r1
    r2 = r2
    r3 = r3
    k1 = k1
    NoTask = NoTask
    Requests = {r1, r2, r3}
    Keys = {k1}
    KeyOf <- OneKey
    Tasks = {t1, t2}
    MaxInflightRequests = 2
    QueueDepth = 1
    MaxBatchSize = 2
    SelectTimer = FALSE
    MaxPendingInvocations = 1
    MaxInflightInvocations = 1
    Weight <- Weights
    MaxPayload = 2
INVARIANT EvictionLosesNothing
