SPECIFICATION FairSpec
CONSTANTS
    r1 = r1
    r2 = r2
    r3 = r3
    k1 = k1
    NoTask = NoTask
    Requests = {r1, r2}
    Keys = {k1}
    KeyOf <- OneKey
    Tasks = {t1, t2}
    MaxInflightRequests = 1
    QueueDepth = 1
    MaxBatchSize = 2
    SelectTimer = TRUE
    MaxPendingInvocations = 1
    MaxInflightInvocations = 1
    Weight <- Heavy
    MaxPayload = 2
PROPERTIES
    EverySenderResolved
    EventuallyReclaimed
    ContractSpec
