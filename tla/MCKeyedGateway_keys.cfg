SPECIFICATION Spec
CONSTANTS
    r1 = r1
    r2 = r2
    r3 = r3
    k1 = k1
    k2 = k2
    NoTask = NoTask
    Absent = Absent
    Unreadable = Unreadable
    Requests = {r1, r2, r3}
    Operations <- ThreeOperations
    Params = {"{id}"}
    HopByHop = {"connection"}
    Allow = {}
    Deny = {"tenant"}
    Message <- Messages
    Keys = {k1, k2}
    KeyOf <- NamedKeys
    Tasks = {t1, t2}
    MaxInflightRequests = 2
    QueueDepth = 1
    MaxBatchSize = 2
    SelectTimer = FALSE
    MaxPendingInvocations = 1
    MaxInflightInvocations = 1
    Weight <- Weights
    MaxPayload = 2
SYMMETRY Symmetry
INVARIANTS
    BatchIsolation
    InvocationsHomogeneous
