SPECIFICATION FairSpec
CONSTANTS
    Requests = {r1, r2}
    Others = {o1}
    NoRequest = NoRequest
    MaxInflightRequests = 2
    BodyCapacity = 1
    PipeCapacity = 1
    MaxRecords = 4
INVARIANTS
    TypeOK
    PipeIntact
    SendersTracked
    AnswersAreWritten
    NoChunkLost
    AdmissionConserved
    RequestsCountedOnce
PROPERTY ContractSpec
PROPERTY InvocationsEnd
\* Every client is done, and so are dispatcher and forwarder.
CHECK_DEADLOCK FALSE
