\* Three workers, batches of up to three items, three answers of /next.
SPECIFICATION FairSpec
CONSTANTS
    Workers = {w1, w2, w3}
    Ids = {a, b, c}
    BadIds = {c}
    NoId = NoId
    MaxFetches = 3
INVARIANTS
    TypeOK
    OneRecordPerItem
    OneOuterAtATime
    OneWorkerPerInvocation
    FetchFlagSound
PROPERTY ActiveIsAnswered
PROPERTY OtherItemsAnswered
PROPERTY ServiceSpec
\* The proxy waits for the Runtime API once it has answered MaxFetches times.
CHECK_DEADLOCK FALSE
