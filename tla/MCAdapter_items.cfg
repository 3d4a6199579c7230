SPECIFICATION FairSpec
CONSTANTS
    BatchSize = 3
    Limit = 2
    HighWater = 2
    MaxChunks = 2
INVARIANTS
    TypeOK
    ItemsFollowProtocol
    EveryItemAnswered
    BufferBounded
PROPERTY ResponseEnds
\* The response is over, or the rest of it is refused.
CHECK_DEADLOCK FALSE
