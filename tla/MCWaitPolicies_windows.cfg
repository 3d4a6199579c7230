SPECIFICATION PolicySpec
CONSTANTS
    MinWait = 2
    MaxWait = 10
    FractionNum = 1
    FractionDen = 2
    Interval = 2
    Offset = 1
    SmoothingSamples = 4
    WarmupProbes = 2
    Durations = {0, 3, 4, 20}
    Failure = Failure
    MaxTime = 12
    IdleTtl = 3
    MaxBatchSize = 3
    SamplingInterval = 2
    RateSamples = 2
    TargetRate = 1
    MaxRequests = 4
INVARIANTS
    TypeOK
    OneProbeUnderWay
    ScheduleOnGrid
    WaitWithinLimits
    OutlierTrimmed
    TimersHold
    RateIsRecent
