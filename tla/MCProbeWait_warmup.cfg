SPECIFICATION Spec
CONSTANTS
    MinWait = 2
    MaxWait = 10
    FractionNum = 1
    FractionDen = 2
    Interval = 2
    Offset = 1
    SmoothingSamples = 1
    WarmupProbes = 2
    Durations = {0, 3, 4, 20}
    Failure = Failure
    MaxTime = 9
INVARIANTS
    WarmAfterWarmup
