SPECIFICATION Spec
CONSTANTS
    Workers = {w1, w2}
    Ids = {a, b, c}
    BadIds = {}
    NoId = NoId
    MaxFetches = 2
INVARIANT SomeoneAsksAgain
CHECK_DEADLOCK FALSE
SYMMETRY Symmetry
