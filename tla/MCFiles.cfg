SPECIFICATION MCSpec
CONSTANTS
    Samples = 2
    Junk = Junk
    FILE_MAX = 10
    NotSet = NotSet
    if1 = if1
    if2 = if2
    Interface <- MCInterface
    RUNS = 2
INVARIANTS
    WholeSnapshots AllClosed ReadersShowOwn ClaimTrueUnlessFault ShowsUpToFirstCut ShownAgain
PROPERTY
    StopsOnSigint
CHECK_DEADLOCK FALSE
