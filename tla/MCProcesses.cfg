SPECIFICATION MCSpec
CONSTANTS
    ITERATIONS = 4
    AUTO_STOP = 3
    MaxSent = 4
INVARIANTS TypeOK MutualExclusion SafeExact RaceBounds DestroyedUnused
           FlagsFollowHandlers StopsWithinATick
PROPERTY BothEnd
CHECK_DEADLOCK FALSE
