SPECIFICATION FairSpec
CONSTANTS
    long = long
    odd = odd
    Starts = {long, odd}
    NoEvent = NoEvent
    DurationOf <- Durations
    Default = 1
    MaxRing = 3
    Grace = 1
    Lateness = 2
    MaxTold = 3
    Foreign <- Strangers
    MaxFaults = 1
INVARIANTS TypeOK NoOrphanClaim StartedIsTrue
PROPERTIES RollbackUndoesNoReport ReleasedInTime ClaimIsReleased
