SPECIFICATION FairSpec
CONSTANTS
    ControllerCount = 2
    LedsPerController = 2
    CommandIds = {c1}
    NoId = NoId
    MaxAttempts = 3
    AckTimeout = 2
INVARIANTS
    TypeOK
    AckedOnlyIfDone
    BoundedPublishing
    OneLedPerCommand
    RefusedNeverSent
    VerdictIsLogged
PROPERTIES
    ExpiredIsFinal
    AckedIsFinal
    RefinesLifecycle
    ResolvedIfRequestsGoOn
