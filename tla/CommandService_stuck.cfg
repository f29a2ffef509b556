SPECIFICATION FairSpec
CONSTANTS
    ControllerCount = 1
    LedsPerController = 1
    CommandIds = {c1}
    NoId = NoId
    MaxAttempts = 1
    AckTimeout = 1
PROPERTIES EveryCommandIsResolved
