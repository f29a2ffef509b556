SPECIFICATION Spec
CONSTANTS
    ControllerCount = 1
    LedsPerController = 2
    CommandIds = {c1, c2}
    NoId = NoId
    MaxAttempts = 1
    AckTimeout = 1
    Names = {c1, c2}
    Cut <- Whole
    NoName = NoName
    Window = 1
SYMMETRY Symmetric
INVARIANTS NoDrawerLitUnasked NeverExpiredEarly
PROPERTIES RefinesService
VIEW Relevant
