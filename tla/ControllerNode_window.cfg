SPECIFICATION Spec
CONSTANTS
    ControllerCount = 1
    LedsPerController = 1
    c1 = c1
    c2 = c2
    c3 = c3
    c4 = c4
    n1 = n1
    n2 = n2
    n3 = n3
    CommandIds = {c1, c2, c3, c4}
    Names = {n1, n2, n3}
    Cut <- FirstTwoAlike
    NoName = NoName
    Window = 2
INVARIANTS TypeOK RemembersWindow CompletedIsEarned SimulatorAgreement
