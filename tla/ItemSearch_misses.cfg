SPECIFICATION Spec
CONSTANTS
    ControllerCount = 1
    LedsPerController = 1
    Items = {1, 2, 3}
    Movable = {1}
    Queries <- MCQueries
    Inventories <- MCInventories
    Chars <- MCChars
    Space = " "
    Backslash = "b"
    Normal <- MCNormal
    Fold <- MCFold
    Lower <- MCLower
    Json <- MCJson
    Code <- MCCode
    MaxLimit = 2
    NoDrawer = 0
    V1Id <- MCV1Id
INVARIANT NotFoundIsTrue
