SPECIFICATION FairSpec
CONSTANTS
    ControllerCount = 1
    LedsPerController = 2
    Word = 12
    MaxDuration = 4
    DefaultDuration = 2
    TestDuration = 2
    Blink = 3
    MaxPass = 2
INVARIANTS TypeOK OneDrawerLit LitUntilDue DarkWhenDue
PROPERTIES BlinksNoFaster DarkAtLast
