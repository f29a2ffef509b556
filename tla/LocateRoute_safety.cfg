SPECIFICATION FairSpec
CONSTANTS
  x1 = x1
  x2 = x2
  CommandIds = {x1, x2}
  Requests = {r1, r2, r3}
  Bodies <- SomeItems
  ControllerCount = 2
  LedsPerController = 1
  MaxFaults = 1
CHECK_DEADLOCK FALSE
INVARIANTS TypeOK OnePublisherPerId AnswersAreTrue NeverLeftPending
PROPERTIES CommitsOnlyEnd EveryRequestIsAnswered
