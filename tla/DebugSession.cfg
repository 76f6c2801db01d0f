CONSTANTS
  Clients = {ide}
  Nobody = Nobody
  Program <- Looping
  Requests <- SomeRequests
  Opening <- OpenSession
  MaxRequests = 8
  MaxInFlight = 2
SPECIFICATION FairSpec
INVARIANTS EveryStopReported AnsweredInOrder NoStaleExpression
PROPERTIES HeldWhileStopped EvaluateAnswered
CHECK_DEADLOCK FALSE
