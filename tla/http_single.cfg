SPECIFICATION FairSpec
CONSTANTS
  Requests = {r1, r2, r3}
  MaxCalls = 3
  Reuse = FALSE
  DeleteInFlight = FALSE
INVARIANTS
  IInv
  RequestOutlivesAnswer
  WorkerSeesForward
  HeadersOfAnswer
  AnswerToOwnCallback
PROPERTIES
  EveryCallAnswered
  DeliversAnswers
CHECK_DEADLOCK FALSE
