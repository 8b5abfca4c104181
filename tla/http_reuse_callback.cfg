SPECIFICATION Spec
CONSTANTS
  Requests = {r1}
  MaxCalls = 2
  Reuse = TRUE
  DeleteInFlight = FALSE
INVARIANT AnswerToOwnCallback
CHECK_DEADLOCK FALSE
