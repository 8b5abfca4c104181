SPECIFICATION Spec
CONSTANTS
  Requests = {r1}
  MaxCalls = 1
  Reuse = FALSE
  DeleteInFlight = TRUE
INVARIANT RequestOutlivesAnswer
CHECK_DEADLOCK FALSE
