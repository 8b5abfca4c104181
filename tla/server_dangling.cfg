SPECIFICATION Spec
CONSTANTS
  Connections = {k1}
  Callbacks = {"open", "message", "close", "error"}
  MaxOthers = 0
  MaxMessages = 1
INVARIANT ClientHandleValid
CHECK_DEADLOCK FALSE
