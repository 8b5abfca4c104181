SPECIFICATION FairSpec
CONSTANTS
  Connections = {k1, k2}
  Callbacks = {"open", "message", "close", "error"}
  MaxOthers = 1
  MaxMessages = 1
INVARIANTS
  IInv
  LeakNeedsDrain
  BlindNeedsDrain
PROPERTY HeadersErased
CHECK_DEADLOCK FALSE
