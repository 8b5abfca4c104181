SPECIFICATION LiveSpec
CONSTANTS
  Callbacks <- Heard
  Json = TRUE
  AutoReconnect = TRUE
  SetAgain = TRUE
  Reordered = FALSE
  MaxAttempts = 2
  MaxMessages = 1
  MaxLoads = 1
INVARIANTS
  IInv
  HeadersNotOlder
  NullOnlyIfLost
  NoStaleManager
  ValuesReleased
PROPERTIES
  AttemptsWanted
  AttemptAnswered
