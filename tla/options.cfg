SPECIFICATION Spec
CONSTANTS
  Values = {0, 1, 2}
  IsValid <- FilesThere
  FormKeys <- Keys
  MaxCalls = 3
INVARIANTS
  CachedUnlessRejected
  GettersTruthful
PROPERTIES
  AsAsked
  
CHECK_DEADLOCK FALSE
