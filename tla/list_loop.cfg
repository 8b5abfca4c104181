SPECIFICATION Spec
CONSTANTS
  Ids = {8, 9, 10, 11}
  Length <- Digits
  Cut <- Leading
INVARIANTS
  RepeatsNeedArrivals
  MistakesNeedArrivals
  ListInv
PROPERTY MissesNeedDepartures
