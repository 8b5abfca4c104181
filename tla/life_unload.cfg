SPECIFICATION FairLifeSpec
CONSTANTS
  Clients = {c1}
  Servers = {s1}
  NoOwner = none
  Wrapper = wrapper
  MaxProcess = 1
  MaxTasks = 3
  NestedDestroy = FALSE
  Requests = {r1}
INVARIANTS
  LifeInv
  CleanAfterUnload
PROPERTIES
  UnloadEnds
  DestroyEnds
  PendingIsRunWhileLoaded
CHECK_DEADLOCK FALSE
