SPECIFICATION Spec
CONSTANTS
  Clients = {c1, c2}
  Servers = {}
  NoOwner = none
  Wrapper = wrapper
  MaxProcess = 1
  MaxTasks = 2
  NestedDestroy = TRUE
INVARIANT NoStaleTask
