SPECIFICATION Spec
CONSTANTS
  Clients = {c1, c2}
  Servers = {s1}
  NoOwner = none
  Wrapper = wrapper
  MaxProcess = 2
  MaxTasks = 3
  NestedDestroy = FALSE
INVARIANTS
  IInv
  NoStaleTask
  TaskConservation
PROPERTIES
  OvertakingNeedsDrain
  Delivers
SYMMETRY ClientSymmetry
