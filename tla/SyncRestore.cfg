SPECIFICATION Spec
CONSTANTS
  add = add
  pin = pin
  index = index
  restore = restore
  create = create
  budget = 0
  MaxSavedTasks = 2
  None = None
  ID = {add, index}
  Obj = {o1, o2, o3}
  Caller = {c1}
  NotifyID = {add}
  Parallelizable = {index}
  MaxParallelTasks = 1
  Home <- mcHome
  MaxRetries <- mcMaxRetries
  Spawns <- mcSpawns
  FrontSpawns <- mcFrontSpawns
PROPERTIES RestoresTheQueue
