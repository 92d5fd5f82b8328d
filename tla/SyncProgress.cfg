SPECIFICATION RunFairSpec
CONSTANTS
  add = add
  pin = pin
  index = index
  restore = restore
  create = create
  budget = 0
  MaxSavedTasks = 2
  None = None
  ID = {restore, create, index}
  Obj = {o1, o2, o3}
  Caller = {c1}
  NotifyID = {restore, index}
  Parallelizable = {index}
  MaxParallelTasks = 1
  Home <- mcHome
  MaxRetries <- mcMaxRetries
  Spawns <- mcSpawns
  FrontSpawns <- mcFrontSpawns
INVARIANTS TypeOK RunningTaskIsListed ExclusiveInline
PROPERTIES EveryTaskEnds HeadOfLine
