SPECIFICATION SaveFairSpec
CONSTANTS
  Path = {p1}
  MaxVersion = 1
  Absent = Absent
  Empty = Empty
PROPERTIES SavedGetsToHub
