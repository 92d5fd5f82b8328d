SPECIFICATION UserSpec
CONSTANTS
  Path = {p1}
  MaxVersion = 3
  Absent = Absent
  Empty = Empty
INVARIANTS TypeOK SettledFilesAreOnHub BackedUpIsOnHub 
 
