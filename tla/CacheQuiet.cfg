SPECIFICATION QuietSpec
CONSTANTS
  Get = {g1, g2}
  MaxVersion = 3
  NoFile = NoFile
INVARIANTS CacheTypeOK  
