SPECIFICATION Spec
CONSTANTS
  personal = personal
  other = other
  Slug = {personal, other}
  defaultPersonalBucketSlug = personal
  Proc = {p1, p2}
  Thread = {d1, d2, d3}
  Shared = Shared
  None = None
  Asked <- mcAsked
  MaxFaults = 1
SYMMETRY Names
INVARIANTS TypeOK RestoreBringsKeysBack 
PROPERTIES KeyIsConstant
CHECK_DEADLOCK FALSE
