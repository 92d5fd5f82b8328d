SPECIFICATION Spec
CONSTANTS
  Path = {a, b}
  defaultPersonalMirrorBucketSlug = personal_mirror
  RemoteBucketKey = RemoteBucketKey
  Sharer = {s1}
  Handler = {h1, h2}
  MaxMessages = 2
SYMMETRY Names
INVARIANTS TypeOK SharedIsListed AcceptedIsRecorded OneDecision
CHECK_DEADLOCK FALSE
