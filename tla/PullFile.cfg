SPECIFICATION FairSpec
CONSTANTS
  Puller = {l, d, c}
  Source = {l, d, c}
  Remote = {c}
  Fault = {"tempFile", "copy", "cache", "decrypt", "writer", "context"}
  None = None
INVARIANTS TypeOK PullSuccessIsSafe NilMeansDelivered
PROPERTIES Returns
CHECK_DEADLOCK FALSE
