SPECIFICATION FairSpec
CONSTANTS
  dir = dir
  sub = sub
  inner = inner
  outer = outer
  single = single
  Top = Top
  Node = {dir, sub, inner, outer, single}
  Folder = {dir, sub}
  Parent <- mcParent
  Size <- mcSize
  Requests <- mcRequests
INVARIANTS TypeOK StreamIsTruthful
PROPERTIES AddItemsReturns
CHECK_DEADLOCK FALSE
