SPECIFICATION FairSpec
CONSTANTS
  Temp = {t1, t2}
  Caller = {c1}
  MaxContent = 3
  Absent = Absent
  Partial = Partial
  None = None
INVARIANTS TypeOK HalfCopiesStayHome
PROPERTIES EditIsPushed
CHECK_DEADLOCK FALSE
