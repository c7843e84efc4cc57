SPECIFICATION Spec
CONSTANTS
  None = None
  Contents = {one, two}
  Tears = {}
  MaxRecords = 1
  MaxFaults = 2
  MaxDrifts = 1
INVARIANTS
  RollbackResumes
CHECK_DEADLOCK FALSE
