SPECIFICATION Spec
CONSTANTS
  NumSubs = 2
  NumPreds = 2
  NumObjs = 8
  NumCommSO = 2
  Word = 65536
  TableColBytes = 2
  StaleBytes = {0, 1, 8191}
  ObjIds = {1, 2, 8}
  MaxTriples = 4
  Stores <- SmallStores
CHECK_DEADLOCK FALSE
INVARIANTS TypeOK RowsCanonical ReadsStored UnfoldsCells TransposesCells
