SPECIFICATION Spec
CONSTANTS
  NULL = NULL
  NumSubs = 3
  NumPreds = 3
  NumObjs = 3
  NumCommSO = 2
  MaxCells = 2
  ObjIds = {1, 2, 3}
  Folds = "disk"
  Sim = FALSE
  Query <- ChainQuery
  NextTP <- TPsOfJvar
  Stores <- SmallStores
  Plans <- SelectedPlans
INVARIANTS NoAnswerLost
