SPECIFICATION Spec
CONSTANTS
  NULL = NULL
  NumSubs = 8
  NumPreds = 3
  NumObjs = 8
  NumCommSO = 8
  Folds = "complete"
  Sim = FALSE
  Query <- ChainQuery
  NextTP <- TPsOfJvar
  Stores <- EighthStore
  Plans <- SelectedPlans
INVARIANTS EmptyMeansNoAnswer
