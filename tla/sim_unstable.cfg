SPECIFICATION Spec
CONSTANTS
  NULL = NULL
  NumSubs = 17
  NumPreds = 2
  NumObjs = 17
  NumCommSO = 17
  Folds = "exact"
  Sim = TRUE
  Query <- GuardedTriangleQuery
  NextTP <- TPsOfJvar
  Stores <- PathStore
  Plans <- SelectedPlans
INVARIANTS Stable
