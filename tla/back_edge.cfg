SPECIFICATION RunSpec
CONSTANTS
  NULL = NULL
  NumSubs = 3
  NumPreds = 10
  NumObjs = 3
  NumCommSO = 3
  MaxCells = 4
  ObjIds = {1, 2}
  Folds = "exact"
  Sim = FALSE
  Query <- BranchedTreeQuery
  NextTP <- TPNodes
  Stores <- BranchedTreeStore
  Plans <- SelectedPlans
  Adj <- Neighbours
  TreeEdges <- PatternTrees
  Junk <- SomeTriple
  EarlierLines <- Empty
INVARIANTS RowsAreAnswers
