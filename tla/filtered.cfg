SPECIFICATION RunSpec
CONSTANTS
  NULL = NULL
  NumSubs = 3
  NumPreds = 3
  NumObjs = 2
  NumCommSO = 2
  MaxCells = 4
  ObjIds = {1, 2}
  Folds = "disk"
  Sim = FALSE
  Query <- FilteredQuery
  NextTP <- TPNodes
  Stores <- FilteredStore
  Plans <- SelectedPlans
  Adj <- Neighbours
  TreeEdges <- PatternTrees
  Junk <- SomeTriple
  EarlierLines <- Empty
INVARIANTS RowsAreData
