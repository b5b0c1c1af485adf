SPECIFICATION RunSpec
CONSTANTS
  NULL = NULL
  NumSubs = 2
  NumPreds = 3
  NumObjs = 2
  NumCommSO = 2
  MaxCells = 4
  ObjIds = {1, 2}
  Folds = "exact"
  Sim = TRUE
  Query <- BranchQuery
  NextTP <- TPNodes
  Stores <- SmallStores
  Plans <- SelectedPlans
  Adj <- Neighbours
  TreeEdges <- PatternTrees
  Junk <- SomeTriple
  EarlierLines <- Empty
INVARIANTS OrderIsTree AllReduced Stable NeverFatal
PROPERTIES Termination
