SPECIFICATION RunSpec
CONSTANTS
  NULL = NULL
  NumSubs = 3
  NumPreds = 3
  NumObjs = 3
  NumCommSO = 2
  MaxCells = 2
  ObjIds = {1, 2, 3}
  Folds = "exact"
  Sim = FALSE
  Query <- FreeObjectQuery
  NextTP <- TPNodes
  Stores <- DenseStores
  Plans <- SelectedPlans
  Adj <- Neighbours
  TreeEdges <- PatternTrees
  Junk <- SomeTriple
  EarlierLines <- Empty
PROPERTIES NodeAgreement KeepsResults
