SPECIFICATION RunSpec
CONSTANTS
  NULL = NULL
  NumSubs = 3
  NumPreds = 3
  NumObjs = 9
  NumCommSO = 2
  MaxCells = 2
  ObjIds = {1, 2, 9}
  Folds = "exact"
  Sim = FALSE
  Query <- SubjectFirstQuery
  NextTP <- TPNodes
  Stores <- SmallStores
  Plans <- SelectedPlans
  Adj <- Neighbours
  TreeEdges <- PatternTrees
  Junk <- SomeTriple
  EarlierLines <- Empty
INVARIANTS TypeOK NeverReloadsNothing RootReduced
PROPERTIES JoinresShrinks FoldFollowsJoinres KeepsResults
