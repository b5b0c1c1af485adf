SPECIFICATION RunSpec
CONSTANTS
  NULL = NULL
  NumSubs = 3
  NumPreds = 3
  NumObjs = 3
  NumCommSO = 2
  MaxCells = 2
  ObjIds = {1, 2, 3}
  Folds = "complete"
  Sim = FALSE
  Query <- ChainQuery
  NextTP <- TPNodes
  Stores <- SmallStores
  Plans <- SelectedPlans
  Adj <- Neighbours
  TreeEdges <- PatternTrees
  Junk <- SomeTriple
  EarlierLines <- Empty
INVARIANTS NoAnswerLost EmptyMeansNoAnswer RowsAreAnswers
