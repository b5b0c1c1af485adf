SPECIFICATION SmallSpec
CONSTANTS
  NULL = NULL
  NumSubs = 2
  NumPreds = 3
  NumObjs = 2
  NumCommSO = 2
  Ids = {1, 2}
  MaxCells = 2
  Query <- TailedTriangle
  Adj <- Neighbours
  TreeEdges <- PatternTrees
  Junk = {}
CHECK_DEADLOCK FALSE
INVARIANTS TypeOK MapsRestored VisitedOnce RowsOnce BackEdgesSeen RowsAreJoins NeverFatal
