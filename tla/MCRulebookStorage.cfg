SPECIFICATION Spec
CONSTANTS
  MaxSymbol = 5
  SystemNumbers = {1, 2, 3}
  Systems <- MCSystems
  MaxBooks = 2
  MaxMerges = 1
  MaxMatrices = 1
INVARIANTS
  SameSolutions
  ComparisonIsRight
  MatricesStayReduced
  RefusedAreContradictory
PROPERTY
  FailedMergeUndone
CHECK_DEADLOCK FALSE
