CONSTANTS
  MaxWorkers = 4
  MaxCalls = 2
  MaxImports = 3
  Contexts <- MCContexts
SPECIFICATION Spec
INVARIANTS
  TableConsistent
  MergesAreSound
  BasesReproduceMatrix
PROPERTY ImplementsMonomialMatrices
