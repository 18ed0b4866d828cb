\* All matrices and products within the bounds may be registered: nothing is left to do then.
CONSTANTS
  Scenarios <- MCScenarios
  MaxProducts = 1
  MaxFactors = 4
  Operands = {2, 3}
  ExplicitLimit = 60
  MaxElements = 100
SPECIFICATION Spec
INVARIANTS
  ListsAreCanonical
  FactorsMakeTheMoment
  MultiplicationsAgree
  TensorsAreProbabilities
  RefreshedTensorsAreCurrent
CHECK_DEADLOCK FALSE
