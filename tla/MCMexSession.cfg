SPECIFICATION SessionSpec
CONSTANTS
    Walkers = {c1, c2}
    IndexWidth = 3
    MaxStores = 6
    Scenarios <- MCScenarios
INVARIANTS
    WalkIsComplete
    NoRaces
    AnswersNameTheirMatrix
    NothingMadeTwice
    TensorsAreFresh
