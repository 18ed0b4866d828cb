SPECIFICATION FairSpec
CONSTANTS
    NumWorkers = 3
    GroupSize = 4
    Built <- MCBuilt
    BuildList <- MCBuildList
    Null = Null
    Moved = Moved
INVARIANTS
    ParentsPublished
    NoWriteAfterMove
PROPERTIES
    PublishedForGood
    Termination
    ImplementsSequential
