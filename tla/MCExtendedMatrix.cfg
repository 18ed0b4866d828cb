\* Three workers, eleven new cells, two lists that several workers miss at once.
CONSTANTS NumWorkers = 3
          SourceDim = 4
          Lists <- MCLists
          Known <- MCKnown
          FirstId = 5
          Blank = Blank
          Nobody = Nobody
SPECIFICATION FairSpec
INVARIANTS OneSymbolPerList MatrixIsProduct
PROPERTIES Completes ImplementsRegistry
