\* Four columns, three workers; eighteen calls, six of which throw.
CONSTANTS Dim = 4
          NumWorkers = 3
          h = h
          k = k
          a = a
          b = b
          i = i
          j = j
          Values <- MCValues
          Conj <- MCConj
          Hash <- MCHash
          Simplify <- MCSimplify
          Tasks <- MCTasks
          NoMatrix = NoMatrix
          Blank = Blank
          NoInfo = NoInfo
SPECIFICATION FairSpec
INVARIANTS HermitianStatus
PROPERTIES CompletesOrBreaks ImplementsSinglethreaded
