\* Three threads, seven calls: the same key, a key and its offset, a part and its whole.
CONSTANTS t1 = t1
          t2 = t2
          t3 = t3
          a = a
          b = b
          p = p
          l = l
          Threads = {t1, t2, t3}
          Keys = {a, b, p, l}
          Parts <- MCParts
          TooLong = {l}
          Calls <- MCCalls
          Unindexed = Unindexed
          Nobody = Nobody
SPECIFICATION FairSpec
INVARIANTS NoOrphans IndexedMatrices
PROPERTIES Completes
