CONSTANTS Threads <- TestThreads
          Keys <- TestKeys
          Vals <- TestKeys
          NULL = NULL
          hashcode <- TestHashes
          Sz = 1
          AllowResize = {TRUE, FALSE}
          MAX_COLLISION = 1
          MaxNodes = 6
          MaxStores = 6
          MaxCalls = 20
          MaxThreads = 3
          ThreadCounts = {1, 2, 3}
          WhichTests = {"htable", "rwl", "resize", "all"}
          LockPasses = {TRUE, FALSE}
          TESTSZ = 2
          BIG_PRIME = 2
SPECIFICATION TSpec
INVARIANTS ValuesBelong SharesCoverKeys
PROPERTIES Passes Ends
