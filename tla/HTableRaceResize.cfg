CONSTANTS Threads = {t1, t2}
          Keys = {"a", "b"}
          Vals = {x}
          NULL = NULL
          hashcode <- PartHash
          Sz = 1
          AllowResize = {TRUE}
          MAX_COLLISION = 1
          MaxNodes = 4
          MaxStores = 4
          MaxCalls = 2
SPECIFICATION OSpec
INVARIANTS PrivateUntilLinked ArraysOwned ResizeAloneIsSafe
