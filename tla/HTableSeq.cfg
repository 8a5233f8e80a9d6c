CONSTANTS Threads = {t1}
          Keys = {"a", "b", "d"}
          Vals = {x, y}
          NULL = NULL
          hashcode <- SplitHash
          Sz = 1
          AllowResize = {TRUE}
          MAX_COLLISION = 1
          MaxNodes = 3
          MaxStores = 4
          MaxCalls = 5
SPECIFICATION Spec
INVARIANTS WellPlaced Acyclic NoInvalidAccess
PROPERTIES IsAMap
