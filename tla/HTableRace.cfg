CONSTANTS Threads = {t1, t2}
          Keys = {"a", "b", "c", "z"}
          Vals = {x}
          NULL = NULL
          hashcode <- SlotHash
          Sz = 1
          AllowResize = {FALSE}
          MAX_COLLISION = 1
          MaxNodes = 4
          MaxStores = 1
          MaxCalls = 2
SPECIFICATION FairSpec
INVARIANT NoDuplicateKeys
PROPERTIES OnlyStaleLinkLoses CallsReturn
