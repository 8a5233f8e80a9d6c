CONSTANTS W = 4
          NEVENT = 2
          THRESHOLD = 2
          RECORDTHRESH = 1
          TickCosts = {1, 2}
          MaxTaken = 2
          MaxTicks = 2
          Period = 2
          MaxLag = 2
          OwnTimes = {2}
          Gaps = {1}
          StartTimes = {13}
          TimerStarts = {3, 13}
          Ks = {2}
          MaxSamples = {1, 3}
          CacheSizes = {12, 20}
          BlockSizes = {2, 8}
          CACHE_BYTES = 12
          CACHE_BLOCK = 8
          INT = 4
          EpsNum = 1
          EpsDen = 4
          USEC = 4
          MAX_ETIME = 4
          N = 2
          MaxCalls = 2
SPECIFICATION FairSpec
INVARIANT KBest
INVARIANT ReadingExact
INVARIANT OnlySplitOverestimates
INVARIANT ClearInside
PROPERTY Returns
