CONSTANTS RADIX = 3
          H1PRIME = 5
          H2PRIME = 3
          BLOOM_HASH_NUM = 2
          Chars = {0, 1, 2}
          MaxX = 3
          MaxY = 3
          Sizes = {0, 1, 2}
          Primes = {2, 7, 11}
SPECIFICATION Spec
INVARIANT RollingHash
INVARIANT CrashesOnlyAtZero
INVARIANT CountsAgree
PROPERTY Ends
