CONSTANTS MaxMin = 30
          BIG_PRIME = 13
          RADIX = 7
          CHARS = 8
          Bytes = {1, 2, 3, 4, 7}
          MaxLen = 5
SPECIFICATION ArithSpec
INVARIANTS LeastPrime Congruent
