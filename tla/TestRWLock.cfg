CONSTANT Readers = {r1, r2}
SPECIFICATION FairSpec
INVARIANT PassedMeansContract
INVARIANT OnlyBadDeadlineBlames
PROPERTY ContractEnds
