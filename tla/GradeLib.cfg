CONSTANTS NumParts = 2
          NumMatches = 2
          Points = 5
          MaxGradings = 2
SPECIFICATION Spec
INVARIANT OwnOutput
INVARIANT OneExecution
INVARIANT ScoreExact
INVARIANT ExitHonest
INVARIANT LogsTruthful
CHECK_DEADLOCK FALSE
