SPECIFICATION FairSpec
CONSTANTS
  RateAttempts = 3
  ParseAttempts = 2
INVARIANTS
  TypeOK
  NotFoundIsUnanimous
  BestHitWins
  FallbackMeansMiss
PROPERTIES
  SearchEnds
