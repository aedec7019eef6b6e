CONSTANTS
  Tokens = {"calm", "crowd"}
  TokensOf <- MCTokensOf
  None = None
  Assets = {1, 2, 3, 4, 5, 6, 7, 8}
  PlaceOf <- MCPlaceOf
  ProducerId <- MCProducerId
  Revisions = {"w", "x", "h", "b", "u"}
  RevisionOf <- MCRevisionOf
  NoRow = NoRow
  Title = "t"
  Verify = Verify
  SearchLimit = 4
  PoolLimit = 5
  Scenarios <- MCScenarios
SPECIFICATION Spec
CHECK_DEADLOCK FALSE
INVARIANTS
  AnswerIsExact
  ScarcityIsHonest
  CleanVerdictIsExact
  VerdictSurvivesRevisions
