CONSTANTS
  MaxSize = 3
  ChunkSize = 2
  Nothing = Nothing
SPECIFICATION FairSpec
CHECK_DEADLOCK FALSE
INVARIANTS
  BodyIsWhatWasAsked
  HeadersAreProven
  NothingHeld
PROPERTIES
  ExchangeEnds
