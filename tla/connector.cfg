SPECIFICATION FairSpec
CONSTANTS
  Configs <- AllConnectors
  Payloads <- CommentsAndGifts
  MaxSize = 2
  MaxMade = 3
  MaxAttempts = 2
  MaxStarts = 2
INVARIANTS
  TypeOK
  OwnMarker
  EveryEventSomewhere
  MarkersCostFew
  FailureReported
PROPERTIES
  StopCompletes
  ImplementsStream
