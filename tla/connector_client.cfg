SPECIFICATION Spec
CONSTANTS
  Configs <- Reconnecting
  Payloads <- JustComments
  MaxSize = 2
  MaxMade = 3
  MaxAttempts = 2
  MaxStarts = 1
INVARIANT
  StopReleasesClient
