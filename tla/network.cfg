SPECIFICATION FairSpec
CONSTANTS
  MaxDatagrams = 3
  Contents <- SomeContents
  Text <- SomeText
  Means <- TheirMeaning
  TowerCount = 2
INVARIANTS
  TypeOK
  ClosesOwnSocket
  NothingLeaks
  GameGetsAll
PROPERTIES
  StopReturns
  CommandsArrive
