SPECIFICATION FairSpec
CONSTANTS
  c1 = c1
  c2 = c2
  gift = gift
  like = like
  Clients <- OneClient
  EventTypes <- TwoTypes
  Filters <- AllOrGifts
  QueueSize = 2
  MaxEvents = 4
CHECK_DEADLOCK FALSE
INVARIANTS
  NewestKept
  LossesCounted
  InOrder
PROPERTIES
  ClosedSessionsEnd
  QueuesDrain
