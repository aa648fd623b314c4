SPECIFICATION Spec
CONSTANTS
  c1 = c1
  c2 = c2
  gift = gift
  like = like
  Clients <- TwoClients
  EventTypes <- TwoTypes
  Filters <- AllOrGifts
  QueueSize = 1
  MaxEvents = 2
SYMMETRY Interchangeable
CHECK_DEADLOCK FALSE
INVARIANTS
  TypeOK
  EndsClean
PROPERTIES
  ImplementsRingLog
