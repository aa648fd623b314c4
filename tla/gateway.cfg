SPECIFICATION FairSpec
CONSTANTS
  Settings <- SomeSettings
  RawMessages <- SomeMessages
  EndsWith <- SomeEndings
  MaxEvents = 2
INVARIANTS
  TypeOK
  SameEverywhere
PROPERTY
  ShutsDown
