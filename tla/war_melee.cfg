SPECIFICATION FairSpec
CONSTANTS
  N = 3
  MaxHp = 2
  MaxUnits = 3
  StreakLength = 1
  ShieldedSlot = 1
  ShieldedHealth = 1
  SpikedHealth = 1
  Lane = 2
  ContactRange = 0
  HitRange = 0
  SpawnSpacing = 1
  SpawnReach = 0
  Steps <- OneTick
  Counts <- MeleeCounts
  BurstCap = 1
  IdleCap = 1
  BurstVolley = 1
  IdleVolley = 1
  MaxBatch = 1
INVARIANTS
  FallAnnouncedOnce
PROPERTIES
  NoRevival
  VolleysLand
