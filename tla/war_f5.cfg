SPECIFICATION Spec
CONSTANTS
  N = 2
  MaxHp = 2
  MaxUnits = 3
  StreakLength = 3
  ShieldedSlot = 2
  ShieldedHealth = 2
  SpikedHealth = 3
  Lane = 3
  ContactRange = 1
  HitRange = 0
  SpawnSpacing = 1
  SpawnReach = 1
  Steps <- OneTick
  Counts <- DuelCounts
  BurstCap = 2
  IdleCap = 1
  BurstVolley = 2
  IdleVolley = 1
  MaxBatch = 1
PROPERTIES
  F5StartsFreshRound
