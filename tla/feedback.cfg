SPECIFICATION Spec
CONSTANTS
  Towers <- OneTower
  Channels = 1
  SoundFiles <- FewOrNone
  Cooldown <- ShortCooldowns
  LongestStep = 1
  TextLife <- TextTicks
  MaxTexts = 2
  FullFlash = 2
  FlashGain <- Gains
  FlashFade <- Fades
  MaxParticles = 2
  BurstSize <- Sizes
  ParticleLife <- Lives
  HeavyLoad = 1
  MaxMade = 3
  MaxNews = 3
INVARIANTS
  TypeOK
  CooldownsWereHeard
  VanishedBurstOnce
  ShowBounded
