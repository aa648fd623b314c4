------------------------------ MODULE TowerWar ------------------------------
(***************************************************************************)
(* The game of tiktokwar: the towers and units of one round, and the       *)
(* single-threaded frame loop of Game::run.  A frame runs through phases:  *)
(*                                                                         *)
(*   events -> poll -> spawn -> [autoplay -> autospawn] ->                 *)
(*          move -> collide -> combat -> round -> events                   *)
(*                                                                         *)
(* "events" is Game::processEvents; the others are the calls of            *)
(* Game::update in their order.  The loops of SpawnSystem (over commands), *)
(* CollisionSystem (over pairs of units) and CombatSystem (over units) are *)
(* taken one iteration at a time, so that what an iteration does to the    *)
(* next ones is in the model.                                              *)
(*                                                                         *)
(* Float positions are abstracted to whole ticks on a lane: the canvas has *)
(* a fixed virtual size, so that the distances the systems compute are     *)
(* fixed functions of Unit::progress.                                      *)
(***************************************************************************)
EXTENDS Integers, Sequences, FiniteSets

CONSTANTS
  N,               (* towers in the game                                    *)
  MaxHp,           (* Config::towerMaxHp                                    *)
  MaxUnits,        (* Config::maxUnits, the cap on active units             *)
  StreakLength,    (* donations on a lane per Spiked unit (10)              *)
  ShieldedSlot,    (* the donation of a streak that is Shielded (5)         *)
  ShieldedHealth,  (* health and damage of a Shielded unit (5)              *)
  SpikedHealth,    (* health and damage of a Spiked unit (10)               *)
  Lane,            (* ticks from a lane's start to its end                  *)
  ContactRange,    (* ticks within which opposed units collide              *)
  HitRange,        (* ticks from the lane's end at which a unit hits        *)
  SpawnSpacing,    (* ticks between two units of one volley                 *)
  SpawnReach,      (* the furthest tick a volley is spawned at              *)
  Steps,           (* the ticks one frame may move a unit: speed * dt       *)
  Counts,          (* counts a network command may carry                    *)
  BurstCap, IdleCap,       (* autoplay's soft cap, by mode (18 and 12)      *)
  BurstVolley, IdleVolley, (* autoplay's largest attack, by mode (3 and 2)  *)
  MaxBatch         (* bound of the model: commands collected in a frame     *)

Kinds == {"Normal", "Shielded", "Spiked"}

ASSUME TowersAssumption ==
  N \in Nat /\ N >= 2 /\ MaxHp \in Nat \ {0} /\ MaxUnits \in Nat

ASSUME StreakAssumption ==
  /\ StreakLength \in Nat \ {0} /\ ShieldedSlot \in 1 .. StreakLength
  /\ ShieldedHealth \in Nat \ {0} /\ SpikedHealth \in Nat \ {0}

ASSUME LaneAssumption ==
  /\ Lane \in Nat /\ ContactRange \in Nat /\ HitRange \in Nat
  /\ SpawnSpacing \in Nat /\ SpawnReach \in 0 .. Lane

ASSUME InputAssumption ==
  /\ Steps \subseteq Nat /\ Counts \subseteq Nat \ {0} /\ MaxBatch \in Nat
  /\ BurstCap \in Nat /\ IdleCap \in Nat
  /\ BurstVolley \in Nat /\ IdleVolley \in Nat

VARIABLES
  hp, alive,         (* Tower::hp_ and alive_, by tower id                  *)
  units,             (* GameState::units_                                   *)
  roundActive,       (* GameState::roundActive_                             *)
  winnerId,          (* GameState::winnerId_                                *)
  events,            (* GameState::events_                                  *)
  donationStreaks,   (* SpawnSystem::donationStreaks_                       *)
  pending,           (* InputManager::pending_, then the batch being applied *)
  autoplay,          (* Game::autoplayEnabled_                              *)
  burst,             (* Game::autoplayBurstMode_                            *)
  phase,             (* where the frame is                                  *)
  first, second,     (* the loop indices of CollisionSystem and CombatSystem *)
  todo,              (* towers buildAutoplayCommands has not reached yet    *)
  step,              (* history: how far this frame moves a unit            *)
  before             (* history: the units as they were before it           *)

towerVars == <<hp, alive, roundActive, winnerId>>
inputVars == <<pending, autoplay, burst, todo>>
loopVars  == <<first, second, step, before>>
vars == <<towerVars, units, events, donationStreaks, inputVars, phase, loopVars>>

Smaller(x, y) == IF x <= y THEN x ELSE y
Larger(x, y)  == IF x >= y THEN x ELSE y

-----------------------------------------------------------------------------
(* Towers, lanes and units *)

Towers   == 0 .. N - 1
InvalidId == -1
Lanes    == Towers \X Towers
AliveTowers == {t \in Towers : alive[t]}

(* The constructors of the three units: damage and health are the same.    *)
UnitHealth == [Normal |-> 1, Shielded |-> ShieldedHealth, Spiked |-> SpikedHealth]
UnitDamage(kind) == UnitHealth[kind]

(* A unit is alive exactly while it has health: Unit::takeDamage and       *)
(* destroy() clear alive_ and health_ together.                            *)
Units == [kind : Kinds, src : Towers, dst : Towers, pos : 0 .. Lane, health : Nat]

UnitAlive(u) == u.health > 0
Hurt(u, n)   == [u EXCEPT !.health = Larger(0, @ - n)]
Destroyed(u) == [u EXCEPT !.health = 0]

(* Tower::takeDamage on a live tower; Tower::heal on a live tower.         *)
DamagedHpUnclamped(h, n) == h - n
DamagedHp(h, n) == Larger(0, h - n)
HealedHp(h, n)  == Smaller(MaxHp, h + n)

(* Distance, along their lane, between opposed units that run at each      *)
(* other: positive before they meet, negative once they have passed.       *)
Gap(u, v) == Lane - u.pos - v.pos

Opposed(u, v) == u.src # v.src /\ u.src = v.dst /\ u.dst = v.src

InContactAheadOnly(u, v) == Gap(u, v) \in 0 .. ContactRange
InContact(u, v) == Gap(u, v) \in -ContactRange .. ContactRange

(* The distance to the edge of the target tower, along the lane.  A unit    *)
(* hits within HitRange of it; that covers progress >= 0.999 too.           *)
EdgeDistance(u) == Lane - u.pos
AtEdgeNever(u) == EdgeDistance(u) < 0
AtEdge(u) == EdgeDistance(u) <= HitRange

Event(type, tower, value) == [type |-> type, tower |-> tower, value |-> value]
EventTypes == {"TowerDamaged", "TowerHealed", "TowerDestroyed", "UnitDestroyed",
               "UnitSpawned", "RoundEnded"}
Events ==
  {e \in [type : EventTypes, tower : Towers \cup {InvalidId}, value : Nat] :
     e.tower = InvalidId => e.type \in {"UnitDestroyed", "RoundEnded"}}

-----------------------------------------------------------------------------
(* Commands *)

Attacks(counts) ==
  {c \in [type : {"SpawnAttack"}, source : Towers, target : Towers, count : counts] :
     c.source # c.target}
Heals(counts) ==
  {[type |-> "SpawnHeal", source |-> t, target |-> t, count |-> n] :
     t \in Towers, n \in counts}
Reset == [type |-> "ResetGame", source |-> InvalidId, target |-> InvalidId, count |-> 1]

(* KeyboardAdapter: one unit or one point of health per key.               *)
KeyCommands == Attacks({1}) \cup Heals({1})

(* TikTokAdapter: parsed messages whose towers are in this game.           *)
NetworkCommands == Attacks(Counts) \cup Heals(Counts) \cup {Reset}

(* buildAutoplayCommands                                                   *)
AutoTargets(t) == AliveTowers \ {t}
AutoCommands == Attacks(1 .. Larger(BurstVolley, IdleVolley)) \cup Heals({1})

Commands == KeyCommands \cup NetworkCommands \cup AutoCommands

-----------------------------------------------------------------------------
(* Game::initializeState, from the constructor and from F5: the streaks,   *)
(* the pending commands and the frame are not touched.                     *)
FreshTowers ==
  /\ hp' = [t \in Towers |-> MaxHp]
  /\ alive' = [t \in Towers |-> TRUE]
  /\ roundActive' = TRUE
  /\ winnerId' = InvalidId

Init ==
  /\ hp = [t \in Towers |-> MaxHp]
  /\ alive = [t \in Towers |-> TRUE]
  /\ roundActive = TRUE
  /\ winnerId = InvalidId
  /\ units = <<>>
  /\ events = <<>>
  /\ donationStreaks = [l \in Lanes |-> 0]
  /\ pending = <<>>
  /\ autoplay = FALSE
  /\ burst = FALSE
  /\ todo = {}
  /\ phase = "events"
  /\ first = 1
  /\ second = 2
  /\ step = 0
  /\ before = <<>>

-----------------------------------------------------------------------------
(* Game::processEvents *)

PressKey(c) ==
  /\ phase = "events"
  /\ Len(pending) < MaxBatch
  /\ pending' = Append(pending, c)
  /\ UNCHANGED <<towerVars, units, events, donationStreaks, autoplay, burst, todo,
                 phase, loopVars>>

PressF5 ==
  /\ phase = "events"
  /\ FreshTowers
  /\ units' = <<>>
  /\ events' = <<>>
  /\ autoplay' = FALSE
  /\ burst' = FALSE
  /\ UNCHANGED <<donationStreaks, pending, todo, phase, loopVars>>

ToggleAutoplay ==
  /\ phase = "events"
  /\ autoplay' = ~autoplay
  /\ burst' = (burst /\ autoplay)
  /\ UNCHANGED <<towerVars, units, events, donationStreaks, pending, todo, phase,
                 loopVars>>

-----------------------------------------------------------------------------
(* Game::update: clearEvents, InputManager::poll and consumeCommands *)

BeginUpdate ==
  /\ phase = "events"
  /\ events' = <<>>
  /\ phase' = "poll"
  /\ UNCHANGED <<towerVars, units, donationStreaks, inputVars, loopVars>>

ReceiveCommand(c) ==
  /\ phase = "poll"
  /\ Len(pending) < MaxBatch
  /\ pending' = Append(pending, c)
  /\ UNCHANGED <<towerVars, units, events, donationStreaks, autoplay, burst, todo,
                 phase, loopVars>>

ConsumeCommands ==
  /\ phase = "poll"
  /\ phase' = "spawn"
  /\ UNCHANGED <<towerVars, units, events, donationStreaks, inputVars, loopVars>>

-----------------------------------------------------------------------------
(* SpawnSystem::apply, one command of the batch at a time *)

Applying == phase \in {"spawn", "autospawn"} /\ pending # <<>>

ApplyReset ==
  /\ Applying /\ Head(pending).type = "ResetGame"
  /\ FreshTowers
  /\ units' = <<>>
  /\ events' = <<>>
  /\ donationStreaks' = [l \in Lanes |-> 0]
  /\ pending' = Tail(pending)
  /\ UNCHANGED <<autoplay, burst, todo, phase, loopVars>>

(* Both the system and Tower::heal refuse a dead tower.                    *)
CanHealAny(t) == TRUE
CanHeal(t) == alive[t]

ApplyHeal ==
  LET c == Head(pending)
  IN /\ Applying /\ c.type = "SpawnHeal"
     /\ roundActive /\ CanHeal(c.target)
     /\ hp' = [hp EXCEPT ![c.target] = HealedHp(@, c.count)]
     /\ events' = Append(events, Event("TowerHealed", c.target, c.count))
     /\ pending' = Tail(pending)
     /\ UNCHANGED <<alive, roundActive, winnerId, units, donationStreaks, autoplay,
                    burst, todo, phase, loopVars>>

(* The kind of the n-th donation of a lane since its streak began.         *)
KindOf(n) ==
  CASE n % StreakLength = 0 -> "Spiked"
    [] n % StreakLength # 0 /\ n % StreakLength = ShieldedSlot -> "Shielded"
    [] OTHER -> "Normal"

(* How many units the cap still admits: spawnUnit's size test.             *)
Room == Larger(0, MaxUnits - Len(units))

(* The k-th unit (from 1) of a volley of command c.                        *)
SpawnedUnit(c, k) ==
  LET kind == KindOf(donationStreaks[<<c.source, c.target>>] + k)
  IN [kind |-> kind, src |-> c.source, dst |-> c.target,
      pos |-> Smaller(SpawnReach, SpawnSpacing * (k - 1)),
      health |-> UnitHealth[kind]]

CanAttack(c) == alive[c.source] /\ alive[c.target] /\ c.count > 0

ApplyAttack ==
  LET c == Head(pending)
      lane == <<c.source, c.target>>
      spawned == Smaller(c.count, Room)
  IN /\ Applying /\ c.type = "SpawnAttack"
     /\ roundActive /\ CanAttack(c)
     /\ units' = units \o [k \in 1 .. spawned |-> SpawnedUnit(c, k)]
     /\ donationStreaks' =
          [donationStreaks EXCEPT ![lane] = (@ + spawned) % StreakLength]
     /\ events' = IF spawned > 0
                  THEN Append(events, Event("UnitSpawned", c.source, spawned))
                  ELSE events
     /\ pending' = Tail(pending)
     /\ UNCHANGED <<towerVars, autoplay, burst, todo, phase, loopVars>>

IgnoreCommand ==
  LET c == Head(pending)
  IN /\ Applying /\ c.type # "ResetGame"
     /\ \/ ~roundActive
        \/ c.type = "SpawnHeal" /\ ~CanHeal(c.target)
        \/ c.type = "SpawnAttack" /\ ~CanAttack(c)
     /\ pending' = Tail(pending)
     /\ UNCHANGED <<towerVars, units, events, donationStreaks, autoplay, burst, todo,
                    phase, loopVars>>

-----------------------------------------------------------------------------
(* Game::updateAutoplay.  Its timers decide whether a volley is due and    *)
(* which mode it is in: both are left open.                                *)

BeginAutoplay ==
  /\ phase = "spawn" /\ pending = <<>>
  /\ autoplay /\ roundActive
  /\ burst' \in BOOLEAN
  /\ todo' = AliveTowers
  /\ phase' = "autoplay"
  /\ UNCHANGED <<towerVars, units, events, donationStreaks, pending, autoplay, loopVars>>

NoAutoplay ==
  /\ phase = "spawn" /\ pending = <<>>
  /\ burst' \in (IF autoplay /\ roundActive THEN BOOLEAN ELSE {burst})
  /\ phase' = "move"
  /\ UNCHANGED <<towerVars, units, events, donationStreaks, pending, autoplay, todo, loopVars>>

UnitsOf(t) == {k \in 1 .. Len(units) : units[k].src = t}

(* The soft cap of autoplay: a tower with that many units in the field      *)
(* gets no command.                                                         *)
SoftCap == IF burst THEN BurstCap ELSE IdleCap
LargestVolley == IF burst THEN BurstVolley ELSE IdleVolley
BelowSoftCap(t) == Cardinality(UnitsOf(t)) < SoftCap

(* One tower of the shuffled order: it is skipped, heals itself or attacks. *)
AutoplayTower(t) ==
  /\ phase = "autoplay" /\ t \in todo
  /\ todo' = todo \ {t}
  /\ \/ UNCHANGED pending
     \/ /\ AutoTargets(t) # {} /\ BelowSoftCap(t)
        /\ \E c \in Heals({1}) : c.target = t /\ pending' = Append(pending, c)
     \/ /\ BelowSoftCap(t)
        /\ \E target \in AutoTargets(t), n \in 1 .. LargestVolley :
             pending' = Append(pending, [type |-> "SpawnAttack", source |-> t,
                                         target |-> target, count |-> n])
  /\ UNCHANGED <<towerVars, units, events, donationStreaks, autoplay, burst, phase,
                 loopVars>>

EndAutoplay ==
  /\ phase = "autoplay" /\ todo = {}
  /\ phase' = "autospawn"
  /\ UNCHANGED <<towerVars, units, events, donationStreaks, inputVars, loopVars>>

EndAutospawn ==
  /\ phase = "autospawn" /\ pending = <<>>
  /\ phase' = "move"
  /\ UNCHANGED <<towerVars, units, events, donationStreaks, inputVars, loopVars>>

-----------------------------------------------------------------------------
(* MovementSystem::update *)

MovedAlways(d) ==
  [k \in 1 .. Len(units) |-> [units[k] EXCEPT !.pos = Smaller(Lane, @ + d)]]
MovedTwice(d) ==
  [k \in 1 .. Len(units) |-> [units[k] EXCEPT !.pos = Smaller(Lane, @ + 2 * d)]]
Moved(d) == IF roundActive THEN MovedAlways(d) ELSE units

Move(d) ==
  /\ phase = "move"
  /\ units' = Moved(d)
  /\ step' = d
  /\ before' = units
  /\ phase' = "collide"
  /\ first' = 1
  /\ second' = 2
  /\ UNCHANGED <<towerVars, events, donationStreaks, inputVars>>

-----------------------------------------------------------------------------
(* CollisionSystem::update: the pairs (first, second) with first < second.  *)
(* Whether the first unit is alive is looked at only when its row begins.   *)

RowStart   == second = first + 1
RowSkipped == RowStart /\ ~UnitAlive(units[first])
Meets(u, v) == UnitAlive(v) /\ Opposed(u, v) /\ InContact(u, v)

CollidePair ==
  /\ phase = "collide" /\ second <= Len(units) /\ ~RowSkipped
  /\ LET u == units[first]
         v == units[second]
         dead == IF Hurt(v, 1).health = 0 THEN 1 ELSE 0
         bothDead == IF Hurt(u, 1).health = 0 THEN dead + 1 ELSE dead
     IN IF Meets(u, v)
        THEN /\ units' = [units EXCEPT ![first] = Hurt(u, 1), ![second] = Hurt(v, 1)]
             /\ events' = IF bothDead > 0
                          THEN Append(events, Event("UnitDestroyed", InvalidId, bothDead))
                          ELSE events
        ELSE UNCHANGED <<units, events>>
  /\ second' = second + 1
  /\ UNCHANGED <<towerVars, donationStreaks, inputVars, phase, first, step, before>>

NextRow ==
  /\ phase = "collide" /\ first <= Len(units)
  /\ second > Len(units) \/ RowSkipped
  /\ first' = first + 1
  /\ second' = first + 2
  /\ UNCHANGED <<towerVars, units, events, donationStreaks, inputVars, phase, step, before>>

(* erase(remove_if(...)): the live units, in their order.  kept is the      *)
(* increasing enumeration of their indices.                                 *)
Survivors == {k \in 1 .. Len(units) : UnitAlive(units[k])}
EraseDead ==
  \E n \in 0 .. Len(units) : \E kept \in [1 .. n -> Survivors] :
    /\ \A x, y \in 1 .. n : x < y => kept[x] < kept[y]
    /\ \A s \in Survivors : \E x \in 1 .. n : kept[x] = s
    /\ units' = [x \in 1 .. n |-> units[kept[x]]]

EndCollisions ==
  /\ phase = "collide" /\ first > Len(units)
  /\ EraseDead
  /\ phase' = "combat"
  /\ first' = 1
  /\ step' = 0 /\ before' = <<>>
  /\ UNCHANGED <<towerVars, events, donationStreaks, inputVars, second>>

-----------------------------------------------------------------------------
(* CombatSystem::update, one unit at a time.  It runs in an ended round too. *)

TargetGoneNever(u) == FALSE
TargetGone(u) == ~alive[u.dst]

InCombat == phase = "combat" /\ first <= Len(units)

DestroyStray ==
  /\ InCombat /\ UnitAlive(units[first]) /\ TargetGone(units[first])
  /\ units' = [units EXCEPT ![first] = Destroyed(@)]
  /\ first' = first + 1
  /\ UNCHANGED <<towerVars, events, donationStreaks, inputVars, phase, second, step, before>>

HitTower ==
  LET u == units[first]
      t == u.dst
      left == IF alive[t] THEN DamagedHp(hp[t], UnitDamage(u.kind)) ELSE hp[t]
      damaged == Append(events, Event("TowerDamaged", t, UnitDamage(u.kind)))
  IN /\ InCombat /\ UnitAlive(u) /\ ~TargetGone(u) /\ AtEdge(u)
     /\ hp' = [hp EXCEPT ![t] = left]
     /\ alive' = [alive EXCEPT ![t] = @ /\ left # 0]
     /\ events' = IF alive'[t] THEN damaged
                  ELSE Append(damaged, Event("TowerDestroyed", t, 0))
     /\ units' = [units EXCEPT ![first] = Destroyed(@)]
     /\ first' = first + 1
     /\ UNCHANGED <<roundActive, winnerId, donationStreaks, inputVars, phase, second,
                    step, before>>

FlyOn ==
  /\ InCombat
  /\ UnitAlive(units[first]) => ~TargetGone(units[first]) /\ ~AtEdge(units[first])
  /\ first' = first + 1
  /\ UNCHANGED <<towerVars, units, events, donationStreaks, inputVars, phase, second, step, before>>

EndCombat ==
  /\ phase = "combat" /\ first > Len(units)
  /\ EraseDead
  /\ phase' = "round"
  /\ first' = 1
  /\ second' = 2
  /\ UNCHANGED <<towerVars, events, donationStreaks, inputVars, step, before>>

-----------------------------------------------------------------------------
(* RoundSystem::update: zero or one towers alive end the round.             *)

DecidedByOne == \E t \in Towers : AliveTowers = {t}
Decided == \A s, t \in AliveTowers : s = t
LastStanding ==
  IF AliveTowers = {} THEN InvalidId ELSE CHOOSE t \in AliveTowers : TRUE

EndRound ==
  /\ phase = "round" /\ roundActive /\ Decided
  /\ roundActive' = FALSE
  /\ winnerId' = LastStanding
  /\ events' = Append(events, Event("RoundEnded", LastStanding, 0))
  /\ phase' = "events"
  /\ UNCHANGED <<hp, alive, units, donationStreaks, inputVars, loopVars>>

KeepRound ==
  /\ phase = "round" /\ ~(roundActive /\ Decided)
  /\ phase' = "events"
  /\ UNCHANGED <<towerVars, units, events, donationStreaks, inputVars, loopVars>>

-----------------------------------------------------------------------------
Input ==
  \/ \E c \in KeyCommands : PressKey(c)
  \/ PressF5
  \/ ToggleAutoplay
  \/ \E c \in NetworkCommands : ReceiveCommand(c)

Update ==
  \/ BeginUpdate
  \/ ConsumeCommands
  \/ ApplyReset
  \/ ApplyHeal
  \/ ApplyAttack
  \/ IgnoreCommand
  \/ BeginAutoplay
  \/ NoAutoplay
  \/ \E t \in Towers : AutoplayTower(t)
  \/ EndAutoplay
  \/ EndAutospawn
  \/ \E d \in Steps : Move(d)
  \/ CollidePair
  \/ NextRow
  \/ EndCollisions
  \/ DestroyStray
  \/ HitTower
  \/ FlyOn
  \/ EndCombat
  \/ EndRound
  \/ KeepRound

Next == Input \/ Update

Spec == Init /\ [][Next]_vars

(* The frame loop never waits: it always takes its next step.  Keys and     *)
(* messages come when they like, and need not come at all.                  *)
FairSpec == Spec /\ WF_vars(Update)

-----------------------------------------------------------------------------
Phases == {"events", "poll", "spawn", "autoplay", "autospawn", "move", "collide",
           "combat", "round"}

(* Every variable ranges over the values its C++ type and the invariants of *)
(* its class admit; health points stay within 0 .. MaxHp.                   *)
Typed ==
  /\ hp \in [Towers -> 0 .. MaxHp]
  /\ alive \in [Towers -> BOOLEAN]
  /\ \A t \in Towers : alive[t] <=> hp[t] > 0
  /\ units \in Seq(Units)
  /\ roundActive \in BOOLEAN
  /\ winnerId \in Towers \cup {InvalidId}
  /\ events \in Seq(Events)
  /\ donationStreaks \in [Lanes -> 0 .. StreakLength - 1]
  /\ pending \in Seq(Commands)
  /\ autoplay \in BOOLEAN /\ burst \in BOOLEAN
  /\ todo \in SUBSET Towers
  /\ phase \in Phases
  /\ first \in Nat \ {0} /\ second \in Nat
  /\ step \in Steps \cup {0} /\ before \in Seq(Units)

(* Config::maxUnits is a cap on the units in the field, whatever mix of     *)
(* keys, network volleys and autoplay spawns them in one frame.             *)
CapRespected == Len(units) <= MaxUnits

(* A lane joins two different towers: no unit is ever sent at its own tower.*)
(* SpawnSystem does not check it and relies on every source of commands.    *)
LanesJoinTowers == \A k \in 1 .. Len(units) : units[k].src # units[k].dst

(* Type correctness: typed variables, a field within its cap, and lanes      *)
(* that join two towers.                                                     *)
TypeOK == Typed /\ CapRespected /\ LanesJoinTowers

(* Between frames the verdict agrees with the towers: an active round has   *)
(* two live towers at least, and an ended one names the only survivor, or   *)
(* nobody when the last towers fell in the same frame.  CombatSystem still  *)
(* runs in an ended round, so this rests on no unit being left in range.    *)
RoundDecided ==
  phase = "events" =>
    /\ roundActive => \E s, t \in AliveTowers : s # t
    /\ ~roundActive => AliveTowers = IF winnerId = InvalidId THEN {} ELSE {winnerId}

(* Once a round has ended nothing but a reset touches a tower or the        *)
(* verdict, although units are still in flight, keys are still pressed and  *)
(* the collision and combat systems run every frame.                        *)
VerdictStands == [][~roundActive /\ ~roundActive' => UNCHANGED towerVars]_vars

(* A fallen tower comes back only by a reset, which restores every tower,   *)
(* empties the field and reopens the round: no heal that was queued before  *)
(* the fall raises it.                                                      *)
NoRevival ==
  [][(\E t \in Towers : hp[t] = 0 /\ hp'[t] > 0) =>
        /\ \A t \in Towers : hp'[t] = MaxHp
        /\ units' = <<>> /\ roundActive']_vars

(* When the collision pass is over, two opposed units in contact that both  *)
(* live have both paid for it.                                              *)
Unscathed(u) == u.health = UnitHealth[u.kind]
ContactCostsBoth ==
  phase = "collide" /\ first > Len(units) =>
    \A k, l \in 1 .. Len(units) :
      /\ UnitAlive(units[k]) /\ UnitAlive(units[l]) /\ Opposed(units[k], units[l])
      /\ Gap(units[k], units[l]) \in -ContactRange .. ContactRange
      => ~Unscathed(units[k])

(* Opposed units that a frame brings within reach, or past each other, both *)
(* pay for it in the collision pass that follows, however long the frame:   *)
(* one gets by unharmed only if the frame took the two of them by more than *)
(* the way between them and the reach beyond it.  Game::run does not bound  *)
(* dt, so such frames exist; the pass looks at the end of a movement only.  *)
PassersPay ==
  phase = "collide" /\ first > Len(units) =>
    \A k, l \in 1 .. Len(units) :
      /\ UnitAlive(units[k]) /\ UnitAlive(units[l]) /\ Opposed(units[k], units[l])
      /\ Gap(before[k], before[l]) > ContactRange
      /\ Gap(units[k], units[l]) <= ContactRange
      /\ Unscathed(units[k])
      => 2 * step > Gap(before[k], before[l]) + ContactRange

(* Audio, effects and HUD read a frame's events: a tower's fall is in them  *)
(* at most once, and never for a tower that stands, although a volley goes  *)
(* on hitting after the blow that felled it.                                *)
FallAnnouncedOnce ==
  \A k, l \in 1 .. Len(events) :
    /\ events[k].type = "TowerDestroyed" => ~alive[events[k].tower]
    /\ events[k] = events[l] /\ events[k].type = "TowerDestroyed" => k = l

(* If attacks stop coming, the field empties or the round ends: no unit     *)
(* stays in flight for ever in a live round.                                *)
VolleysLand ==
  (<>[][~ApplyAttack]_vars) => []<>(units = <<>> \/ ~roundActive)

(* CollisionSystem.hpp:18: units fight "until their own health reaches      *)
(* zero", so a unit whose health is zero fights no more.                    *)
DeadUnitsDoNotFight ==
  [][phase = "collide" /\ first <= Len(units) /\ ~UnitAlive(units[first])
        => UNCHANGED units]_vars

(* Game.hpp:56-58: F5 "clears transient state" and "starts a fresh round",  *)
(* so the new round's streaks begin at zero, as they do after ResetGame.    *)
F5StartsFreshRound ==
  [][PressF5 => donationStreaks' = [l \in Lanes |-> 0]]_vars
=============================================================================
