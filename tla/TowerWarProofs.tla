--------------------------- MODULE TowerWarProofs ---------------------------
(***************************************************************************)
(* Proofs about TowerWar for every number of towers, every cap and every   *)
(* choice of the other constants that the assumptions of TowerWar admit.   *)
(***************************************************************************)
EXTENDS TowerWar, SequenceTheorems, TLAPS

-----------------------------------------------------------------------------
(* Facts about the operators of the model.                                  *)

(* Every kind of unit has health: a fresh unit is alive, and a hit hurts.   *)
LEMMA UnitHealthType == \A kind \in Kinds : UnitHealth[kind] \in Nat \ {0}
  BY StreakAssumption DEF Kinds, UnitHealth

(* What a command of each type carries.                                     *)
LEMMA CommandFacts ==
  ASSUME NEW c \in Commands
  PROVE  /\ c.type \in {"SpawnAttack", "SpawnHeal", "ResetGame"}
         /\ c.type = "SpawnHeal" => c.target \in Towers /\ c.count \in Nat \ {0}
         /\ c.type = "SpawnAttack" =>
              /\ c.source \in Towers /\ c.target \in Towers /\ c.count \in Nat
              /\ c.source # c.target
<1>1. ASSUME NEW counts \in SUBSET Nat, c \in Attacks(counts)
      PROVE  /\ c.type = "SpawnAttack"
             /\ c.source \in Towers /\ c.target \in Towers /\ c.count \in Nat
             /\ c.source # c.target
  BY <1>1 DEF Attacks
<1>2. ASSUME NEW counts \in SUBSET (Nat \ {0}), c \in Heals(counts)
      PROVE  c.type = "SpawnHeal" /\ c.target \in Towers /\ c.count \in Nat \ {0}
  BY <1>2 DEF Heals
<1>3. c = Reset => c.type = "ResetGame"
  BY DEF Reset
<1>4. /\ {1} \in SUBSET (Nat \ {0}) /\ Counts \in SUBSET (Nat \ {0})
      /\ 1 .. Larger(BurstVolley, IdleVolley) \in SUBSET Nat
  BY InputAssumption DEF Larger
<1>5. c \in Attacks({1}) \cup Attacks(Counts)
            \cup Attacks(1 .. Larger(BurstVolley, IdleVolley))
            \cup Heals({1}) \cup Heals(Counts) \cup {Reset}
  BY DEF Commands, KeyCommands, NetworkCommands, AutoCommands
<1>6. CASE \E counts \in SUBSET Nat : c \in Attacks(counts)
  BY <1>1, <1>6
<1>7. CASE \E counts \in SUBSET (Nat \ {0}) : c \in Heals(counts)
  BY <1>2, <1>7
<1>8. CASE c = Reset
  BY <1>3, <1>8
<1>9. QED
  <2>1. {1} \in SUBSET Nat /\ Counts \in SUBSET Nat
    BY <1>4
  <2>2. QED
    BY <1>4, <1>5, <1>6, <1>7, <1>8, <2>1

(* An event about a tower is well formed, whatever it says of it.           *)
LEMMA EventFacts ==
  ASSUME NEW type \in EventTypes, NEW tower \in Towers, NEW value \in Nat
  PROVE  /\ Event(type, tower, value) \in Events
         /\ Event(type, tower, value).type = type
<1>1. tower # InvalidId
  BY TowersAssumption DEF Towers, InvalidId
<1>2. QED
  BY <1>1 DEF Event, Events

(* The erase at the end of a pass keeps a subsequence: every unit that is   *)
(* left was there before and is alive, and there are no more of them.       *)
LEMMA EraseFacts ==
  ASSUME units \in Seq(Units), EraseDead
  PROVE  /\ units' \in Seq(Units)
         /\ Len(units') <= Len(units)
         /\ \A x \in 1 .. Len(units') :
              \E k \in 1 .. Len(units) : UnitAlive(units[k]) /\ units'[x] = units[k]
<1>0. PICK n \in 0 .. Len(units) :
         \E kept \in [1 .. n -> Survivors] :
            units' = [x \in 1 .. n |-> units[kept[x]]]
  BY DEF EraseDead
<1>1. PICK kept \in [1 .. n -> Survivors] : units' = [x \in 1 .. n |-> units[kept[x]]]
  BY <1>0
<1>2. \A x \in 1 .. n : kept[x] \in 1 .. Len(units) /\ UnitAlive(units[kept[x]])
  BY <1>1 DEF Survivors
<1>3. \A x \in 1 .. n : units[kept[x]] \in Units
  BY <1>2
<1>4. n \in Nat /\ units' \in Seq(Units) /\ Len(units') = n
  BY <1>1, <1>3
<1>5. QED
  BY <1>1, <1>2, <1>4

(* A hit and a destruction keep a unit on its lane and never heal it.       *)
LEMMA HurtFacts ==
  ASSUME NEW u \in Units
  PROVE  /\ Hurt(u, 1) \in Units /\ Destroyed(u) \in Units
         /\ Hurt(u, 1).kind = u.kind /\ Hurt(u, 1).src = u.src /\ Hurt(u, 1).dst = u.dst
         /\ Hurt(u, 1).pos = u.pos /\ Hurt(u, 1).health = Larger(0, u.health - 1)
         /\ Destroyed(u).kind = u.kind /\ Destroyed(u).src = u.src
         /\ Destroyed(u).dst = u.dst
         /\ Destroyed(u).pos = u.pos /\ Destroyed(u).health = 0
  BY DEF Units, Hurt, Destroyed, Larger

(* A frame's movement keeps every unit, its lane and its health.            *)
LEMMA MovedFacts ==
  ASSUME units \in Seq(Units), NEW d \in Steps
  PROVE  /\ Moved(d) \in Seq(Units) /\ Len(Moved(d)) = Len(units)
         /\ \A k \in 1 .. Len(units) :
              /\ Moved(d)[k].kind = units[k].kind /\ Moved(d)[k].src = units[k].src
              /\ Moved(d)[k].dst = units[k].dst /\ Moved(d)[k].health = units[k].health
              /\ Moved(d)[k].pos = IF roundActive THEN Smaller(Lane, units[k].pos + d)
                                   ELSE units[k].pos
<1> DEFINE Ahead(u) == [u EXCEPT !.pos = Smaller(Lane, @ + d)]
<1>1. ASSUME NEW u \in Units
      PROVE  /\ Ahead(u) \in Units
             /\ Ahead(u).kind = u.kind /\ Ahead(u).src = u.src /\ Ahead(u).dst = u.dst
             /\ Ahead(u).health = u.health /\ Ahead(u).pos = Smaller(Lane, u.pos + d)
  <2>1. Smaller(Lane, u.pos + d) \in 0 .. Lane
    BY LaneAssumption, InputAssumption DEF Units, Smaller
  <2>2. QED
    BY <2>1 DEF Units
<1>2. CASE roundActive
  <2>1. Moved(d) = [k \in 1 .. Len(units) |-> Ahead(units[k])]
    BY <1>2 DEF Moved, MovedAlways
  <2>2. \A k \in 1 .. Len(units) : units[k] \in Units
    OBVIOUS
  <2> HIDE DEF Ahead
  <2>3. Moved(d) \in Seq(Units) /\ Len(Moved(d)) = Len(units)
    BY <1>1, <2>1, <2>2
  <2>4. QED
    BY <1>1, <1>2, <2>1, <2>2, <2>3
<1>3. CASE ~roundActive
  BY <1>3 DEF Moved
<1>4. QED
  BY <1>2, <1>3

-----------------------------------------------------------------------------
(* The inductive invariant.  Between the round check and the combat pass a   *)
(* live round has two live towers; in an ended round the verdict is right    *)
(* and every unit in the field is parked: its target is dead or out of its   *)
(* range, so that the combat pass of an ended round has nothing to do.  The  *)
(* combat pass establishes that for the units it has passed.                 *)
Contested == \E s, t \in AliveTowers : s # t
Verdict   == AliveTowers = IF winnerId = InvalidId THEN {} ELSE {winnerId}
Parked(u) == UnitAlive(u) /\ alive[u.dst] => ~AtEdge(u)

BeforeCombat == {"events", "poll", "spawn", "autoplay", "autospawn", "move", "collide"}

RoundInv ==
  /\ phase \in BeforeCombat /\ roundActive => Contested
  /\ ~roundActive => Verdict /\ \A k \in 1 .. Len(units) : Parked(units[k])
  /\ phase = "combat" => \A k \in 1 .. Len(units) : k < first => Parked(units[k])
  /\ phase = "round" => \A k \in 1 .. Len(units) : Parked(units[k])

LoopInv == phase = "collide" => first < second

IInv == Typed /\ LoopInv /\ RoundInv
-----------------------------------------------------------------------------
(* Type correctness *)

TypeInv == Typed /\ LoopInv

(* The constructor's state is well typed.                                   *)
LEMMA InitTypeInv == Init => TypeInv
<1> SUFFICES ASSUME Init PROVE TypeInv
  OBVIOUS
<1>1. \A t \in Towers : alive[t] <=> hp[t] > 0
  <2>1. \A t \in Towers : hp[t] = MaxHp
    BY DEF Init
  <2>2. \A t \in Towers : hp[t] > 0
    BY <2>1, TowersAssumption
  <2>3. \A t \in Towers : alive[t]
    BY DEF Init
  <2>4. QED
    BY <2>2, <2>3
<1>2. hp \in [Towers -> 0 .. MaxHp] /\ alive \in [Towers -> BOOLEAN]
  BY TowersAssumption DEF Init
<1>3. donationStreaks \in [Lanes -> 0 .. StreakLength - 1]
  BY StreakAssumption DEF Init
<1>4. units \in Seq(Units) /\ events \in Seq(Events) /\ pending \in Seq(Commands)
  BY DEF Init
<1>5. /\ roundActive \in BOOLEAN /\ autoplay \in BOOLEAN /\ burst \in BOOLEAN
      /\ winnerId \in Towers \cup {InvalidId} /\ todo \in SUBSET Towers
      /\ phase \in Phases /\ phase # "collide"
      /\ first \in Nat \ {0} /\ second \in Nat
  <2>1. roundActive \in BOOLEAN /\ autoplay \in BOOLEAN /\ burst \in BOOLEAN
    BY DEF Init
  <2>2. winnerId \in Towers \cup {InvalidId} /\ todo \in SUBSET Towers
    BY DEF Init
  <2>3. phase \in Phases /\ phase # "collide" /\ first \in Nat \ {0} /\ second \in Nat
    BY DEF Init, Phases
  <2>4. QED
    BY <2>1, <2>2, <2>3
<1>6. step \in Steps \cup {0} /\ before \in Seq(Units)
  BY DEF Init
<1>7. QED
  BY <1>1, <1>2, <1>3, <1>4, <1>5, <1>6 DEF TypeInv, Typed, LoopInv

(* The fresh towers of a reset are well typed.                              *)
LEMMA FreshTowersType ==
  ASSUME FreshTowers
  PROVE  /\ hp' \in [Towers -> 0 .. MaxHp] /\ alive' \in [Towers -> BOOLEAN]
         /\ \A t \in Towers : alive'[t] <=> hp'[t] > 0
         /\ roundActive' = TRUE /\ winnerId' = InvalidId
  BY TowersAssumption DEF FreshTowers

(* A key, F5, a toggle and a message keep the types.                        *)
LEMMA InputTypeInv ==
  ASSUME TypeInv, Input PROVE TypeInv'
<1> USE DEF TypeInv, Typed, LoopInv
<1>1. ASSUME NEW c \in KeyCommands, PressKey(c) PROVE TypeInv'
  <2>1. c \in Commands
    BY DEF Commands
  <2>2. QED
    BY <1>1, <2>1 DEF PressKey, towerVars, loopVars
<1>2. CASE PressF5
  <2>1. units' \in Seq(Units) /\ events' \in Seq(Events)
    BY <1>2 DEF PressF5
  <2>2. QED
    BY <1>2, <2>1, FreshTowersType DEF PressF5, loopVars
<1>3. CASE ToggleAutoplay
  BY <1>3 DEF ToggleAutoplay, towerVars, loopVars
<1>4. ASSUME NEW c \in NetworkCommands, ReceiveCommand(c) PROVE TypeInv'
  <2>1. c \in Commands
    BY DEF Commands
  <2>2. QED
    BY <1>4, <2>1 DEF ReceiveCommand, towerVars, loopVars
<1>5. QED
  BY <1>1, <1>2, <1>3, <1>4 DEF Input
(* The batch: its first command is well formed, and so is the rest.         *)
LEMMA BatchFacts ==
  ASSUME TypeInv, Applying
  PROVE  Head(pending) \in Commands /\ Tail(pending) \in Seq(Commands)
  BY DEF TypeInv, Typed, Applying

(* A heal leaves a live tower with health, and not above MaxHp.             *)
LEMMA HealTypeInv ==
  ASSUME TypeInv, ApplyHeal PROVE TypeInv'
<1> DEFINE c == Head(pending)
<1> USE DEF TypeInv, Typed, LoopInv
<1>1. c \in Commands /\ Tail(pending) \in Seq(Commands)
  BY BatchFacts DEF ApplyHeal
<1>2. c.target \in Towers /\ c.count \in Nat \ {0} /\ alive[c.target]
  BY <1>1, CommandFacts DEF ApplyHeal, CanHeal
<1>3. hp[c.target] \in 1 .. MaxHp
  BY <1>2
<1>4. HealedHp(hp[c.target], c.count) \in 1 .. MaxHp
  BY <1>2, <1>3, TowersAssumption DEF HealedHp, Smaller
<1>5. hp' = [hp EXCEPT ![c.target] = HealedHp(hp[c.target], c.count)]
  BY DEF ApplyHeal
<1>6. hp' \in [Towers -> 0 .. MaxHp] /\ \A t \in Towers : alive[t] <=> hp'[t] > 0
  BY <1>2, <1>4, <1>5
<1>7. Event("TowerHealed", c.target, c.count) \in Events
  BY <1>2, EventFacts DEF EventTypes
<1>8. events' \in Seq(Events)
  BY <1>7 DEF ApplyHeal
<1>9. QED
  BY <1>1, <1>6, <1>8 DEF ApplyHeal, loopVars

(* A volley consists of live units on the lane of its command.              *)
LEMMA SpawnedUnitFacts ==
  ASSUME TypeInv, NEW c \in Commands, c.type = "SpawnAttack", NEW k \in Nat \ {0}
  PROVE  /\ SpawnedUnit(c, k) \in Units
         /\ SpawnedUnit(c, k).src = c.source /\ SpawnedUnit(c, k).dst = c.target
<1> DEFINE kind == KindOf(donationStreaks[<<c.source, c.target>>] + k)
<1>1. c.source \in Towers /\ c.target \in Towers
  BY CommandFacts
<1>2. kind \in Kinds
  BY DEF KindOf, Kinds
<1>3. UnitHealth[kind] \in Nat
  BY <1>2, UnitHealthType
<1>4. SpawnSpacing * (k - 1) \in Nat
  BY LaneAssumption
<1>5. Smaller(SpawnReach, SpawnSpacing * (k - 1)) \in 0 .. Lane
  BY <1>4, LaneAssumption DEF Smaller
<1>6. SpawnedUnit(c, k) = [kind |-> kind, src |-> c.source, dst |-> c.target,
                           pos |-> Smaller(SpawnReach, SpawnSpacing * (k - 1)),
                           health |-> UnitHealth[kind]]
  BY DEF SpawnedUnit
<1> HIDE DEF kind
<1>7. QED
  BY <1>1, <1>2, <1>3, <1>5, <1>6 DEF Units

(* What an attack does to the field: the volley is appended to it, cut to   *)
(* the room the cap leaves.                                                 *)
LEMMA AttackFacts ==
  ASSUME TypeInv, ApplyAttack
  PROVE  LET c == Head(pending)
             spawned == Smaller(c.count, Room)
         IN /\ c \in Commands /\ c.type = "SpawnAttack" /\ spawned \in Nat
            /\ spawned <= Room
            /\ units' \in Seq(Units) /\ Len(units') = Len(units) + spawned
            /\ \A k \in 1 .. Len(units') :
                 \/ k \in 1 .. Len(units) /\ units'[k] = units[k]
                 \/ units'[k].src = c.source /\ units'[k].dst = c.target
<1> DEFINE c == Head(pending)
           spawned == Smaller(c.count, Room)
           volley == [k \in 1 .. spawned |-> SpawnedUnit(c, k)]
<1>1. c \in Commands /\ c.type = "SpawnAttack"
  BY BatchFacts DEF ApplyAttack
<1>2. c.count \in Nat
  BY <1>1, CommandFacts
<1>3. Len(units) \in Nat /\ units \in Seq(Units)
  BY DEF TypeInv, Typed
<1>4. Room \in Nat
  BY <1>3, TowersAssumption DEF Room, Larger
<1>5. spawned \in Nat /\ spawned <= Room
  BY <1>2, <1>4 DEF Smaller
<1>6. \A k \in 1 .. spawned :
         /\ SpawnedUnit(c, k) \in Units
         /\ SpawnedUnit(c, k).src = c.source /\ SpawnedUnit(c, k).dst = c.target
  BY <1>1, <1>5, SpawnedUnitFacts
<1>7. units' = units \o volley
  BY DEF ApplyAttack
<1> HIDE DEF c, spawned
<1>8. volley \in Seq(Units) /\ Len(volley) = spawned
  BY <1>5, <1>6
<1>9. /\ units' \in Seq(Units) /\ Len(units') = Len(units) + spawned
      /\ \A k \in 1 .. Len(units') :
            units'[k] = IF k <= Len(units) THEN units[k] ELSE volley[k - Len(units)]
  <2> HIDE DEF volley
  <2>1. /\ units \o volley \in Seq(Units) /\ Len(units \o volley) = Len(units) + Len(volley)
        /\ \A k \in 1 .. Len(units) + Len(volley) :
              (units \o volley)[k] =
                IF k <= Len(units) THEN units[k] ELSE volley[k - Len(units)]
    BY <1>3, <1>8, ConcatProperties, Zenon
  <2>2. QED
    BY <1>7, <1>8, <2>1
<1>10. ASSUME NEW k \in 1 .. Len(units'), ~ (k <= Len(units))
       PROVE  units'[k].src = c.source /\ units'[k].dst = c.target
  <2>1. k - Len(units) \in 1 .. spawned
    BY <1>3, <1>5, <1>9, <1>10
  <2>2. units'[k] = SpawnedUnit(c, k - Len(units))
    <3>1. units'[k] = volley[k - Len(units)]
      BY <1>9, <1>10
    <3>2. QED
      BY <2>1, <3>1
  <2>3. QED
    BY <1>6, <2>1, <2>2
<1> HIDE DEF volley
<1>11. \A k \in 1 .. Len(units') :
          \/ k \in 1 .. Len(units) /\ units'[k] = units[k]
          \/ units'[k].src = c.source /\ units'[k].dst = c.target
  BY <1>3, <1>9, <1>10
<1>12. units' \in Seq(Units) /\ Len(units') = Len(units) + spawned
  BY <1>9
<1>13. QED
  BY <1>1, <1>5, <1>11, <1>12 DEF c, spawned

(* An attack keeps the types: its lane's streak wraps around.               *)
LEMMA AttackTypeInv ==
  ASSUME TypeInv, ApplyAttack PROVE TypeInv'
<1> DEFINE c == Head(pending)
           lane == <<c.source, c.target>>
           spawned == Smaller(c.count, Room)
<1>1. /\ c \in Commands /\ c.type = "SpawnAttack" /\ spawned \in Nat
      /\ units' \in Seq(Units)
  BY AttackFacts
<1>2. Applying
  BY DEF ApplyAttack
<1>3. Tail(pending) \in Seq(Commands)
  BY <1>2, BatchFacts
<1>4. /\ donationStreaks' =
           [donationStreaks EXCEPT ![lane] = (donationStreaks[lane] + spawned) % StreakLength]
      /\ events' = IF spawned > 0
                   THEN Append(events, Event("UnitSpawned", c.source, spawned)) ELSE events
      /\ pending' = Tail(pending)
  BY DEF ApplyAttack
<1> HIDE DEF spawned
<1>5. c.source \in Towers /\ c.target \in Towers
  <2> HIDE DEF c
  <2> QED
    BY <1>1, CommandFacts
<1>6. donationStreaks' \in [Lanes -> 0 .. StreakLength - 1]
  <2>1. lane \in Lanes
    BY <1>5 DEF Lanes
  <2>2. donationStreaks \in [Lanes -> 0 .. StreakLength - 1]
    BY DEF TypeInv, Typed
  <2> HIDE DEF lane
  <2>3. donationStreaks[lane] \in 0 .. StreakLength - 1
    BY <2>1, <2>2
  <2>4. (donationStreaks[lane] + spawned) % StreakLength \in 0 .. StreakLength - 1
    <3> DEFINE sum == donationStreaks[lane] + spawned
    <3>1. sum \in Nat
      BY <1>1, <2>3
    <3> HIDE DEF sum
    <3>2. sum % StreakLength \in 0 .. StreakLength - 1
      BY <3>1, StreakAssumption
    <3> QED
      BY <3>2 DEF sum
  <2>5. QED
    BY <1>4, <2>1, <2>2, <2>4
<1>7. events' \in Seq(Events)
  <2> HIDE DEF c
  <2>1. Event("UnitSpawned", c.source, spawned) \in Events
    BY <1>1, <1>5, EventFacts DEF EventTypes
  <2>2. events \in Seq(Events)
    BY DEF TypeInv, Typed
  <2>3. QED
    BY <1>4, <2>1, <2>2
<1>8. QED
  BY <1>1, <1>3, <1>4, <1>6, <1>7 DEF ApplyAttack, TypeInv, Typed, LoopInv, towerVars, loopVars

(* A reset and an ignored command keep the types.                           *)
LEMMA CommandTypeInv ==
  ASSUME TypeInv, ApplyReset \/ IgnoreCommand PROVE TypeInv'
<1> USE DEF TypeInv, Typed, LoopInv
<1>1. Tail(pending) \in Seq(Commands)
  BY BatchFacts DEF ApplyReset, IgnoreCommand
<1>2. CASE ApplyReset
  <2>1. units' \in Seq(Units) /\ events' \in Seq(Events)
    BY <1>2 DEF ApplyReset
  <2>2. donationStreaks' \in [Lanes -> 0 .. StreakLength - 1]
    BY <1>2, StreakAssumption DEF ApplyReset
  <2>3. QED
    BY <1>1, <1>2, <2>1, <2>2, FreshTowersType DEF ApplyReset, loopVars
<1>3. CASE IgnoreCommand
  BY <1>1, <1>3 DEF IgnoreCommand, towerVars, loopVars
<1>4. QED
  BY <1>2, <1>3

(* The commands autoplay builds are commands of the game.                   *)
LEMMA AutoplayTypeInv ==
  ASSUME TypeInv, NEW t \in Towers, AutoplayTower(t) PROVE TypeInv'
<1> USE DEF TypeInv, Typed, LoopInv
<1>1. pending' \in Seq(Commands)
  <2>1. CASE UNCHANGED pending
    BY <2>1
  <2>2. ASSUME NEW c \in Heals({1}), pending' = Append(pending, c)
        PROVE  pending' \in Seq(Commands)
    <3>1. c \in Commands
      BY DEF Commands, KeyCommands
    <3>2. QED
      BY <2>2, <3>1
  <2>3. ASSUME NEW target \in AutoTargets(t), NEW n \in 1 .. LargestVolley,
               pending' = Append(pending, [type |-> "SpawnAttack", source |-> t,
                                           target |-> target, count |-> n])
        PROVE  pending' \in Seq(Commands)
    <3> DEFINE c == [type |-> "SpawnAttack", source |-> t, target |-> target, count |-> n]
    <3>1. n \in 1 .. Larger(BurstVolley, IdleVolley)
      BY InputAssumption DEF LargestVolley, Larger
    <3>2. target \in Towers /\ target # t
      BY DEF AutoTargets, AliveTowers
    <3>3. c \in Attacks(1 .. Larger(BurstVolley, IdleVolley))
      BY <3>1, <3>2 DEF Attacks
    <3>4. c \in Commands
      BY <3>3 DEF Commands, AutoCommands
    <3> HIDE DEF c
    <3>5. Append(pending, c) \in Seq(Commands)
      BY <3>4
    <3>6. QED
      BY <2>3, <3>5 DEF c
  <2>4. QED
    BY <2>1, <2>2, <2>3 DEF AutoplayTower
<1>2. todo' \in SUBSET Towers
  BY DEF AutoplayTower
<1>3. QED
  BY <1>1, <1>2 DEF AutoplayTower, towerVars, loopVars

(* The steps that only move the frame on.                                   *)
LEMMA FrameTypeInv ==
  ASSUME TypeInv,
         \/ BeginUpdate \/ ConsumeCommands \/ BeginAutoplay \/ NoAutoplay \/ EndAutoplay
         \/ EndAutospawn \/ NextRow \/ FlyOn \/ KeepRound
  PROVE  TypeInv'
<1> USE DEF TypeInv, Typed, LoopInv, towerVars, inputVars, loopVars
<1>1. CASE BeginUpdate
  <2>1. events' \in Seq(Events)
    BY <1>1 DEF BeginUpdate
  <2>2. QED
    BY <1>1, <2>1 DEF BeginUpdate, Phases
<1>2. CASE ConsumeCommands
  BY <1>2 DEF ConsumeCommands, Phases
<1>3. CASE BeginAutoplay
  <2>1. todo' \in SUBSET Towers
    BY <1>3 DEF BeginAutoplay, AliveTowers
  <2>2. QED
    BY <1>3, <2>1 DEF BeginAutoplay, Phases
<1>4. CASE NoAutoplay
  BY <1>4 DEF NoAutoplay, Phases
<1>5. CASE EndAutoplay
  BY <1>5 DEF EndAutoplay, Phases
<1>6. CASE EndAutospawn
  BY <1>6 DEF EndAutospawn, Phases
<1>7. CASE NextRow
  BY <1>7 DEF NextRow
<1>8. CASE FlyOn
  BY <1>8 DEF FlyOn, InCombat
<1>9. CASE KeepRound
  BY <1>9 DEF KeepRound, Phases
<1>10. QED
  BY <1>1, <1>2, <1>3, <1>4, <1>5, <1>6, <1>7, <1>8, <1>9

(* Movement keeps the types.                                                *)
LEMMA MoveTypeInv ==
  ASSUME TypeInv, NEW d \in Steps, Move(d) PROVE TypeInv'
<1>1. units' \in Seq(Units)
  BY MovedFacts DEF Move, TypeInv, Typed
<1>2. QED
  BY <1>1 DEF Move, TypeInv, Typed, LoopInv, Phases, towerVars, inputVars

(* One pair of the collision pass: the field keeps its length, and a unit   *)
(* either is left as it was or has taken one hit.                           *)
LEMMA CollideFacts ==
  ASSUME TypeInv, CollidePair
  PROVE  /\ first \in 1 .. Len(units) /\ second \in 1 .. Len(units) /\ first < second
         /\ units' \in Seq(Units) /\ Len(units') = Len(units)
         /\ \A k \in 1 .. Len(units) : units'[k] \in {units[k], Hurt(units[k], 1)}
<1>1. units \in Seq(Units) /\ first \in 1 .. Len(units) /\ second \in 1 .. Len(units)
      /\ first < second
  BY DEF CollidePair, TypeInv, Typed, LoopInv
<1>2. CASE UNCHANGED units
  BY <1>1, <1>2
<1>3. CASE units' = [units EXCEPT ![first] = Hurt(units[first], 1),
                                  ![second] = Hurt(units[second], 1)]
  <2>1. Hurt(units[first], 1) \in Units /\ Hurt(units[second], 1) \in Units
    BY <1>1, HurtFacts
  <2>2. units' \in Seq(Units) /\ Len(units') = Len(units)
    BY <1>1, <1>3, <2>1
  <2>3. \A k \in 1 .. Len(units) : units'[k] \in {units[k], Hurt(units[k], 1)}
    BY <1>1, <1>3
  <2>4. QED
    BY <1>1, <2>2, <2>3
<1>4. QED
  BY <1>2, <1>3 DEF CollidePair

(* A pair of the collision pass keeps the types.                            *)
LEMMA CollideTypeInv ==
  ASSUME TypeInv, CollidePair PROVE TypeInv'
<1>1. \A n \in {1, 2} : Event("UnitDestroyed", InvalidId, n) \in Events
  BY DEF Event, Events, EventTypes
<1>2. events' \in Seq(Events)
  <2>1. events \in Seq(Events)
    BY DEF TypeInv, Typed
  <2>2. events' = events \/ \E n \in {1, 2} :
                              events' = Append(events, Event("UnitDestroyed", InvalidId, n))
    BY DEF CollidePair
  <2>3. QED
    BY <1>1, <2>1, <2>2
<1>3. QED
  BY <1>2, CollideFacts
     DEF CollidePair, TypeInv, Typed, LoopInv, towerVars, inputVars

(* The erase at the end of a pass keeps the types.                          *)
LEMMA ErasedTypeInv ==
  ASSUME TypeInv, EndCollisions \/ EndCombat PROVE TypeInv'
<1>1. units' \in Seq(Units)
  BY EraseFacts DEF EndCollisions, EndCombat, TypeInv, Typed
<1>2. step' \in Steps \cup {0} /\ before' \in Seq(Units)
  <2>1. CASE EndCollisions
    <3>1. step' = 0 /\ before' = <<>>
      BY <2>1 DEF EndCollisions
    <3>2. QED
      BY <3>1
  <2>2. CASE EndCombat
    BY <2>2 DEF EndCombat, TypeInv, Typed
  <2>3. QED
    BY <2>1, <2>2
<1>3. QED
  BY <1>1, <1>2 DEF EndCollisions, EndCombat, TypeInv, Typed, LoopInv, Phases, towerVars,
              inputVars

(* A destroyed unit stays in the field, dead, until the pass erases it.     *)
LEMMA DestroyFacts ==
  ASSUME units \in Seq(Units), first \in 1 .. Len(units),
         units' = [units EXCEPT ![first] = Destroyed(units[first])]
  PROVE  /\ units' \in Seq(Units) /\ Len(units') = Len(units)
         /\ ~UnitAlive(units'[first])
         /\ \A k \in 1 .. Len(units) : k # first => units'[k] = units[k]
<1>1. units[first] \in Units
  OBVIOUS
<1>2. Destroyed(units[first]) \in Units /\ Destroyed(units[first]).health = 0
  BY <1>1, HurtFacts
<1>3. QED
  BY <1>2 DEF UnitAlive

(* A blow at a tower: it is alive before, it falls when its points run out. *)
LEMMA HitFacts ==
  ASSUME TypeInv, HitTower
  PROVE  LET u == units[first]
         IN /\ units \in Seq(Units) /\ first \in 1 .. Len(units)
            /\ u \in Units /\ u.dst \in Towers /\ alive[u.dst]
            /\ UnitDamage(u.kind) \in Nat \ {0}
            /\ units' = [units EXCEPT ![first] = Destroyed(u)]
            /\ hp' = [hp EXCEPT ![u.dst] = DamagedHp(hp[u.dst], UnitDamage(u.kind))]
            /\ alive' = [alive EXCEPT ![u.dst] = (hp'[u.dst] # 0)]
<1> DEFINE u == units[first]
<1>1. units \in Seq(Units) /\ first \in 1 .. Len(units)
  BY DEF HitTower, InCombat, TypeInv, Typed
<1>2. u \in Units /\ u.dst \in Towers /\ u.kind \in Kinds
  <2>1. u \in Units
    BY <1>1
  <2> HIDE DEF u
  <2>2. QED
    BY <2>1 DEF Units
<1>3. alive[u.dst]
  BY DEF HitTower, TargetGone
<1>4. UnitDamage(u.kind) \in Nat \ {0}
  BY <1>2, UnitHealthType DEF UnitDamage
<1>5. units' = [units EXCEPT ![first] = Destroyed(u)]
  BY DEF HitTower
<1>6. hp' = [hp EXCEPT ![u.dst] = DamagedHp(hp[u.dst], UnitDamage(u.kind))]
  BY <1>3 DEF HitTower
<1>7. hp'[u.dst] = DamagedHp(hp[u.dst], UnitDamage(u.kind))
  BY <1>2, <1>6 DEF TypeInv, Typed
<1>8. alive' = [alive EXCEPT ![u.dst] = alive[u.dst] /\ hp'[u.dst] # 0]
  BY <1>3, <1>7 DEF HitTower
<1>9. (alive[u.dst] /\ hp'[u.dst] # 0) = (hp'[u.dst] # 0)
  BY <1>3
<1>10. QED
  BY <1>1, <1>2, <1>3, <1>4, <1>5, <1>6, <1>8, <1>9

(* A blow leaves health and aliveness of its target in step.                *)
LEMMA HitTypeInv ==
  ASSUME TypeInv, HitTower PROVE TypeInv'
<1> DEFINE u == units[first]
<1>1. /\ units \in Seq(Units) /\ first \in 1 .. Len(units)
      /\ u.dst \in Towers /\ alive[u.dst] /\ UnitDamage(u.kind) \in Nat \ {0}
      /\ units' = [units EXCEPT ![first] = Destroyed(u)]
      /\ hp' = [hp EXCEPT ![u.dst] = DamagedHp(hp[u.dst], UnitDamage(u.kind))]
      /\ alive' = [alive EXCEPT ![u.dst] = (hp'[u.dst] # 0)]
  BY HitFacts
<1>2. units' \in Seq(Units)
  BY <1>1, DestroyFacts
<1>3. hp' \in [Towers -> 0 .. MaxHp] /\ alive' \in [Towers -> BOOLEAN]
  <2>1. hp \in [Towers -> 0 .. MaxHp] /\ alive \in [Towers -> BOOLEAN]
    BY DEF TypeInv, Typed
  <2>2. DamagedHp(hp[u.dst], UnitDamage(u.kind)) \in 0 .. MaxHp
    BY <1>1, <2>1, TowersAssumption DEF DamagedHp, Larger
  <2> HIDE DEF u
  <2>3. QED
    BY <1>1, <2>1, <2>2
<1>4. \A t \in Towers : alive'[t] <=> hp'[t] > 0
  <2>1. ASSUME NEW t \in Towers, t # u.dst PROVE alive'[t] <=> hp'[t] > 0
    <3>1. alive'[t] = alive[t] /\ hp'[t] = hp[t]
      BY <1>1, <2>1 DEF TypeInv, Typed
    <3>2. QED
      BY <2>1, <3>1 DEF TypeInv, Typed
  <2>2. alive'[u.dst] <=> hp'[u.dst] > 0
    <3>1. alive'[u.dst] = (hp'[u.dst] # 0)
      BY <1>1 DEF TypeInv, Typed
    <3>2. hp'[u.dst] \in Nat
      BY <1>1, <1>3
    <3>3. (hp'[u.dst] # 0) <=> hp'[u.dst] > 0
      BY <3>2
    <3>4. QED
      BY <3>1, <3>3
  <2>3. QED
    BY <2>1, <2>2
<1>5. events' \in Seq(Events)
  <2> DEFINE damage == Event("TowerDamaged", u.dst, UnitDamage(u.kind))
             fall == Event("TowerDestroyed", u.dst, 0)
  <2>1. damage \in Events /\ fall \in Events
    BY <1>1, EventFacts DEF EventTypes
  <2>2. events' \in {Append(events, damage), Append(Append(events, damage), fall)}
    BY DEF HitTower
  <2> HIDE DEF damage, fall
  <2>3. events \in Seq(Events)
    BY DEF TypeInv, Typed
  <2>4. Append(events, damage) \in Seq(Events)
    BY <2>1, <2>3
  <2>5. Append(Append(events, damage), fall) \in Seq(Events)
    BY <2>1, <2>4
  <2>6. QED
    BY <2>2, <2>4, <2>5
<1>6. QED
  BY <1>1, <1>2, <1>3, <1>4, <1>5
     DEF HitTower, InCombat, TypeInv, Typed, LoopInv, inputVars

(* Destroying a unit whose target is gone keeps the types.                  *)
LEMMA StrayTypeInv ==
  ASSUME TypeInv, DestroyStray PROVE TypeInv'
<1>1. units' \in Seq(Units)
  BY DestroyFacts DEF DestroyStray, InCombat, TypeInv, Typed
<1>2. QED
  BY <1>1 DEF DestroyStray, InCombat, TypeInv, Typed, LoopInv, towerVars, inputVars

(* The verdict is a tower or nobody.                                        *)
LEMMA EndRoundTypeInv ==
  ASSUME TypeInv, EndRound PROVE TypeInv'
<1>1. LastStanding \in Towers \cup {InvalidId}
  BY DEF LastStanding, AliveTowers
<1>2. Event("RoundEnded", LastStanding, 0) \in Events
  BY <1>1 DEF Event, Events, EventTypes
<1>3. events' \in Seq(Events)
  <2>1. events \in Seq(Events)
    BY DEF TypeInv, Typed
  <2>2. events' = Append(events, Event("RoundEnded", LastStanding, 0))
    BY DEF EndRound
  <2>3. QED
    BY <1>2, <2>1, <2>2
<1>4. roundActive' = FALSE /\ winnerId' = LastStanding
  BY DEF EndRound
<1>5. QED
  BY <1>1, <1>3, <1>4 DEF EndRound, TypeInv, Typed, LoopInv, Phases, inputVars, loopVars

(* A step that changes nothing keeps the types.                             *)
LEMMA StutterTypeInv ==
  ASSUME TypeInv, UNCHANGED vars PROVE TypeInv'
  BY DEF TypeInv, Typed, LoopInv, vars, towerVars, inputVars, loopVars

(* TypeInv is inductive.                                                    *)
LEMMA NextTypeInv == TypeInv /\ [Next]_vars => TypeInv'
<1> SUFFICES ASSUME TypeInv, [Next]_vars PROVE TypeInv'
  OBVIOUS
<1>1. CASE Input
  BY <1>1, InputTypeInv
<1>2. CASE \/ BeginUpdate \/ ConsumeCommands \/ BeginAutoplay \/ NoAutoplay \/ EndAutoplay
           \/ EndAutospawn \/ NextRow \/ FlyOn \/ KeepRound
  BY <1>2, FrameTypeInv
<1>3. CASE ApplyReset \/ IgnoreCommand
  BY <1>3, CommandTypeInv
<1>4. CASE ApplyHeal
  BY <1>4, HealTypeInv
<1>5. CASE ApplyAttack
  BY <1>5, AttackTypeInv
<1>6. CASE \E t \in Towers : AutoplayTower(t)
  BY <1>6, AutoplayTypeInv
<1>7. CASE \E d \in Steps : Move(d)
  BY <1>7, MoveTypeInv
<1>8. CASE CollidePair
  BY <1>8, CollideTypeInv
<1>9. CASE EndCollisions \/ EndCombat
  BY <1>9, ErasedTypeInv
<1>10. CASE DestroyStray
  BY <1>10, StrayTypeInv
<1>11. CASE HitTower
  BY <1>11, HitTypeInv
<1>12. CASE EndRound
  BY <1>12, EndRoundTypeInv
<1>13. CASE UNCHANGED vars
  BY <1>13, StutterTypeInv
<1>14. QED
  BY <1>1, <1>2, <1>3, <1>4, <1>5, <1>6, <1>7, <1>8, <1>9, <1>10, <1>11, <1>12, <1>13
     DEF Next, Update

(* Every variable keeps its type, whatever the number of towers: in          *)
(* particular health points never leave 0 .. MaxHp, whatever volleys and     *)
(* heals arrive.                                                             *)
THEOREM VariablesTyped == Spec => []Typed
<1>1. Spec => []TypeInv
  BY InitTypeInv, NextTypeInv, PTL DEF Spec
<1>2. TypeInv => Typed
  BY DEF TypeInv
<1>3. QED
  BY <1>1, <1>2, PTL

-----------------------------------------------------------------------------
(* The rounds *)

(* A reset round has two live towers, because N >= 2.                       *)
LEMMA FreshRound ==
  ASSUME TypeInv, FreshTowers PROVE Contested' /\ roundActive'
<1>1. 0 \in Towers /\ 1 \in Towers
  BY TowersAssumption DEF Towers
<1>2. 0 \in AliveTowers' /\ 1 \in AliveTowers'
  BY <1>1 DEF FreshTowers, AliveTowers
<1>3. QED
  BY <1>2 DEF Contested, FreshTowers

(* The constructor starts a contested round.                                *)
LEMMA InitRoundInv == Init => RoundInv
<1> SUFFICES ASSUME Init PROVE RoundInv
  OBVIOUS
<1>1. 0 \in AliveTowers /\ 1 \in AliveTowers
  BY TowersAssumption DEF Init, Towers, AliveTowers
<1>2. Contested
  BY <1>1 DEF Contested
<1>3. QED
  BY <1>2 DEF RoundInv, Init

(* The steps before the combat pass that leave towers and units alone.      *)
LEMMA QuietRoundInv ==
  ASSUME RoundInv, UNCHANGED <<alive, roundActive, winnerId, units>>,
         phase \in BeforeCombat, phase' \in BeforeCombat
  PROVE  RoundInv'
<1>1. Contested' = Contested /\ Verdict' = Verdict
  BY DEF Contested, Verdict, AliveTowers
<1>2. \A k \in 1 .. Len(units) : Parked(units[k])' = Parked(units[k])
  BY DEF Parked, UnitAlive, AtEdge, EdgeDistance
<1>3. QED
  BY <1>1, <1>2 DEF RoundInv, BeforeCombat

(* A hit between units parks no fewer of them.                              *)
LEMMA CollideRoundInv ==
  ASSUME TypeInv, RoundInv, CollidePair PROVE RoundInv'
<1>1. /\ units \in Seq(Units) /\ Len(units') = Len(units)
      /\ \A k \in 1 .. Len(units) : units'[k] \in {units[k], Hurt(units[k], 1)}
  BY CollideFacts DEF TypeInv, Typed
<1>2. UNCHANGED <<alive, roundActive, winnerId>> /\ phase = "collide" /\ phase' = "collide"
  BY DEF CollidePair, towerVars
<1>3. Contested' = Contested /\ Verdict' = Verdict
  BY <1>2 DEF Contested, Verdict, AliveTowers
<1>4. ASSUME NEW k \in 1 .. Len(units), Parked(units[k]) PROVE Parked(units[k])'
  <2>1. units[k] \in Units
    BY <1>1
  <2>2. /\ units'[k].dst = units[k].dst /\ units'[k].pos = units[k].pos
        /\ UnitAlive(units'[k]) => UnitAlive(units[k])
    <3> DEFINE u == units[k]
    <3>1. u \in Units /\ units'[k] \in {u, Hurt(u, 1)}
      BY <1>1, <2>1
    <3> HIDE DEF u
    <3>2. Hurt(u, 1).dst = u.dst /\ Hurt(u, 1).pos = u.pos
          /\ Hurt(u, 1).health = Larger(0, u.health - 1)
      BY <3>1, HurtFacts
    <3>3. units'[k].dst = u.dst /\ units'[k].pos = u.pos
          /\ (UnitAlive(units'[k]) => UnitAlive(u))
      <4>1. u.health \in Nat
        BY <3>1 DEF Units
      <4>2. QED
        BY <3>1, <3>2, <4>1 DEF UnitAlive, Larger
    <3>4. QED
      BY <3>3 DEF u
  <2>3. QED
    BY <1>2, <1>4, <2>2 DEF Parked, AtEdge, EdgeDistance, UnitAlive
<1>5. QED
  BY <1>1, <1>2, <1>3, <1>4 DEF RoundInv, BeforeCombat

(* After a pass the survivors are parked if all units were.                 *)
LEMMA ErasedRoundInv ==
  ASSUME TypeInv, RoundInv, EndCollisions \/ EndCombat PROVE RoundInv'
<1>1. UNCHANGED <<alive, roundActive, winnerId>> /\ EraseDead /\ units \in Seq(Units)
  BY DEF EndCollisions, EndCombat, towerVars, TypeInv, Typed
<1>2. Contested' = Contested /\ Verdict' = Verdict
  BY <1>1 DEF Contested, Verdict, AliveTowers
<1>3. ASSUME \A k \in 1 .. Len(units) : Parked(units[k])
      PROVE  \A x \in 1 .. Len(units') : Parked(units[x])'
  <2> TAKE x \in 1 .. Len(units')
  <2>1. PICK k \in 1 .. Len(units) : units'[x] = units[k]
    BY <1>1, EraseFacts
  <2>2. QED
    BY <1>1, <1>3, <2>1 DEF Parked, UnitAlive, AtEdge, EdgeDistance
<1>4. CASE EndCollisions
  <2>1. phase = "collide" /\ phase' = "combat" /\ first' = 1
    BY <1>4 DEF EndCollisions
  <2>2. QED
    BY <1>1, <1>2, <1>3, <2>1 DEF RoundInv, BeforeCombat
<1>5. CASE EndCombat
  <2>1. phase = "combat" /\ phase' = "round" /\ \A k \in 1 .. Len(units) : k < first
    BY <1>1, <1>5 DEF EndCombat, TypeInv, Typed
  <2>2. \A k \in 1 .. Len(units) : Parked(units[k])
    BY <2>1 DEF RoundInv
  <2>3. QED
    BY <1>1, <1>2, <1>3, <2>1, <2>2 DEF RoundInv, BeforeCombat
<1>6. QED
  BY <1>4, <1>5

(* A step of the combat pass keeps the verdict of an ended round, because   *)
(* no unit in the field can hit a live tower.                               *)
LEMMA HitOnlyInARound ==
  ASSUME TypeInv, RoundInv, HitTower PROVE roundActive
<1>1. /\ units \in Seq(Units) /\ first \in 1 .. Len(units) /\ alive[units[first].dst]
      /\ UnitAlive(units[first]) /\ AtEdge(units[first])
  BY HitFacts DEF HitTower, InCombat
<1>2. ~Parked(units[first])
  BY <1>1 DEF Parked
<1>3. QED
  BY <1>1, <1>2 DEF RoundInv

(* A unit the combat pass has passed is parked: it is destroyed or flies on.*)
LEMMA CombatRoundInv ==
  ASSUME TypeInv, RoundInv, DestroyStray \/ HitTower \/ FlyOn PROVE RoundInv'
<1>1. /\ units \in Seq(Units) /\ first \in 1 .. Len(units) /\ first' = first + 1
      /\ phase = "combat" /\ phase' = "combat" /\ UNCHANGED <<roundActive, winnerId>>
  BY DEF DestroyStray, HitTower, FlyOn, InCombat, towerVars, TypeInv, Typed
<1>2. \A t \in Towers : alive'[t] => alive[t]
  <2>1. CASE HitTower
    BY <2>1, HitFacts DEF TypeInv, Typed
  <2>2. CASE DestroyStray \/ FlyOn
    BY <2>2 DEF DestroyStray, FlyOn, towerVars
  <2>3. QED
    BY <2>1, <2>2
<1>3. /\ Len(units') = Len(units)
      /\ \A k \in 1 .. Len(units) : k # first => units'[k] = units[k]
  <2>1. CASE FlyOn
    BY <2>1 DEF FlyOn
  <2>2. CASE DestroyStray \/ HitTower
    BY <1>1, <2>2, DestroyFacts DEF DestroyStray, HitTower
  <2>3. QED
    BY <2>1, <2>2
<1>4. ASSUME NEW k \in 1 .. Len(units), k = first PROVE Parked(units[k])'
  <2>1. CASE FlyOn
    <3>1. UNCHANGED <<units, alive>>
      BY <2>1 DEF FlyOn, towerVars
    <3>2. Parked(units[k])
      BY <2>1, <1>4 DEF FlyOn, Parked, TargetGone
    <3>3. QED
      BY <3>1, <3>2 DEF Parked, UnitAlive, AtEdge, EdgeDistance
  <2>2. CASE DestroyStray \/ HitTower
    <3>1. units' = [units EXCEPT ![first] = Destroyed(units[first])]
      BY <2>2 DEF DestroyStray, HitTower
    <3>2. ~UnitAlive(units'[k])
      BY <1>1, <1>4, <3>1, DestroyFacts
    <3>3. QED
      BY <3>2 DEF Parked, UnitAlive
  <2>3. QED
    BY <2>1, <2>2
<1>5. ~roundActive => UNCHANGED alive
  <2>1. ~roundActive => ~HitTower
    BY HitOnlyInARound
  <2>2. DestroyStray \/ FlyOn => UNCHANGED alive
    BY DEF DestroyStray, FlyOn, towerVars
  <2>3. QED
    BY <2>1, <2>2
<1>6. ASSUME NEW k \in 1 .. Len(units), k # first, Parked(units[k]) PROVE Parked(units[k])'
  <2>1. units[k].dst \in Towers
    <3>1. units[k] \in Units
      BY <1>1
    <3>2. QED
      BY <3>1 DEF Units
  <2>2. QED
    BY <1>2, <1>3, <1>6, <2>1 DEF Parked, UnitAlive, AtEdge, EdgeDistance
<1>7. ASSUME NEW k \in 1 .. Len(units), k < first' PROVE Parked(units[k])'
  <2>1. k < first \/ k = first
    BY <1>1, <1>7 DEF TypeInv, Typed
  <2>2. k < first => k # first /\ Parked(units[k])
    BY <1>1 DEF RoundInv, TypeInv, Typed
  <2>3. QED
    BY <1>4, <1>6, <2>1, <2>2
<1>8. ~roundActive => Verdict' /\ \A k \in 1 .. Len(units) : Parked(units[k])'
  <2> SUFFICES ASSUME ~roundActive
               PROVE  Verdict' /\ \A k \in 1 .. Len(units) : Parked(units[k])'
    OBVIOUS
  <2>1. Verdict'
    BY <1>1, <1>5 DEF RoundInv, Verdict, AliveTowers
  <2>2. \A k \in 1 .. Len(units) : Parked(units[k])
    BY DEF RoundInv
  <2>3. \A k \in 1 .. Len(units) : Parked(units[k])'
    BY <1>4, <1>6, <2>2
  <2>4. QED
    BY <2>1, <2>3
<1>9. QED
  BY <1>1, <1>3, <1>7, <1>8 DEF RoundInv, BeforeCombat

(* The round check ends a decided round with the right verdict.             *)
LEMMA EndRoundInv ==
  ASSUME TypeInv, RoundInv, EndRound \/ KeepRound PROVE RoundInv'
<1>1. UNCHANGED <<alive, units>> /\ phase = "round" /\ phase' = "events"
  BY DEF EndRound, KeepRound, towerVars
<1>2. \A k \in 1 .. Len(units') : Parked(units[k])'
  BY <1>1 DEF RoundInv, Parked, UnitAlive, AtEdge, EdgeDistance
<1>3. CASE EndRound
  <2>1. roundActive' = FALSE /\ winnerId' = LastStanding
        /\ \A s, t \in AliveTowers : s = t
    BY <1>3 DEF EndRound, Decided
  <2>2. AliveTowers' = AliveTowers
    BY <1>1 DEF AliveTowers
  <2>3. Verdict'
    <3>1. CASE AliveTowers = {}
      BY <2>1, <2>2, <3>1 DEF Verdict, LastStanding
    <3>2. CASE AliveTowers # {}
      <4>1. LastStanding \in AliveTowers
        BY <3>2 DEF LastStanding
      <4>2. LastStanding # InvalidId
        BY <4>1 DEF AliveTowers, Towers, InvalidId
      <4>3. AliveTowers = {LastStanding}
        BY <2>1, <4>1
      <4>4. QED
        BY <2>1, <2>2, <4>2, <4>3 DEF Verdict
    <3>3. QED
      BY <3>1, <3>2
  <2>4. QED
    BY <1>1, <1>2, <2>1, <2>3 DEF RoundInv
<1>4. CASE KeepRound
  <2>1. UNCHANGED <<roundActive, winnerId>> /\ (roundActive => Contested)
    BY <1>4 DEF KeepRound, towerVars, Decided, Contested
  <2>2. Contested' = Contested /\ Verdict' = Verdict
    BY <1>1, <2>1 DEF Contested, Verdict, AliveTowers
  <2>3. QED
    BY <1>1, <1>2, <2>1, <2>2 DEF RoundInv
<1>5. QED
  BY <1>3, <1>4

(* RoundInv is inductive relative to TypeInv.                               *)
LEMMA NextRoundInv == TypeInv /\ RoundInv /\ [Next]_vars => RoundInv'
<1> SUFFICES ASSUME TypeInv, RoundInv, [Next]_vars PROVE RoundInv'
  OBVIOUS
<1>1. CASE \/ Input /\ ~PressF5
           \/ BeginUpdate \/ ConsumeCommands \/ ApplyHeal \/ IgnoreCommand
           \/ BeginAutoplay \/ NoAutoplay \/ (\E t \in Towers : AutoplayTower(t))
           \/ EndAutoplay \/ EndAutospawn \/ NextRow
  <2>1. UNCHANGED <<alive, roundActive, winnerId, units>>
        /\ phase \in BeforeCombat /\ phase' \in BeforeCombat
    BY <1>1 DEF Input, PressKey, ToggleAutoplay, ReceiveCommand, BeginUpdate,
       ConsumeCommands, ApplyHeal, IgnoreCommand, Applying, BeginAutoplay, NoAutoplay,
       AutoplayTower, EndAutoplay, EndAutospawn, NextRow, towerVars, BeforeCombat
  <2>2. QED
    BY <2>1, QuietRoundInv
<1>2. CASE PressF5 \/ ApplyReset
  <2>1. FreshTowers /\ phase' \in BeforeCombat
    BY <1>2 DEF PressF5, ApplyReset, Applying, BeforeCombat
  <2>2. QED
    BY <2>1, FreshRound DEF RoundInv, BeforeCombat
<1>3. CASE ApplyAttack
  <2>1. roundActive /\ roundActive' /\ UNCHANGED alive
        /\ phase \in BeforeCombat /\ phase' \in BeforeCombat
    BY <1>3 DEF ApplyAttack, Applying, towerVars, BeforeCombat
  <2>2. Contested' = Contested
    BY <2>1 DEF Contested, AliveTowers
  <2>3. QED
    BY <2>1, <2>2 DEF RoundInv, BeforeCombat
<1>4. CASE \E d \in Steps : Move(d)
  <2>1. /\ UNCHANGED <<alive, roundActive, winnerId>>
        /\ phase \in BeforeCombat /\ phase' \in BeforeCombat
    BY <1>4 DEF Move, towerVars, BeforeCombat
  <2>2. Contested' = Contested
    BY <2>1 DEF Contested, AliveTowers
  <2>3. CASE roundActive
    BY <2>1, <2>2, <2>3 DEF RoundInv, BeforeCombat
  <2>4. CASE ~roundActive
    <3>1. UNCHANGED units
      BY <1>4, <2>4 DEF Move, Moved
    <3>2. QED
      BY <2>1, <3>1, QuietRoundInv
  <2>5. QED
    BY <2>3, <2>4
<1>5. CASE CollidePair
  BY <1>5, CollideRoundInv
<1>6. CASE EndCollisions \/ EndCombat
  BY <1>6, ErasedRoundInv
<1>7. CASE DestroyStray \/ HitTower \/ FlyOn
  BY <1>7, CombatRoundInv
<1>8. CASE EndRound \/ KeepRound
  BY <1>8, EndRoundInv
<1>9. CASE UNCHANGED vars
  BY <1>9 DEF vars, towerVars, loopVars, RoundInv, Contested, Verdict, AliveTowers,
              Parked, UnitAlive, AtEdge, EdgeDistance
<1>10. QED
  BY <1>1, <1>2, <1>3, <1>4, <1>5, <1>6, <1>7, <1>8, <1>9 DEF Next, Update

(* The inductive invariant holds in every reachable state.                  *)
THEOREM Invariance == Spec => []IInv
<1>1. Init => IInv
  BY InitTypeInv, InitRoundInv DEF IInv, TypeInv
<1>2. IInv /\ [Next]_vars => IInv'
  BY NextTypeInv, NextRoundInv DEF IInv, TypeInv
<1>3. QED
  BY <1>1, <1>2, PTL DEF Spec

(* The verdict of a round always agrees with the towers that stand.         *)
THEOREM RoundsAreDecided == Spec => []RoundDecided
<1>1. IInv => RoundDecided
  BY DEF IInv, RoundInv, RoundDecided, BeforeCombat, Contested, Verdict
<1>2. QED
  BY <1>1, Invariance, PTL

-----------------------------------------------------------------------------
(* What a step may do to the towers.                                        *)
LEMMA TowerSteps ==
  ASSUME TypeInv, Next
  PROVE  \/ UNCHANGED towerVars
         \/ (PressF5 \/ ApplyReset) /\ FreshTowers /\ units' = <<>>
         \/ ApplyHeal
         \/ HitTower
         \/ EndRound
<1>1. CASE PressF5 \/ ApplyReset
  BY <1>1 DEF PressF5, ApplyReset
<1>2. CASE Input /\ ~PressF5
  BY <1>2 DEF Input, PressKey, ToggleAutoplay, ReceiveCommand
<1>3. CASE Update /\ ~ApplyReset /\ ~ApplyHeal /\ ~HitTower /\ ~EndRound
  BY <1>3 DEF Update, BeginUpdate, ConsumeCommands, ApplyAttack, IgnoreCommand,
     BeginAutoplay, NoAutoplay, AutoplayTower, EndAutoplay, EndAutospawn, Move,
     CollidePair, NextRow, EndCollisions, DestroyStray, FlyOn, EndCombat, KeepRound
<1>4. QED
  BY <1>1, <1>2, <1>3 DEF Next, Input

(* Nothing but a reset touches a tower or the verdict of an ended round.    *)
THEOREM VerdictsStand == Spec => VerdictStands
<1>1. ASSUME IInv, Next, ~roundActive, ~roundActive' PROVE UNCHANGED towerVars
  <2>1. TypeInv /\ RoundInv
    BY <1>1 DEF IInv, TypeInv
  <2>2. ~FreshTowers
    BY <1>1 DEF FreshTowers
  <2>3. ~ApplyHeal /\ ~EndRound
    BY <1>1 DEF ApplyHeal, EndRound
  <2>4. ~HitTower
    BY <1>1, <2>1, HitOnlyInARound
  <2>5. QED
    BY <1>1, <2>1, <2>2, <2>3, <2>4, TowerSteps
<1>2. IInv /\ [Next]_vars => [~roundActive /\ ~roundActive' => UNCHANGED towerVars]_vars
  BY <1>1
<1>3. QED
  BY <1>2, Invariance, PTL DEF VerdictStands, Spec

(* A fallen tower stands up only in a fresh round.                          *)
THEOREM NobodyRevives == Spec => NoRevival
<1> DEFINE Revival == \E t \in Towers : hp[t] = 0 /\ hp'[t] > 0
           Fresh == /\ \A t \in Towers : hp'[t] = MaxHp
                    /\ units' = <<>> /\ roundActive'
<1>1. ASSUME TypeInv, Next, Revival PROVE Fresh
  <2>1. PICK t \in Towers : hp[t] = 0 /\ hp'[t] > 0
    BY <1>1
  <2>2. CASE UNCHANGED towerVars \/ EndRound
    <3>1. hp'[t] = hp[t]
      BY <2>2 DEF towerVars, EndRound
    <3>2. QED
      BY <2>1, <3>1
  <2>3. CASE FreshTowers /\ units' = <<>>
    BY <2>3 DEF FreshTowers
  <2>4. CASE ApplyHeal
    <3>1. alive[Head(pending).target]
      BY <2>4 DEF ApplyHeal, CanHeal
    <3>2. ~alive[t]
      BY <1>1, <2>1 DEF TypeInv, Typed
    <3>3. hp'[t] = hp[t]
      BY <1>1, <2>1, <2>4, <3>1, <3>2 DEF ApplyHeal, TypeInv, Typed
    <3>4. QED
      BY <2>1, <3>3
  <2>5. CASE HitTower
    <3>1. ~alive[t]
      BY <1>1, <2>1 DEF TypeInv, Typed
    <3>2. alive[units[first].dst]
      BY <1>1, <2>5, HitFacts
    <3>3. hp'[t] = hp[t]
      BY <1>1, <2>1, <2>5, <3>1, <3>2 DEF HitTower, TypeInv, Typed
    <3>4. QED
      BY <2>1, <3>3
  <2>6. QED
    BY <1>1, <2>2, <2>3, <2>4, <2>5, TowerSteps
<1>2. TypeInv /\ [Next]_vars => [Revival => Fresh]_vars
  BY <1>1
<1>3. IInv => TypeInv
  BY DEF IInv, TypeInv
<1>4. QED
  BY <1>2, <1>3, Invariance, PTL DEF NoRevival, Spec

-----------------------------------------------------------------------------
(* What a step may do to the field.                                         *)
LEMMA FieldSteps ==
  ASSUME TypeInv, Next
  PROVE  \/ UNCHANGED units
         \/ units' = <<>>
         \/ ApplyAttack
         \/ \E d \in Steps : phase = "move" /\ units' = Moved(d)
         \/ CollidePair
         \/ EraseDead
         \/ first \in 1 .. Len(units) /\ units' = [units EXCEPT ![first] = Destroyed(@)]
<1>1. CASE Input
  BY <1>1 DEF Input, PressKey, PressF5, ToggleAutoplay, ReceiveCommand
<1>2. CASE \/ BeginUpdate \/ ConsumeCommands \/ ApplyReset \/ ApplyHeal \/ IgnoreCommand
           \/ BeginAutoplay \/ NoAutoplay \/ (\E t \in Towers : AutoplayTower(t))
           \/ EndAutoplay \/ EndAutospawn \/ NextRow \/ FlyOn \/ EndRound \/ KeepRound
  BY <1>2 DEF BeginUpdate, ConsumeCommands, ApplyReset, ApplyHeal, IgnoreCommand,
     BeginAutoplay, NoAutoplay, AutoplayTower, EndAutoplay, EndAutospawn, NextRow, FlyOn,
     EndRound, KeepRound
<1>3. CASE \E d \in Steps : Move(d)
  BY <1>3 DEF Move
<1>4. CASE EndCollisions \/ EndCombat
  BY <1>4 DEF EndCollisions, EndCombat
<1>5. CASE DestroyStray \/ HitTower
  <2>1. first \in 1 .. Len(units)
    BY <1>5 DEF DestroyStray, HitTower, InCombat, TypeInv, Typed
  <2>2. units' = [units EXCEPT ![first] = Destroyed(@)]
    BY <1>5 DEF DestroyStray, HitTower
  <2>3. QED
    BY <2>1, <2>2
<1>6. QED
  BY <1>1, <1>2, <1>3, <1>4, <1>5 DEF Next, Update

(* The field never holds more than maxUnits units.                          *)
THEOREM CapIsRespected == Spec => []CapRespected
<1>1. ASSUME Init PROVE CapRespected
  <2>1. Len(units) = 0
    BY <1>1 DEF Init
  <2>2. QED
    BY <2>1, TowersAssumption DEF CapRespected
<1>2. ASSUME TypeInv, Next, CapRespected PROVE CapRespected'
  <2>0. units \in Seq(Units) /\ Len(units) \in Nat /\ Len(units) <= MaxUnits
    BY <1>2 DEF TypeInv, Typed, CapRespected
  <2>1. CASE UNCHANGED units
    BY <2>0, <2>1 DEF CapRespected
  <2>2. CASE units' = <<>>
    BY <2>2, TowersAssumption DEF CapRespected
  <2>3. CASE ApplyAttack
    <3>1. PICK spawned \in Nat : spawned <= Room /\ Len(units') = Len(units) + spawned
      BY <1>2, <2>3, AttackFacts
    <3>2. QED
      BY <2>0, <3>1, TowersAssumption DEF CapRespected, Room, Larger
  <2>4. CASE \E d \in Steps : phase = "move" /\ units' = Moved(d)
    BY <2>0, <2>4, MovedFacts DEF CapRespected
  <2>5. CASE CollidePair
    BY <1>2, <2>0, <2>5, CollideFacts DEF CapRespected
  <2>6. CASE EraseDead
    <3>1. units' \in Seq(Units) /\ Len(units') <= Len(units)
      BY <2>0, <2>6, EraseFacts
    <3>2. QED
      BY <2>0, <3>1, TowersAssumption DEF CapRespected
  <2>7. CASE first \in 1 .. Len(units) /\ units' = [units EXCEPT ![first] = Destroyed(@)]
    BY <2>0, <2>7, DestroyFacts DEF CapRespected
  <2>8. QED
    BY <1>2, <2>1, <2>2, <2>3, <2>4, <2>5, <2>6, <2>7, FieldSteps
<1>3. CapRespected /\ UNCHANGED vars => CapRespected'
  BY DEF CapRespected, vars
<1>4. IInv => TypeInv
  BY DEF IInv, TypeInv
<1>5. TypeInv /\ CapRespected /\ [Next]_vars => CapRespected'
  BY <1>2, <1>3
<1>6. QED
  BY <1>1, <1>4, <1>5, Invariance, PTL DEF Spec

(* No unit is ever sent at its own tower.                                   *)
THEOREM UnitsLeaveHome == Spec => []LanesJoinTowers
<1>1. ASSUME Init PROVE LanesJoinTowers
  BY <1>1 DEF Init, LanesJoinTowers
<1>2. ASSUME TypeInv, Next, LanesJoinTowers PROVE LanesJoinTowers'
  <2>0. units \in Seq(Units) /\ \A k \in 1 .. Len(units) : units[k].src # units[k].dst
    BY <1>2 DEF TypeInv, Typed, LanesJoinTowers
  <2>1. CASE UNCHANGED units
    BY <2>0, <2>1 DEF LanesJoinTowers
  <2>2. CASE units' = <<>>
    BY <2>2 DEF LanesJoinTowers
  <2>3. CASE ApplyAttack
    <3> DEFINE c == Head(pending)
    <3>1. c \in Commands /\ c.type = "SpawnAttack"
          /\ \A k \in 1 .. Len(units') :
               \/ k \in 1 .. Len(units) /\ units'[k] = units[k]
               \/ units'[k].src = c.source /\ units'[k].dst = c.target
      BY <1>2, <2>3, AttackFacts
    <3> HIDE DEF c
    <3>2. c.source # c.target
      BY <3>1, CommandFacts
    <3>3. QED
      BY <2>0, <3>1, <3>2 DEF LanesJoinTowers
  <2>4. CASE \E d \in Steps : phase = "move" /\ units' = Moved(d)
    <3>1. PICK d \in Steps : units' = Moved(d)
      BY <2>4
    <3>2. Len(units') = Len(units) /\ \A k \in 1 .. Len(units) :
            units'[k].src = units[k].src /\ units'[k].dst = units[k].dst
      BY <2>0, <3>1, MovedFacts
    <3>3. QED
      BY <2>0, <3>2 DEF LanesJoinTowers
  <2>5. CASE CollidePair
    <3>1. Len(units') = Len(units)
          /\ \A k \in 1 .. Len(units) : units'[k] \in {units[k], Hurt(units[k], 1)}
      BY <1>2, <2>5, CollideFacts
    <3>2. \A u \in Units : Hurt(u, 1).src = u.src /\ Hurt(u, 1).dst = u.dst
      BY HurtFacts
    <3>3. ASSUME NEW k \in 1 .. Len(units')
          PROVE  units'[k].src = units[k].src /\ units'[k].dst = units[k].dst
      BY <2>0, <3>1, <3>2
    <3>4. QED
      BY <2>0, <3>1, <3>3 DEF LanesJoinTowers
  <2>6. CASE EraseDead
    <3>1. \A x \in 1 .. Len(units') : \E k \in 1 .. Len(units) : units'[x] = units[k]
      BY <2>0, <2>6, EraseFacts
    <3>2. QED
      BY <2>0, <3>1 DEF LanesJoinTowers
  <2>7. CASE first \in 1 .. Len(units) /\ units' = [units EXCEPT ![first] = Destroyed(@)]
    <3>1. units[first] \in Units
      BY <2>0, <2>7
    <3>2. /\ Destroyed(units[first]).src = units[first].src
          /\ Destroyed(units[first]).dst = units[first].dst
      BY <3>1, HurtFacts
    <3>3. QED
      BY <2>0, <2>7, <3>2 DEF LanesJoinTowers
  <2>8. QED
    BY <1>2, <2>1, <2>2, <2>3, <2>4, <2>5, <2>6, <2>7, FieldSteps
<1>3. LanesJoinTowers /\ UNCHANGED vars => LanesJoinTowers'
  BY DEF LanesJoinTowers, vars
<1>4. IInv => TypeInv
  BY DEF IInv, TypeInv
<1>5. TypeInv /\ LanesJoinTowers /\ [Next]_vars => LanesJoinTowers'
  BY <1>2, <1>3
<1>6. QED
  BY <1>1, <1>4, <1>5, Invariance, PTL DEF Spec

(* Type correctness as the runs check it: typed variables, the cap, lanes.  *)
THEOREM TypeCorrect == Spec => []TypeOK
<1>1. Typed /\ CapRespected /\ LanesJoinTowers => TypeOK
  BY DEF TypeOK
<1>2. QED
  BY <1>1, VariablesTyped, CapIsRespected, UnitsLeaveHome, PTL

-----------------------------------------------------------------------------
(* The announcements of falls.                                              *)

(* An event that announces no fall may always be appended.                  *)
LEMMA AnnounceOther ==
  ASSUME TypeInv, FallAnnouncedOnce, UNCHANGED alive, NEW e \in Events,
         e.type # "TowerDestroyed", events' = Append(events, e)
  PROVE  FallAnnouncedOnce'
<1>1. events \in Seq(Events)
  BY DEF TypeInv, Typed
<1>2. Len(events') = Len(events) + 1 /\ events'[Len(events) + 1] = e
      /\ \A k \in 1 .. Len(events) : events'[k] = events[k]
  BY <1>1
<1>3. \A k \in 1 .. Len(events') : k \in 1 .. Len(events) \/ k = Len(events) + 1
  BY <1>1, <1>2
<1>4. QED
  BY <1>2, <1>3 DEF FallAnnouncedOnce

(* A blow announces the fall of a tower that stood until then.              *)
LEMMA AnnounceFall ==
  ASSUME TypeInv, FallAnnouncedOnce, HitTower
  PROVE  FallAnnouncedOnce'
<1> DEFINE t == units[first].dst
           damage == Event("TowerDamaged", t, UnitDamage(units[first].kind))
           fall == Event("TowerDestroyed", t, 0)
<1>1. events \in Seq(Events) /\ Len(events) \in Nat
  BY DEF TypeInv, Typed
<1>2. t \in Towers /\ alive[t] /\ alive' = [alive EXCEPT ![t] = (hp'[t] # 0)]
  BY HitFacts
<1>3. events' = IF alive'[t] THEN Append(events, damage)
                ELSE Append(Append(events, damage), fall)
  BY DEF HitTower
<1>4. damage.type = "TowerDamaged" /\ fall.type = "TowerDestroyed" /\ fall.tower = t
  BY DEF Event
<1>5. alive \in [Towers -> BOOLEAN]
  BY DEF TypeInv, Typed
<1> HIDE DEF t, damage, fall
<1>6. \A k \in 1 .. Len(events) :
         events[k].type = "TowerDestroyed" =>
           /\ events[k].tower # t
           /\ events[k].tower \in Towers
           /\ ~alive[events[k].tower]
  <2>1. \A k \in 1 .. Len(events) :
          events[k].type = "TowerDestroyed" => events[k].tower \in Towers
    <3>1. \A k \in 1 .. Len(events) : events[k] \in Events
      BY <1>1
    <3>2. \A e \in Events : e.type = "TowerDestroyed" => e.tower \in Towers
      BY DEF Events
    <3>3. QED
      BY <3>1, <3>2
  <2>2. \A k \in 1 .. Len(events) :
          events[k].type = "TowerDestroyed" => ~alive[events[k].tower]
    BY DEF FallAnnouncedOnce
  <2>3. QED
    BY <1>2, <2>1, <2>2
<1>7. \A k \in 1 .. Len(events) :
         events[k].type = "TowerDestroyed" => ~alive'[events[k].tower]
  BY <1>2, <1>5, <1>6
<1>8. \A k, l \in 1 .. Len(events) :
         events[k] = events[l] /\ events[k].type = "TowerDestroyed" => k = l
  BY DEF FallAnnouncedOnce
<1>9. CASE alive'[t]
  <2>1. Len(events') = Len(events) + 1 /\ events'[Len(events) + 1] = damage
        /\ \A k \in 1 .. Len(events) : events'[k] = events[k]
    BY <1>1, <1>3, <1>9
  <2>2. \A k \in 1 .. Len(events') : k \in 1 .. Len(events) \/ k = Len(events) + 1
    BY <1>1, <2>1
  <2>3. QED
    BY <1>4, <1>7, <1>8, <2>1, <2>2 DEF FallAnnouncedOnce
<1>10. CASE ~alive'[t]
  <2>1. /\ Len(events') = Len(events) + 2
        /\ events'[Len(events) + 1] = damage /\ events'[Len(events) + 2] = fall
        /\ \A k \in 1 .. Len(events) : events'[k] = events[k]
    BY <1>1, <1>3, <1>10
  <2>2. \A k \in 1 .. Len(events') :
           k \in 1 .. Len(events) \/ k = Len(events) + 1 \/ k = Len(events) + 2
    BY <1>1, <2>1
  <2>3. ASSUME NEW k \in 1 .. Len(events'), events'[k].type = "TowerDestroyed"
        PROVE  ~alive'[events'[k].tower]
    BY <1>4, <1>7, <1>10, <2>1, <2>2, <2>3
  <2>4. ASSUME NEW k \in 1 .. Len(events'), NEW l \in 1 .. Len(events'),
               events'[k] = events'[l], events'[k].type = "TowerDestroyed"
        PROVE  k = l
    BY <1>4, <1>6, <1>8, <2>1, <2>2, <2>4
  <2>5. QED
    BY <2>3, <2>4 DEF FallAnnouncedOnce
<1>11. QED
  BY <1>9, <1>10

(* A fall is in the events of a frame at most once, and never for a tower   *)
(* that stands.                                                             *)
THEOREM FallsAnnouncedOnce == Spec => []FallAnnouncedOnce
<1>1. ASSUME Init PROVE FallAnnouncedOnce
  BY <1>1 DEF Init, FallAnnouncedOnce
<1>2. ASSUME TypeInv, Next, FallAnnouncedOnce PROVE FallAnnouncedOnce'
  <2> USE <1>2
  <2>1. CASE UNCHANGED <<events, alive>>
    BY <2>1 DEF FallAnnouncedOnce
  <2>2. CASE events' = <<>>
    BY <2>2 DEF FallAnnouncedOnce
  <2>3. CASE ApplyHeal
    <3>1. Head(pending).target \in Towers /\ Head(pending).count \in Nat
      BY <2>3, BatchFacts, CommandFacts DEF ApplyHeal
    <3>2. Event("TowerHealed", Head(pending).target, Head(pending).count) \in Events
      BY <3>1, EventFacts DEF EventTypes
    <3>3. QED
      BY <2>3, <3>2, AnnounceOther DEF ApplyHeal, Event
  <2>4. CASE ApplyAttack
    <3> DEFINE c == Head(pending)
               spawned == Smaller(c.count, Room)
    <3>1. c \in Commands /\ c.type = "SpawnAttack" /\ spawned \in Nat
      BY <2>4, AttackFacts
    <3>2. /\ events' \in {events, Append(events, Event("UnitSpawned", c.source, spawned))}
          /\ UNCHANGED alive
      BY <2>4 DEF ApplyAttack, towerVars
    <3> HIDE DEF c, spawned
    <3>3. Event("UnitSpawned", c.source, spawned) \in Events
      <4>1. c.source \in Towers
        BY <3>1, CommandFacts
      <4>2. QED
        BY <3>1, <4>1, EventFacts DEF EventTypes
    <3>4. QED
      BY <2>1, <3>2, <3>3, AnnounceOther DEF Event
  <2>5. CASE CollidePair
    <3>1. /\ UNCHANGED alive
          /\ \/ UNCHANGED events
             \/ \E n \in {1, 2} :
                  events' = Append(events, Event("UnitDestroyed", InvalidId, n))
      BY <2>5 DEF CollidePair, towerVars
    <3>2. \A n \in {1, 2} : Event("UnitDestroyed", InvalidId, n) \in Events
      BY DEF Event, Events, EventTypes
    <3>3. QED
      BY <2>1, <3>1, <3>2, AnnounceOther DEF Event
  <2>6. CASE EndRound
    <3>1. Event("RoundEnded", LastStanding, 0) \in Events
      BY DEF Event, Events, EventTypes, LastStanding, AliveTowers
    <3>2. QED
      BY <2>6, <3>1, AnnounceOther DEF EndRound, Event
  <2>7. CASE HitTower
    BY <2>7, AnnounceFall
  <2>8. QED
    <3>1. CASE PressF5 \/ BeginUpdate \/ ApplyReset
      BY <2>2, <3>1 DEF PressF5, BeginUpdate, ApplyReset
    <3>2. CASE Input /\ ~PressF5
      BY <2>1, <3>2 DEF Input, PressKey, ToggleAutoplay, ReceiveCommand, towerVars
    <3>3. CASE Update /\ ~BeginUpdate /\ ~ApplyReset /\ ~ApplyHeal /\ ~ApplyAttack
               /\ ~CollidePair /\ ~HitTower /\ ~EndRound
      BY <2>1, <3>3 DEF Update, ConsumeCommands, IgnoreCommand, BeginAutoplay,
         NoAutoplay, AutoplayTower, EndAutoplay, EndAutospawn, Move, NextRow,
         EndCollisions, DestroyStray, FlyOn, EndCombat, KeepRound, towerVars
    <3>4. QED
      BY <2>3, <2>4, <2>5, <2>6, <2>7, <3>1, <3>2, <3>3 DEF Next, Input
<1>3. FallAnnouncedOnce /\ UNCHANGED vars => FallAnnouncedOnce'
  BY DEF FallAnnouncedOnce, vars, towerVars
<1>4. IInv => TypeInv
  BY DEF IInv, TypeInv
<1>5. TypeInv /\ FallAnnouncedOnce /\ [Next]_vars => FallAnnouncedOnce'
  BY <1>2, <1>3
<1>6. QED
  BY <1>1, <1>4, <1>5, Invariance, PTL DEF Spec

-----------------------------------------------------------------------------
(* What a contact costs *)

(* No unit has more health than its kind has when it is spawned.            *)
Fit(u) == u.health <= UnitHealth[u.kind]
NoneHealthier == \A k \in 1 .. Len(units) : Fit(units[k])

(* The collision pass, pair by pair: of the pairs it is through with, those *)
(* that still touch have both paid.                                         *)
Paid(u) == u.health < UnitHealth[u.kind]
Touching(u, v) == UnitAlive(u) /\ UnitAlive(v) /\ Opposed(u, v) /\ InContact(u, v)
Through(k, l) == k < l /\ (k < first \/ (k = first /\ l < second))
ContactInv ==
  phase = "collide" =>
    \A k, l \in 1 .. Len(units) :
      Through(k, l) /\ Touching(units[k], units[l]) => Paid(units[k]) /\ Paid(units[l])

(* A hit raises nobody, moves nobody, and costs the living a point.         *)
LEMMA HitHealth ==
  ASSUME NEW u \in Units, NEW w \in {u, Hurt(u, 1)}
  PROVE  /\ w.kind = u.kind /\ w.src = u.src /\ w.dst = u.dst /\ w.pos = u.pos
         /\ UnitAlive(w) => UnitAlive(u)
         /\ Fit(u) => Fit(w)
         /\ Paid(u) => Paid(w)
         /\ w = Hurt(u, 1) /\ UnitAlive(u) /\ Fit(u) => Paid(w)
<1>1. /\ w.kind = u.kind /\ w.src = u.src /\ w.dst = u.dst /\ w.pos = u.pos
      /\ w.health = u.health \/ w.health = Larger(0, u.health - 1)
      /\ w = Hurt(u, 1) => w.health = Larger(0, u.health - 1)
  BY HurtFacts
<1>2. u.health \in Nat /\ u.kind \in Kinds
  BY DEF Units
<1>3. UnitHealth[u.kind] \in Nat \ {0}
  BY <1>2, UnitHealthType
<1> DEFINE most == UnitHealth[u.kind]
<1>4. w.health \in Nat /\ w.health <= u.health
  BY <1>1, <1>2 DEF Larger
<1>5. w = Hurt(u, 1) /\ u.health > 0 => w.health < u.health
  BY <1>1, <1>2 DEF Larger
<1> HIDE DEF most
<1>6. most \in Nat /\ UnitHealth[u.kind] = most /\ UnitHealth[w.kind] = most
  BY <1>1, <1>3 DEF most
<1>7. QED
  BY <1>1, <1>2, <1>4, <1>5, <1>6 DEF UnitAlive, Fit, Paid

(* A volley is of units that are as healthy as their kind.                  *)
LEMMA AttackFit ==
  ASSUME TypeInv, ApplyAttack, NoneHealthier PROVE NoneHealthier'
<1> DEFINE c == Head(pending)
           spawned == Smaller(c.count, Room)
           volley == [k \in 1 .. spawned |-> SpawnedUnit(c, k)]
<1>1. c \in Commands /\ c.type = "SpawnAttack" /\ c.count \in Nat
  BY BatchFacts, CommandFacts DEF ApplyAttack
<1>2. spawned \in Nat /\ units \in Seq(Units) /\ Len(units) \in Nat
  BY <1>1, TowersAssumption DEF TypeInv, Typed, Smaller, Room, Larger
<1>3. units' = units \o volley
  BY DEF ApplyAttack
<1> HIDE DEF c, spawned
<1>4. ASSUME NEW k \in 1 .. spawned
      PROVE  SpawnedUnit(c, k) \in Units /\ Fit(SpawnedUnit(c, k))
  <2> DEFINE kind == KindOf(donationStreaks[<<c.source, c.target>>] + k)
             u == SpawnedUnit(c, k)
  <2>1. k \in Nat \ {0}
    BY <1>2
  <2>2. u \in Units
    BY <1>1, <2>1, SpawnedUnitFacts
  <2>3. u.kind = kind /\ u.health = UnitHealth[kind]
    BY DEF SpawnedUnit
  <2> HIDE DEF kind, u
  <2>4. u.health \in Nat
    BY <2>2 DEF Units
  <2>5. Fit(u)
    BY <2>3, <2>4 DEF Fit
  <2>6. QED
    BY <2>2, <2>5 DEF u
<1>5. volley \in Seq(Units) /\ Len(volley) = spawned /\ \A k \in 1 .. spawned : Fit(volley[k])
  <2>1. \A k \in 1 .. spawned : volley[k] = SpawnedUnit(c, k)
    OBVIOUS
  <2>2. volley \in Seq(Units) /\ Len(volley) = spawned
    BY <1>2, <1>4
  <2> HIDE DEF volley
  <2>3. QED
    BY <1>4, <2>1, <2>2
<1> HIDE DEF volley
<1>6. /\ Len(units \o volley) = Len(units) + spawned
      /\ \A k \in 1 .. Len(units) + spawned :
           (units \o volley)[k] = IF k <= Len(units) THEN units[k]
                                  ELSE volley[k - Len(units)]
  BY <1>2, <1>5, ConcatProperties
<1>7. ASSUME NEW k \in 1 .. Len(units) + spawned PROVE Fit((units \o volley)[k])
  <2>1. CASE k <= Len(units)
    <3>1. (units \o volley)[k] = units[k] /\ k \in 1 .. Len(units)
      BY <1>2, <1>6, <2>1
    <3>2. QED
      BY <3>1 DEF NoneHealthier
  <2>2. CASE ~(k <= Len(units))
    <3>1. (units \o volley)[k] = volley[k - Len(units)] /\ k - Len(units) \in 1 .. spawned
      BY <1>2, <1>6, <2>2
    <3>2. QED
      BY <1>5, <3>1
  <2>3. QED
    BY <2>1, <2>2
<1>8. QED
  BY <1>3, <1>6, <1>7 DEF NoneHealthier

(* No step heals a unit.                                                    *)
LEMMA NextNoneHealthier ==
  ASSUME TypeInv, NoneHealthier, [Next]_vars PROVE NoneHealthier'
<1>0. units \in Seq(Units) /\ Len(units) \in Nat
  BY DEF TypeInv, Typed
<1>1. CASE UNCHANGED units
  BY <1>1 DEF NoneHealthier, Fit
<1>2. CASE units' = <<>>
  <2>1. Len(<<>>) = 0
    OBVIOUS
  <2>2. QED
    BY <1>2, <2>1 DEF NoneHealthier
<1>3. CASE ApplyAttack
  BY <1>3, AttackFit
<1>4. CASE \E d \in Steps : phase = "move" /\ units' = Moved(d)
  <2>1. PICK d \in Steps : units' = Moved(d)
    BY <1>4
  <2>2. Len(units') = Len(units) /\ \A k \in 1 .. Len(units) :
          units'[k].kind = units[k].kind /\ units'[k].health = units[k].health
    BY <1>0, <2>1, MovedFacts
  <2>3. QED
    BY <2>2 DEF NoneHealthier, Fit
<1>5. CASE CollidePair
  <2>1. Len(units') = Len(units)
        /\ \A k \in 1 .. Len(units) : units'[k] \in {units[k], Hurt(units[k], 1)}
    BY <1>5, CollideFacts
  <2>2. ASSUME NEW k \in 1 .. Len(units) PROVE Fit(units'[k])
    <3>1. units[k] \in Units /\ Fit(units[k])
      BY <1>0 DEF NoneHealthier
    <3>2. QED
      BY <2>1, <3>1, HitHealth
  <2>3. QED
    BY <2>1, <2>2 DEF NoneHealthier
<1>6. CASE EraseDead
  <2>1. \A x \in 1 .. Len(units') : \E k \in 1 .. Len(units) : units'[x] = units[k]
    BY <1>0, <1>6, EraseFacts
  <2>2. QED
    BY <2>1 DEF NoneHealthier
<1>7. CASE first \in 1 .. Len(units) /\ units' = [units EXCEPT ![first] = Destroyed(@)]
  <2>1. units[first] \in Units
    BY <1>0, <1>7
  <2>2. Destroyed(units[first]).kind \in Kinds /\ Destroyed(units[first]).health = 0
    BY <2>1, HurtFacts DEF Units
  <2>3. Fit(Destroyed(units[first]))
    BY <2>2, UnitHealthType DEF Fit
  <2>4. Len(units') = Len(units) /\ \A k \in 1 .. Len(units) :
          units'[k] = units[k] \/ units'[k] = Destroyed(units[first])
    BY <1>0, <1>7
  <2>5. QED
    BY <2>3, <2>4 DEF NoneHealthier
<1>8. CASE UNCHANGED vars
  BY <1>1, <1>8 DEF vars
<1>9. QED
  BY <1>1, <1>2, <1>3, <1>4, <1>5, <1>6, <1>7, <1>8, FieldSteps

(* One pair more: what touched before and still does has paid already, and  *)
(* the pair itself pays now.                                                *)
LEMMA CollideContact ==
  ASSUME TypeInv, NoneHealthier, ContactInv, CollidePair PROVE ContactInv'
<1>1. /\ first \in 1 .. Len(units) /\ second \in 1 .. Len(units) /\ first < second
      /\ Len(units') = Len(units) /\ Len(units) \in Nat
      /\ \A k \in 1 .. Len(units) : units[k] \in Units
      /\ \A k \in 1 .. Len(units) : units'[k] \in {units[k], Hurt(units[k], 1)}
  BY CollideFacts DEF TypeInv, Typed
<1>2. first' = first /\ second' = second + 1 /\ phase = "collide"
  BY DEF CollidePair
<1>3. ASSUME NEW k \in 1 .. Len(units), NEW l \in 1 .. Len(units),
             Touching(units'[k], units'[l])
      PROVE  Touching(units[k], units[l])
  <2> DEFINE u == units[k]
             v == units[l]
             x == units'[k]
             y == units'[l]
  <2>1. u \in Units /\ v \in Units /\ x \in {u, Hurt(u, 1)} /\ y \in {v, Hurt(v, 1)}
    BY <1>1
  <2>2. Touching(x, y)
    BY <1>3
  <2> HIDE DEF u, v, x, y
  <2>3. x.src = u.src /\ x.dst = u.dst /\ x.pos = u.pos /\ (UnitAlive(x) => UnitAlive(u))
    BY <2>1, HitHealth
  <2>4. y.src = v.src /\ y.dst = v.dst /\ y.pos = v.pos /\ (UnitAlive(y) => UnitAlive(v))
    BY <2>1, HitHealth
  <2>5. Touching(u, v)
    BY <2>2, <2>3, <2>4 DEF Touching, Opposed, InContact, Gap
  <2>6. QED
    BY <2>5 DEF u, v
<1>4. ASSUME NEW k \in 1 .. Len(units), Paid(units[k]) PROVE Paid(units'[k])
  BY <1>1, <1>4, HitHealth
<1>5. ASSUME Touching(units[first], units[second])
      PROVE  Paid(units'[first]) /\ Paid(units'[second])
  <2>1. Meets(units[first], units[second])
    BY <1>5 DEF Touching, Meets
  <2>2. units' = [units EXCEPT ![first] = Hurt(units[first], 1),
                               ![second] = Hurt(units[second], 1)]
    BY <2>1 DEF CollidePair
  <2>3. units'[first] = Hurt(units[first], 1) /\ units'[second] = Hurt(units[second], 1)
    BY <1>1, <2>2 DEF TypeInv, Typed
  <2>4. /\ Fit(units[first]) /\ Fit(units[second])
        /\ UnitAlive(units[first]) /\ UnitAlive(units[second])
    BY <1>1, <1>5 DEF NoneHealthier, Touching
  <2>5. units[first] \in Units /\ units[second] \in Units
    BY <1>1
  <2>6. Paid(units'[first])
    BY <2>3, <2>4, <2>5, HitHealth
  <2>7. Paid(units'[second])
    BY <2>3, <2>4, <2>5, HitHealth
  <2>8. QED
    BY <2>6, <2>7
<1>6. ASSUME NEW k \in 1 .. Len(units), NEW l \in 1 .. Len(units),
             Through(k, l)', Touching(units'[k], units'[l])
      PROVE  Paid(units'[k]) /\ Paid(units'[l])
  <2>1. Through(k, l) \/ (k = first /\ l = second)
    BY <1>1, <1>2, <1>6 DEF Through
  <2>2. Touching(units[k], units[l])
    BY <1>3, <1>6
  <2>3. CASE Through(k, l)
    <3>1. Paid(units[k]) /\ Paid(units[l])
      BY <1>2, <2>2, <2>3 DEF ContactInv
    <3>2. QED
      BY <1>4, <3>1
  <2>4. CASE k = first /\ l = second
    BY <1>5, <2>2, <2>4
  <2>5. QED
    BY <2>1, <2>3, <2>4
<1>7. ASSUME NEW k \in 1 .. Len(units'), NEW l \in 1 .. Len(units'),
             Through(k, l)', Touching(units'[k], units'[l])
      PROVE  Paid(units'[k]) /\ Paid(units'[l])
  <2>1. k \in 1 .. Len(units) /\ l \in 1 .. Len(units)
    BY <1>1
  <2>2. QED
    BY <1>6, <1>7, <2>1
<1>8. QED
  BY <1>7 DEF ContactInv, Touching, Paid, UnitAlive, Opposed, InContact, Gap

(* A row is left when there is no pair in it any more, or when its unit was *)
(* dead as it began.                                                        *)
LEMMA RowContact ==
  ASSUME TypeInv, ContactInv, NextRow PROVE ContactInv'
<1>1. /\ units \in Seq(Units) /\ Len(units) \in Nat /\ first \in Nat /\ second \in Nat
      /\ UNCHANGED <<units, phase>> /\ phase = "collide" /\ first < second
      /\ first' = first + 1 /\ second' = first + 2
  BY DEF NextRow, TypeInv, Typed, LoopInv
<1>2. ASSUME NEW k \in 1 .. Len(units), NEW l \in 1 .. Len(units),
             Through(k, l)', Touching(units[k], units[l])
      PROVE  Through(k, l)
  <2>1. k < l /\ (k < first \/ k = first)
    BY <1>1, <1>2 DEF Through
  <2>2. CASE k < first
    BY <2>1, <2>2 DEF Through
  <2>3. CASE k = first
    <3>1. second > Len(units) \/ ~UnitAlive(units[first])
      BY DEF NextRow, RowSkipped
    <3>2. UnitAlive(units[first])
      BY <1>2, <2>3 DEF Touching
    <3>3. l < second
      BY <1>1, <3>1, <3>2
    <3>4. QED
      BY <2>1, <2>3, <3>3 DEF Through
  <2>4. QED
    BY <2>1, <2>2, <2>3
<1>3. QED
  BY <1>1, <1>2 DEF ContactInv, Touching, Paid, UnitAlive, Opposed, InContact, Gap

(* The collision pass is entered by the movement only, and is left for good. *)
LEMMA LeavesCollisions ==
  ASSUME \/ BeginUpdate \/ ConsumeCommands \/ ApplyReset \/ ApplyHeal \/ ApplyAttack
         \/ IgnoreCommand \/ BeginAutoplay \/ NoAutoplay
         \/ (\E t \in Towers : AutoplayTower(t)) \/ EndAutoplay \/ EndAutospawn
         \/ EndCollisions \/ DestroyStray \/ HitTower \/ FlyOn \/ EndCombat
         \/ EndRound \/ KeepRound
  PROVE  phase' # "collide"
  BY DEF BeginUpdate, ConsumeCommands, ApplyReset, ApplyHeal, ApplyAttack,
     IgnoreCommand, Applying, BeginAutoplay, NoAutoplay, AutoplayTower, EndAutoplay,
     EndAutospawn, EndCollisions, DestroyStray, HitTower, FlyOn, InCombat, EndCombat,
     EndRound, KeepRound

(* ContactInv is inductive: a pass begins with no pair passed.              *)
LEMMA NextContact ==
  ASSUME TypeInv, NoneHealthier, ContactInv, [Next]_vars PROVE ContactInv'
<1>1. CASE CollidePair
  BY <1>1, CollideContact
<1>2. CASE NextRow
  BY <1>2, RowContact
<1>3. CASE \E d \in Steps : Move(d)
  <2>1. first' = 1 /\ second' = 2
    BY <1>3 DEF Move
  <2>2. \A k, l \in 1 .. Len(units') : ~Through(k, l)'
    <3>1. units' \in Seq(Units) /\ Len(units') \in Nat
      BY <1>3, MoveTypeInv DEF TypeInv, Typed
    <3>2. QED
      BY <2>1, <3>1 DEF Through
  <2>3. QED
    BY <2>2 DEF ContactInv
<1>4. CASE UNCHANGED vars
  BY <1>4 DEF vars, loopVars, ContactInv, Through, Touching, Paid, UnitAlive, Opposed,
     InContact, Gap
<1>5. CASE Input
  <2>1. phase' # "collide"
    BY <1>5 DEF Input, PressKey, PressF5, ToggleAutoplay, ReceiveCommand
  <2>2. QED
    BY <2>1 DEF ContactInv
<1>6. CASE \/ BeginUpdate \/ ConsumeCommands \/ ApplyReset \/ ApplyHeal \/ ApplyAttack
           \/ IgnoreCommand \/ BeginAutoplay \/ NoAutoplay
           \/ (\E t \in Towers : AutoplayTower(t)) \/ EndAutoplay \/ EndAutospawn
           \/ EndCollisions \/ DestroyStray \/ HitTower \/ FlyOn \/ EndCombat
           \/ EndRound \/ KeepRound
  BY <1>6, LeavesCollisions DEF ContactInv
<1>7. QED
  BY <1>1, <1>2, <1>3, <1>4, <1>5, <1>6 DEF Next, Update

(* Two opposed units in contact that both outlive the collision pass have   *)
(* both paid for it, however many units are in the field and whatever died  *)
(* in the rows before: CollisionSystem::update.                             *)
THEOREM ContactsCostBoth == Spec => []ContactCostsBoth
<1>1. Init => NoneHealthier /\ ContactInv
  <2>1. Len(<<>>) = 0
    OBVIOUS
  <2>2. QED
    BY <2>1 DEF Init, NoneHealthier, ContactInv
<1>2. IInv => TypeInv
  BY DEF IInv, TypeInv
<1>3. /\ TypeInv /\ NoneHealthier /\ [Next]_vars => NoneHealthier'
      /\ TypeInv /\ NoneHealthier /\ ContactInv /\ [Next]_vars => ContactInv'
  BY NextNoneHealthier, NextContact
<1>4. TypeInv /\ ContactInv => ContactCostsBoth
  <2> SUFFICES ASSUME TypeInv, ContactInv, phase = "collide", first > Len(units),
                      NEW k \in 1 .. Len(units), NEW l \in 1 .. Len(units),
                      UnitAlive(units[k]), UnitAlive(units[l]),
                      Opposed(units[k], units[l]),
                      Gap(units[k], units[l]) \in -ContactRange .. ContactRange
               PROVE  ~Unscathed(units[k])
    BY DEF ContactCostsBoth
  <2>1. /\ units[k] \in Units /\ units[l] \in Units /\ Len(units) \in Nat /\ first \in Nat
        /\ k \in Nat /\ l \in Nat /\ k < first /\ l < first
    BY DEF TypeInv, Typed
  <2>2. k # l
    BY DEF Opposed
  <2>3. Touching(units[k], units[l])
    BY DEF Touching, InContact
  <2>4. Touching(units[l], units[k])
    <3>1. Gap(units[l], units[k]) = Gap(units[k], units[l])
      BY <2>1, LaneAssumption DEF Gap, Units
    <3>2. Opposed(units[l], units[k])
      BY DEF Opposed
    <3>3. QED
      BY <3>1, <3>2 DEF Touching, InContact
  <2>5. Through(k, l) \/ Through(l, k)
    BY <2>1, <2>2 DEF Through
  <2>6. Paid(units[k])
    BY <2>3, <2>4, <2>5 DEF ContactInv
  <2>7. units[k].health \in Nat /\ UnitHealth[units[k].kind] \in Nat
    BY <2>1, UnitHealthType DEF Units
  <2>8. QED
    BY <2>6, <2>7 DEF Paid, Unscathed
<1>5. QED
  BY <1>1, <1>2, <1>3, <1>4, Invariance, PTL DEF Spec

-----------------------------------------------------------------------------
(* What it costs to pass *)

(* While the collision pass runs, the field is still the one that moved, and *)
(* nobody in it is further on than the frame took it.                        *)
MovedBy(u, v, d) == u.pos <= v.pos + d
StepInv ==
  phase = "collide" =>
    /\ Len(before) = Len(units)
    /\ \A k \in 1 .. Len(units) : MovedBy(units[k], before[k], step)

(* A movement takes no unit further than its frame.                          *)
LEMMA MoveStep ==
  ASSUME TypeInv, NEW d \in Steps, Move(d) PROVE StepInv'
<1>1. units \in Seq(Units) /\ Len(units) \in Nat
  BY DEF TypeInv, Typed
<1>2. /\ units' = Moved(d) /\ before' = units /\ step' = d /\ phase' = "collide"
  BY DEF Move
<1>3. /\ Len(Moved(d)) = Len(units)
      /\ \A k \in 1 .. Len(units) :
           Moved(d)[k].pos = IF roundActive THEN Smaller(Lane, units[k].pos + d)
                             ELSE units[k].pos
  BY <1>1, MovedFacts
<1>4. ASSUME NEW k \in 1 .. Len(units) PROVE MovedBy(Moved(d)[k], units[k], d)
  <2>1. units[k] \in Units
    BY <1>1
  <2>2. units[k].pos \in 0 .. Lane /\ d \in Nat /\ Lane \in Nat
    BY <2>1, LaneAssumption, InputAssumption DEF Units
  <2>3. Moved(d)[k].pos <= units[k].pos + d
    BY <1>3, <2>2 DEF Smaller
  <2>4. QED
    BY <2>3 DEF MovedBy
<1>5. Len(units') = Len(units) /\ \A k \in 1 .. Len(units) : MovedBy(units'[k], units[k], d)
  BY <1>2, <1>3, <1>4
<1>6. QED
  BY <1>2, <1>5 DEF StepInv, MovedBy

(* A hit moves nobody.                                                       *)
LEMMA CollideStep ==
  ASSUME TypeInv, StepInv, CollidePair PROVE StepInv'
<1>1. /\ units \in Seq(Units) /\ Len(units') = Len(units)
      /\ \A k \in 1 .. Len(units) : units'[k] \in {units[k], Hurt(units[k], 1)}
  BY CollideFacts DEF TypeInv, Typed
<1>2. UNCHANGED <<step, before>> /\ phase = "collide"
  BY DEF CollidePair
<1>3. ASSUME NEW k \in 1 .. Len(units) PROVE units'[k].pos = units[k].pos
  <2>1. units[k] \in Units /\ units'[k] \in {units[k], Hurt(units[k], 1)}
    BY <1>1
  <2>2. QED
    BY <2>1, HitHealth
<1>4. QED
  BY <1>1, <1>2, <1>3 DEF StepInv, MovedBy

(* StepInv is inductive: the pass is the only place it speaks of.            *)
LEMMA NextStep ==
  ASSUME TypeInv, StepInv, [Next]_vars PROVE StepInv'
<1>1. CASE CollidePair
  BY <1>1, CollideStep
<1>2. CASE \E d \in Steps : Move(d)
  BY <1>2, MoveStep
<1>3. CASE NextRow \/ UNCHANGED vars
  BY <1>3 DEF NextRow, vars, loopVars, StepInv, MovedBy
<1>4. CASE Input
  <2>1. phase' # "collide"
    BY <1>4 DEF Input, PressKey, PressF5, ToggleAutoplay, ReceiveCommand
  <2>2. QED
    BY <2>1 DEF StepInv
<1>5. CASE \/ BeginUpdate \/ ConsumeCommands \/ ApplyReset \/ ApplyHeal \/ ApplyAttack
           \/ IgnoreCommand \/ BeginAutoplay \/ NoAutoplay
           \/ (\E t \in Towers : AutoplayTower(t)) \/ EndAutoplay \/ EndAutospawn
           \/ EndCollisions \/ DestroyStray \/ HitTower \/ FlyOn \/ EndCombat
           \/ EndRound \/ KeepRound
  BY <1>5, LeavesCollisions DEF StepInv
<1>6. QED
  BY <1>1, <1>2, <1>3, <1>4, <1>5 DEF Next, Update

(* Opposed units that a frame brings within reach or past each other both    *)
(* pay in the collision pass, however long the frame and however many units  *)
(* and deaths: who gets by unharmed was taken across the way between them    *)
(* and the reach beyond it by the one movement, which MovementSystem::update *)
(* makes in one go and CollisionSystem::update looks at only afterwards.     *)
THEOREM PassersAlwaysPay == Spec => []PassersPay
<1>1. Init => StepInv
  BY DEF Init, StepInv
<1>2. IInv => TypeInv
  BY DEF IInv, TypeInv
<1>3. TypeInv /\ StepInv /\ [Next]_vars => StepInv'
  BY NextStep
<1>4. TypeInv /\ StepInv /\ ContactCostsBoth => PassersPay
  <2> SUFFICES ASSUME TypeInv, StepInv, ContactCostsBoth,
                      phase = "collide", first > Len(units),
                      NEW k \in 1 .. Len(units), NEW l \in 1 .. Len(units),
                      UnitAlive(units[k]), UnitAlive(units[l]),
                      Opposed(units[k], units[l]),
                      Gap(units[k], units[l]) <= ContactRange,
                      Unscathed(units[k])
               PROVE  2 * step > Gap(before[k], before[l]) + ContactRange
    BY DEF PassersPay
  <2>1. /\ units[k] \in Units /\ units[l] \in Units
        /\ before[k] \in Units /\ before[l] \in Units
    BY DEF TypeInv, Typed, StepInv
  <2>2. \A u \in Units : u.pos \in Nat
    BY LaneAssumption DEF Units
  <2>3. step \in Nat /\ Lane \in Nat /\ ContactRange \in Nat
    BY LaneAssumption, InputAssumption DEF TypeInv, Typed
  <2>4. ~(Gap(units[k], units[l]) \in -ContactRange .. ContactRange)
    BY DEF ContactCostsBoth
  <2>5. /\ units[k].pos <= before[k].pos + step
        /\ units[l].pos <= before[l].pos + step
    BY DEF StepInv, MovedBy
  <2> DEFINE x == units[k].pos
             y == units[l].pos
             a == before[k].pos
             b == before[l].pos
  <2>6. x \in Nat /\ y \in Nat /\ a \in Nat /\ b \in Nat
    BY <2>1, <2>2
  <2>7. /\ Gap(units[k], units[l]) = Lane - x - y
        /\ Gap(before[k], before[l]) = Lane - a - b
    BY DEF Gap
  <2>8. x <= a + step /\ y <= b + step
    BY <2>5
  <2> HIDE DEF x, y, a, b
  <2>9. Lane - x - y < -ContactRange
    BY <2>3, <2>4, <2>6, <2>7
  <2>10. 2 * step > Lane - a - b + ContactRange
    BY <2>3, <2>6, <2>8, <2>9
  <2>11. QED
    BY <2>7, <2>10
<1>5. QED
  BY <1>1, <1>2, <1>3, <1>4, Invariance, ContactsCostBoth, PTL DEF Spec
=============================================================================
