---------------------------- MODULE FeedbackProofs ----------------------------
(***************************************************************************)
(* Proofs about Feedback, for any number of towers, channels, units and    *)
(* events, any caps and any durations: its types, that the cooldowns are   *)
(* owed to sounds that were played, that a unit bursts once when it is     *)
(* gone, and that texts and particles stay bounded.                        *)
(***************************************************************************)
EXTENDS Feedback, DataLemmas

-----------------------------------------------------------------------------
(* The oldest and the newest of a set of numbers *)

(* With its oldest text erased, a list that was not empty is shorter.      *)
LEMMA OldestGoes ==
  ASSUME NEW S \in SUBSET Nat, IsFiniteSet(S), S # {}
  PROVE  /\ IsFiniteSet(WithoutOldest(S))
         /\ Cardinality(WithoutOldest(S)) = Cardinality(S) - 1
<1>1. PICK m \in S : \A k \in S : m <= k BY LeastNatural
<1>2. WithoutOldest(S) = S \ {m}
  <2>1. ASSUME NEW x \in S PROVE (\E y \in S : y < x) <=> x # m BY <1>1
  <2>2. QED BY <2>1 DEF WithoutOldest
<1>3. QED BY <1>2, FS_RemoveElement

(* No more than n elements have fewer than n above them: the least of them *)
(* has all the others above it.                                            *)
LEMMA NewestAreFew ==
  ASSUME NEW S \in SUBSET Nat, IsFiniteSet(S), NEW n \in Nat
  PROVE  /\ Newest(S, n) \in SUBSET S
         /\ IsFiniteSet(Newest(S, n))
         /\ Cardinality(Newest(S, n)) <= n
<1> DEFINE T == Newest(S, n)
<1>1. T \in SUBSET S BY DEF Newest
<1>2. IsFiniteSet(T) /\ Cardinality(T) \in Nat BY <1>1, FS_Subset, FS_CardinalityType
<1>3. ASSUME T # {} PROVE Cardinality(T) <= n
  <2>1. PICK m \in T : \A k \in T : m <= k
    <3> HIDE DEF T
    <3>1. T \in SUBSET Nat BY <1>1
    <3>2. QED BY <1>3, <3>1, LeastNatural
  <2> DEFINE above == {y \in S : m < y}
  <2>2. Cardinality(above) < n BY <2>1 DEF Newest
  <2>3. IsFiniteSet(above) /\ Cardinality(above) \in Nat
    <3>1. above \in SUBSET S OBVIOUS
    <3>2. QED BY <3>1, FS_Subset, FS_CardinalityType
  <2>4. T \ {m} \in SUBSET above
    <3> HIDE DEF T
    <3>1. QED BY <1>1, <2>1
  <2> HIDE DEF T, above
  <2>5. Cardinality(T \ {m}) <= Cardinality(above) BY <2>3, <2>4, FS_Subset
  <2>6. Cardinality(T \ {m}) = Cardinality(T) - 1 BY <1>2, <2>1, FS_RemoveElement
  <2>7. QED BY <1>2, <2>2, <2>3, <2>5, <2>6
<1>4. ASSUME T = {} PROVE Cardinality(T) <= n BY <1>4, FS_EmptySet
<1>5. QED BY <1>1, <1>2, <1>3, <1>4

-----------------------------------------------------------------------------
(* Types *)

(* Sounds are loaded before any is kept, and the loops over units are over  *)
(* outside their phase.                                                     *)
Between ==
  /\ ~loadAttempted => loaded = {}
  /\ phase # "bursts" => entering = {} /\ vanishing = {}

TypeInv == TypeOK /\ Between

LEMMA SmallerLarger ==
  ASSUME NEW x \in Nat, NEW y \in Nat
  PROVE  /\ Smaller(x, y) \in 0 .. x /\ Smaller(x, y) \in 0 .. y
         /\ Larger(0, x - y) \in 0 .. x
BY DEF Smaller, Larger

(* What a step of the game may do: it happens outside the loops over units, *)
(* only ends units or makes new ones, and leaves sounds and pictures alone. *)
LEMMA GameStep ==
  ASSUME GameTyped, Game
  PROVE  /\ GameTyped'
         /\ phase \in {"events", "spawn", "collide", "combat", "round"} /\ phase' = phase
         /\ made <= made' /\ field' \subseteq field \cup (made + 1 .. made')
         /\ UNCHANGED <<todo, audioVars, clockVars, unitVars, effectVars>>
<1> USE ShowAssumption
<1>1. ASSUME NEW system, NEW gone \in SUBSET field, NEW n \in Nat, NEW what \in Seq(Events),
             Happens(system, gone, n, what), UNCHANGED phase
      PROVE  /\ GameTyped' /\ made <= made' /\ field' \subseteq field \cup (made + 1 .. made')
             /\ UNCHANGED <<todo, audioVars, clockVars, unitVars, effectVars>>
  <2>1. made' \in 0 .. MaxMade /\ made <= made' BY <1>1 DEF Happens, GameTyped
  <2>2. field' \subseteq 1 .. made'
    <3>1. field' = (field \ gone) \cup (made + 1 .. made') BY <1>1 DEF Happens
    <3>2. field \subseteq 1 .. made /\ made \in Nat BY DEF GameTyped
    <3>3. QED BY <2>1, <3>1, <3>2
  <2>3. events' \in Seq(Events)
    <3>1. events' = events \o what /\ events \in Seq(Events) BY <1>1 DEF Happens, GameTyped
    <3>2. QED BY <3>1, ConcatProperties
  <2>4. news' \in 0 .. MaxNews
    <3>1. Len(what) \in Nat BY LenProperties
    <3>2. QED BY <1>1, <3>1 DEF Happens, GameTyped
  <2>5. UNCHANGED <<todo, audioVars, clockVars, unitVars, effectVars>> BY <1>1 DEF Happens
  <2>6. phase' \in Phases /\ todo' \in Seq(Events) BY <1>1, <2>5 DEF GameTyped
  <2>7. field' \subseteq field \cup (made + 1 .. made') BY <1>1 DEF Happens
  <2>8. QED BY <2>1, <2>2, <2>3, <2>4, <2>5, <2>6, <2>7 DEF GameTyped
<1>2. \A type \in EventTypes, t \in Towers \cup {InvalidId} :
        /\ Event(type, t) \in Events
        /\ <<Event(type, t)>> \in Seq(Events)
  BY DEF Event, Events
<1>3. /\ DOMAIN SoundOf = {"TowerDamaged", "TowerHealed", "TowerDestroyed", "UnitSpawned"}
      /\ {"TowerDamaged", "TowerHealed", "TowerDestroyed", "UnitSpawned", "UnitDestroyed",
          "RoundEnded"} = EventTypes
  BY DEF SoundOf, EventTypes
<1>4. Ids \subseteq Nat /\ {} \in SUBSET field BY DEF Ids
<1>5. ASSUME PressF5 \/ ResetGame
      PROVE  /\ GameTyped' /\ made <= made' /\ field' \subseteq field \cup (made + 1 .. made')
             /\ UNCHANGED <<todo, audioVars, clockVars, unitVars, effectVars>>
             /\ phase \in {"events", "spawn"} /\ phase' = phase
  <2>1. <<>> \in Seq(Events) OBVIOUS
  <2>2. /\ UNCHANGED <<phase, made, news, todo, audioVars, clockVars, unitVars, effectVars>>
        /\ field' = {} /\ events' = <<>> /\ phase \in {"events", "spawn"}
    BY <1>5 DEF PressF5, ResetGame
  <2>3. GameTyped' BY <2>1, <2>2 DEF GameTyped
  <2>4. made <= made' BY <2>2 DEF GameTyped
  <2>5. QED BY <2>2, <2>3, <2>4
<1>6. CASE PressF5 \/ ResetGame BY <1>5, <1>6
<1>7. CASE VolleySpawned
  <2>1. PICK t \in Towers, n \in Ids : Happens("spawn", {}, n, <<Event("UnitSpawned", t)>>)
    BY <1>7 DEF VolleySpawned
  <2>2. <<Event("UnitSpawned", t)>> \in Seq(Events) BY <1>2, <1>3
  <2>3. UNCHANGED phase /\ phase = "spawn" BY <1>7, <2>1 DEF VolleySpawned, Happens
  <2>4. QED BY <1>1, <1>4, <2>1, <2>2, <2>3
<1>8. CASE TowerHealed
  <2>1. PICK t \in Towers : Happens("spawn", {}, 0, <<Event("TowerHealed", t)>>)
    BY <1>8 DEF TowerHealed
  <2>2. <<Event("TowerHealed", t)>> \in Seq(Events) BY <1>2, <1>3
  <2>3. UNCHANGED phase /\ phase = "spawn" BY <1>8, <2>1 DEF TowerHealed, Happens
  <2>4. QED BY <1>1, <1>4, <2>1, <2>2, <2>3
<1>9. CASE UnitsCollide
  <2>1. PICK u \in field, v \in field :
          Happens("collide", {u, v}, 0, <<Event("UnitDestroyed", InvalidId)>>)
    BY <1>9 DEF UnitsCollide
  <2>2. <<Event("UnitDestroyed", InvalidId)>> \in Seq(Events) BY <1>2, <1>3
  <2>3. UNCHANGED phase /\ phase = "collide" BY <1>9, <2>1 DEF UnitsCollide, Happens
  <2>4. {u, v} \in SUBSET field OBVIOUS
  <2>5. QED BY <1>1, <2>1, <2>2, <2>3, <2>4
<1>10. CASE DeadUnitFightsOn
  <2>1. <<Event("UnitDestroyed", InvalidId)>> \in Seq(Events) BY <1>2, <1>3
  <2>2. UNCHANGED phase /\ phase = "collide" BY <1>10 DEF DeadUnitFightsOn, Happens
  <2>3. Happens("collide", {}, 0, <<Event("UnitDestroyed", InvalidId)>>)
    BY <1>10 DEF DeadUnitFightsOn
  <2>4. QED BY <1>1, <1>4, <2>1, <2>2, <2>3
<1>11. CASE UnitHitsTower
  <2>1. PICK u \in field, t \in Towers :
          Happens("combat", {u}, 0, <<Event("TowerDamaged", t)>>)
    BY <1>11 DEF UnitHitsTower
  <2>2. <<Event("TowerDamaged", t)>> \in Seq(Events) BY <1>2, <1>3
  <2>3. UNCHANGED phase /\ phase = "combat" BY <1>11, <2>1 DEF UnitHitsTower, Happens
  <2>4. {u} \in SUBSET field OBVIOUS
  <2>5. QED BY <1>1, <2>1, <2>2, <2>3, <2>4
<1>12. CASE UnitFellsTower
  <2>1. PICK u \in field, t \in Towers :
          Happens("combat", {u}, 0, <<Event("TowerDamaged", t), Event("TowerDestroyed", t)>>)
    BY <1>12 DEF UnitFellsTower
  <2>2. Event("TowerDamaged", t) \in Events /\ Event("TowerDestroyed", t) \in Events
    BY <1>2, <1>3
  <2>3. <<Event("TowerDamaged", t), Event("TowerDestroyed", t)>> \in Seq(Events) BY <2>2
  <2>4. UNCHANGED phase /\ phase = "combat" BY <1>12, <2>1 DEF UnitFellsTower, Happens
  <2>5. {u} \in SUBSET field OBVIOUS
  <2>6. QED BY <1>1, <2>1, <2>3, <2>4, <2>5
<1>13. CASE StrayDestroyed
  <2>1. PICK u \in field : Happens("combat", {u}, 0, <<>>) BY <1>13 DEF StrayDestroyed
  <2>2. <<>> \in Seq(Events) OBVIOUS
  <2>3. UNCHANGED phase /\ phase = "combat" BY <1>13, <2>1 DEF StrayDestroyed, Happens
  <2>4. {u} \in SUBSET field OBVIOUS
  <2>5. QED BY <1>1, <2>1, <2>2, <2>3, <2>4
<1>14. CASE RoundEnds
  <2>1. PICK t \in Towers \cup {InvalidId} :
          Happens("round", {}, 0, <<Event("RoundEnded", t)>>)
    BY <1>14 DEF RoundEnds
  <2>2. <<Event("RoundEnded", t)>> \in Seq(Events) BY <1>2, <1>3
  <2>3. UNCHANGED phase /\ phase = "round" BY <1>14, <2>1 DEF RoundEnds, Happens
  <2>4. QED BY <1>1, <1>4, <2>1, <2>2, <2>3
<1>15. QED
  BY <1>6, <1>7, <1>8, <1>9, <1>10, <1>11, <1>12, <1>13, <1>14 DEF Game

(* The steps of a frame that belong neither to the systems nor to a loop    *)
(* leave the units of the game, and change phase and events at most.        *)
LEMMA GameTypedKept ==
  ASSUME GameTyped, [Next]_vars
  PROVE  GameTyped'
<1>1. ASSUME todo' \in Seq(Events), phase' \in Phases, UNCHANGED gameVars
      PROVE  GameTyped'
  BY <1>1 DEF GameTyped, gameVars
<1>2. /\ events \in Seq(Events) /\ todo \in Seq(Events) /\ phase \in Phases
      /\ <<>> \in Seq(Events)
  BY DEF GameTyped
<1>3. todo # <<>> => Tail(todo) \in Seq(Events) BY <1>2
<1>4. {"events", "spawn", "collide", "combat", "round", "sound",
       "units", "bursts", "effects", "texts"} = Phases
  BY DEF Phases
<1>5. CASE Tick BY <1>1, <1>2, <1>5 DEF Tick
<1>6. CASE \E c \in 1 .. Channels : SoundEnds(c) BY <1>1, <1>2, <1>6 DEF SoundEnds
<1>7. CASE Game BY <1>7, GameStep
<1>8. CASE BeginUpdate BY <1>2, <1>4, <1>8 DEF BeginUpdate, GameTyped
<1>9. ASSUME NEW system, NEW next \in Phases, EndSystem(system, next) PROVE GameTyped'
  BY <1>1, <1>2, <1>9 DEF EndSystem
<1>10. CASE \/ EndSystem("spawn", "collide")
            \/ EndSystem("collide", "combat")
            \/ EndSystem("combat", "round")
  BY <1>4, <1>9, <1>10
<1>11. CASE EndUpdate BY <1>1, <1>2, <1>4, <1>11 DEF EndUpdate
<1>12. CASE NothingToPlay BY <1>1, <1>2, <1>4, <1>12 DEF NothingToPlay
<1>13. CASE \E files \in SoundFiles : LoadSounds(files)
  BY <1>1, <1>2, <1>13 DEF LoadSounds
<1>14. CASE PlayEvent
  <2>1. todo # <<>> /\ todo' = Tail(todo) /\ UNCHANGED <<phase, gameVars>>
    BY <1>14 DEF PlayEvent, Playing
  <2>2. QED BY <1>1, <1>2, <1>3, <2>1
<1>15. CASE SkipSound
  <2>1. todo # <<>> /\ todo' = Tail(todo) /\ UNCHANGED <<phase, gameVars>>
    BY <1>15 DEF SkipSound, Playing
  <2>2. QED BY <1>1, <1>2, <1>3, <2>1
<1>16. CASE EndSounds BY <1>1, <1>2, <1>4, <1>16 DEF EndSounds
<1>17. CASE AgeParticles BY <1>1, <1>2, <1>4, <1>17 DEF AgeParticles
<1>18. CASE \E u \in Ids : DrawUnit(u)
  BY <1>1, <1>2, <1>18 DEF DrawUnit
<1>19. CASE \E u \in Ids : LookForUnit(u)
  BY <1>1, <1>2, <1>19 DEF LookForUnit
<1>20. CASE EndUnits BY <1>1, <1>2, <1>4, <1>20 DEF EndUnits
<1>21. CASE FadeFlashes BY <1>1, <1>2, <1>4, <1>21 DEF FadeFlashes
<1>22. CASE ShowEvent
  <2>1. todo # <<>> /\ todo' = Tail(todo) /\ UNCHANGED <<phase, gameVars>>
    BY <1>22 DEF ShowEvent
  <2>2. QED BY <1>1, <1>2, <1>3, <2>1
<1>23. CASE SkipEvent
  <2>1. todo # <<>> /\ todo' = Tail(todo) /\ UNCHANGED <<phase, gameVars>>
    BY <1>23 DEF SkipEvent
  <2>2. QED BY <1>1, <1>2, <1>3, <2>1
<1>24. CASE EndEffects BY <1>1, <1>2, <1>4, <1>24 DEF EndEffects
<1>25. CASE UNCHANGED vars BY <1>1, <1>2, <1>25 DEF vars
<1>26. QED
  BY <1>5, <1>6, <1>7, <1>8, <1>10, <1>11, <1>12, <1>13, <1>14, <1>15, <1>16, <1>17,
     <1>18, <1>19, <1>20, <1>21, <1>22, <1>23, <1>24, <1>25 DEF Next, Frame

(* A step that neither ticks nor touches the sounds.                        *)
Silent == UNCHANGED <<audioVars, sinceSound, heard>>

LEMMA SilentSteps ==
  ASSUME GameTyped, [Next]_vars
  PROVE  \/ Silent
         \/ Tick
         \/ \E c \in 1 .. Channels : SoundEnds(c)
         \/ \E files \in SoundFiles : LoadSounds(files)
         \/ PlayEvent
<1> USE DEF Silent, clockVars
<1>1. CASE Game BY <1>1, GameStep
<1>2. CASE Frame
  BY <1>2 DEF Frame, BeginUpdate, EndSystem, EndUpdate, NothingToPlay, SkipSound, EndSounds,
     AgeParticles, DrawUnit, LookForUnit, EndUnits, FadeFlashes, ShowEvent, SkipEvent,
     EndEffects
<1>3. CASE UNCHANGED vars BY <1>3 DEF vars
<1>4. QED BY <1>1, <1>2, <1>3 DEF Next

LEMMA SoundTypedKept ==
  ASSUME TypeInv, [Next]_vars
  PROVE  SoundTyped' /\ (~loadAttempted => loaded = {})'
<1> USE ShowAssumption
<1>1. GameTyped /\ SoundTyped /\ (~loadAttempted => loaded = {})
  BY DEF TypeInv, TypeOK, Between
<1>2. CASE Silent
  BY <1>1, <1>2 DEF Silent, audioVars, SoundTyped
<1>3. CASE Tick
  <2>1. UNCHANGED audioVars BY <1>3 DEF Tick
  <2>2. \A k \in Sounds : /\ Cooldown[k] \in Nat
                          /\ sinceSound[k] + 1 \in Nat /\ heard[k] + 1 \in Nat
    BY <1>1 DEF SoundTyped
  <2>3. \A k \in Sounds : /\ Smaller(Cooldown[k], sinceSound[k] + 1) \in 0 .. Cooldown[k]
                          /\ Smaller(Cooldown[k], heard[k] + 1) \in 0 .. Cooldown[k]
    BY <2>2, SmallerLarger
  <2>4. /\ sinceSound' = [k \in Sounds |-> Smaller(Cooldown[k], sinceSound[k] + 1)]
        /\ heard' = [k \in Sounds |-> Smaller(Cooldown[k], heard[k] + 1)]
    BY <1>3 DEF Tick
  <2>5. /\ sinceSound' \in [Sounds -> Nat] /\ heard' \in [Sounds -> Nat]
        /\ \A k \in Sounds : sinceSound'[k] <= Cooldown[k] /\ heard'[k] <= Cooldown[k]
    BY <2>2, <2>3, <2>4
  <2>6. QED BY <1>1, <2>1, <2>5 DEF audioVars, SoundTyped
<1>4. CASE \E c \in 1 .. Channels : SoundEnds(c)
  <2>1. PICK c \in 1 .. Channels : SoundEnds(c) BY <1>4
  <2>2. /\ channels' = [channels EXCEPT ![c] = "idle"]
        /\ UNCHANGED <<audioEnabled, loadAttempted, loaded, sinceSound, heard>>
    BY <2>1 DEF SoundEnds, clockVars
  <2>3. QED BY <1>1, <2>2 DEF SoundTyped
<1>5. CASE \E files \in SoundFiles : LoadSounds(files)
  <2>1. PICK files \in SoundFiles : LoadSounds(files) BY <1>5
  <2>2. /\ loadAttempted' = TRUE /\ loaded' = files /\ audioEnabled' = (files # {})
        /\ ~loadAttempted /\ UNCHANGED <<channels, sinceSound, heard>>
    BY <2>1 DEF LoadSounds, clockVars
  <2>3. loaded' \subseteq Sounds /\ loaded = {} BY <1>1, <2>2
  <2>4. channels' \in [1 .. Channels -> loaded' \cup {"idle"}]
    BY <1>1, <2>2, <2>3 DEF SoundTyped
  <2>5. QED BY <1>1, <2>2, <2>3, <2>4 DEF SoundTyped
<1>6. CASE PlayEvent
  <2> DEFINE k == SoundOf[Head(todo).type]
  <2>1. /\ UNCHANGED <<audioEnabled, loadAttempted, loaded>>
        /\ Head(todo).type \in DOMAIN SoundOf /\ Starts(k)
    BY <1>6 DEF PlayEvent
  <2>2. k \in Sounds BY <2>1 DEF SoundOf, Sounds
  <2> HIDE DEF k
  <2>3. PICK c \in 1 .. Channels : channels' = [channels EXCEPT ![c] = k]
    BY <2>1 DEF Starts
  <2>4. k \in loaded /\ loadAttempted
    BY <1>6, <2>1 DEF Starts, Due, PlayEvent, Playing
  <2>5. /\ sinceSound' = [sinceSound EXCEPT ![k] = 0] /\ heard' = [heard EXCEPT ![k] = 0]
    BY <2>1 DEF Starts
  <2>6. channels' \in [1 .. Channels -> loaded' \cup {"idle"}]
    BY <1>1, <2>1, <2>3, <2>4 DEF SoundTyped
  <2>7. /\ sinceSound' \in [Sounds -> Nat] /\ heard' \in [Sounds -> Nat]
        /\ \A x \in Sounds : sinceSound'[x] <= Cooldown[x] /\ heard'[x] <= Cooldown[x]
    BY <1>1, <2>2, <2>5 DEF SoundTyped
  <2>8. QED BY <1>1, <2>1, <2>4, <2>6, <2>7 DEF SoundTyped
<1>7. QED BY <1>1, <1>2, <1>3, <1>4, <1>5, <1>6, SilentSteps

-----------------------------------------------------------------------------
(* Particles and texts *)

LEMMA AgedOnes ==
  ASSUME NEW left, NEW dt \in Nat, left \in [DOMAIN left -> Nat \ {0}]
  PROVE  /\ DOMAIN Aged(left, dt) \subseteq DOMAIN left
         /\ Aged(left, dt) \in [DOMAIN Aged(left, dt) -> Nat \ {0}]
         /\ \A x \in DOMAIN Aged(left, dt) : Aged(left, dt)[x] <= left[x]
<1>1. Aged(left, dt) = [x \in {y \in DOMAIN left : left[y] > dt} |-> left[x] - dt]
  BY DEF Aged
<1>2. \A x \in DOMAIN left : left[x] \in Nat OBVIOUS
<1>3. QED BY <1>1, <1>2

(* A burst finds room for one particle at least, and none of its numbers is *)
(* taken.                                                                   *)
LEMMA SparedOnes ==
  ASSUME UnitsTyped
  PROVE  /\ DOMAIN Spared \subseteq DOMAIN particles
         /\ \A x \in DOMAIN Spared : Spared[x] = particles[x]
         /\ IsFiniteSet(DOMAIN Spared)
         /\ Cardinality(DOMAIN Spared) <= MaxParticles - 1
<1> DEFINE D == DOMAIN particles
<1>1. D \in SUBSET Nat /\ IsFiniteSet(D) /\ Cardinality(D) \in Nat
  <2>1. D \in SUBSET (1 .. sparks) /\ sparks \in Int BY DEF UnitsTyped
  <2>2. IsFiniteSet(1 .. sparks) BY <2>1, 1 \in Int, FS_Interval
  <2>3. QED BY <2>1, <2>2, FS_Subset, FS_CardinalityType
<1>2. MaxParticles \in Nat /\ MaxParticles - 1 \in Nat BY ShowAssumption
<1>3. CASE Cardinality(D) >= MaxParticles
  <2> DEFINE N == Newest(D, MaxParticles - 1)
  <2>1. N \in SUBSET D /\ IsFiniteSet(N) /\ Cardinality(N) <= MaxParticles - 1
    BY <1>1, <1>2, NewestAreFew
  <2>2. Spared = [x \in N |-> particles[x]] BY <1>3 DEF Spared, Only
  <2> HIDE DEF N
  <2>3. DOMAIN Spared = N /\ \A x \in N : Spared[x] = particles[x] BY <2>2
  <2>4. QED BY <2>1, <2>3
<1>4. CASE ~(Cardinality(D) >= MaxParticles)
  <2>1. Spared = [x \in D |-> particles[x]] BY <1>4 DEF Spared, Only
  <2>2. DOMAIN Spared = D /\ \A x \in D : Spared[x] = particles[x] BY <2>1
  <2>3. Cardinality(D) <= MaxParticles - 1 BY <1>1, <1>2, <1>4
  <2>4. QED BY <1>1, <2>2, <2>3
<1>5. QED BY <1>3, <1>4

LEMMA BurstOnes ==
  ASSUME UnitsTyped, NEW kind \in Bursts, SpawnBurst(kind)
  PROVE  /\ sparks' \in Nat
         /\ DOMAIN particles' \subseteq 1 .. sparks'
         /\ particles' \in [DOMAIN particles' -> 1 .. ParticleLife["strong"]]
         /\ IsFiniteSet(DOMAIN particles')
         /\ Cardinality(DOMAIN particles') <= MaxParticles - 1 + BurstSize["strong"]
<1> DEFINE new == sparks + 1 .. sparks + BurstSize[kind]
           D == DOMAIN Spared
<1>1. /\ kind \in {"weak", "strong"} /\ {"weak", "strong"} = Bursts
      /\ BurstSize[kind] \in Nat /\ BurstSize["strong"] \in Nat
      /\ BurstSize[kind] <= BurstSize["strong"]
      /\ ParticleLife[kind] \in 1 .. ParticleLife["strong"]
      /\ ParticleLife["strong"] \in Nat
  BY ShowAssumption DEF Bursts
<1>2. sparks \in Nat /\ sparks' = sparks + BurstSize[kind] BY DEF UnitsTyped, SpawnBurst
<1>3. /\ D \subseteq 1 .. sparks
      /\ \A x \in D : Spared[x] \in 1 .. ParticleLife["strong"]
      /\ IsFiniteSet(D) /\ Cardinality(D) <= MaxParticles - 1
  BY SparedOnes DEF UnitsTyped
<1>4. particles' = [x \in D \cup new |-> IF x > sparks THEN ParticleLife[kind] ELSE Spared[x]]
  BY DEF SpawnBurst
<1>5. /\ IsFiniteSet(new) /\ Cardinality(new) = BurstSize[kind]
  <2> DEFINE low == sparks + 1
             high == sparks + BurstSize[kind]
  <2>1. low \in Int /\ high \in Int /\ new = low .. high BY <1>1, <1>2
  <2> HIDE DEF new, low, high
  <2>2. IsFiniteSet(new) /\ Cardinality(new) = IF low > high THEN 0 ELSE high - low + 1
    BY <2>1, FS_Interval
  <2>3. low = sparks + 1 /\ high = sparks + BurstSize[kind] BY DEF low, high
  <2>4. QED BY <1>1, <1>2, <2>2, <2>3
<1>6. \A x \in new : x \in 1 .. sparks' /\ x > sparks BY <1>1, <1>2
<1>7. \A x \in D : x \in 1 .. sparks' /\ ~(x > sparks) BY <1>1, <1>2, <1>3
<1> HIDE DEF new, D
<1>8. DOMAIN particles' = D \cup new BY <1>4
<1>9. \A x \in D \cup new : particles'[x] \in 1 .. ParticleLife["strong"]
  BY <1>1, <1>3, <1>4, <1>6, <1>7
<1>10. particles' \in [DOMAIN particles' -> 1 .. ParticleLife["strong"]]
  BY <1>4, <1>8, <1>9
<1>11. /\ IsFiniteSet(D \cup new)
       /\ Cardinality(D \cup new) = Cardinality(D) + Cardinality(new) - Cardinality(D \cap new)
  BY <1>3, <1>5, FS_Union
<1>12. Cardinality(D \cap new) \in Nat /\ Cardinality(D) \in Nat
  <2>1. D \cap new \in SUBSET D OBVIOUS
  <2>2. QED BY <1>3, <2>1, FS_Subset, FS_CardinalityType
<1>13. Cardinality(D \cup new) <= MaxParticles - 1 + BurstSize["strong"]
  <2>1. MaxParticles - 1 \in Int BY ShowAssumption
  <2>2. QED BY <1>1, <1>3, <1>5, <1>11, <1>12, <2>1
<1>14. sparks' \in Nat BY <1>1, <1>2
<1>15. QED BY <1>6, <1>7, <1>8, <1>10, <1>11, <1>13, <1>14

(* A step that leaves the units of the renderer alone.                      *)
Unburst == UNCHANGED <<unitClock, unitVars>>

LEMMA UnburstSteps ==
  ASSUME GameTyped, [Next]_vars
  PROVE  \/ Unburst /\ UNCHANGED <<made, field>>
            /\ (phase = "bursts" <=> phase' = "bursts")
         \/ Unburst /\ Game
         \/ Tick
         \/ AgeParticles
         \/ \E u \in Ids : DrawUnit(u)
         \/ \E u \in Ids : LookForUnit(u)
         \/ EndUnits
<1> USE DEF Unburst, clockVars, gameVars
<1>1. CASE Game BY <1>1, GameStep
<1>2. CASE \E c \in 1 .. Channels : SoundEnds(c) BY <1>2 DEF SoundEnds
<1>3. CASE Frame
  BY <1>3 DEF Frame, BeginUpdate, EndSystem, EndUpdate, NothingToPlay, LoadSounds, PlayEvent,
     SkipSound, EndSounds, FadeFlashes, ShowEvent, SkipEvent, EndEffects
<1>4. CASE UNCHANGED vars BY <1>4 DEF vars
<1>5. QED BY <1>1, <1>2, <1>3, <1>4 DEF Next

LEMMA UnitsTypedKept ==
  ASSUME TypeInv, [Next]_vars
  PROVE  UnitsTyped' /\ (phase # "bursts" => entering = {} /\ vanishing = {})'
<1> USE ShowAssumption
<1> DEFINE Loops == phase # "bursts" => entering = {} /\ vanishing = {}
<1>1. GameTyped /\ UnitsTyped /\ Loops
  BY DEF TypeInv, TypeOK, Between
<1>2. /\ made \in Nat /\ field \subseteq 1 .. made /\ 1 .. made \subseteq Ids
      /\ phase \in Phases
  BY <1>1 DEF GameTyped, Ids
<1>3. CASE Unburst /\ UNCHANGED <<made, field>> /\ (phase = "bursts" <=> phase' = "bursts")
  <2>1. UNCHANGED <<unitClock, previous, entering, vanishing, particles, sparks, drawn,
                    bursts, muted, made, field>>
    BY <1>3 DEF Unburst, unitVars
  <2>2. UnitsTyped' BY <1>1, <2>1 DEF UnitsTyped
  <2>3. QED BY <1>1, <1>3, <2>1, <2>2
<1>4. CASE Unburst /\ Game
  <2>1. UNCHANGED <<unitClock, previous, entering, vanishing, particles, sparks, drawn,
                    bursts, muted>>
    BY <1>4 DEF Unburst, unitVars
  <2>2. phase # "bursts" /\ phase' = phase /\ made <= made' /\ made' \in Nat
    BY <1>1, <1>4, GameStep DEF GameTyped
  <2>3. entering = {} /\ vanishing = {} /\ 1 .. made \subseteq 1 .. made' BY <1>1, <1>2, <2>2
  <2>4. UnitsTyped' BY <1>1, <2>1, <2>3 DEF UnitsTyped
  <2>5. QED BY <2>1, <2>2, <2>3, <2>4
<1>5. CASE Tick
  <2>1. /\ unitClock' = Smaller(LongestStep, unitClock + 1)
        /\ UNCHANGED <<phase, previous, entering, vanishing, particles, sparks, drawn, bursts,
                       muted, made, field>>
    BY <1>5 DEF Tick, unitVars, gameVars
  <2>2. unitClock + 1 \in Nat BY <1>1 DEF UnitsTyped
  <2>3. unitClock' \in 0 .. LongestStep BY <2>1, <2>2, SmallerLarger
  <2>4. UnitsTyped' BY <1>1, <2>1, <2>3 DEF UnitsTyped
  <2>5. QED BY <1>1, <2>1, <2>4
<1>6. CASE AgeParticles
  <2>1. /\ phase' = "bursts" /\ particles' = Aged(particles, unitClock) /\ unitClock' = 0
        /\ entering' = field /\ vanishing' = previous
        /\ UNCHANGED <<previous, sparks, drawn, bursts, muted, made, field>>
    BY <1>6 DEF AgeParticles, gameVars
  <2>2. unitClock \in Nat /\ particles \in [DOMAIN particles -> Nat \ {0}]
        /\ \A x \in DOMAIN particles : particles[x] \in 1 .. ParticleLife["strong"]
    BY <1>1 DEF UnitsTyped
  <2>3. /\ DOMAIN particles' \subseteq DOMAIN particles
        /\ particles' \in [DOMAIN particles' -> Nat \ {0}]
        /\ \A x \in DOMAIN particles' : particles'[x] <= particles[x]
    BY <2>1, <2>2, AgedOnes
  <2>4. ParticleLife["strong"] \in Nat BY DEF Bursts
  <2>5. \A x \in DOMAIN particles' : particles'[x] \in 1 .. ParticleLife["strong"]
    BY <2>2, <2>3, <2>4
  <2>6. particles' \in [DOMAIN particles' -> 1 .. ParticleLife["strong"]]
    BY <2>3, <2>5
  <2>7. UnitsTyped' BY <1>1, <2>1, <2>3, <2>6 DEF UnitsTyped
  <2>8. QED BY <2>1, <2>7
<1>7. CASE \E u \in Ids : DrawUnit(u)
  <2>1. PICK u \in Ids : DrawUnit(u) BY <1>7
  <2>2. /\ phase = "bursts" /\ phase' = phase /\ entering' = entering \ {u}
        /\ UNCHANGED <<unitClock, previous, vanishing, drawn, bursts, muted, made, field>>
    BY <2>1 DEF DrawUnit, clockVars, gameVars
  <2>3. "weak" \in Bursts BY DEF Bursts
  <2>4. SpawnBurst("weak") \/ UNCHANGED <<particles, sparks>> BY <2>1 DEF DrawUnit
  <2>5. /\ sparks' \in Nat /\ DOMAIN particles' \subseteq 1 .. sparks'
        /\ particles' \in [DOMAIN particles' -> 1 .. ParticleLife["strong"]]
    <3>1. CASE SpawnBurst("weak") BY <1>1, <2>3, <3>1, BurstOnes
    <3>2. CASE UNCHANGED <<particles, sparks>> BY <1>1, <3>2 DEF UnitsTyped
    <3>3. QED BY <2>4, <3>1, <3>2
  <2>6. UnitsTyped' BY <1>1, <2>2, <2>5 DEF UnitsTyped
  <2>7. QED BY <2>2, <2>6
<1>8. CASE \E u \in Ids : LookForUnit(u)
  <2>1. PICK u \in Ids : LookForUnit(u) BY <1>8
  <2>2. /\ phase = "bursts" /\ phase' = phase /\ vanishing' = vanishing \ {u}
        /\ u \in vanishing /\ muted' \in {muted, muted \cup {u}}
        /\ UNCHANGED <<unitClock, previous, entering, drawn, made, field>>
    BY <2>1 DEF LookForUnit, clockVars, gameVars
  <2>3. "strong" \in Bursts BY DEF Bursts
  <2>4. \/ SpawnBurst("strong") /\ bursts' = [bursts EXCEPT ![u] = @ + 1]
        \/ UNCHANGED <<particles, sparks, bursts>>
    BY <2>1 DEF LookForUnit
  <2>5. /\ sparks' \in Nat /\ DOMAIN particles' \subseteq 1 .. sparks'
        /\ particles' \in [DOMAIN particles' -> 1 .. ParticleLife["strong"]]
    <3>1. CASE SpawnBurst("strong") BY <1>1, <2>3, <3>1, BurstOnes
    <3>2. CASE UNCHANGED <<particles, sparks>> BY <1>1, <3>2 DEF UnitsTyped
    <3>3. QED BY <2>4, <3>1, <3>2
  <2>6. bursts' \in [Ids -> Nat] BY <1>1, <2>4 DEF UnitsTyped
  <2>7. muted' \subseteq 1 .. made' BY <1>1, <2>2 DEF UnitsTyped
  <2>8. UnitsTyped' BY <1>1, <2>2, <2>5, <2>6, <2>7 DEF UnitsTyped
  <2>9. QED BY <2>2, <2>8
<1>9. CASE EndUnits
  <2>1. /\ phase = "bursts" /\ entering = {} /\ vanishing = {}
        /\ previous' = field /\ drawn' = drawn \cup field
        /\ UNCHANGED <<unitClock, entering, vanishing, particles, sparks, bursts, muted, made,
                       field>>
    BY <1>9 DEF EndUnits, clockVars, gameVars
  <2>2. UnitsTyped' BY <1>1, <1>2, <2>1 DEF UnitsTyped
  <2>3. QED BY <2>1, <2>2
<1>10. QED BY <1>1, <1>3, <1>4, <1>5, <1>6, <1>7, <1>8, <1>9, UnburstSteps

LEMMA WroteOne ==
  ASSUME EffectsTyped, Cardinality(DOMAIN texts) <= MaxTexts, NEW ticks \in Nat \ {0}
  PROVE  /\ DOMAIN Wrote(ticks) \subseteq 1 .. written + 1
         /\ Wrote(ticks) \in [DOMAIN Wrote(ticks) -> Nat \ {0}]
         /\ Cardinality(DOMAIN Wrote(ticks)) <= MaxTexts
<1> DEFINE D == DOMAIN texts
           kept == IF Cardinality(D) >= MaxTexts THEN WithoutOldest(D) ELSE D
<1>1. written \in Nat /\ D \subseteq 1 .. written /\ \A x \in D : texts[x] \in Nat \ {0}
  BY DEF EffectsTyped
<1>2. D \in SUBSET Nat /\ IsFiniteSet(D) /\ Cardinality(D) \in Nat
  <2> HIDE DEF D
  <2>1. IsFiniteSet(1 .. written) BY <1>1, 1 \in Int, written \in Int, FS_Interval
  <2>2. IsFiniteSet(D) BY <1>1, <2>1, FS_Subset
  <2>3. QED BY <1>1, <2>2, FS_CardinalityType
<1>3. MaxTexts \in Nat \ {0} BY ShowAssumption
<1>4. kept \subseteq D /\ IsFiniteSet(kept) /\ Cardinality(kept) <= MaxTexts - 1
  <2>1. CASE Cardinality(D) >= MaxTexts
    <3>1. D # {} BY <1>3, <2>1, FS_EmptySet
    <3>2. kept = WithoutOldest(D) BY <2>1
    <3>3. WithoutOldest(D) \subseteq D BY DEF WithoutOldest
    <3> HIDE DEF D, kept
    <3>4. IsFiniteSet(kept) /\ Cardinality(kept) = Cardinality(D) - 1
      BY <1>2, <3>1, <3>2, OldestGoes
    <3>5. Cardinality(D) <= MaxTexts BY DEF D
    <3>6. QED BY <1>2, <1>3, <3>2, <3>3, <3>4, <3>5
  <2>2. CASE ~(Cardinality(D) >= MaxTexts)
    <3>1. kept = D BY <2>2
    <3> HIDE DEF D, kept
    <3>2. QED BY <1>2, <1>3, <2>2, <3>1
  <2>3. QED BY <2>1, <2>2
<1>5. Wrote(ticks) =
        [x \in kept \cup {written + 1} |-> IF x = written + 1 THEN ticks ELSE texts[x]]
  BY DEF Wrote
<1> HIDE DEF kept
<1>6. DOMAIN Wrote(ticks) = kept \cup {written + 1} BY <1>5
<1>7. \A x \in kept \cup {written + 1} :
        x \in 1 .. written + 1 /\ Wrote(ticks)[x] \in Nat \ {0}
  BY <1>1, <1>4, <1>5
<1>8. Wrote(ticks) \in [DOMAIN Wrote(ticks) -> Nat \ {0}] BY <1>5, <1>6, <1>7
<1>9. Cardinality(kept \cup {written + 1}) <= MaxTexts
  <2>1. Cardinality(kept) \in Nat BY <1>4, FS_CardinalityType
  <2>2. Cardinality(kept \cup {written + 1}) \in {Cardinality(kept), Cardinality(kept) + 1}
    BY <1>4, FS_AddElement
  <2>3. QED BY <1>3, <1>4, <2>1, <2>2
<1>10. QED BY <1>6, <1>7, <1>8, <1>9

(* A step that leaves the effects alone.                                    *)
Unlit == UNCHANGED <<effectClock, effectVars>>

LEMMA UnlitSteps ==
  ASSUME GameTyped, [Next]_vars
  PROVE  Unlit \/ Tick \/ FadeFlashes \/ ShowEvent \/ EndEffects
<1> USE DEF Unlit, clockVars
<1>1. CASE Game BY <1>1, GameStep
<1>2. CASE \E c \in 1 .. Channels : SoundEnds(c) BY <1>2 DEF SoundEnds
<1>3. CASE Frame
  BY <1>3 DEF Frame, BeginUpdate, EndSystem, EndUpdate, NothingToPlay, LoadSounds, PlayEvent,
     SkipSound, EndSounds, AgeParticles, DrawUnit, LookForUnit, EndUnits, SkipEvent
<1>4. CASE UNCHANGED vars BY <1>4 DEF vars
<1>5. QED BY <1>1, <1>2, <1>3, <1>4 DEF Next

TextsBounded == Cardinality(DOMAIN texts) <= MaxTexts

LEMMA EffectsTypedKept ==
  ASSUME TypeInv, TextsBounded, [Next]_vars
  PROVE  EffectsTyped' /\ TextsBounded'
<1> USE ShowAssumption
<1>1. GameTyped /\ EffectsTyped /\ TextsBounded BY DEF TypeInv, TypeOK
<1>2. \A dt \in Nat : /\ DOMAIN Aged(texts, dt) \subseteq DOMAIN texts
                      /\ Aged(texts, dt) \in [DOMAIN Aged(texts, dt) -> Nat \ {0}]
  BY <1>1, AgedOnes DEF EffectsTyped
<1>3. CASE Unlit
  BY <1>1, <1>3 DEF Unlit, effectVars, EffectsTyped, TextsBounded
<1>4. CASE Tick
  <2>1. effectClock' = Smaller(LongestStep, effectClock + 1) /\ UNCHANGED effectVars
    BY <1>4 DEF Tick
  <2>2. effectClock + 1 \in Nat BY <1>1 DEF EffectsTyped
  <2>3. effectClock' \in 0 .. LongestStep BY <2>1, <2>2, SmallerLarger
  <2>4. QED BY <1>1, <2>1, <2>3 DEF effectVars, EffectsTyped, TextsBounded
<1>5. CASE FadeFlashes
  <2>1. /\ step' = effectClock /\ effectClock' = 0 /\ UNCHANGED <<texts, written>>
        /\ flash' = [f \in Flashes |-> [t \in Towers |->
                       Larger(0, flash[f][t] - FlashFade[f] * effectClock)]]
    BY <1>5 DEF FadeFlashes
  <2>2. ASSUME NEW f \in Flashes, NEW t \in Towers
        PROVE  Larger(0, flash[f][t] - FlashFade[f] * effectClock) \in 0 .. FullFlash
    <3>1. FlashFade[f] \in Nat /\ effectClock \in Nat /\ flash[f][t] \in 0 .. FullFlash
      BY <1>1 DEF EffectsTyped
    <3>2. FlashFade[f] * effectClock \in Nat BY <3>1
    <3> DEFINE was == flash[f][t]
               fade == FlashFade[f] * effectClock
    <3>3. was \in Nat /\ fade \in Nat BY <3>1, <3>2
    <3> HIDE DEF was, fade
    <3>4. Larger(0, was - fade) \in 0 .. was BY <3>3, SmallerLarger
    <3>5. Larger(0, was - fade) \in 0 .. FullFlash BY <3>1, <3>4 DEF was
    <3>6. QED BY <3>5 DEF was, fade
  <2>3. flash' \in [Flashes -> [Towers -> 0 .. FullFlash]] BY <2>1, <2>2
  <2>4. QED BY <1>1, <2>1, <2>3 DEF EffectsTyped, TextsBounded
<1>6. CASE ShowEvent
  <2> DEFINE e == Head(todo)
  <2>1. /\ e.type \in DOMAIN FlashOf /\ e.tower \in Towers
        /\ flash' = Lit(FlashOf[e.type], e.tower, e.type)
        /\ texts' = Wrote(TextLife[e.type]) /\ written' = written + 1
        /\ UNCHANGED <<effectClock, step>>
    BY <1>6 DEF ShowEvent, clockVars
  <2>2. FlashOf[e.type] \in Flashes BY <2>1 DEF FlashOf, Flashes
  <2>3. TextLife[e.type] \in Nat \ {0} /\ FlashGain[e.type] \in Nat BY <2>1
  <2>4. flash' \in [Flashes -> [Towers -> 0 .. FullFlash]]
    <3> DEFINE f == FlashOf[e.type]
               t == e.tower
               new == Smaller(FullFlash, flash[f][t] + FlashGain[e.type])
    <3>1. flash[f][t] \in Nat /\ flash \in [Flashes -> [Towers -> 0 .. FullFlash]]
      BY <1>1, <2>1, <2>2 DEF EffectsTyped
    <3>2. flash[f][t] + FlashGain[e.type] \in Nat BY <2>3, <3>1
    <3>3. new \in 0 .. FullFlash BY <3>2, SmallerLarger
    <3>4. flash' = [flash EXCEPT ![f][t] = new] BY <2>1 DEF Lit
    <3>5. f \in Flashes /\ t \in Towers BY <2>1, <2>2
    <3> HIDE DEF f, t, new
    <3>6. QED BY <3>1, <3>3, <3>4, <3>5
  <2> HIDE DEF e
  <2>5. /\ DOMAIN texts' \subseteq 1 .. written + 1
        /\ texts' \in [DOMAIN texts' -> Nat \ {0}]
        /\ Cardinality(DOMAIN texts') <= MaxTexts
    BY <1>1, <2>1, <2>3, WroteOne DEF TextsBounded
  <2>6. QED BY <1>1, <2>1, <2>4, <2>5 DEF EffectsTyped, TextsBounded
<1>7. CASE EndEffects
  <2>1. texts' = Aged(texts, step) /\ UNCHANGED <<effectClock, step, flash, written>>
    BY <1>7 DEF EndEffects, clockVars
  <2>2. step \in Nat BY <1>1 DEF EffectsTyped
  <2>3. /\ DOMAIN texts' \subseteq DOMAIN texts
        /\ texts' \in [DOMAIN texts' -> Nat \ {0}]
    BY <1>2, <2>1, <2>2
  <2>4. EffectsTyped' BY <1>1, <2>1, <2>3 DEF EffectsTyped
  <2>5. TextsBounded'
    <3> DEFINE D == DOMAIN texts
    <3>1. D \subseteq 1 .. written /\ written \in Int BY <1>1 DEF EffectsTyped
    <3>2. IsFiniteSet(1 .. written) BY <3>1, 1 \in Int, FS_Interval
    <3> HIDE DEF D
    <3>3. IsFiniteSet(D) BY <3>1, <3>2, FS_Subset
    <3>4. DOMAIN texts' \in SUBSET D BY <2>3 DEF D
    <3>5. Cardinality(DOMAIN texts') <= Cardinality(D) BY <3>3, <3>4, FS_Subset
    <3>6. IsFiniteSet(DOMAIN texts') BY <3>3, <3>4, FS_Subset
    <3>7. Cardinality(DOMAIN texts') \in Nat /\ Cardinality(D) \in Nat
      BY <3>3, <3>6, FS_CardinalityType
    <3>8. Cardinality(D) <= MaxTexts BY <1>1 DEF TextsBounded, D
    <3>9. QED BY <3>5, <3>7, <3>8 DEF TextsBounded
  <2>6. QED BY <2>4, <2>5
<1>8. QED BY <1>1, <1>3, <1>4, <1>5, <1>6, <1>7, UnlitSteps

-----------------------------------------------------------------------------
(* The theorems *)

ShowInv == TypeInv /\ TextsBounded

LEMMA ShowInvStart ==
  ASSUME Init
  PROVE  ShowInv
<1> USE ShowAssumption
<1>1. /\ <<>> \in Seq(Events) /\ DOMAIN <<>> = {} /\ "events" \in Phases
      /\ <<>> \in [DOMAIN <<>> -> Nat \ {0}]
      /\ <<>> \in [DOMAIN <<>> -> 1 .. ParticleLife["strong"]]
  BY DEF Phases
<1>2. GameTyped BY <1>1 DEF Init, GameTyped
<1>3. SoundTyped
  <2>1. \A k \in Sounds : Cooldown[k] \in Nat OBVIOUS
  <2>2. /\ audioEnabled \in BOOLEAN /\ loadAttempted = FALSE /\ loaded = {}
        /\ channels = [c \in 1 .. Channels |-> "idle"]
        /\ sinceSound = Cooldown /\ heard = Cooldown
    BY DEF Init
  <2>3. channels \in [1 .. Channels -> loaded \cup {"idle"}] BY <2>2
  <2>4. /\ sinceSound \in [Sounds -> Nat] /\ heard \in [Sounds -> Nat]
        /\ \A k \in Sounds : sinceSound[k] <= Cooldown[k] /\ heard[k] <= Cooldown[k]
    BY <2>1, <2>2
  <2>5. loadAttempted \in BOOLEAN /\ loaded \subseteq Sounds BY <2>2
  <2>6. QED BY <2>2, <2>3, <2>4, <2>5 DEF SoundTyped
<1>4. UnitsTyped BY <1>1 DEF Init, UnitsTyped
<1>5. EffectsTyped BY <1>1 DEF Init, EffectsTyped
<1>6. Between BY DEF Init, Between
<1>7. TextsBounded
  <2>1. DOMAIN texts = {} BY <1>1 DEF Init
  <2>2. QED BY <2>1, FS_EmptySet DEF TextsBounded
<1>8. QED BY <1>2, <1>3, <1>4, <1>5, <1>6, <1>7 DEF ShowInv, TypeInv, TypeOK

LEMMA ShowInvHolds == Spec => []ShowInv
<1>1. Init => ShowInv BY ShowInvStart
<1>2. ShowInv /\ [Next]_vars => ShowInv'
  <2>1. ASSUME ShowInv, [Next]_vars PROVE ShowInv'
    <3>1. GameTyped /\ TypeInv /\ TextsBounded BY <2>1 DEF ShowInv, TypeInv, TypeOK
    <3>2. GameTyped' BY <2>1, <3>1, GameTypedKept
    <3>3. SoundTyped' /\ (~loadAttempted => loaded = {})' BY <2>1, <3>1, SoundTypedKept
    <3>4. UnitsTyped' /\ (phase # "bursts" => entering = {} /\ vanishing = {})'
      BY <2>1, <3>1, UnitsTypedKept
    <3>5. EffectsTyped' /\ TextsBounded' BY <2>1, <3>1, EffectsTypedKept
    <3>6. QED BY <3>2, <3>3, <3>4, <3>5 DEF ShowInv, TypeInv, TypeOK, Between
  <2>2. QED BY <2>1
<1>3. QED BY <1>1, <1>2, PTL DEF Spec

(* Every variable keeps its type: in particular no particle or text outlives *)
(* its time, and only sounds whose file was found are played.               *)
THEOREM TypeCorrect == Spec => []TypeOK
<1>1. ShowInv => TypeOK BY DEF ShowInv, TypeInv
<1>2. QED BY <1>1, ShowInvHolds, PTL

(* A cooldown is owed to a sound that was heard: the time since it was kept *)
(* and the time since it was heard are reset by the same step and grow      *)
(* together.  AudioManager::playSound keeps it after play().                *)
THEOREM CooldownsAreOwed == Spec => []CooldownsWereHeard
<1>1. Init => CooldownsWereHeard BY DEF Init, CooldownsWereHeard
<1>2. ASSUME ShowInv, CooldownsWereHeard, [Next]_vars PROVE CooldownsWereHeard'
  <2>1. GameTyped /\ SoundTyped BY <1>2 DEF ShowInv, TypeInv, TypeOK
  <2>2. \A k \in Sounds : /\ sinceSound[k] \in Nat /\ heard[k] \in Nat /\ Cooldown[k] \in Nat
                          /\ sinceSound[k] < Cooldown[k] => heard[k] = sinceSound[k]
    BY <1>2, <2>1, ShowAssumption DEF SoundTyped, CooldownsWereHeard
  <2>3. CASE Silent \/ (\E c \in 1 .. Channels : SoundEnds(c))
                    \/ \E files \in SoundFiles : LoadSounds(files)
    <3>1. UNCHANGED <<sinceSound, heard>>
      BY <2>3 DEF Silent, SoundEnds, LoadSounds, clockVars
    <3>2. QED BY <1>2, <3>1 DEF CooldownsWereHeard
  <2>4. CASE Tick
    <3>1. ASSUME NEW k \in Sounds, sinceSound'[k] < Cooldown[k]
          PROVE  heard'[k] = sinceSound'[k]
      <4>1. /\ sinceSound'[k] = Smaller(Cooldown[k], sinceSound[k] + 1)
            /\ heard'[k] = Smaller(Cooldown[k], heard[k] + 1)
        BY <2>4 DEF Tick
      <4>2. sinceSound[k] < Cooldown[k] BY <2>2, <3>1, <4>1 DEF Smaller
      <4>3. heard[k] = sinceSound[k] BY <2>2, <4>2
      <4>4. QED BY <4>1, <4>3
    <3>2. QED BY <3>1 DEF CooldownsWereHeard
  <2>5. CASE PlayEvent
    <3> DEFINE s == SoundOf[Head(todo).type]
    <3>1. /\ sinceSound' = [sinceSound EXCEPT ![s] = 0]
          /\ heard' = [heard EXCEPT ![s] = 0]
      BY <2>5 DEF PlayEvent, Starts
    <3> HIDE DEF s
    <3>2. ASSUME NEW k \in Sounds, sinceSound'[k] < Cooldown[k]
          PROVE  heard'[k] = sinceSound'[k]
      <4>1. sinceSound \in [Sounds -> Nat] /\ heard \in [Sounds -> Nat]
        BY <2>1 DEF SoundTyped
      <4>2. CASE k = s BY <3>1, <4>1, <4>2
      <4>3. CASE k # s
        <5>1. sinceSound'[k] = sinceSound[k] /\ heard'[k] = heard[k] BY <3>1, <4>1, <4>3
        <5>2. QED BY <2>2, <3>2, <5>1
      <4>4. QED BY <4>2, <4>3
    <3>3. QED BY <3>2 DEF CooldownsWereHeard
  <2>6. QED BY <1>2, <2>1, <2>3, <2>4, <2>5, SilentSteps
<1>3. ShowInv /\ CooldownsWereHeard /\ [Next]_vars => CooldownsWereHeard' BY <1>2
<1>4. QED BY <1>1, <1>3, ShowInvHolds, PTL DEF Spec

(* The texts and the particles that are alive are never more than the caps  *)
(* of the two renderers, and what one strong burst may add to its own.      *)
ParticlesBounded == Cardinality(DOMAIN particles) <= MaxParticles - 1 + BurstSize["strong"]

THEOREM ShowIsBounded == Spec => []ShowBounded
<1>1. Init => ParticlesBounded
  <2>1. ASSUME Init PROVE ParticlesBounded
    <3>1. DOMAIN particles = {} BY <2>1 DEF Init
    <3>2. Cardinality(DOMAIN particles) = 0 BY <3>1, FS_EmptySet
    <3>3. MaxParticles - 1 \in Nat /\ BurstSize["strong"] \in Nat
      BY ShowAssumption DEF Bursts
    <3>4. QED BY <3>2, <3>3 DEF ParticlesBounded
  <2>2. QED BY <2>1
<1>2. ASSUME ShowInv, ParticlesBounded, [Next]_vars PROVE ParticlesBounded'
  <2>1. GameTyped /\ UnitsTyped BY <1>2 DEF ShowInv, TypeInv, TypeOK
  <2>2. ASSUME UNCHANGED particles PROVE ParticlesBounded'
    BY <1>2, <2>2 DEF ParticlesBounded
  <2>3. CASE Unburst BY <2>2, <2>3 DEF Unburst, unitVars
  <2>4. CASE Tick BY <2>2, <2>4 DEF Tick, unitVars
  <2>5. CASE EndUnits BY <2>2, <2>5 DEF EndUnits
  <2>6. CASE AgeParticles
    <3> DEFINE D == DOMAIN particles
    <3>1. particles' = Aged(particles, unitClock) BY <2>6 DEF AgeParticles
    <3>2. unitClock \in Nat /\ particles \in [DOMAIN particles -> Nat \ {0}]
      BY <2>1 DEF UnitsTyped
    <3>3. DOMAIN particles' \in SUBSET D BY <3>1, <3>2, AgedOnes
    <3>4. D \subseteq 1 .. sparks /\ sparks \in Int BY <2>1 DEF UnitsTyped
    <3>5. IsFiniteSet(1 .. sparks) BY <3>4, 1 \in Int, FS_Interval
    <3> HIDE DEF D
    <3>6. IsFiniteSet(D) BY <3>4, <3>5, FS_Subset
    <3>7. IsFiniteSet(DOMAIN particles') /\ Cardinality(DOMAIN particles') <= Cardinality(D)
      BY <3>3, <3>6, FS_Subset
    <3>8. Cardinality(DOMAIN particles') \in Nat /\ Cardinality(D) \in Nat
      BY <3>6, <3>7, FS_CardinalityType
    <3>9. Cardinality(D) <= MaxParticles - 1 + BurstSize["strong"]
      BY <1>2 DEF ParticlesBounded, D
    <3>10. MaxParticles \in Nat /\ BurstSize["strong"] \in Nat BY ShowAssumption DEF Bursts
    <3>11. QED BY <3>7, <3>8, <3>9, <3>10 DEF ParticlesBounded
  <2>7. ASSUME NEW kind \in Bursts, SpawnBurst(kind) PROVE ParticlesBounded'
    BY <2>1, <2>7, BurstOnes DEF ParticlesBounded
  <2>8. "weak" \in Bursts /\ "strong" \in Bursts BY DEF Bursts
  <2>9. CASE \E u \in Ids : DrawUnit(u)
    <3>1. SpawnBurst("weak") \/ UNCHANGED particles BY <2>9 DEF DrawUnit
    <3>2. QED BY <2>2, <2>7, <2>8, <3>1
  <2>10. CASE \E u \in Ids : LookForUnit(u)
    <3>1. SpawnBurst("strong") \/ UNCHANGED particles BY <2>10 DEF LookForUnit
    <3>2. QED BY <2>2, <2>7, <2>8, <3>1
  <2>11. QED
    BY <1>2, <2>1, <2>3, <2>4, <2>5, <2>6, <2>9, <2>10, UnburstSteps
<1>3. ShowInv /\ ParticlesBounded => ShowBounded
  BY DEF ShowInv, TextsBounded, ParticlesBounded, ShowBounded
<1>4. ShowInv /\ ParticlesBounded /\ [Next]_vars => ParticlesBounded' BY <1>2
<1>5. QED BY <1>1, <1>3, <1>4, ShowInvHolds, PTL DEF Spec

(* A unit that has not burst is remembered by the renderer from the frame   *)
(* that drew it to the one that misses it; one that has is not.             *)
Remembered ==
  /\ previous \subseteq drawn
  /\ \A u \in vanishing : bursts[u] = 0
  /\ phase # "bursts" => \A u \in previous : bursts[u] = 0

(* A unit that was drawn bursts once it has left the field, and once only,  *)
(* unless a crowded frame misses it: by F5 and resets as by combat, and     *)
(* through any number of frames.                                            *)
THEOREM VanishedUnitsBurst == Spec => []VanishedBurstOnce
<1> DEFINE Inv == Remembered /\ VanishedBurstOnce
<1>1. Init => Inv
  BY DEF Init, Remembered, VanishedBurstOnce
<1>2. ASSUME ShowInv, Inv, [Next]_vars PROVE Inv'
  <2>1. GameTyped /\ UnitsTyped /\ Between BY <1>2 DEF ShowInv, TypeInv, TypeOK
  <2>2. /\ made \in Nat /\ field \subseteq 1 .. made /\ drawn \subseteq 1 .. made
        /\ 1 .. made \subseteq Ids /\ previous \subseteq 1 .. made /\ vanishing \subseteq previous
        /\ bursts \in [Ids -> Nat]
    <3>1. made \in 0 .. MaxMade /\ MaxMade \in Nat BY <2>1, ShowAssumption DEF GameTyped
    <3>2. 1 .. made \subseteq Ids BY <3>1 DEF Ids
    <3>3. field \subseteq 1 .. made BY <2>1 DEF GameTyped
    <3>4. /\ drawn \subseteq 1 .. made /\ previous \subseteq 1 .. made
          /\ vanishing \subseteq previous /\ bursts \in [Ids -> Nat]
      BY <2>1 DEF UnitsTyped
    <3>5. QED BY <3>1, <3>2, <3>3, <3>4
  <2>3. CASE \/ Unburst /\ UNCHANGED <<made, field>> /\ (phase = "bursts" <=> phase' = "bursts")
             \/ Tick
    <3>1. /\ UNCHANGED <<previous, vanishing, drawn, bursts, muted, field>>
          /\ phase = "bursts" <=> phase' = "bursts"
      BY <2>3 DEF Unburst, unitVars, Tick, gameVars
    <3>2. QED BY <1>2, <3>1 DEF Remembered, VanishedBurstOnce
  <2>4. CASE Unburst /\ Game
    <3>1. UNCHANGED <<previous, vanishing, drawn, bursts, muted>>
      BY <2>4 DEF Unburst, unitVars
    <3>2. phase # "bursts" /\ phase' = phase /\ made <= made'
          /\ field' \subseteq field \cup (made + 1 .. made')
      BY <2>1, <2>4, GameStep
    <3>3. Remembered' BY <1>2, <3>1, <3>2 DEF Remembered
    <3>4. ASSUME NEW u \in Ids, u \in drawn \ field PROVE u \notin field'
      <4>1. u \in 1 .. made BY <2>2, <3>4
      <4>2. u \notin made + 1 .. made' BY <2>2, <4>1
      <4>3. QED BY <3>2, <3>4, <4>2
    <3>5. VanishedBurstOnce' BY <1>2, <3>1, <3>2, <3>4 DEF VanishedBurstOnce
    <3>6. QED BY <3>3, <3>5
  <2>5. CASE AgeParticles
    <3>1. /\ phase = "units" /\ phase' = "bursts" /\ vanishing' = previous
          /\ UNCHANGED <<previous, drawn, bursts, muted, field>>
      BY <2>5 DEF AgeParticles, gameVars
    <3>2. QED BY <1>2, <3>1 DEF Remembered, VanishedBurstOnce
  <2>6. CASE \E u \in Ids : DrawUnit(u)
    <3>1. UNCHANGED <<phase, previous, vanishing, drawn, bursts, muted, field>>
      BY <2>6 DEF DrawUnit, gameVars
    <3>2. QED BY <1>2, <3>1 DEF Remembered, VanishedBurstOnce
  <2>7. CASE \E u \in Ids : LookForUnit(u)
    <3>1. PICK u \in Ids : LookForUnit(u) BY <2>7
    <3>2. /\ phase = "bursts" /\ u \in vanishing /\ vanishing' = vanishing \ {u}
          /\ UNCHANGED <<phase, previous, drawn, field>>
          /\ u \notin field /\ ~Crowded => bursts' = [bursts EXCEPT ![u] = @ + 1]
          /\ ~(u \notin field /\ ~Crowded) => bursts' = bursts
          /\ u \notin field /\ Crowded => muted' = muted \cup {u}
          /\ ~(u \notin field /\ Crowded) => muted' = muted
      BY <3>1 DEF LookForUnit, gameVars
    <3>3. bursts[u] = 0 /\ u \in drawn BY <1>2, <2>2, <3>2 DEF Remembered
    <3>4. \A v \in Ids : v # u => bursts'[v] = bursts[v] BY <2>2, <3>2
    <3>5. u \notin field /\ ~Crowded => bursts'[u] = 1 BY <2>2, <3>2, <3>3
    <3>6. u \in field \/ Crowded => bursts'[u] = 0 BY <3>2, <3>3
    <3>7. muted \subseteq muted' BY <3>2
    <3>8. Remembered' BY <1>2, <2>2, <3>2, <3>4 DEF Remembered
    <3>9. ASSUME NEW v \in Ids
          PROVE  /\ bursts'[v] <= 1
                 /\ bursts'[v] = 1 => v \in drawn' \ field'
                 /\ v \in drawn' =>
                      \/ v \in previous' /\ (phase' = "bursts" => v \in vanishing' \/ v \in field')
                      \/ bursts'[v] = 1
                      \/ v \in muted'
      <4>1. CASE v # u BY <1>2, <3>2, <3>4, <3>7, <4>1 DEF VanishedBurstOnce
      <4>2. CASE v = u /\ u \in field
        <5>1. bursts'[v] = 0 /\ v \in previous' /\ v \in field'
          BY <2>2, <3>2, <3>6, <4>2
        <5>2. QED BY <5>1
      <4>3. CASE v = u /\ u \notin field /\ ~Crowded BY <3>2, <3>3, <3>5, <4>3
      <4>4. CASE v = u /\ u \notin field /\ Crowded
        <5>1. bursts'[v] = 0 /\ v \in muted' BY <3>2, <3>6, <4>4
        <5>2. QED BY <5>1
      <4>5. QED BY <4>1, <4>2, <4>3, <4>4
    <3>10. QED BY <3>8, <3>9 DEF VanishedBurstOnce
  <2>8. CASE EndUnits
    <3>1. /\ phase = "bursts" /\ vanishing = {} /\ phase' = "effects"
          /\ previous' = field /\ drawn' = drawn \cup field
          /\ UNCHANGED <<vanishing, bursts, muted, field>>
      BY <2>8 DEF EndUnits, gameVars
    <3>2. \A u \in field : bursts[u] = 0
      <4>1. ASSUME NEW u \in field PROVE bursts[u] = 0
        <5>1. u \in Ids /\ bursts[u] \in Nat BY <2>2
        <5>2. bursts[u] <= 1 /\ bursts[u] # 1 BY <1>2, <5>1 DEF VanishedBurstOnce
        <5>3. QED BY <5>1, <5>2
      <4>2. QED BY <4>1
    <3>3. Remembered' BY <3>1, <3>2 DEF Remembered
    <3>4. VanishedBurstOnce' BY <1>2, <3>1 DEF VanishedBurstOnce
    <3>5. QED BY <3>3, <3>4
  <2>9. QED BY <1>2, <2>1, <2>3, <2>4, <2>5, <2>6, <2>7, <2>8, UnburstSteps
<1>3. Spec => []Inv
  <2>1. ShowInv /\ Inv /\ [Next]_vars => Inv' BY <1>2
  <2> HIDE DEF Inv
  <2>2. QED BY <1>1, <2>1, ShowInvHolds, PTL DEF Spec
<1>4. QED BY <1>3, PTL
=============================================================================
