------------------------------ MODULE Feedback ------------------------------
(***************************************************************************)
(* What the player of tiktokwar hears and sees of a frame: AudioManager,   *)
(* UnitRenderer and EffectsRenderer, which keep state of their own between *)
(* frames.  The frame loop is that of TowerWar, whose steps are here the   *)
(* units they bring and take and the events they leave behind:             *)
(*                                                                         *)
(*   events -> spawn -> collide -> combat -> round -> sound ->             *)
(*             units -> bursts -> effects -> texts -> events               *)
(*                                                                         *)
(* "sound" is AudioManager::playEvents, the last call of Game::update; the *)
(* phases after it are Renderer::render.  The loops over events and units  *)
(* are taken one iteration at a time.  Time passes between any two steps,  *)
(* in ticks: the three clocks of the code are kept as the ticks since they *)
(* were last read, up to the value beyond which the code does not look.    *)
(* Positions, colours and the drawing itself are left out.                 *)
(***************************************************************************)
EXTENDS Integers, Sequences, FiniteSets

CONSTANTS
  Towers,          (* ids of the towers on the canvas                       *)
  Channels,        (* sounds that can play at once (6)                      *)
  SoundFiles,      (* the sets of sound files there may be on the disk      *)
  Cooldown,        (* ticks between two sounds of a kind, by kind           *)
  LongestStep,     (* ticks a frame ages the effects by, at most (0.05 s)   *)
  TextLife,        (* ticks a floating text lasts, by event type            *)
  MaxTexts,        (* EffectsRenderer::maxFloatingTexts_ (140)              *)
  FullFlash,       (* a flash at full intensity (1.0)                       *)
  FlashGain,       (* what an event adds to a flash, by event type          *)
  FlashFade,       (* what a tick takes from a flash, by kind of flash      *)
  MaxParticles,    (* kMaxParticles (160)                                   *)
  BurstSize,       (* particles of a burst: 3 weak, 6 strong                *)
  ParticleLife,    (* ticks such a particle lasts: 0.24 s, 0.32 s           *)
  HeavyLoad,       (* units beyond which no burst is shown (110)            *)
  MaxMade,         (* bound of the model: units made in all                 *)
  MaxNews          (* bound of the model: events in all                     *)

Sounds == {"hit", "heal", "destroy", "spawn"}
Flashes == {"damage", "heal"}
Bursts == {"weak", "strong"}
InvalidId == -1

(* The sound of an event, the flash it lights, and the events that have a   *)
(* floating text.                                                           *)
SoundOf == [TowerDamaged |-> "hit", TowerHealed |-> "heal",
            TowerDestroyed |-> "destroy", UnitSpawned |-> "spawn"]
FlashOf == [TowerDamaged |-> "damage", TowerHealed |-> "heal", TowerDestroyed |-> "damage"]
EventTypes == DOMAIN SoundOf \cup {"UnitDestroyed", "RoundEnded"}

ASSUME ShowAssumption ==
  /\ Towers \subseteq Nat /\ Channels \in Nat /\ SoundFiles \subseteq SUBSET Sounds
  /\ Cooldown \in [Sounds -> Nat] /\ LongestStep \in Nat
  /\ TextLife \in [DOMAIN FlashOf -> Nat \ {0}] /\ MaxTexts \in Nat \ {0}
  /\ FullFlash \in Nat /\ FlashGain \in [DOMAIN FlashOf -> Nat]
  /\ FlashGain["TowerDestroyed"] >= FullFlash
  /\ FlashFade \in [Flashes -> Nat]
  /\ MaxParticles \in Nat \ {0} /\ BurstSize \in [Bursts -> Nat \ {0}]
  /\ ParticleLife \in [Bursts -> Nat \ {0}]
  /\ BurstSize["weak"] <= BurstSize["strong"] /\ ParticleLife["weak"] <= ParticleLife["strong"]
  /\ HeavyLoad \in Nat /\ MaxMade \in Nat /\ MaxNews \in Nat

VARIABLES
  phase,           (* where the frame is                                    *)
  field,           (* ids of the units of GameState::units_                 *)
  made,            (* units made so far, in the order of their ids: 1 .. made *)
  events,          (* GameState::events_                                    *)
  todo,            (* events the running loop has not reached               *)
  news,            (* events in all, for the bound                          *)
  audioEnabled,    (* AudioManager::audioEnabled_                           *)
  loadAttempted,   (* AudioManager::loadAttempted_                          *)
  loaded,          (* sounds whose buffer was loaded                        *)
  sinceSound,      (* ticks since last...Ms_, by sound                      *)
  channels,        (* the sound each channel plays, or "idle"               *)
  unitClock,       (* UnitRenderer::frameClock_                             *)
  previous,        (* keys of UnitRenderer::previousPositions_              *)
  entering,        (* units the drawing loop has not reached                *)
  vanishing,       (* keys of previous the burst loop has not reached       *)
  particles,       (* UnitRenderer::particles_: number -> ticks left        *)
  sparks,          (* particles made in all                                 *)
  effectClock,     (* EffectsRenderer::frameClock_                          *)
  step,            (* dt of EffectsRenderer::render                         *)
  flash,           (* damageFlash_ and healFlash_, 0 where there is no entry *)
  texts,           (* floatingTexts_: number -> ticks left                  *)
  written,         (* texts written in all                                  *)
  heard,           (* history: ticks since a channel started a sound        *)
  drawn,           (* history: units drawn so far                           *)
  bursts,          (* history: strong bursts shown, by unit                 *)
  muted            (* history: units that vanished in a crowded frame       *)

gameVars   == <<field, made, events, news>>
audioVars  == <<audioEnabled, loadAttempted, loaded, channels>>
clockVars  == <<sinceSound, heard, unitClock, effectClock>>
unitVars   == <<previous, entering, vanishing, particles, sparks, drawn, bursts, muted>>
effectVars == <<step, flash, texts, written>>
vars == <<phase, gameVars, todo, audioVars, clockVars, unitVars, effectVars>>

Ids == 1 .. MaxMade
Event(type, tower) == [type |-> type, tower |-> tower]
Events == [type : EventTypes, tower : Towers \cup {InvalidId}]

Smaller(x, y) == IF x <= y THEN x ELSE y
Larger(x, y)  == IF x >= y THEN x ELSE y

-----------------------------------------------------------------------------
(* Texts and particles are numbered in the order in which they were pushed, *)
(* so that the front of the vector is the smallest number.                  *)

WithoutOldest(S) == {x \in S : \E y \in S : y < x}
Newest(S, n) == {x \in S : Cardinality({y \in S : x < y}) < n}

(* What is left after dt ticks: expired entries are erased.                 *)
AgedKeepsExpired(left, dt) ==
  [x \in {y \in DOMAIN left : left[y] >= dt} |-> left[x] - dt]
Aged(left, dt) == [x \in {y \in DOMAIN left : left[y] > dt} |-> left[x] - dt]

Only(S, left) == [x \in S |-> left[x]]

Init ==
  /\ phase = "events"
  /\ field = {} /\ made = 0 /\ events = <<>> /\ todo = <<>> /\ news = 0
  /\ audioEnabled \in BOOLEAN
  /\ loadAttempted = FALSE
  /\ loaded = {}
  /\ sinceSound = Cooldown
  /\ channels = [c \in 1 .. Channels |-> "idle"]
  /\ unitClock = 0
  /\ previous = {} /\ entering = {} /\ vanishing = {} /\ particles = <<>> /\ sparks = 0
  /\ effectClock = 0
  /\ step = 0
  /\ flash = [f \in Flashes |-> [t \in Towers |-> 0]]
  /\ texts = <<>> /\ written = 0
  /\ heard = Cooldown
  /\ drawn = {} /\ bursts = [u \in Ids |-> 0] /\ muted = {}

-----------------------------------------------------------------------------
(* Time, and the sound device *)

Tick ==
  /\ sinceSound' = [k \in Sounds |-> Smaller(Cooldown[k], sinceSound[k] + 1)]
  /\ heard' = [k \in Sounds |-> Smaller(Cooldown[k], heard[k] + 1)]
  /\ unitClock' = Smaller(LongestStep, unitClock + 1)
  /\ effectClock' = Smaller(LongestStep, effectClock + 1)
  /\ UNCHANGED <<phase, gameVars, todo, audioVars, unitVars, effectVars>>

SoundEnds(c) ==
  /\ channels[c] # "idle"
  /\ channels' = [channels EXCEPT ![c] = "idle"]
  /\ UNCHANGED <<phase, gameVars, todo, audioEnabled, loadAttempted, loaded, clockVars,
                 unitVars, effectVars>>

-----------------------------------------------------------------------------
(* The game: keys before the update, then the systems of Game::update.      *)

PressF5 ==
  /\ phase = "events"
  /\ field' = {} /\ events' = <<>>
  /\ UNCHANGED <<phase, made, news, todo, audioVars, clockVars, unitVars, effectVars>>

BeginUpdate ==
  /\ phase = "events"
  /\ events' = <<>>
  /\ phase' = "spawn"
  /\ UNCHANGED <<field, made, news, todo, audioVars, clockVars, unitVars, effectVars>>

(* One step of a system: units leave, n new ones come, events are left.     *)
Happens(system, gone, n, what) ==
  /\ phase = system
  /\ made + n <= MaxMade /\ news + Len(what) <= MaxNews
  /\ field' = (field \ gone) \cup (made + 1 .. made + n)
  /\ made' = made + n
  /\ events' = events \o what
  /\ news' = news + Len(what)
  /\ UNCHANGED <<todo, audioVars, clockVars, unitVars, effectVars>>

(* The commands, of players and of autoplay.                                *)
VolleySpawned ==
  /\ \E t \in Towers, n \in Ids : Happens("spawn", {}, n, <<Event("UnitSpawned", t)>>)
  /\ UNCHANGED phase
TowerHealed ==
  /\ \E t \in Towers : Happens("spawn", {}, 0, <<Event("TowerHealed", t)>>)
  /\ UNCHANGED phase

(* A ResetGame command forgets the events of the batch so far.              *)
ResetGame ==
  /\ phase = "spawn"
  /\ field' = {} /\ events' = <<>>
  /\ UNCHANGED <<phase, made, news, todo, audioVars, clockVars, unitVars, effectVars>>

(* One or both of two units that meet die; a dead one may go on fighting in *)
(* its row, and is announced again.                                         *)
UnitsCollide ==
  /\ \E u, v \in field :
       Happens("collide", {u, v}, 0, <<Event("UnitDestroyed", InvalidId)>>)
  /\ UNCHANGED phase
DeadUnitFightsOn ==
  /\ \E i \in DOMAIN events : events[i].type = "UnitDestroyed"
  /\ Happens("collide", {}, 0, <<Event("UnitDestroyed", InvalidId)>>)
  /\ UNCHANGED phase

UnitHitsTower ==
  /\ \E u \in field, t \in Towers :
       Happens("combat", {u}, 0, <<Event("TowerDamaged", t)>>)
  /\ UNCHANGED phase
UnitFellsTower ==
  /\ \E u \in field, t \in Towers :
       Happens("combat", {u}, 0, <<Event("TowerDamaged", t), Event("TowerDestroyed", t)>>)
  /\ UNCHANGED phase
StrayDestroyed ==
  /\ \E u \in field : Happens("combat", {u}, 0, <<>>)
  /\ UNCHANGED phase

EndSystem(system, next) ==
  /\ phase = system
  /\ phase' = next
  /\ UNCHANGED <<gameVars, todo, audioVars, clockVars, unitVars, effectVars>>

RoundEnds ==
  /\ \A i \in DOMAIN events : events[i].type # "RoundEnded"
  /\ \E t \in Towers \cup {InvalidId} : Happens("round", {}, 0, <<Event("RoundEnded", t)>>)
  /\ UNCHANGED phase

EndUpdate ==
  /\ phase = "round"
  /\ phase' = "sound"
  /\ todo' = events
  /\ UNCHANGED <<gameVars, audioVars, clockVars, unitVars, effectVars>>

-----------------------------------------------------------------------------
(* AudioManager::playEvents                                                 *)

NothingToPlay ==
  /\ phase = "sound" /\ (~audioEnabled \/ events = <<>>)
  /\ phase' = "units"
  /\ todo' = <<>>
  /\ UNCHANGED <<gameVars, audioVars, clockVars, unitVars, effectVars>>

(* ensureLoaded: the files are looked for once.  With none of them the      *)
(* audio is off for good.                                                   *)
LoadSounds(files) ==
  /\ phase = "sound" /\ audioEnabled /\ events # <<>>
  /\ ~loadAttempted
  /\ loadAttempted' = TRUE
  /\ loaded' = files
  /\ audioEnabled' = (files # {})
  /\ UNCHANGED <<phase, gameVars, todo, channels, clockVars, unitVars, effectVars>>

(* acquireFreeChannel: the first that is not playing.                       *)
IdleChannels == {c \in 1 .. Channels : channels[c] = "idle"}
IsFreeChannel(c) == c \in IdleChannels /\ \A d \in IdleChannels : c <= d

(* playSound: the cooldown is tested before a channel is sought, and starts *)
(* only when one is found.                                                  *)
Due(k) == k \in loaded /\ sinceSound[k] >= Cooldown[k]

StartsAtOnce(k) ==
  /\ Due(k)
  /\ sinceSound' = [sinceSound EXCEPT ![k] = 0]
  /\ IF \E c \in 1 .. Channels : IsFreeChannel(c)
     THEN /\ \E c \in 1 .. Channels :
               IsFreeChannel(c) /\ channels' = [channels EXCEPT ![c] = k]
          /\ heard' = [heard EXCEPT ![k] = 0]
     ELSE UNCHANGED <<channels, heard>>

Starts(k) ==
  /\ Due(k)
  /\ \E c \in 1 .. Channels :
       IsFreeChannel(c) /\ channels' = [channels EXCEPT ![c] = k]
  /\ sinceSound' = [sinceSound EXCEPT ![k] = 0]
  /\ heard' = [heard EXCEPT ![k] = 0]

PlaysNothing(k) == ~Due(k) \/ IdleChannels = {}

Playing == phase = "sound" /\ audioEnabled /\ loadAttempted /\ todo # <<>>

PlayEvent ==
  /\ Playing
  /\ Head(todo).type \in DOMAIN SoundOf /\ Starts(SoundOf[Head(todo).type])
  /\ todo' = Tail(todo)
  /\ UNCHANGED <<phase, gameVars, audioEnabled, loadAttempted, loaded, unitClock,
                 effectClock, unitVars, effectVars>>

SkipSound ==
  /\ Playing
  /\ Head(todo).type \in DOMAIN SoundOf => PlaysNothing(SoundOf[Head(todo).type])
  /\ todo' = Tail(todo)
  /\ UNCHANGED <<phase, gameVars, audioVars, clockVars, unitVars, effectVars>>

EndSounds ==
  /\ phase = "sound" /\ audioEnabled /\ events # <<>> /\ todo = <<>>
  /\ phase' = "units"
  /\ UNCHANGED <<gameVars, todo, audioVars, clockVars, unitVars, effectVars>>

-----------------------------------------------------------------------------
(* UnitRenderer::render: the particles age; a unit the last frame did not   *)
(* have bursts weakly, then a unit of the last frame that this frame does   *)
(* not have bursts strongly, unless the field is crowded.                   *)

AgeParticles ==
  /\ phase = "units"
  /\ phase' = "bursts"
  /\ particles' = Aged(particles, unitClock)
  /\ unitClock' = 0
  /\ entering' = field
  /\ vanishing' = previous
  /\ UNCHANGED <<gameVars, todo, audioVars, sinceSound, heard, effectClock, previous,
                 sparks, drawn, bursts, muted, effectVars>>

Crowded == Cardinality(field) > HeavyLoad

(* spawnBurst: with MaxParticles or more, the oldest go until one place is  *)
(* free; then the whole burst is pushed.                                    *)
SparksRoomForgotten ==
  Only(IF Cardinality(DOMAIN particles) > MaxParticles
       THEN Newest(DOMAIN particles, MaxParticles) ELSE DOMAIN particles, particles)
Spared ==
  Only(IF Cardinality(DOMAIN particles) >= MaxParticles
       THEN Newest(DOMAIN particles, MaxParticles - 1) ELSE DOMAIN particles, particles)
SpawnBurst(kind) ==
  /\ particles' = [x \in DOMAIN Spared \cup (sparks + 1 .. sparks + BurstSize[kind]) |->
                     IF x > sparks THEN ParticleLife[kind] ELSE Spared[x]]
  /\ sparks' = sparks + BurstSize[kind]

DrawUnit(u) ==
  /\ phase = "bursts" /\ u \in entering
  /\ entering' = entering \ {u}
  /\ IF u \notin previous /\ ~Crowded THEN SpawnBurst("weak")
     ELSE UNCHANGED <<particles, sparks>>
  /\ UNCHANGED <<phase, gameVars, todo, audioVars, clockVars, previous, vanishing, drawn,
                 bursts, muted, effectVars>>

LookForUnit(u) ==
  /\ phase = "bursts" /\ entering = {} /\ u \in vanishing
  /\ vanishing' = vanishing \ {u}
  /\ IF u \notin field /\ ~Crowded
     THEN SpawnBurst("strong") /\ bursts' = [bursts EXCEPT ![u] = @ + 1]
     ELSE UNCHANGED <<particles, sparks, bursts>>
  /\ muted' = IF u \notin field /\ Crowded THEN muted \cup {u} ELSE muted
  /\ UNCHANGED <<phase, gameVars, todo, audioVars, clockVars, previous, entering, drawn,
                 effectVars>>

KeepPrevious ==
  /\ phase = "bursts" /\ entering = {} /\ vanishing = {}
  /\ phase' = "effects"
  /\ previous' = previous \cup field
  /\ drawn' = drawn \cup field
  /\ UNCHANGED <<gameVars, todo, audioVars, clockVars, entering, vanishing, particles,
                 sparks, bursts, muted, effectVars>>

EndUnits ==
  /\ phase = "bursts" /\ entering = {} /\ vanishing = {}
  /\ phase' = "effects"
  /\ previous' = field
  /\ drawn' = drawn \cup field
  /\ UNCHANGED <<gameVars, todo, audioVars, clockVars, entering, vanishing, particles,
                 sparks, bursts, muted, effectVars>>

-----------------------------------------------------------------------------
(* EffectsRenderer::render: the flashes fade, the events light them and     *)
(* write their texts, then the texts age.                                   *)

FadeFlashes ==
  /\ phase = "effects"
  /\ phase' = "texts"
  /\ step' = effectClock
  /\ effectClock' = 0
  /\ flash' = [f \in Flashes |-> [t \in Towers |->
                 Larger(0, flash[f][t] - FlashFade[f] * effectClock)]]
  /\ todo' = events
  /\ UNCHANGED <<gameVars, audioVars, sinceSound, heard, unitClock, unitVars, texts, written>>

Lit(f, t, type) ==
  [flash EXCEPT ![f][t] = Smaller(FullFlash, @ + FlashGain[type])]

(* spawnFloatingText: at MaxTexts the oldest text makes room.               *)
Wrote(ticks) ==
  LET kept == IF Cardinality(DOMAIN texts) >= MaxTexts
              THEN WithoutOldest(DOMAIN texts) ELSE DOMAIN texts
  IN [x \in kept \cup {written + 1} |-> IF x = written + 1 THEN ticks ELSE texts[x]]

ShowEvent ==
  LET e == Head(todo)
  IN /\ phase = "texts" /\ todo # <<>>
     /\ e.type \in DOMAIN FlashOf /\ e.tower \in Towers
     /\ flash' = Lit(FlashOf[e.type], e.tower, e.type)
     /\ texts' = Wrote(TextLife[e.type])
     /\ written' = written + 1
     /\ todo' = Tail(todo)
     /\ UNCHANGED <<phase, gameVars, audioVars, clockVars, unitVars, step>>

SkipEvent ==
  /\ phase = "texts" /\ todo # <<>>
  /\ Head(todo).type \notin DOMAIN FlashOf \/ Head(todo).tower \notin Towers
  /\ todo' = Tail(todo)
  /\ UNCHANGED <<phase, gameVars, audioVars, clockVars, unitVars, effectVars>>

EndEffects ==
  /\ phase = "texts" /\ todo = <<>>
  /\ texts' = Aged(texts, step)
  /\ phase' = "events"
  /\ UNCHANGED <<gameVars, todo, audioVars, clockVars, unitVars, step, flash, written>>

-----------------------------------------------------------------------------
Game ==
  \/ PressF5
  \/ VolleySpawned
  \/ TowerHealed
  \/ ResetGame
  \/ UnitsCollide
  \/ DeadUnitFightsOn
  \/ UnitHitsTower
  \/ UnitFellsTower
  \/ StrayDestroyed
  \/ RoundEnds

Frame ==
  \/ BeginUpdate
  \/ EndSystem("spawn", "collide")
  \/ EndSystem("collide", "combat")
  \/ EndSystem("combat", "round")
  \/ EndUpdate
  \/ NothingToPlay
  \/ \E files \in SoundFiles : LoadSounds(files)
  \/ PlayEvent
  \/ SkipSound
  \/ EndSounds
  \/ AgeParticles
  \/ \E u \in Ids : DrawUnit(u)
  \/ \E u \in Ids : LookForUnit(u)
  \/ EndUnits
  \/ FadeFlashes
  \/ ShowEvent
  \/ SkipEvent
  \/ EndEffects

Next == Tick \/ (\E c \in 1 .. Channels : SoundEnds(c)) \/ Game \/ Frame

Spec == Init /\ [][Next]_vars

-----------------------------------------------------------------------------
Phases == {"events", "spawn", "collide", "combat", "round", "sound",
           "units", "bursts", "effects", "texts"}

GameTyped ==
  /\ phase \in Phases
  /\ made \in 0 .. MaxMade /\ field \subseteq 1 .. made
  /\ events \in Seq(Events) /\ todo \in Seq(Events) /\ news \in 0 .. MaxNews

SoundTyped ==
  /\ audioEnabled \in BOOLEAN /\ loadAttempted \in BOOLEAN /\ loaded \subseteq Sounds
  /\ channels \in [1 .. Channels -> loaded \cup {"idle"}]
  /\ sinceSound \in [Sounds -> Nat] /\ heard \in [Sounds -> Nat]
  /\ \A k \in Sounds : sinceSound[k] <= Cooldown[k] /\ heard[k] <= Cooldown[k]

UnitsTyped ==
  /\ unitClock \in 0 .. LongestStep
  /\ previous \subseteq 1 .. made /\ entering \subseteq field /\ vanishing \subseteq previous
  /\ sparks \in Nat /\ DOMAIN particles \subseteq 1 .. sparks
  /\ particles \in [DOMAIN particles -> 1 .. ParticleLife["strong"]]
  /\ drawn \subseteq 1 .. made /\ muted \subseteq 1 .. made
  /\ bursts \in [Ids -> Nat]

EffectsTyped ==
  /\ effectClock \in 0 .. LongestStep /\ step \in 0 .. LongestStep
  /\ flash \in [Flashes -> [Towers -> 0 .. FullFlash]]
  /\ written \in Nat /\ DOMAIN texts \subseteq 1 .. written
  /\ texts \in [DOMAIN texts -> Nat \ {0}]

(* Type correctness.  What is numbered was numbered before, has ticks left  *)
(* and no more than it began with; a flash is never above full intensity;   *)
(* only a loaded sound plays.                                               *)
TypeOK == GameTyped /\ SoundTyped /\ UnitsTyped /\ EffectsTyped

(* A cooldown is owed to a sound: while a sound is refused for having been  *)
(* played a moment ago, a channel did start it that long ago.  A sound that *)
(* found every channel busy is not held back by it.                         *)
CooldownsWereHeard ==
  \A k \in Sounds : sinceSound[k] < Cooldown[k] => heard[k] = sinceSound[k]

(* A unit that was drawn bursts once it has left the field, and once only;  *)
(* the only ones that vanish without a burst do so in a crowded frame.      *)
VanishedBurstOnce ==
  \A u \in Ids :
    /\ bursts[u] <= 1
    /\ bursts[u] = 1 => u \in drawn \ field
    /\ u \in drawn =>
         \/ u \in previous /\ (phase = "bursts" => u \in vanishing \/ u \in field)
         \/ bursts[u] = 1
         \/ u \in muted

(* The effects that are alive are bounded: texts by their cap, particles by *)
(* their cap and all but one particle of the strong burst that passed it.   *)
ShowBounded ==
  /\ Cardinality(DOMAIN texts) <= MaxTexts
  /\ Cardinality(DOMAIN particles) <= MaxParticles - 1 + BurstSize["strong"]
=============================================================================
