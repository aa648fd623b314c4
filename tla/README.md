# TikTokGames: specifications, model checking and proofs

This directory specifies the two programs of the repository in TLA+:

* **tiktokwar** (C++/SFML): a tower game.  Towers send units at each other along
  lanes; commands come from the keyboard, from local UDP messages and from an
  autoplay mode.
* **tiktoklistener** (Python/asyncio): a gateway.  It connects to a TikTok live
  stream, normalizes its events, fans them out to WebSocket clients and turns
  them into messages for the game.

The sources are the reference: every definition listed under `map` in
`PROJECT.json` names the lines it stands for.

## 1. Inventory

### tiktokwar

| Part | State | Operations | What makes it correct |
|---|---|---|---|
| Towers, units (`model/`) | `hp_`, `alive_`; `progress_`, `health_`, `alive_` | `takeDamage`, `heal`, `reset`, `destroy`, `setProgress` | health within bounds, alive exactly while there is health |
| `SpawnSystem` | `donationStreaks_` | `apply`: reset, heal, attack | cap on units, streaks advance by what was spawned, the dead are not healed |
| `MovementSystem` | none | `update` | nothing moves in an ended round, who passes an opponent has been taken across by one frame |
| `CollisionSystem` | none | `update`: all pairs, then erase | contacts cost both sides, dead units take no part |
| `CombatSystem` | none | `update`: all units, then erase | only live towers are hit, falls are announced once |
| `RoundSystem` | `roundActive_`, `winnerId_` | `update` | the verdict is right and stands |
| `Game` | autoplay mode and timers, windows | `processEvents`, `update`, `render`, F5, L | order of the systems, soft cap of autoplay |
| `InputManager`, `KeyboardAdapter` | `pending_` | `handleEvent`, `poll`, `consumeCommands` | only commands for towers of this game |
| `TikTokAdapter` | a thread, `queue_` under a mutex, `running_`, `socketFd_` | `start`, `stop`, `poll`, `listenLoop` | nothing enqueued is lost or doubled, `stop` returns |
| `AudioManager` | cooldowns, six channels, what was loaded | `playEvents` | a cooldown is owed to a sound that was heard |
| `UnitRenderer`, `EffectsRenderer` | last positions, particles; flashes, floating texts | `render` | a unit that is gone bursts once, what is kept stays bounded |

Everything but `TikTokAdapter::listenLoop` runs on one thread.  A frame is
`processEvents`, `update`, `render`; `update` clears the events, polls and
applies the commands, runs autoplay, then movement, collision, combat, the round
check and audio.  The systems interact through `GameState` alone, and each
assumes what the ones before it in the frame have done.  Audio and renderers read
it and keep state of their own from frame to frame, which nothing reads back.

What is hard: the systems mutate the containers they iterate over; combat runs
in ended rounds; there are two resets with different effects; commands are
collected at one moment and applied at another; movement is proportional to an
unbounded `dt`; the adapter's thread starts and stops against the game thread.

### tiktoklistener

| Part | State | Operations | What makes it correct |
|---|---|---|---|
| `BaseConnector`, `MockConnector` | bounded queue, task, `_stop_requested`, stored exception | `start`, `stop`, `emit`, `events`, the done callback | consumers end exactly when the connector has, events keep their order |
| `TikTokLiveConnector` | current client | `_run` (reconnect loop), `_connect_once`, handlers, `stop` | after `stop` no client is connected |
| Normalizer | none | `normalize` | total, one event type per raw event |
| `EventBroker` | subscriptions with bounded queues and drop counters | `subscribe`, `publish`, `update_subscription`, `unsubscribe` | a lossy FIFO per subscriber that counts its losses |
| `WebSocketEventServer` | a reader and a writer task per client | `_handle_client`, `_send_event`, heartbeat | sessions end clean, each event sent at most once |
| `GameBridge` | deduplication cache, counters, transport | `start`, `process_event`, `stop` | at most one message per event id and rule, while the cache remembers the id |
| `run_gateway` | composition | start, loop, shutdown in order | whatever was started is stopped |

The gateway is one asyncio loop: a step runs from one `await` to the next, and
the interleavings of tasks, callbacks and cancellations are what is hard.

Configuration, command lines, scripts and build files are listed under
`components` with the reason why they are not modelled; of drawing, only what the
renderers remember is.

## 2. Modules

| Part | Modules | Composition |
|---|---|---|
| game core and frame loop | `TowerWar`, `MCTowerWar`, `TowerWarProofs` | commands arrive as `NetworkInput` delivers them |
| network input | `Messages` (pure), `NetworkInput`, `MCNetworkInput`, `NetworkInputProofs` | `NetworkInput` extends `Messages` |
| sound and effects | `Feedback`, `MCFeedback`, `FeedbackProofs` | a frame's units and events, as the systems of `TowerWar` leave them |
| connectors | `EventStream` (abstract), `Connector`, `MCConnector`, `ConnectorProofs` | `Connector` implements `EventStream` |
| normalizer | `Normalizer` (pure) | used by `Gateway` |
| broker and WebSocket sessions | `RingLog` (abstract), `Sessions`, `MCSessions`, `SessionsProofs` | `Sessions` implements `RingLog` |
| game bridge | `GameRules` (pure), `GameBridge`, `MCGameBridge`, `GameBridgeProofs` | `GameBridge` extends `GameRules` |
| gateway runtime | `Gateway`, `MCGateway`, `GatewayProofs` | takes its steps of the connector from `EventStream`; extends `Normalizer` |
| lemmas the proofs share | `DataLemmas` | sequences, counting, induction; extended by the proofs of network input, sessions, connectors, bridge and gateway |

The large machines are checked one by one and meet in abstractions: `Gateway` relies on
`EventStream`, which `Connector` is shown to implement, and what it gives to broker and
bridge is what `Sessions` and `GameBridge` take one by one.  The messages that the bridge
renders from the repository's compact template are the datagrams that `MCNetworkInput`
gives to the game.

Every machine has a module of proofs.  Every invariant, every action property and both
refinements (`RingLog`, `EventStream`) that the passing runs check are stated there by a
theorem; what rests on TLC alone are the liveness properties.  No module that is proved about, and none it
uses, holds a RECURSIVE operator.

`DataLemmas` holds what the proofs share.  The library states induction for a predicate
`P(_)`, which the installed provers cannot instantiate; here it is stated for a set of
numbers (`SetInduction`, `IntervalInduction`) and derived from the theorem that the
naturals are well founded, and `Recursion` does the same for a function defined by
recursion.  The rest is about increasing sequences, about `CountIn(s, S)`, how many
places of `s` hold a member of `S`: what `Append`, `Tail`, `\o` and the removal of one
element do to it, and about `FlattenSeq` and `Collected(s, part)`, what the elements of
`s` contribute, one after the other.

## 3. The game: `TowerWar`

One action per iteration of each loop of the code, because what one iteration
does to the next is where the difficulties are.

| Code | Model |
|---|---|
| `Tower::hp_`, `alive_` | `hp`, `alive` |
| `GameState::units_` | `units`, a sequence of records; dead units stay until a pass erases them |
| `events_`, `roundActive_`, `winnerId_` | `events`, `roundActive`, `winnerId` |
| `SpawnSystem::donationStreaks_` | `donationStreaks` (0 where the map has no entry) |
| `InputManager::pending_` and the vectors handed to `apply` | `pending` |
| `autoplayEnabled_`, `autoplayBurstMode_` | `autoplay`, `burst` |
| the program counter of a frame | `phase`, `first`, `second`, `todo` |
| `processWindowEvents` | `PressKey`, `PressF5`, `ToggleAutoplay` |
| `update` up to `consumeCommands` | `BeginUpdate`, `ReceiveCommand`, `ConsumeCommands` |
| `SpawnSystem::apply` | `ApplyReset`, `ApplyHeal`, `ApplyAttack`, `IgnoreCommand` |
| `updateAutoplay` | `BeginAutoplay`, `NoAutoplay`, `AutoplayTower`, `EndAutoplay`, `EndAutospawn` |
| `MovementSystem::update` | `Move` |
| (history) the last movement, until its collision pass is over | `step`, `before` |
| `CollisionSystem::update` | `CollidePair`, `NextRow`, `EndCollisions` |
| `CombatSystem::update` | `DestroyStray`, `HitTower`, `FlyOn`, `EndCombat` |
| `RoundSystem::update` | `EndRound`, `KeepRound` |

Abstractions:

* **Positions.** The renderer's virtual canvas has a fixed size, so all the
  distances the systems compute are fixed functions of `progress`.  A lane is
  `Lane` ticks long; `Gap` is the distance between opposed units (negative once
  they have passed), `EdgeDistance` the distance to the target tower.  Contact is
  within `ContactRange` (15.4 px in the code), a hit within `HitRange` (8.75 px).
* **Time.** A frame moves a unit by some number of ticks in `Steps`, which has no
  bound but that of the instance: `Game::run` does not bound `dt`.
* **Chance and timers.** The random rolls and timers of autoplay are free choices.
* **Constants.** The kinds of unit, the streak of ten donations, the caps and the
  volleys are constants, so that small values exercise what the real ones do.
* A team is its tower, and unit ids are left out: no system reads them.
* A batch of commands is applied in place from `pending`: `consumeCommands` copies
  the list and clears it, and nothing appends to it until the next frame.
* Not in the model: closing windows, presentation mode, integer overflow of
  `hp_ + amount` (a heal of two thousand million points).

### Properties

Safety: `TypeOK`, which is `Typed` (the variables' ranges), `CapRespected` and
`LanesJoinTowers`; `RoundDecided` (between frames the verdict agrees with the
towers); `ContactCostsBoth` (no two live opposed units in contact leave a collision
pass unscathed); `PassersPay` (nor do two that the frame brought within reach or past
each other, unless it took them across); `FallAnnouncedOnce`.
Action properties: `VerdictStands` (an ended round is touched by resets only),
`NoRevival` (a fallen tower returns only with a fresh round).
Liveness: `VolleysLand` (if attacks stop, the field empties or the round ends).

`PassersPay` speaks of frames of any length.  Two units that were out of each other's
reach and are not any more, or are already behind each other, both pay in the collision
pass; one of them can be unharmed after it only if `2 * step`, what the frame moved the
two of them, exceeds the way that was between them and the reach behind it.  That does
happen: with the default configuration (a lane of 330 px between two towers, 0.42 lanes a
second) a frame longer than about 110 ms moves a unit by more than the contact range; the
frame limit asks for 60 frames a second, but nothing bounds `dt`, and the movement is made
in one go before the pass looks.

### Runs

| Run | Instance | Shows |
|---|---|---|
| `war_duel` | 2 towers of 2 points, 3 units, streak of 3 with all kinds, lane of 3, frames of one tick and of two | `TypeOK`, `RoundDecided`, `ContactCostsBoth`, `PassersPay`, `VerdictStands` |
| `war_melee` | 3 towers of 2 points, 3 units of one kind, keys, messages and autoplay, fair | `FallAnnouncedOnce`, `NoRevival`, `VolleysLand` |
| `war_dead_fighter` | as `war_duel` | violation: a dead unit goes on fighting in its row |
| `war_f5` | as `war_duel` | violation: F5 keeps the donation streaks |

Bounds.  With a reach of one tick, units that are two apart pass each other unharmed in a
frame of two ticks, and those that are three apart end behind each other within reach.
`MaxBatch` bounds the commands collected in one frame (one, in the duel:
a volley of two already crosses the cap and the streak; autoplay adds its own in
the same frame).  Three units give every case of the pair loop: a unit that dies in
its own row before another pair, one against two, and a survivor after an erased
one.  With two health points a tower survives a Normal unit and falls to a Shielded
or Spiked one with points to spare.  Three towers are the fewest with a fall that
does not end the round, with volleys in flight at the fallen tower and heals
queued for it (with two towers every fall ends the round, and an ended round
refuses all heals); their two health points tell a heal from a reset.  Autoplay's
soft caps are one unit in the melee and one or two in the duel, below the cap of the
field: a tower that has so many units gets no command.

Fairness.  `FairSpec` assumes weak fairness of `Update` only: the loop of
`Game::run` never waits, it always takes its next step.  Keys and messages have no
fairness.  Windows are taken to stay open.

### Findings

* `DeadUnitsDoNotFight`: the outer loop of the collision pass tests whether its
  unit is alive only when its row begins.  A Normal unit in contact with several
  opposed units hurts all of them, and is reported destroyed once for each.
* `F5StartsFreshRound`: F5 clears neither the donation streaks nor the pending
  commands, unlike the reset that comes over the network.

### Proofs: `TowerWarProofs`

All theorems hold for every number of towers (at least two), every cap, streak,
health, lane and set of frame steps: the named assumptions of `TowerWar`
(`TowersAssumption`, `StreakAssumption`, `LaneAssumption`, `InputAssumption`),
which TLC evaluates on the runs' instances.

* `VariablesTyped`: `Spec => []Typed`.  `Typed` is inductive together with
  `LoopInv` (the loop indices of the collision pass are ordered), without which a
  pair might hit one unit twice.  One lemma per action; facts about a volley, a
  blow, an erase and a movement are lemmas of their own and are used again below.
  `TypeCorrect` adds `CapIsRespected` and `UnitsLeaveHome`, which follow from it.
* `RoundsAreDecided`: `RoundDecided` speaks of the moment between frames only.
  The inductive invariant `RoundInv` says what holds at every step of a frame:
  until combat a live round is contested; in an ended round the verdict is right
  *and every unit is parked*, that is, dead, bound for a dead tower, or out of its
  target's range.  Without the last part the step `HitTower` of an ended round
  would break the verdict.  The combat pass establishes it for the units it has
  passed; movement keeps it because it stops with the round; a collision keeps it
  because it only lowers health.
* `VerdictsStand` follows from the same invariant (`HitOnlyInARound`).
* `ContactsCostBoth`: the invariant `ContactInv` follows the collision pass pair by
  pair: of the pairs it is through with, those that still touch have both paid.  A
  pair that pays now strictly loses because no unit is healthier than its kind
  (`NoneHealthier`, an invariant of its own); a row whose unit was dead as it began
  has no pair that touches; and later hits raise nobody and move nobody.
* `PassersAlwaysPay` rests on it.  `StepInv` keeps what the movement did until the pass
  is over: the field is still the one that moved, and nobody in it is further on than one
  step.  A unit that is unharmed then is in contact with nobody it opposes, so an opponent
  that is not ahead of it any more is behind its reach, and the step took them there.
* `NobodyRevives`, `CapIsRespected`, `UnitsLeaveHome`, `FallsAnnouncedOnce` follow from
  type correctness and case analyses of what a step may do to the towers (`TowerSteps`),
  the field (`FieldSteps`) and the events.

Model-checked only: `VolleysLand` (liveness under fairness is out of the prover's
reach).

## 4. The fan-out: `RingLog` and `Sessions`

`Sessions` models `EventBroker` and the part of `WebSocketEventServer` that serves a
client.  An action is what a coroutine does from one `await` to the next.

| Code | Model |
|---|---|
| `EventBroker._subscriptions` (its keys) | `subscribed` |
| `BrokerSubscription.event_types`, `queue`, `dropped_events` | `filter`, `queue`, `dropped` |
| the coroutine `_handle_client` | `handler`: `none`, `waiting` (in `asyncio.wait`), `cancelling` (has called `cancel`), `awaiting` (the cancelled task), `done` |
| the tasks `reader`, `writer` | `reader`, `writer`; `ended` returned, `failed` raised, `cancelled` |
| the local `event` of `_write_client_events` | `inHand` (`Heartbeat` also when there is none) |
| the WebSocket connection (library) | `conn` |
| `publish`, `enqueue_nowait` | `Publish`, `Enqueued`, `DropCount` |
| `_handle_client` up to `asyncio.wait` | `Accept`, `Refuse` |
| `_handle_client` after it | `AbandonWriter`, `CancelOther`, `DeliverCancel`, `SwallowCancel`, `FinishHandler` |
| `_read_client_messages` | `UpdateFilter`, `EndReader` |
| `_write_client_events`, `_send_event` | `TakeEvent`, `AwaitEvent`, `SendHeartbeat`, `SendSucceeds`, `SendFails` |

`offered` and `sent` are histories that the properties need.

Abstractions:

* Events are numbered in the order of their publication; a filter is a set of
  types, and `None` is the set of all of them.  The second `put_nowait` of
  `enqueue_nowait` cannot fail: nothing runs between the `get_nowait` and it.
* A client is one connection; it reconnects as another client.
* A filter message that is not understood changes nothing and is left out; a query
  that is not understood is `Refuse`.
* External are: the connection (`Disconnect`, `LibraryCloses`), and how asyncio
  delivers a cancellation.  The project allows Python 3.10, whose
  `asyncio.wait_for`, like that of 3.11, drops a cancellation that arrives when its
  result is there; `SwallowCancel` is that outcome, and the writer goes on.
* The server's own `start` and `stop` belong to `Gateway`; to a session, `stop` is a
  connection that is closed.

`RingLog` is what the broker promises: to each subscriber a log of what was offered
to it, a position in it, and a count of losses.  An offer to a full store moves the
position and counts a loss, and never waits.  Under the refinement the position is
the length of `offered` less that of `queue`.

### Properties

`TypeOK` (queues within their bound); `NewestKept` (a queue holds the newest of
what was offered, in order); `LossesCounted` (what was offered is queued, sent or
counted as dropped, but for one event in hand); `InOrder` (nothing is sent twice
or out of order); `EndsClean` (an ended session leaves no reader, and no writer on
a connection that works: in particular `update_subscription`, which raises on an
unknown id, is not called for a removed subscription); `ImplementsRingLog`.
Liveness: `ClosedSessionsEnd` (also the writer that `AbandonWriter` leaves behind
when the reader failed: nobody cancels it, only its own heartbeat finds out that
the connection is gone); `QueuesDrain`.

### Runs

| Run | Instance | Shows |
|---|---|---|
| `sessions_pair` | 2 clients, queues of 1, 2 events of 2 types, filters for all or gifts only | `TypeOK`, `EndsClean`, `ImplementsRingLog` |
| `sessions_live` | 1 client, queue of 2, 4 events, fair | `NewestKept`, `LossesCounted`, `InOrder`, `ClosedSessionsEnd`, `QueuesDrain` |

Bounds.  A client's state is touched by its own coroutines and by `Publish` alone, so
two clients show every interference, and their identity does not matter (symmetry;
the run with liveness has none).  Two events overflow a queue of one, four overflow
a queue of two twice, so that old and new drops, an event in hand and queued ones
occur together.  `MaxEvents` bounds the events published.  Deadlock is not checked:
when all events are published and all clients gone, nothing is left to do.

Fairness.  `FairSpec` is weak fairness of the coroutines of each client,
`ServerActs`: the event loop runs whatever can run, the timers of `wait_for` fire,
and a `send` ends in success or by its timeout.  A client need not connect,
disconnect or read, and nobody need publish.

### Proofs: `SessionsProofs`

For any set of clients, types and filters, any queue size above zero and any number of
events (`BrokerAssumption`):

* `TypeCorrect`: `Spec => []TypeOK`.
* `RingLogImplemented`: `Spec => Ring!Spec`.  `PublishOffers` shows that a
  publication is an `Offer` to the matching subscribers, `TakeHeadTakes` that taking
  an event is a `Take`; the other steps stutter.
* `SessionsEndClean`: from the invariant `EndsInv`, which relates the states of
  handler, reader, writer, connection and subscription of a client; `EndsClean`
  alone says too little of the states before the end.
* `NewestAreKept`: the invariant `QueuesEndLogs` says pointwise that a queue is a suffix
  of its log (`EndOf`); appending to both, and dropping the head, keep it.
* `LossesAreCounted`: with `HandInv` (there is an event in hand only while sending)
  `LossesCounted` is inductive.

* `SentInOrder`: the invariant `OrderInv` puts what was sent, the event in hand and the
  queue behind each other, all of increasing number and none newer than the last one
  published.  A step of a session leaves these alone, takes the head of the queue, or
  lets go of what is in hand, written or not (`SessionMoves`): none of the three
  disturbs the order.

Model-checked only: the two liveness properties, which are out of the prover's reach.

## 5. The network input: `NetworkInput`

`TikTokAdapter` has two threads: the game thread, which constructs it (`start`), polls
it once a frame and destroys it (`stop`), and `listenLoop`.  An action is one access
to the state they share, or one system call.

| Code | Model |
|---|---|
| `running_`, `socketFd_`, `queueMutex_`, `queue_` | `running`, `socketFd` (whether it holds the descriptor), `mutex`, `queue` |
| the local `fd` of `listenLoop` | `desc`: what the system makes of that descriptor: not there yet, open, closed, or given to another file |
| the program counter of `listenLoop` | `worker` |
| the program counter of `start`, `poll`, `stop` | `game` |
| `externalCommands` in `poll` | `batch` |
| `closeSocket` | `TakeSocket` (the exchange) and `Close`, two steps on both sides |
| `listenLoop` | `OpenSocket`, `StoreSocket`, `Bind`, `TestRunning`, `SelectReturns`, `SelectFails`, `Receive`, `ReceiveFails`, `ExchangeAtEnd`, `CloseAtEnd` |
| `enqueue` | `LockToPush`, `Push` |
| `poll` | `LockToPoll`, `DrainOne`, `UnlockAfterPoll`, `FilterOne`, `PollReturns` |
| `stop` | `Stop`, `ExchangeInStop`, `CloseInStop`, `Join` |

`accepted` and `delivered` are histories.

Abstractions:

* What a datagram holds is chosen at the start (`contents`).  Whether it is a command
  is what the parser of `Messages` makes of it (below).
* `Send` is external: the receive buffer of the socket takes a datagram or loses it.
  It neither reorders nor duplicates on the local host.
* A system call on a descriptor that is closed or reused fails.  A `select` that is
  interrupted goes round the loop like one that times out.
* The WinSock branches, and failures to create the thread, are left out.
* `recvfrom` does not block after `select` has found something to read.

### The parser: `Messages`

The parser does not read JSON: it searches the text with regular expressions for a key
with a value of the kind it wants, and takes the first, however nested.  So a datagram is
the list of its keys with their values in the order of the text, and a key that opens an
object says how many of the keys after it are inside.

| Code | Model |
|---|---|
| `trim`, `toLower`, `unescapeJsonString`, the string stream of an action | a text is the list of its words (`Words`) |
| `extractStringField`, `extractIntField`, `extractObjectField` | the operators of these names |
| `parseTeamName`, `teamToTowerId` | `IsTeam`, `TowerIds` |
| `parseActionString` | `ParseActionString` |
| `parseExternalInputMessage` | `ParseExternalInputMessage`, `RepeatCount` |
| `commandMatchesTowerCount` | `CommandMatchesTowerCount` |

The five contents of the run: a gift and a like as the bridge sends them with the compact
template `game_event` (the action inside `rule`; the count a number in `payload`, or null),
a reset as the test tool sends it, with a count that is no int, a heal for a tower that this
game does not have, and a message of another type.  What each is meant to be
(`TheirMeaning`) is taken from the description in `tiktokwar/README.md` and not from the
parser.

### Properties and run

| Run | Instance | Shows |
|---|---|---|
| `network` | 2 towers, 3 datagrams, each of any of 5 contents, fair | `TypeOK`, `ClosesOwnSocket` (a descriptor is closed by one party, and while it is the adapter's open socket), `NothingLeaks` (after `stop`: no thread, no socket), `GameGetsAll` (the commands that were meant for this game, in order, each once, as they were meant, and no others), `StopReturns`, `CommandsArrive`, and no deadlock |

Three datagrams are enough for one in hand while another is drained and a third in the
socket's buffer; the order of any two is what can go wrong.  The thread and the game
thread are at every pair of places, since `stop` may come at any moment.

Fairness.  `FairSpec`: both threads are scheduled, frames follow each other while the
game plays, and `select` returns by its timeout.  `SelectFails` need never happen.
`StopReturns` rests on that timeout, since closing the socket does not wake a thread
that waits in `select`.  With finitely many datagrams weak fairness of taking the
mutex is enough; with an endless stream of them `CommandsArrive` would also need
the mutex to be fair, which `std::mutex` does not promise.

### Proofs: `NetworkInputProofs`

For any number of datagrams: `TypeCorrect`; `QueueIsExclusive` (the two threads are never
inside the queue together), from `MutexInv` (each thread is inside the queue exactly while
it holds the mutex); `OwnSocketClosed` and
`NoLeaks`, from `SocketInv`, which says for every moment who is going to close an open
socket: the thread while it has not published the descriptor, whoever exchanges the
published one, or the one that has exchanged it.

`GameIsGivenAll` (`GameGetsAll`) is proved from `GetsInv`: what was accepted, without the
commands that mean nothing to this game, is what was delivered and then what the batch in
hand and the queue hold; `Collected` of `DataLemmas` takes a sequence apart at its ends.
Its hypothesis `ParsesAsDocumented` is about the constants alone: each content parses, for
towers of this game, to the command that the protocol means by it, and to none where it
means none.  That the parser does so is shown by the run for the messages of its instance,
where a delivered command must be the one that was meant; the recursive descent of
`Messages` over any message is not proved.

Model-checked only: the two liveness properties.

## 6. The connectors: `EventStream` and `Connector`

`Connector` models `BaseConnector` with both producers.  What decides between right and
wrong here is which callback asyncio runs first, so the loop is modelled as it is: `ready`
is its FIFO of callbacks, a step of the program is the callback at the head, run up to the
next `await` that suspends, and timers, the network and callers only append to `ready`.

| Code | Model |
|---|---|
| `_queue`, its waiting putters, its waiting getter | `queue`, `putters`, `reader = "waiting"` |
| `_task` and the place of `_run` in it, `_task_exception`, `_stop_requested` | `runner` (with `holding`, `cancelling`), `failure`, `stopRequested` |
| `_client`, the clients made so far, the ones asked to disconnect | `client`, `link`, `asked` |
| `start` | `Start`, `StartReturns` |
| `BaseConnector.stop`, `TikTokLiveConnector.stop` | `StopCancels`, `StopMarks`; before them `StopDisconnects`, `DisconnectReturns`, `DisconnectRaises` |
| `events` | `ReaderWaits`, `ReaderTakes`, `ReaderEnds` |
| `emit` | `Put`, `WaitForRoom`, `ResumesEmission` |
| `_wake_event_consumers`, `_on_task_done` | `WakeEventConsumers`, `OnTaskDone` |
| `MockConnector._run` | `MockEmits`, `TimerFires` |
| `TikTokLiveConnector._run`, `_connect_once` | `MissingDependency`, `CreateClient`, `CreateFails`, `PreflightGoesOn`, `AttemptOver`, `ConnectionRaises` |
| a cancelled task | `RunnerCancelled` |
| the handlers of a client | `ClientReports`, `HandlerSkips`, `HandlerEmits`, `HandlerPutsAside` |

`made`, `delivered`, `evicted`, `abandoned`, `overtook` and `raised` are histories; a stop marker
carries the number of the run whose end it announces (`of`), which the code does not have.

`EventStream` is the promise to the code that iterates over `events()`: each event once, in
the order of acceptance; only the oldest may be lost, and only while the stream is closing;
the iteration ends only after the stream has begun to close.  A stream that is started
before the end of the last one was announced may be closing from its beginning.  Under the
refinement the backlog is the queue without its markers, and a stream is closing when its
producer has ended, `stop` was called, or its `start` overtook the last announcement.

Abstractions and assumptions:

* `ProducerRaises` is a producer of the kind the unit tests define: one whose `_run`
  raises, with or without an event before.  The two real producers do not.
* One caller (`OwnerCalls`), and `start` only while nobody iterates over `events()`; it may
  come while the task runs and is then ignored (`StartReturns`), after the task has ended
  by itself, or after `stop`.  `stop` is called at any time, but not again after it has
  returned.
* `await stop()` and `await start()` may follow each other without a suspension in between:
  `stop` does not wait for a task that has ended already.  A `Start` and a `StopMarks` may
  therefore put the caller's next call at the head of `ready` instead of leaving it to a
  later turn of the loop.
* So a `start` may come before the done callback of the last task has run: after `start`,
  `sleep(0)`, `stop`, `start`, say, with a producer that raised in its first step, or after a
  task that has just ended by itself.  The history `overtook` says that it did.  The callback
  then stores the old exception and puts its marker into the new run's queue: the new run's
  reader ends, or fails with an exception that is not its own, and with a full queue an event
  of the new run is lost, although its producer runs.  No caller in the repository restarts
  a connector in this way.  The properties below say exactly how far this goes.
* Handlers that wait for room belong to the queue in which they began; when it has been
  replaced nobody reads what they put into it (`HandlerPutsAside`).
* A client's `connect()` stays pending until the connection closes, as a comment in
  `_start_client` says; a cancellation cuts it off (`link` becomes `cut`).

### Properties

`OwnMarker` (a marker in the queue is that of the run, or that of the run before it if
`start` overtook its announcement; none lives longer);
`EveryEventSomewhere` (every event is in exactly one place, and an intermediate report of a
gift combo is given to nobody); `MarkersCostFew` (the markers of a run cost at most two
events, and none while the producer runs; an overtaken marker costs one more);
`FailureReported` (but for an overtaken announcement, a producer that raised is not mistaken
for one that ended, unless `stop` was called, and nobody gets an exception that was not
raised); `StopCompletes` (`stop` comes back, and the
reader ends after it, however full the queue); `ImplementsStream`.

| Run | Instance | Shows |
|---|---|---|
| `connector` | mock, raising, missing library, TikTokLive with and without reconnecting; queue of 2, 3 events, 2 attempts, 2 starts; fair | all of the above |
| `connector_client` | TikTokLive with reconnecting | violation: `stop` leaves a client behind |

Bounds.  A queue of two overflows with three events and can hold two markers; one attempt
more than the first gives the reconnection, one start more than the first the restart,
which may overtake.  Beyond the bounds nobody calls `start` (`MayStart`).
An error of a failed attempt and the event of a raising producer may be the one event
beyond `MaxMade`: nothing new is made, woken or started from there on.

Fairness.  `LoopStep`: the event loop runs what is ready.  `BodyReturns` and
`DisconnectReturns`: the body of the reader's loop and the library's `disconnect()` come
back; without them neither reader nor `stop` would.  No timer, peer or caller is fair.

Finding: `StopReleasesClient`.  `stop()` takes the client, awaits its `disconnect()`, and sets
`_stop_requested` only afterwards.  When the connection closes first, the reconnect loop may
make and connect another client in between; `stop()` cancels the task that runs it and never
disconnects it.

Met while modelling, and not findings of a run: the test
`test_tiktok_connector_skips_intermediate_gift_streak_updates`
of `tests/unit/test_tiktok_live_connector.py` expects a timeout of the second `__anext__`,
where the stream has ended; and a handler that waits in `queue.put` may be overtaken by
one that begins just after the reader has made room, so handlers' events are
delivered in the order in which they were queued, which need not be the order in which
the client reported them.

### Proofs: `ConnectorProofs`

For any set of connectors, any queue size above zero and any number of events, attempts
and starts (`ConnectorAssumption`).  The control of a connector lies in the callbacks that
the loop has still to run, so the invariants count them, kind by kind: `N(w)` of kind `w`
are ready, `P(w)` wait for room.

* `TypeCorrect`, with `ControlInv`: the task is ready or waiting at most once and only
  while it runs; the announcement of its end is ready at most once and only after it, or
  before the next task's first turn; at most one call of `start` or `stop` is on its way, a
  `start` only when nobody iterates; the reader is ready at most once; an open connection is
  that of the current attempt.  What a step changes in the counts is stated once for each
  shape of step (`Moves`): a put, a wait, a get, a cancellation, the end of a task.
* `MarkersAreOwn`: an announcement that is ready is that of the run in progress, whose task
  has ended, or that of the run before, and then the new task has not had its first turn,
  no marker is in the queue and nothing was lost (`EndsInv`).  It cannot be older: no
  announcement stands behind a task's turn in the FIFO (`EndsBeforeRunners`, in
  `ControlInv`), so the overtaken one runs before the new task does, and there is one
  announcement at a time.
* `FailureIsReported`: a marker in the queue, and a reader that has seen one, mean that
  `stop` was called, that the task has ended and its failure is recorded, or that `start`
  overtook the last announcement (`TakenInv`).
* `MarkersCostLittle`: what the markers cost is paid by steps that each happen once in a
  run: the overtaken announcement, the announcement of the run's own end, and the end of
  `stop` (`CostInv`).
* `EventsAreSomewhere`: for every event, the sum over all places of how often it is there is
  one if it goes on and zero otherwise (`PlaceInv`).  A handler counts only if it is not just
  going to skip its event, so an intermediate report is in no place at all; and the
  task holds an event only where it may be waiting for room (`HolderInv`), which is why a
  `start`, which empties every place but the deliveries, loses none from the sum.
* `StreamIsImplemented`: the refinement of `EventStream`, step by step.  A put is an
  `Accept` because the event, having one place, is not in the queue yet; a full queue gives
  up an event (`Evict`) only for a marker, whose step closes the stream; the reader's `End`
  finds the stream closed because its marker says so (`TakenInv`).

Model-checked only: `StopCompletes` (liveness under fairness).

## 7. The game bridge: `GameRules` and `GameBridge`

`GameRules` has what is pure: `load_rules`, `load_templates` (whether they load, and the
rules they give), `RuleEngine` and `TemplateRenderer`.  A value is what the conversions of
`utils.py` can make of it: its text, its lower case, the number and the truth value it reads
as.  A template is the sequence of its placeholders; one that is the whole string keeps the
type of what it reads.  What of two texts contains or starts with the other is the constant
`TextRelation`; ints and floats are one kind of number.

| Code | Model |
|---|---|
| `rules`, `template_bundle`, `rule_engine` | `engine` |
| `EventIdDeduplicator._seen`, an ordered dict | `seen`, the oldest first |
| the transport's socket | `socket` |
| the four counters | `processed`, `generated`, `failed`, `unmatched` |
| the messages left in the loop of `process_event` | `pending` |
| `start`, `stop` | `Start`, `StartFails`, `Stop` |
| `process_event` up to its first `await` | `Reject`, `CannotRead`, `Suppress`, `CannotRender`, `NoRule`, `BeginSending` |
| `send` of the transport | `SendNext`, `SendFails`, `CancelledWhileSending` |

`log` and `sent` are histories.  Making a socket is taken not to fail.  A stopped bridge that
is given an event makes itself a new socket, as `send` does.

Properties: `ExactWindow` (an event is suppressed exactly when its id was among the last
`max_size` different ids, whatever became of it then: also when its messages were *not*
sent); `SentInOrder` (messages of one event together, in the order of its rules, without a
gap; none of an event of which any part raised); `Accounts` (the counters agree with what
happened); and in `TypeOK` the bound of the cache.

| Run | Instance | Shows |
|---|---|---|
| `bridge` | both transports, with and without deduplication; 2 rule files that load and 2 that do not; templates with and without what the rules name; 5 kinds of events; cache of 2, 5 calls | `TypeOK`, `ExactWindow`, `SentInOrder`, `Accounts` |

Bounds.  Five calls with a cache of two: an id, two others, the id again, which was
displaced, and one more; or an id that is touched and therefore survives.  The rules are
those of `examples/game_bridge` cut down, with two verbose rules whose declared type is not
that of their values, which only an event shows.  Deadlock is not checked: after the last
call there is nothing to do.

Observations.  The key is `str(event_id)`, so that events without an id share the id
`None`; the gateway's own events always have one.  An event counts as seen before it is
rendered and sent: a repeat after a failed send is suppressed.

### Proofs: `GameBridgeProofs`

For any rules, templates and events and every size of the cache (`BridgeAssumption`; and
`RuleFilesAssumption`, that what a parser finds of rules and of messages are lists):

* `TypeCorrect`, and `CountersAgree`: `SendingInv` says that while messages are left the
  newest entry of the log is the event they are of, and no other is being sent.
* `MessagesInOrder`: `DoneInv` counts the messages of each event that were sent, against
  how many it asked for; `SentInv` says that they stand together, in the order of the rules.
* `WindowIsExact`: `WindowInv` relates the cache to the log: the ids in it are those of the
  last events, in the order in which each came last, and an id that is not in it has been
  followed by at least `max_size` others.  What the cache forgets and what a touch
  reorders are lemmas about lists and cardinalities.

## 8. The gateway: `Normalizer` and `Gateway`

`Normalizer` is the path of an event of a TikTokLive client into the gateway:
`_adapt_tiktok_event` makes a dictionary of it (`Adapt`), `TikTokEventNormalizer.normalize`
an event (`Normalize`), or an error event.  A value is what the conversions tell apart;
of the result the model keeps type, user, count and error code.

`Gateway` is the task of `run_gateway` or `replay_event_log`.

| Code | Model |
|---|---|
| the place of the task | `main`, and how it got to its end: `outcome` |
| server, bridge, connector | `server`, `bridge`, `connector`: new, up or down |
| the connector's stream | `backlog`, `given`, `closing`, `ending`, which step as `EventStream` does |
| a thread in `EventJsonlWriter.write` | `thread`, `ThreadAppends`, `AppendFails` |
| what broker, bridge and file were given | `published`, `bridged`, `written` |
| the starts | `ServerStarts`, `BridgeStarts`, `ConnectorStarts`, `StartFails` |
| the loop | `TakeEvent`, `Publish`, `BridgeReturns`, `StreamEnds` |
| `read_event_log` | `ReadLine`, `ReplayEnds` |
| the `finally` clause | `ConnectorStops`, `BridgeStops`, `ServerStops`, `StopRaises` |
| an interrupt | `Interrupted` |

Abstractions: one interrupt (asyncio turns the first into a cancellation of the task, and a
second one ends the process at once); it comes at any `await`; `BaseConnector.stop` may
swallow it.  A line of the event log reads back as the event that was written.  The pauses of
a replay are left out.

Properties: `SameEverywhere` (broker, bridge and log are given the same events in the same
order, each as its message is meant: "bad input", which
`docs/EVENT_FORMAT.md:125` says must become an error event, does; the bridge is never
behind, the log at most by one event, also after an interrupt); `ShutsDown` (a gateway whose
stream closes, whose loop fails or which is interrupted comes to its end, with no line left in
a thread; unless a start or a stop failed, no part is left running); and in `TypeOK` that
every published event is of the schema.

| Run | Instance | Shows |
|---|---|---|
| `gateway` | live with and without bridge and log, replay; 2 messages of 8 kinds; fair | `TypeOK`, `SameEverywhere`, `ShutsDown`, no deadlock |

Bounds.  The log is at most one event behind and no event follows an interrupt, so two
events show every relation between the three.  The messages: a gift adapted from a
client whose user and count are odd; a comment without a text; a follow without a user id; a
flat dictionary; a count below zero; a class whose name ends like two types; a user whose
avatar is no URL; an unknown type.

Fairness.  `TaskStep`: the awaits of the starts and stops and the bridge come to an end.
`ThreadStep`: so does a thread that writes.  Nobody need send, close or interrupt.

That a failed start leaves what was started before it running is what the code does
(the starts are outside the `try`): `ShutsDown` excepts it, as it does a stop that failed or
was interrupted, since the process ends with them.

### Proofs: `GatewayProofs`

For any messages, settings and number of events (`GatewayAssumption`;
`MessagesAssumption`, that values count in whole numbers, that a value without a text is of
a kind that has none, and that no two messages have one name; `EndsWithAssumption`, that of
the ends of one class name the longest ends with all the others):

* `TypeCorrect`: every event that was published is of the schema, whatever was received:
  the lemmas about `Normalize` follow each reader of a field through its fallbacks.
* `OutputsAgree`: if `normalize()` makes of each message what the documentation says
  (`NormalizesAsDocumented`, a statement about the constants which TLC checks with the
  invariant on the messages of the run), then no order of steps, no failure and no interrupt
  makes broker, bridge and log differ.  The invariants: messages are taken in the order in
  which they came (`OrderInv`), the publication is at most one step behind the stream
  (`PublishedInv`), and bridge and log are behind the publication by what the task has still
  to do with the event in hand (`CopiesInv`).

Model-checked only: `ShutsDown` (liveness).

Observation: numeric timestamps become local times without a zone that are then
labelled UTC; the model keeps only whether a timestamp can be read.

## 9. Sound and effects: `Feedback`

`Feedback` is the other side of a frame: what `AudioManager`, `UnitRenderer` and
`EffectsRenderer` keep from one frame to the next.  The systems of the game are here the
units they bring and take and the events they leave, in the order of `Game::update`; the loops
over events and units are taken one iteration at a time, as in `TowerWar`.

| Code | Model |
|---|---|
| the program counter of a frame | `phase`, `todo`, `entering`, `vanishing` |
| `units_` (their ids), `events_` | `field`, `events` |
| `audioEnabled_`, `loadAttempted_`, the buffers | `audioEnabled`, `loadAttempted`, `loaded` |
| `last...Ms_`, the channels | `sinceSound`, `channels` |
| `UnitRenderer::frameClock_`, `previousPositions_`, `particles_` | `unitClock`, `previous`, `particles` |
| `EffectsRenderer::frameClock_`, `damageFlash_` and `healFlash_`, `floatingTexts_` | `effectClock`, `flash`, `texts` |
| `playEvents`, `ensureLoaded`, `playSound` | `NothingToPlay`, `LoadSounds`, `PlayEvent`, `SkipSound`, `EndSounds` |
| `UnitRenderer::render` | `AgeParticles`, `DrawUnit`, `LookForUnit`, `EndUnits` |
| `EffectsRenderer::render` | `FadeFlashes`, `ShowEvent`, `SkipEvent`, `EndEffects` |

Abstractions:

* **Time** passes between any two steps, in ticks, and each clock saturates where the code
  stops to look: a cooldown at its length, a frame's step at 0.05 s.
* **The systems.** A pass takes its units from the field as it goes, where the code erases them
  at its end; audio and renderers see neither.  Unit ids that the cap wastes are not counted.
* **Bursts** are strong (a unit is gone) or weak (a unit is new): numbers of particles with
  a time to live.  Positions, colours and drawing are left out.
* The directory that holds the sounds is a choice of the files that are there.
* There is one window.  `HudRenderer` is compiled and never called.

Properties: `CooldownsWereHeard` (what is kept back is kept back because a sound of that kind
was played so lately, not because one found no channel); `VanishedBurstOnce` (a unit
that was drawn and is gone has burst strongly, once, unless the frame that missed it was
crowded: also after F5 and resets); `ShowBounded` (texts are at most their cap; particles at
most theirs, less one, and one whole burst, since room is made for one particle and then the
burst is pushed).

| Run | Instance | Shows |
|---|---|---|
| `feedback` | 1 tower, 1 channel, 3 units, 3 events, 2 texts, 2 particles, crowded above 1 unit; two sound files or none | `TypeOK`, `CooldownsWereHeard`, `VanishedBurstOnce`, `ShowBounded` |

Bounds.  One channel is taken by one sound, so that a second finds none; three events overflow
two texts; a strong burst of two overflows two particles; two units are a crowd, and the
third comes after some have gone.

### Proofs: `FeedbackProofs`

For any towers, files, cooldowns, caps and lives (`ShowAssumption`, which says among others
that a strong burst is no smaller and lives no shorter than a weak one):

* `TypeCorrect` and the bound of the texts together are inductive (`ShowInv`): no text or
  particle outlives its time.
* `CooldownsAreOwed`: the time that is kept and the time since a sound was heard are reset by
  the same step and grow together.
* `ShowIsBounded`: lemmas on the newest `n` of a set of numbers (`NewestAreFew`).
* `VanishedUnitsBurst`: the invariant `Remembered` says that a unit that has not burst
  is remembered from the frame that drew it to the one that misses it.

## 10. Not modelled

* **Drawing**: geometry, colours, fonts and icons, `TowerRenderer`, `HudRenderer`.  Nothing
  reads back what is drawn.
* **Windows** of the game, Escape and presentation mode: no state of the game depends on
  them.
* **Command lines, configuration, building the parts** (`main.cpp`, `cli.py`, `config/`,
  `app.py`): they validate once and pass values on; the models take the values as constants.
* **Syntax** of JSON, XML and YAML, and the text around placeholders.
* **Parsing of filters and control messages** of WebSocket clients: a filter is a set of types.
* **Scripts, demo clients, examples**: uses of the programs.
* WinSock branches, failing system calls other than those named, a second interrupt.
