------------------------------ MODULE Connector ------------------------------
(***************************************************************************)
(* The connectors of the gateway: BaseConnector (base.py) with the         *)
(* producers of MockConnector (mock.py) and TikTokLiveConnector            *)
(* (tiktok_live.py), run by one asyncio event loop.                        *)
(*                                                                         *)
(* The loop is modelled as it is: "ready" is its FIFO of callbacks, a step *)
(* of the program is the callback at the head, run up to its next await    *)
(* that suspends, and what happens outside the loop (a timer, the network, *)
(* a caller) only appends a callback.  Which of two callbacks runs first   *)
(* is what the stop markers depend on.                                     *)
(*                                                                         *)
(* Callbacks: "runner" is the producer task's next step, "done" its done   *)
(* callback, "handler" a listener that a TikTokLive client calls with one  *)
(* event, "reader" the task that iterates over events(), "start" and       *)
(* "stop" the task that calls the methods of that name.                    *)
(***************************************************************************)
EXTENDS Integers, SequencesExt, FiniteSets

CONSTANTS
  Configs,         (* [provider, reconnect]: the connectors to look at      *)
  Payloads,        (* [type, repeatEnd, streaking]: what a client reports   *)
  MaxSize,         (* max_queue_size                                        *)
  MaxMade,         (* bound of the model: events made by timers and clients *)
  MaxAttempts,     (* bound of the model: connection attempts               *)
  MaxStarts        (* bound of the model: calls of start()                  *)

Providers == {"mock", "tiktok", "missing", "failing"}

ASSUME ConnectorAssumption ==
  /\ Configs \subseteq [provider : Providers, reconnect : BOOLEAN]
  /\ MaxSize \in Nat \ {0}
  /\ MaxMade \in Nat /\ MaxAttempts \in Nat /\ MaxStarts \in Nat

VARIABLES
  config,          (* the connector's class and its reconnect_enabled       *)
  ready,           (* the callbacks the event loop has still to run         *)
  queue,           (* self._queue: events and stop markers                  *)
  putters,         (* the emitters that wait in queue.put()                 *)
  run,             (* how often start() has made a queue and a task         *)
  runner,          (* where the task of _run is                             *)
  holding,         (* the event that the task is emitting                   *)
  cancelling,      (* task.cancel() was called, the task has not noticed    *)
  failure,         (* self._task_exception is set                           *)
  stopRequested,   (* self._stop_requested is set                           *)
  client,          (* self._client, by number; 0 is None                    *)
  link,            (* the connection of every client made so far            *)
  asked,           (* the clients whose disconnect() was called             *)
  owner,           (* what the caller of start() and stop() is doing        *)
  reader,          (* what the task that iterates over events() is doing    *)
  made,            (* history: every event that was made, in order          *)
  delivered,       (* history: the events events() has yielded              *)
  evicted,         (* history: events of this run lost to a stop marker     *)
  abandoned,       (* history: events lost to a cancellation or a restart   *)
  overtook,        (* history: the start() of this run came before the end  *)
                   (* of the run before it was announced                    *)
  raised           (* history: the task of this run ended with an exception *)

taskVars   == <<runner, holding, cancelling>>
clientVars == <<client, link, asked>>
historyVars == <<delivered, evicted, abandoned, overtook>>
vars == <<config, ready, queue, putters, run, taskVars, failure, stopRequested,
          clientVars, owner, reader, made, historyVars, raised>>

-----------------------------------------------------------------------------
(* Events, callbacks, queue items *)

NoneBoolean == {"true", "false", "none"}
Payload(type, repeatEnd, streaking) ==
  [type |-> type, repeatEnd |-> repeatEnd, streaking |-> streaking]
Synthetic == Payload("mock", "none", "none")
ErrorRaw  == Payload("error", "none", "none")

(* A gift combo is reported several times while it grows; only the report  *)
(* that ends it goes on.                                                   *)
IsIntermediateGiftStreakEnd(p) == p.type = "gift" /\ p.repeatEnd = "false"
IsIntermediateGiftStreak(p) ==
  p.type = "gift" /\ (p.repeatEnd = "false" \/ p.streaking = "true")

MadeEvents == 1 .. Len(made)

(* A callback; "arg" is an event for a handler and 1 for a failed task, "on" *)
(* is the run whose queue a handler has chosen (0: none yet) or whose task *)
(* has ended.                                                              *)
Callback(who, arg, on) == [who |-> who, arg |-> arg, on |-> on]
Runner  == Callback("runner", 0, 0)
Reader  == Callback("reader", 0, 0)
Starter == Callback("start", 0, 0)
Stopper == Callback("stop", 0, 0)

(* _STOP, with the run whose end it announces; otherwise an event.         *)
Item(e)   == [event |-> e, of |-> 0]
Marker(r) == [event |-> 0, of |-> r]
IsMarker(item) == item.event = 0

IsReady(c) == \E i \in 1 .. Len(ready) : ready[i] = c
IsWaiting(c) == \E i \in 1 .. Len(putters) : putters[i] = c
Runs(c) == ready # <<>> /\ Head(ready) = c
PlaceOf(s, c) == CHOOSE i \in 1 .. Len(s) : s[i] = c
Without(s, c) == IF \E i \in 1 .. Len(s) : s[i] = c THEN RemoveAt(s, PlaceOf(s, c)) ELSE s

IsRunning == runner \notin {"none", "done"}
IsFullLate == Len(queue) > MaxSize
IsFull == Len(queue) >= MaxSize
Iterating == reader \in {"waiting", "reading", "busy"}
-----------------------------------------------------------------------------
(* asyncio.Queue *)

(* put() with room: the event is queued and a waiting reader is scheduled. *)
(* "then" is what the rest of the step schedules.                          *)
Put(item, then) ==
  /\ ~IsFull
  /\ queue' = Append(queue, item)
  /\ ready' = Tail(ready) \o (IF reader = "waiting" THEN <<Reader>> ELSE <<>>) \o then
  /\ reader' = IF reader = "waiting" THEN "reading" ELSE reader

(* put() without room: the emitter waits for its turn.                     *)
WaitForRoom(c) ==
  /\ IsFull
  /\ putters' = Append(putters, c)
  /\ ready' = Tail(ready)
  /\ UNCHANGED <<queue, reader>>

FirstPutter == IF putters = <<>> THEN <<>> ELSE <<Head(putters)>>
OtherPutters == IF putters = <<>> THEN <<>> ELSE Tail(putters)

EventsIn(items) == {items[i].event : i \in 1 .. Len(items)} \ {0}

(* _wake_event_consumers: a full queue gives up its oldest item, which     *)
(* lets an emitter try again, for the marker.  "next" is what the caller   *)
(* does next, without a suspension in between.                             *)
WakeWithoutRoom(r, next) ==
  /\ IF IsFull THEN UNCHANGED queue ELSE queue' = Append(queue, Marker(r))
  /\ ready' = next \o Tail(ready) \o (IF reader = "waiting" THEN <<Reader>> ELSE <<>>)
  /\ reader' = IF reader = "waiting" THEN "reading" ELSE reader
  /\ UNCHANGED <<putters, evicted>>
WakeDroppingNewest(r, next) ==
  /\ queue' = Append(IF IsFull THEN SubSeq(queue, 1, Len(queue) - 1) ELSE queue, Marker(r))
  /\ putters' = IF IsFull THEN OtherPutters ELSE putters
  /\ ready' = next \o Tail(ready) \o (IF IsFull THEN FirstPutter ELSE <<>>)
                                  \o (IF reader = "waiting" THEN <<Reader>> ELSE <<>>)
  /\ reader' = IF reader = "waiting" THEN "reading" ELSE reader
  /\ evicted' = evicted \cup (IF IsFull THEN EventsIn(<<queue[Len(queue)]>>) ELSE {})
WakeDroppingAll(r, next) ==
  /\ queue' = <<Marker(r)>>
  /\ putters' = OtherPutters
  /\ ready' = next \o Tail(ready) \o FirstPutter
                                  \o (IF reader = "waiting" THEN <<Reader>> ELSE <<>>)
  /\ reader' = IF reader = "waiting" THEN "reading" ELSE reader
  /\ evicted' = evicted \cup EventsIn(queue)
WakeEventConsumers(r, next) ==
  /\ queue' = Append(IF IsFull THEN Tail(queue) ELSE queue, Marker(r))
  /\ putters' = IF IsFull THEN OtherPutters ELSE putters
  /\ ready' = next \o Tail(ready) \o (IF IsFull THEN FirstPutter ELSE <<>>)
                                  \o (IF reader = "waiting" THEN <<Reader>> ELSE <<>>)
  /\ reader' = IF reader = "waiting" THEN "reading" ELSE reader
  /\ evicted' = evicted \cup (IF IsFull THEN EventsIn(<<Head(queue)>>) ELSE {})
-----------------------------------------------------------------------------
(* Init *)

Init ==
  /\ config \in Configs
  /\ ready = <<>> /\ queue = <<>> /\ putters = <<>> /\ run = 0
  /\ runner = "none" /\ holding = 0 /\ cancelling = FALSE
  /\ failure = FALSE /\ stopRequested = FALSE
  /\ client = 0 /\ link = <<>> /\ asked = {}
  /\ owner = "new" /\ reader = "idle"
  /\ made = <<>> /\ delivered = <<>> /\ evicted = {} /\ abandoned = {}
  /\ overtook = FALSE /\ raised = FALSE

-----------------------------------------------------------------------------
(* The producer task: one action per stretch of _run between two awaits    *)

RunnerAt(pc) == Runs(Runner) /\ ~cancelling /\ runner = pc

(* What the end of the task schedules: its done callback, then the stop()  *)
(* that waits for it.                                                      *)
HowEndedConfused == [returned |-> 0, raised |-> 2, cancelled |-> 2]
HowEnded == [returned |-> 0, raised |-> 1, cancelled |-> 2]
TaskEnds(how) ==
  <<Callback("done", HowEnded[how], run)>> \o
  (IF owner = "awaiting" THEN <<Stopper>> ELSE <<>>)

(* Where _run is once an event is out: a mock connector sleeps, TikTokLive *)
(* ends for good or sleeps before it reconnects.                           *)
AfterEmission(pc) ==
  IF \/ pc = "emittingLast"
     \/ config.provider # "mock" /\ (~config.reconnect \/ stopRequested)
    THEN "done" ELSE "sleeping"

RunnerEmits(e, pc) ==
  \/ /\ WaitForRoom(Runner)
     /\ runner' = pc /\ holding' = e
  \/ /\ Put(Item(e), IF AfterEmission(pc) = "done" THEN TaskEnds("returned") ELSE <<>>)
     /\ runner' = AfterEmission(pc) /\ holding' = 0
     /\ UNCHANGED putters

RunnerMakes(payload, pc) ==
  /\ made' = Append(made, payload)
  /\ RunnerEmits(Len(made) + 1, pc)
  /\ UNCHANGED <<config, run, cancelling, failure, stopRequested, clientVars, owner,
                 historyVars, raised>>

MockEmits == RunnerAt("loop") /\ config.provider = "mock" /\ RunnerMakes(Synthetic, "emitting")

MissingDependency ==
  RunnerAt("loop") /\ config.provider = "missing" /\ RunnerMakes(ErrorRaw, "emittingLast")

ResumesEmission ==
  /\ Runs(Runner) /\ ~cancelling /\ runner \in {"emitting", "emittingLast"}
  /\ RunnerEmits(holding, runner)
  /\ UNCHANGED <<config, run, cancelling, failure, stopRequested, clientVars, owner, made,
                 historyVars, raised>>

(* A producer that raises, with or without an event just before.           *)
ProducerRaises ==
  /\ RunnerAt("loop") /\ config.provider = "failing"
  /\ \/ /\ Put(Item(Len(made) + 1), TaskEnds("raised"))
        /\ made' = Append(made, Synthetic)
     \/ /\ ready' = Tail(ready) \o TaskEnds("raised")
        /\ UNCHANGED <<queue, reader, made>>
  /\ runner' = "done" /\ raised' = TRUE
  /\ UNCHANGED <<config, putters, run, holding, cancelling, failure, stopRequested,
                 clientVars, owner, historyVars>>

(* _connect_once: a client is made and connected, at once or after it was  *)
(* asked whether the user is live; making it may fail.                     *)
CreateClient ==
  /\ RunnerAt("loop") /\ config.provider = "tiktok"
  /\ client' = Len(link) + 1
  /\ \/ link' = Append(link, "new") /\ runner' = "preflight"
     \/ link' = Append(link, "open") /\ runner' = "connected"
  /\ ready' = Tail(ready)
  /\ UNCHANGED <<config, queue, putters, run, holding, cancelling, failure, stopRequested,
                 asked, owner, reader, made, historyVars, raised>>

CreateFails ==
  RunnerAt("loop") /\ config.provider = "tiktok" /\ RunnerMakes(ErrorRaw, "emitting")

PreflightGoesOn ==
  /\ RunnerAt("preflight")
  /\ link' = [link EXCEPT ![Len(link)] = "open"] /\ runner' = "connected"
  /\ ready' = Tail(ready)
  /\ UNCHANGED <<config, queue, putters, run, holding, cancelling, failure, stopRequested,
                 client, asked, owner, reader, made, historyVars, raised>>

(* The user is not live, or the connection has been closed.                *)
AttemptOver ==
  /\ RunnerAt("preflight") \/ RunnerAt("connected")
  /\ runner' = AfterEmission("emitting")
  /\ ready' = Tail(ready) \o
       (IF AfterEmission("emitting") = "done" THEN TaskEnds("returned") ELSE <<>>)
  /\ UNCHANGED <<config, queue, putters, run, holding, cancelling, failure, stopRequested,
                 clientVars, owner, reader, made, historyVars, raised>>

ConnectionRaises == RunnerAt("connected") /\ RunnerMakes(ErrorRaw, "emitting")

(* CancelledError at the await where the task is.  (wait_for may swallow   *)
(* it when stop_requested was set first; the loop then ends all the same.) *)
(* An emitter that had been let in lets the next one in.                   *)
RunnerCancelled ==
  /\ Runs(Runner) /\ cancelling
  /\ LET passesOn == runner \in {"emitting", "emittingLast"} /\ ~IsFull
     IN  /\ putters' = IF passesOn THEN OtherPutters ELSE putters
         /\ ready' = Tail(ready) \o (IF passesOn THEN FirstPutter ELSE <<>>)
                                 \o TaskEnds("cancelled")
  /\ runner' = "done" /\ cancelling' = FALSE /\ holding' = 0
  /\ abandoned' = abandoned \cup ({holding} \ {0})
  /\ link' = IF runner = "connected" /\ link[Len(link)] = "open"
               THEN [link EXCEPT ![Len(link)] = "cut"] ELSE link
  /\ UNCHANGED <<config, queue, run, failure, stopRequested, client, asked, owner, reader,
                 made, delivered, evicted, overtook, raised>>

(* _on_task_done.  It does not ask whose queue and whose exception it sets. *)
OnTaskDone ==
  /\ ready # <<>> /\ Head(ready).who = "done"
  /\ failure' = IF Head(ready).arg = HowEnded.cancelled
                  THEN failure ELSE Head(ready).arg = HowEnded.raised
  /\ WakeEventConsumers(Head(ready).on, <<>>)
  /\ UNCHANGED <<config, run, taskVars, stopRequested, clientVars, owner, made, delivered,
                 abandoned, overtook, raised>>

-----------------------------------------------------------------------------
(* A client's listener, one call per event                                 *)

Handles(e) == ready # <<>> /\ Head(ready).who = "handler" /\ Head(ready).arg = e

HandlerSkips(e) ==
  /\ Handles(e) /\ Head(ready).on = 0 /\ IsIntermediateGiftStreak(made[e])
  /\ ready' = Tail(ready)
  /\ UNCHANGED <<config, queue, putters, run, taskVars, failure, stopRequested, clientVars,
                 owner, reader, made, historyVars, raised>>

(* An emitter that waited has the queue of the run in which it began.      *)
HandlerEmits(e) ==
  /\ Handles(e) /\ Head(ready).on \in {0, run}
  /\ Head(ready).on = 0 => ~IsIntermediateGiftStreak(made[e])
  /\ \/ WaitForRoom(Callback("handler", e, run))
     \/ Put(Item(e), <<>>) /\ UNCHANGED putters
  /\ UNCHANGED <<config, run, taskVars, failure, stopRequested, clientVars, owner, made,
                 historyVars, raised>>

(* When start() has replaced that queue, nobody reads what is put into it. *)
HandlerPutsAside(e) ==
  /\ Handles(e) /\ Head(ready).on \notin {0, run}
  /\ ready' = Tail(ready)
  /\ abandoned' = abandoned \cup {e}
  /\ UNCHANGED <<config, queue, putters, run, taskVars, failure, stopRequested, clientVars,
                 owner, reader, made, delivered, evicted, overtook, raised>>

-----------------------------------------------------------------------------
(* start() and stop()                                                      *)

PutterEvents == {putters[i].arg : i \in 1 .. Len(putters)} \ {0}

(* Bounds of the model: no start(), no connection attempt beyond them.     *)
MayStart == run < MaxStarts /\ Len(made) <= MaxMade /\ Len(link) < MaxAttempts

SameQueue == UNCHANGED <<queue, putters>>
NewQueue == queue' = <<>> /\ putters' = <<>>

(* The announcement of the last task's end may still be ready.  The caller *)
(* may go on with stop(), without a suspension in between.                 *)
Start ==
  /\ Runs(Starter) /\ ~IsRunning /\ MayStart
  /\ run' = run + 1
  /\ NewQueue
  /\ failure' = FALSE /\ stopRequested' = FALSE
  /\ runner' = "loop"
  /\ \E next \in {<<>>, <<Stopper>>} : ready' = next \o Append(Tail(ready), Runner)
  /\ owner' = "started" /\ reader' = "idle"
  /\ abandoned' = abandoned \cup evicted \cup EventsIn(queue) \cup PutterEvents
  /\ overtook' = \E i \in 1 .. Len(ready) : ready[i].who = "done"
  /\ evicted' = {} /\ raised' = FALSE
  /\ UNCHANGED <<config, holding, cancelling, clientVars, made, delivered>>

(* is_running(): nothing is done.  (Beyond the bounds nobody calls.)       *)
StartReturns ==
  /\ Runs(Starter) /\ (IsRunning \/ ~MayStart)
  /\ ready' = Tail(ready)
  /\ UNCHANGED <<config, queue, putters, run, taskVars, failure, stopRequested, clientVars,
                 owner, reader, made, historyVars, raised>>

(* TikTokLiveConnector.stop: the client is taken and asked to disconnect;  *)
(* that may suspend or not.                                                *)
StopDisconnects ==
  /\ Runs(Stopper) /\ owner \in {"new", "started", "raised"} /\ client # 0
  /\ asked' = asked \cup {client} /\ client' = 0
  /\ owner' = "disconnecting"
  /\ ready' \in {ready, Tail(ready)}
  /\ UNCHANGED <<config, queue, putters, run, taskVars, failure, stopRequested, link, reader,
                 made, historyVars, raised>>

DisconnectRaises ==
  /\ Runs(Stopper) /\ owner = "disconnecting"
  /\ owner' = "raised" /\ ready' = Tail(ready)
  /\ UNCHANGED <<config, queue, putters, run, taskVars, failure, stopRequested, clientVars,
                 reader, made, historyVars, raised>>

(* BaseConnector.stop begins, after the client is gone.                    *)
BaseStops ==
  /\ Runs(Stopper)
  /\ \/ owner = "disconnecting"
     \/ owner \in {"new", "started", "raised"} /\ client = 0

(* The call goes on when the task has ended.                               *)
StopCancels ==
  /\ BaseStops /\ IsRunning
  /\ stopRequested' = TRUE /\ cancelling' = TRUE
  /\ putters' = Without(putters, Runner)
  /\ runner' = IF IsWaiting(Runner) THEN "cancelled" ELSE runner
  /\ ready' = Tail(ready) \o (IF IsReady(Runner) THEN <<>> ELSE <<Runner>>)
  /\ owner' = "awaiting"
  /\ UNCHANGED <<config, queue, run, holding, failure, clientVars, reader, made, historyVars,
                 raised>>

(* A stop() that has not had to wait, or has been woken, puts its marker;  *)
(* the caller may go on with start(), without a suspension in between.     *)
StopMarks ==
  /\ \/ BaseStops /\ ~IsRunning
     \/ Runs(Stopper) /\ owner = "awaiting"
  /\ stopRequested' = TRUE
  /\ \E next \in {<<>>, <<Starter>>} :
       /\ next # <<>> => ~Iterating /\ MayStart
       /\ WakeEventConsumers(run, next)
  /\ owner' = "stopped"
  /\ UNCHANGED <<config, run, taskVars, failure, clientVars, made, delivered, abandoned,
                 overtook, raised>>

-----------------------------------------------------------------------------
(* events()                                                                *)

ReaderWaits ==
  /\ Runs(Reader) /\ queue = <<>>
  /\ reader' = "waiting" /\ ready' = Tail(ready)
  /\ UNCHANGED <<config, queue, putters, run, taskVars, failure, stopRequested, clientVars,
                 owner, made, historyVars, raised>>

(* An event is yielded; the loop's body suspends or asks for the next one. *)
ReaderTakes ==
  /\ Runs(Reader) /\ queue # <<>> /\ ~IsMarker(Head(queue))
  /\ delivered' = Append(delivered, Head(queue).event)
  /\ queue' = Tail(queue) /\ putters' = OtherPutters
  /\ \/ reader' = "reading" /\ ready' = ready \o FirstPutter
     \/ reader' = "busy" /\ ready' = Tail(ready) \o FirstPutter
  /\ UNCHANGED <<config, run, taskVars, failure, stopRequested, clientVars, owner, made,
                 evicted, abandoned, overtook, raised>>

ReaderEnds ==
  /\ Runs(Reader) /\ queue # <<>> /\ IsMarker(Head(queue))
  /\ reader' = IF failure THEN "failed" ELSE "ended"
  /\ queue' = Tail(queue) /\ putters' = OtherPutters
  /\ ready' = Tail(ready) \o FirstPutter
  /\ UNCHANGED <<config, run, taskVars, failure, stopRequested, clientVars, owner, made,
                 historyVars, raised>>

-----------------------------------------------------------------------------
(* Outside the event loop: what makes a callback ready                     *)

Wakes(c) ==
  /\ ready' = Append(ready, c)
  /\ UNCHANGED <<config, queue, putters, run, holding, cancelling, failure, stopRequested,
                 client, asked, historyVars, raised>>

(* One caller: start() is called while nobody iterates over events() and   *)
(* stop() is not under way, stop() at any time until it has returned.      *)
OwnerCalls ==
  /\ ~IsReady(Starter) /\ ~IsReady(Stopper)
  /\ \/ /\ owner \in {"new", "started", "stopped", "raised"}
        /\ ~Iterating /\ MayStart
        /\ Wakes(Starter)
     \/ /\ owner \in {"new", "started", "raised"}
        /\ Wakes(Stopper)
  /\ UNCHANGED <<runner, link, owner, reader, made>>

DisconnectReturns ==
  /\ owner = "disconnecting" /\ ~IsReady(Stopper)
  /\ Wakes(Stopper)
  /\ UNCHANGED <<runner, link, owner, reader, made>>

ReaderBegins ==
  /\ reader = "idle" /\ run > 0 /\ ~IsReady(Starter)
  /\ reader' = "reading" /\ Wakes(Reader)
  /\ UNCHANGED <<runner, link, owner, made>>

BodyReturns ==
  /\ reader = "busy"
  /\ reader' = "reading" /\ Wakes(Reader)
  /\ UNCHANGED <<runner, link, owner, made>>

WithinBounds == Len(made) < MaxMade /\ Len(link) < MaxAttempts

(* The interval of the mock connector, the reconnect delay of TikTokLive.  *)
TimerFires ==
  /\ runner = "sleeping" /\ ~IsReady(Runner) /\ WithinBounds
  /\ runner' = "loop" /\ Wakes(Runner)
  /\ UNCHANGED <<link, owner, reader, made>>

PreflightAnswers ==
  /\ runner = "preflight" /\ ~IsReady(Runner)
  /\ Wakes(Runner)
  /\ UNCHANGED <<runner, link, owner, reader, made>>

ConnectionOpen == link # <<>> /\ link[Len(link)] = "open"

(* By the peer, by an error, or because disconnect() was called.           *)
ConnectionCloses ==
  /\ ConnectionOpen /\ ~IsReady(Runner)
  /\ link' = [link EXCEPT ![Len(link)] = "closed"]
  /\ Wakes(Runner)
  /\ UNCHANGED <<runner, owner, reader, made>>

ClientReports ==
  /\ ConnectionOpen /\ Len(made) < MaxMade
  /\ \E p \in Payloads : made' = Append(made, p)
  /\ Wakes(Callback("handler", Len(made) + 1, 0))
  /\ UNCHANGED <<runner, link, owner, reader>>

-----------------------------------------------------------------------------
(* The specification                                                       *)

RunnerStep ==
  \/ MockEmits \/ MissingDependency \/ ResumesEmission \/ ProducerRaises
  \/ CreateClient \/ CreateFails \/ PreflightGoesOn \/ AttemptOver
  \/ ConnectionRaises \/ RunnerCancelled

LoopStep ==
  \/ RunnerStep \/ OnTaskDone
  \/ \E e \in MadeEvents : HandlerSkips(e) \/ HandlerEmits(e) \/ HandlerPutsAside(e)
  \/ Start \/ StartReturns \/ StopDisconnects \/ DisconnectRaises \/ StopCancels
  \/ StopMarks \/ ReaderWaits \/ ReaderTakes \/ ReaderEnds

Outside ==
  \/ OwnerCalls \/ DisconnectReturns \/ ReaderBegins \/ BodyReturns \/ TimerFires
  \/ PreflightAnswers \/ ConnectionCloses \/ ClientReports

(* The loop has nothing to run and stop() has returned.                    *)
AllQuiet == ready = <<>> /\ owner = "stopped" /\ UNCHANGED vars

Next == LoopStep \/ Outside \/ AllQuiet

Spec == Init /\ [][Next]_vars

(* The loop runs what is ready; the body of the reader's loop and the      *)
(* library's disconnect() return.  No timer, peer or caller is fair.       *)
FairSpec ==
  Spec /\ WF_vars(LoopStep) /\ WF_vars(BodyReturns) /\ WF_vars(DisconnectReturns)

-----------------------------------------------------------------------------
(* Properties                                                              *)

RunnerStates == {"none", "loop", "preflight", "connected", "emitting", "emittingLast",
                 "sleeping", "cancelled", "done"}
AllEvents == 1 .. MaxMade + 1
Handlers == [who : {"handler"}, arg : AllEvents, on : 0 .. MaxStarts]
Callbacks == {Runner, Reader, Starter, Stopper} \cup Handlers
               \cup [who : {"done"}, arg : 0 .. 2, on : 0 .. MaxStarts]

(* The values every variable takes, with the queue within its size.        *)
TypeOK ==
  /\ config \in Configs
  /\ ready \in Seq(Callbacks) /\ putters \in Seq(Handlers \cup {Runner})
  /\ queue \in Seq([event : AllEvents \cup {0}, of : 0 .. MaxStarts])
  /\ Len(queue) <= MaxSize
  /\ run \in 0 .. MaxStarts
  /\ runner \in RunnerStates /\ holding \in AllEvents \cup {0}
  /\ cancelling \in BOOLEAN /\ failure \in BOOLEAN /\ stopRequested \in BOOLEAN
  /\ link \in Seq({"new", "open", "closed", "cut"})
  /\ client \in 0 .. Len(link) /\ asked \subseteq 1 .. Len(link)
  /\ owner \in {"new", "started", "disconnecting", "awaiting", "stopped", "raised"}
  /\ reader \in {"idle", "waiting", "reading", "busy", "ended", "failed"}
  /\ made \in Seq(Payloads \cup {Synthetic, ErrorRaw}) /\ Len(made) <= MaxMade + 1
  /\ delivered \in Seq(AllEvents)
  /\ evicted \subseteq AllEvents /\ abandoned \subseteq AllEvents
  /\ overtook \in BOOLEAN /\ raised \in BOOLEAN

(* A run's stream ends for its own reasons: a stop marker in the queue     *)
(* announces the end of this run, unless start() overtook the announcement *)
(* of the last run's end, and then of these two.  The done callback of a   *)
(* task puts its marker into whatever queue is there when it runs; only    *)
(* the loop's FIFO keeps runs further apart.                               *)
OwnMarker ==
  \A i \in 1 .. Len(queue) :
    IsMarker(queue[i]) => \/ queue[i].of = run
                          \/ overtook /\ queue[i].of = run - 1

(* Nothing is lost without a reason and nothing is given twice: every      *)
(* event that goes on is in exactly one place (on its way, waiting, held   *)
(* by the task, queued, delivered, lost to a marker or abandoned), and an  *)
(* intermediate report of a gift combo is never given to anyone.           *)
Places(e) ==
  Cardinality({i \in 1 .. Len(ready) : ready[i].who = "handler" /\ ready[i].arg = e})
  + Cardinality({i \in 1 .. Len(putters) : putters[i].who = "handler" /\ putters[i].arg = e})
  + (IF holding = e THEN 1 ELSE 0)
  + Cardinality({i \in 1 .. Len(queue) : queue[i].event = e})
  + Cardinality({i \in 1 .. Len(delivered) : delivered[i] = e})
  + (IF e \in evicted THEN 1 ELSE 0) + (IF e \in abandoned THEN 1 ELSE 0)
GivenTo(e) ==
  (\E i \in 1 .. Len(delivered) : delivered[i] = e) \/ e \in EventsIn(queue)
EveryEventSomewhere ==
  \A e \in MadeEvents :
    IF made[e].type = "gift" /\ (made[e].repeatEnd = "false" \/ made[e].streaking = "true")
      THEN ~GivenTo(e) ELSE Places(e) = 1

(* A run loses at most two events to its own markers, one more to that of  *)
(* a run that its start() overtook, and while its producer still runs only *)
(* that one.                                                               *)
MarkersCostFew ==
  Cardinality(evicted) <= (IF IsRunning THEN 0 ELSE 2) + (IF overtook THEN 1 ELSE 0)

(* A producer that raised is not mistaken for one that ended: unless       *)
(* stop() was called, the reader gets its exception.  And it gets none     *)
(* that nobody raised.  Both for a start() that overtook no announcement.  *)
FailureReported ==
  ~overtook => /\ reader = "ended" /\ raised => stopRequested
               /\ reader = "failed" => raised

(* A stop() that returned has disconnected every client whose connection   *)
(* it cut off: "Stop the TikTokLive client and connector task".            *)
StopReleasesClient ==
  owner = "stopped" => \A c \in 1 .. Len(link) : link[c] = "cut" => c \in asked

(* stop() comes back, and once it has, a reader that is iterating ends,    *)
(* however full the queue was and whoever waited to put something in it.   *)
StopCompletes ==
  /\ (owner \in {"disconnecting", "awaiting"}) ~> (owner \in {"stopped", "raised"})
  /\ (owner = "stopped" /\ Iterating) ~> ~Iterating

(* The connector implements the stream its reader relies on.               *)
StreamEvents(items) ==
  FlattenSeq([i \in 1 .. Len(items) |->
                IF IsMarker(items[i]) THEN <<>> ELSE <<items[i].event>>])

Stream == INSTANCE EventStream WITH
  Events <- AllEvents,
  backlog <- StreamEvents(queue),
  given <- delivered,
  closing <- (stopRequested \/ runner = "done" \/ overtook),
  ending <- (IF reader \in {"ended", "failed"} THEN reader ELSE "open")

ImplementsStream == Stream!StreamSpec
=============================================================================
