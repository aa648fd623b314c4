------------------------------- MODULE Gateway -------------------------------
(***************************************************************************)
(* run_gateway and replay_event_log (runtime.py): one task that starts the *)
(* parts that app.py has built, takes every event through normalizer,      *)
(* broker, game bridge and event log (event_log.py), and stops the parts.  *)
(* The connector is the stream that EventStream describes and Connector    *)
(* implements; broker and bridge are modelled in Sessions and GameBridge,  *)
(* here they are the lists of what they were given.                        *)
(*                                                                         *)
(* A line is appended to the event log by a thread of its own, which goes  *)
(* on when the task is cancelled (one interrupt cancels the task; asyncio  *)
(* does this once).                                                        *)
(***************************************************************************)
EXTENDS Normalizer

CONSTANTS
  Settings,          (* [mode, bridge, writer]: the configurations           *)
  RawMessages,       (* [name, raw, means]: the messages, and what the docs  *)
                     (* say each is: the type of an event or "bad input"     *)
  MaxEvents          (* bound of the model: messages or log lines            *)

ASSUME GatewayAssumption ==
  /\ Settings \subseteq [mode : {"live", "replay"}, bridge : BOOLEAN, writer : BOOLEAN]
  /\ MaxEvents \in Nat

(* A value counts in whole numbers, and only Blank has no text though it   *)
(* is one.  No two messages have one name.                                 *)
ValuesAreValid(fields) ==
  \A f \in DOMAIN fields :
    /\ fields[f].n \in Int
    /\ fields[f].text = "" =>
         fields[f].kind \in {"none", "blank", "number", "flag", "date", "object"}
ASSUME MessagesAssumption ==
  /\ \A m \in RawMessages :
       ValuesAreValid(m.raw) /\ \A f \in DOMAIN m.raw : ValuesAreValid(m.raw[f].fields)
  /\ \A m, n \in RawMessages : m.name = n.name => m = n

VARIABLES
  settings,          (* what was configured                                  *)
  main,              (* what the task is at                                  *)
  outcome,           (* how it got to its finally clause, or failed to start *)
  server, bridge, connector,   (* each "new", "up" or "down"                 *)
  cancelled,         (* an interrupt has cancelled the task                  *)
  thread,            (* the event whose line a thread appends; 0: no thread  *)
  backlog, given, closing, ending,     (* the connector's stream             *)
  messages,          (* history: the messages that came, in order            *)
  published,         (* what the broker was given                            *)
  bridged,           (* what the game bridge was given                       *)
  written            (* the lines of the event log                           *)

partVars   == <<server, bridge, connector>>
streamVars == <<backlog, given, closing, ending>>
logVars    == <<published, bridged, written>>
vars == <<settings, main, outcome, partVars, cancelled, thread, streamVars, messages, logVars>>

Stream == INSTANCE EventStream WITH Events <- 1 .. MaxEvents

Live == settings.mode = "live"

Init ==
  /\ settings \in Settings
  /\ main = "starting server" /\ outcome = "none"
  /\ server = "new" /\ bridge = "new" /\ connector = "new"
  /\ cancelled = FALSE /\ thread = 0
  /\ Stream!StreamInit
  /\ messages = <<>> /\ published = <<>> /\ bridged = <<>> /\ written = <<>>

-----------------------------------------------------------------------------
(* Starting.  Only what comes after the last start is inside the try.      *)

Goes(from, to) == main = from /\ main' = to

AfterServer == IF ~Live THEN "waiting" ELSE
               IF settings.bridge THEN "starting bridge" ELSE "starting connector"

ServerStarts ==
  /\ Goes("starting server", AfterServer)
  /\ server' = "up"
  /\ UNCHANGED <<settings, outcome, bridge, connector, cancelled, thread, streamVars,
                 messages, logVars>>

BridgeStarts ==
  /\ Goes("starting bridge", "starting connector")
  /\ bridge' = "up"
  /\ UNCHANGED <<settings, outcome, server, connector, cancelled, thread, streamVars,
                 messages, logVars>>

ConnectorStarts ==
  /\ Goes("starting connector", "waiting")
  /\ connector' = "up" /\ Stream!Open
  /\ UNCHANGED <<settings, outcome, server, bridge, cancelled, thread, messages, logVars>>

(* The port is taken, or the bridge's files do not load.                   *)
StartFails ==
  /\ main \in {"starting server", "starting bridge"}
  /\ main' = "returned" /\ outcome' = "startFailed"
  /\ UNCHANGED <<settings, partVars, cancelled, thread, streamVars, messages, logVars>>

-----------------------------------------------------------------------------
(* The loop over the events                                                *)

Receives(message) ==
  /\ Len(messages) < MaxEvents
  /\ messages' = Append(messages, message.name)

(* The stream's own steps, while its connector has been started.           *)
StreamStep ==
  /\ Live /\ connector # "new"
  /\ \/ \E m \in RawMessages : Receives(m) /\ Stream!Accept(Len(messages) + 1)
     \/ ~closing /\ Stream!Close /\ UNCHANGED messages
     \/ Stream!Evict /\ UNCHANGED messages
  /\ UNCHANGED <<settings, main, outcome, partVars, cancelled, thread, logVars>>

TakeEvent ==
  /\ Live /\ Goes("waiting", "publishing") /\ Stream!Give
  /\ UNCHANGED <<settings, outcome, partVars, cancelled, thread, messages, logVars>>

FirstStop == IF Live THEN "stopping connector" ELSE "stopping server"
Leaves(how) == main' = FirstStop /\ outcome' = how

StreamEnds ==
  /\ Live /\ main = "waiting" /\ Stream!End
  /\ Leaves(IF ending' = "failed" THEN "connectorFailed" ELSE "completed")
  /\ UNCHANGED <<settings, partVars, cancelled, thread, messages, logVars>>

(* read_event_log: a line is an event, blank, or ends the replay.          *)
ReadLine ==
  /\ ~Live /\ Goes("waiting", "publishing")
  /\ \E m \in RawMessages : m.means # "bad input" /\ Receives(m)
  /\ given' = Append(given, Len(messages) + 1)
  /\ UNCHANGED <<settings, outcome, partVars, cancelled, thread, backlog, closing, ending,
                 logVars>>

ReplayEnds ==
  /\ ~Live /\ main = "waiting"
  /\ Leaves("completed") \/ Leaves("badLine")
  /\ UNCHANGED <<settings, partVars, cancelled, thread, streamVars, messages, logVars>>

(* What a message becomes on its way into the gateway.  A line of the log  *)
(* is read back as the event that was written.                             *)
NormalizeUnlessBad(raw) == IF DetectEventType(raw) = "unknown" THEN <<>> ELSE <<Normalize(raw)>>
NormalizeEach(raw) == <<Normalize(raw)>>
NormalizedMessages == {[name |-> m.name, events |-> NormalizeEach(m.raw)] : m \in RawMessages}
EventsOf(e) == (CHOOSE n \in NormalizedMessages : n.name = messages[e]).events
Normalized == EventsOf(given[Len(given)])

AfterPublish ==
  IF Live /\ settings.bridge THEN "bridging" ELSE
  IF Live /\ settings.writer THEN "writing" ELSE "waiting"
Publish ==
  /\ Goes("publishing", AfterPublish)
  /\ published' = published \o Normalized
  /\ bridged' = IF AfterPublish = "bridging" THEN bridged \o Normalized ELSE bridged
  /\ thread' = IF AfterPublish = "writing" THEN given[Len(given)] ELSE thread
  /\ UNCHANGED <<settings, outcome, partVars, cancelled, streamVars, messages, written>>

(* process_event() returns, whatever became of the event (GameBridge).     *)
BridgeReturns ==
  /\ Goes("bridging", IF settings.writer THEN "writing" ELSE "waiting")
  /\ thread' = IF settings.writer THEN given[Len(given)] ELSE thread
  /\ UNCHANGED <<settings, outcome, partVars, cancelled, streamVars, messages, logVars>>

(* _append_line, in its thread, for the task or for nobody any more.       *)
ThreadAppends ==
  /\ thread # 0 /\ thread' = 0
  /\ written' = written \o EventsOf(thread)
  /\ main' = IF main = "writing" THEN "waiting" ELSE main
  /\ UNCHANGED <<settings, outcome, partVars, cancelled, streamVars, messages, published,
                 bridged>>

AppendFails ==
  /\ thread # 0 /\ thread' = 0
  /\ IF main = "writing" THEN Leaves("writeFailed") ELSE UNCHANGED <<main, outcome>>
  /\ UNCHANGED <<settings, partVars, cancelled, streamVars, messages, logVars>>

-----------------------------------------------------------------------------
(* Stopping                                                                *)

InLoop == main \in {"waiting", "publishing", "bridging", "writing"}
Stops == {"stopping connector", "stopping bridge", "stopping server"}

AfterConnector == IF settings.bridge THEN "stopping bridge" ELSE "stopping server"

(* The connector's stream begins to close; what it still holds is lost.    *)
ConnectorStops ==
  /\ Goes("stopping connector", AfterConnector)
  /\ connector' = "down" /\ Stream!Close
  /\ UNCHANGED <<settings, outcome, server, bridge, cancelled, thread, messages, logVars>>

BridgeStops ==
  /\ Goes("stopping bridge", "stopping server")
  /\ bridge' = "down"
  /\ UNCHANGED <<settings, outcome, server, connector, cancelled, thread, streamVars,
                 messages, logVars>>

ServerStops ==
  /\ Goes("stopping server", "returned")
  /\ server' = "down"
  /\ UNCHANGED <<settings, outcome, bridge, connector, cancelled, thread, streamVars,
                 messages, logVars>>

(* The client's disconnect() raises: the other stops are not reached.      *)
StopRaises ==
  /\ Goes("stopping connector", "returned") /\ outcome' = "stopFailed"
  /\ UNCHANGED <<settings, partVars, cancelled, thread, streamVars, messages, logVars>>

(* An interrupt ends the await at which the task is, in the loop or in the *)
(* finally clause, whose rest is then left out; what it does at no await   *)
(* (the starts and the stop in between, publish()) it does first.  A       *)
(* replay sleeps before it publishes.  BaseConnector.stop swallows the     *)
(* interrupt while it waits for its own task.  A line that no thread has   *)
(* taken up yet is not written.                                            *)
AtAwait ==
  /\ main \notin {"starting bridge", "starting connector", "stopping bridge", "returned"}
  /\ Live => main # "publishing"

InterruptedLeavesAtOnce ==
  /\ AtAwait /\ ~cancelled /\ cancelled' = TRUE
  /\ main' = "returned" /\ outcome' = IF InLoop THEN "cancelled" ELSE "stopFailed"
  /\ UNCHANGED <<settings, partVars, thread, streamVars, messages, logVars>>
Interrupted ==
  /\ AtAwait /\ ~cancelled /\ cancelled' = TRUE
  /\ \/ InLoop /\ Leaves("cancelled")
     \/ /\ ~InLoop /\ main' = "returned"
        /\ outcome' = IF main \in Stops THEN "stopFailed" ELSE "startFailed"
     \/ main = "stopping connector" /\ UNCHANGED <<main, outcome>>
  /\ thread' \in {thread, 0}
  /\ UNCHANGED <<settings, partVars, streamVars, messages, logVars>>

-----------------------------------------------------------------------------
(* The specification                                                       *)

TaskStep ==
  \/ ServerStarts \/ BridgeStarts \/ ConnectorStarts \/ StartFails
  \/ TakeEvent \/ StreamEnds \/ ReadLine \/ ReplayEnds
  \/ Publish \/ BridgeReturns
  \/ ConnectorStops \/ BridgeStops \/ ServerStops \/ StopRaises

ThreadStep == ThreadAppends \/ AppendFails

(* The process is over when the task and the thread are.                   *)
Exited == main = "returned" /\ thread = 0 /\ UNCHANGED vars

Next == TaskStep \/ ThreadStep \/ StreamStep \/ Interrupted \/ Exited

Spec == Init /\ [][Next]_vars

(* The task goes on when it can and the thread comes to its end.  Neither  *)
(* the connector nor an interrupt has to come.                             *)
FairSpec == Spec /\ WF_vars(TaskStep) /\ WF_vars(ThreadStep)

-----------------------------------------------------------------------------
(* Properties                                                              *)

Mains == {"starting server", "starting bridge", "starting connector", "waiting",
          "publishing", "bridging", "writing", "returned"} \cup Stops
Outcomes == {"none", "startFailed", "completed", "connectorFailed", "badLine", "cancelled",
             "writeFailed", "stopFailed"}
Parts == {"new", "up", "down"}
WellFormed(ev) ==
  /\ ev.type \in Types /\ ev.count \in Nat
  /\ ev.type \in {"gift", "like"} => ev.count >= 1
  /\ NeedsUser(ev.type) => ev.user # ""

(* Every variable is of its type, and every event that is published is of  *)
(* the schema: it has its user where it needs one and counts from one.     *)
TypeOK ==
  /\ settings \in Settings /\ main \in Mains /\ outcome \in Outcomes
  /\ {server, bridge, connector} \subseteq Parts /\ cancelled \in BOOLEAN
  /\ thread \in 0 .. MaxEvents
  /\ backlog \in Seq(1 .. MaxEvents) /\ given \in Seq(1 .. MaxEvents)
  /\ closing \in BOOLEAN /\ ending \in Stream!Endings
  /\ messages \in Seq({m.name : m \in RawMessages})
  /\ \A i \in 1 .. Len(published) : WellFormed(published[i])

(* Broker, game bridge and event log are given the same events in the same *)
(* order, one for every message that came: of the kind the message is, or  *)
(* an error event when it is unknown or lacks what its kind requires.  The *)
(* bridge is never behind the broker and the log at most one event, also   *)
(* when the gateway was interrupted or a write failed.                     *)
AsDocumented(ev, means) ==
  IF means = "bad input" THEN ev = ErrorEvent ELSE ev.type = means /\ ev # ErrorEvent
MeaningOf(name) == (CHOOSE m \in RawMessages : m.name = name).means
SameEverywhere ==
  /\ \/ Len(published) = Len(given)
     \/ Len(published) = Len(given) - 1 /\ (~Live \/ main = "publishing")
  /\ \A i \in 1 .. Len(published) : AsDocumented(published[i], MeaningOf(messages[given[i]]))
  /\ \A i, j \in 1 .. Len(given) : i < j => given[i] < given[j]
  /\ Live /\ settings.bridge => bridged = published
  /\ Live /\ settings.writer =>
       /\ Len(written) \in {Len(published) - 1, Len(published)}
       /\ written = SubSeq(published, 1, Len(written))

(* A gateway whose connector's stream closes, whose loop fails or which is *)
(* interrupted comes to its end, with no line left unwritten in a thread;  *)
(* unless a start or a stop failed (or was interrupted), none of its parts *)
(* is left running.                                                        *)
NothingUp == "up" \notin {server, bridge, connector}
Over == /\ main = "returned" /\ thread = 0
        /\ outcome \in {"startFailed", "stopFailed"} \/ NothingUp
ShutsDown == (closing \/ cancelled \/ outcome # "none") ~> Over
=============================================================================
