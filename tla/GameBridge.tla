----------------------------- MODULE GameBridge -----------------------------
(***************************************************************************)
(* RuleBasedGameBridge (game_bridge.py) with its deduplicator              *)
(* (deduplication.py) and its output transport (output_transport.py).      *)
(*                                                                         *)
(* One task calls the bridge.  process_event() suspends only where a       *)
(* datagram cannot be sent at once; there it may be cancelled or fail, and *)
(* the messages that are left are lost.                                    *)
(***************************************************************************)
EXTENDS GameRules

CONSTANTS
  Settings,          (* [output, deduplicates]: the configurations to look at *)
  RuleFiles,         (* [readable, elements]: what rules_path may hold       *)
  TemplateFiles,     (* [readable, templates]: what templates_path may hold  *)
  Events,            (* [id, type, fields, mapping]: what the bridge is given *)
  MaxSize,           (* deduplication_max_size                               *)
  MaxGiven,          (* bound of the model: calls of process_event()         *)
  MaxStarts          (* bound of the model: calls of start() that load       *)

ASSUME BridgeAssumption ==
  /\ Settings \subseteq [output : {"udp", "stdout"}, deduplicates : BOOLEAN]
  /\ MaxSize \in Nat \ {0} /\ MaxGiven \in Nat /\ MaxStarts \in Nat

(* What a parser finds of rules and messages are lists.                    *)
IsList(s) == s \in Seq({s[i] : i \in DOMAIN s})
ASSUME RuleFilesAssumption ==
  \A file \in RuleFiles :
    IsList(file.elements) /\ \A i \in DOMAIN file.elements : IsList(file.elements[i].messages)

VARIABLES
  output,            (* the transport: "udp" or "stdout"                     *)
  deduplicates,      (* deduplication_enabled                                *)
  engine,            (* rule_engine: its rules and its templates             *)
  socket,            (* the transport has a socket                           *)
  seen,              (* the deduplicator's ids, the oldest first             *)
  processed,         (* processed_events                                     *)
  generated,         (* generated_messages                                   *)
  failed,            (* failed_events                                        *)
  unmatched,         (* unmatched_events                                     *)
  pending,           (* the messages that process_event() has still to send  *)
  log,               (* history: [event, how, asked] per process_event()     *)
  sent,              (* history: [event, nth, message] per message sent      *)
  starts             (* bound of the model: calls of start() that loaded     *)

counters == <<processed, generated, failed, unmatched>>
vars == <<output, deduplicates, engine, socket, seen, counters, pending, log, sent, starts>>

NoEngine == [loaded |-> FALSE, rules |-> <<>>, templates |-> <<>>]
Idle == pending = <<>>
Started == engine.loaded

-----------------------------------------------------------------------------
(* EventIdDeduplicator                                                     *)

NoId == "<absent>"

(* str(event_id): an event without an id has the id "None".                *)
Key(e) == IF e.id = NoId THEN "None" ELSE e.id

Within(ids, e) == \E i \in 1 .. Len(ids) : ids[i] = Key(e)
Suppressed(e) == deduplicates /\ Key(e) # "" /\ Within(seen, e)

(* An id that is met again becomes the newest; a new one displaces the     *)
(* oldest when there are more than max_size.                               *)
TouchedLazily(ids, key) == ids
Position(ids, key) == CHOOSE i \in 1 .. Len(ids) : ids[i] = key
Touched(ids, key) == Append(RemoveAt(ids, Position(ids, key)), key)

RememberedForEver(ids, key) == Append(ids, key)
Remembered(ids, key) ==
  IF Len(ids) >= MaxSize THEN Append(Tail(ids), key) ELSE Append(ids, key)

SeenAfter(e) ==
  IF ~deduplicates \/ Key(e) = "" THEN seen ELSE Remembered(seen, Key(e))

-----------------------------------------------------------------------------
(* start() and stop()                                                      *)

Init ==
  /\ \E s \in Settings : output = s.output /\ deduplicates = s.deduplicates
  /\ engine = NoEngine /\ socket = FALSE /\ seen = <<>>
  /\ processed = 0 /\ generated = 0 /\ failed = 0 /\ unmatched = 0
  /\ pending = <<>> /\ log = <<>> /\ sent = <<>> /\ starts = 0

Loads(rules, templates) ==
  /\ RulesLoad(rules) /\ templates.readable
  /\ ReferencesHold(ParsedRules(rules), templates.templates)

MayStart == Idle /\ starts < MaxStarts

(* Both files are read again by every start().                             *)
Start(rules, templates) ==
  /\ MayStart /\ Loads(rules, templates)
  /\ engine' = [loaded |-> TRUE, rules |-> ParsedRules(rules),
                templates |-> templates.templates]
  /\ socket' = (output = "udp")
  /\ starts' = starts + 1
  /\ UNCHANGED <<output, deduplicates, seen, counters, pending, log, sent>>

(* A bridge that cannot load its files keeps what it had.                  *)
StartFails(rules, templates) ==
  /\ MayStart /\ ~Loads(rules, templates)
  /\ UNCHANGED vars

Stop ==
  /\ Idle /\ socket
  /\ socket' = FALSE
  /\ UNCHANGED <<output, deduplicates, engine, seen, counters, pending, log, sent, starts>>

-----------------------------------------------------------------------------
(* process_event()                                                         *)

Called(e, how, asked) ==
  /\ Idle /\ Len(log) < MaxGiven
  /\ log' = Append(log, [event |-> e, how |-> how, asked |-> asked])
  /\ UNCHANGED <<output, deduplicates, engine, socket, sent, starts, generated>>

(* RuntimeError: the bridge has not been started.                          *)
Reject == ~Started /\ UNCHANGED vars

(* An object that is neither a mapping nor an event.                       *)
CannotRead(e) ==
  /\ Started /\ ~e.mapping /\ Called(e, "unreadable", 0)
  /\ failed' = failed + 1
  /\ UNCHANGED <<seen, processed, unmatched, pending>>

Suppress(e) ==
  /\ Started /\ e.mapping /\ Suppressed(e) /\ Called(e, "duplicate", 0)
  /\ seen' = Touched(seen, Key(e))
  /\ UNCHANGED <<processed, failed, unmatched, pending>>

(* From here on the event counts as seen, whatever becomes of it.          *)
Accepted(e) ==
  /\ Started /\ e.mapping /\ ~Suppressed(e)
  /\ seen' = SeenAfter(e)
  /\ processed' = processed + 1

CannotRender(e) ==
  /\ Accepted(e) /\ RenderRaises(engine.rules, e)
  /\ Called(e, "unrenderable", 0)
  /\ failed' = failed + 1
  /\ UNCHANGED <<unmatched, pending>>

Messages(e) == RenderMessages(engine.rules, e, engine.templates)

NoRule(e) ==
  /\ Accepted(e) /\ ~RenderRaises(engine.rules, e) /\ Messages(e) = <<>>
  /\ Called(e, "unmatched", 0)
  /\ unmatched' = unmatched + 1
  /\ UNCHANGED <<failed, pending>>

BeginSending(e) ==
  /\ Accepted(e) /\ ~RenderRaises(engine.rules, e) /\ Messages(e) # <<>>
  /\ Called(e, "sending", Len(Messages(e)))
  /\ pending' = Messages(e)
  /\ UNCHANGED <<failed, unmatched>>

(* The current event's entry of the log.                                   *)
Current == log[Len(log)]
Ends(how) == log' = [log EXCEPT ![Len(log)].how = how]

(* A transport without a socket, of a bridge that was stopped, makes one.  *)
SendNext ==
  /\ ~Idle
  /\ sent' = Append(sent, [event |-> Len(log), nth |-> Current.asked - Len(pending) + 1,
                           message |-> Head(pending)])
  /\ generated' = generated + 1
  /\ pending' = Tail(pending)
  /\ socket' = (output = "udp")
  /\ IF Tail(pending) = <<>> THEN Ends("sent") ELSE UNCHANGED log
  /\ UNCHANGED <<output, deduplicates, engine, seen, processed, failed, unmatched, starts>>

(* The error ends the event, not the bridge.  (Making a socket is taken    *)
(* not to fail.)                                                           *)
SendFailsAndGoesOn ==
  /\ ~Idle
  /\ socket' = (output = "udp")
  /\ failed' = failed + 1
  /\ pending' = Tail(pending)
  /\ Ends("sendFailed")
  /\ UNCHANGED <<output, deduplicates, engine, seen, processed, generated, unmatched, sent,
                 starts>>
SendFails ==
  /\ ~Idle
  /\ socket' = (output = "udp")
  /\ failed' = failed + 1
  /\ pending' = <<>>
  /\ Ends("sendFailed")
  /\ UNCHANGED <<output, deduplicates, engine, seen, processed, generated, unmatched, sent,
                 starts>>

(* CancelledError is not an Exception: it passes the bridge uncounted.     *)
CountCancelled == failed' = failed + 1
LeaveUncounted == failed' = failed

CancelledWhileSending ==
  /\ ~Idle /\ output = "udp"
  /\ socket' = TRUE /\ pending' = <<>>
  /\ Ends("cancelled")
  /\ LeaveUncounted
  /\ UNCHANGED <<output, deduplicates, engine, seen, processed, generated, unmatched, sent,
                 starts>>

-----------------------------------------------------------------------------
(* The specification                                                       *)

ProcessEvent(e) ==
  \/ CannotRead(e) \/ Suppress(e) \/ CannotRender(e) \/ NoRule(e) \/ BeginSending(e)

Next ==
  \/ \E rules \in RuleFiles, templates \in TemplateFiles :
       Start(rules, templates) \/ StartFails(rules, templates)
  \/ Stop
  \/ Reject
  \/ \E e \in Events : ProcessEvent(e)
  \/ SendNext \/ SendFails \/ CancelledWhileSending

Spec == Init /\ [][Next]_vars

-----------------------------------------------------------------------------
(* Properties                                                              *)

Hows == {"unreadable", "duplicate", "unrenderable", "unmatched", "sending",
         "sent", "sendFailed", "cancelled"}
Keys == {Key(e) : e \in Events}

(* Every variable is of its type; the deduplicator holds at most max_size  *)
(* ids, none of them twice and never the empty one.                        *)
TypeOK ==
  /\ output \in {"udp", "stdout"} /\ deduplicates \in BOOLEAN
  /\ engine.loaded \in BOOLEAN /\ socket \in BOOLEAN
  /\ seen \in Seq(Keys \ {""})
  /\ Len(seen) <= MaxSize
  /\ \A i, j \in 1 .. Len(seen) : seen[i] = seen[j] => i = j
  /\ processed \in Nat /\ generated \in Nat /\ failed \in Nat /\ unmatched \in Nat
  /\ log \in Seq([event : Events, how : Hows, asked : Nat])
  /\ pending # <<>> => log # <<>> /\ Current.how = "sending"
  /\ starts \in 0 .. MaxStarts

(* An event is suppressed exactly when its id was met among the last       *)
(* max_size different ids, however often and in whatever order the others  *)
(* came and whatever became of them: sent, failed, cancelled, suppressed.  *)
Counted(i) == log[i].how # "unreadable" /\ Key(log[i].event) # ""
IdOf(i) == Key(log[i].event)
IdsBetween(j, i) == {IdOf(m) : m \in {n \in j + 1 .. i - 1 : Counted(n)}} \ {IdOf(i)}
ExactWindow ==
  \A i \in 1 .. Len(log) :
    log[i].how = "duplicate" <=>
      /\ deduplicates /\ Counted(i)
      /\ \E j \in 1 .. i - 1 :
           /\ Counted(j) /\ IdOf(j) = IdOf(i)
           /\ Cardinality(IdsBetween(j, i)) < MaxSize

(* What the game receives: the messages of one event together, events in   *)
(* the order they were given, the messages of each in the order of its     *)
(* rules from the first on without a gap, all of them when the event       *)
(* counts as sent, not all when a send failed or was cancelled, and none   *)
(* when any part of the event could not be rendered.                       *)
SentOf(i) == {n \in 1 .. Len(sent) : sent[n].event = i}
SentInOrder ==
  /\ \A n \in 1 .. Len(sent) :
       \/ /\ n > 1 /\ sent[n - 1].event = sent[n].event
          /\ sent[n].nth = sent[n - 1].nth + 1
       \/ /\ n > 1 => sent[n - 1].event < sent[n].event
          /\ sent[n].nth = 1
  /\ \A i \in 1 .. Len(log) :
       LET done == Cardinality(SentOf(i)) IN
       /\ log[i].how = "sent" => done = log[i].asked
       /\ log[i].how \in {"sendFailed", "cancelled"} => done < log[i].asked
       /\ log[i].how = "sending" => done = log[i].asked - Len(pending)
       /\ log[i].asked = 0 => done = 0

(* The counters agree with what happened: each event given to a started    *)
(* bridge is processed once or suppressed, failures are counted once per   *)
(* event however far it got, and every message that went out is counted.   *)
NumberOf(hows) == Cardinality({i \in 1 .. Len(log) : log[i].how \in hows})
Accounts ==
  /\ processed = NumberOf({"unrenderable", "unmatched", "sending", "sent", "sendFailed",
                           "cancelled"})
  /\ failed = NumberOf({"unreadable", "unrenderable", "sendFailed"})
  /\ unmatched = NumberOf({"unmatched"})
  /\ generated = Len(sent)
=============================================================================
