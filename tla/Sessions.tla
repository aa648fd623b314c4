------------------------------ MODULE Sessions ------------------------------
(***************************************************************************)
(* The fan-out of the gateway: EventBroker and WebSocketEventServer.       *)
(*                                                                         *)
(* A client that connects gets a subscription, which is a bounded queue    *)
(* and a filter, and three coroutines: _handle_client, which waits for the *)
(* first of the other two to end, the reader of its messages, and the      *)
(* writer of its events.  All run on one asyncio loop: an action is what a  *)
(* coroutine does from one await to the next.                              *)
(*                                                                         *)
(* Events are numbered in the order of their publication; their contents   *)
(* matter to the filters alone.  A client here is one connection.          *)
(***************************************************************************)
EXTENDS Integers, Sequences, FiniteSets

CONSTANTS
  Clients,     (* the connections of a run                                 *)
  EventTypes,  (* the types a filter chooses from                          *)
  Filters,     (* filters a client may ask for                             *)
  QueueSize,   (* EventBroker.subscriber_queue_size                        *)
  MaxEvents    (* bound of the model: events published                     *)

ASSUME BrokerAssumption ==
  QueueSize \in Nat \ {0} /\ MaxEvents \in Nat /\ Filters \subseteq SUBSET EventTypes

VARIABLES
  published,   (* number of events published so far                        *)
  subscribed,  (* keys of EventBroker._subscriptions                       *)
  filter,      (* BrokerSubscription.event_types; None is all the types    *)
  queue,       (* BrokerSubscription.queue                                 *)
  dropped,     (* BrokerSubscription.dropped_events                        *)
  conn,        (* the WebSocket connection, kept by the websockets library *)
  handler,     (* the coroutine _handle_client                             *)
  reader,      (* the task _read_client_messages                           *)
  writer,      (* the task _write_client_events                            *)
  inHand,      (* the event the writer is sending, or Heartbeat            *)
  offered,     (* history: events put into the client's queue              *)
  sent         (* history: events handed to the client's connection        *)

brokerVars  == <<published, subscribed, filter, queue, dropped, offered>>
sessionVars == <<conn, handler, reader, writer>>
outVars     == <<inHand, sent>>
vars == <<brokerVars, sessionVars, outVars>>

Heartbeat == 0
Events == 1 .. MaxEvents

Finished == {"ended", "failed", "cancelled"}
ReaderDone(c) == reader[c] \in Finished
WriterDone(c) == writer[c] \in Finished

Init ==
  /\ published = 0
  /\ subscribed = {}
  /\ filter = [c \in Clients |-> EventTypes]
  /\ queue = [c \in Clients |-> <<>>]
  /\ dropped = [c \in Clients |-> 0]
  /\ conn = [c \in Clients |-> "none"]
  /\ handler = [c \in Clients |-> "none"]
  /\ reader = [c \in Clients |-> "none"]
  /\ writer = [c \in Clients |-> "none"]
  /\ inHand = [c \in Clients |-> Heartbeat]
  /\ offered = [c \in Clients |-> <<>>]
  /\ sent = [c \in Clients |-> <<>>]

-----------------------------------------------------------------------------
(* EventBroker.publish: it has no await, so all subscribers get the event  *)
(* in one step.                                                            *)

Full(c) == Len(queue[c]) = QueueSize
Matching(type) == {c \in subscribed : type \in filter[c]}

(* BrokerSubscription.enqueue_nowait                                       *)
EnqueuedUnbounded(c, e) == Append(queue[c], e)
EnqueuedDropNewest(c, e) == IF Full(c) THEN queue[c] ELSE Append(queue[c], e)
EnqueuedInFront(c, e) == IF Full(c) THEN <<e>> \o Tail(queue[c]) ELSE Append(queue[c], e)
Enqueued(c, e) == Append(IF Full(c) THEN Tail(queue[c]) ELSE queue[c], e)
DropCountTwice(c) == IF Full(c) THEN dropped[c] + 2 ELSE dropped[c]
DropCount(c) == IF Full(c) THEN dropped[c] + 1 ELSE dropped[c]

Publish(type) ==
  LET e == published + 1
      to == Matching(type)
  IN /\ published < MaxEvents
     /\ published' = e
     /\ queue' = [c \in Clients |-> IF c \in to THEN Enqueued(c, e) ELSE queue[c]]
     /\ dropped' = [c \in Clients |-> IF c \in to THEN DropCount(c) ELSE dropped[c]]
     /\ offered' = [c \in Clients |-> IF c \in to THEN Append(offered[c], e)
                                                  ELSE offered[c]]
     /\ UNCHANGED <<subscribed, filter, sessionVars, outVars>>

-----------------------------------------------------------------------------
(* The connection *)

(* _handle_client up to its asyncio.wait.                                  *)
Accept(c, types) ==
  /\ handler[c] = "none"
  /\ subscribed' = subscribed \cup {c}
  /\ filter' = [filter EXCEPT ![c] = types]
  /\ conn' = [conn EXCEPT ![c] = "open"]
  /\ handler' = [handler EXCEPT ![c] = "waiting"]
  /\ reader' = [reader EXCEPT ![c] = "reading"]
  /\ writer' = [writer EXCEPT ![c] = "ready"]
  /\ UNCHANGED <<published, queue, dropped, offered, outVars>>

(* A path or a filter that is not understood closes the connection.        *)
Refuse(c) ==
  /\ handler[c] = "none"
  /\ conn' = [conn EXCEPT ![c] = "closed"]
  /\ handler' = [handler EXCEPT ![c] = "done"]
  /\ UNCHANGED <<reader, writer, brokerVars, outVars>>

(* The client or WebSocketEventServer.stop closes the connection, which    *)
(* ends the iteration over its messages; or it breaks, which raises.       *)
Disconnect(c) ==
  /\ conn[c] = "open"
  /\ \E how \in {"closed", "broken"} : conn' = [conn EXCEPT ![c] = how]
  /\ UNCHANGED <<handler, reader, writer, brokerVars, outVars>>

(* The library closes the connection when its handler has returned.        *)
LibraryCloses(c) ==
  /\ handler[c] = "done" /\ conn[c] = "open"
  /\ conn' = [conn EXCEPT ![c] = "closed"]
  /\ UNCHANGED <<handler, reader, writer, brokerVars, outVars>>

-----------------------------------------------------------------------------
(* The reader.  A message that is not understood changes nothing.  While a *)
(* cancellation is on its way to a task, that is the task's next step.     *)

Runs(c) == handler[c] # "cancelling"

UpdateFilter(c, types) ==
  /\ reader[c] = "reading" /\ Runs(c)
  /\ c \in subscribed
  /\ filter' = [filter EXCEPT ![c] = types]
  /\ UNCHANGED <<published, subscribed, queue, dropped, offered, sessionVars, outVars>>

EndReader(c) ==
  /\ reader[c] = "reading" /\ Runs(c)
  /\ conn[c] # "open"
  /\ reader' = [reader EXCEPT ![c] = IF conn[c] = "broken" THEN "failed" ELSE "ended"]
  /\ UNCHANGED <<conn, handler, writer, brokerVars, outVars>>

-----------------------------------------------------------------------------
(* The writer *)

TakeHead(c) ==
  /\ queue[c] # <<>>
  /\ inHand' = [inHand EXCEPT ![c] = Head(queue[c])]
  /\ queue' = [queue EXCEPT ![c] = Tail(@)]
  /\ writer' = [writer EXCEPT ![c] = "sending"]

TakeEvent(c) ==
  /\ writer[c] \in {"ready", "waiting"} /\ Runs(c)
  /\ TakeHead(c)
  /\ UNCHANGED <<published, subscribed, filter, dropped, offered, conn, handler,
                 reader, sent>>

AwaitEvent(c) ==
  /\ writer[c] = "ready" /\ Runs(c)
  /\ queue[c] = <<>>
  /\ writer' = [writer EXCEPT ![c] = "waiting"]
  /\ UNCHANGED <<conn, handler, reader, brokerVars, outVars>>

(* The timeout may strike when an event has just arrived: cancelling       *)
(* Queue.get leaves it in the queue.                                       *)
HeartbeatFirst(c) == writer[c] \in {"ready", "waiting"}
HeartbeatWhileSubscribed(c) == writer[c] = "waiting" /\ c \in subscribed
HeartbeatDue(c) == writer[c] = "waiting"

SendHeartbeat(c) ==
  /\ HeartbeatDue(c) /\ Runs(c)
  /\ inHand' = [inHand EXCEPT ![c] = Heartbeat]
  /\ writer' = [writer EXCEPT ![c] = "sending"]
  /\ UNCHANGED <<conn, handler, reader, brokerVars, sent>>

(* The event in hand reaches the connection.                               *)
Written(c) == IF inHand[c] = Heartbeat THEN sent[c] ELSE Append(sent[c], inHand[c])

SendSucceeds(c) ==
  /\ writer[c] = "sending" /\ Runs(c) /\ conn[c] = "open"
  /\ sent' = [sent EXCEPT ![c] = Written(c)]
  /\ inHand' = [inHand EXCEPT ![c] = Heartbeat]
  /\ writer' = [writer EXCEPT ![c] = "ready"]
  /\ UNCHANGED <<conn, handler, reader, brokerVars>>

(* A timeout while the client does not read, or ConnectionClosed, ends the *)
(* writer.  The frame of a send that timed out may have been written.      *)
SendFails(c) ==
  /\ writer[c] = "sending" /\ Runs(c)
  /\ sent' \in {sent} \cup
       IF conn[c] = "open" THEN {[sent EXCEPT ![c] = Written(c)]} ELSE {}
  /\ inHand' = [inHand EXCEPT ![c] = Heartbeat]
  /\ writer' = [writer EXCEPT ![c] = "ended"]
  /\ UNCHANGED <<conn, handler, reader, brokerVars>>

-----------------------------------------------------------------------------
(* _handle_client after its asyncio.wait *)

Unsubscribe(c) == subscribed' = subscribed \ {c}

(* A reader that failed raises out of task.result(): the session ends and  *)
(* the writer is left to itself.                                           *)
AbandonWriter(c) ==
  /\ handler[c] = "waiting" /\ reader[c] = "failed"
  /\ Unsubscribe(c)
  /\ handler' = [handler EXCEPT ![c] = "done"]
  /\ UNCHANGED <<published, filter, queue, dropped, offered, conn, reader, writer,
                 outVars>>

(* The task that has not ended is cancelled and awaited.                   *)
CancelOther(c) ==
  /\ handler[c] = "waiting" /\ reader[c] # "failed"
  /\ ReaderDone(c) # WriterDone(c)
  /\ handler' = [handler EXCEPT ![c] = "cancelling"]
  /\ UNCHANGED <<conn, reader, writer, brokerVars, outVars>>

DeliverCancel(c) ==
  /\ handler[c] = "cancelling"
  /\ handler' = [handler EXCEPT ![c] = "awaiting"]
  /\ reader' = [reader EXCEPT ![c] = IF ReaderDone(c) THEN @ ELSE "cancelled"]
  /\ writer' = [writer EXCEPT ![c] = IF WriterDone(c) THEN @ ELSE "cancelled"]
  /\ inHand' = [inHand EXCEPT ![c] = Heartbeat]
  /\ UNCHANGED <<conn, brokerVars, sent>>

(* asyncio.wait_for in Python 3.10 and 3.11 drops a cancellation that      *)
(* arrives together with the result: an event was taken, or a send ended.  *)
SwallowCancel(c) ==
  /\ handler[c] = "cancelling"
  /\ \/ writer[c] = "waiting" /\ TakeHead(c) /\ UNCHANGED sent
     \/ /\ writer[c] = "sending"
        /\ sent' = [sent EXCEPT ![c] = Written(c)]
        /\ writer' = [writer EXCEPT ![c] = "ready"]
        /\ inHand' = [inHand EXCEPT ![c] = Heartbeat]
        /\ UNCHANGED queue
  /\ handler' = [handler EXCEPT ![c] = "awaiting"]
  /\ UNCHANGED <<published, subscribed, filter, dropped, offered, conn, reader>>

EndSessionEarly(c) == handler[c] = "cancelling"
EndSession(c) ==
  \/ handler[c] = "awaiting" /\ ReaderDone(c) /\ WriterDone(c)
  \/ handler[c] = "waiting" /\ reader[c] = "ended" /\ WriterDone(c)

FinishHandler(c) ==
  /\ EndSession(c)
  /\ Unsubscribe(c)
  /\ handler' = [handler EXCEPT ![c] = "done"]
  /\ UNCHANGED <<published, filter, queue, dropped, offered, conn, reader, writer,
                 outVars>>

-----------------------------------------------------------------------------
ClientActs(c) ==
  \/ \E types \in Filters : Accept(c, types) \/ UpdateFilter(c, types)
  \/ Refuse(c)
  \/ Disconnect(c)

ServerActs(c) ==
  \/ LibraryCloses(c)
  \/ EndReader(c)
  \/ TakeEvent(c)
  \/ AwaitEvent(c)
  \/ SendHeartbeat(c)
  \/ SendSucceeds(c) \/ SendFails(c)
  \/ AbandonWriter(c)
  \/ CancelOther(c)
  \/ DeliverCancel(c) \/ SwallowCancel(c)
  \/ FinishHandler(c)

Next ==
  \/ \E type \in EventTypes : Publish(type)
  \/ \E c \in Clients : ClientActs(c) \/ ServerActs(c)

Spec == Init /\ [][Next]_vars

(* The event loop runs whatever coroutine can go on, timers fire, and      *)
(* wait_for ends every send.  Clients and publishers need not act.         *)
FairSpec == Spec /\ \A c \in Clients : WF_vars(ServerActs(c))

-----------------------------------------------------------------------------
(* Type correctness: no queue outgrows its bound, and every coroutine is   *)
(* in one of its states.                                                   *)
TypeOK ==
  /\ published \in 0 .. MaxEvents
  /\ subscribed \subseteq Clients
  /\ filter \in [Clients -> SUBSET EventTypes]
  /\ queue \in [Clients -> Seq(Events)]
  /\ \A c \in Clients : Len(queue[c]) <= QueueSize
  /\ dropped \in [Clients -> Nat]
  /\ conn \in [Clients -> {"none", "open", "closed", "broken"}]
  /\ handler \in [Clients -> {"none", "waiting", "cancelling", "awaiting", "done"}]
  /\ reader \in [Clients -> {"none", "reading"} \cup Finished]
  /\ writer \in [Clients -> {"none", "ready", "waiting", "sending"} \cup Finished]
  /\ inHand \in [Clients -> Events \cup {Heartbeat}]
  /\ offered \in [Clients -> Seq(Events)]
  /\ sent \in [Clients -> Seq(Events)]

(* A queue holds the newest of the events offered to its client: a slow    *)
(* client loses the oldest, and never one from the middle.                 *)
NewestKept ==
  \A c \in Clients :
    /\ Len(queue[c]) <= Len(offered[c])
    /\ queue[c] = SubSeq(offered[c], Len(offered[c]) - Len(queue[c]) + 1,
                         Len(offered[c]))

(* Every event offered to a client is in its queue, was sent to it or is   *)
(* counted as dropped, except the one the writer had in hand at the end:   *)
(* the number logged when a client leaves is what overflow has cost it.    *)
InTransit(c) == Len(offered[c]) - Len(queue[c]) - dropped[c] - Len(sent[c])
LossesCounted ==
  \A c \in Clients :
    IF WriterDone(c) THEN InTransit(c) \in {0, 1}
    ELSE InTransit(c) = IF inHand[c] = Heartbeat THEN 0 ELSE 1

(* A client is sent events in the order of their publication and none of   *)
(* them twice, heartbeats, drops and swallowed cancellations between them. *)
Outgoing(c) ==
  sent[c] \o (IF inHand[c] = Heartbeat THEN <<>> ELSE <<inHand[c]>>) \o queue[c]
InOrder ==
  \A c \in Clients : \A i, j \in 1 .. Len(Outgoing(c)) :
    i < j => Outgoing(c)[i] < Outgoing(c)[j]

(* A session that has ended leaves no task behind on a connection that     *)
(* still works, and no reader behind at all: update_subscription, which    *)
(* raises on an unknown id, is never called for a removed subscription.    *)
EndsClean ==
  \A c \in Clients :
    /\ reader[c] = "reading" => c \in subscribed
    /\ handler[c] = "done" /\ conn[c] # "broken" =>
         writer[c] \in Finished \cup {"none"}

(* The broker and the writers implement the ring log: one reader position  *)
(* per client in the log of what it was offered.                           *)
Ring == INSTANCE RingLog WITH
  Subscribers <- Clients, Capacity <- QueueSize,
  log <- offered, lost <- dropped,
  gone <- [c \in Clients |-> Len(offered[c]) - Len(queue[c])]
ImplementsRingLog == Ring!Spec

(* When a connection is gone its session ends completely: subscription,    *)
(* reader and writer.  A writer abandoned by its handler hears of nothing  *)
(* but its own heartbeat.                                                  *)
ClosedSessionsEnd ==
  \A c \in Clients :
    conn[c] \in {"closed", "broken"} ~>
      /\ c \notin subscribed /\ handler[c] = "done"
      /\ reader[c] # "reading" /\ writer[c] \in Finished \cup {"none"}

(* An event that waits in the queue of an open connection does not wait    *)
(* for ever: it is sent, or dropped for newer ones, or the connection ends.*)
QueuesDrain ==
  \A c \in Clients : \A e \in Events :
    (\E i \in 1 .. Len(queue[c]) : queue[c][i] = e) ~>
      \/ \A i \in 1 .. Len(queue[c]) : queue[c][i] # e
      \/ conn[c] # "open"
=============================================================================
