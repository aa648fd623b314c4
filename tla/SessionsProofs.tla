--------------------------- MODULE SessionsProofs ---------------------------
(***************************************************************************)
(* Proofs about Sessions, for every set of clients, every queue size and   *)
(* every number of events: types, what the queues keep, what is lost, how  *)
(* sessions end, and that the fan-out implements RingLog.                  *)
(***************************************************************************)
EXTENDS Sessions, SequenceTheorems, DataLemmas, TLAPS

-----------------------------------------------------------------------------
(* Queues *)

(* Adding an event to a queue with room, or to a full queue that has lost  *)
(* its oldest event, keeps its type and its bound (enqueue_nowait).        *)
LEMMA EnqueuedType ==
  ASSUME NEW c \in Clients, NEW e \in Events,
         queue[c] \in Seq(Events), Len(queue[c]) <= QueueSize
  PROVE  /\ Enqueued(c, e) \in Seq(Events)
         /\ Len(Enqueued(c, e)) <= QueueSize
         /\ Len(Enqueued(c, e)) = IF Full(c) THEN Len(queue[c]) ELSE Len(queue[c]) + 1
<1>1. QueueSize \in Nat \ {0}
  BY BrokerAssumption
<1>2. CASE Full(c)
  <2>1. queue[c] # <<>>
    BY <1>1, <1>2 DEF Full
  <2>2. Tail(queue[c]) \in Seq(Events) /\ Len(Tail(queue[c])) = Len(queue[c]) - 1
    BY <2>1
  <2>3. Enqueued(c, e) = Append(Tail(queue[c]), e)
    BY <1>2 DEF Enqueued
  <2> QED
    BY <1>1, <1>2, <2>1, <2>2, <2>3
<1>3. CASE ~Full(c)
  <2>1. Enqueued(c, e) = Append(queue[c], e)
    BY <1>3 DEF Enqueued
  <2> QED
    BY <1>1, <1>3, <2>1 DEF Full
<1> QED
  BY <1>2, <1>3

(* The writer takes the head of its queue: the rest is one event shorter.  *)
LEMMA TakenType ==
  ASSUME NEW c \in Clients, TypeOK, TakeHead(c)
  PROVE  /\ queue' \in [Clients -> Seq(Events)]
         /\ \A d \in Clients : Len(queue'[d]) <= QueueSize
         /\ inHand' \in [Clients -> Events \cup {Heartbeat}]
         /\ inHand'[c] \in Events
         /\ Len(queue'[c]) = Len(queue[c]) - 1
<1>1. queue[c] \in Seq(Events) /\ queue[c] # <<>>
  BY DEF TypeOK, TakeHead
<1>2. Head(queue[c]) \in Events /\ Tail(queue[c]) \in Seq(Events)
        /\ Len(Tail(queue[c])) = Len(queue[c]) - 1
  BY <1>1
<1>3. QueueSize \in Nat
  BY BrokerAssumption
<1> QED
  BY <1>1, <1>2, <1>3 DEF TypeOK, TakeHead

(* What a send hands to the connection is a sequence of events.            *)
LEMMA WrittenType ==
  ASSUME NEW c \in Clients, TypeOK
  PROVE  /\ Written(c) \in Seq(Events)
         /\ Len(Written(c)) = Len(sent[c]) + IF inHand[c] = Heartbeat THEN 0 ELSE 1
BY DEF TypeOK, Written

(* Types are kept by a publication.                                        *)
LEMMA PublishType ==
  ASSUME TypeOK, NEW type \in EventTypes, Publish(type)
  PROVE  TypeOK'
<1> DEFINE e == published + 1
<1>1. e \in Events /\ MaxEvents \in Nat
  BY BrokerAssumption DEF TypeOK, Publish, Events
<1>2. \A c \in Clients : queue'[c] \in Seq(Events) /\ Len(queue'[c]) <= QueueSize
  <2> TAKE c \in Clients
  <2>1. queue[c] \in Seq(Events) /\ Len(queue[c]) <= QueueSize
    BY DEF TypeOK
  <2>2. Enqueued(c, e) \in Seq(Events) /\ Len(Enqueued(c, e)) <= QueueSize
    BY <1>1, <2>1, EnqueuedType
  <2>3. queue'[c] \in {queue[c], Enqueued(c, e)}
    BY DEF Publish
  <2> QED
    BY <2>1, <2>2, <2>3
<1>3. queue' \in [Clients -> Seq(Events)]
  <2>1. queue' = [c \in Clients |-> queue'[c]]
    BY DEF Publish
  <2> QED
    BY <1>2, <2>1
<1>4. dropped' \in [Clients -> Nat]
  BY DEF Publish, TypeOK, DropCount
<1>5. offered' \in [Clients -> Seq(Events)]
  BY <1>1 DEF Publish, TypeOK
<1>6. published' \in 0 .. MaxEvents
  BY <1>1 DEF Publish, TypeOK, Events
<1> QED
  BY <1>2, <1>3, <1>4, <1>5, <1>6 DEF Publish, TypeOK, sessionVars, outVars

(* Types are kept by every step of a session.                              *)
LEMMA SessionType ==
  ASSUME TypeOK, NEW c \in Clients, ClientActs(c) \/ ServerActs(c)
  PROVE  TypeOK'
<1> USE DEF TypeOK, brokerVars, sessionVars, outVars, Finished
<1>1. ASSUME NEW types \in Filters, Accept(c, types) PROVE TypeOK'
  BY <1>1, BrokerAssumption DEF Accept
<1>2. ASSUME NEW types \in Filters, UpdateFilter(c, types) PROVE TypeOK'
  BY <1>2, BrokerAssumption DEF UpdateFilter
<1>3. CASE Refuse(c)
  BY <1>3 DEF Refuse
<1>4. CASE Disconnect(c)
  BY <1>4 DEF Disconnect
<1>5. CASE LibraryCloses(c)
  BY <1>5 DEF LibraryCloses
<1>6. CASE EndReader(c)
  BY <1>6 DEF EndReader
<1>7. CASE TakeEvent(c)
  <2>1. TakeHead(c)
    BY <1>7 DEF TakeEvent
  <2>2. writer' \in [Clients -> {"none", "ready", "waiting", "sending"} \cup Finished]
    BY <2>1 DEF TakeHead
  <2> QED
    BY <1>7, <2>1, <2>2, TakenType DEF TakeEvent
<1>8. CASE AwaitEvent(c)
  BY <1>8 DEF AwaitEvent
<1>9. CASE SendHeartbeat(c)
  BY <1>9 DEF SendHeartbeat
<1>10. CASE SendSucceeds(c)
  BY <1>10, WrittenType DEF SendSucceeds
<1>11. CASE SendFails(c)
  BY <1>11, WrittenType DEF SendFails
<1>12. CASE AbandonWriter(c)
  BY <1>12 DEF AbandonWriter, Unsubscribe
<1>13. CASE CancelOther(c)
  BY <1>13 DEF CancelOther
<1>14. CASE DeliverCancel(c)
  BY <1>14 DEF DeliverCancel
<1>15. CASE SwallowCancel(c)
  <2>1. CASE TakeHead(c) /\ UNCHANGED sent
    <3>1. writer' \in [Clients -> {"none", "ready", "waiting", "sending"} \cup Finished]
      BY <2>1 DEF TakeHead
    <3> QED
      BY <1>15, <2>1, <3>1, TakenType DEF SwallowCancel
  <2>2. CASE /\ sent' = [sent EXCEPT ![c] = Written(c)]
             /\ writer' = [writer EXCEPT ![c] = "ready"]
             /\ inHand' = [inHand EXCEPT ![c] = Heartbeat]
             /\ UNCHANGED queue
    BY <1>15, <2>2, WrittenType DEF SwallowCancel
  <2> QED
    BY <1>15, <2>1, <2>2 DEF SwallowCancel
<1>16. CASE FinishHandler(c)
  BY <1>16 DEF FinishHandler, Unsubscribe
<1> QED
  BY <1>1, <1>2, <1>3, <1>4, <1>5, <1>6, <1>7, <1>8, <1>9, <1>10, <1>11, <1>12,
     <1>13, <1>14, <1>15, <1>16 DEF ClientActs, ServerActs

(* Every variable keeps its type, and no queue outgrows its bound.         *)
THEOREM TypeCorrect == Spec => []TypeOK
<1>1. Init => TypeOK
  BY BrokerAssumption DEF Init, TypeOK, Events
<1>2. TypeOK /\ [Next]_vars => TypeOK'
  <2> SUFFICES ASSUME TypeOK, [Next]_vars PROVE TypeOK'
    OBVIOUS
  <2>1. CASE UNCHANGED vars
    BY <2>1 DEF vars, brokerVars, sessionVars, outVars, TypeOK
  <2>2. CASE Next
    BY <2>2, PublishType, SessionType DEF Next
  <2> QED
    BY <2>1, <2>2
<1> QED
  BY <1>1, <1>2, PTL DEF Spec

-----------------------------------------------------------------------------
(* The ring log *)

(* A publication is an offer to the clients whose filter matches.          *)
LEMMA PublishOffers ==
  ASSUME TypeOK, NEW type \in EventTypes, Publish(type),
         NEW e \in Events, e = published + 1,
         NEW to \in SUBSET Clients, to = Matching(type)
  PROVE  Ring!Offer(e, to)
<1> DEFINE gone == [c \in Clients |-> Len(offered[c]) - Len(queue[c])]
<1>2. offered' = [c \in Clients |-> IF c \in to THEN Append(offered[c], e) ELSE offered[c]]
  BY DEF Publish
<1>3. ASSUME NEW c \in Clients
      PROVE  /\ Ring!Kept(c) = Len(queue[c])
             /\ dropped'[c] = IF c \in to /\ Ring!Kept(c) = QueueSize
                              THEN dropped[c] + 1 ELSE dropped[c]
             /\ Len(offered'[c]) - Len(queue'[c]) =
                  IF c \in to /\ Ring!Kept(c) = QueueSize THEN gone[c] + 1 ELSE gone[c]
  <2>1. /\ queue[c] \in Seq(Events) /\ Len(queue[c]) <= QueueSize
        /\ offered[c] \in Seq(Events) /\ dropped[c] \in Nat
    BY DEF TypeOK
  <2>2. Ring!Kept(c) = Len(queue[c])
    BY <2>1 DEF Ring!Kept
  <2>3. Len(Enqueued(c, e)) = IF Full(c) THEN Len(queue[c]) ELSE Len(queue[c]) + 1
    BY <2>1, EnqueuedType
  <2>4. Len(Append(offered[c], e)) = Len(offered[c]) + 1
    BY <2>1
  <2>5. dropped'[c] = IF c \in to /\ Full(c) THEN dropped[c] + 1 ELSE dropped[c]
    BY DEF Publish, DropCount
  <2>6. queue'[c] = IF c \in to THEN Enqueued(c, e) ELSE queue[c]
    BY DEF Publish
  <2>7. Full(c) <=> Ring!Kept(c) = QueueSize
    BY <2>2 DEF Full
  <2>8. offered'[c] = IF c \in to THEN Append(offered[c], e) ELSE offered[c]
    BY <1>2
  <2>9. gone[c] = Len(offered[c]) - Len(queue[c])
    OBVIOUS
  <2> HIDE DEF gone
  <2>10. Len(queue[c]) \in Nat /\ Len(offered[c]) \in Nat
    BY <2>1
  <2>11. Len(queue'[c]) = IF c \in to /\ ~Full(c) THEN Len(queue[c]) + 1
                          ELSE Len(queue[c])
    BY <2>3, <2>6
  <2>12. Len(offered'[c]) = IF c \in to THEN Len(offered[c]) + 1 ELSE Len(offered[c])
    BY <2>4, <2>8
  <2>13. Len(offered'[c]) - Len(queue'[c]) =
           IF c \in to /\ Full(c) THEN gone[c] + 1 ELSE gone[c]
    <3>1. CASE c \in to /\ Full(c)
      BY <3>1, <2>9, <2>10, <2>11, <2>12
    <3>2. CASE c \in to /\ ~Full(c)
      <4>1. Len(queue'[c]) = Len(queue[c]) + 1 /\ Len(offered'[c]) = Len(offered[c]) + 1
        BY <3>2, <2>11, <2>12
      <4>2. Len(offered'[c]) - Len(queue'[c]) = gone[c]
        BY <4>1, <2>9, <2>10
      <4> QED
        BY <3>2, <4>2
    <3>3. CASE c \notin to
      BY <3>3, <2>9, <2>10, <2>11, <2>12
    <3> QED
      BY <3>1, <3>2, <3>3
  <2> QED
    BY <2>2, <2>5, <2>7, <2>13
<1>4. dropped' = [c \in Clients |-> IF c \in to /\ Ring!Kept(c) = QueueSize
                                    THEN dropped[c] + 1 ELSE dropped[c]]
  <2>1. dropped' = [c \in Clients |-> dropped'[c]]
    BY DEF Publish
  <2> QED
    BY <1>3, <2>1
<1>5. [c \in Clients |-> Len(offered'[c]) - Len(queue'[c])]
        = [c \in Clients |-> IF c \in to /\ Ring!Kept(c) = QueueSize
                             THEN gone[c] + 1 ELSE gone[c]]
  <2> HIDE DEF gone
  <2> QED
    BY <1>3
<1> QED
  BY <1>2, <1>4, <1>5 DEF Ring!Offer

(* The writer's taking an event is a take of its client.                   *)
LEMMA TakeHeadTakes ==
  ASSUME TypeOK, NEW c \in Clients, TakeHead(c), UNCHANGED <<offered, dropped>>
  PROVE  Ring!Next
<1> DEFINE gone == [d \in Clients |-> Len(offered[d]) - Len(queue[d])]
<1>1. /\ queue[c] \in Seq(Events) /\ queue[c] # <<>> /\ offered[c] \in Seq(Events)
      /\ Len(queue'[c]) = Len(queue[c]) - 1
  BY TakenType DEF TypeOK, TakeHead
<1>2. Ring!Kept(c) > 0
  BY <1>1 DEF Ring!Kept
<1>3. [d \in Clients |-> Len(offered'[d]) - Len(queue'[d])] = [gone EXCEPT ![c] = @ + 1]
  <2>1. \A d \in Clients : d # c => queue'[d] = queue[d]
    BY DEF TakeHead, TypeOK
  <2>2. \A d \in Clients : gone[d] = Len(offered[d]) - Len(queue[d])
    OBVIOUS
  <2>3. Len(queue[c]) \in Nat /\ Len(offered[c]) \in Nat
    BY <1>1
  <2>4. Len(offered'[c]) - Len(queue'[c]) = gone[c] + 1
    BY <1>1, <2>2, <2>3
  <2>5. \A d \in Clients : Len(offered'[d]) - Len(queue'[d]) =
                             IF d = c THEN gone[c] + 1 ELSE gone[d]
    BY <2>1, <2>2, <2>4
  <2>6. [gone EXCEPT ![c] = @ + 1] =
          [d \in Clients |-> IF d = c THEN gone[c] + 1 ELSE gone[d]]
    OBVIOUS
  <2> HIDE DEF gone
  <2> QED
    BY <2>5, <2>6
<1> QED
  BY <1>2, <1>3 DEF Ring!Next, Ring!Take

(* The broker and the sessions of its clients implement the ring log: each *)
(* client loses exactly the oldest events its queue had no room for, and a *)
(* client that lags costs the others nothing.                              *)
THEOREM RingLogImplemented == Spec => ImplementsRingLog
<1>1. Init => Ring!Init
  BY DEF Init, Ring!Init
<1>2. TypeOK /\ [Next]_vars => [Ring!Next]_(Ring!logVars)
  <2> SUFFICES ASSUME TypeOK, [Next]_vars PROVE Ring!Next \/ UNCHANGED Ring!logVars
    OBVIOUS
  <2> USE DEF Ring!logVars, brokerVars, outVars, sessionVars
  <2>1. CASE UNCHANGED vars
    BY <2>1 DEF vars
  <2>2. ASSUME NEW type \in EventTypes, Publish(type) PROVE Ring!Next
    <3>1. published + 1 \in Events /\ Matching(type) \in SUBSET Clients
      BY <2>2, BrokerAssumption DEF TypeOK, Publish, Events, Matching
    <3>2. PICK e \in Events, to \in SUBSET Clients : e = published + 1 /\ to = Matching(type)
      BY <3>1
    <3>3. Ring!Offer(e, to)
      BY <2>2, <3>2, PublishOffers
    <3> QED
      BY <3>3 DEF Ring!Next
  <2>3. ASSUME NEW c \in Clients, TakeEvent(c) \/ SwallowCancel(c)
        PROVE  Ring!Next \/ UNCHANGED Ring!logVars
    <3>1. CASE TakeHead(c)
      BY <2>3, <3>1, TakeHeadTakes DEF TakeEvent, SwallowCancel
    <3>2. CASE ~TakeHead(c)
      BY <2>3, <3>2 DEF TakeEvent, SwallowCancel
    <3> QED
      BY <3>1, <3>2
  <2>4. ASSUME NEW c \in Clients, ClientActs(c) \/ ServerActs(c),
               ~(TakeEvent(c) \/ SwallowCancel(c))
        PROVE  UNCHANGED <<offered, queue, dropped>>
    BY <2>4 DEF ClientActs, ServerActs, Accept, UpdateFilter, Refuse, Disconnect,
       LibraryCloses, EndReader, AwaitEvent, SendHeartbeat, SendSucceeds, SendFails,
       AbandonWriter, CancelOther, DeliverCancel, FinishHandler
  <2> QED
    BY <2>1, <2>2, <2>3, <2>4 DEF Next
<1> QED
  BY <1>1, <1>2, TypeCorrect, PTL DEF Spec, ImplementsRingLog, Ring!Spec

-----------------------------------------------------------------------------
(* The end of a session *)

(* Where the three coroutines of a session stand together.  EndsClean says *)
(* what is left at the end; that it comes out so depends on what holds     *)
(* while the handler waits, cancels and awaits.                            *)
SessionInv(c) ==
  /\ handler[c] = "none" =>
       /\ conn[c] = "none" /\ reader[c] = "none" /\ writer[c] = "none"
  /\ handler[c] \in {"waiting", "cancelling", "awaiting"} => c \in subscribed
  /\ handler[c] = "cancelling" => ReaderDone(c) \/ WriterDone(c)
  /\ handler[c] = "awaiting" => ReaderDone(c)
  /\ reader[c] = "failed" => conn[c] = "broken"
  /\ handler[c] = "done" =>
       /\ reader[c] # "reading"
       /\ conn[c] # "broken" => writer[c] \in Finished \cup {"none"}
EndsInv == \A c \in Clients : SessionInv(c)

(* A publication concerns no coroutine.                                    *)
LEMMA PublishEnds ==
  ASSUME EndsInv, NEW type \in EventTypes, Publish(type)
  PROVE  EndsInv'
BY DEF EndsInv, SessionInv, ReaderDone, WriterDone, Publish, sessionVars

(* A step of one session leaves the others where they are.                 *)
LEMMA OthersEnds ==
  ASSUME TypeOK, EndsInv, NEW c \in Clients, ClientActs(c) \/ ServerActs(c),
         NEW d \in Clients, d # c
  PROVE  SessionInv(d)'
<1>1. /\ handler'[d] = handler[d] /\ conn'[d] = conn[d]
      /\ reader'[d] = reader[d] /\ writer'[d] = writer[d]
      /\ d \in subscribed' <=> d \in subscribed
  BY DEF TypeOK, ClientActs, ServerActs, Accept, UpdateFilter, Refuse, Disconnect,
     LibraryCloses, EndReader, TakeEvent, TakeHead, AwaitEvent, SendHeartbeat,
     SendSucceeds, SendFails, AbandonWriter, CancelOther, DeliverCancel, SwallowCancel,
     FinishHandler, Unsubscribe, brokerVars, sessionVars, outVars
<1> QED
  BY <1>1 DEF EndsInv, SessionInv, ReaderDone, WriterDone

(* A step of a session keeps its own coroutines in step.                   *)
LEMMA SelfEnds ==
  ASSUME TypeOK, EndsInv, NEW c \in Clients, ClientActs(c) \/ ServerActs(c)
  PROVE  SessionInv(c)'
<1> USE DEF TypeOK, EndsInv, SessionInv, ReaderDone, WriterDone, Finished,
            brokerVars, sessionVars, outVars
<1>1. ASSUME NEW types \in Filters, Accept(c, types) PROVE SessionInv(c)'
  BY <1>1 DEF Accept
<1>2. ASSUME NEW types \in Filters, UpdateFilter(c, types) PROVE SessionInv(c)'
  BY <1>2 DEF UpdateFilter
<1>3. CASE Refuse(c)
  BY <1>3 DEF Refuse
<1>4. CASE Disconnect(c)
  BY <1>4 DEF Disconnect
<1>5. CASE LibraryCloses(c)
  BY <1>5 DEF LibraryCloses
<1>6. CASE EndReader(c)
  BY <1>6 DEF EndReader, Runs
<1>7. CASE TakeEvent(c)
  BY <1>7 DEF TakeEvent, TakeHead, Runs
<1>8. CASE AwaitEvent(c)
  BY <1>8 DEF AwaitEvent, Runs
<1>9. CASE SendHeartbeat(c)
  BY <1>9 DEF SendHeartbeat, HeartbeatDue, Runs
<1>10. CASE SendSucceeds(c)
  BY <1>10 DEF SendSucceeds, Runs
<1>11. CASE SendFails(c)
  BY <1>11 DEF SendFails, Runs
<1>12. CASE AbandonWriter(c)
  BY <1>12 DEF AbandonWriter, Unsubscribe
<1>13. CASE CancelOther(c)
  BY <1>13 DEF CancelOther
<1>14. CASE DeliverCancel(c)
  BY <1>14 DEF DeliverCancel
<1>15. CASE SwallowCancel(c)
  BY <1>15 DEF SwallowCancel, TakeHead
<1>16. CASE FinishHandler(c)
  BY <1>16 DEF FinishHandler, EndSession, Unsubscribe
<1> QED
  BY <1>1, <1>2, <1>3, <1>4, <1>5, <1>6, <1>7, <1>8, <1>9, <1>10, <1>11, <1>12,
     <1>13, <1>14, <1>15, <1>16 DEF ClientActs, ServerActs

(* The three coroutines of a session always stand together so.             *)
THEOREM EndsInvariance == Spec => []EndsInv
<1>1. Init => EndsInv
  BY DEF Init, EndsInv, SessionInv
<1>2. TypeOK /\ EndsInv /\ [Next]_vars => EndsInv'
  <2> SUFFICES ASSUME TypeOK, EndsInv, [Next]_vars PROVE EndsInv'
    OBVIOUS
  <2>1. CASE UNCHANGED vars
    BY <2>1 DEF vars, brokerVars, sessionVars, EndsInv, SessionInv, ReaderDone, WriterDone
  <2>2. ASSUME NEW c \in Clients, ClientActs(c) \/ ServerActs(c) PROVE EndsInv'
    BY <2>2, OthersEnds, SelfEnds DEF EndsInv
  <2> QED
    BY <2>1, <2>2, PublishEnds DEF Next
<1> QED
  BY <1>1, <1>2, TypeCorrect, PTL DEF Spec

(* Whatever the order of closing, failing and cancelling, an ended session *)
(* leaves no reader, and a writer on a broken connection only; a reader is *)
(* never without its subscription.                                         *)
THEOREM SessionsEndClean == Spec => []EndsClean
<1>1. TypeOK /\ EndsInv => EndsClean
  BY DEF TypeOK, EndsInv, SessionInv, EndsClean, ReaderDone, WriterDone, Finished
<1> QED
  BY <1>1, TypeCorrect, EndsInvariance, PTL

-----------------------------------------------------------------------------
(* What the queues keep *)

(* q is the end of s, said element by element.                             *)
EndOf(q, s) ==
  /\ Len(q) <= Len(s)
  /\ \A i \in 1 .. Len(q) : q[i] = s[Len(s) - Len(q) + i]

(* An event offered to a queue with room extends both.                     *)
LEMMA AppendKeepsEnd ==
  ASSUME NEW q \in Seq(Events), NEW s \in Seq(Events), NEW e \in Events, EndOf(q, s)
  PROVE  EndOf(Append(q, e), Append(s, e))
<1>1. Len(Append(q, e)) = Len(q) + 1 /\ Len(Append(s, e)) = Len(s) + 1
  OBVIOUS
<1>2. ASSUME NEW i \in 1 .. Len(q) + 1
      PROVE  Append(q, e)[i] = Append(s, e)[Len(s) - Len(q) + i]
  <2>1. CASE i = Len(q) + 1
    BY <2>1
  <2>2. CASE i \in 1 .. Len(q)
    <3>1. Append(q, e)[i] = q[i]
      BY <2>2
    <3>2. Len(s) - Len(q) + i \in 1 .. Len(s)
      BY <2>2 DEF EndOf
    <3>3. Append(s, e)[Len(s) - Len(q) + i] = s[Len(s) - Len(q) + i]
      BY <3>2
    <3> QED
      BY <2>2, <3>1, <3>3 DEF EndOf
  <2>3. Len(q) \in Nat
    OBVIOUS
  <2>4. i = Len(q) + 1 \/ i \in 1 .. Len(q)
    BY <2>3
  <2> QED
    BY <2>1, <2>2, <2>4
<1> QED
  BY <1>1, <1>2 DEF EndOf

(* Losing or taking the oldest event leaves the end.                       *)
LEMMA TailKeepsEnd ==
  ASSUME NEW q \in Seq(Events), NEW s \in Seq(Events), EndOf(q, s), q # <<>>
  PROVE  EndOf(Tail(q), s)
<1>1. Len(Tail(q)) = Len(q) - 1 /\ Len(q) \in Nat \ {0}
  OBVIOUS
<1>2. ASSUME NEW i \in 1 .. Len(q) - 1
      PROVE  Tail(q)[i] = s[Len(s) - (Len(q) - 1) + i]
  <2>1. Tail(q)[i] = q[i + 1]
    BY <1>1
  <2>2. q[i + 1] = s[Len(s) - Len(q) + (i + 1)]
    BY <1>1 DEF EndOf
  <2> QED
    BY <1>1, <2>1, <2>2
<1> QED
  BY <1>1, <1>2 DEF EndOf

(* The end of a sequence is a subsequence of it.                           *)
LEMMA EndIsSubSeq ==
  ASSUME NEW q \in Seq(Events), NEW s \in Seq(Events), EndOf(q, s)
  PROVE  q = SubSeq(s, Len(s) - Len(q) + 1, Len(s))
<1> DEFINE k == Len(s) - Len(q)
           r == SubSeq(s, k + 1, Len(s))
<1>1. k \in Nat /\ Len(s) \in Nat /\ Len(q) \in Nat /\ k + Len(q) = Len(s)
  BY DEF EndOf
<1>2. r = [i \in 1 .. Len(q) |-> s[k + i]]
  <2>1. r = [i \in 1 .. (Len(s) - (k + 1) + 1) |-> s[i + (k + 1) - 1]]
    BY <1>1
  <2>2. Len(s) - (k + 1) + 1 = Len(q)
    BY <1>1
  <2>3. \A i \in 1 .. Len(q) : i + (k + 1) - 1 = k + i
    BY <1>1
  <2> HIDE DEF k, r
  <2> QED
    BY <2>1, <2>2, <2>3
<1>3. q = [i \in 1 .. Len(q) |-> q[i]]
  OBVIOUS
<1>4. \A i \in 1 .. Len(q) : q[i] = s[k + i]
  BY DEF EndOf
<1>5. q = r
  <2> HIDE DEF k, r
  <2> QED
    BY <1>2, <1>3, <1>4
<1> QED
  BY <1>5

(* The inductive form of NewestKept.                                       *)
QueuesEndLogs == \A c \in Clients : EndOf(queue[c], offered[c])

(* A publication keeps every queue the end of its log.                     *)
LEMMA PublishKeepsEnd ==
  ASSUME TypeOK, QueuesEndLogs, NEW type \in EventTypes, Publish(type)
  PROVE  QueuesEndLogs'
<1> SUFFICES ASSUME NEW c \in Clients PROVE EndOf(queue'[c], offered'[c])
  BY DEF QueuesEndLogs
<1>1. PICK e \in Events : e = published + 1
  BY BrokerAssumption DEF TypeOK, Publish, Events
<1>2. /\ queue[c] \in Seq(Events) /\ offered[c] \in Seq(Events)
      /\ EndOf(queue[c], offered[c])
  BY DEF TypeOK, QueuesEndLogs
<1>3. EndOf(Enqueued(c, e), Append(offered[c], e))
  <2>1. CASE Full(c)
    <3>1. queue[c] # <<>>
      BY <2>1, BrokerAssumption DEF Full
    <3>2. Tail(queue[c]) \in Seq(Events) /\ EndOf(Tail(queue[c]), offered[c])
      BY <1>2, <3>1, TailKeepsEnd
    <3> QED
      BY <1>2, <2>1, <3>2, AppendKeepsEnd DEF Enqueued
  <2>2. CASE ~Full(c)
    BY <1>2, <2>2, AppendKeepsEnd DEF Enqueued
  <2> QED
    BY <2>1, <2>2
<1>4. CASE c \in Matching(type)
  BY <1>1, <1>3, <1>4 DEF Publish
<1>5. CASE c \notin Matching(type)
  BY <1>2, <1>5 DEF Publish
<1> QED
  BY <1>4, <1>5

(* Steps of a session take from its queue or leave it.                     *)
LEMMA SessionKeepsEnd ==
  ASSUME TypeOK, QueuesEndLogs, NEW c \in Clients, ClientActs(c) \/ ServerActs(c)
  PROVE  QueuesEndLogs'
<1>1. offered' = offered
  BY DEF ClientActs, ServerActs, Accept, UpdateFilter, Refuse, Disconnect,
     LibraryCloses, EndReader, TakeEvent, AwaitEvent, SendHeartbeat, SendSucceeds,
     SendFails, AbandonWriter, CancelOther, DeliverCancel, SwallowCancel,
     FinishHandler, brokerVars, sessionVars, outVars
<1>2. queue' = queue \/ TakeHead(c)
  BY DEF ClientActs, ServerActs, Accept, UpdateFilter, Refuse, Disconnect,
     LibraryCloses, EndReader, TakeEvent, AwaitEvent, SendHeartbeat, SendSucceeds,
     SendFails, AbandonWriter, CancelOther, DeliverCancel, SwallowCancel,
     FinishHandler, brokerVars, sessionVars, outVars
<1>3. CASE queue' = queue
  BY <1>1, <1>3 DEF QueuesEndLogs
<1>4. CASE TakeHead(c)
  <2>1. /\ queue[c] \in Seq(Events) /\ offered[c] \in Seq(Events) /\ queue[c] # <<>>
        /\ EndOf(queue[c], offered[c])
    BY <1>4 DEF TypeOK, QueuesEndLogs, TakeHead
  <2>2. EndOf(Tail(queue[c]), offered[c])
    BY <2>1, TailKeepsEnd
  <2>3. \A d \in Clients : queue'[d] = IF d = c THEN Tail(queue[c]) ELSE queue[d]
    BY <1>4 DEF TakeHead, TypeOK
  <2> QED
    BY <1>1, <2>2, <2>3 DEF QueuesEndLogs
<1> QED
  BY <1>2, <1>3, <1>4

(* A queue always holds the newest of the events offered to its client, in *)
(* their order.                                                            *)
THEOREM NewestAreKept == Spec => []NewestKept
<1>1. Init => QueuesEndLogs
  BY DEF Init, QueuesEndLogs, EndOf
<1>2. TypeOK /\ QueuesEndLogs /\ [Next]_vars => QueuesEndLogs'
  <2> SUFFICES ASSUME TypeOK, QueuesEndLogs, [Next]_vars PROVE QueuesEndLogs'
    OBVIOUS
  <2>1. CASE UNCHANGED vars
    BY <2>1 DEF vars, brokerVars, QueuesEndLogs
  <2>2. CASE Next
    BY <2>2, PublishKeepsEnd, SessionKeepsEnd DEF Next
  <2> QED
    BY <2>1, <2>2
<1>3. TypeOK /\ QueuesEndLogs => NewestKept
  <2> SUFFICES ASSUME TypeOK, QueuesEndLogs, NEW c \in Clients
               PROVE  /\ Len(queue[c]) <= Len(offered[c])
                      /\ queue[c] = SubSeq(offered[c], Len(offered[c]) - Len(queue[c]) + 1,
                                           Len(offered[c]))
    BY DEF NewestKept
  <2>1. /\ queue[c] \in Seq(Events) /\ offered[c] \in Seq(Events)
        /\ EndOf(queue[c], offered[c])
    BY DEF TypeOK, QueuesEndLogs
  <2> QED
    BY <2>1, EndIsSubSeq DEF EndOf
<1> QED
  BY <1>1, <1>2, <1>3, TypeCorrect, PTL DEF Spec

-----------------------------------------------------------------------------
(* What is lost *)

(* The writer has an event in hand only while it sends it.                 *)
HandInv == \A c \in Clients : inHand[c] # Heartbeat => writer[c] = "sending"
LossInv == HandInv /\ LossesCounted

(* A publication adds one event to a log, and to its queue or its losses.  *)
LEMMA PublishLosses ==
  ASSUME TypeOK, LossInv, NEW type \in EventTypes, Publish(type)
  PROVE  LossInv'
<1>1. HandInv'
  BY DEF LossInv, HandInv, Publish, sessionVars, outVars
<1>2. ASSUME NEW c \in Clients PROVE InTransit(c)' = InTransit(c)
  <2>1. PICK e \in Events : e = published + 1
    BY BrokerAssumption DEF TypeOK, Publish, Events
  <2>2. /\ queue[c] \in Seq(Events) /\ Len(queue[c]) <= QueueSize
        /\ offered[c] \in Seq(Events) /\ sent[c] \in Seq(Events) /\ dropped[c] \in Nat
    BY DEF TypeOK
  <2>3. Len(Enqueued(c, e)) = IF Full(c) THEN Len(queue[c]) ELSE Len(queue[c]) + 1
    BY <2>2, EnqueuedType
  <2>4. Len(Append(offered[c], e)) = Len(offered[c]) + 1
    BY <2>2
  <2>5. sent' = sent
    BY DEF Publish, outVars
  <2>6. CASE c \notin Matching(type)
    BY <2>5, <2>6 DEF Publish, InTransit
  <2>7. CASE c \in Matching(type)
    <3>1. /\ queue'[c] = Enqueued(c, e) /\ offered'[c] = Append(offered[c], e)
          /\ dropped'[c] = DropCount(c)
      BY <2>1, <2>7 DEF Publish
    <3> DEFINE o  == Len(offered[c])   q  == Len(queue[c])
               d  == dropped[c]        s  == Len(sent[c])
               oo == Len(offered'[c])  qq == Len(queue'[c])
               dd == dropped'[c]       ss == Len(sent'[c])
    <3>2. /\ o \in Nat /\ q \in Nat /\ d \in Nat /\ s \in Nat
          /\ oo = o + 1 /\ ss = s
      BY <2>2, <2>4, <2>5, <3>1
    <3>3. \/ qq = q /\ dd = d + 1
          \/ qq = q + 1 /\ dd = d
      BY <2>3, <3>1 DEF DropCount
    <3>4. InTransit(c) = o - q - d - s /\ InTransit(c)' = oo - qq - dd - ss
      BY DEF InTransit
    <3> HIDE DEF o, q, d, s, oo, qq, dd, ss
    <3>5. oo - qq - dd - ss = o - q - d - s
      BY <3>2, <3>3
    <3> QED
      BY <3>4, <3>5
  <2> QED
    BY <2>6, <2>7
<1>3. LossesCounted'
  BY <1>2 DEF LossInv, LossesCounted, WriterDone, Publish, sessionVars, outVars
<1> QED
  BY <1>1, <1>3 DEF LossInv

(* What a step of client c does to its sent events and its hand.           *)
LEMMA SessionLosses ==
  ASSUME TypeOK, EndsInv, LossInv, NEW c \in Clients, ClientActs(c) \/ ServerActs(c)
  PROVE  LossInv'
<1> USE DEF brokerVars, sessionVars, outVars
<1>1. /\ queue[c] \in Seq(Events) /\ sent[c] \in Seq(Events)
      /\ offered[c] \in Seq(Events) /\ dropped[c] \in Nat /\ InTransit(c) \in Int
  BY DEF TypeOK, InTransit
<1>2. /\ IF WriterDone(c) THEN InTransit(c) \in {0, 1}
         ELSE InTransit(c) = IF inHand[c] = Heartbeat THEN 0 ELSE 1
      /\ inHand[c] # Heartbeat => writer[c] = "sending"
  BY DEF LossInv, LossesCounted, HandInv
<1>3. ASSUME NEW d \in Clients, d # c
      PROVE  /\ inHand'[d] # Heartbeat => writer'[d] = "sending"
             /\ IF WriterDone(d)' THEN InTransit(d)' \in {0, 1}
                ELSE InTransit(d)' = IF inHand'[d] = Heartbeat THEN 0 ELSE 1
  <2>1. /\ queue'[d] = queue[d] /\ sent'[d] = sent[d] /\ offered'[d] = offered[d]
        /\ dropped'[d] = dropped[d] /\ inHand'[d] = inHand[d] /\ writer'[d] = writer[d]
    BY <1>3 DEF TypeOK, ClientActs, ServerActs, Accept, UpdateFilter, Refuse, Disconnect,
       LibraryCloses, EndReader, TakeEvent, TakeHead, AwaitEvent, SendHeartbeat,
       SendSucceeds, SendFails, AbandonWriter, CancelOther, DeliverCancel,
       SwallowCancel, FinishHandler
  <2> QED
    BY <2>1 DEF LossInv, LossesCounted, HandInv, WriterDone, InTransit
<1> DEFINE Good == /\ inHand'[c] # Heartbeat => writer'[c] = "sending"
                   /\ IF writer'[c] \in Finished THEN InTransit(c)' \in {0, 1}
                      ELSE InTransit(c)' = IF inHand'[c] = Heartbeat THEN 0 ELSE 1
<1>4. SUFFICES Good
  BY <1>3 DEF LossInv, LossesCounted, HandInv, WriterDone
<1>5. ASSUME TakeHead(c), UNCHANGED <<offered, dropped, sent>>,
             writer[c] \in {"ready", "waiting"}
      PROVE  /\ inHand'[c] # Heartbeat /\ writer'[c] = "sending"
             /\ InTransit(c)' = 1
  <2>1. inHand'[c] \in Events /\ Len(queue'[c]) = Len(queue[c]) - 1
    BY <1>5, TakenType
  <2>2. InTransit(c) = 0
    BY <1>2, <1>5 DEF WriterDone, Finished
  <2> DEFINE o == Len(offered[c])  q  == Len(queue[c])   d == dropped[c]
             s == Len(sent[c])     qq == Len(queue'[c])
  <2>3. o \in Nat /\ q \in Nat /\ d \in Nat /\ s \in Nat /\ qq = q - 1
    BY <1>1, <2>1
  <2>4. o - q - d - s = 0 /\ InTransit(c)' = o - qq - d - s
    BY <1>5, <2>2 DEF InTransit
  <2> HIDE DEF o, q, d, s, qq
  <2>5. InTransit(c)' = 1
    BY <2>3, <2>4
  <2> QED
    BY <1>5, <2>1, <2>5 DEF TakeHead, TypeOK, Events, Heartbeat
<1>6. ASSUME sent' = [sent EXCEPT ![c] = Written(c)], UNCHANGED <<queue, offered, dropped>>,
             writer[c] = "sending"
      PROVE  InTransit(c)' = 0
  <2>1. Len(sent'[c]) = Len(sent[c]) + IF inHand[c] = Heartbeat THEN 0 ELSE 1
    BY <1>6, WrittenType DEF TypeOK
  <2>2. InTransit(c) = IF inHand[c] = Heartbeat THEN 0 ELSE 1
    BY <1>2, <1>6 DEF WriterDone, Finished
  <2> DEFINE o == Len(offered[c])  q  == Len(queue[c])   d == dropped[c]
             s == Len(sent[c])     ss == Len(sent'[c])
             hand == IF inHand[c] = Heartbeat THEN 0 ELSE 1
  <2>3. o \in Nat /\ q \in Nat /\ d \in Nat /\ s \in Nat /\ ss = s + hand /\ hand \in Nat
    BY <1>1, <2>1
  <2>4. o - q - d - s = hand /\ InTransit(c)' = o - q - d - ss
    BY <1>6, <2>2 DEF InTransit
  <2> HIDE DEF o, q, d, s, ss, hand
  <2> QED
    BY <2>3, <2>4
<1>7. CASE UNCHANGED <<queue, offered, dropped, sent, inHand, writer>>
  BY <1>2, <1>7 DEF WriterDone, InTransit
<1>8. ASSUME NEW types \in Filters, Accept(c, types) PROVE Good
  <2>1. writer[c] = "none" /\ writer'[c] = "ready"
    BY <1>8 DEF Accept, EndsInv, SessionInv, TypeOK
  <2> QED
    BY <1>2, <1>8, <2>1 DEF Accept, WriterDone, InTransit, Finished
<1>9. CASE TakeEvent(c)
  BY <1>5, <1>9 DEF TakeEvent, Finished
<1>10. CASE AwaitEvent(c)
  <2>1. writer'[c] = "waiting" /\ writer[c] = "ready"
    BY <1>10 DEF AwaitEvent, TypeOK
  <2> QED
    BY <1>2, <1>10, <2>1 DEF AwaitEvent, WriterDone, InTransit, Finished
<1>11. CASE SendHeartbeat(c)
  <2>1. writer'[c] = "sending" /\ writer[c] = "waiting" /\ inHand'[c] = Heartbeat
    BY <1>11 DEF SendHeartbeat, HeartbeatDue, TypeOK
  <2> QED
    BY <1>2, <1>11, <2>1 DEF SendHeartbeat, WriterDone, InTransit, Finished
<1>12. CASE SendSucceeds(c)
  <2>1. writer'[c] = "ready" /\ inHand'[c] = Heartbeat /\ InTransit(c)' = 0
    BY <1>6, <1>12 DEF SendSucceeds, TypeOK
  <2> QED
    BY <2>1 DEF Finished
<1>13. CASE SendFails(c)
  <2>1. writer'[c] = "ended" /\ inHand'[c] = Heartbeat /\ writer[c] = "sending"
    BY <1>13 DEF SendFails, TypeOK
  <2>2. CASE sent' = sent
    BY <1>2, <1>13, <2>1, <2>2 DEF SendFails, WriterDone, InTransit, Finished
  <2>3. CASE sent' = [sent EXCEPT ![c] = Written(c)]
    BY <1>6, <1>13, <2>1, <2>3 DEF SendFails, Finished
  <2> QED
    BY <1>13, <2>2, <2>3 DEF SendFails
<1>14. CASE DeliverCancel(c)
  <2>1. writer'[c] \in Finished /\ inHand'[c] = Heartbeat
    BY <1>14 DEF DeliverCancel, WriterDone, Finished, TypeOK
  <2> QED
    BY <1>2, <1>14, <2>1 DEF DeliverCancel, InTransit
<1>15. CASE SwallowCancel(c)
  <2>1. CASE writer[c] = "waiting" /\ TakeHead(c) /\ UNCHANGED sent
    BY <1>5, <1>15, <2>1 DEF SwallowCancel, Finished
  <2>2. CASE /\ writer[c] = "sending" /\ UNCHANGED queue
             /\ sent' = [sent EXCEPT ![c] = Written(c)]
             /\ writer' = [writer EXCEPT ![c] = "ready"]
             /\ inHand' = [inHand EXCEPT ![c] = Heartbeat]
    <3>1. writer'[c] = "ready" /\ inHand'[c] = Heartbeat /\ InTransit(c)' = 0
      BY <1>6, <1>15, <2>2 DEF SwallowCancel, TypeOK
    <3> QED
      BY <3>1 DEF Finished
  <2> QED
    BY <1>15, <2>1, <2>2 DEF SwallowCancel
<1> HIDE DEF Good
<1> QED
  BY <1>8, <1>9, <1>10, <1>11, <1>12, <1>13, <1>14, <1>15, <1>7
  DEF ClientActs, ServerActs, UpdateFilter, Refuse, Disconnect, LibraryCloses,
      EndReader, AbandonWriter, CancelOther, FinishHandler

(* The number of dropped events that is logged when a client leaves is     *)
(* what overflow has cost it: all else was sent, is queued or was in hand. *)
THEOREM LossesAreCounted == Spec => []LossesCounted
<1>1. Init => EndsInv /\ LossInv
  BY DEF Init, EndsInv, SessionInv, LossInv, HandInv, LossesCounted, InTransit,
     WriterDone, Finished
<1>2. TypeOK /\ EndsInv /\ LossInv /\ [Next]_vars => LossInv'
  <2> SUFFICES ASSUME TypeOK, EndsInv, LossInv, [Next]_vars PROVE LossInv'
    OBVIOUS
  <2>1. CASE UNCHANGED vars
    BY <2>1 DEF vars, brokerVars, sessionVars, outVars, LossInv, HandInv,
       LossesCounted, InTransit, WriterDone
  <2>2. CASE Next
    BY <2>2, PublishLosses, SessionLosses DEF Next
  <2> QED
    BY <2>1, <2>2
<1>3. LossInv => LossesCounted
  BY DEF LossInv
<1> QED
  BY <1>1, <1>2, <1>3, TypeCorrect, EndsInvariance, PTL DEF Spec

-----------------------------------------------------------------------------
(* The order of what a client is sent *)

(* What was sent, the event in hand and the queue, each after the other,    *)
(* are of increasing number, and none is newer than the last published.     *)
Ordered(c) ==
  /\ Increasing(sent[c]) /\ Increasing(queue[c])
  /\ \A i \in 1 .. Len(sent[c]) : sent[c][i] <= published
  /\ \A j \in 1 .. Len(queue[c]) : queue[c][j] <= published
  /\ \A i \in 1 .. Len(sent[c]), j \in 1 .. Len(queue[c]) : sent[c][i] < queue[c][j]
  /\ inHand[c] # Heartbeat =>
       /\ inHand[c] <= published
       /\ \A i \in 1 .. Len(sent[c]) : sent[c][i] < inHand[c]
       /\ \A j \in 1 .. Len(queue[c]) : inHand[c] < queue[c][j]

OrderInv == \A c \in Clients : Ordered(c)

LEMMA TailIncreasing ==
  ASSUME NEW q \in Seq(Nat), q # <<>>, Increasing(q)
  PROVE  /\ Tail(q) \in Seq(Nat) /\ Increasing(Tail(q))
         /\ \A j \in 1 .. Len(Tail(q)) : j + 1 \in 1 .. Len(q) /\ Tail(q)[j] = q[j + 1]
         /\ \A j \in 1 .. Len(Tail(q)) : Head(q) < Tail(q)[j]
<1>1. /\ Tail(q) \in Seq(Nat) /\ Len(q) \in Nat /\ Len(Tail(q)) = Len(q) - 1
      /\ Head(q) = q[1] /\ 1 \in 1 .. Len(q)
      /\ \A j \in 1 .. Len(Tail(q)) : Tail(q)[j] = q[j + 1]
  OBVIOUS
<1>2. \A j \in 1 .. Len(Tail(q)) : j + 1 \in 1 .. Len(q) /\ 1 < j + 1 BY <1>1
<1>3. ASSUME NEW i \in 1 .. Len(Tail(q)), NEW j \in 1 .. Len(Tail(q)), i < j
      PROVE  Tail(q)[i] < Tail(q)[j]
  <2>1. i + 1 < j + 1 BY <1>3
  <2>2. q[i + 1] < q[j + 1] BY <1>2, <2>1 DEF Increasing
  <2>3. QED BY <1>1, <2>2
<1>4. \A j \in 1 .. Len(Tail(q)) : Head(q) < Tail(q)[j] BY <1>1, <1>2 DEF Increasing
<1>5. QED BY <1>1, <1>2, <1>3, <1>4 DEF Increasing

(* enqueue_nowait: the newest event goes behind the others, the oldest is   *)
(* lost when there is no room.                                              *)
LEMMA PublishOrdered ==
  ASSUME TypeOK, OrderInv, NEW type \in EventTypes, Publish(type), NEW c \in Clients
  PROVE  Ordered(c)'
<1> DEFINE e == published + 1
<1>1. /\ published \in Nat /\ published' = e /\ e \in Nat
      /\ queue[c] \in Seq(Events) /\ sent[c] \in Seq(Events)
      /\ inHand[c] \in Events \cup {Heartbeat}
      /\ sent' = sent /\ inHand' = inHand /\ Ordered(c)
  BY DEF TypeOK, Publish, outVars, OrderInv
<1>2. queue[c] \in Seq(Nat)
  <2>1. Events \subseteq Nat BY DEF Events
  <2>2. QED BY <1>1, <2>1, SeqMonotone
<1>3. \A i \in 1 .. Len(sent[c]) : sent[c][i] \in Nat /\ sent[c][i] <= published
  <2>1. \A i \in 1 .. Len(sent[c]) : sent[c][i] \in Events BY <1>1
  <2>2. QED BY <1>1, <2>1 DEF Ordered, Events
<1>4. inHand[c] # Heartbeat => inHand[c] \in Nat /\ inHand[c] <= published
  BY <1>1 DEF Ordered, Events
<1>5. CASE c \notin Matching(type)
  <2>1. queue'[c] = queue[c] BY <1>5 DEF Publish
  <2>2. \A j \in 1 .. Len(queue[c]) : queue[c][j] \in Nat BY <1>2
  <2>3. \A j \in 1 .. Len(queue[c]) : queue[c][j] <= e BY <1>1, <2>2 DEF Ordered
  <2>4. \A i \in 1 .. Len(sent[c]) : sent[c][i] <= e BY <1>1, <1>3
  <2>5. inHand[c] # Heartbeat => inHand[c] <= e BY <1>1, <1>4
  <2> HIDE DEF e
  <2>6. QED BY <1>1, <2>1, <2>3, <2>4, <2>5 DEF Ordered
<1>6. CASE c \in Matching(type)
  <2> DEFINE kept == IF Full(c) THEN Tail(queue[c]) ELSE queue[c]
  <2>1. queue'[c] = Append(kept, e) BY <1>6 DEF Publish, Enqueued
  <2>2. /\ kept \in Seq(Nat) /\ Increasing(kept)
        /\ \A j \in 1 .. Len(kept) : \E k \in 1 .. Len(queue[c]) : kept[j] = queue[c][k]
    <3>1. CASE Full(c)
      <4>1. queue[c] # <<>>
        <5>1. Len(queue[c]) # 0 BY <3>1, BrokerAssumption DEF Full
        <5>2. QED BY <5>1
      <4>2. kept = Tail(queue[c]) BY <3>1
      <4> HIDE DEF kept
      <4>3. /\ Tail(queue[c]) \in Seq(Nat) /\ Increasing(Tail(queue[c]))
            /\ \A j \in 1 .. Len(Tail(queue[c])) :
                 j + 1 \in 1 .. Len(queue[c]) /\ Tail(queue[c])[j] = queue[c][j + 1]
        BY <1>1, <1>2, <4>1, TailIncreasing DEF Ordered
      <4>4. QED BY <4>2, <4>3
    <3>2. CASE ~Full(c) BY <1>1, <1>2, <3>2 DEF Ordered
    <3>3. QED BY <3>1, <3>2
  <2> HIDE DEF kept
  <2>3. \A j \in 1 .. Len(kept) : kept[j] \in Nat /\ kept[j] <= published
    BY <1>1, <2>2 DEF Ordered
  <2>4. \A j \in 1 .. Len(kept) : kept[j] < e BY <1>1, <2>3
  <2>5. Increasing(Append(kept, e)) BY <1>1, <2>2, <2>4, AppendIncreasing
  <2>6. \A j \in 1 .. Len(Append(kept, e)) :
          \/ Append(kept, e)[j] = e
          \/ \E k \in 1 .. Len(queue[c]) : Append(kept, e)[j] = queue[c][k]
    <3>1. \A j \in 1 .. Len(Append(kept, e)) :
            \/ Append(kept, e)[j] = e
            \/ j \in 1 .. Len(kept) /\ Append(kept, e)[j] = kept[j]
      BY <1>1, <2>2
    <3>2. QED BY <2>2, <3>1
  <2> HIDE DEF e
  <2>7. \A j \in 1 .. Len(queue'[c]) :
          \/ queue'[c][j] = e
          \/ \E k \in 1 .. Len(queue[c]) : queue'[c][j] = queue[c][k]
    BY <2>1, <2>6
  <2>8. published < e BY <1>1 DEF e
  <2>9. \A k \in 1 .. Len(queue[c]) : queue[c][k] \in Nat /\ queue[c][k] <= published
    BY <1>1, <1>2 DEF Ordered
  <2>10. \A j \in 1 .. Len(queue'[c]) : queue'[c][j] <= e BY <1>1, <2>7, <2>8, <2>9
  <2>11. \A i \in 1 .. Len(sent[c]) : sent[c][i] <= e /\ sent[c][i] < e
    BY <1>1, <1>3, <2>8
  <2>12. \A i \in 1 .. Len(sent[c]), j \in 1 .. Len(queue'[c]) : sent[c][i] < queue'[c][j]
    BY <1>1, <2>7, <2>11 DEF Ordered
  <2>13. inHand[c] # Heartbeat => inHand[c] <= e /\ inHand[c] < e
    BY <1>1, <1>4, <2>8
  <2>14. inHand[c] # Heartbeat => \A j \in 1 .. Len(queue'[c]) : inHand[c] < queue'[c][j]
    BY <1>1, <2>7, <2>13 DEF Ordered
  <2>15. QED
    BY <1>1, <2>1, <2>5, <2>10, <2>11, <2>12, <2>13, <2>14 DEF Ordered
<1>7. QED BY <1>5, <1>6

(* What a step of a session does with the events of a client: nothing; the  *)
(* writer takes the head of the queue; or it is done with what it has in    *)
(* hand, written or not.                                                    *)
Rests(d) == queue'[d] = queue[d] /\ inHand'[d] = inHand[d] /\ sent'[d] = sent[d]
Takes(d) == /\ queue[d] # <<>> /\ queue'[d] = Tail(queue[d]) /\ inHand'[d] = Head(queue[d])
            /\ sent'[d] = sent[d]
Lets(d) == /\ queue'[d] = queue[d] /\ inHand'[d] = Heartbeat
           /\ sent'[d] \in {sent[d], Written(d)}

LEMMA SessionMoves ==
  ASSUME TypeOK, NEW c \in Clients, ClientActs(c) \/ ServerActs(c), NEW d \in Clients
  PROVE  published' = published /\ (Rests(d) \/ Takes(d) \/ Lets(d))
<1> USE DEF brokerVars, outVars
<1>1. ASSUME \/ UNCHANGED <<published, queue, inHand, sent>>
      PROVE  published' = published /\ Rests(d)
  BY <1>1 DEF Rests
<1>2. /\ queue \in [Clients -> Seq(Events)] /\ sent \in [Clients -> Seq(Events)]
      /\ inHand \in [Clients -> Events \cup {Heartbeat}]
  BY DEF TypeOK
<1>3. ASSUME TakeHead(c), UNCHANGED <<published, sent>>
      PROVE  published' = published /\ (Rests(d) \/ Takes(d))
  BY <1>2, <1>3 DEF TakeHead, Rests, Takes
<1>4. ASSUME inHand' = [inHand EXCEPT ![c] = Heartbeat], UNCHANGED <<published, queue>>,
             sent' \in {sent, [sent EXCEPT ![c] = Written(c)]}
      PROVE  published' = published /\ (Rests(d) \/ Lets(d))
  BY <1>2, <1>4 DEF Rests, Lets
<1>5. CASE ClientActs(c)
  BY <1>1, <1>5 DEF ClientActs, Accept, UpdateFilter, Refuse, Disconnect
<1>6. CASE \/ LibraryCloses(c) \/ EndReader(c) \/ AwaitEvent(c) \/ AbandonWriter(c)
           \/ CancelOther(c) \/ FinishHandler(c)
  BY <1>1, <1>6 DEF LibraryCloses, EndReader, AwaitEvent, AbandonWriter, CancelOther,
     FinishHandler
<1>7. CASE TakeEvent(c) BY <1>3, <1>7 DEF TakeEvent
<1>8. CASE SendHeartbeat(c) BY <1>4, <1>8 DEF SendHeartbeat
<1>9. CASE SendSucceeds(c) BY <1>4, <1>9 DEF SendSucceeds
<1>10. CASE SendFails(c)
  <2>1. sent' \in {sent, [sent EXCEPT ![c] = Written(c)]} BY <1>10 DEF SendFails
  <2>2. QED BY <1>4, <1>10, <2>1 DEF SendFails
<1>11. CASE DeliverCancel(c) BY <1>4, <1>11 DEF DeliverCancel
<1>12. CASE SwallowCancel(c)
  <2>1. published' = published BY <1>12 DEF SwallowCancel
  <2>2. CASE TakeHead(c) /\ UNCHANGED sent BY <1>3, <2>1, <2>2
  <2>3. CASE ~(TakeHead(c) /\ UNCHANGED sent)
    <3>1. /\ sent' = [sent EXCEPT ![c] = Written(c)]
          /\ inHand' = [inHand EXCEPT ![c] = Heartbeat] /\ UNCHANGED queue
      BY <1>12, <2>3 DEF SwallowCancel
    <3>2. QED BY <1>4, <2>1, <3>1
  <2>4. QED BY <2>2, <2>3
<1>13. QED
  BY <1>5, <1>6, <1>7, <1>8, <1>9, <1>10, <1>11, <1>12 DEF ServerActs

LEMMA SessionOrdered ==
  ASSUME TypeOK, OrderInv, NEW c \in Clients, ClientActs(c) \/ ServerActs(c),
         NEW d \in Clients
  PROVE  Ordered(d)'
<1>1. /\ published \in Nat /\ queue[d] \in Seq(Nat) /\ sent[d] \in Seq(Nat)
      /\ inHand[d] \in Nat /\ Ordered(d)
  <2>1. Events \subseteq Nat /\ Heartbeat \in Nat BY DEF Events, Heartbeat
  <2>2. Seq(Events) \subseteq Seq(Nat) BY <2>1, SeqMonotone
  <2>3. published \in Nat /\ queue[d] \in Seq(Events) BY DEF TypeOK
  <2>4. sent[d] \in Seq(Events) /\ inHand[d] \in Events \cup {Heartbeat} BY DEF TypeOK
  <2>5. Ordered(d) BY DEF OrderInv
  <2>6. QED BY <2>1, <2>2, <2>3, <2>4, <2>5
<1>2. published' = published BY SessionMoves
<1>3. CASE Rests(d) BY <1>1, <1>2, <1>3 DEF Rests, Ordered
<1>4. CASE Takes(d)
  <2> DEFINE q == queue[d]
  <2>1. /\ q # <<>> /\ queue'[d] = Tail(q) /\ inHand'[d] = Head(q) /\ sent'[d] = sent[d]
    BY <1>4 DEF Takes
  <2>2. q \in Seq(Nat) /\ Increasing(q) BY <1>1 DEF Ordered
  <2>3. 1 \in 1 .. Len(q) /\ Head(q) = q[1] BY <2>1, <2>2
  <2> HIDE DEF q
  <2>4. /\ Increasing(Tail(q))
        /\ \A j \in 1 .. Len(Tail(q)) : j + 1 \in 1 .. Len(q) /\ Tail(q)[j] = q[j + 1]
        /\ \A j \in 1 .. Len(Tail(q)) : Head(q) < Tail(q)[j]
    BY <2>1, <2>2, TailIncreasing
  <2>5. /\ \A i \in 1 .. Len(sent[d]) : sent[d][i] <= published
        /\ \A k \in 1 .. Len(q) : q[k] <= published
        /\ \A i \in 1 .. Len(sent[d]), k \in 1 .. Len(q) : sent[d][i] < q[k]
        /\ Increasing(sent[d])
    BY <1>1 DEF Ordered, q
  <2>6. \A j \in 1 .. Len(Tail(q)) : Tail(q)[j] <= published BY <2>4, <2>5
  <2>7. \A i \in 1 .. Len(sent[d]), j \in 1 .. Len(Tail(q)) : sent[d][i] < Tail(q)[j]
    BY <2>4, <2>5
  <2>8. Head(q) <= published /\ \A i \in 1 .. Len(sent[d]) : sent[d][i] < Head(q)
    BY <2>3, <2>5
  <2>9. QED BY <1>2, <2>1, <2>4, <2>5, <2>6, <2>7, <2>8 DEF Ordered
<1>5. CASE Lets(d)
  <2>1. queue'[d] = queue[d] /\ inHand'[d] = Heartbeat BY <1>5 DEF Lets
  <2>2. CASE sent'[d] = sent[d] BY <1>1, <1>2, <2>1, <2>2 DEF Ordered
  <2>3. CASE sent'[d] # sent[d]
    <3>1. inHand[d] # Heartbeat /\ sent'[d] = Append(sent[d], inHand[d])
      BY <1>5, <2>3 DEF Lets, Written
    <3>2. /\ inHand[d] <= published
          /\ \A i \in 1 .. Len(sent[d]) : sent[d][i] < inHand[d]
          /\ \A j \in 1 .. Len(queue[d]) : inHand[d] < queue[d][j]
      BY <1>1, <3>1 DEF Ordered
    <3>3. Increasing(sent'[d]) BY <1>1, <3>1, <3>2, AppendIncreasing DEF Ordered
    <3>4. \A i \in 1 .. Len(sent'[d]) :
            \/ sent'[d][i] = inHand[d]
            \/ i \in 1 .. Len(sent[d]) /\ sent'[d][i] = sent[d][i]
      BY <1>1, <3>1
    <3>5. \A i \in 1 .. Len(sent'[d]) : sent'[d][i] <= published
      BY <1>1, <3>2, <3>4 DEF Ordered
    <3>6. \A i \in 1 .. Len(sent'[d]), j \in 1 .. Len(queue[d]) : sent'[d][i] < queue[d][j]
      BY <1>1, <3>2, <3>4 DEF Ordered
    <3>7. QED BY <1>1, <1>2, <2>1, <3>3, <3>5, <3>6 DEF Ordered
  <2>4. QED BY <2>2, <2>3
<1>6. QED BY <1>3, <1>4, <1>5, SessionMoves

LEMMA ConcatIncreasing ==
  ASSUME NEW s \in Seq(Nat), NEW t \in Seq(Nat), Increasing(s), Increasing(t),
         \A i \in 1 .. Len(s), j \in 1 .. Len(t) : s[i] < t[j]
  PROVE  s \o t \in Seq(Nat) /\ Increasing(s \o t)
<1> DEFINE u == s \o t
<1>1. /\ u \in Seq(Nat) /\ Len(s) \in Nat /\ Len(t) \in Nat /\ Len(u) = Len(s) + Len(t)
      /\ \A i \in 1 .. Len(s) + Len(t) : u[i] = IF i <= Len(s) THEN s[i] ELSE t[i - Len(s)]
  BY ConcatProperties
<1> HIDE DEF u
<1>2. ASSUME NEW i \in 1 .. Len(u), NEW j \in 1 .. Len(u), i < j PROVE u[i] < u[j]
  <2>1. CASE j <= Len(s)
    <3>1. i \in 1 .. Len(s) /\ j \in 1 .. Len(s) BY <1>1, <1>2, <2>1
    <3>2. u[i] = s[i] /\ u[j] = s[j] BY <1>1, <3>1
    <3>3. QED BY <1>2, <3>1, <3>2 DEF Increasing
  <2>2. CASE i <= Len(s) /\ ~(j <= Len(s))
    <3>1. i \in 1 .. Len(s) /\ j - Len(s) \in 1 .. Len(t) BY <1>1, <2>2
    <3>2. u[i] = s[i] /\ u[j] = t[j - Len(s)] BY <1>1, <2>2
    <3>3. QED BY <3>1, <3>2
  <2>3. CASE ~(i <= Len(s))
    <3> DEFINE a == i - Len(s)
               b == j - Len(s)
    <3>1. /\ a \in 1 .. Len(t) /\ b \in 1 .. Len(t) /\ a < b
          /\ ~(i <= Len(s)) /\ ~(j <= Len(s))
      BY <1>1, <1>2, <2>3
    <3>2. u[i] = t[a] /\ u[j] = t[b] BY <1>1, <3>1
    <3> HIDE DEF a, b
    <3>3. QED BY <3>1, <3>2 DEF Increasing
  <2>4. QED BY <2>1, <2>2, <2>3
<1>3. QED BY <1>1, <1>2 DEF Increasing, u

(* A client is sent events in the order of their publication and none twice, *)
(* for every queue size, through drops, heartbeats, failed sends and         *)
(* swallowed cancellations: _write_client_events and enqueue_nowait.         *)
THEOREM SentInOrder == Spec => []InOrder
<1>1. Init => OrderInv
  <2>1. Len(<<>>) = 0 OBVIOUS
  <2>2. Increasing(<<>>) BY <2>1 DEF Increasing
  <2>3. QED BY <2>1, <2>2 DEF Init, OrderInv, Ordered
<1>2. TypeOK /\ OrderInv /\ [Next]_vars => OrderInv'
  <2>1. ASSUME TypeOK, OrderInv, [Next]_vars, NEW d \in Clients PROVE Ordered(d)'
    <3>1. CASE UNCHANGED vars
      BY <2>1, <3>1 DEF vars, brokerVars, outVars, OrderInv, Ordered
    <3>2. CASE Next BY <2>1, <3>2, PublishOrdered, SessionOrdered DEF Next
    <3>3. QED BY <2>1, <3>1, <3>2
  <2>2. QED BY <2>1 DEF OrderInv
<1>3. TypeOK /\ OrderInv => InOrder
  <2> SUFFICES ASSUME TypeOK, OrderInv, NEW c \in Clients
               PROVE  Increasing(Outgoing(c))
    BY DEF InOrder, Increasing
  <2> DEFINE hand == IF inHand[c] = Heartbeat THEN <<>> ELSE <<inHand[c]>>
  <2>1. /\ queue[c] \in Seq(Nat) /\ sent[c] \in Seq(Nat) /\ inHand[c] \in Nat /\ Ordered(c)
    <3>1. Events \subseteq Nat /\ Heartbeat \in Nat BY DEF Events, Heartbeat
    <3>2. Seq(Events) \subseteq Seq(Nat) BY <3>1, SeqMonotone
    <3>3. QED BY <3>1, <3>2 DEF TypeOK, OrderInv
  <2>2. /\ hand \in Seq(Nat) /\ Increasing(hand)
        /\ \A i \in 1 .. Len(hand) : hand[i] = inHand[c] /\ inHand[c] # Heartbeat
    <3>1. CASE inHand[c] = Heartbeat
      <4>1. hand = <<>> BY <3>1
      <4>2. Len(<<>>) = 0 /\ <<>> \in Seq(Nat) OBVIOUS
      <4> HIDE DEF hand
      <4>3. QED BY <4>1, <4>2 DEF Increasing
    <3>2. CASE inHand[c] # Heartbeat
      <4>1. hand = <<inHand[c]>> BY <3>2
      <4>2. /\ <<inHand[c]>> \in Seq(Nat) /\ Len(<<inHand[c]>>) = 1
            /\ <<inHand[c]>>[1] = inHand[c]
        BY <2>1
      <4> HIDE DEF hand
      <4>3. QED BY <3>2, <4>1, <4>2 DEF Increasing
    <3>3. QED BY <3>1, <3>2
  <2> HIDE DEF hand
  <2>3. hand \o queue[c] \in Seq(Nat) /\ Increasing(hand \o queue[c])
    BY <2>1, <2>2, ConcatIncreasing DEF Ordered
  <2>4. \A i \in 1 .. Len(sent[c]), j \in 1 .. Len(hand \o queue[c]) :
          sent[c][i] < (hand \o queue[c])[j]
    <3>1. \A j \in 1 .. Len(hand \o queue[c]) :
            \/ \E k \in 1 .. Len(hand) : (hand \o queue[c])[j] = hand[k]
            \/ \E k \in 1 .. Len(queue[c]) : (hand \o queue[c])[j] = queue[c][k]
      <4> DEFINE s == hand
                 t == queue[c]
                 u == s \o t
      <4>1. /\ Len(s) \in Nat /\ Len(t) \in Nat /\ Len(u) = Len(s) + Len(t)
            /\ \A i \in 1 .. Len(s) + Len(t) :
                 u[i] = IF i <= Len(s) THEN s[i] ELSE t[i - Len(s)]
        BY <2>1, <2>2, ConcatProperties
      <4> HIDE DEF s, t, u
      <4>2. ASSUME NEW j \in 1 .. Len(u)
            PROVE  (\E k \in 1 .. Len(s) : u[j] = s[k]) \/ (\E k \in 1 .. Len(t) : u[j] = t[k])
        <5>1. CASE j <= Len(s) BY <4>1, <5>1
        <5>2. CASE ~(j <= Len(s))
          <6>1. j - Len(s) \in 1 .. Len(t) /\ u[j] = t[j - Len(s)] BY <4>1, <5>2
          <6>2. QED BY <6>1
        <5>3. QED BY <5>1, <5>2
      <4>3. QED BY <4>2 DEF s, t, u
    <3>2. QED BY <2>1, <2>2, <3>1 DEF Ordered
  <2>5. Increasing(sent[c] \o (hand \o queue[c]))
    BY <2>1, <2>3, <2>4, ConcatIncreasing DEF Ordered
  <2>6. Outgoing(c) = sent[c] \o (hand \o queue[c])
    <3>1. Outgoing(c) = (sent[c] \o hand) \o queue[c] BY DEF Outgoing, hand
    <3>2. (sent[c] \o hand) \o queue[c] = sent[c] \o (hand \o queue[c])
      <4>1. sent[c] \in Seq(Nat) /\ hand \in Seq(Nat) /\ queue[c] \in Seq(Nat)
        BY <2>1, <2>2
      <4>2. \A s, t, u \in Seq(Nat) : (s \o t) \o u = s \o (t \o u)
        <5>1. ASSUME NEW s \in Seq(Nat), NEW t \in Seq(Nat), NEW u \in Seq(Nat)
              PROVE  (s \o t) \o u = s \o (t \o u)
          BY ConcatAssociative
        <5>2. QED BY <5>1
      <4>3. QED BY <4>1, <4>2, Zenon
    <3>3. QED BY <3>1, <3>2
  <2>7. QED BY <2>5, <2>6
<1>4. QED BY <1>1, <1>2, <1>3, TypeCorrect, PTL DEF Spec
=============================================================================
