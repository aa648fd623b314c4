---------------------------- MODULE GatewayProofs ----------------------------
(***************************************************************************)
(* Proofs about Gateway, for every set of configurations, any messages and *)
(* any number of them: the events that are published are of the schema,    *)
(* and broker, game bridge and event log are given the same ones.          *)
(***************************************************************************)
EXTENDS Gateway, SequenceTheorems, DataLemmas, TLAPS

-----------------------------------------------------------------------------
(* Normalizing one message *)

(* The type that a name stands for is one of the types: it is one of the   *)
(* aliases, or there is a longest alias that it ends with.                 *)
LEMMA DetectedType ==
  ASSUME NEW raw
  PROVE  DetectEventType(raw) \in Types \cup {"unknown"}
<1> DEFINE name == OptionalText(raw, TypeNames).text
<1>1. ASSUME NEW a \in Aliases PROVE TypeOfAlias(a) \in Types
  <2>1. \E t \in Types : a \in AliasesOf[t] BY DEF Aliases
  <2>2. QED BY <2>1 DEF TypeOfAlias
<1>2. CASE name \in Aliases
  <2>1. DetectEventType(raw) = TypeOfAlias(name) BY <1>2 DEF DetectEventType
  <2>2. QED BY <1>1, <1>2, <2>1
<1>3. CASE name \notin Aliases /\ AliasSuffixes(name) # {}
  <2> DEFINE longest == CHOOSE a \in AliasSuffixes(name) :
                          \A b \in AliasSuffixes(name) \ {a} : <<a, b>> \in EndsWith
  <2>1. PICK a \in AliasSuffixes(name) : <<name, a>> \in EndsWith BY <1>3 DEF AliasSuffixes
  <2>2. name \in {pair[1] : pair \in EndsWith} BY <2>1
  <2>3. longest \in AliasSuffixes(name) BY <1>3, <2>2, EndsWithAssumption
  <2>4. longest \in Aliases BY <2>3 DEF AliasSuffixes
  <2>5. DetectEventType(raw) = TypeOfAlias(longest) BY <1>3 DEF DetectEventType
  <2>6. QED BY <1>1, <2>4, <2>5
<1>4. CASE name \notin Aliases /\ AliasSuffixes(name) = {}
  BY <1>4 DEF DetectEventType
<1>5. QED BY <1>2, <1>3, <1>4

(* _read gives the value of one of the fields when it finds any.           *)
LEMMA ReadFindsAField ==
  ASSUME NEW fields, NEW S, NEW names \in Seq(S), Has(fields, names)
  PROVE  \E f \in DOMAIN fields : Read(fields, names) = fields[f]
<1> DEFINE found == {i \in DOMAIN names : names[i] \in DOMAIN fields}
           first == CHOOSE k \in DOMAIN names :
                      /\ names[k] \in DOMAIN fields
                      /\ \A j \in 1 .. k - 1 : names[j] \notin DOMAIN fields
<1>1. found \in SUBSET Nat /\ found # {} BY DEF Has
<1>2. PICK i \in found : \A j \in found : i <= j
  <2> HIDE DEF found
  <2>1. QED BY <1>1, LeastNatural
<1>3. \A j \in 1 .. i - 1 : names[j] \notin DOMAIN fields BY <1>2
<1>4. first \in DOMAIN names /\ names[first] \in DOMAIN fields BY <1>3
<1>5. Read(fields, names) = fields[names[first]] BY DEF Read
<1>6. QED BY <1>4, <1>5

(* Wherever a text is found, it is not the empty one.                      *)
LEMMA FoundTextsAreNotEmpty ==
  ASSUME NEW fields, ValuesAreValid(fields), NEW S, NEW names \in Seq(S),
         OptionalText(fields, names).kind # "none"
  PROVE  OptionalText(fields, names).text # ""
<1> DEFINE v == Read(fields, names)
<1>1. HasText(v) /\ OptionalText(fields, names) = AsText(v)
  BY DEF OptionalText, None, Value
<1>2. Has(fields, names) BY <1>1 DEF Read, HasText, None, Value
<1>3. PICK f \in DOMAIN fields : v = fields[f] BY <1>2, ReadFindsAField
<1>4. v.text = "" => v.kind \in {"number", "flag", "date", "object"}
  BY <1>1, <1>3 DEF ValuesAreValid, HasText
<1>5. AsText(v).text # ""
  BY <1>4 DEF AsText, Value, Word
<1>6. QED BY <1>1, <1>5

LEMMA CountsAreIntegers ==
  ASSUME NEW fields, ValuesAreValid(fields), NEW S, NEW names \in Seq(S)
  PROVE  OrOne(Read(fields, names)) \in Int
<1>1. CASE Has(fields, names)
  <2>1. Read(fields, names).n \in Int BY <1>1, ReadFindsAField DEF ValuesAreValid
  <2>2. QED BY <2>1 DEF OrOne
<1>2. CASE ~Has(fields, names)
  <2>1. Read(fields, names) = None BY <1>2 DEF Read
  <2>2. None.kind = "none" BY DEF None, Value
  <2>3. OrOne(None) = 1 BY <2>2 DEF OrOne, IsInt
  <2>4. QED BY <2>1, <2>3
<1>3. QED BY <1>1, <1>2

(* The user of an event is looked for in an object of the message or in    *)
(* the message itself.                                                     *)
LEMMA UsersHaveIds ==
  ASSUME NEW m \in RawMessages, BuildsUser(m.raw)
  PROVE  UserId(m.raw).text # ""
<1>1. ValuesAreValid(UserSource(m.raw))
  <2> DEFINE names == <<"user", "author">>
  <2>1. names \in Seq({"user", "author"}) OBVIOUS
  <2>2. CASE Has(m.raw, names)
    <3> HIDE DEF names
    <3>1. PICK f \in DOMAIN m.raw : Read(m.raw, names) = m.raw[f]
      BY <2>1, <2>2, ReadFindsAField
    <3>2. UserSource(m.raw) = m.raw[f].fields BY <2>2, <3>1 DEF UserSource, names
    <3>3. QED BY <3>2, MessagesAssumption
  <2>3. CASE ~Has(m.raw, names)
    BY <2>3, MessagesAssumption DEF UserSource
  <2>4. QED BY <2>2, <2>3
<1>2. UserIds \in Seq({"user_id", "id", "unique_id", "sec_uid", "userId"}) BY DEF UserIds
<1>3. UserId(m.raw).kind # "none" BY DEF BuildsUser
<1>4. QED BY <1>1, <1>2, <1>3, FoundTextsAreNotEmpty DEF UserId

(* normalize() gives an event of the schema, whatever message it is given. *)
LEMMA NormalizedEventsAreWellFormed ==
  ASSUME NEW m \in RawMessages
  PROVE  WellFormed(Normalize(m.raw))
<1> DEFINE type == DetectEventType(m.raw)
           ok == /\ type # "unknown"
                 /\ ReadsAsTime(Read(m.raw, TimeNames))
                 /\ NeedsUser(type) => BuildsUser(m.raw)
                 /\ BuildsPayload(type, m.raw)
<1>1. Types = {"comment", "join", "gift", "like", "follow", "connect", "disconnect", "error"}
  BY DEF Types, AliasesOf
<1>2. CASE ~ok
  <2>1. Normalize(m.raw) = ErrorEvent BY <1>2 DEF Normalize
  <2>2. /\ ErrorEvent.type = "error" /\ ErrorEvent.count = 0
        /\ ErrorEvent.type \notin {"comment", "join", "gift", "like", "follow"}
    BY DEF ErrorEvent, GatewayEvent
  <2>3. QED BY <1>1, <2>1, <2>2 DEF WellFormed, NeedsUser
<1>3. CASE ok
  <2> DEFINE event == Normalize(m.raw)
  <2>1. type \in Types BY <1>3, DetectedType
  <2>2. /\ event.type = type
        /\ event.count = Count(type, m.raw)
        /\ NeedsUser(type) => event.user = UserId(m.raw).text
    BY <1>3 DEF Normalize, GatewayEvent
  <2>3. NeedsUser(type) => event.user # "" BY <1>3, <2>2, UsersHaveIds
  <2>4. event.count \in Nat /\ (type \in {"gift", "like"} => event.count >= 1)
    <3>1. ValuesAreValid(m.raw) BY MessagesAssumption
    <3>2. /\ <<"repeat_count">> \in Seq({"repeat_count"})
          /\ <<"like_count", "count">> \in Seq({"like_count", "count"})
      OBVIOUS
    <3>3. OrOne(Read(m.raw, <<"repeat_count">>)) \in Int
      BY <3>1, <3>2, CountsAreIntegers
    <3>4. OrOne(Read(m.raw, <<"like_count", "count">>)) \in Int
      BY <3>1, <3>2, CountsAreIntegers
    <3>5. type \in {"gift", "like"} => Count(type, m.raw) >= 1
      BY <1>3 DEF BuildsPayload
    <3>6. Count(type, m.raw) \in Int /\ (type \notin {"gift", "like"} => Count(type, m.raw) = 0)
      BY <3>3, <3>4 DEF Count
    <3>7. QED BY <2>2, <3>5, <3>6
  <2>5. QED BY <2>1, <2>2, <2>3, <2>4 DEF WellFormed
<1>4. QED BY <1>2, <1>3

-----------------------------------------------------------------------------
(* Types *)

Names == {m.name : m \in RawMessages}

(* The events of a message are those of the one message of that name.      *)
EventsNamed(name) == (CHOOSE n \in NormalizedMessages : n.name = name).events
EventNamed(name) == EventsNamed(name)[1]

LEMMA NamedEvents ==
  ASSUME NEW m \in RawMessages
  PROVE  EventsNamed(m.name) = <<Normalize(m.raw)>> /\ EventNamed(m.name) = Normalize(m.raw)
<1> DEFINE n == [name |-> m.name, events |-> NormalizeEach(m.raw)]
           found == CHOOSE k \in NormalizedMessages : k.name = m.name
<1>1. n \in NormalizedMessages BY DEF NormalizedMessages
<1>2. found \in NormalizedMessages /\ found.name = m.name BY <1>1
<1> HIDE DEF n, found
<1>3. PICK k \in RawMessages : found = [name |-> k.name, events |-> NormalizeEach(k.raw)]
  BY <1>2 DEF NormalizedMessages
<1>4. k = m BY <1>2, <1>3, MessagesAssumption
<1>5. found.events = <<Normalize(m.raw)>> BY <1>3, <1>4 DEF NormalizeEach
<1>6. QED BY <1>5 DEF EventsNamed, EventNamed, found

AllEvents == {Normalize(m.raw) : m \in RawMessages}

LEMMA NamedEventsAreEvents ==
  \A name \in Names : EventsNamed(name) = <<EventNamed(name)>> /\ EventNamed(name) \in AllEvents
BY NamedEvents DEF Names, AllEvents

(* The numbers of the messages that came.                                  *)
Came == 1 .. Len(messages)

LEMMA EventsOfMessages ==
  ASSUME messages \in Seq(Names), NEW e \in Came
  PROVE  /\ EventsOf(e) = <<EventNamed(messages[e])>>
         /\ EventNamed(messages[e]) \in AllEvents
<1>1. EventsOf(e) = EventsNamed(messages[e]) BY DEF EventsOf, EventsNamed
<1>2. messages[e] \in Names BY DEF Came
<1>3. QED BY <1>1, <1>2, NamedEventsAreEvents

(* Where the task and the parts are.                                       *)
ControlInv ==
  /\ settings \in Settings /\ main \in Mains /\ outcome \in Outcomes
  /\ server \in Parts /\ bridge \in Parts /\ connector \in Parts /\ cancelled \in BOOLEAN
  /\ closing \in BOOLEAN /\ ending \in Stream!Endings

(* What the broker, the bridge and the log are given are events of         *)
(* messages, and the stream holds numbers of messages that came.           *)
DataInv ==
  /\ messages \in Seq(Names) /\ Len(messages) <= MaxEvents
  /\ backlog \in Seq(Came) /\ given \in Seq(Came) /\ thread \in Came \cup {0}
  /\ published \in Seq(AllEvents) /\ bridged \in Seq(AllEvents) /\ written \in Seq(AllEvents)
  /\ main \in {"publishing", "bridging", "writing"} => given # <<>>

LEMMA ControlInvHolds == Spec => []ControlInv
<1> USE DEF ControlInv, Mains, Outcomes, Parts, Stops, Stream!Endings
<1>1. Init => ControlInv
  BY GatewayAssumption DEF Init, Stream!StreamInit
<1>2. ControlInv /\ [Next]_vars => ControlInv'
  <2> SUFFICES ASSUME ControlInv, [Next]_vars PROVE ControlInv'
    OBVIOUS
  <2> USE DEF partVars, streamVars, logVars
  <2>1. CASE ServerStarts \/ BridgeStarts \/ StartFails
    BY <2>1 DEF ServerStarts, BridgeStarts, StartFails, Goes, AfterServer
  <2>2. CASE ConnectorStarts
    BY <2>2 DEF ConnectorStarts, Goes, Stream!Open
  <2>3. CASE TakeEvent
    BY <2>3 DEF TakeEvent, Goes, Stream!Give
  <2>4. CASE StreamEnds
    <3>1. ending' \in {"ended", "failed"} /\ closing' = closing
      BY <2>4 DEF StreamEnds, Stream!End
    <3>2. main' = FirstStop /\ outcome' \in {"connectorFailed", "completed"}
      BY <2>4 DEF StreamEnds, Leaves
    <3>3. QED BY <2>4, <3>1, <3>2 DEF StreamEnds, FirstStop
  <2>5. CASE ReadLine
    BY <2>5 DEF ReadLine, Goes
  <2>6. CASE ReplayEnds
    BY <2>6 DEF ReplayEnds, Leaves, FirstStop
  <2>7. CASE Publish \/ BridgeReturns
    BY <2>7 DEF Publish, BridgeReturns, Goes, AfterPublish
  <2>8. CASE ConnectorStops
    BY <2>8 DEF ConnectorStops, Goes, AfterConnector, Stream!Close
  <2>9. CASE BridgeStops \/ ServerStops \/ StopRaises
    BY <2>9 DEF BridgeStops, ServerStops, StopRaises, Goes
  <2>10. CASE ThreadAppends
    <3>1. main' \in {main, "waiting"} BY <2>10 DEF ThreadAppends
    <3>2. UNCHANGED <<settings, outcome, partVars, cancelled, closing, ending>>
      BY <2>10 DEF ThreadAppends
    <3>3. cancelled' \in BOOLEAN /\ closing' \in BOOLEAN BY <3>2
    <3>4. main' \in Mains BY <3>1
    <3>5. QED BY <3>2, <3>3, <3>4
  <2>11. CASE AppendFails
    <3>1. \/ main' = FirstStop /\ outcome' = "writeFailed"
          \/ UNCHANGED <<main, outcome>>
      BY <2>11 DEF AppendFails, Leaves
    <3>2. QED BY <2>11, <3>1 DEF AppendFails, FirstStop
  <2>12. CASE StreamStep
    <3>1. closing' \in {closing, TRUE} /\ ending' = ending
      BY <2>12 DEF StreamStep, Stream!Accept, Stream!Close, Stream!Evict
    <3>2. UNCHANGED <<settings, main, outcome, partVars, cancelled>>
      BY <2>12 DEF StreamStep
    <3>3. cancelled' \in BOOLEAN BY <3>2
    <3>4. closing' \in BOOLEAN BY <3>1
    <3>5. QED BY <3>1, <3>2, <3>3, <3>4
  <2>13. CASE Interrupted
    <3>1. /\ main' \in {FirstStop, "returned", main}
          /\ outcome' \in {"cancelled", "stopFailed", "startFailed", outcome}
      BY <2>13 DEF Interrupted, Leaves
    <3>2. QED BY <2>13, <3>1 DEF Interrupted, FirstStop
  <2>14. CASE Exited \/ UNCHANGED vars
    BY <2>14 DEF Exited, vars
  <2>15. QED
    BY <2>1, <2>2, <2>3, <2>4, <2>5, <2>6, <2>7, <2>8, <2>9, <2>10, <2>11, <2>12, <2>13, <2>14
    DEF Next, TaskStep, ThreadStep
<1>3. QED BY <1>1, <1>2, PTL DEF Spec

(* One more message: what was a sequence of messages that came still is.   *)
LEMMA OneMoreMessage ==
  ASSUME DataInv, NEW m \in RawMessages, Receives(m)
  PROVE  /\ messages' \in Seq(Names) /\ Len(messages') <= MaxEvents
         /\ Len(messages) + 1 \in Came'
         /\ backlog \in Seq(Came') /\ given \in Seq(Came') /\ thread \in Came' \cup {0}
<1>1. m.name \in Names BY DEF Names
<1>2. messages' = Append(messages, m.name) /\ Len(messages) < MaxEvents BY DEF Receives
<1>3. messages' \in Seq(Names) /\ Len(messages') = Len(messages) + 1 /\ Len(messages) \in Nat
  BY <1>1, <1>2 DEF DataInv
<1>4. Len(messages') <= MaxEvents BY <1>2, <1>3, GatewayAssumption
<1>5. Came \subseteq Came' /\ Len(messages) + 1 \in Came' BY <1>3 DEF Came
<1>6. ASSUME NEW s \in Seq(Came) PROVE s \in Seq(Came') BY <1>5
<1>7. QED BY <1>3, <1>4, <1>5, <1>6 DEF DataInv

LEMMA DataInvHolds == Spec => []DataInv
<1>1. Init => DataInv
  <2> SUFFICES ASSUME Init PROVE DataInv
    OBVIOUS
  <2>1. /\ messages = <<>> /\ given = <<>> /\ backlog = <<>> /\ published = <<>>
        /\ bridged = <<>> /\ written = <<>> /\ thread = 0 /\ main = "starting server"
    BY DEF Init, Stream!StreamInit
  <2>2. \A S : <<>> \in Seq(S) OBVIOUS
  <2>3. Len(messages) <= MaxEvents
    <3>1. Len(messages) = 0 BY <2>1
    <3>2. QED BY <3>1, GatewayAssumption
  <2>4. QED BY <2>1, <2>2, <2>3 DEF DataInv
<1>2. DataInv /\ [Next]_vars => DataInv'
  <2> SUFFICES ASSUME DataInv, [Next]_vars PROVE DataInv'
    OBVIOUS
  <2> USE DEF partVars, streamVars, logVars
  <2>1. UNCHANGED messages => Came' = Came BY DEF Came
  <2>2. ASSUME UNCHANGED <<messages, logVars>>, given' = given, thread' \in {thread, 0},
               \/ main' \in {"waiting"} \cup Stops
               \/ main' \notin {"publishing", "bridging", "writing"}
               \/ main' = main,
               backlog' \in Seq(Came)
        PROVE  DataInv'
    BY <2>1, <2>2 DEF DataInv, Stops
  <2>3. CASE ServerStarts \/ BridgeStarts \/ StartFails
    BY <2>2, <2>3 DEF ServerStarts, BridgeStarts, StartFails, Goes, AfterServer, DataInv
  <2>4. CASE ConnectorStarts
    <3>1. backlog' = <<>> BY <2>4 DEF ConnectorStarts, Stream!Open
    <3>2. \A S : <<>> \in Seq(S) OBVIOUS
    <3>3. backlog' \in Seq(Came) BY <3>1, <3>2
    <3>4. QED BY <2>2, <2>4, <3>3 DEF ConnectorStarts, Goes, Stream!Open
  <2>5. CASE TakeEvent
    <3>1. /\ backlog # <<>> /\ given' = Append(given, Head(backlog))
          /\ backlog' = Tail(backlog)
      BY <2>5 DEF TakeEvent, Stream!Give
    <3>2. backlog \in Seq(Came) /\ given \in Seq(Came) BY DEF DataInv
    <3>3. given' \in Seq(Came) /\ given' # <<>> /\ backlog' \in Seq(Came)
      BY <3>1, <3>2
    <3>4. QED BY <2>1, <2>5, <3>3 DEF TakeEvent, DataInv
  <2>6. CASE StreamEnds
    BY <2>2, <2>6 DEF StreamEnds, Stream!End, Leaves, FirstStop, Stops, DataInv
  <2>7. CASE ReadLine
    <3>1. PICK m \in RawMessages : Receives(m) BY <2>7 DEF ReadLine
    <3>2. given' = Append(given, Len(messages) + 1) BY <2>7 DEF ReadLine
    <3>3. given' \in Seq(Came') /\ given' # <<>> BY <3>1, <3>2, OneMoreMessage
    <3>4. QED BY <2>7, <3>1, <3>3, OneMoreMessage DEF ReadLine, DataInv
  <2>8. CASE ReplayEnds
    BY <2>2, <2>8 DEF ReplayEnds, Leaves, FirstStop, Stops, DataInv
  <2>9. CASE Publish
    <3>1. given # <<>> /\ given \in Seq(Came) BY <2>9 DEF Publish, Goes, DataInv
    <3> DEFINE e == given[Len(given)]
    <3>2. e \in Came BY <3>1
    <3>3. Normalized \in Seq(AllEvents)
      <4> HIDE DEF e
      <4>1. EventsOf(e) = <<EventNamed(messages[e])>> /\ EventNamed(messages[e]) \in AllEvents
        BY <3>2, EventsOfMessages DEF DataInv
      <4>2. EventsOf(e) \in Seq(AllEvents) BY <4>1
      <4>3. QED BY <4>2 DEF Normalized, e
    <3> HIDE DEF e
    <3>4. /\ published' \in Seq(AllEvents) /\ bridged' \in Seq(AllEvents)
          /\ thread' \in {thread, e}
      BY <2>9, <3>3 DEF Publish, DataInv, e
    <3>5. QED BY <2>1, <2>9, <3>1, <3>2, <3>4 DEF Publish, DataInv
  <2>10. CASE BridgeReturns
    <3>1. given # <<>> /\ given \in Seq(Came) BY <2>10 DEF BridgeReturns, Goes, DataInv
    <3> DEFINE e == given[Len(given)]
    <3>2. e \in Came BY <3>1
    <3> HIDE DEF e
    <3>3. thread' \in {thread, e} BY <2>10 DEF BridgeReturns, e
    <3>4. QED BY <2>1, <2>10, <3>1, <3>2, <3>3 DEF BridgeReturns, DataInv
  <2>11. CASE ConnectorStops \/ BridgeStops \/ ServerStops \/ StopRaises
    BY <2>2, <2>11 DEF ConnectorStops, BridgeStops, ServerStops, StopRaises, Goes,
                       AfterConnector, Stream!Close, Stops, DataInv
  <2>12. CASE ThreadAppends
    <3>1. thread \in Came BY <2>12 DEF ThreadAppends, DataInv
    <3>2. EventsOf(thread) = <<EventNamed(messages[thread])>>
          /\ EventNamed(messages[thread]) \in AllEvents
      BY <3>1, EventsOfMessages DEF DataInv
    <3>3. EventsOf(thread) \in Seq(AllEvents) BY <3>2
    <3>4. written' \in Seq(AllEvents) BY <2>12, <3>3 DEF ThreadAppends, DataInv
    <3>5. QED BY <2>1, <2>12, <3>4 DEF ThreadAppends, DataInv
  <2>13. CASE AppendFails
    <3>1. main' \in {FirstStop, main}
      BY <2>13 DEF AppendFails, Leaves
    <3>2. QED BY <2>2, <2>13, <3>1 DEF AppendFails, FirstStop, Stops, DataInv
  <2>14. CASE StreamStep
    <3>1. CASE \E m \in RawMessages : Receives(m) /\ Stream!Accept(Len(messages) + 1)
      <4>1. PICK m \in RawMessages : Receives(m) /\ Stream!Accept(Len(messages) + 1)
        BY <3>1
      <4>2. backlog' = Append(backlog, Len(messages) + 1) /\ given' = given
        BY <4>1 DEF Stream!Accept
      <4>3. backlog' \in Seq(Came') BY <4>1, <4>2, OneMoreMessage
      <4>4. QED BY <2>14, <4>1, <4>2, <4>3, OneMoreMessage DEF StreamStep, DataInv
    <3>2. CASE (Stream!Close \/ Stream!Evict) /\ UNCHANGED messages
      <4>1. /\ given' = given /\ backlog \in Seq(Came)
            /\ backlog' = backlog \/ (backlog # <<>> /\ backlog' = Tail(backlog))
        BY <3>2 DEF Stream!Close, Stream!Evict, DataInv
      <4>2. backlog' \in Seq(Came) BY <4>1
      <4>3. UNCHANGED <<main, thread, logVars>> BY <2>14 DEF StreamStep
      <4>4. QED BY <2>2, <3>2, <4>1, <4>2, <4>3
    <3>3. QED BY <2>14, <3>1, <3>2 DEF StreamStep
  <2>15. CASE Interrupted
    <3>1. main' \in {FirstStop, "returned", main}
      BY <2>15 DEF Interrupted, Leaves
    <3>2. QED BY <2>2, <2>15, <3>1 DEF Interrupted, FirstStop, Stops, DataInv
  <2>16. CASE Exited \/ UNCHANGED vars
    BY <2>2, <2>16 DEF Exited, vars, DataInv
  <2>17. QED
    BY <2>3, <2>4, <2>5, <2>6, <2>7, <2>8, <2>9, <2>10, <2>11, <2>12, <2>13, <2>14, <2>15,
       <2>16
    DEF Next, TaskStep, ThreadStep
<1>3. QED BY <1>1, <1>2, PTL DEF Spec

(* Every event that is published is of the schema, and every variable      *)
(* keeps its type, whatever the messages are and in whatever order they    *)
(* come, also in a gateway that fails or is interrupted.                   *)
THEOREM TypeCorrect == Spec => []TypeOK
<1>1. ControlInv /\ DataInv => TypeOK
  <2> SUFFICES ASSUME ControlInv, DataInv PROVE TypeOK
    OBVIOUS
  <2>1. Came \subseteq 1 .. MaxEvents
    <3>1. Len(messages) \in Nat /\ Len(messages) <= MaxEvents BY DEF DataInv
    <3>2. QED BY <3>1, GatewayAssumption DEF Came
  <2>2. backlog \in Seq(1 .. MaxEvents) /\ given \in Seq(1 .. MaxEvents)
    BY <2>1, SeqMonotone DEF DataInv
  <2>3. thread \in 0 .. MaxEvents BY <2>1, GatewayAssumption DEF DataInv
  <2>4. \A i \in 1 .. Len(published) : WellFormed(published[i])
    <3>1. \A i \in 1 .. Len(published) : published[i] \in AllEvents BY DEF DataInv
    <3>2. QED BY <3>1, NormalizedEventsAreWellFormed DEF AllEvents
  <2>5. {server, bridge, connector} \subseteq Parts BY DEF ControlInv
  <2>6. QED
    BY <2>2, <2>3, <2>4, <2>5 DEF TypeOK, ControlInv, DataInv, Names
<1>2. QED BY <1>1, ControlInvHolds, DataInvHolds, PTL

-----------------------------------------------------------------------------
(* Broker, game bridge and event log *)

(* Events are taken in the order in which their messages came.             *)
OrderInv ==
  /\ Increasing(given) /\ Increasing(backlog)
  /\ \A i \in 1 .. Len(given), j \in 1 .. Len(backlog) : given[i] < backlog[j]
  /\ ~Live => backlog = <<>>

LEMMA OrderInvHolds == Spec => []OrderInv
<1>1. Init => OrderInv
  <2> SUFFICES ASSUME Init PROVE OrderInv
    OBVIOUS
  <2>1. given = <<>> /\ backlog = <<>> BY DEF Init, Stream!StreamInit
  <2>2. Len(given) = 0 /\ Len(backlog) = 0 BY <2>1
  <2>3. QED BY <2>1, <2>2 DEF OrderInv, Increasing
<1>2. DataInv /\ OrderInv /\ [Next]_vars => OrderInv'
  <2> SUFFICES ASSUME DataInv, OrderInv, [Next]_vars PROVE OrderInv'
    OBVIOUS
  <2> USE DEF partVars, streamVars, logVars
  <2>1. backlog \in Seq(Came) /\ given \in Seq(Came) /\ Len(messages) \in Nat
    BY DEF DataInv
  <2>2. /\ \A i \in 1 .. Len(given) : given[i] \in Nat /\ given[i] < Len(messages) + 1
        /\ \A i \in 1 .. Len(backlog) : backlog[i] \in Nat /\ backlog[i] < Len(messages) + 1
    BY <2>1 DEF Came
  <2> DEFINE n == Len(messages) + 1
  <2>3. given \in Seq(Nat) /\ backlog \in Seq(Nat) /\ n \in Nat
    <3>1. Came \subseteq Nat BY DEF Came
    <3>2. Seq(Came) \subseteq Seq(Nat) BY <3>1, SeqMonotone
    <3>3. given \in Seq(Nat) /\ backlog \in Seq(Nat) BY <2>1, <3>2
    <3>4. n \in Nat BY <2>1
    <3>5. QED BY <3>3, <3>4
  <2>4. CASE UNCHANGED <<settings, backlog, given>>
    BY <2>4 DEF OrderInv, Live
  <2>5. CASE ConnectorStarts
    <3>1. backlog' = <<>> /\ given' = given BY <2>5 DEF ConnectorStarts, Stream!Open
    <3>2. Len(backlog') = 0 BY <3>1
    <3>3. QED BY <3>1, <3>2 DEF OrderInv, Increasing
  <2>6. CASE TakeEvent
    <3>1. /\ backlog # <<>> /\ given' = Append(given, Head(backlog))
          /\ backlog' = Tail(backlog) /\ Live /\ UNCHANGED settings
      BY <2>6 DEF TakeEvent, Stream!Give
    <3>2. /\ Len(backlog) \in Nat \ {0} /\ Len(given) \in Nat
          /\ Len(backlog') = Len(backlog) - 1 /\ Len(given') = Len(given) + 1
          /\ \A i \in 1 .. Len(backlog') : backlog'[i] = backlog[i + 1]
          /\ \A i \in 1 .. Len(given) : given'[i] = given[i]
          /\ given'[Len(given) + 1] = Head(backlog) /\ Head(backlog) = backlog[1]
      BY <2>1, <3>1
    <3>3. Increasing(backlog') BY <3>2 DEF OrderInv, Increasing
    <3>4. Increasing(given')
      <4>1. Head(backlog) \in Nat /\ \A i \in 1 .. Len(given) : given[i] < Head(backlog)
        BY <2>2, <3>2 DEF OrderInv
      <4>2. QED BY <2>3, <3>1, <4>1, AppendIncreasing DEF OrderInv
    <3>5. ASSUME NEW i \in 1 .. Len(given'), NEW j \in 1 .. Len(backlog')
          PROVE  given'[i] < backlog'[j]
      <4>1. backlog'[j] = backlog[j + 1] /\ j + 1 \in 1 .. Len(backlog) BY <3>2
      <4>2. CASE i = Len(given) + 1 BY <3>2, <4>1, <4>2 DEF OrderInv, Increasing
      <4>3. CASE i \in 1 .. Len(given) BY <3>2, <4>1, <4>3 DEF OrderInv
      <4>4. QED BY <3>2, <4>2, <4>3
    <3>6. QED BY <3>1, <3>3, <3>4, <3>5 DEF OrderInv, Live
  <2>7. CASE ReadLine
    <3>1. /\ given' = Append(given, n) /\ backlog' = backlog /\ ~Live /\ UNCHANGED settings
      BY <2>7 DEF ReadLine
    <3>2. Increasing(given') BY <2>2, <2>3, <3>1, AppendIncreasing DEF OrderInv
    <3>3. backlog = <<>> /\ Len(<<>>) = 0 BY <3>1 DEF OrderInv
    <3>4. QED BY <3>1, <3>2, <3>3 DEF OrderInv, Live
  <2>8. CASE StreamStep
    <3>1. given' = given /\ Live /\ UNCHANGED settings
      BY <2>8 DEF StreamStep, Stream!Accept, Stream!Close, Stream!Evict
    <3>2. CASE backlog' = Append(backlog, n)
      <4>1. /\ Len(backlog') = Len(backlog) + 1 /\ Len(backlog) \in Nat
            /\ \A i \in 1 .. Len(backlog) : backlog'[i] = backlog[i]
            /\ backlog'[Len(backlog) + 1] = n
        BY <2>1, <3>2
      <4>2. Increasing(backlog') BY <2>2, <2>3, <3>2, AppendIncreasing DEF OrderInv
      <4>3. \A i \in 1 .. Len(given), j \in 1 .. Len(backlog') : given[i] < backlog'[j]
        BY <2>2, <4>1 DEF OrderInv
      <4>4. QED BY <3>1, <4>2, <4>3 DEF OrderInv, Live
    <3>3. CASE backlog # <<>> /\ backlog' = Tail(backlog)
      <4>1. /\ Len(backlog') = Len(backlog) - 1 /\ Len(backlog) \in Nat \ {0}
            /\ \A i \in 1 .. Len(backlog') : backlog'[i] = backlog[i + 1]
        BY <2>1, <3>3
      <4>2. Increasing(backlog') BY <4>1 DEF OrderInv, Increasing
      <4>3. \A i \in 1 .. Len(given), j \in 1 .. Len(backlog') : given[i] < backlog'[j]
        BY <4>1 DEF OrderInv
      <4>4. QED BY <3>1, <4>2, <4>3 DEF OrderInv, Live
    <3>4. QED
      BY <2>4, <2>8, <3>1, <3>2, <3>3
      DEF StreamStep, Stream!Accept, Stream!Close, Stream!Evict
  <2>9. QED
    BY <2>4, <2>5, <2>6, <2>7, <2>8
    DEF Next, TaskStep, ThreadStep, ServerStarts, BridgeStarts, StartFails, StreamEnds,
        Stream!End, ReplayEnds, Publish, BridgeReturns, ThreadAppends, AppendFails,
        ConnectorStops, Stream!Close, BridgeStops, ServerStops, StopRaises, Interrupted,
        Exited, vars
<1>3. QED BY <1>1, <1>2, DataInvHolds, PTL DEF Spec

-----------------------------------------------------------------------------
(* The broker is given every event that is taken, and at once: only a      *)
(* replay that is interrupted in its delay leaves its last one out.        *)
Left == Stops \cup {"returned"}
PublishedInv ==
  /\ main = "publishing" => Len(published) = Len(given) - 1
  /\ main # "publishing" => \/ Len(published) = Len(given)
                            \/ ~Live /\ main \in Left /\ Len(published) = Len(given) - 1
  /\ \A i \in 1 .. Len(published) : published[i] = EventNamed(messages[given[i]])

LEMMA PublishedInvHolds == Spec => []PublishedInv
<1>1. Init => PublishedInv
  <2> SUFFICES ASSUME Init PROVE PublishedInv
    OBVIOUS
  <2>1. given = <<>> /\ published = <<>> /\ main = "starting server"
    BY DEF Init, Stream!StreamInit
  <2>2. Len(given) = 0 /\ Len(published) = 0 BY <2>1
  <2>3. main # "publishing" BY <2>1
  <2>4. \A i \in 1 .. Len(published) : published[i] = EventNamed(messages[given[i]])
    BY <2>2
  <2>5. QED BY <2>2, <2>3, <2>4 DEF PublishedInv
<1>2. ControlInv /\ DataInv /\ PublishedInv /\ [Next]_vars => PublishedInv'
  <2> SUFFICES ASSUME ControlInv, DataInv, PublishedInv, [Next]_vars PROVE PublishedInv'
    OBVIOUS
  <2> USE DEF partVars, streamVars, logVars
  <2>1. /\ Len(given) \in Nat /\ Len(published) \in Nat /\ Len(messages) \in Nat
        /\ Len(published) <= Len(given)
        /\ \A i \in 1 .. Len(given) : given[i] \in 1 .. Len(messages)
    <3>1. /\ Len(given) \in Nat /\ Len(published) \in Nat /\ Len(messages) \in Nat
          /\ \A i \in 1 .. Len(given) : given[i] \in 1 .. Len(messages)
      BY DEF DataInv, Came
    <3>2. QED BY <3>1 DEF PublishedInv
  <2>2. ASSUME UNCHANGED <<settings, messages, published, given>>,
               \/ main # "publishing" /\ main' # "publishing" /\ (main \in Left => main' \in Left)
               \/ ~Live /\ main' \in Left
               \/ main' = main
        PROVE  PublishedInv'
    BY <2>2, <2>1 DEF PublishedInv, Live, Left, Stops
  <2>3. CASE ServerStarts \/ BridgeStarts \/ ConnectorStarts \/ StartFails
    BY <2>2, <2>3 DEF ServerStarts, BridgeStarts, ConnectorStarts, StartFails, Goes,
                      AfterServer, Left, Stops, Stream!Open
  <2>4. CASE StreamEnds \/ ReplayEnds
    BY <2>2, <2>4 DEF StreamEnds, Stream!End, ReplayEnds, Leaves, FirstStop, Left, Stops
  <2>5. CASE TakeEvent
    <3>1. Len(given') = Len(given) + 1 /\ \A i \in 1 .. Len(given) : given'[i] = given[i]
      BY <2>5 DEF TakeEvent, Stream!Give, DataInv
    <3>2. /\ main = "waiting" /\ main' = "publishing" /\ UNCHANGED <<messages, published>>
      BY <2>5 DEF TakeEvent, Goes
    <3>3. Len(published) = Len(given) BY <3>2 DEF PublishedInv, Left, Stops
    <3>4. QED BY <2>1, <3>1, <3>2, <3>3 DEF PublishedInv
  <2>6. CASE ReadLine
    <3>1. PICK m \in RawMessages : Receives(m) BY <2>6 DEF ReadLine
    <3>2. m.name \in Names BY DEF Names
    <3>3. \A i \in 1 .. Len(messages) : messages'[i] = messages[i]
      BY <3>1, <3>2 DEF Receives, DataInv
    <3>4. Len(given') = Len(given) + 1 /\ \A i \in 1 .. Len(given) : given'[i] = given[i]
      <4>1. given \in Seq(Came) /\ given' = Append(given, Len(messages) + 1)
        BY <2>6 DEF ReadLine, DataInv
      <4>2. QED BY <4>1
    <3>5. main = "waiting" /\ main' = "publishing" /\ UNCHANGED published
      BY <2>6 DEF ReadLine, Goes
    <3>6. Len(published) = Len(given) BY <3>5 DEF PublishedInv, Left, Stops
    <3>7. QED BY <2>1, <3>3, <3>4, <3>5, <3>6 DEF PublishedInv
  <2>7. CASE Publish
    <3>1. /\ main = "publishing" /\ main' # "publishing" /\ UNCHANGED <<messages, given>>
          /\ published' = published \o Normalized
      BY <2>7 DEF Publish, Goes, AfterPublish
    <3>2. given # <<>> /\ given \in Seq(Came) BY <3>1 DEF DataInv
    <3> DEFINE e == given[Len(given)]
               event == EventNamed(messages[e])
    <3>3. e \in Came BY <3>2
    <3>4. Normalized = <<event>>
      <4> HIDE DEF e
      <4>1. EventsOf(e) = <<event>> BY <3>3, EventsOfMessages DEF DataInv
      <4>2. QED BY <4>1 DEF Normalized, e
    <3>5. published \in Seq(AllEvents) BY DEF DataInv
    <3> HIDE DEF event
    <3>6. /\ Len(published') = Len(published) + 1
          /\ \A i \in 1 .. Len(published) : published'[i] = published[i]
          /\ published'[Len(published) + 1] = event
      BY <3>1, <3>4, <3>5
    <3>7. Len(published) + 1 = Len(given) BY <2>1, <3>1 DEF PublishedInv
    <3>8. QED BY <2>1, <3>1, <3>6, <3>7 DEF PublishedInv, event
  <2>8. CASE BridgeReturns \/ ThreadAppends \/ AppendFails
    <3>1. /\ UNCHANGED <<settings, messages, published, given>>
          /\ \/ main \in {"bridging", "writing"} /\ main' \in {"writing", "waiting"} \cup Left
             \/ main' = main
      BY <2>8 DEF BridgeReturns, ThreadAppends, AppendFails, Goes, Leaves, FirstStop, Left, Stops
    <3>2. QED BY <2>2, <3>1 DEF Left, Stops
  <2>9. CASE ConnectorStops \/ BridgeStops \/ ServerStops \/ StopRaises
    BY <2>2, <2>9 DEF ConnectorStops, BridgeStops, ServerStops, StopRaises, Goes,
                      AfterConnector, Stream!Close, Left, Stops
  <2>10. CASE StreamStep
    <3>1. given' = given /\ UNCHANGED <<settings, main, published>>
      BY <2>10 DEF StreamStep, Stream!Accept, Stream!Close, Stream!Evict
    <3>2. CASE \E m \in RawMessages : Receives(m)
      <4>1. PICK m \in RawMessages : Receives(m) BY <3>2
      <4>2. m.name \in Names BY DEF Names
      <4>3. \A i \in 1 .. Len(messages) : messages'[i] = messages[i]
        BY <4>1, <4>2 DEF Receives, DataInv
      <4>4. QED BY <2>1, <3>1, <4>3 DEF PublishedInv, Live
    <3>3. QED BY <2>2, <2>10, <3>1, <3>2 DEF StreamStep
  <2>11. CASE Interrupted
    <3>1. /\ UNCHANGED <<settings, messages, published, given>>
          /\ main' \in Left \/ main' = main
          /\ main = "publishing" => ~Live
      BY <2>11 DEF Interrupted, AtAwait, Leaves, FirstStop, Left, Stops
    <3>2. QED BY <2>2, <3>1 DEF Left, Stops
  <2>12. CASE Exited \/ UNCHANGED vars
    BY <2>2, <2>12 DEF Exited, vars
  <2>13. QED
    BY <2>3, <2>4, <2>5, <2>6, <2>7, <2>8, <2>9, <2>10, <2>11, <2>12
    DEF Next, TaskStep, ThreadStep
<1>3. QED BY <1>1, <1>2, ControlInvHolds, DataInvHolds, PTL DEF Spec

(* The bridge is given what the broker is; the log too, but for the last   *)
(* event while the task has not come to it, or after it was left.          *)
Idle == {"starting server", "starting bridge", "starting connector", "waiting", "publishing"}
CopiesInv ==
  /\ main = "bridging" => Live /\ settings.bridge
  /\ Live /\ settings.bridge => bridged = published
  /\ thread # 0 => /\ Live /\ settings.writer /\ main \in {"writing"} \cup Left
                   /\ thread = given[Len(given)] /\ Len(written) = Len(published) - 1
  /\ Live /\ settings.writer =>
       /\ Len(written) \in {Len(published) - 1, Len(published)}
       /\ \A i \in 1 .. Len(written) : written[i] = published[i]
       /\ main \in Idle => Len(written) = Len(published)
       /\ main = "bridging" => Len(written) = Len(published) - 1

LEMMA CopiesInvHolds == Spec => []CopiesInv
<1>1. Init => CopiesInv
  <2> SUFFICES ASSUME Init PROVE CopiesInv
    OBVIOUS
  <2>1. /\ published = <<>> /\ bridged = <<>> /\ written = <<>> /\ thread = 0
        /\ main = "starting server"
    BY DEF Init
  <2>2. Len(published) = 0 /\ Len(written) = 0 BY <2>1
  <2>3. main # "bridging" BY <2>1
  <2>4. \A i \in 1 .. Len(written) : written[i] = published[i] BY <2>2
  <2>5. QED BY <2>1, <2>2, <2>3, <2>4 DEF CopiesInv
<1>2. ControlInv /\ DataInv /\ PublishedInv /\ CopiesInv /\ [Next]_vars => CopiesInv'
  <2> SUFFICES ASSUME ControlInv, DataInv, PublishedInv, CopiesInv, [Next]_vars
               PROVE  CopiesInv'
    OBVIOUS
  <2> USE DEF partVars, streamVars, logVars
  <2>1. Len(given) \in Nat /\ Len(published) \in Nat /\ Len(written) \in Nat
    BY DEF DataInv
  <2>2. main \in Idle => thread = 0
    BY DEF CopiesInv, Idle, Left, Stops
  <2>3. ASSUME UNCHANGED <<settings, logVars>>, thread' \in {thread, 0},
               \/ given' = given /\ (main' = main \/ main' \in Left)
               \/ main \in Idle /\ main' \in Idle
        PROVE  CopiesInv'
    <3>1. CASE given' = given /\ (main' = main \/ main' \in Left)
      BY <2>3, <3>1 DEF CopiesInv, Live, Left, Idle, Stops
    <3>2. CASE main \in Idle /\ main' \in Idle
      BY <2>2, <2>3, <3>2 DEF CopiesInv, Live, Idle
    <3>3. QED BY <2>3, <3>1, <3>2
  <2>4. CASE ServerStarts \/ BridgeStarts \/ ConnectorStarts \/ StartFails
    BY <2>3, <2>4 DEF ServerStarts, BridgeStarts, ConnectorStarts, StartFails, Goes,
                      AfterServer, Left, Stops, Idle, Stream!Open
  <2>5. CASE TakeEvent \/ ReadLine
    BY <2>3, <2>5 DEF TakeEvent, ReadLine, Goes, Idle
  <2>6. CASE StreamEnds \/ ReplayEnds
    BY <2>3, <2>6 DEF StreamEnds, Stream!End, ReplayEnds, Leaves, FirstStop, Left, Stops
  <2>7. CASE ConnectorStops \/ BridgeStops \/ ServerStops \/ StopRaises
    BY <2>3, <2>7 DEF ConnectorStops, BridgeStops, ServerStops, StopRaises, Goes,
                      AfterConnector, Stream!Close, Left, Stops
  <2>8. CASE StreamStep
    BY <2>3, <2>8 DEF StreamStep, Stream!Accept, Stream!Close, Stream!Evict
  <2>9. CASE Interrupted
    BY <2>3, <2>9 DEF Interrupted, Leaves, FirstStop, Left, Stops
  <2>10. CASE Exited \/ UNCHANGED vars
    BY <2>3, <2>10 DEF Exited, vars
  <2>11. CASE Publish
    <3>1. /\ main = "publishing" /\ main' = AfterPublish /\ UNCHANGED <<settings, given, written>>
          /\ published' = published \o Normalized
          /\ bridged' = IF AfterPublish = "bridging" THEN bridged \o Normalized ELSE bridged
          /\ thread' = IF AfterPublish = "writing" THEN given[Len(given)] ELSE thread
      BY <2>11 DEF Publish, Goes
    <3>2. given # <<>> /\ given \in Seq(Came) BY <3>1 DEF DataInv
    <3> DEFINE e == given[Len(given)]
               event == EventNamed(messages[e])
    <3>3. e \in Came BY <3>2
    <3>4. Normalized = <<event>>
      <4> HIDE DEF e
      <4>1. EventsOf(e) = <<event>> BY <3>3, EventsOfMessages DEF DataInv
      <4>2. QED BY <4>1 DEF Normalized, e
    <3>5. published \in Seq(AllEvents) BY DEF DataInv
    <3> HIDE DEF event
    <3>6. /\ Len(published') = Len(published) + 1
          /\ \A i \in 1 .. Len(published) : published'[i] = published[i]
      BY <3>1, <3>4, <3>5
    <3>7. thread = 0 BY <2>2, <3>1 DEF Idle
    <3>8. Live /\ settings.bridge => bridged' = published'
      BY <3>1 DEF CopiesInv, AfterPublish
    <3>9. Live /\ settings.writer =>
            /\ Len(written) = Len(published)
            /\ \A i \in 1 .. Len(written) : written[i] = published[i]
      BY <3>1 DEF CopiesInv, Idle
    <3>10. Live /\ settings.writer =>
             /\ Len(written') = Len(published') - 1
             /\ \A i \in 1 .. Len(written') : written'[i] = published'[i]
      BY <2>1, <3>1, <3>6, <3>9
    <3>11. /\ main' = "bridging" => Live /\ settings.bridge
           /\ thread' # 0 =>
                Live /\ settings.writer /\ main' = "writing" /\ thread' = given[Len(given)]
           /\ Live /\ settings.writer => main' \in {"bridging", "writing"}
      BY <3>1, <3>7 DEF AfterPublish
    <3>12. Live' = Live /\ settings' = settings /\ given' = given BY <3>1 DEF Live
    <3>13. main' \in {"bridging", "writing"} => main' \notin Idle BY DEF Idle
    <3>14. QED BY <3>8, <3>10, <3>11, <3>12, <3>13 DEF CopiesInv
  <2>12. CASE BridgeReturns
    <3>1. /\ main = "bridging" /\ UNCHANGED <<settings, given, logVars>>
          /\ main' = IF settings.writer THEN "writing" ELSE "waiting"
          /\ thread' = IF settings.writer THEN given[Len(given)] ELSE thread
      BY <2>12 DEF BridgeReturns, Goes
    <3>2. Live /\ settings.bridge /\ thread = 0 BY <3>1 DEF CopiesInv, Left, Stops
    <3>3. QED BY <3>1, <3>2 DEF CopiesInv, Live, Idle
  <2>13. CASE ThreadAppends
    <3>1. /\ thread # 0 /\ thread' = 0 /\ written' = written \o EventsOf(thread)
          /\ main' = (IF main = "writing" THEN "waiting" ELSE main)
          /\ UNCHANGED <<settings, given, published, bridged>>
      BY <2>13 DEF ThreadAppends
    <3>2. /\ Live /\ settings.writer /\ main \in {"writing"} \cup Left
          /\ thread = given[Len(given)] /\ Len(written) = Len(published) - 1
          /\ \A i \in 1 .. Len(written) : written[i] = published[i]
      BY <3>1 DEF CopiesInv
    <3>3. Len(published) = Len(given) /\ Len(published) > 0
      <4>1. main # "publishing" BY <3>2 DEF Left, Stops
      <4>2. Len(published) = Len(given) BY <3>2, <4>1 DEF PublishedInv
      <4>3. QED BY <2>1, <3>2, <4>2
    <3> DEFINE event == EventNamed(messages[thread])
    <3>4. thread \in Came BY <3>1 DEF DataInv
    <3>5. EventsOf(thread) = <<event>> BY <3>4, EventsOfMessages DEF DataInv
    <3>6. published[Len(published)] = event
      BY <2>1, <3>2, <3>3 DEF PublishedInv
    <3> HIDE DEF event
    <3>7. written \in Seq(AllEvents) BY DEF DataInv
    <3>8. /\ Len(written') = Len(written) + 1 /\ written'[Len(written) + 1] = event
          /\ \A i \in 1 .. Len(written) : written'[i] = written[i]
      BY <3>1, <3>5, <3>7
    <3>9. /\ Len(written') = Len(published)
          /\ \A i \in 1 .. Len(written') : written'[i] = published[i]
      BY <2>1, <3>2, <3>6, <3>8
    <3>10. main' \in {"waiting"} \cup Left /\ main' # "bridging"
      BY <3>1, <3>2 DEF Left, Stops
    <3>11. QED BY <3>1, <3>9, <3>10 DEF CopiesInv, Live
  <2>14. CASE AppendFails
    <3>1. /\ thread # 0 /\ thread' = 0 /\ UNCHANGED <<settings, given, logVars>>
          /\ main' = main \/ main' \in Left
      BY <2>14 DEF AppendFails, Leaves, FirstStop, Left, Stops
    <3>2. QED BY <2>3, <3>1
  <2>15. QED
    BY <2>4, <2>5, <2>6, <2>7, <2>8, <2>9, <2>10, <2>11, <2>12, <2>13, <2>14
    DEF Next, TaskStep, ThreadStep
<1>3. QED BY <1>1, <1>2, ControlInvHolds, DataInvHolds, PublishedInvHolds, PTL DEF Spec

(* When normalize() makes of each message what the documentation says it   *)
(* is, then in every state broker, bridge and log agree with each other    *)
(* and with the documentation.  TLC checks the condition with the invariant *)
(* on the messages of the run; proved here is that no order of steps, no   *)
(* failure and no interrupt makes the three differ.                        *)
NormalizesAsDocumented == \A m \in RawMessages : AsDocumented(Normalize(m.raw), m.means)

THEOREM OutputsAgree == NormalizesAsDocumented => (Spec => []SameEverywhere)
<1> SUFFICES ASSUME NormalizesAsDocumented PROVE Spec => []SameEverywhere
  OBVIOUS
<1>1. ControlInv /\ DataInv /\ OrderInv /\ PublishedInv /\ CopiesInv => SameEverywhere
  <2> SUFFICES ASSUME ControlInv, DataInv, OrderInv, PublishedInv, CopiesInv
               PROVE  SameEverywhere
    OBVIOUS
  <2>1. Len(given) \in Nat /\ Len(published) \in Nat /\ Len(written) \in Nat
    BY DEF DataInv
  <2>2. \/ Len(published) = Len(given)
        \/ Len(published) = Len(given) - 1 /\ (~Live \/ main = "publishing")
    BY DEF PublishedInv
  <2>3. ASSUME NEW i \in 1 .. Len(published)
        PROVE  AsDocumented(published[i], MeaningOf(messages[given[i]]))
    <3>1. i \in 1 .. Len(given) BY <2>1, <2>2
    <3>2. given[i] \in 1 .. Len(messages) BY <3>1 DEF DataInv, Came
    <3>3. messages[given[i]] \in Names BY <3>2 DEF DataInv
    <3>4. PICK m \in RawMessages : messages[given[i]] = m.name BY <3>3 DEF Names
    <3>5. published[i] = Normalize(m.raw) BY <3>4, NamedEvents DEF PublishedInv
    <3>6. MeaningOf(m.name) = m.means BY MessagesAssumption DEF MeaningOf
    <3>7. QED BY <3>4, <3>5, <3>6 DEF NormalizesAsDocumented
  <2>4. Live /\ settings.writer => written = SubSeq(published, 1, Len(written))
    <3> SUFFICES ASSUME Live, settings.writer
                 PROVE  written = SubSeq(published, 1, Len(written))
      OBVIOUS
    <3>1. Len(written) <= Len(published) /\ \A i \in 1 .. Len(written) : written[i] = published[i]
      BY <2>1 DEF CopiesInv
    <3>2. written \in Seq(AllEvents) /\ published \in Seq(AllEvents) BY DEF DataInv
    <3> DEFINE prefix == SubSeq(published, 1, Len(written))
    <3>3. /\ prefix \in Seq(AllEvents) /\ Len(prefix) = Len(written)
          /\ \A i \in 1 .. Len(written) : prefix[i] = published[i]
      BY <2>1, <3>1, <3>2
    <3> HIDE DEF prefix
    <3>4. \A i \in 1 .. Len(written) : written[i] = prefix[i] BY <3>1, <3>3
    <3>5. written = prefix BY <3>2, <3>3, <3>4, SeqEqual
    <3>6. QED BY <3>5 DEF prefix
  <2>5. QED BY <2>2, <2>3, <2>4 DEF SameEverywhere, OrderInv, Increasing, CopiesInv
<1>2. QED BY <1>1, ControlInvHolds, DataInvHolds, OrderInvHolds, PublishedInvHolds,
             CopiesInvHolds, PTL
=============================================================================
