--------------------------- MODULE GameBridgeProofs ---------------------------
(***************************************************************************)
(* Proofs about GameBridge, for any rules, templates and events and every  *)
(* size of the deduplicator: which events are suppressed, what is sent of  *)
(* the others, and that the counters agree with it.                        *)
(***************************************************************************)
EXTENDS GameBridge, FiniteSetTheorems, SequenceTheorems, DataLemmas, TLAPS

-----------------------------------------------------------------------------
(* Lists *)

LEMMA SequencesAreLists ==
  ASSUME NEW S, NEW s \in Seq(S)
  PROVE  IsList(s)
<1>1. /\ Len(s) \in Nat /\ DOMAIN s = 1 .. Len(s)
      /\ \A i \in 1 .. Len(s) : s[i] \in {s[j] : j \in DOMAIN s}
  OBVIOUS
<1> DEFINE T == {s[j] : j \in DOMAIN s}
<1>2. s \in Seq(T)
  <2> HIDE DEF T
  <2>1. QED BY <1>1 DEF T
<1>3. QED BY <1>2 DEF IsList

LEMMA ListsHaveTails ==
  ASSUME NEW s, IsList(s)
  PROVE  /\ Len(s) \in Nat /\ DOMAIN s = 1 .. Len(s) /\ (s = <<>> <=> Len(s) = 0)
         /\ s # <<>> => IsList(Tail(s)) /\ Len(Tail(s)) = Len(s) - 1
<1> DEFINE T == {s[j] : j \in DOMAIN s}
<1>1. s \in Seq(T) BY DEF IsList
<1> HIDE DEF T
<1>2. Len(s) \in Nat /\ DOMAIN s = 1 .. Len(s) /\ (s = <<>> <=> Len(s) = 0) BY <1>1
<1>3. s # <<>> => Tail(s) \in Seq(T) /\ Len(Tail(s)) = Len(s) - 1 BY <1>1
<1>4. QED BY <1>2, <1>3, SequencesAreLists

LEMMA ListsGrow ==
  ASSUME NEW s, IsList(s), NEW x
  PROVE  /\ IsList(Append(s, x)) /\ Len(Append(s, x)) = Len(s) + 1
         /\ \A i \in 1 .. Len(s) : Append(s, x)[i] = s[i]
         /\ Append(s, x)[Len(s) + 1] = x
<1> DEFINE T == {s[j] : j \in DOMAIN s} \cup {x}
<1>1. s \in Seq(T)
  <2> DEFINE R == {s[j] : j \in DOMAIN s}
  <2>1. s \in Seq(R) /\ R \subseteq T BY DEF IsList
  <2> HIDE DEF R, T
  <2>2. QED BY <2>1, SeqMonotone
<1>2. x \in T OBVIOUS
<1> HIDE DEF T
<1>3. /\ Append(s, x) \in Seq(T) /\ Len(Append(s, x)) = Len(s) + 1
      /\ \A i \in 1 .. Len(s) : Append(s, x)[i] = s[i]
      /\ Append(s, x)[Len(s) + 1] = x
  BY <1>1, <1>2
<1>4. QED BY <1>3, SequencesAreLists

(* What an event is rendered to is a list of messages.                     *)
RulesAreLists(rules) ==
  IsList(rules) /\ \A i \in DOMAIN rules : IsList(rules[i].messages)

LEMMA MessagesAreLists ==
  ASSUME NEW rules, RulesAreLists(rules), NEW e, NEW templates
  PROVE  IsList(RenderMessages(rules, e, templates))
<1> DEFINE of(i) == IF MatchesRule(rules[i], e) THEN RuleMessages(rules[i], e, templates)
                                                ELSE <<>>
           T == UNION {{of(i)[k] : k \in DOMAIN of(i)} : i \in DOMAIN rules}
           seqs == [i \in DOMAIN rules |-> of(i)]
<1>1. ASSUME NEW i \in DOMAIN rules PROVE of(i) \in Seq(T)
  <2>1. CASE MatchesRule(rules[i], e)
    <3>1. IsList(rules[i].messages) BY DEF RulesAreLists
    <3>2. of(i) = RuleMessages(rules[i], e, templates) BY <2>1
    <3>3. DOMAIN of(i) = DOMAIN rules[i].messages /\ of(i) = [k \in DOMAIN of(i) |-> of(i)[k]]
      BY <3>2 DEF RuleMessages
    <3>4. Len(rules[i].messages) \in Nat /\ DOMAIN of(i) = 1 .. Len(rules[i].messages)
      BY <3>1, <3>3, ListsHaveTails
    <3>5. \A k \in DOMAIN of(i) : of(i)[k] \in T OBVIOUS
    <3> HIDE DEF T, of
    <3>6. QED BY <3>3, <3>4, <3>5
  <2>2. CASE ~MatchesRule(rules[i], e)
    <3>1. of(i) = <<>> BY <2>2
    <3>2. \A S : <<>> \in Seq(S) OBVIOUS
    <3> HIDE DEF of, T
    <3>3. QED BY <3>1, <3>2
  <2>3. QED BY <2>1, <2>2
<1>2. Len(rules) \in Nat /\ DOMAIN rules = 1 .. Len(rules)
  BY ListsHaveTails DEF RulesAreLists
<1>3. seqs \in Seq(Seq(T))
  <2> DEFINE Q == Seq(T)
  <2>1. \A i \in DOMAIN rules : of(i) \in Q BY <1>1
  <2> HIDE DEF Q, of
  <2>2. seqs \in Seq(Q) BY <1>2, <2>1
  <2>3. QED BY <2>2 DEF Q
<1>4. FlattenSeq(seqs) \in Seq(T)
  <2> HIDE DEF T, seqs
  <2>1. QED BY <1>3, FlattenSeqType
<1>5. RenderMessages(rules, e, templates) = FlattenSeq(seqs) BY DEF RenderMessages
<1>6. QED
  <2> HIDE DEF T, seqs
  <2>1. QED BY <1>4, <1>5, SequencesAreLists

LEMMA ParsedRulesAreLists ==
  ASSUME NEW file \in RuleFiles
  PROVE  RulesAreLists(ParsedRules(file))
<1> DEFINE rules == ParsedRules(file)
           T == {rules[i] : i \in DOMAIN rules}
<1>1. /\ IsList(file.elements)
      /\ \A i \in DOMAIN file.elements : IsList(file.elements[i].messages)
  BY RuleFilesAssumption
<1>2. Len(file.elements) \in Nat /\ DOMAIN file.elements = 1 .. Len(file.elements)
  BY <1>1, ListsHaveTails
<1>3. rules = [i \in DOMAIN file.elements |-> rules[i]] /\ DOMAIN rules = DOMAIN file.elements
  BY DEF ParsedRules
<1>4. IsList(rules)
  <2>1. \A i \in DOMAIN rules : rules[i] \in T OBVIOUS
  <2>2. rules \in Seq(T)
    <3> HIDE DEF rules, T
    <3>1. QED BY <1>2, <1>3, <2>1
  <2> HIDE DEF rules, T
  <2>3. QED BY <2>2, SequencesAreLists
<1>5. ASSUME NEW i \in DOMAIN rules PROVE IsList(rules[i].messages)
  <2> DEFINE el == file.elements[i]
  <2>1. i \in DOMAIN file.elements BY <1>3
  <2>2. CASE IsCompact(el)
    <3> DEFINE m == ParseCompact(el, i).messages[1]
    <3>1. rules[i] = ParseCompact(el, i) BY <2>1, <2>2 DEF ParsedRules
    <3>2. ParseCompact(el, i).messages = <<m>> BY DEF ParseCompact
    <3> HIDE DEF m
    <3>3. <<m>> \in Seq({m}) OBVIOUS
    <3>4. QED BY <3>1, <3>2, <3>3, SequencesAreLists
  <2>3. CASE ~IsCompact(el)
    <3>1. rules[i] = ParseVerbose(el) BY <2>1, <2>3 DEF ParsedRules
    <3>2. rules[i].messages = el.messages BY <3>1 DEF ParseVerbose
    <3>3. QED BY <1>1, <2>1, <3>2
  <2>4. QED BY <2>2, <2>3
<1>6. QED BY <1>4, <1>5 DEF RulesAreLists

-----------------------------------------------------------------------------
(* Types *)

Entries == [event : Events, how : Hows, asked : Nat]

TypeInv ==
  /\ output \in {"udp", "stdout"} /\ deduplicates \in BOOLEAN /\ socket \in BOOLEAN
  /\ engine.loaded \in BOOLEAN /\ (Started => RulesAreLists(engine.rules))
  /\ processed \in Nat /\ generated \in Nat /\ failed \in Nat /\ unmatched \in Nat
  /\ log \in Seq(Entries) /\ IsList(pending) /\ IsList(sent)
  /\ starts \in 0 .. MaxStarts

(* While messages are left to be sent the newest entry of the log is the   *)
(* event they are of, and no other event is being sent.  Of that event as  *)
(* many messages have been sent as are missing; what was sent before was   *)
(* of earlier events.                                                      *)
SendingInv ==
  /\ \A n \in 1 .. Len(sent) : sent[n].event \in 1 .. Len(log)
  /\ pending # <<>> => /\ log # <<>> /\ Current.how = "sending"
                       /\ Len(pending) <= Current.asked
                       /\ IF Len(pending) = Current.asked
                            THEN \A n \in 1 .. Len(sent) : sent[n].event < Len(log)
                            ELSE /\ sent # <<>> /\ sent[Len(sent)].event = Len(log)
                                 /\ sent[Len(sent)].nth = Current.asked - Len(pending)
  /\ \A i \in 1 .. Len(log) : log[i].how = "sending" => i = Len(log) /\ pending # <<>>

LEMMA EntriesOfLog ==
  ASSUME TypeInv
  PROVE  /\ Len(log) \in Nat
         /\ \A i \in 1 .. Len(log) :
              log[i].event \in Events /\ log[i].how \in Hows /\ log[i].asked \in Nat
<1>1. log \in Seq(Entries) BY DEF TypeInv
<1>2. Len(log) \in Nat /\ \A i \in 1 .. Len(log) : log[i] \in Entries BY <1>1
<1>3. QED BY <1>2 DEF Entries

(* A call of process_event() that is not rejected adds one entry.          *)
LEMMA CalledAddsOne ==
  ASSUME TypeInv, NEW e \in Events, NEW how \in Hows, NEW asked \in Nat, Called(e, how, asked)
  PROVE  /\ log' \in Seq(Entries) /\ Len(log') = Len(log) + 1 /\ Len(log) \in Nat
         /\ \A i \in 1 .. Len(log) : log'[i] = log[i]
         /\ log'[Len(log) + 1] = [event |-> e, how |-> how, asked |-> asked]
         /\ pending = <<>>
<1> DEFINE entry == [event |-> e, how |-> how, asked |-> asked]
<1>1. entry \in Entries BY DEF Entries
<1>2. log' = Append(log, entry) /\ pending = <<>> BY DEF Called, Idle
<1>3. log \in Seq(Entries) BY DEF TypeInv
<1> HIDE DEF entry
<1>4. QED BY <1>1, <1>2, <1>3 DEF entry

(* Where an event ends, only how its entry says it ended is changed.       *)
LEMMA EndsChangesOne ==
  ASSUME TypeInv, log # <<>>, NEW how \in Hows, Ends(how)
  PROVE  /\ log' \in Seq(Entries) /\ Len(log') = Len(log) /\ Len(log) \in Nat \ {0}
         /\ \A i \in 1 .. Len(log) - 1 : log'[i] = log[i]
         /\ \A i \in 1 .. Len(log) : log'[i].event = log[i].event /\ log'[i].asked = log[i].asked
         /\ log'[Len(log)].how = how
<1> DEFINE last == log[Len(log)]
           entry == [last EXCEPT !.how = how]
<1>1. log \in Seq(Entries) BY DEF TypeInv
<1>2. Len(log) \in Nat \ {0} /\ last \in Entries BY <1>1
<1>3. /\ entry \in Entries /\ entry.how = how /\ entry.event = last.event
      /\ entry.asked = last.asked
  BY <1>2 DEF Entries
<1>4. log' = [log EXCEPT ![Len(log)] = entry] BY DEF Ends
<1> HIDE DEF last, entry
<1>5. log' \in Seq(Entries) /\ Len(log') = Len(log) BY <1>1, <1>2, <1>3, <1>4
<1>6. /\ \A i \in 1 .. Len(log) - 1 : log'[i] = log[i]
      /\ log'[Len(log)] = entry
  BY <1>1, <1>2, <1>4
<1>7. \A i \in 1 .. Len(log) : log'[i].event = log[i].event /\ log'[i].asked = log[i].asked
  BY <1>2, <1>3, <1>6 DEF last
<1>8. QED BY <1>2, <1>3, <1>5, <1>6, <1>7

(* The steps of one event are of four kinds.                               *)
LEMMA StepKinds ==
  ASSUME TypeInv, SendingInv, [Next]_vars
  PROVE  \/ UNCHANGED <<log, pending, sent, counters, seen, deduplicates>>
         \/ \E e \in Events : ProcessEvent(e)
         \/ SendNext
         \/ SendFails \/ CancelledWhileSending
BY DEF Next, Start, StartFails, Stop, Reject, vars

LEMMA TypeInvInit == Init => TypeInv
<1> SUFFICES ASSUME Init PROVE TypeInv
  OBVIOUS
<1>1. PICK s \in Settings : output = s.output /\ deduplicates = s.deduplicates BY DEF Init
<1>2. s.output \in {"udp", "stdout"} /\ s.deduplicates \in BOOLEAN BY BridgeAssumption
<1>3. deduplicates \in BOOLEAN BY <1>1, <1>2
<1>4. \A S : <<>> \in Seq(S) OBVIOUS
<1>5. IsList(<<>>) BY <1>4, SequencesAreLists
<1>6. engine.loaded = FALSE /\ ~Started BY DEF Init, NoEngine, Started
<1>7. starts \in 0 .. MaxStarts BY BridgeAssumption DEF Init
<1>8. QED BY <1>1, <1>2, <1>3, <1>4, <1>5, <1>6, <1>7 DEF Init, TypeInv

LEMMA TypeInvStep == TypeInv /\ SendingInv /\ [Next]_vars => TypeInv'
<1> SUFFICES ASSUME TypeInv, SendingInv, [Next]_vars PROVE TypeInv'
  OBVIOUS
<1> USE DEF counters
<1>1. CASE \E rules \in RuleFiles, templates \in TemplateFiles : Start(rules, templates)
  <2>1. PICK rules \in RuleFiles, templates \in TemplateFiles : Start(rules, templates)
    BY <1>1
  <2>2. engine' = [loaded |-> TRUE, rules |-> ParsedRules(rules),
                   templates |-> templates.templates]
    BY <2>1 DEF Start
  <2>3. engine'.loaded \in BOOLEAN /\ RulesAreLists(engine'.rules)
    BY <2>2, ParsedRulesAreLists
  <2>4. socket' \in BOOLEAN /\ starts' \in 0 .. MaxStarts
    BY <2>1, BridgeAssumption DEF Start, MayStart, TypeInv
  <2>5. UNCHANGED <<output, deduplicates, counters, pending, log, sent>>
    BY <2>1 DEF Start
  <2>6. deduplicates' \in BOOLEAN BY <2>5 DEF TypeInv
  <2>7. QED BY <2>3, <2>4, <2>5, <2>6 DEF TypeInv, Started
<1>2. CASE \E e \in Events : ProcessEvent(e)
  <2>1. PICK e \in Events : ProcessEvent(e) BY <1>2
  <2>2. IsList(<<>>) /\ (Started => IsList(Messages(e)))
    <3>1. \A S : <<>> \in Seq(S) OBVIOUS
    <3>2. QED BY <3>1, SequencesAreLists, MessagesAreLists DEF TypeInv, Messages
  <2>3. /\ UNCHANGED <<output, deduplicates, engine, socket, sent, starts, generated>>
        /\ deduplicates' \in BOOLEAN /\ socket' \in BOOLEAN
    <3>1. UNCHANGED <<output, deduplicates, engine, socket, sent, starts, generated>>
      BY <2>1 DEF ProcessEvent, CannotRead, Suppress, CannotRender, NoRule, BeginSending, Called
    <3>2. QED BY <3>1 DEF TypeInv
  <2>4. processed' \in Nat /\ failed' \in Nat /\ unmatched' \in Nat
    BY <2>1 DEF ProcessEvent, CannotRead, Suppress, CannotRender, NoRule, BeginSending,
                Accepted, TypeInv
  <2>5. IsList(pending')
    BY <2>1, <2>2 DEF ProcessEvent, CannotRead, Suppress, CannotRender, NoRule, BeginSending,
                      Accepted, TypeInv
  <2>6. log' \in Seq(Entries)
    <3>1. Len(Messages(e)) \in Nat \/ ~Started BY <2>2, ListsHaveTails
    <3>2. PICK how \in Hows, asked \in Nat : Called(e, how, asked)
      BY <2>1, <3>1 DEF ProcessEvent, CannotRead, Suppress, CannotRender, NoRule, BeginSending,
                        Accepted, Hows
    <3>3. QED BY <3>2, CalledAddsOne
  <2>7. QED BY <2>3, <2>4, <2>5, <2>6 DEF TypeInv, Started
<1>3. CASE SendNext
  <2>1. pending # <<>> /\ pending' = Tail(pending) /\ IsList(pending')
    BY <1>3, ListsHaveTails DEF SendNext, Idle, TypeInv
  <2>2. IsList(sent') BY <1>3, ListsGrow DEF SendNext, TypeInv
  <2>3. log' \in Seq(Entries)
    <3>1. log # <<>> /\ "sent" \in Hows BY <2>1 DEF SendingInv, Hows
    <3>2. Ends("sent") \/ log' = log BY <1>3 DEF SendNext
    <3>3. QED BY <3>1, <3>2, EndsChangesOne DEF TypeInv
  <2>4. generated' \in Nat /\ socket' \in BOOLEAN BY <1>3 DEF SendNext, TypeInv
  <2>5. UNCHANGED <<output, deduplicates, engine, processed, failed, unmatched, starts>>
    BY <1>3 DEF SendNext
  <2>6. deduplicates' \in BOOLEAN BY <2>5 DEF TypeInv
  <2>7. QED BY <2>1, <2>2, <2>3, <2>4, <2>5, <2>6 DEF TypeInv, Started
<1>4. CASE SendFails \/ CancelledWhileSending
  <2>1. pending # <<>> /\ pending' = <<>> /\ failed' \in Nat /\ socket' \in BOOLEAN
    <3>1. CASE SendFails BY <3>1 DEF SendFails, Idle, TypeInv
    <3>2. CASE CancelledWhileSending
      BY <3>2 DEF CancelledWhileSending, LeaveUncounted, Idle, TypeInv
    <3>3. QED BY <1>4, <3>1, <3>2
  <2>2. log' \in Seq(Entries)
    <3>1. log # <<>> /\ {"sendFailed", "cancelled"} \subseteq Hows
      BY <2>1 DEF SendingInv, Hows
    <3>2. Ends("sendFailed") \/ Ends("cancelled")
      BY <1>4 DEF SendFails, CancelledWhileSending
    <3>3. QED BY <3>1, <3>2, EndsChangesOne
  <2>3. UNCHANGED <<output, deduplicates, engine, processed, generated, unmatched, sent, starts>>
    BY <1>4 DEF SendFails, CancelledWhileSending
  <2>4. \A S : <<>> \in Seq(S) OBVIOUS
  <2>5. IsList(pending') BY <2>1, <2>4, SequencesAreLists
  <2>6. deduplicates' \in BOOLEAN BY <2>3 DEF TypeInv
  <2>7. QED BY <2>1, <2>2, <2>3, <2>5, <2>6 DEF TypeInv, Started
<1>5. CASE Stop
  <2>1. deduplicates' \in BOOLEAN /\ socket' \in BOOLEAN BY <1>5 DEF Stop, TypeInv
  <2>2. QED BY <1>5, <2>1 DEF Stop, TypeInv, Started
<1>6. CASE UNCHANGED vars
  <2>1. deduplicates' \in BOOLEAN /\ socket' \in BOOLEAN BY <1>6 DEF vars, TypeInv
  <2>2. QED BY <1>6, <2>1 DEF vars, TypeInv, Started
<1>7. QED
  BY <1>1, <1>2, <1>3, <1>4, <1>5, <1>6 DEF Next, StartFails, Reject

(* What SendNext does: the next message of the newest event is sent.       *)
LEMMA SendNextSends ==
  ASSUME TypeInv, SendingInv, SendNext
  PROVE  /\ Len(pending) \in Nat \ {0} /\ Len(pending') = Len(pending) - 1
         /\ pending' = <<>> <=> Len(pending) = 1
         /\ Len(sent) \in Nat /\ Len(sent') = Len(sent) + 1
         /\ \A n \in 1 .. Len(sent) : sent'[n] = sent[n]
         /\ sent'[Len(sent) + 1].event = Len(log)
         /\ sent'[Len(sent) + 1].nth = Current.asked - Len(pending) + 1
         /\ Len(log) \in Nat \ {0} /\ Len(log') = Len(log) /\ Current.asked \in Nat
         /\ \A i \in 1 .. Len(log) - 1 : log'[i] = log[i]
         /\ log'[Len(log)].asked = Current.asked
         /\ log'[Len(log)].event = Current.event
         /\ log'[Len(log)].how = IF pending' = <<>> THEN "sent" ELSE "sending"
<1> DEFINE new == [event |-> Len(log), nth |-> Current.asked - Len(pending) + 1,
                   message |-> Head(pending)]
<1>1. pending # <<>> /\ pending' = Tail(pending) /\ sent' = Append(sent, new)
  BY DEF SendNext, Idle
<1>2. IsList(pending) /\ IsList(sent) BY DEF TypeInv
<1>3. /\ Len(pending) \in Nat \ {0} /\ Len(pending') = Len(pending) - 1
      /\ pending' = <<>> <=> Len(pending) = 1
  <2>1. /\ Len(pending) \in Nat /\ (pending = <<>> <=> Len(pending) = 0)
        /\ IsList(pending') /\ Len(pending') = Len(pending) - 1
    BY <1>1, <1>2, ListsHaveTails
  <2>2. pending' = <<>> <=> Len(pending') = 0 BY <2>1, ListsHaveTails
  <2>3. QED BY <1>1, <2>1, <2>2
<1>4. Len(sent) \in Nat BY <1>2, ListsHaveTails
<1>5. /\ Len(sent') = Len(sent) + 1 /\ sent'[Len(sent) + 1] = new
      /\ \A n \in 1 .. Len(sent) : sent'[n] = sent[n]
  <2> HIDE DEF new
  <2>1. QED BY <1>1, <1>2, ListsGrow
<1>6. log # <<>> /\ Current.how = "sending" BY <1>1 DEF SendingInv
<1>7. log \in Seq(Entries) BY DEF TypeInv
<1>8. Len(log) \in Nat \ {0} /\ Current \in Entries BY <1>6, <1>7 DEF Current
<1>9. Current.asked \in Nat BY <1>8 DEF Entries
<1>10. CASE pending' = <<>>
  <2>1. Ends("sent") /\ "sent" \in Hows BY <1>1, <1>10 DEF SendNext, Hows
  <2>2. /\ Len(log') = Len(log) /\ \A i \in 1 .. Len(log) - 1 : log'[i] = log[i]
        /\ log'[Len(log)].asked = Current.asked /\ log'[Len(log)].how = "sent"
        /\ log'[Len(log)].event = Current.event
    BY <1>6, <1>8, <2>1, EndsChangesOne DEF Current
  <2>3. QED BY <1>3, <1>4, <1>5, <1>8, <1>9, <1>10, <2>2
<1>11. CASE pending' # <<>>
  <2>1. log' = log BY <1>1, <1>11 DEF SendNext
  <2>2. QED BY <1>3, <1>4, <1>5, <1>6, <1>8, <1>9, <1>11, <2>1 DEF Current
<1>12. QED BY <1>10, <1>11

(* What a failed or a cancelled send does: the rest is not sent.           *)
LEMMA SendingStops ==
  ASSUME TypeInv, SendingInv, SendFails \/ CancelledWhileSending
  PROVE  /\ pending # <<>> /\ Len(pending) \in Nat \ {0} /\ pending' = <<>> /\ sent' = sent
         /\ Len(log) \in Nat \ {0} /\ Len(log') = Len(log)
         /\ \A i \in 1 .. Len(log) - 1 : log'[i] = log[i]
         /\ log'[Len(log)].asked = Current.asked
         /\ log'[Len(log)].event = Current.event
         /\ log'[Len(log)].how = IF SendFails THEN "sendFailed" ELSE "cancelled"
<1>1. pending # <<>> /\ pending' = <<>> /\ sent' = sent
  BY DEF SendFails, CancelledWhileSending, Idle
<1>2. Len(pending) \in Nat \ {0} BY <1>1, ListsHaveTails DEF TypeInv
<1>3. log # <<>> BY <1>1 DEF SendingInv
<1>4. PICK how \in Hows : Ends(how) /\ how = IF SendFails THEN "sendFailed" ELSE "cancelled"
  BY DEF SendFails, CancelledWhileSending, Hows
<1>5. QED BY <1>1, <1>2, <1>3, <1>4, EndsChangesOne DEF Current

(* A call of process_event(): which way it goes decides what is counted    *)
(* and what is left to send.                                               *)
LEMMA EventIsProcessed ==
  ASSUME TypeInv, NEW e \in Events, ProcessEvent(e)
  PROVE  \E how \in {"unreadable", "duplicate", "unrenderable", "unmatched", "sending"},
            asked \in Nat :
           /\ Called(e, how, asked) /\ sent' = sent
           /\ IF how = "sending" THEN pending' # <<>> /\ Len(pending') = asked
                                 ELSE pending' = <<>> /\ asked = 0
           /\ how = "duplicate" <=> Suppress(e)
           /\ how = "unreadable" <=> ~e.mapping
           /\ how \in {"unrenderable", "unmatched", "sending"} <=> Accepted(e)
           /\ processed' = processed + One(how \in {"unrenderable", "unmatched", "sending"})
           /\ failed' = failed + One(how \in {"unreadable", "unrenderable"})
           /\ unmatched' = unmatched + One(how = "unmatched")
           /\ generated' = generated
<1> USE DEF One, TypeInv
<1>1. CASE CannotRead(e)
  <2>1. /\ Called(e, "unreadable", 0) /\ sent' = sent /\ pending' = <<>>
        /\ ~Suppress(e) /\ ~Accepted(e) /\ ~e.mapping
        /\ failed' = failed + 1 /\ UNCHANGED <<processed, unmatched, generated>>
    BY <1>1 DEF CannotRead, Called, Idle, Suppress, Accepted
  <2>2. QED BY <2>1
<1>2. CASE Suppress(e)
  <2>1. /\ Called(e, "duplicate", 0) /\ sent' = sent /\ pending' = <<>>
        /\ ~Accepted(e) /\ e.mapping /\ UNCHANGED counters
    BY <1>2 DEF Called, Idle, Suppress, Accepted, counters
  <2>2. QED BY <1>2, <2>1 DEF counters
<1>3. CASE CannotRender(e)
  <2>1. /\ Called(e, "unrenderable", 0) /\ sent' = sent /\ pending' = <<>>
        /\ ~Suppress(e) /\ Accepted(e) /\ e.mapping
        /\ processed' = processed + 1 /\ failed' = failed + 1 /\ UNCHANGED <<unmatched, generated>>
    BY <1>3 DEF CannotRender, Called, Idle, Suppress, Accepted
  <2>2. QED BY <2>1
<1>4. CASE NoRule(e)
  <2>1. /\ Called(e, "unmatched", 0) /\ sent' = sent /\ pending' = <<>>
        /\ ~Suppress(e) /\ Accepted(e) /\ e.mapping
        /\ processed' = processed + 1 /\ unmatched' = unmatched + 1
        /\ UNCHANGED <<failed, generated>>
    BY <1>4 DEF NoRule, Called, Idle, Suppress, Accepted
  <2>2. QED BY <2>1
<1>5. CASE BeginSending(e)
  <2> DEFINE asked == Len(Messages(e))
  <2>1. Accepted(e) /\ ~Suppress(e) /\ e.mapping BY <1>5 DEF BeginSending, Suppress, Accepted
  <2>2. Called(e, "sending", asked) /\ sent' = sent BY <1>5 DEF BeginSending, Called
  <2>3. pending' # <<>> /\ Len(pending') = asked BY <1>5 DEF BeginSending
  <2>4. asked \in Nat
    BY <2>1, MessagesAreLists, ListsHaveTails DEF Messages, Accepted, TypeInv
  <2>5. processed' = processed + 1 /\ UNCHANGED <<failed, unmatched, generated>>
    BY <1>5 DEF BeginSending, Accepted, Called
  <2> HIDE DEF asked
  <2>6. QED BY <2>1, <2>2, <2>3, <2>4, <2>5
<1>6. QED BY <1>1, <1>2, <1>3, <1>4, <1>5 DEF ProcessEvent

LEMMA SendingInvInit == Init => SendingInv
<1> SUFFICES ASSUME Init PROVE SendingInv
  OBVIOUS
<1>1. pending = <<>> /\ log = <<>> /\ sent = <<>> BY DEF Init
<1>2. Len(log) = 0 /\ Len(sent) = 0 BY <1>1
<1>3. QED BY <1>1, <1>2 DEF SendingInv

LEMMA SendingInvStep == TypeInv /\ SendingInv /\ [Next]_vars => SendingInv'
<1> SUFFICES ASSUME TypeInv, SendingInv, [Next]_vars PROVE SendingInv'
  OBVIOUS
<1>1. Len(log) \in Nat /\ Len(sent) \in Nat /\ Len(pending) \in Nat
  BY ListsHaveTails DEF TypeInv
<1>2. CASE UNCHANGED <<log, pending, sent, counters, seen, deduplicates>>
  BY <1>2 DEF SendingInv, Current
<1>3. CASE \E e \in Events : ProcessEvent(e)
  <2>1. PICK e \in Events : ProcessEvent(e) BY <1>3
  <2>2. PICK how \in {"unreadable", "duplicate", "unrenderable", "unmatched", "sending"},
             asked \in Nat :
          /\ Called(e, how, asked) /\ sent' = sent
          /\ IF how = "sending" THEN pending' # <<>> /\ Len(pending') = asked
                                ELSE pending' = <<>> /\ asked = 0
    BY <2>1, EventIsProcessed
  <2>3. /\ Len(log') = Len(log) + 1 /\ \A i \in 1 .. Len(log) : log'[i] = log[i]
        /\ log'[Len(log) + 1] = [event |-> e, how |-> how, asked |-> asked]
        /\ pending = <<>>
    BY <2>2, CalledAddsOne DEF Hows
  <2>4. log'[Len(log')].how = how /\ log'[Len(log')].asked = asked BY <1>1, <2>3
  <2>5. \A n \in 1 .. Len(sent') : sent'[n].event \in 1 .. Len(log) BY <2>2 DEF SendingInv
  <2>6. \A i \in 1 .. Len(log') : log'[i].how = "sending" => i = Len(log') /\ how = "sending"
    BY <1>1, <2>3, <2>4 DEF SendingInv
  <2>7. log' # <<>> BY <1>1, <2>3
  <2>8. QED BY <1>1, <2>2, <2>3, <2>4, <2>5, <2>6, <2>7 DEF SendingInv, Current
<1>4. CASE SendNext
  <2>1. SendNext BY <1>4
  <2>2. pending # <<>> /\ log' # <<>>
    <3>1. pending # <<>> BY <1>4 DEF SendNext, Idle
    <3>2. Len(log') # 0 BY <1>4, SendNextSends
    <3>3. QED BY <3>1, <3>2
  <2>3. \A n \in 1 .. Len(sent') : sent'[n].event \in 1 .. Len(log')
    <3>1. /\ Len(sent') = Len(sent) + 1 /\ \A n \in 1 .. Len(sent) : sent'[n] = sent[n]
          /\ sent'[Len(sent) + 1].event = Len(log) /\ Len(log') = Len(log)
          /\ Len(log) \in Nat \ {0}
      BY <1>4, SendNextSends
    <3>2. \A n \in 1 .. Len(sent) : sent[n].event \in 1 .. Len(log) BY DEF SendingInv
    <3>3. QED BY <1>1, <3>1, <3>2
  <2>4. \A i \in 1 .. Len(log') : log'[i].how = "sending" => i = Len(log') /\ pending' # <<>>
    <3>1. /\ Len(log') = Len(log) /\ \A i \in 1 .. Len(log) - 1 : log'[i] = log[i]
          /\ log'[Len(log)].how = IF pending' = <<>> THEN "sent" ELSE "sending"
      BY <1>4, SendNextSends
    <3>2. \A i \in 1 .. Len(log) - 1 : log[i].how # "sending" BY <1>1 DEF SendingInv
    <3>3. QED BY <1>1, <3>1, <3>2
  <2>5. pending' # <<>> =>
          /\ log'[Len(log')].how = "sending"
          /\ Len(pending') <= log'[Len(log')].asked /\ Len(pending') # log'[Len(log')].asked
          /\ sent'[Len(sent')].event = Len(log')
          /\ sent'[Len(sent')].nth = log'[Len(log')].asked - Len(pending')
    <3>1. Len(pending) <= Current.asked BY <2>2 DEF SendingInv
    <3>2. /\ Len(pending) \in Nat \ {0} /\ Len(pending') = Len(pending) - 1
          /\ Len(sent') = Len(sent) + 1 /\ sent'[Len(sent) + 1].event = Len(log)
          /\ sent'[Len(sent) + 1].nth = Current.asked - Len(pending) + 1
          /\ Len(log') = Len(log) /\ Current.asked \in Nat
          /\ log'[Len(log)].asked = Current.asked
      BY <1>4, SendNextSends
    <3>3. log'[Len(log)].how = IF pending' = <<>> THEN "sent" ELSE "sending"
      BY <1>4, SendNextSends
    <3>4. QED BY <1>1, <3>1, <3>2, <3>3
  <2>6. sent' # <<>>
    <3>1. Len(sent') # 0 BY <1>4, SendNextSends
    <3>2. QED BY <3>1
  <2>7. QED BY <2>2, <2>3, <2>4, <2>5, <2>6 DEF SendingInv, Current
<1>5. CASE SendFails \/ CancelledWhileSending
  <2>1. \A i \in 1 .. Len(log') : log'[i].how # "sending"
    BY <1>5, SendingStops DEF SendingInv
  <2>2. pending' = <<>> /\ sent' = sent /\ Len(log') = Len(log) BY <1>5, SendingStops
  <2>3. QED BY <2>1, <2>2 DEF SendingInv
<1>6. QED BY <1>2, <1>3, <1>4, <1>5, StepKinds

(* The type invariant and the one about sending need each other.           *)
LEMMA InvHolds == Spec => [](TypeInv /\ SendingInv)
BY TypeInvInit, SendingInvInit, TypeInvStep, SendingInvStep, PTL DEF Spec

-----------------------------------------------------------------------------
(* The counters *)

LEMMA NumbersGrow ==
  ASSUME NEW hows, Len(log) \in Nat, Len(log') = Len(log) + 1,
         \A i \in 1 .. Len(log) : log'[i] = log[i]
  PROVE  NumberOf(hows)' = NumberOf(hows) + One(log'[Len(log) + 1].how \in hows)
<1> DEFINE old == {i \in 1 .. Len(log) : log[i].how \in hows}
           new == {i \in 1 .. Len(log') : log'[i].how \in hows}
           last == Len(log) + 1
<1>1. IsFiniteSet(old) /\ Cardinality(old) \in Nat
  <2>1. IsFiniteSet(1 .. Len(log)) BY FS_Interval
  <2>2. old \in SUBSET (1 .. Len(log)) OBVIOUS
  <2> HIDE DEF old
  <2>3. QED BY <2>1, <2>2, FS_Subset, FS_CardinalityType
<1>2. last \notin old /\ new = IF log'[last].how \in hows THEN old \cup {last} ELSE old
  OBVIOUS
<1>3. NumberOf(hows) = Cardinality(old) /\ NumberOf(hows)' = Cardinality(new)
  BY DEF NumberOf
<1> HIDE DEF old, new, last
<1>4. Cardinality(old \cup {last}) = Cardinality(old) + 1 BY <1>1, <1>2, FS_AddElement
<1>5. QED BY <1>1, <1>2, <1>3, <1>4 DEF One, last

LEMMA NumbersMove ==
  ASSUME NEW hows, Len(log) \in Nat \ {0}, Len(log') = Len(log),
         \A i \in 1 .. Len(log) - 1 : log'[i] = log[i]
  PROVE  NumberOf(hows)' = NumberOf(hows) - One(log[Len(log)].how \in hows)
                                          + One(log'[Len(log)].how \in hows)
<1> DEFINE others == {i \in 1 .. Len(log) - 1 : log[i].how \in hows}
           old == {i \in 1 .. Len(log) : log[i].how \in hows}
           new == {i \in 1 .. Len(log') : log'[i].how \in hows}
           last == Len(log)
<1>1. IsFiniteSet(others) /\ Cardinality(others) \in Nat
  <2>1. IsFiniteSet(1 .. Len(log) - 1)
    <3>1. 1 \in Int /\ Len(log) - 1 \in Int OBVIOUS
    <3>2. QED BY <3>1, FS_Interval
  <2>2. others \in SUBSET (1 .. Len(log) - 1) OBVIOUS
  <2> HIDE DEF others
  <2>3. QED BY <2>1, <2>2, FS_Subset, FS_CardinalityType
<1>2. /\ last \notin others
      /\ old = IF log[last].how \in hows THEN others \cup {last} ELSE others
      /\ new = IF log'[last].how \in hows THEN others \cup {last} ELSE others
  OBVIOUS
<1>3. NumberOf(hows) = Cardinality(old) /\ NumberOf(hows)' = Cardinality(new)
  BY DEF NumberOf
<1> HIDE DEF others, old, new, last
<1>4. Cardinality(others \cup {last}) = Cardinality(others) + 1
  BY <1>1, <1>2, FS_AddElement
<1>5. QED BY <1>1, <1>2, <1>3, <1>4 DEF One, last

(* processed_events, failed_events, unmatched_events and generated_messages *)
(* agree with what became of the events, however many there were and        *)
(* wherever a send failed or was cancelled.                                 *)
THEOREM CountersAgree == Spec => []Accounts
<1>1. Init => Accounts
  <2> SUFFICES ASSUME Init PROVE Accounts
    OBVIOUS
  <2>1. /\ log = <<>> /\ sent = <<>> /\ processed = 0 /\ generated = 0 /\ failed = 0
        /\ unmatched = 0
    BY DEF Init
  <2>2. Len(log) = 0 /\ Len(sent) = 0 BY <2>1
  <2>3. ASSUME NEW hows PROVE NumberOf(hows) = 0
    <3>1. {i \in 1 .. Len(log) : log[i].how \in hows} = {} BY <2>2
    <3>2. QED BY <3>1, FS_EmptySet DEF NumberOf
  <2>4. QED BY <2>1, <2>2, <2>3 DEF Accounts
<1>2. TypeInv /\ SendingInv /\ Accounts /\ [Next]_vars => Accounts'
  <2> SUFFICES ASSUME TypeInv, SendingInv, Accounts, [Next]_vars PROVE Accounts'
    OBVIOUS
  <2>1. CASE UNCHANGED <<log, pending, sent, counters, seen, deduplicates>>
    BY <2>1 DEF Accounts, NumberOf, counters
  <2>2. CASE \E e \in Events : ProcessEvent(e)
    <3>1. PICK e \in Events : ProcessEvent(e) BY <2>2
    <3>2. PICK how \in {"unreadable", "duplicate", "unrenderable", "unmatched", "sending"},
               asked \in Nat :
            /\ Called(e, how, asked) /\ sent' = sent
            /\ processed' = processed + One(how \in {"unrenderable", "unmatched", "sending"})
            /\ failed' = failed + One(how \in {"unreadable", "unrenderable"})
            /\ unmatched' = unmatched + One(how = "unmatched")
            /\ generated' = generated
      BY <3>1, EventIsProcessed
    <3>3. /\ Len(log') = Len(log) + 1 /\ Len(log) \in Nat
          /\ \A i \in 1 .. Len(log) : log'[i] = log[i]
          /\ log'[Len(log) + 1].how = how
      <4>1. /\ Len(log') = Len(log) + 1 /\ Len(log) \in Nat
            /\ \A i \in 1 .. Len(log) : log'[i] = log[i]
            /\ log'[Len(log) + 1] = [event |-> e, how |-> how, asked |-> asked]
        BY <3>2, CalledAddsOne DEF Hows
      <4>2. QED BY <4>1
    <3>4. ASSUME NEW hows PROVE NumberOf(hows)' = NumberOf(hows) + One(how \in hows)
      BY <3>3, NumbersGrow
    <3>5. QED BY <3>2, <3>4 DEF Accounts, One
  <2>3. CASE SendNext
    <3>1. generated' = generated + 1 /\ UNCHANGED <<processed, failed, unmatched>>
      BY <2>3 DEF SendNext
    <3>2. /\ Len(sent') = Len(sent) + 1
          /\ Len(log) \in Nat \ {0} /\ Len(log') = Len(log)
          /\ \A i \in 1 .. Len(log) - 1 : log'[i] = log[i]
          /\ log'[Len(log)].how \in {"sent", "sending"}
      BY <2>3, SendNextSends
    <3>3. log[Len(log)].how = "sending" BY <2>3 DEF SendNext, Idle, SendingInv, Current
    <3>4. ASSUME NEW hows, {"sent", "sending"} \subseteq hows \/ {"sent", "sending"} \cap hows = {}
          PROVE  NumberOf(hows)' =
                   NumberOf(hows) - One("sending" \in hows) + One("sending" \in hows)
      <4>1. NumberOf(hows)' = NumberOf(hows) - One(log[Len(log)].how \in hows)
                                             + One(log'[Len(log)].how \in hows)
        BY <3>2, NumbersMove
      <4>2. log'[Len(log)].how \in hows <=> "sending" \in hows BY <3>2, <3>4
      <4>3. QED BY <3>3, <4>1, <4>2 DEF One
    <3>5. QED BY <3>1, <3>2, <3>4 DEF Accounts, One, TypeInv
  <2>4. CASE SendFails \/ CancelledWhileSending
    <3>1. /\ Len(log) \in Nat \ {0} /\ Len(log') = Len(log) /\ sent' = sent
          /\ \A i \in 1 .. Len(log) - 1 : log'[i] = log[i]
          /\ log'[Len(log)].how = IF SendFails THEN "sendFailed" ELSE "cancelled"
      BY <2>4, SendingStops
    <3>2. log[Len(log)].how = "sending"
      BY <2>4 DEF SendFails, CancelledWhileSending, Idle, SendingInv, Current
    <3>3. UNCHANGED <<processed, generated, unmatched>>
      BY <2>4 DEF SendFails, CancelledWhileSending
    <3> DEFINE how == IF SendFails THEN "sendFailed" ELSE "cancelled"
    <3>4. ASSUME NEW hows
          PROVE  NumberOf(hows)' = NumberOf(hows) - One("sending" \in hows) + One(how \in hows)
      BY <3>1, <3>2, NumbersMove
    <3>5. failed' = failed + One(how = "sendFailed")
      BY <2>4 DEF SendFails, CancelledWhileSending, LeaveUncounted, One, TypeInv
    <3>6. how \in {"sendFailed", "cancelled"} OBVIOUS
    <3> HIDE DEF how
    <3>7. QED BY <3>1, <3>3, <3>4, <3>5, <3>6 DEF Accounts, One, TypeInv
  <2>5. QED BY <2>1, <2>2, <2>3, <2>4, StepKinds
<1>3. QED BY <1>1, <1>2, InvHolds, PTL DEF Spec

-----------------------------------------------------------------------------
(* What is sent *)

(* How many messages of an event have been sent.                           *)
Done(i) == Cardinality(SentOf(i))

DoneInv ==
  \A i \in 1 .. Len(log) :
    /\ log[i].how = "sent" => Done(i) = log[i].asked
    /\ log[i].how \in {"sendFailed", "cancelled"} => Done(i) < log[i].asked
    /\ log[i].how = "sending" => Done(i) = log[i].asked - Len(pending)
    /\ log[i].how \in {"unreadable", "duplicate", "unrenderable", "unmatched"} => Done(i) = 0

SentInv ==
  \A n \in 1 .. Len(sent) :
    \/ /\ n > 1 /\ sent[n - 1].event = sent[n].event
       /\ sent[n].nth = sent[n - 1].nth + 1
    \/ /\ n > 1 => sent[n - 1].event < sent[n].event
       /\ sent[n].nth = 1

LEMMA DoneIsNat ==
  ASSUME TypeInv, NEW i
  PROVE  IsFiniteSet(SentOf(i)) /\ Done(i) \in Nat
<1>1. Len(sent) \in Nat BY ListsHaveTails DEF TypeInv
<1>2. IsFiniteSet(1 .. Len(sent)) BY <1>1, FS_Interval
<1>3. SentOf(i) \in SUBSET (1 .. Len(sent)) BY DEF SentOf
<1>4. QED BY <1>2, <1>3, FS_Subset, FS_CardinalityType DEF Done

LEMMA DoneGrows ==
  ASSUME TypeInv, NEW i, Len(sent) \in Nat, Len(sent') = Len(sent) + 1,
         \A n \in 1 .. Len(sent) : sent'[n] = sent[n]
  PROVE  Done(i)' = Done(i) + One(sent'[Len(sent) + 1].event = i) /\ Done(i) \in Nat
<1> DEFINE old == {n \in 1 .. Len(sent) : sent[n].event = i}
           new == {n \in 1 .. Len(sent') : sent'[n].event = i}
           last == Len(sent) + 1
<1>1. IsFiniteSet(old) /\ Cardinality(old) \in Nat BY DoneIsNat DEF Done, SentOf
<1>2. last \notin old /\ new = IF sent'[last].event = i THEN old \cup {last} ELSE old
  OBVIOUS
<1>3. Done(i) = Cardinality(old) /\ Done(i)' = Cardinality(new)
  BY DEF Done, SentOf
<1> HIDE DEF old, new, last
<1>4. Cardinality(old \cup {last}) = Cardinality(old) + 1 BY <1>1, <1>2, FS_AddElement
<1>5. QED BY <1>1, <1>2, <1>3, <1>4 DEF One, last

LEMMA SentInvStep == TypeInv /\ SendingInv /\ SentInv /\ [Next]_vars => SentInv'
<1> SUFFICES ASSUME TypeInv, SendingInv, SentInv, [Next]_vars PROVE SentInv'
  OBVIOUS
<1>1. CASE sent' = sent BY <1>1 DEF SentInv
<1>2. CASE SendNext
  <2>1. /\ Len(sent) \in Nat /\ Len(sent') = Len(sent) + 1
        /\ \A n \in 1 .. Len(sent) : sent'[n] = sent[n]
        /\ sent'[Len(sent) + 1].event = Len(log)
        /\ sent'[Len(sent) + 1].nth = Current.asked - Len(pending) + 1
        /\ Len(pending) \in Nat \ {0} /\ Current.asked \in Nat
    BY <1>2, SendNextSends
  <2>2. IF Len(pending) = Current.asked
          THEN \A n \in 1 .. Len(sent) : sent[n].event < Len(log)
          ELSE /\ sent # <<>> /\ sent[Len(sent)].event = Len(log)
               /\ sent[Len(sent)].nth = Current.asked - Len(pending)
    BY <1>2 DEF SendNext, Idle, SendingInv
  <2>3. sent # <<>> => Len(sent) > 0
    BY <2>1, ListsHaveTails DEF TypeInv
  <2> DEFINE last == Len(sent) + 1
  <2>4. \/ /\ last > 1 /\ sent'[last - 1].event = sent'[last].event
           /\ sent'[last].nth = sent'[last - 1].nth + 1
        \/ /\ last > 1 => sent'[last - 1].event < sent'[last].event
           /\ sent'[last].nth = 1
    <3>1. CASE Len(pending) = Current.asked BY <2>1, <2>2, <3>1
    <3>2. CASE Len(pending) # Current.asked BY <2>1, <2>2, <2>3, <3>2
    <3>3. QED BY <3>1, <3>2
  <2>5. ASSUME NEW n \in 1 .. Len(sent')
        PROVE  \/ /\ n > 1 /\ sent'[n - 1].event = sent'[n].event
                  /\ sent'[n].nth = sent'[n - 1].nth + 1
               \/ /\ n > 1 => sent'[n - 1].event < sent'[n].event
                  /\ sent'[n].nth = 1
    <3>1. CASE n = last BY <2>4, <3>1
    <3>2. CASE n # last
      <4>1. n \in 1 .. Len(sent) /\ sent'[n] = sent[n] BY <2>1, <3>2
      <4>2. n > 1 => sent'[n - 1] = sent[n - 1] BY <2>1, <4>1
      <4>3. QED BY <4>1, <4>2 DEF SentInv
    <3>3. QED BY <3>1, <3>2
  <2>6. QED BY <2>5 DEF SentInv
<1>3. CASE \E e \in Events : ProcessEvent(e)
  BY <1>1, <1>3 DEF ProcessEvent, CannotRead, Suppress, CannotRender, NoRule, BeginSending, Called
<1>4. QED
  BY <1>1, <1>2, <1>3, StepKinds DEF SendFails, CancelledWhileSending

LEMMA DoneInvStep == TypeInv /\ SendingInv /\ DoneInv /\ [Next]_vars => DoneInv'
<1> SUFFICES ASSUME TypeInv, SendingInv, DoneInv, [Next]_vars PROVE DoneInv'
  OBVIOUS
<1>1. CASE UNCHANGED <<log, pending, sent, counters, seen, deduplicates>>
  BY <1>1 DEF DoneInv, Done, SentOf
<1>2. CASE \E e \in Events : ProcessEvent(e)
  <2>1. PICK e \in Events : ProcessEvent(e) BY <1>2
  <2>2. PICK how \in {"unreadable", "duplicate", "unrenderable", "unmatched", "sending"},
             asked \in Nat :
          /\ Called(e, how, asked) /\ sent' = sent
          /\ IF how = "sending" THEN pending' # <<>> /\ Len(pending') = asked
                                ELSE pending' = <<>> /\ asked = 0
    BY <2>1, EventIsProcessed
  <2>3. /\ Len(log') = Len(log) + 1 /\ Len(log) \in Nat
        /\ \A i \in 1 .. Len(log) : log'[i] = log[i]
        /\ log'[Len(log) + 1] = [event |-> e, how |-> how, asked |-> asked]
        /\ pending = <<>>
    BY <2>2, CalledAddsOne DEF Hows
  <2>4. \A i : Done(i)' = Done(i) BY <2>2 DEF Done, SentOf
  <2>5. Done(Len(log) + 1) = 0
    <3>1. SentOf(Len(log) + 1) = {} BY <2>3 DEF SendingInv, SentOf
    <3>2. QED BY <3>1, FS_EmptySet DEF Done
  <2>6. \A i \in 1 .. Len(log) : log[i].how # "sending" BY <2>3 DEF SendingInv
  <2>7. log'[Len(log) + 1].how = how /\ log'[Len(log) + 1].asked = asked BY <2>3
  <2>8. QED BY <2>2, <2>3, <2>4, <2>5, <2>6, <2>7 DEF DoneInv
<1>3. CASE SendNext
  <2>1. /\ Len(sent) \in Nat /\ Len(sent') = Len(sent) + 1
        /\ \A n \in 1 .. Len(sent) : sent'[n] = sent[n]
        /\ sent'[Len(sent) + 1].event = Len(log)
    BY <1>3, SendNextSends
  <2>2. /\ Len(pending) \in Nat \ {0} /\ Len(pending') = Len(pending) - 1
        /\ pending' = <<>> <=> Len(pending) = 1
    BY <1>3, SendNextSends
  <2>3. /\ Len(log) \in Nat \ {0} /\ Len(log') = Len(log) /\ Current.asked \in Nat
        /\ \A i \in 1 .. Len(log) - 1 : log'[i] = log[i]
        /\ log'[Len(log)].asked = Current.asked
        /\ log'[Len(log)].how = IF pending' = <<>> THEN "sent" ELSE "sending"
    BY <1>3, SendNextSends
  <2>4. Current.how = "sending" BY <1>3 DEF SendNext, Idle, SendingInv
  <2>5. \A i : Done(i)' = Done(i) + One(Len(log) = i) /\ Done(i) \in Nat
    BY <2>1, DoneGrows
  <2>6. Done(Len(log)) = Current.asked - Len(pending) BY <2>3, <2>4 DEF DoneInv, Current
  <2>7. \A i \in 1 .. Len(log) - 1 : log[i].how # "sending" /\ Done(i)' = Done(i)
    BY <2>3, <2>5 DEF SendingInv, One
  <2>8. ASSUME NEW i, i = Len(log) PROVE Done(i)' = Current.asked - Len(pending')
    <3>1. Done(i)' = Done(i) + 1 BY <2>5, <2>8 DEF One
    <3>2. QED BY <2>2, <2>3, <2>6, <2>8, <3>1
  <2>9. ASSUME NEW i \in 1 .. Len(log')
        PROVE  /\ log'[i].how = "sent" => Done(i)' = log'[i].asked
               /\ log'[i].how \in {"sendFailed", "cancelled"} => Done(i)' < log'[i].asked
               /\ log'[i].how = "sending" => Done(i)' = log'[i].asked - Len(pending')
               /\ log'[i].how \in {"unreadable", "duplicate", "unrenderable", "unmatched"}
                    => Done(i)' = 0
    <3>1. CASE i = Len(log) BY <2>2, <2>3, <2>8, <3>1
    <3>2. CASE i # Len(log) BY <2>3, <2>7, <3>2 DEF DoneInv
    <3>3. QED BY <3>1, <3>2
  <2>10. QED BY <2>9 DEF DoneInv
<1>4. CASE SendFails \/ CancelledWhileSending
  <2>1. /\ pending # <<>> /\ Len(pending) \in Nat \ {0} /\ sent' = sent
        /\ Len(log) \in Nat \ {0} /\ Len(log') = Len(log)
        /\ \A i \in 1 .. Len(log) - 1 : log'[i] = log[i]
        /\ log'[Len(log)].asked = Current.asked
        /\ log'[Len(log)].how \in {"sendFailed", "cancelled"}
    <3>1. log'[Len(log)].how = IF SendFails THEN "sendFailed" ELSE "cancelled"
      BY <1>4, SendingStops
    <3>2. QED BY <1>4, <3>1, SendingStops
  <2>2. Current.how = "sending" BY <2>1 DEF SendingInv
  <2>3. Current.asked \in Nat
    BY <2>1, EntriesOfLog DEF Current
  <2>4. \A i : Done(i)' = Done(i) BY <2>1 DEF Done, SentOf
  <2>5. Done(Len(log)) < Current.asked BY <2>1, <2>2, <2>3 DEF DoneInv, Current
  <2>6. \A i \in 1 .. Len(log) - 1 : log[i].how # "sending" BY <2>1 DEF SendingInv
  <2>7. ASSUME NEW i \in 1 .. Len(log')
        PROVE  /\ log'[i].how = "sent" => Done(i)' = log'[i].asked
               /\ log'[i].how \in {"sendFailed", "cancelled"} => Done(i)' < log'[i].asked
               /\ log'[i].how = "sending" => Done(i)' = log'[i].asked - Len(pending')
               /\ log'[i].how \in {"unreadable", "duplicate", "unrenderable", "unmatched"}
                    => Done(i)' = 0
    <3>1. CASE i = Len(log) BY <2>1, <2>4, <2>5, <3>1
    <3>2. CASE i # Len(log) BY <2>1, <2>4, <2>6, <3>2 DEF DoneInv
    <3>3. QED BY <3>1, <3>2
  <2>8. QED BY <2>7 DEF DoneInv
<1>5. QED BY <1>1, <1>2, <1>3, <1>4, StepKinds

(* What goes out is, for every event in turn, a beginning of what its      *)
(* rules make of it: all of it unless a send failed or was cancelled.      *)
THEOREM MessagesInOrder == Spec => []SentInOrder
<1>1. Init => DoneInv /\ SentInv
  <2> SUFFICES ASSUME Init PROVE DoneInv /\ SentInv
    OBVIOUS
  <2>1. log = <<>> /\ sent = <<>> BY DEF Init
  <2>2. Len(log) = 0 /\ Len(sent) = 0 BY <2>1
  <2>3. QED BY <2>2 DEF DoneInv, SentInv
<1>2. TypeInv /\ DoneInv /\ SentInv => SentInOrder
  <2> SUFFICES ASSUME TypeInv, DoneInv, SentInv PROVE SentInOrder
    OBVIOUS
  <2>1. \A i \in 1 .. Len(log) : log[i].how \in Hows /\ log[i].asked \in Nat
    BY EntriesOfLog
  <2>2. ASSUME NEW i \in 1 .. Len(log)
        PROVE  /\ log[i].how = "sent" => Done(i) = log[i].asked
               /\ log[i].how \in {"sendFailed", "cancelled"} => Done(i) < log[i].asked
               /\ log[i].how = "sending" => Done(i) = log[i].asked - Len(pending)
               /\ log[i].asked = 0 => Done(i) = 0
    <3>1. Len(pending) \in Nat /\ Done(i) \in Nat
      BY DoneIsNat, ListsHaveTails DEF TypeInv
    <3>2. QED BY <2>1, <3>1 DEF DoneInv, Hows
  <2>3. QED BY <2>2 DEF SentInOrder, SentInv, Done
<1>3. QED BY <1>1, <1>2, SentInvStep, DoneInvStep, InvHolds, PTL DEF Spec

-----------------------------------------------------------------------------
(* The deduplicator *)

Distinct(s) == \A i, j \in 1 .. Len(s) : s[i] = s[j] => i = j
Onward(s, from) == {s[q] : q \in from .. Len(s)}

LEMMA OnwardIsFinite ==
  ASSUME NEW S, NEW s \in Seq(S), NEW from \in 1 .. Len(s) + 1
  PROVE  /\ IsFiniteSet(Onward(s, from))
         /\ Cardinality(Onward(s, from)) \in Nat
         /\ Cardinality(Onward(s, from)) <= Len(s) + 1 - from
         /\ Distinct(s) => Cardinality(Onward(s, from)) = Len(s) + 1 - from
<1> DEFINE D == from .. Len(s)
           R == Onward(s, from)
           f == [q \in D |-> s[q]]
<1>1. IsFiniteSet(D) /\ Cardinality(D) = Len(s) + 1 - from
  <2>1. from \in Int /\ Len(s) \in Int OBVIOUS
  <2>2. IsFiniteSet(D) /\ Cardinality(D) = IF from > Len(s) THEN 0 ELSE Len(s) - from + 1
    BY <2>1, FS_Interval
  <2>3. QED BY <2>2
<1>2. f \in Surjection(D, R) BY DEF Surjection, Onward
<1>3. Distinct(s) => f \in Injection(D, R) 
  BY DEF Injection, IsInjective, Distinct, Onward
<1> HIDE DEF D, R, f
<1>4. /\ IsFiniteSet(R) /\ Cardinality(R) <= Cardinality(D)
      /\ Cardinality(R) = Cardinality(D) <=> f \in Injection(D, R)
  BY <1>1, <1>2, FS_Surjection
<1>5. Cardinality(R) \in Nat BY <1>4, FS_CardinalityType
<1>6. QED BY <1>1, <1>3, <1>4, <1>5 DEF R

(* What becomes of the ids when one is seen: it is the newest, the others  *)
(* keep their order, and the oldest is displaced when there are too many.  *)
KeyIsNewest(ids, new, key) ==
  /\ Len(new) \in 1 .. MaxSize /\ Distinct(new) /\ new[Len(new)] = key
  /\ \A p \in 1 .. Len(new) - 1 :
       \E r \in 1 .. Len(ids) :
         /\ new[p] = ids[r] /\ ids[r] # key
         /\ Onward(new, p + 1) = Onward(ids, r + 1) \cup {key}
  /\ \A r \in 1 .. Len(ids) :
       \/ \E p \in 1 .. Len(new) : new[p] = ids[r]
       \/ r = 1 /\ Len(new) = MaxSize /\ Onward(new, 1) = Onward(ids, 2) \cup {key}

LEMMA RememberedIsNewest ==
  ASSUME NEW S, NEW ids \in Seq(S), Len(ids) <= MaxSize, Distinct(ids),
         NEW key \in S, \A i \in 1 .. Len(ids) : ids[i] # key
  PROVE  Remembered(ids, key) \in Seq(S) /\ KeyIsNewest(ids, Remembered(ids, key), key)
<1> DEFINE new == Remembered(ids, key)
           d == IF Len(ids) >= MaxSize THEN 1 ELSE 0
<1>1. /\ Len(ids) \in Nat /\ MaxSize \in Nat \ {0} /\ d \in {0, 1}
      /\ new \in Seq(S) /\ Len(new) = Len(ids) + 1 - d /\ new[Len(new)] = key
      /\ \A p \in 1 .. Len(new) - 1 : new[p] = ids[p + d]
  BY BridgeAssumption DEF Remembered
<1>2. Len(new) \in 1 .. MaxSize /\ (d = 1 => Len(new) = MaxSize) BY <1>1
<1> HIDE DEF new, d
<1>3. Distinct(new)
  <2>1. ASSUME NEW i \in 1 .. Len(new) - 1 PROVE new[i] # key
    <3>1. new[i] = ids[i + d] /\ i + d \in 1 .. Len(ids) BY <1>1
    <3>2. QED BY <3>1
  <2>2. ASSUME NEW i \in 1 .. Len(new), NEW j \in 1 .. Len(new), new[i] = new[j] PROVE i = j
    <3>1. CASE i = Len(new) \/ j = Len(new) BY <1>1, <2>1, <2>2, <3>1
    <3>2. CASE i # Len(new) /\ j # Len(new)
      <4>1. /\ i + d \in 1 .. Len(ids) /\ j + d \in 1 .. Len(ids)
            /\ new[i] = ids[i + d] /\ new[j] = ids[j + d]
        BY <1>1, <3>2
      <4>2. i + d = j + d BY <2>2, <4>1 DEF Distinct
      <4>3. QED BY <1>1, <4>2
    <3>3. QED BY <3>1, <3>2
  <2>3. QED BY <2>2 DEF Distinct
<1>4. ASSUME NEW p \in 0 .. Len(new) - 1
      PROVE  Onward(new, p + 1) = Onward(ids, p + d + 1) \cup {key}
  <2>1. ASSUME NEW x \in Onward(new, p + 1) PROVE x \in Onward(ids, p + d + 1) \cup {key}
    <3>1. PICK q \in p + 1 .. Len(new) : x = new[q] BY DEF Onward
    <3>2. CASE q = Len(new) BY <1>1, <3>1, <3>2
    <3>3. CASE q # Len(new)
      <4>1. x = ids[q + d] /\ q + d \in p + d + 1 .. Len(ids) BY <1>1, <3>1, <3>3
      <4>2. QED BY <4>1 DEF Onward
    <3>4. QED BY <3>2, <3>3
  <2>2. ASSUME NEW x \in Onward(ids, p + d + 1) PROVE x \in Onward(new, p + 1)
    <3>1. PICK q \in p + d + 1 .. Len(ids) : x = ids[q] BY DEF Onward
    <3>2. q - d \in p + 1 .. Len(new) /\ x = new[q - d] BY <1>1, <3>1
    <3>3. QED BY <3>2 DEF Onward
  <2>3. key \in Onward(new, p + 1) BY <1>1 DEF Onward
  <2>4. QED BY <2>1, <2>2, <2>3
<1>5. ASSUME NEW p \in 1 .. Len(new) - 1
      PROVE  \E r \in 1 .. Len(ids) :
               /\ new[p] = ids[r] /\ ids[r] # key
               /\ Onward(new, p + 1) = Onward(ids, r + 1) \cup {key}
  <2> DEFINE r == p + d
  <2>1. /\ r \in 1 .. Len(ids) /\ new[p] = ids[r] /\ ids[r] # key BY <1>1
  <2>2. Onward(new, p + 1) = Onward(ids, r + 1) \cup {key} BY <1>1, <1>4
  <2> HIDE DEF r
  <2>3. QED BY <2>1, <2>2
<1>6. ASSUME NEW r \in 1 .. Len(ids)
      PROVE  \/ \E p \in 1 .. Len(new) : new[p] = ids[r]
             \/ r = 1 /\ Len(new) = MaxSize /\ Onward(new, 1) = Onward(ids, 2) \cup {key}
  <2>1. CASE r - d >= 1
    <3>1. r - d \in 1 .. Len(new) - 1 /\ (r - d) + d = r BY <1>1, <2>1
    <3>2. new[r - d] = ids[r] /\ r - d \in 1 .. Len(new) BY <1>1, <3>1
    <3>3. QED BY <3>2
  <2>2. CASE ~(r - d >= 1)
    <3>1. r = 1 /\ d = 1 BY <1>1, <2>2
    <3>2. 0 \in 0 .. Len(new) - 1 BY <1>2
    <3>3. Onward(new, 0 + 1) = Onward(ids, 0 + d + 1) \cup {key} BY <1>4, <3>2
    <3>4. 0 + 1 = 1 /\ 0 + d + 1 = 2 BY <3>1
    <3>5. Onward(new, 1) = Onward(ids, 2) \cup {key} BY <3>3, <3>4, Zenon
    <3>6. QED BY <1>2, <3>1, <3>5
  <2>3. QED BY <2>1, <2>2
<1>7. QED BY <1>1, <1>2, <1>3, <1>5, <1>6 DEF KeyIsNewest, new

LEMMA TouchedIsNewest ==
  ASSUME NEW S, NEW ids \in Seq(S), Len(ids) <= MaxSize, Distinct(ids),
         NEW key, \E i \in 1 .. Len(ids) : ids[i] = key
  PROVE  Touched(ids, key) \in Seq(S) /\ KeyIsNewest(ids, Touched(ids, key), key)
<1> DEFINE new == Touched(ids, key)
           a == Position(ids, key)
<1>1. a \in 1 .. Len(ids) /\ ids[a] = key BY DEF Position
<1> HIDE DEF a
<1>2. /\ Len(ids) \in Nat \ {0} /\ key \in S /\ new \in Seq(S) /\ Len(new) = Len(ids)
      /\ new[Len(new)] = key
      /\ \A p \in 1 .. Len(new) - 1 : new[p] = IF p < a THEN ids[p] ELSE ids[p + 1]
  <2> DEFINE front == SubSeq(ids, 1, a - 1)
             back == SubSeq(ids, a + 1, Len(ids))
  <2>1. /\ front \in Seq(S) /\ Len(front) = a - 1 /\ \A p \in 1 .. a - 1 : front[p] = ids[p]
        /\ back \in Seq(S) /\ Len(back) = Len(ids) - a
        /\ \A p \in 1 .. Len(ids) - a : back[p] = ids[p + a]
    BY <1>1
  <2>2. new = Append(front \o back, key) BY DEF Touched, RemoveAt, a
  <2>3. key \in S /\ Len(ids) \in Nat \ {0} BY <1>1
  <2> HIDE DEF front, back, new
  <2> DEFINE both == front \o back
  <2>4. /\ both \in Seq(S) /\ Len(both) = Len(ids) - 1
        /\ \A p \in 1 .. Len(ids) - 1 : both[p] = IF p < a THEN front[p] ELSE back[p - a + 1]
    <3>1. front \in Seq(S) /\ back \in Seq(S) BY <2>1
    <3>2. /\ both \in Seq(S) /\ Len(both) = Len(front) + Len(back)
          /\ \A p \in 1 .. Len(front) + Len(back) :
               both[p] = IF p <= Len(front) THEN front[p] ELSE back[p - Len(front)]
      BY <3>1, ConcatProperties
    <3>3. Len(front) + Len(back) = Len(ids) - 1 BY <1>1, <2>1
    <3>4. ASSUME NEW p \in 1 .. Len(ids) - 1
          PROVE  both[p] = IF p < a THEN front[p] ELSE back[p - a + 1]
      <4>1. p <= Len(front) <=> p < a BY <1>1, <2>1
      <4>2. p - Len(front) = p - a + 1 BY <1>1, <2>1
      <4>3. QED BY <3>2, <3>3, <4>1, <4>2
    <3>5. QED BY <3>2, <3>3, <3>4
  <2>5. \A p \in 1 .. Len(ids) - 1 : both[p] = IF p < a THEN ids[p] ELSE ids[p + 1]
    BY <1>1, <2>1, <2>4
  <2> HIDE DEF both
  <2>6. /\ new \in Seq(S) /\ Len(new) = Len(ids) /\ new[Len(ids)] = key
        /\ \A p \in 1 .. Len(ids) - 1 : new[p] = both[p]
    BY <2>2, <2>3, <2>4 DEF both
  <2>7. QED BY <2>3, <2>5, <2>6
<1> HIDE DEF new
<1>3. Len(new) \in 1 .. MaxSize BY <1>2, BridgeAssumption
<1>4. Distinct(new) BY <1>1, <1>2 DEF Distinct
<1> DEFINE was(p) == IF p < a THEN p ELSE p + 1
<1>5. ASSUME NEW p \in 1 .. Len(new) - 1
      PROVE  Onward(new, p + 1) = Onward(ids, was(p) + 1) \cup {key}
  <2>1. ASSUME NEW x \in Onward(new, p + 1) PROVE x \in Onward(ids, was(p) + 1) \cup {key}
    <3>1. PICK q \in p + 1 .. Len(new) : x = new[q] BY DEF Onward
    <3>2. CASE q = Len(new) BY <1>2, <3>1, <3>2
    <3>3. CASE q # Len(new)
      <4>1. x = ids[was(q)] /\ was(q) \in was(p) + 1 .. Len(ids) BY <1>1, <1>2, <3>1, <3>3
      <4>2. QED BY <4>1 DEF Onward
    <3>4. QED BY <3>2, <3>3
  <2>2. ASSUME NEW x \in Onward(ids, was(p) + 1) PROVE x \in Onward(new, p + 1)
    <3>1. PICK q \in was(p) + 1 .. Len(ids) : x = ids[q] BY DEF Onward
    <3>2. CASE q = a BY <1>1, <1>2, <3>1, <3>2 DEF Onward
    <3>3. CASE q < a
      <4>1. q \in p + 1 .. Len(new) /\ x = new[q] BY <1>1, <1>2, <3>1, <3>3
      <4>2. QED BY <4>1 DEF Onward
    <3>4. CASE q > a
      <4>1. q - 1 \in p + 1 .. Len(new) /\ x = new[q - 1] BY <1>1, <1>2, <3>1, <3>4
      <4>2. QED BY <4>1 DEF Onward
    <3>5. QED BY <1>1, <3>2, <3>3, <3>4
  <2>3. key \in Onward(new, p + 1) BY <1>2 DEF Onward
  <2>4. QED BY <2>1, <2>2, <2>3
<1>6. ASSUME NEW p \in 1 .. Len(new) - 1
      PROVE  \E r \in 1 .. Len(ids) :
               /\ new[p] = ids[r] /\ ids[r] # key
               /\ Onward(new, p + 1) = Onward(ids, r + 1) \cup {key}
  <2>1. was(p) \in 1 .. Len(ids) /\ new[p] = ids[was(p)] BY <1>1, <1>2
  <2>2. ids[was(p)] # key BY <1>1, <1>2, <2>1 DEF Distinct
  <2>3. Onward(new, p + 1) = Onward(ids, was(p) + 1) \cup {key} BY <1>5
  <2> HIDE DEF was
  <2>4. QED BY <2>1, <2>2, <2>3
<1>7. ASSUME NEW r \in 1 .. Len(ids) PROVE \E p \in 1 .. Len(new) : new[p] = ids[r]
  <2>1. CASE r = a BY <1>1, <1>2, <2>1
  <2>2. CASE r < a BY <1>1, <1>2, <2>2
  <2>3. CASE r > a
    <3>1. r - 1 \in 1 .. Len(new) /\ new[r - 1] = ids[r] BY <1>1, <1>2, <2>3
    <3>2. QED BY <3>1
  <2>4. QED BY <1>1, <2>1, <2>2, <2>3
<1>8. QED BY <1>2, <1>3, <1>4, <1>6, <1>7 DEF KeyIsNewest, new

(* The ids that are kept are of the type that TypeOK names.                *)
KeyLists == Seq(Keys \ {""})
SeenInv == seen \in KeyLists /\ Len(seen) <= MaxSize /\ Distinct(seen)

(* The ids that were seen after the i-th event, without its own.           *)
After(i) == {IdOf(m) : m \in {n \in i + 1 .. Len(log) : Counted(n)}} \ {IdOf(i)}

(* The ids that are kept are those of the last events, in the order in     *)
(* which each came last; one that is not kept has been followed by at      *)
(* least max_size others.                                                  *)
WindowInv ==
  deduplicates =>
    /\ \A p \in 1 .. Len(seen) :
         \E j \in 1 .. Len(log) :
           /\ Counted(j) /\ IdOf(j) = seen[p]
           /\ \A m \in j + 1 .. Len(log) : Counted(m) => IdOf(m) # seen[p]
           /\ After(j) = Onward(seen, p + 1)
    /\ \A j \in 1 .. Len(log) :
         \/ ~Counted(j)
         \/ \E p \in 1 .. Len(seen) : seen[p] = IdOf(j)
         \/ Cardinality(After(j)) >= MaxSize

LEMMA AfterIsFinite ==
  ASSUME TypeInv, NEW i \in 1 .. Len(log)
  PROVE  IsFiniteSet(After(i)) /\ Cardinality(After(i)) \in Nat
<1> DEFINE D == {n \in i + 1 .. Len(log) : Counted(n)}
           R == {IdOf(m) : m \in D}
           f == [m \in D |-> IdOf(m)]
<1>1. Len(log) \in Nat BY EntriesOfLog
<1>2. IsFiniteSet(i + 1 .. Len(log))
  <2>1. i + 1 \in Int /\ Len(log) \in Int BY <1>1
  <2>2. QED BY <2>1, FS_Interval
<1>3. IsFiniteSet(D)
  <2>1. D \in SUBSET (i + 1 .. Len(log)) OBVIOUS
  <2> HIDE DEF D
  <2>2. QED BY <1>2, <2>1, FS_Subset
<1>4. f \in Surjection(D, R)
  <2> HIDE DEF D
  <2>1. QED BY DEF Surjection
<1>5. IsFiniteSet(R)
  <2> HIDE DEF D, R, f
  <2>1. QED BY <1>3, <1>4, FS_Surjection
<1>6. After(i) \in SUBSET R BY DEF After
<1> HIDE DEF R
<1>7. QED BY <1>5, <1>6, FS_Subset, FS_CardinalityType

(* A step that adds no event that counts changes nothing of the history.   *)
LEMMA WindowInvKept ==
  ASSUME TypeInv, WindowInv, UNCHANGED <<seen, deduplicates>>, Len(log') \in Nat,
         \A i \in 1 .. Len(log) : (Counted(i)' <=> Counted(i)) /\ IdOf(i)' = IdOf(i),
         \/ Len(log') = Len(log)
         \/ Len(log') = Len(log) + 1 /\ \A i : i = Len(log) + 1 => ~Counted(i)'
  PROVE  WindowInv'
<1>1. Len(log) \in Nat BY EntriesOfLog
<1>2. \A i \in 1 .. Len(log') : i \notin 1 .. Len(log) => ~Counted(i)' BY <1>1
<1>3. ASSUME NEW j \in 1 .. Len(log) PROVE After(j)' = After(j)
  <2>1. \A m : m \in {n \in j + 1 .. Len(log') : Counted(n)'}
                 <=> m \in {n \in j + 1 .. Len(log) : Counted(n)}
    BY <1>1, <1>2
  <2>2. \A m \in {n \in j + 1 .. Len(log) : Counted(n)} : IdOf(m)' = IdOf(m)
    BY <1>1
  <2>3. IdOf(j)' = IdOf(j) OBVIOUS
  <2>4. QED BY <2>1, <2>2, <2>3 DEF After
<1>4. SUFFICES ASSUME deduplicates PROVE WindowInv'
  BY DEF WindowInv
<1>5. ASSUME NEW p \in 1 .. Len(seen)
      PROVE  \E j \in 1 .. Len(log') :
               /\ Counted(j)' /\ IdOf(j)' = seen[p]
               /\ \A m \in j + 1 .. Len(log') : Counted(m)' => IdOf(m)' # seen[p]
               /\ After(j)' = Onward(seen, p + 1)
  <2>1. PICK j \in 1 .. Len(log) :
          /\ Counted(j) /\ IdOf(j) = seen[p]
          /\ \A m \in j + 1 .. Len(log) : Counted(m) => IdOf(m) # seen[p]
          /\ After(j) = Onward(seen, p + 1)
    BY <1>4 DEF WindowInv
  <2>2. j \in 1 .. Len(log') /\ Counted(j)' /\ IdOf(j)' = seen[p] BY <1>1, <2>1
  <2>3. \A m \in j + 1 .. Len(log') : Counted(m)' => IdOf(m)' # seen[p]
    BY <1>1, <1>2, <2>1
  <2>4. After(j)' = Onward(seen, p + 1) BY <1>3, <2>1
  <2>5. QED BY <2>2, <2>3, <2>4
<1>6. ASSUME NEW j \in 1 .. Len(log'), Counted(j)'
      PROVE  \/ \E p \in 1 .. Len(seen) : seen[p] = IdOf(j)'
             \/ Cardinality(After(j)') >= MaxSize
  <2>1. j \in 1 .. Len(log) BY <1>2, <1>6
  <2>2. Counted(j) /\ IdOf(j)' = IdOf(j) BY <1>6, <2>1
  <2>3. QED BY <1>3, <1>4, <2>1, <2>2 DEF WindowInv
<1>7. QED BY <1>5, <1>6 DEF WindowInv

SameHistory ==
  \A i \in 1 .. Len(log) : (Counted(i)' <=> Counted(i)) /\ IdOf(i)' = IdOf(i)
OneMore(k) ==
  /\ SameHistory /\ Len(log') = Len(log) + 1
  /\ \E last \in Nat : last = Len(log) + 1 /\ Counted(last)' /\ IdOf(last)' = k

(* A step that adds an event that counts makes its id the newest.          *)
LEMMA WindowInvMoves ==
  ASSUME TypeInv, SeenInv, WindowInv, deduplicates' = deduplicates,
         NEW k, KeyIsNewest(seen, seen', k), seen' \in KeyLists, OneMore(k)
  PROVE  WindowInv'
<1>1. Len(log) \in Nat BY EntriesOfLog
<1>2. PICK last \in Nat : last = Len(log) + 1 /\ Counted(last)' /\ IdOf(last)' = k
  BY DEF OneMore
<1> USE DEF OneMore, SameHistory
<1>3. /\ last \in 1 .. Len(log') /\ Len(log') = last
      /\ \A i \in 1 .. Len(log') : i # last => i \in 1 .. Len(log)
  BY <1>1, <1>2
<1>4. Len(seen') \in Nat \ {0} /\ Distinct(seen') /\ seen'[Len(seen')] = k
  BY BridgeAssumption DEF KeyIsNewest
<1>5. \A i \in 1 .. Len(log) : (Counted(i)' <=> Counted(i)) /\ IdOf(i)' = IdOf(i)
  OBVIOUS
<1> HIDE DEF OneMore, SameHistory
<1>6. ASSUME NEW j \in 1 .. Len(log)
      PROVE  /\ After(j)' = After(j) \cup ({k} \ {IdOf(j)})
             /\ IsFiniteSet(After(j)') /\ After(j) \subseteq After(j)'
  <2>1. {n \in j + 1 .. Len(log') : Counted(n)'}
          = {n \in j + 1 .. Len(log) : Counted(n)} \cup {last}
    BY <1>1, <1>2, <1>3, <1>5
  <2>2. \A m \in {n \in j + 1 .. Len(log) : Counted(n)} : IdOf(m)' = IdOf(m)
    BY <1>1, <1>5
  <2>3. IdOf(j)' = IdOf(j) BY <1>5
  <2>4. After(j)' = After(j) \cup ({k} \ {IdOf(j)})
    BY <1>2, <2>1, <2>2, <2>3 DEF After
  <2>5. IsFiniteSet(After(j)) /\ IsFiniteSet(After(j) \cup {k})
    BY AfterIsFinite, FS_AddElement
  <2>6. After(j)' = After(j) \/ After(j)' = After(j) \cup {k} BY <2>4
  <2>7. QED BY <2>4, <2>5, <2>6
<1>7. SUFFICES ASSUME deduplicates PROVE WindowInv'
  BY DEF WindowInv
<1>8. ASSUME NEW p \in 1 .. Len(seen')
      PROVE  \E j \in 1 .. Len(log') :
               /\ Counted(j)' /\ IdOf(j)' = seen'[p]
               /\ \A m \in j + 1 .. Len(log') : Counted(m)' => IdOf(m)' # seen'[p]
               /\ After(j)' = Onward(seen', p + 1)
  <2>1. CASE p = Len(seen')
    <3>1. Counted(last)' /\ IdOf(last)' = seen'[p] BY <1>4, <1>2, <2>1
    <3>2. last + 1 .. Len(log') = {} BY <1>3
    <3>3. After(last)' = {} BY <3>2 DEF After
    <3>4. Onward(seen', p + 1) = {} BY <1>4, <2>1 DEF Onward
    <3>5. QED BY <1>3, <3>1, <3>2, <3>3, <3>4
  <2>2. CASE p # Len(seen')
    <3>1. p \in 1 .. Len(seen') - 1 BY <1>4, <2>2
    <3>2. PICK r \in 1 .. Len(seen) :
            /\ seen'[p] = seen[r] /\ seen[r] # k
            /\ Onward(seen', p + 1) = Onward(seen, r + 1) \cup {k}
      BY <3>1 DEF KeyIsNewest
    <3>3. PICK j \in 1 .. Len(log) :
            /\ Counted(j) /\ IdOf(j) = seen[r]
            /\ \A m \in j + 1 .. Len(log) : Counted(m) => IdOf(m) # seen[r]
            /\ After(j) = Onward(seen, r + 1)
      BY <1>7 DEF WindowInv
    <3>4. j \in 1 .. Len(log') /\ Counted(j)' /\ IdOf(j)' = seen'[p]
      BY <1>1, <1>2, <1>3, <1>5, <3>2, <3>3
    <3>5. \A m \in j + 1 .. Len(log') : Counted(m)' => IdOf(m)' # seen'[p]
      <4>1. ASSUME NEW m \in j + 1 .. Len(log'), Counted(m)' PROVE IdOf(m)' # seen'[p]
        <5>1. CASE m = last BY <1>2, <3>2, <5>1
        <5>2. CASE m # last
          <6>1. m \in j + 1 .. Len(log) /\ m \in 1 .. Len(log) BY <1>1, <1>2, <1>3, <5>2
          <6>2. QED BY <1>5, <3>2, <3>3, <4>1, <6>1
        <5>3. QED BY <5>1, <5>2
      <4>2. QED BY <4>1
    <3>6. After(j)' = Onward(seen', p + 1) BY <1>6, <3>2, <3>3
    <3>7. QED BY <3>4, <3>5, <3>6
  <2>3. QED BY <2>1, <2>2
<1>9. ASSUME NEW j \in 1 .. Len(log'), Counted(j)'
      PROVE  \/ \E p \in 1 .. Len(seen') : seen'[p] = IdOf(j)'
             \/ Cardinality(After(j)') >= MaxSize
  <2>1. \E p \in 1 .. Len(seen') : seen'[p] = k BY <1>4
  <2>2. CASE j = last BY <1>2, <2>1, <2>2
  <2>3. CASE j # last
    <3>1. j \in 1 .. Len(log) /\ Counted(j) /\ IdOf(j)' = IdOf(j) 
      BY <1>3, <1>9, <1>5, <2>3
    <3>2. IsFiniteSet(After(j)') /\ Cardinality(After(j)') \in Nat
      BY <1>6, <3>1, FS_CardinalityType
    <3>3. CASE Cardinality(After(j)) >= MaxSize
      <4>1. Cardinality(After(j)) <= Cardinality(After(j)') /\ Cardinality(After(j)) \in Nat
        BY <1>6, <3>1, <3>2, FS_Subset, AfterIsFinite
      <4>2. QED BY <3>2, <3>3, <4>1, BridgeAssumption
    <3>4. CASE \E r \in 1 .. Len(seen) : seen[r] = IdOf(j)
      <4>1. PICK r \in 1 .. Len(seen) : seen[r] = IdOf(j) BY <3>4
      <4>2. CASE \E p \in 1 .. Len(seen') : seen'[p] = seen[r] BY <3>1, <4>1, <4>2
      <4>3. CASE ~\E p \in 1 .. Len(seen') : seen'[p] = seen[r]
        <5>1. /\ r = 1 /\ Len(seen') = MaxSize
              /\ Onward(seen', 1) = Onward(seen, 2) \cup {k}
          BY <4>3 DEF KeyIsNewest
        <5>2. seen[1] # k BY <2>1, <4>3, <5>1
        <5>3. PICK i \in 1 .. Len(log) :
                /\ Counted(i) /\ IdOf(i) = seen[1]
                /\ \A m \in i + 1 .. Len(log) : Counted(m) => IdOf(m) # seen[1]
                /\ After(i) = Onward(seen, 1 + 1)
          BY <1>7, <5>1 DEF WindowInv
        <5>4. j <= i BY <1>1, <3>1, <4>1, <5>1, <5>3
        <5>5. After(i) \subseteq After(j)
          <6>1. \A n \in i + 1 .. Len(log) : n \in j + 1 .. Len(log) BY <1>1, <5>4
          <6>2. IdOf(i) = IdOf(j) BY <4>1, <5>1, <5>3
          <6>3. QED BY <6>1, <6>2 DEF After
        <5>6. Onward(seen', 1) \subseteq After(j)'
          BY <1>6, <3>1, <4>1, <5>1, <5>2, <5>3, <5>5
        <5>7. Cardinality(Onward(seen', 1)) = MaxSize
          <6>1. 1 \in 1 .. Len(seen') + 1 BY <1>4
          <6>2. Cardinality(Onward(seen', 1)) = Len(seen') + 1 - 1
            BY <1>4, <6>1, OnwardIsFinite DEF KeyLists
          <6>3. QED BY <1>4, <5>1, <6>2
        <5>8. Cardinality(Onward(seen', 1)) <= Cardinality(After(j)')
          BY <3>2, <5>6, FS_Subset
        <5>9. QED BY <3>2, <5>7, <5>8, BridgeAssumption
      <4>4. QED BY <4>2, <4>3
    <3>5. QED BY <1>7, <3>1, <3>3, <3>4 DEF WindowInv
  <2>4. QED BY <2>2, <2>3
<1>10. QED BY <1>8, <1>9 DEF WindowInv

(* What a call of process_event() does to the ids that are kept.           *)
LEMMA SeenMoves ==
  ASSUME TypeInv, SeenInv, NEW e \in Events, ProcessEvent(e)
  PROVE  /\ deduplicates' = deduplicates
         /\ IF deduplicates /\ e.mapping /\ Key(e) # ""
              THEN seen' \in KeyLists /\ KeyIsNewest(seen, seen', Key(e))
              ELSE seen' = seen
         /\ Suppress(e) <=> deduplicates /\ e.mapping /\ Key(e) # "" /\ Within(seen, e)
<1>1. /\ ~e.mapping => CannotRead(e)
      /\ e.mapping => IF Suppressed(e) THEN Suppress(e) ELSE Accepted(e)
  BY DEF ProcessEvent, CannotRead, Suppress, CannotRender, NoRule, BeginSending, Accepted
<1>2. deduplicates' = deduplicates
  BY DEF ProcessEvent, CannotRead, Suppress, CannotRender, NoRule, BeginSending, Called
<1>3. Suppress(e) <=> deduplicates /\ e.mapping /\ Key(e) # "" /\ Within(seen, e)
  BY <1>1 DEF Suppress, Suppressed
<1>4. seen \in Seq(Keys \ {""}) /\ Len(seen) <= MaxSize /\ Distinct(seen)
  BY DEF SeenInv, KeyLists
<1>5. Key(e) # "" => Key(e) \in Keys \ {""} BY DEF Keys
<1>6. CASE ~e.mapping
  <2>1. seen' = seen BY <1>1, <1>6 DEF CannotRead
  <2>2. QED BY <1>2, <1>3, <1>6, <2>1
<1>7. CASE e.mapping /\ Suppressed(e)
  <2>1. seen' = Touched(seen, Key(e)) /\ deduplicates /\ Key(e) # ""
    BY <1>1, <1>7 DEF Suppress, Suppressed
  <2>2. \E i \in 1 .. Len(seen) : seen[i] = Key(e) BY <1>7 DEF Suppressed, Within
  <2>3. Touched(seen, Key(e)) \in KeyLists /\ KeyIsNewest(seen, Touched(seen, Key(e)), Key(e))
    BY <1>4, <2>2, TouchedIsNewest DEF KeyLists
  <2>4. QED BY <1>2, <1>3, <1>7, <2>1, <2>3
<1>8. CASE e.mapping /\ ~Suppressed(e)
  <2>1. seen' = SeenAfter(e) BY <1>1, <1>8 DEF Accepted
  <2>2. CASE deduplicates /\ Key(e) # ""
    <3>1. \A i \in 1 .. Len(seen) : seen[i] # Key(e) BY <1>8, <2>2 DEF Suppressed, Within
    <3>2. seen' = Remembered(seen, Key(e)) BY <2>1, <2>2 DEF SeenAfter
    <3>3. /\ Remembered(seen, Key(e)) \in KeyLists
          /\ KeyIsNewest(seen, Remembered(seen, Key(e)), Key(e))
      BY <1>4, <1>5, <2>2, <3>1, RememberedIsNewest DEF KeyLists
    <3>4. seen' \in KeyLists /\ KeyIsNewest(seen, seen', Key(e)) BY <3>2, <3>3
    <3>5. QED BY <1>2, <1>3, <2>2, <1>8, <3>4
  <2>3. CASE ~(deduplicates /\ Key(e) # "")
    <3>1. seen' = seen BY <2>1, <2>3 DEF SeenAfter
    <3>2. QED BY <1>2, <1>3, <2>3, <3>1
  <2>4. QED BY <2>2, <2>3
<1>9. QED BY <1>6, <1>7, <1>8

LEMMA SeenInvStep == TypeInv /\ SendingInv /\ SeenInv /\ [Next]_vars => SeenInv'
<1> SUFFICES ASSUME TypeInv, SendingInv, SeenInv, [Next]_vars PROVE SeenInv'
  OBVIOUS
<1>1. CASE seen' = seen BY <1>1 DEF SeenInv, Distinct
<1>2. CASE \E e \in Events : ProcessEvent(e)
  <2>1. PICK e \in Events : ProcessEvent(e) BY <1>2
  <2>2. CASE seen' \in KeyLists /\ KeyIsNewest(seen, seen', Key(e))
    <3>1. Len(seen') \in 1 .. MaxSize /\ Distinct(seen') BY <2>2 DEF KeyIsNewest
    <3>2. QED BY <2>2, <3>1, BridgeAssumption DEF SeenInv
  <2>3. QED BY <1>1, <2>1, <2>2, SeenMoves
<1>3. CASE SendNext \/ SendFails \/ CancelledWhileSending
  BY <1>1, <1>3 DEF SendNext, SendFails, CancelledWhileSending
<1>4. QED BY <1>1, <1>2, <1>3, StepKinds

(* What a call of process_event() adds to the history.                     *)
LEMMA HistoryGrows ==
  ASSUME TypeInv, NEW e \in Events, ProcessEvent(e)
  PROVE  /\ Len(log') = Len(log) + 1 /\ Len(log) \in Nat /\ SameHistory
         /\ \A i \in 1 .. Len(log) : log'[i] = log[i]
         /\ \A i : i = Len(log) + 1 =>
              /\ Counted(i)' <=> e.mapping /\ Key(e) # ""
              /\ IdOf(i)' = Key(e)
              /\ log'[i].how = "duplicate" <=> Suppress(e)
<1>1. PICK how \in {"unreadable", "duplicate", "unrenderable", "unmatched", "sending"},
           asked \in Nat :
        /\ Called(e, how, asked)
        /\ how = "duplicate" <=> Suppress(e)
        /\ how = "unreadable" <=> ~e.mapping
  BY EventIsProcessed
<1>2. /\ Len(log') = Len(log) + 1 /\ Len(log) \in Nat
      /\ \A i \in 1 .. Len(log) : log'[i] = log[i]
      /\ log'[Len(log) + 1] = [event |-> e, how |-> how, asked |-> asked]
  BY <1>1, CalledAddsOne DEF Hows
<1>3. SameHistory BY <1>2 DEF SameHistory, Counted, IdOf
<1>4. ASSUME NEW i, i = Len(log) + 1
      PROVE  /\ Counted(i)' <=> e.mapping /\ Key(e) # ""
             /\ IdOf(i)' = Key(e)
             /\ log'[i].how = "duplicate" <=> Suppress(e)
  <2>1. log'[i].event = e /\ log'[i].how = how BY <1>2, <1>4
  <2>2. QED BY <1>1, <2>1 DEF Counted, IdOf
<1>5. QED BY <1>2, <1>3, <1>4

(* How an event ends does not matter to the history.                       *)
LEMMA HistoryStays ==
  ASSUME TypeInv, SendingInv, SendNext \/ SendFails \/ CancelledWhileSending
  PROVE  /\ Len(log') = Len(log) /\ Len(log) \in Nat /\ SameHistory
         /\ UNCHANGED <<seen, deduplicates>>
         /\ \A i \in 1 .. Len(log) : log'[i].how = "duplicate" <=> log[i].how = "duplicate"
<1>1. UNCHANGED <<seen, deduplicates>>
  BY DEF SendNext, SendFails, CancelledWhileSending
<1>2. /\ Len(log) \in Nat \ {0} /\ Len(log') = Len(log)
      /\ \A i \in 1 .. Len(log) - 1 : log'[i] = log[i]
      /\ log'[Len(log)].event = Current.event
      /\ log'[Len(log)].how \in {"sent", "sending", "sendFailed", "cancelled"}
  <2>1. CASE SendNext BY <2>1, SendNextSends
  <2>2. CASE SendFails \/ CancelledWhileSending BY <2>2, SendingStops
  <2>3. QED BY <2>1, <2>2
<1>3. Current.how = "sending"
  BY DEF SendNext, SendFails, CancelledWhileSending, Idle, SendingInv
<1>4. ASSUME NEW i \in 1 .. Len(log)
      PROVE  /\ log'[i].event = log[i].event
             /\ log'[i].how = "unreadable" <=> log[i].how = "unreadable"
             /\ log'[i].how = "duplicate" <=> log[i].how = "duplicate"
  <2>1. CASE i = Len(log) BY <1>2, <1>3, <2>1 DEF Current
  <2>2. CASE i # Len(log)
    <3>1. log'[i] = log[i] BY <1>2, <2>2
    <3>2. QED BY <3>1
  <2>3. QED BY <2>1, <2>2
<1>5. SameHistory BY <1>4 DEF SameHistory, Counted, IdOf
<1>6. QED BY <1>1, <1>2, <1>4, <1>5

LEMMA WindowInvStep ==
  TypeInv /\ SendingInv /\ SeenInv /\ WindowInv /\ [Next]_vars => WindowInv'
<1> SUFFICES ASSUME TypeInv, SendingInv, SeenInv, WindowInv, [Next]_vars PROVE WindowInv'
  OBVIOUS
<1>1. CASE UNCHANGED <<log, pending, sent, counters, seen, deduplicates>>
  <2>1. UNCHANGED <<seen, deduplicates>> /\ Len(log') = Len(log) BY <1>1
  <2>2. \A i \in 1 .. Len(log) : (Counted(i)' <=> Counted(i)) /\ IdOf(i)' = IdOf(i)
    BY <1>1 DEF Counted, IdOf
  <2>3. Len(log') \in Nat BY <2>1, EntriesOfLog
  <2>4. QED BY <2>1, <2>2, <2>3, WindowInvKept
<1>2. CASE \E e \in Events : ProcessEvent(e)
  <2>1. PICK e \in Events : ProcessEvent(e) BY <1>2
  <2>2. /\ Len(log') = Len(log) + 1 /\ Len(log) \in Nat /\ SameHistory
        /\ \A i : i = Len(log) + 1 =>
             (Counted(i)' <=> e.mapping /\ Key(e) # "") /\ IdOf(i)' = Key(e)
    BY <2>1, HistoryGrows
  <2>3. CASE deduplicates /\ e.mapping /\ Key(e) # ""
    <3>1. /\ deduplicates' = deduplicates /\ seen' \in KeyLists
          /\ KeyIsNewest(seen, seen', Key(e))
      BY <2>1, <2>3, SeenMoves
    <3>2. OneMore(Key(e))
      <4>1. PICK last \in Nat : last = Len(log) + 1 BY EntriesOfLog
      <4>2. Counted(last)' /\ IdOf(last)' = Key(e) BY <2>2, <2>3, <4>1
      <4>3. QED BY <2>2, <4>1, <4>2 DEF OneMore
    <3>3. QED BY <3>1, <3>2, WindowInvMoves
  <2>4. CASE ~deduplicates
    BY <2>1, <2>4, SeenMoves DEF WindowInv
  <2>5. CASE ~(e.mapping /\ Key(e) # "")
    <3>1. UNCHANGED <<seen, deduplicates>> BY <2>1, <2>5, SeenMoves
    <3>2. \A i : i = Len(log) + 1 => ~Counted(i)' BY <2>2, <2>5
    <3>3. Len(log') = Len(log) + 1 BY <2>2
    <3>4. \A i \in 1 .. Len(log) : (Counted(i)' <=> Counted(i)) /\ IdOf(i)' = IdOf(i)
      BY <2>2 DEF SameHistory
    <3>5. Len(log') \in Nat BY <3>3, EntriesOfLog
    <3>6. QED BY <3>1, <3>2, <3>3, <3>4, <3>5, WindowInvKept
  <2>6. QED BY <2>3, <2>4, <2>5
<1>3. CASE SendNext \/ SendFails \/ CancelledWhileSending
  <2>1. Len(log') = Len(log) /\ Len(log) \in Nat /\ SameHistory /\ UNCHANGED <<seen, deduplicates>>
    BY <1>3, HistoryStays
  <2>2. QED BY <2>1, WindowInvKept DEF SameHistory
<1>4. QED BY <1>1, <1>2, <1>3, StepKinds

(* Whether the i-th event is suppressed is decided by the events before    *)
(* it, and stays so.                                                       *)
SuppressedExactly(i) ==
  log[i].how = "duplicate" <=>
    /\ deduplicates /\ Counted(i)
    /\ \E j \in 1 .. i - 1 :
         /\ Counted(j) /\ IdOf(j) = IdOf(i)
         /\ Cardinality(IdsBetween(j, i)) < MaxSize

LEMMA EarlierEventsStay ==
  ASSUME Len(log) \in Nat, SameHistory, deduplicates' = deduplicates,
         NEW i \in 1 .. Len(log), log'[i].how = "duplicate" <=> log[i].how = "duplicate",
         SuppressedExactly(i)
  PROVE  SuppressedExactly(i)'
<1>1. \A n \in 1 .. i : n \in 1 .. Len(log) OBVIOUS
<1>2. \A n \in 1 .. i : (Counted(n)' <=> Counted(n)) /\ IdOf(n)' = IdOf(n)
  BY <1>1 DEF SameHistory
<1>3. ASSUME NEW j \in 1 .. i - 1 PROVE IdsBetween(j, i)' = IdsBetween(j, i)
  <2>1. \A n \in j + 1 .. i - 1 : n \in 1 .. i OBVIOUS
  <2>2. {n \in j + 1 .. i - 1 : Counted(n)'} = {n \in j + 1 .. i - 1 : Counted(n)}
    BY <1>2, <2>1
  <2>3. \A m \in {n \in j + 1 .. i - 1 : Counted(n)} : IdOf(m)' = IdOf(m)
    BY <1>2, <2>1
  <2>4. IdOf(i)' = IdOf(i) BY <1>2
  <2>5. QED BY <2>2, <2>3, <2>4 DEF IdsBetween
<1>4. \A j \in 1 .. i - 1 :
        /\ (Counted(j)' <=> Counted(j)) /\ IdOf(j)' = IdOf(j)
        /\ IdsBetween(j, i)' = IdsBetween(j, i)
  BY <1>2, <1>3
<1>5. (Counted(i)' <=> Counted(i)) /\ IdOf(i)' = IdOf(i) BY <1>2
<1>6. QED BY <1>4, <1>5 DEF SuppressedExactly

(* The deduplicator suppresses an event exactly when its id was met among  *)
(* the last max_size different ids, in every sequence of events and for    *)
(* every size: the order in which it keeps the ids, and which one it       *)
(* displaces, are right.                                                   *)
THEOREM WindowIsExact == Spec => []ExactWindow
<1>1. Init => SeenInv /\ WindowInv /\ ExactWindow
  <2> SUFFICES ASSUME Init PROVE SeenInv /\ WindowInv /\ ExactWindow
    OBVIOUS
  <2>1. seen = <<>> /\ log = <<>> BY DEF Init
  <2>2. Len(seen) = 0 /\ Len(log) = 0 /\ \A S : <<>> \in Seq(S) BY <2>1
  <2>3. SeenInv BY <2>1, <2>2, BridgeAssumption DEF SeenInv, KeyLists, Distinct
  <2>4. QED BY <2>2, <2>3 DEF WindowInv, ExactWindow
<1>2. TypeInv /\ SendingInv /\ SeenInv /\ WindowInv /\ ExactWindow /\ [Next]_vars
      => ExactWindow'
  <2> SUFFICES ASSUME TypeInv, SendingInv, SeenInv, WindowInv, ExactWindow, [Next]_vars
               PROVE  ExactWindow'
    OBVIOUS
  <2>1. \A i \in 1 .. Len(log) : SuppressedExactly(i)
    BY DEF ExactWindow, SuppressedExactly
  <2>2. SUFFICES \A i \in 1 .. Len(log') : SuppressedExactly(i)'
    BY DEF ExactWindow, SuppressedExactly
  <2>3. Len(log) \in Nat BY EntriesOfLog
  <2>4. CASE UNCHANGED <<log, pending, sent, counters, seen, deduplicates>>
    <3>1. SameHistory BY <2>4 DEF SameHistory, Counted, IdOf
    <3>2. /\ log' = log /\ deduplicates' = deduplicates
          /\ \A i \in 1 .. Len(log) : log'[i].how = "duplicate" <=> log[i].how = "duplicate"
      BY <2>4
    <3>3. \A i \in 1 .. Len(log) : SuppressedExactly(i)'
      BY <2>1, <2>3, <3>1, <3>2, EarlierEventsStay
    <3>4. QED BY <3>2, <3>3
  <2>5. CASE SendNext \/ SendFails \/ CancelledWhileSending
    <3>1. /\ Len(log') = Len(log) /\ SameHistory /\ deduplicates' = deduplicates
          /\ \A i \in 1 .. Len(log) : log'[i].how = "duplicate" <=> log[i].how = "duplicate"
      BY <2>5, HistoryStays
    <3>2. QED BY <2>1, <2>3, <3>1, EarlierEventsStay
  <2>6. CASE \E e \in Events : ProcessEvent(e)
    <3>1. PICK e \in Events : ProcessEvent(e) BY <2>6
    <3>2. /\ Len(log') = Len(log) + 1 /\ SameHistory
          /\ \A i \in 1 .. Len(log) : log'[i] = log[i]
      BY <3>1, HistoryGrows
    <3>3. /\ deduplicates' = deduplicates
          /\ Suppress(e) <=> deduplicates /\ e.mapping /\ Key(e) # "" /\ Within(seen, e)
      BY <3>1, SeenMoves
    <3>4. \A i \in 1 .. Len(log) : SuppressedExactly(i)'
      BY <2>1, <2>3, <3>2, <3>3, EarlierEventsStay
    <3>5. PICK last \in Nat : last = Len(log) + 1 BY <2>3
    <3>6. /\ Counted(last)' <=> e.mapping /\ Key(e) # ""
          /\ IdOf(last)' = Key(e)
          /\ log'[last].how = "duplicate" <=> Suppress(e)
      BY <3>1, <3>5, HistoryGrows
    <3>7. ASSUME NEW j \in 1 .. last - 1
          PROVE  /\ j \in 1 .. Len(log) /\ (Counted(j)' <=> Counted(j)) /\ IdOf(j)' = IdOf(j)
                 /\ IdOf(j) = Key(e) => IdsBetween(j, last)' = After(j)
      <4>1. j \in 1 .. Len(log) /\ j + 1 .. last - 1 = j + 1 .. Len(log) BY <2>3, <3>5
      <4>2. \A n \in 1 .. Len(log) : (Counted(n)' <=> Counted(n)) /\ IdOf(n)' = IdOf(n)
        BY <3>2 DEF SameHistory
      <4>3. \A n \in j + 1 .. Len(log) : n \in 1 .. Len(log) BY <2>3, <4>1
      <4>4. {n \in j + 1 .. last - 1 : Counted(n)'} = {n \in j + 1 .. Len(log) : Counted(n)}
        BY <4>1, <4>2, <4>3
      <4>5. \A m \in {n \in j + 1 .. Len(log) : Counted(n)} : IdOf(m)' = IdOf(m)
        BY <4>2, <4>3
      <4>6. IdOf(j) = Key(e) => IdsBetween(j, last)' = After(j)
        BY <3>6, <4>4, <4>5 DEF IdsBetween, After
      <4>7. QED BY <4>1, <4>2, <4>6
    <3>8. ASSUME deduplicates, Within(seen, e)
          PROVE  \E j \in 1 .. last - 1 : /\ Counted(j)' /\ IdOf(j)' = Key(e)
                                          /\ Cardinality(IdsBetween(j, last)') < MaxSize
      <4>1. PICK p \in 1 .. Len(seen) : seen[p] = Key(e) BY <3>8 DEF Within
      <4>2. PICK j \in 1 .. Len(log) :
              Counted(j) /\ IdOf(j) = seen[p] /\ After(j) = Onward(seen, p + 1)
        BY <3>8 DEF WindowInv
      <4>3. j \in 1 .. last - 1 BY <2>3, <3>5
      <4>4. IdsBetween(j, last)' = Onward(seen, p + 1) /\ Counted(j)' /\ IdOf(j)' = Key(e)
        BY <3>7, <4>1, <4>2, <4>3
      <4>5. Cardinality(Onward(seen, p + 1)) < MaxSize
        <5>1. seen \in Seq(Keys \ {""}) BY DEF SeenInv, KeyLists
        <5>2. Len(seen) \in Nat BY <5>1, LenProperties
        <5>3. p + 1 \in 1 .. Len(seen) + 1 BY <5>2
        <5>4. /\ Cardinality(Onward(seen, p + 1)) \in Nat
              /\ Cardinality(Onward(seen, p + 1)) <= Len(seen) + 1 - (p + 1)
          BY <5>1, <5>3, OnwardIsFinite
        <5>5. Len(seen) <= MaxSize BY DEF SeenInv
        <5>6. QED BY <5>2, <5>4, <5>5, BridgeAssumption
      <4>6. QED BY <4>3, <4>4, <4>5
    <3>9. ASSUME deduplicates,
                 \E j \in 1 .. last - 1 : /\ Counted(j)' /\ IdOf(j)' = Key(e)
                                          /\ Cardinality(IdsBetween(j, last)') < MaxSize
          PROVE  Within(seen, e)
      <4>1. PICK j \in 1 .. last - 1 : /\ Counted(j)' /\ IdOf(j)' = Key(e)
                                       /\ Cardinality(IdsBetween(j, last)') < MaxSize
        BY <3>9
      <4>2. j \in 1 .. Len(log) /\ Counted(j) /\ IdOf(j) = Key(e)
        BY <3>7, <4>1
      <4>3. Cardinality(After(j)) < MaxSize BY <3>7, <4>1, <4>2
      <4>4. Cardinality(After(j)) \in Nat BY <4>2, AfterIsFinite
      <4>5. \E p \in 1 .. Len(seen) : seen[p] = IdOf(j)
        BY <3>9, <4>2, <4>3, <4>4, BridgeAssumption DEF WindowInv
      <4>6. QED BY <4>2, <4>5 DEF Within
    <3>10. SuppressedExactly(last)'
      BY <3>3, <3>6, <3>8, <3>9 DEF SuppressedExactly
    <3>11. ASSUME NEW i \in 1 .. Len(log') PROVE i \in 1 .. Len(log) \/ i = last
      BY <2>3, <3>2, <3>5
    <3>12. QED BY <3>4, <3>10, <3>11
  <2>7. QED BY <2>4, <2>5, <2>6, StepKinds
<1>3. QED BY <1>1, <1>2, SeenInvStep, WindowInvStep, InvHolds, PTL DEF Spec

(* Every variable keeps its type; the deduplicator never holds more than   *)
(* max_size ids, nor one of them twice, nor the empty one, and messages    *)
(* are left to be sent only of the newest event.                           *)
THEOREM TypeCorrect == Spec => []TypeOK
<1>1. Init => SeenInv
  <2> SUFFICES ASSUME Init PROVE SeenInv
    OBVIOUS
  <2>1. seen = <<>> BY DEF Init
  <2>2. Len(seen) = 0 /\ \A S : <<>> \in Seq(S) BY <2>1
  <2>3. QED BY <2>1, <2>2, BridgeAssumption DEF SeenInv, KeyLists, Distinct
<1>2. TypeInv /\ SendingInv /\ SeenInv => TypeOK
  <2> SUFFICES ASSUME TypeInv, SendingInv, SeenInv PROVE TypeOK
    OBVIOUS
  <2>1. log \in Seq([event : Events, how : Hows, asked : Nat]) BY DEF TypeInv, Entries
  <2>2. seen \in Seq(Keys \ {""}) /\ Len(seen) <= MaxSize
        /\ \A i, j \in 1 .. Len(seen) : seen[i] = seen[j] => i = j
    BY DEF SeenInv, KeyLists, Distinct
  <2>3. deduplicates \in BOOLEAN /\ engine.loaded \in BOOLEAN /\ socket \in BOOLEAN
    BY DEF TypeInv
  <2>4. QED BY <2>1, <2>2, <2>3 DEF TypeOK, TypeInv, SendingInv
<1>3. QED BY <1>1, <1>2, SeenInvStep, InvHolds, PTL DEF Spec
=============================================================================
