--------------------------- MODULE ConnectorProofs ---------------------------
(***************************************************************************)
(* Proofs about Connector, for every set of connectors, every queue size   *)
(* and any number of events, attempts and starts.  The control of the      *)
(* connectors lies in the callbacks that the event loop has still to run,  *)
(* so the invariants count them: N(w) is how many callbacks of kind w are  *)
(* ready, P(w) how many emitters of that kind wait for room.               *)
(***************************************************************************)
EXTENDS Connector, DataLemmas

Kind(w) == {c \in Callbacks : c.who = w}
N(w) == CountIn(ready, Kind(w))
P(w) == CountIn(putters, Kind(w))

Elements(s) == {s[i] : i \in 1 .. Len(s)}
Announced(s) == {c \in Elements(s) : c.who = "done"}

(* No task's end is announced behind the next task's step in the FIFO.     *)
EndsBeforeRunners(s) ==
  \A i, j \in 1 .. Len(s) : i < j /\ s[i].who = "runner" => s[j].who # "done"

-----------------------------------------------------------------------------
(* Callbacks *)

LEMMA CallbackKinds ==
  /\ Runner.who = "runner" /\ Reader.who = "reader"
  /\ Starter.who = "start" /\ Stopper.who = "stop"
  /\ \A c \in Handlers : c.who = "handler"
  /\ \A c \in Callbacks : /\ c.who = "runner" <=> c = Runner
                          /\ c.who = "reader" <=> c = Reader
                          /\ c.who = "start" <=> c = Starter
                          /\ c.who = "stop" <=> c = Stopper
                          /\ c.who = "handler" => c \in Handlers
  /\ {Runner, Reader, Starter, Stopper} \cup Handlers \subseteq Callbacks
BY DEF Runner, Reader, Starter, Stopper, Callback, Handlers, Callbacks

LEMMA OneIsNat == \A b : One(b) \in {0, 1} /\ (b => One(b) = 1) /\ (~b => One(b) = 0)
BY DEF One

LEMMA ElementsConcat ==
  ASSUME NEW S, NEW s \in Seq(S), NEW t \in Seq(S)
  PROVE  Elements(s \o t) = Elements(s) \cup Elements(t)
<1>1. /\ Len(s) \in Nat /\ Len(t) \in Nat /\ Len(s \o t) = Len(s) + Len(t)
      /\ \A i \in 1 .. Len(s) + Len(t) :
           (s \o t)[i] = IF i <= Len(s) THEN s[i] ELSE t[i - Len(s)]
  BY ConcatProperties
<1>2. ASSUME NEW c \in Elements(s \o t) PROVE c \in Elements(s) \cup Elements(t)
  <2>1. PICK i \in 1 .. Len(s) + Len(t) : c = (s \o t)[i] BY <1>1 DEF Elements
  <2>2. CASE i <= Len(s) BY <1>1, <2>1, <2>2 DEF Elements
  <2>3. CASE i > Len(s)
    <3>1. i - Len(s) \in 1 .. Len(t) BY <1>1, <2>3
    <3>2. QED BY <1>1, <2>1, <2>3, <3>1 DEF Elements
  <2>4. QED BY <1>1, <2>2, <2>3
<1>3. ASSUME NEW i \in 1 .. Len(s) PROVE s[i] \in Elements(s \o t)
  <2>1. i \in 1 .. Len(s) + Len(t) BY <1>1
  <2>2. (s \o t)[i] = s[i] BY <1>1, <2>1
  <2>3. QED BY <1>1, <2>1, <2>2 DEF Elements
<1>4. ASSUME NEW i \in 1 .. Len(t) PROVE t[i] \in Elements(s \o t)
  <2>1. Len(s) + i \in 1 .. Len(s) + Len(t) /\ ~(Len(s) + i <= Len(s)) BY <1>1
  <2>2. (s \o t)[Len(s) + i] = t[(Len(s) + i) - Len(s)] BY <1>1, <2>1
  <2>3. (Len(s) + i) - Len(s) = i BY <1>1
  <2>4. QED BY <1>1, <2>1, <2>2, <2>3 DEF Elements
<1>5. QED BY <1>2, <1>3, <1>4 DEF Elements

LEMMA ElementsTail ==
  ASSUME NEW S, NEW s \in Seq(S), s # <<>>
  PROVE  Elements(s) = Elements(Tail(s)) \cup {Head(s)}
<1>1. Tail(s) \in Seq(S) /\ <<Head(s)>> \in Seq(S) /\ s = <<Head(s)>> \o Tail(s)
  OBVIOUS
<1>2. Elements(<<Head(s)>> \o Tail(s)) = Elements(<<Head(s)>>) \cup Elements(Tail(s))
  BY <1>1, ElementsConcat
<1>3. Elements(<<Head(s)>>) = {Head(s)}
  <2>1. Len(<<Head(s)>>) = 1 /\ <<Head(s)>>[1] = Head(s) OBVIOUS
  <2>2. QED BY <2>1 DEF Elements
<1>4. QED BY <1>1, <1>2, <1>3

LEMMA OrderConcat ==
  ASSUME NEW S, NEW s \in Seq(S), NEW t \in Seq(S), EndsBeforeRunners(s),
         Announced(t) = {}
  PROVE  EndsBeforeRunners(s \o t)
<1>1. /\ Len(s) \in Nat /\ Len(t) \in Nat /\ Len(s \o t) = Len(s) + Len(t)
      /\ \A i \in 1 .. Len(s) + Len(t) :
           (s \o t)[i] = IF i <= Len(s) THEN s[i] ELSE t[i - Len(s)]
  BY ConcatProperties
<1>2. ASSUME NEW i \in 1 .. Len(s) + Len(t), NEW j \in 1 .. Len(s) + Len(t),
             i < j, (s \o t)[i].who = "runner", (s \o t)[j].who = "done"
      PROVE  FALSE
  <2>1. CASE j <= Len(s)
    <3>1. i \in 1 .. Len(s) /\ j \in 1 .. Len(s) BY <1>1, <1>2, <2>1
    <3>2. s[i].who = "runner" /\ s[j].who = "done" BY <1>1, <1>2, <3>1
    <3>3. QED BY <1>2, <3>1, <3>2 DEF EndsBeforeRunners
  <2>2. CASE j > Len(s)
    <3>1. j - Len(s) \in 1 .. Len(t) BY <1>1, <2>2
    <3>2. (s \o t)[j] = t[j - Len(s)] BY <1>1, <2>2
    <3>3. QED BY <1>2, <3>1, <3>2 DEF Announced, Elements
  <2>3. QED BY <1>1, <2>1, <2>2
<1>3. QED BY <1>1, <1>2 DEF EndsBeforeRunners

(* In front, anything but the task may be added.                           *)
LEMMA OrderCons ==
  ASSUME NEW S, NEW s \in Seq(S), NEW c \in S, EndsBeforeRunners(s), c.who # "runner"
  PROVE  EndsBeforeRunners(<<c>> \o s)
<1>1. /\ Len(<<c>>) = 1 /\ <<c>>[1] = c /\ <<c>> \in Seq(S) OBVIOUS
<1>2. /\ Len(s) \in Nat /\ Len(<<c>> \o s) = 1 + Len(s)
      /\ \A i \in 1 .. 1 + Len(s) : (<<c>> \o s)[i] = IF i <= 1 THEN <<c>>[i] ELSE s[i - 1]
  BY <1>1, ConcatProperties
<1>3. ASSUME NEW i \in 1 .. 1 + Len(s), NEW j \in 1 .. 1 + Len(s), i < j,
             (<<c>> \o s)[i].who = "runner", (<<c>> \o s)[j].who = "done"
      PROVE  FALSE
  <2>1. CASE i <= 1
    <3>1. i = 1 BY <1>2, <2>1
    <3>2. (<<c>> \o s)[i] = c BY <1>1, <1>2, <3>1
    <3>3. QED BY <1>3, <3>2
  <2>2. CASE i > 1
    <3>1. i - 1 \in 1 .. Len(s) /\ j - 1 \in 1 .. Len(s) /\ i - 1 < j - 1
      BY <1>2, <1>3, <2>2
    <3>2. (<<c>> \o s)[i] = s[i - 1] /\ (<<c>> \o s)[j] = s[j - 1] BY <1>2, <1>3, <2>2
    <3>3. QED BY <1>3, <3>1, <3>2 DEF EndsBeforeRunners
  <2>3. QED BY <1>2, <2>1, <2>2
<1>4. QED BY <1>2, <1>3 DEF EndsBeforeRunners

LEMMA OrderTail ==
  ASSUME NEW S, NEW s \in Seq(S), s # <<>>, EndsBeforeRunners(s)
  PROVE  EndsBeforeRunners(Tail(s)) /\ (Head(s).who = "runner" => Announced(Tail(s)) = {})
<1>1. /\ Len(s) \in Nat \ {0} /\ Len(Tail(s)) = Len(s) - 1 /\ Head(s) = s[1]
      /\ \A i \in 1 .. Len(s) - 1 : Tail(s)[i] = s[i + 1]
  OBVIOUS
<1>2. EndsBeforeRunners(Tail(s))
  <2>1. ASSUME NEW i \in 1 .. Len(s) - 1, NEW j \in 1 .. Len(s) - 1,
               i < j, s[i + 1].who = "runner"
        PROVE  s[j + 1].who # "done"
    <3>1. i + 1 \in 1 .. Len(s) /\ j + 1 \in 1 .. Len(s) /\ i + 1 < j + 1 BY <1>1, <2>1
    <3>2. QED BY <2>1, <3>1 DEF EndsBeforeRunners
  <2>2. QED BY <1>1, <2>1 DEF EndsBeforeRunners
<1>3. ASSUME Head(s).who = "runner", NEW j \in 1 .. Len(s) - 1
      PROVE  Tail(s)[j].who # "done"
  <2>1. 1 \in 1 .. Len(s) /\ j + 1 \in 1 .. Len(s) /\ 1 < j + 1 BY <1>1
  <2>2. QED BY <1>1, <1>3, <2>1 DEF EndsBeforeRunners
<1>4. QED BY <1>1, <1>2, <1>3 DEF Announced, Elements

-----------------------------------------------------------------------------
(* What a step does to the callbacks that are ready *)

LEMMA NoElements == Elements(<<>>) = {} /\ Announced(<<>>) = {}
<1>1. Len(<<>>) = 0 OBVIOUS
<1>2. QED BY <1>1 DEF Elements, Announced

LEMMA CountsOfKinds ==
  ASSUME NEW s \in Seq(Callbacks), NEW w
  PROVE  /\ CountIn(s, Kind(w)) \in Nat
         /\ CountIn(s, Kind(w)) = 0 <=> \A c \in Elements(s) : c.who # w
<1>1. \A i \in 1 .. Len(s) : s[i] \in Callbacks OBVIOUS
<1>2. CountIn(s, Kind(w)) \in Nat BY CountIsNat
<1>3. CountIn(s, Kind(w)) = 0 <=> \A i \in 1 .. Len(s) : s[i] \notin Kind(w)
  BY CountPositive
<1>4. QED BY <1>1, <1>2, <1>3 DEF Kind, Elements

(* The head is run and "come" is scheduled.                                *)
Pops(come) == ready # <<>> /\ ready' = Tail(ready) \o come

LEMMA ReadyPops ==
  ASSUME TypeOK, NEW come \in Seq(Callbacks), Pops(come)
  PROVE  /\ ready' \in Seq(Callbacks)
         /\ \A w : N(w)' = (N(w) - One(Head(ready).who = w)) + CountIn(come, Kind(w))
         /\ \A w : N(w) \in Nat /\ N(w)' \in Nat
         /\ N(Head(ready).who) > 0
         /\ Announced(ready)' \subseteq Announced(ready) \cup Announced(come)
         /\ EndsBeforeRunners(ready) /\ Announced(come) = {} => EndsBeforeRunners(ready)'
<1> DEFINE rest == Tail(ready)
<1>1. /\ ready \in Seq(Callbacks) /\ ready # <<>> /\ ready' = rest \o come
      /\ rest \in Seq(Callbacks) /\ Head(ready) \in Callbacks
  BY DEF TypeOK, Pops
<1> HIDE DEF rest
<1>2. ready' \in Seq(Callbacks) BY <1>1, ConcatProperties
<1>3. ASSUME NEW w
      PROVE  /\ N(w)' = (N(w) - One(Head(ready).who = w)) + CountIn(come, Kind(w))
             /\ N(w) \in Nat /\ N(w)' \in Nat
  <2>1. CountIn(rest \o come, Kind(w)) = CountIn(rest, Kind(w)) + CountIn(come, Kind(w))
    BY <1>1, CountConcat
  <2>2. CountIn(rest, Kind(w)) = CountIn(ready, Kind(w)) - One(Head(ready) \in Kind(w))
    BY <1>1, CountTail DEF rest
  <2>3. One(Head(ready) \in Kind(w)) = One(Head(ready).who = w) BY <1>1 DEF Kind, One
  <2>4. N(w)' = CountIn(rest \o come, Kind(w)) BY <1>1 DEF N
  <2>5. N(w) \in Nat /\ N(w)' \in Nat BY <1>1, <1>2, CountsOfKinds DEF N
  <2>6. QED BY <2>1, <2>2, <2>3, <2>4, <2>5 DEF N
<1>4. N(Head(ready).who) > 0
  <2>1. Head(ready) \in Elements(ready) BY <1>1, ElementsTail
  <2>2. CountIn(ready, Kind(Head(ready).who)) # 0 BY <1>1, <2>1, CountsOfKinds
  <2>3. QED BY <1>3, <2>2 DEF N
<1>5. Elements(ready)' = Elements(rest) \cup Elements(come)
  BY <1>1, ElementsConcat
<1>6. Elements(ready) = Elements(rest) \cup {Head(ready)} BY <1>1, ElementsTail DEF rest
<1>7. Announced(ready)' \subseteq Announced(ready) \cup Announced(come)
  BY <1>5, <1>6 DEF Announced
<1>8. ASSUME EndsBeforeRunners(ready), Announced(come) = {}
      PROVE  EndsBeforeRunners(ready)'
  <2>1. EndsBeforeRunners(rest) BY <1>1, <1>8, OrderTail DEF rest
  <2>2. EndsBeforeRunners(rest \o come) BY <1>1, <1>8, <2>1, OrderConcat
  <2>3. QED BY <1>1, <2>2
<1>9. QED BY <1>2, <1>3, <1>4, <1>7, <1>8

(* A callback is scheduled from outside.                                   *)
LEMMA ReadyWakes ==
  ASSUME TypeOK, NEW c \in Callbacks, c.who # "done", ready' = Append(ready, c)
  PROVE  /\ ready' \in Seq(Callbacks)
         /\ \A w : N(w)' = N(w) + One(c.who = w)
         /\ \A w : N(w) \in Nat /\ N(w)' \in Nat
         /\ Announced(ready)' \subseteq Announced(ready)
         /\ EndsBeforeRunners(ready) => EndsBeforeRunners(ready)'
<1>1. ready \in Seq(Callbacks) /\ ready' \in Seq(Callbacks) BY DEF TypeOK
<1>2. ASSUME NEW w
      PROVE  N(w)' = N(w) + One(c.who = w) /\ N(w) \in Nat /\ N(w)' \in Nat
  <2>1. CountIn(Append(ready, c), Kind(w)) = CountIn(ready, Kind(w)) + One(c \in Kind(w))
    BY <1>1, CountAppend
  <2>2. One(c \in Kind(w)) = One(c.who = w) BY DEF Kind, One
  <2>3. N(w) \in Nat /\ N(w)' \in Nat BY <1>1, CountsOfKinds DEF N
  <2>4. QED BY <2>1, <2>2, <2>3 DEF N
<1>3. /\ Len(ready) \in Nat /\ Len(ready') = Len(ready) + 1
      /\ \A i \in 1 .. Len(ready) : ready'[i] = ready[i]
      /\ ready'[Len(ready) + 1] = c
  BY <1>1
<1>4. Announced(ready)' \subseteq Announced(ready) BY <1>3 DEF Announced, Elements
<1>5. ASSUME EndsBeforeRunners(ready) PROVE EndsBeforeRunners(ready)'
  <2>1. ASSUME NEW i \in 1 .. Len(ready'), NEW j \in 1 .. Len(ready'), i < j,
               ready'[i].who = "runner"
        PROVE  ready'[j].who # "done"
    <3>1. CASE j = Len(ready) + 1 BY <1>3, <3>1
    <3>2. CASE j \in 1 .. Len(ready)
      <4>1. i \in 1 .. Len(ready) BY <1>3, <2>1, <3>2
      <4>2. QED BY <1>3, <1>5, <2>1, <3>2, <4>1 DEF EndsBeforeRunners
    <3>3. QED BY <1>3, <3>1, <3>2
  <2>2. QED BY <2>1 DEF EndsBeforeRunners
<1>6. QED BY <1>1, <1>2, <1>4, <1>5

(* An emitter that waited is scheduled, and nothing else.                  *)
LEMMA ReadyLetsIn ==
  ASSUME TypeOK, NEW come \in Seq(Callbacks), ready' = ready \o come,
         \A c \in Elements(come) : c.who \in {"runner", "handler"}
  PROVE  /\ ready' \in Seq(Callbacks)
         /\ \A w : N(w)' = N(w) + CountIn(come, Kind(w))
         /\ \A w : N(w) \in Nat /\ N(w)' \in Nat
         /\ Announced(ready)' \subseteq Announced(ready)
         /\ EndsBeforeRunners(ready) => EndsBeforeRunners(ready)'
<1>1. ready \in Seq(Callbacks) BY DEF TypeOK
<1>2. ready' \in Seq(Callbacks) BY <1>1, ConcatProperties
<1>3. ASSUME NEW w
      PROVE  N(w)' = N(w) + CountIn(come, Kind(w)) /\ N(w) \in Nat /\ N(w)' \in Nat
  <2>1. CountIn(ready \o come, Kind(w)) = CountIn(ready, Kind(w)) + CountIn(come, Kind(w))
    BY <1>1, CountConcat
  <2>2. N(w) \in Nat /\ N(w)' \in Nat BY <1>1, <1>2, CountsOfKinds DEF N
  <2>3. QED BY <2>1, <2>2 DEF N
<1>4. Elements(ready)' = Elements(ready) \cup Elements(come) BY <1>1, ElementsConcat
<1>5. Announced(come) = {} BY DEF Announced
<1>6. Announced(ready)' \subseteq Announced(ready) BY <1>4, <1>5 DEF Announced
<1>7. EndsBeforeRunners(ready) => EndsBeforeRunners(ready)'
  BY <1>1, <1>5, OrderConcat
<1>8. QED BY <1>2, <1>3, <1>6, <1>7

LEMMA ComesConcat ==
  ASSUME NEW a \in Seq(Callbacks), NEW b \in Seq(Callbacks)
  PROVE  /\ a \o b \in Seq(Callbacks)
         /\ \A w : CountIn(a \o b, Kind(w)) = CountIn(a, Kind(w)) + CountIn(b, Kind(w))
         /\ Announced(a \o b) = Announced(a) \cup Announced(b)
<1>1. a \o b \in Seq(Callbacks) BY ConcatProperties
<1>2. \A w : CountIn(a \o b, Kind(w)) = CountIn(a, Kind(w)) + CountIn(b, Kind(w))
  BY CountConcat
<1>3. Elements(a \o b) = Elements(a) \cup Elements(b) BY ElementsConcat
<1>4. QED BY <1>1, <1>2, <1>3 DEF Announced

WokenReader == IF reader = "waiting" THEN <<Reader>> ELSE <<>>

LEMMA OneComes ==
  ASSUME NEW c \in Callbacks
  PROVE  /\ <<c>> \in Seq(Callbacks)
         /\ \A w : CountIn(<<c>>, Kind(w)) = One(c.who = w)
         /\ Elements(<<c>>) = {c}
<1>1. Len(<<c>>) = 1 /\ <<c>>[1] = c /\ <<c>> \in Seq(Callbacks) OBVIOUS
<1>2. ASSUME NEW w PROVE CountIn(<<c>>, Kind(w)) = One(c.who = w)
  <2>1. CountIn(<<c>>, Kind(w)) = One(c \in Kind(w)) BY CountOne
  <2>2. QED BY <2>1 DEF Kind, One
<1>3. QED BY <1>1, <1>2 DEF Elements

LEMMA NoneComes ==
  /\ <<>> \in Seq(Callbacks)
  /\ \A w : CountIn(<<>>, Kind(w)) = 0
  /\ Elements(<<>>) = {} /\ Announced(<<>>) = {}
<1>1. <<>> \in Seq(Callbacks) OBVIOUS
<1>2. QED BY <1>1, NoElements, CountNone

LEMMA WokenReaderComes ==
  /\ WokenReader \in Seq(Callbacks)
  /\ \A w : CountIn(WokenReader, Kind(w)) = One(w = "reader" /\ reader = "waiting")
  /\ \A c \in Elements(WokenReader) : c = Reader
  /\ Announced(WokenReader) = {}
<1>1. CASE reader = "waiting"
  <2>1. WokenReader = <<Reader>> BY <1>1 DEF WokenReader
  <2>2. Reader \in Callbacks /\ Reader.who = "reader" BY CallbackKinds
  <2>3. \A w : One("reader" = w) = One(w = "reader" /\ reader = "waiting") BY <1>1 DEF One
  <2>4. Elements(<<Reader>>) = {Reader} BY <2>2, OneComes
  <2>5. Announced(<<Reader>>) = {} BY <2>2, <2>4 DEF Announced
  <2>6. QED BY <2>1, <2>2, <2>3, <2>4, <2>5, OneComes
<1>2. CASE reader # "waiting"
  <2>1. WokenReader = <<>> BY <1>2 DEF WokenReader
  <2>2. \A w : One(w = "reader" /\ reader = "waiting") = 0 BY <1>2 DEF One
  <2>3. QED BY <2>1, <2>2, NoneComes
<1>3. QED BY <1>1, <1>2

LEMMA TaskEndsComes ==
  ASSUME TypeOK, NEW how \in {"returned", "raised", "cancelled"}
  PROVE  /\ TaskEnds(how) \in Seq(Callbacks)
         /\ \A w : CountIn(TaskEnds(how), Kind(w)) =
                     One(w = "done") + One(w = "stop" /\ owner = "awaiting")
         /\ Announced(TaskEnds(how)) = {Callback("done", HowEnded[how], run)}
<1> DEFINE end == Callback("done", HowEnded[how], run)
           waiter == IF owner = "awaiting" THEN <<Stopper>> ELSE <<>>
<1>1. end \in Callbacks /\ end.who = "done"
  BY DEF TypeOK, Callback, Callbacks, HowEnded
<1>2. Stopper \in Callbacks /\ Stopper.who = "stop" BY CallbackKinds
<1>3. TaskEnds(how) = <<end>> \o waiter BY DEF TaskEnds
<1> HIDE DEF end
<1>4. /\ waiter \in Seq(Callbacks)
      /\ \A w : CountIn(waiter, Kind(w)) = One(w = "stop" /\ owner = "awaiting")
      /\ \A c \in Elements(waiter) : c = Stopper
  <2>1. CASE owner = "awaiting"
    <3>1. waiter = <<Stopper>> BY <2>1
    <3>2. \A w : One("stop" = w) = One(w = "stop" /\ owner = "awaiting") BY <2>1 DEF One
    <3> HIDE DEF waiter
    <3>3. QED BY <1>2, <3>1, <3>2, OneComes
  <2>2. CASE owner # "awaiting"
    <3>1. waiter = <<>> BY <2>2
    <3>2. \A w : One(w = "stop" /\ owner = "awaiting") = 0 BY <2>2 DEF One
    <3> HIDE DEF waiter
    <3>3. QED BY <3>1, <3>2, NoneComes
  <2>3. QED BY <2>1, <2>2
<1> HIDE DEF waiter
<1>5. /\ <<end>> \in Seq(Callbacks) /\ Elements(<<end>>) = {end}
      /\ \A w : CountIn(<<end>>, Kind(w)) = One(end.who = w)
  BY <1>1, OneComes
<1>7. Announced(<<end>>) = {end} /\ Announced(waiter) = {}
  BY <1>1, <1>2, <1>4, <1>5 DEF Announced
<1>8. \A w : One(end.who = w) = One(w = "done") BY <1>1 DEF One
<1>9. /\ <<end>> \o waiter \in Seq(Callbacks)
      /\ \A w : CountIn(<<end>> \o waiter, Kind(w)) =
                  CountIn(<<end>>, Kind(w)) + CountIn(waiter, Kind(w))
      /\ Announced(<<end>> \o waiter) = Announced(<<end>>) \cup Announced(waiter)
  BY <1>4, <1>5, ComesConcat
<1>10. Announced(TaskEnds(how)) = {end} BY <1>3, <1>7, <1>9
<1>11. \A w : CountIn(TaskEnds(how), Kind(w)) =
                One(w = "done") + One(w = "stop" /\ owner = "awaiting")
  <2>1. SUFFICES ASSUME NEW w
                 PROVE  CountIn(TaskEnds(how), Kind(w)) =
                          One(w = "done") + One(w = "stop" /\ owner = "awaiting")
    OBVIOUS
  <2>2. /\ CountIn(<<end>>, Kind(w)) = One(w = "done")
        /\ CountIn(waiter, Kind(w)) = One(w = "stop" /\ owner = "awaiting")
    BY <1>4, <1>5, <1>8
  <2>3. CountIn(<<end>> \o waiter, Kind(w)) = CountIn(<<end>>, Kind(w)) + CountIn(waiter, Kind(w))
    BY <1>9
  <2>4. QED BY <1>3, <2>2, <2>3
<1>12. TaskEnds(how) \in Seq(Callbacks) BY <1>3, <1>9
<1>13. QED BY <1>10, <1>11, <1>12 DEF end

(* The first emitter that waits is let in.                                 *)
LEMMA FirstPutterComes ==
  ASSUME TypeOK
  PROVE  /\ FirstPutter \in Seq(Callbacks)
         /\ OtherPutters \in Seq(Handlers \cup {Runner})
         /\ \A w : CountIn(FirstPutter, Kind(w)) + CountIn(OtherPutters, Kind(w)) = P(w)
         /\ \A w : /\ CountIn(FirstPutter, Kind(w)) \in Nat
                   /\ CountIn(OtherPutters, Kind(w)) \in Nat /\ P(w) \in Nat
         /\ \A c \in Elements(FirstPutter) : c.who \in {"runner", "handler"}
         /\ Announced(FirstPutter) = {}
         /\ \A w : w \notin {"runner", "handler"} => CountIn(FirstPutter, Kind(w)) = 0
<1> DEFINE E == Handlers \cup {Runner}
<1>1. putters \in Seq(E) BY DEF TypeOK
<1>2. E \subseteq Callbacks /\ \A c \in E : c.who \in {"runner", "handler"} BY CallbackKinds
<1> HIDE DEF E
<1>3. putters \in Seq(Callbacks) BY <1>1, <1>2, SeqMonotone
<1>4. FirstPutter \in Seq(E) /\ OtherPutters \in Seq(E)
  <2>1. CASE putters = <<>> BY <2>1 DEF FirstPutter, OtherPutters
  <2>2. CASE putters # <<>> BY <1>1, <2>2 DEF FirstPutter, OtherPutters
  <2>3. QED BY <2>1, <2>2
<1>5. FirstPutter \in Seq(Callbacks) /\ OtherPutters \in Seq(Callbacks)
  BY <1>2, <1>4, SeqMonotone
<1>6. FirstPutter \o OtherPutters = putters
  <2>1. CASE putters = <<>> BY <2>1 DEF FirstPutter, OtherPutters
  <2>2. CASE putters # <<>> BY <1>1, <2>2 DEF FirstPutter, OtherPutters
  <2>3. QED BY <2>1, <2>2
<1>7. \A c \in Elements(FirstPutter) : c \in E BY <1>4 DEF Elements
<1>8. \A w : CountIn(FirstPutter \o OtherPutters, Kind(w)) =
               CountIn(FirstPutter, Kind(w)) + CountIn(OtherPutters, Kind(w))
  BY <1>5, CountConcat
<1>9. \A w : /\ CountIn(FirstPutter, Kind(w)) \in Nat /\ P(w) \in Nat
             /\ CountIn(OtherPutters, Kind(w)) \in Nat
             /\ CountIn(FirstPutter, Kind(w)) = 0 <=>
                  \A c \in Elements(FirstPutter) : c.who # w
  BY <1>3, <1>5, CountsOfKinds DEF P
<1>10. Announced(FirstPutter) = {} BY <1>2, <1>7 DEF Announced
<1>11. \A w : w \notin {"runner", "handler"} => CountIn(FirstPutter, Kind(w)) = 0
  BY <1>2, <1>7, <1>9
<1>12. \A w : CountIn(FirstPutter, Kind(w)) + CountIn(OtherPutters, Kind(w)) = P(w)
  BY <1>6, <1>8 DEF P
<1>13. \A c \in Elements(FirstPutter) : c.who \in {"runner", "handler"}
  BY <1>2, <1>7
<1>14. QED BY <1>4, <1>5, <1>9, <1>10, <1>11, <1>12, <1>13 DEF E

-----------------------------------------------------------------------------
(* The ways in which the actions change the queues of callbacks: each      *)
(* lemma gives the counts of every kind w, and what is announced.          *)

Keeps(ends) ==
  /\ ready' \in Seq(Callbacks)
  /\ \A w : N(w) \in Nat /\ N(w)' \in Nat
  /\ Announced(ready)' \subseteq Announced(ready) \cup ends
  /\ EndsBeforeRunners(ready) /\ ends = {} => EndsBeforeRunners(ready)'

(* What the caller of start() and stop() may do next, in the same callback. *)
LEMMA NextComes ==
  /\ \A next \in {<<>>, <<Starter>>, <<Stopper>>} :
       next \in Seq(Callbacks) /\ Announced(next) = {}
  /\ \A w : /\ CountIn(<<>>, Kind(w)) = 0
             /\ CountIn(<<Starter>>, Kind(w)) = One(w = "start")
             /\ CountIn(<<Stopper>>, Kind(w)) = One(w = "stop")
  /\ \A c \in Elements(<<Starter>>) : c = Starter
  /\ \A c \in Elements(<<Stopper>>) : c = Stopper
<1>1. /\ Starter \in Callbacks /\ Starter.who = "start"
      /\ Stopper \in Callbacks /\ Stopper.who = "stop"
  BY CallbackKinds
<1>2. /\ <<Starter>> \in Seq(Callbacks) /\ Elements(<<Starter>>) = {Starter}
      /\ \A w : CountIn(<<Starter>>, Kind(w)) = One(Starter.who = w)
  BY <1>1, OneComes
<1>3. /\ <<Stopper>> \in Seq(Callbacks) /\ Elements(<<Stopper>>) = {Stopper}
      /\ \A w : CountIn(<<Stopper>>, Kind(w)) = One(Stopper.who = w)
  BY <1>1, OneComes
<1>4. /\ \A w : One(Starter.who = w) = One(w = "start")
      /\ \A w : One(Stopper.who = w) = One(w = "stop")
  BY <1>1 DEF One
<1>5. Announced(<<Starter>>) = {} /\ Announced(<<Stopper>>) = {}
  BY <1>1, <1>2, <1>3 DEF Announced
<1>6. QED BY <1>2, <1>3, <1>4, <1>5, NoneComes

(* The head is run, "come" is scheduled, and the caller goes on.           *)
LEMMA ReadyGoesOn ==
  ASSUME TypeOK, NEW next \in {<<>>, <<Starter>>, <<Stopper>>}, NEW come \in Seq(Callbacks),
         Announced(come) = {}, ready # <<>>, ready' = next \o (Tail(ready) \o come)
  PROVE  /\ Keeps({}) /\ N(Head(ready).who) > 0
         /\ \A w : N(w)' = ((N(w) - One(Head(ready).who = w)) + CountIn(come, Kind(w)))
                            + CountIn(next, Kind(w))
<1> DEFINE rest == Tail(ready)
           behind == rest \o come
<1>1. /\ ready \in Seq(Callbacks) /\ rest \in Seq(Callbacks) /\ Head(ready) \in Callbacks
  BY DEF TypeOK
<1>2. EndsBeforeRunners(ready) => EndsBeforeRunners(rest) BY <1>1, OrderTail
<1>3. /\ \A w : CountIn(rest, Kind(w)) = CountIn(ready, Kind(w)) - One(Head(ready) \in Kind(w))
      /\ Elements(ready) = Elements(rest) \cup {Head(ready)}
  BY <1>1, CountTail, ElementsTail
<1> HIDE DEF rest
<1>4. /\ behind \in Seq(Callbacks)
      /\ \A w : CountIn(behind, Kind(w)) = CountIn(rest, Kind(w)) + CountIn(come, Kind(w))
      /\ Announced(behind) = Announced(rest) \cup Announced(come)
  BY <1>1, ComesConcat
<1>5. EndsBeforeRunners(ready) => EndsBeforeRunners(behind) BY <1>1, <1>2, OrderConcat
<1>6. ready' = next \o behind BY DEF rest
<1> HIDE DEF behind
<1>7. next \in Seq(Callbacks) /\ Announced(next) = {} BY NextComes
<1>8. /\ next \o behind \in Seq(Callbacks)
      /\ \A w : CountIn(next \o behind, Kind(w)) = CountIn(next, Kind(w)) + CountIn(behind, Kind(w))
      /\ Announced(next \o behind) = Announced(next) \cup Announced(behind)
  BY <1>4, <1>7, ComesConcat
<1>9. EndsBeforeRunners(ready) => EndsBeforeRunners(ready)'
  <2>1. CASE next = <<>>
    <3>1. ready' = behind BY <1>4, <1>6, <2>1, ConcatEmptySeq
    <3>2. QED BY <1>5, <3>1
  <2>2. CASE next # <<>>
    <3>1. PICK c \in {Starter, Stopper} : next = <<c>> BY <2>2
    <3>2. c \in Callbacks /\ c.who # "runner" BY CallbackKinds
    <3>3. EndsBeforeRunners(behind) => EndsBeforeRunners(<<c>> \o behind)
      BY <1>4, <3>2, OrderCons
    <3>4. QED BY <1>5, <1>6, <3>1, <3>3
  <2>3. QED BY <2>1, <2>2
<1>10. Announced(ready)' \subseteq Announced(ready)
  <2>1. Announced(ready)' = Announced(rest) BY <1>4, <1>6, <1>7, <1>8
  <2>2. QED BY <1>3, <2>1 DEF Announced
<1>11. \A w : N(w) \in Nat /\ N(w)' \in Nat
  BY <1>1, <1>6, <1>8, CountsOfKinds DEF N
<1>12. Keeps({}) BY <1>6, <1>8, <1>9, <1>10, <1>11 DEF Keeps
<1>13. N(Head(ready).who) > 0
  <2>1. CountIn(ready, Kind(Head(ready).who)) # 0 BY <1>1, <1>3, CountsOfKinds
  <2>2. QED BY <1>11, <2>1 DEF N
<1>14. ASSUME NEW w
       PROVE  N(w)' = ((N(w) - One(Head(ready).who = w)) + CountIn(come, Kind(w)))
                        + CountIn(next, Kind(w))
  <2>1. One(Head(ready) \in Kind(w)) = One(Head(ready).who = w) BY <1>1 DEF Kind, One
  <2>2. N(w)' = CountIn(next, Kind(w)) + CountIn(behind, Kind(w)) BY <1>6, <1>8 DEF N
  <2>3. CountIn(behind, Kind(w)) = (N(w) - One(Head(ready).who = w)) + CountIn(come, Kind(w))
    BY <1>3, <1>4, <2>1 DEF N
  <2>4. /\ N(w) \in Nat /\ One(Head(ready).who = w) \in Nat
        /\ CountIn(come, Kind(w)) \in Nat /\ CountIn(next, Kind(w)) \in Nat
    BY <1>7, <1>11, CountsOfKinds DEF One
  <2> HIDE <1>3, <1>4, <1>8, <1>11
  <2>5. QED BY <2>2, <2>3, <2>4
<1>15. QED BY <1>12, <1>13, <1>14

LEMMA TailFlow ==
  ASSUME TypeOK, ready # <<>>, ready' = Tail(ready)
  PROVE  /\ Keeps({}) /\ N(Head(ready).who) > 0
         /\ \A w : N(w)' = N(w) - One(Head(ready).who = w)
<1>1. Pops(<<>>)
  <2>1. Tail(ready) \in Seq(Callbacks) BY DEF TypeOK
  <2>2. Tail(ready) \o <<>> = Tail(ready) BY <2>1, ConcatEmptySeq
  <2>3. QED BY <2>2 DEF Pops
<1>2. /\ ready' \in Seq(Callbacks) /\ N(Head(ready).who) > 0
      /\ \A w : N(w)' = (N(w) - One(Head(ready).who = w)) + CountIn(<<>>, Kind(w))
      /\ \A w : N(w) \in Nat /\ N(w)' \in Nat
      /\ Announced(ready)' \subseteq Announced(ready) \cup {}
      /\ EndsBeforeRunners(ready) => EndsBeforeRunners(ready)'
  BY <1>1, NoneComes, ReadyPops
<1>3. Keeps({}) BY <1>2 DEF Keeps
<1>4. ASSUME NEW w PROVE N(w)' = N(w) - One(Head(ready).who = w)
  <2>1. N(w)' = (N(w) - One(Head(ready).who = w)) + 0 BY <1>2, NoneComes
  <2>2. N(w) \in Nat /\ One(Head(ready).who = w) \in Nat BY <1>2 DEF One
  <2>3. QED BY <2>1, <2>2
<1>5. QED BY <1>2, <1>3, <1>4

LEMMA PutFlow ==
  ASSUME TypeOK, ready # <<>>, NEW item, NEW then \in Seq(Callbacks), Put(item, then)
  PROVE  /\ Keeps(Announced(then)) /\ N(Head(ready).who) > 0
         /\ \A w : N(w)' = ((N(w) - One(Head(ready).who = w))
                             + One(w = "reader" /\ reader = "waiting"))
                             + CountIn(then, Kind(w))
<1> DEFINE come == WokenReader \o then
<1>1. /\ come \in Seq(Callbacks)
      /\ \A w : CountIn(come, Kind(w)) = CountIn(WokenReader, Kind(w)) + CountIn(then, Kind(w))
      /\ Announced(come) = Announced(WokenReader) \cup Announced(then)
  BY WokenReaderComes, ComesConcat
<1>2. Pops(come)
  <2>1. Tail(ready) \in Seq(Callbacks) BY DEF TypeOK
  <2>2. ready' = (Tail(ready) \o WokenReader) \o then BY DEF Put, WokenReader
  <2>3. (Tail(ready) \o WokenReader) \o then = Tail(ready) \o come
    BY <2>1, WokenReaderComes, ConcatAssociative
  <2>4. QED BY <2>2, <2>3 DEF Pops
<1> HIDE DEF come
<1>3. /\ \A w : One(Head(ready).who = w) \in Nat
      /\ \A w : One(w = "reader" /\ reader = "waiting") \in Nat
      /\ \A w : CountIn(then, Kind(w)) \in Nat
  BY CountsOfKinds DEF One
<1>4. /\ ready' \in Seq(Callbacks) /\ N(Head(ready).who) > 0
      /\ \A w : N(w)' = (N(w) - One(Head(ready).who = w)) + CountIn(come, Kind(w))
      /\ \A w : N(w) \in Nat /\ N(w)' \in Nat
      /\ Announced(ready)' \subseteq Announced(ready) \cup Announced(come)
      /\ EndsBeforeRunners(ready) /\ Announced(come) = {} => EndsBeforeRunners(ready)'
  BY <1>1, <1>2, ReadyPops
<1>5. Keeps(Announced(then)) BY <1>1, <1>4, WokenReaderComes DEF Keeps
<1>6. ASSUME NEW w
      PROVE  N(w)' = ((N(w) - One(Head(ready).who = w))
                       + One(w = "reader" /\ reader = "waiting")) + CountIn(then, Kind(w))
  <2>1. CountIn(come, Kind(w)) =
          One(w = "reader" /\ reader = "waiting") + CountIn(then, Kind(w))
    BY <1>1, WokenReaderComes
  <2>2. N(w) \in Nat /\ N(w)' = (N(w) - One(Head(ready).who = w)) + CountIn(come, Kind(w))
    BY <1>4
  <2>3. /\ One(Head(ready).who = w) \in Nat /\ CountIn(then, Kind(w)) \in Nat
        /\ One(w = "reader" /\ reader = "waiting") \in Nat
    BY <1>3
  <2> HIDE <1>3
  <2>4. QED BY <2>1, <2>2, <2>3
<1>7. QED BY <1>4, <1>5, <1>6

LEMMA EndsFlow ==
  ASSUME TypeOK, ready # <<>>, NEW how \in {"returned", "raised", "cancelled"},
         ready' = Tail(ready) \o TaskEnds(how)
  PROVE  /\ Keeps({Callback("done", HowEnded[how], run)}) /\ N(Head(ready).who) > 0
         /\ \A w : N(w)' = (N(w) - One(Head(ready).who = w))
                            + (One(w = "done") + One(w = "stop" /\ owner = "awaiting"))
<1>1. Pops(TaskEnds(how)) BY DEF Pops
<1>2. QED BY <1>1, TaskEndsComes, ReadyPops DEF Keeps

LEMMA WaitFlow ==
  ASSUME TypeOK, ready # <<>>, NEW c \in Handlers \cup {Runner}, WaitForRoom(c)
  PROVE  /\ Keeps({}) /\ N(Head(ready).who) > 0
         /\ \A w : N(w)' = N(w) - One(Head(ready).who = w)
         /\ \A w : P(w)' = P(w) + One(c.who = w) /\ P(w) \in Nat
         /\ putters' \in Seq(Handlers \cup {Runner})
<1> DEFINE E == Handlers \cup {Runner}
<1>1. putters \in Seq(E) /\ putters' = Append(putters, c) /\ c \in E
  BY DEF TypeOK, WaitForRoom
<1>2. E \subseteq Callbacks BY CallbackKinds
<1> HIDE DEF E
<1>3. putters' \in Seq(E) BY <1>1
<1>4. putters \in Seq(Callbacks) /\ c \in Callbacks BY <1>1, <1>2, SeqMonotone
<1>5. ASSUME NEW w PROVE P(w)' = P(w) + One(c.who = w) /\ P(w) \in Nat
  <2>1. CountIn(Append(putters, c), Kind(w)) = CountIn(putters, Kind(w)) + One(c \in Kind(w))
    BY <1>4, CountAppend
  <2>2. One(c \in Kind(w)) = One(c.who = w) BY <1>4 DEF Kind, One
  <2>3. P(w) \in Nat BY <1>4, CountsOfKinds DEF P
  <2>4. QED BY <1>1, <2>1, <2>2, <2>3 DEF P
<1>6. ready' = Tail(ready) BY DEF WaitForRoom
<1>7. QED BY <1>3, <1>5, <1>6, TailFlow DEF E

(* Somebody is let in: the emitters that wait and those that are ready     *)
(* stay the same taken together.                                           *)
LetsIn ==
  /\ putters' \in Seq(Handlers \cup {Runner})
  /\ \A w : P(w) \in Nat /\ P(w)' \in Nat /\ P(w)' <= P(w)
  /\ \A w : w \notin {"runner", "handler"} => P(w) = 0 /\ P(w)' = 0

LEMMA SomeoneLetIn ==
  ASSUME TypeOK, putters' \in {putters, OtherPutters}
  PROVE  LetsIn
<1> DEFINE E == Handlers \cup {Runner}
<1>1. putters \in Seq(E) BY DEF TypeOK
<1>2. E \subseteq Callbacks /\ \A c \in E : c.who \in {"runner", "handler"} BY CallbackKinds
<1>3. OtherPutters \in Seq(E) BY FirstPutterComes
<1> HIDE DEF E
<1>4. putters' \in Seq(E) BY <1>1, <1>3
<1>5. putters \in Seq(Callbacks) /\ putters' \in Seq(Callbacks)
  BY <1>1, <1>2, <1>4, SeqMonotone
<1>6. \A w : P(w) \in Nat /\ P(w)' \in Nat BY <1>5, CountsOfKinds DEF P
<1>7. ASSUME NEW w PROVE P(w)' <= P(w)
  <2>1. CASE putters' = putters
    <3>1. P(w)' = P(w) BY <2>1 DEF P
    <3>2. QED BY <1>6, <3>1
  <2>2. CASE putters' = OtherPutters
    <3>1. P(w)' = CountIn(OtherPutters, Kind(w)) BY <2>2 DEF P
    <3>2. /\ CountIn(FirstPutter, Kind(w)) + CountIn(OtherPutters, Kind(w)) = P(w)
          /\ CountIn(FirstPutter, Kind(w)) \in Nat /\ CountIn(OtherPutters, Kind(w)) \in Nat
      BY FirstPutterComes
    <3>3. QED BY <3>1, <3>2
  <2>3. QED BY <2>1, <2>2
<1>8. ASSUME NEW w, w \notin {"runner", "handler"} PROVE P(w) = 0 /\ P(w)' = 0
  <2>1. \A c \in Elements(putters) \cup Elements(putters') : c.who # w
    BY <1>1, <1>2, <1>4, <1>8 DEF Elements
  <2>2. QED BY <1>5, <2>1, CountsOfKinds DEF P
<1>9. QED BY <1>4, <1>6, <1>7, <1>8 DEF LetsIn, E

LEMMA ConcatRegrouped ==
  \A a, b, c, d \in Seq(Callbacks) : ((a \o b) \o c) \o d = a \o (b \o (c \o d))
<1>1. SUFFICES ASSUME NEW a \in Seq(Callbacks), NEW b \in Seq(Callbacks),
                      NEW c \in Seq(Callbacks), NEW d \in Seq(Callbacks)
               PROVE  ((a \o b) \o c) \o d = a \o (b \o (c \o d))
  OBVIOUS
<1>2. a \o b \in Seq(Callbacks) /\ c \o d \in Seq(Callbacks) BY ConcatProperties
<1>3. ((a \o b) \o c) \o d = (a \o b) \o (c \o d) BY <1>2, ConcatAssociative
<1>4. (a \o b) \o (c \o d) = a \o (b \o (c \o d)) BY <1>2, ConcatAssociative
<1>5. QED BY <1>3, <1>4

LEMMA WakeFlow ==
  ASSUME TypeOK, ready # <<>>, NEW r, NEW next \in {<<>>, <<Starter>>},
         WakeEventConsumers(r, next)
  PROVE  /\ Keeps({}) /\ LetsIn /\ N(Head(ready).who) > 0
         /\ \A w : N(w)' + P(w)' = (((N(w) + P(w)) - One(Head(ready).who = w))
                                      + One(w = "reader" /\ reader = "waiting"))
                                      + CountIn(next, Kind(w))
<1> DEFINE X == IF IsFull THEN FirstPutter ELSE <<>>
           come == X \o WokenReader
<1>1. /\ X \in Seq(Callbacks) /\ Announced(X) = {}
      /\ \A w : CountIn(X, Kind(w)) = P(w) - P(w)'
  <2>1. CASE IsFull
    <3>1. X = FirstPutter /\ putters' = OtherPutters BY <2>1 DEF WakeEventConsumers
    <3>2. ASSUME NEW w PROVE CountIn(FirstPutter, Kind(w)) = P(w) - CountIn(OtherPutters, Kind(w))
      <4>1. /\ CountIn(FirstPutter, Kind(w)) + CountIn(OtherPutters, Kind(w)) = P(w)
            /\ CountIn(FirstPutter, Kind(w)) \in Nat
            /\ CountIn(OtherPutters, Kind(w)) \in Nat
        BY FirstPutterComes
      <4>2. QED BY <4>1
    <3>3. \A w : P(w)' = CountIn(OtherPutters, Kind(w)) BY <3>1 DEF P
    <3> HIDE DEF X
    <3>4. QED BY <3>1, <3>2, <3>3, FirstPutterComes
  <2>2. CASE ~IsFull
    <3>1. X = <<>> /\ putters' = putters BY <2>2 DEF WakeEventConsumers
    <3>2. \A w : P(w)' = P(w) BY <3>1 DEF P
    <3>3. \A w : P(w) \in Nat BY FirstPutterComes
    <3>4. \A w : P(w) - P(w)' = 0 BY <3>2, <3>3
    <3> HIDE DEF X
    <3>5. QED BY <3>1, <3>4, NoneComes
  <2>3. QED BY <2>1, <2>2
<1>2. LetsIn
  <2>1. putters' \in {putters, OtherPutters} BY DEF WakeEventConsumers
  <2>2. QED BY <2>1, SomeoneLetIn
<1>3. ready' = next \o (Tail(ready) \o come)
  <2>1. Tail(ready) \in Seq(Callbacks) BY DEF TypeOK
  <2>2. next \in Seq(Callbacks) BY NextComes
  <2>3. ready' = ((next \o Tail(ready)) \o X) \o WokenReader
    BY DEF WakeEventConsumers, WokenReader
  <2> HIDE DEF X
  <2>4. X \in Seq(Callbacks) /\ WokenReader \in Seq(Callbacks) BY <1>1, WokenReaderComes
  <2> DEFINE rest == Tail(ready)
             woken == WokenReader
  <2>5. rest \in Seq(Callbacks) /\ woken \in Seq(Callbacks) BY <2>1, <2>4
  <2>6. ready' = ((next \o rest) \o X) \o woken BY <2>3
  <2> HIDE DEF rest, woken
  <2>7. ((next \o rest) \o X) \o woken = next \o (rest \o (X \o woken))
    <3>1. \A b, c, d \in Seq(Callbacks) :
            ((next \o b) \o c) \o d = next \o (b \o (c \o d))
      BY ONLY <2>2, ConcatRegrouped, Zenon
    <3>2. \A c, d \in Seq(Callbacks) :
            ((next \o rest) \o c) \o d = next \o (rest \o (c \o d))
      BY ONLY <2>5, <3>1, Zenon
    <3>3. QED BY ONLY <2>4, <2>5, <3>2, Zenon
  <2>8. ready' = next \o (rest \o (X \o woken)) BY <2>6, <2>7
  <2>9. QED BY <2>8 DEF rest, woken
<1> HIDE DEF X
<1>4. /\ come \in Seq(Callbacks)
      /\ \A w : CountIn(come, Kind(w)) = CountIn(X, Kind(w)) + CountIn(WokenReader, Kind(w))
      /\ Announced(come) = Announced(X) \cup Announced(WokenReader)
  BY <1>1, WokenReaderComes, ComesConcat
<1> HIDE DEF come
<1>5. Announced(come) = {} BY <1>1, <1>4, WokenReaderComes
<1>6. /\ Keeps({}) /\ N(Head(ready).who) > 0
      /\ \A w : N(w)' = ((N(w) - One(Head(ready).who = w)) + CountIn(come, Kind(w)))
                         + CountIn(next, Kind(w))
  <2>1. next \in {<<>>, <<Starter>>, <<Stopper>>} OBVIOUS
  <2>2. QED BY <1>3, <1>4, <1>5, <2>1, ReadyGoesOn
<1>7. \A w : N(w) \in Nat /\ N(w)' \in Nat BY <1>6 DEF Keeps
<1>8. ASSUME NEW w
      PROVE  N(w)' + P(w)' = (((N(w) + P(w)) - One(Head(ready).who = w))
                               + One(w = "reader" /\ reader = "waiting"))
                               + CountIn(next, Kind(w))
  <2>1. CountIn(come, Kind(w)) = (P(w) - P(w)') + One(w = "reader" /\ reader = "waiting")
    BY <1>1, <1>4, WokenReaderComes
  <2>2. /\ N(w) \in Nat
        /\ N(w)' = ((N(w) - One(Head(ready).who = w)) + CountIn(come, Kind(w)))
                     + CountIn(next, Kind(w))
    BY <1>6, <1>7
  <2>3. P(w) \in Nat /\ P(w)' \in Nat BY <1>2 DEF LetsIn
  <2>4. One(Head(ready).who = w) \in Nat /\ One(w = "reader" /\ reader = "waiting") \in Nat
    BY DEF One
  <2>5. CountIn(next, Kind(w)) \in Nat BY NextComes, CountsOfKinds
  <2> HIDE <1>4, <1>6, <1>7
  <2>6. QED BY <2>1, <2>2, <2>3, <2>4, <2>5
<1>9. QED BY <1>2, <1>6, <1>8

(* get() lets an emitter in.                                               *)
LEMMA GetFlow ==
  ASSUME TypeOK, ready # <<>>, putters' = OtherPutters,
         NEW stays \in BOOLEAN,
         ready' = (IF stays THEN ready ELSE Tail(ready)) \o FirstPutter
  PROVE  /\ Keeps({}) /\ LetsIn /\ N(Head(ready).who) > 0
         /\ \A w : N(w)' + P(w)' = (N(w) + P(w)) - One(~stays /\ Head(ready).who = w)
<1>1. LetsIn BY SomeoneLetIn
<1>2. \A w : P(w)' = CountIn(OtherPutters, Kind(w)) BY DEF P
<1>3. ready \in Seq(Callbacks) BY DEF TypeOK
<1>4. N(Head(ready).who) > 0 /\ \A w : N(w) \in Nat
  <2>1. Head(ready) \in Elements(ready) BY <1>3, ElementsTail
  <2>2. CountIn(ready, Kind(Head(ready).who)) # 0 BY <1>3, <2>1, CountsOfKinds
  <2>3. \A w : N(w) \in Nat BY <1>3, CountsOfKinds DEF N
  <2>4. QED BY <2>2, <2>3 DEF N
<1>5. Keeps({}) /\ \A w : N(w)' = (N(w) - One(~stays /\ Head(ready).who = w))
                                    + CountIn(FirstPutter, Kind(w))
  <2>1. CASE stays
    <3>1. /\ ready' \in Seq(Callbacks)
          /\ \A w : N(w)' = N(w) + CountIn(FirstPutter, Kind(w))
          /\ \A w : N(w) \in Nat /\ N(w)' \in Nat
          /\ Announced(ready)' \subseteq Announced(ready)
          /\ EndsBeforeRunners(ready) => EndsBeforeRunners(ready)'
      BY <2>1, FirstPutterComes, ReadyLetsIn
    <3>2. \A w : One(~stays /\ Head(ready).who = w) = 0 BY <2>1 DEF One
    <3>3. \A w : N(w) - 0 = N(w) BY <3>1
    <3>4. QED BY <3>1, <3>2, <3>3 DEF Keeps
  <2>2. CASE ~stays
    <3>1. Pops(FirstPutter) BY <2>2 DEF Pops
    <3>2. /\ ready' \in Seq(Callbacks)
          /\ \A w : N(w)' = (N(w) - One(Head(ready).who = w)) + CountIn(FirstPutter, Kind(w))
          /\ \A w : N(w) \in Nat /\ N(w)' \in Nat
          /\ Announced(ready)' \subseteq Announced(ready) \cup Announced(FirstPutter)
          /\ EndsBeforeRunners(ready) => EndsBeforeRunners(ready)'
      BY <3>1, FirstPutterComes, ReadyPops
    <3>3. \A w : One(~stays /\ Head(ready).who = w) = One(Head(ready).who = w)
      BY <2>2 DEF One
    <3>4. QED BY <3>2, <3>3, FirstPutterComes DEF Keeps
  <2>3. QED BY <2>1, <2>2
<1>6. ASSUME NEW w
      PROVE  N(w)' + P(w)' = (N(w) + P(w)) - One(~stays /\ Head(ready).who = w)
  <2>1. N(w)' = (N(w) - One(~stays /\ Head(ready).who = w)) + CountIn(FirstPutter, Kind(w))
    BY <1>5
  <2>2. CountIn(FirstPutter, Kind(w)) + P(w)' = P(w) BY <1>2, FirstPutterComes
  <2>3. /\ CountIn(FirstPutter, Kind(w)) \in Nat /\ P(w) \in Nat /\ P(w)' \in Nat
    BY <1>1, FirstPutterComes DEF LetsIn
  <2>4. One(~stays /\ Head(ready).who = w) \in Nat /\ N(w) \in Nat BY <1>4 DEF One
  <2> HIDE <1>5
  <2>5. QED BY <2>1, <2>2, <2>3, <2>4
<1>7. QED BY <1>1, <1>4, <1>5, <1>6

LEMMA CancelFlow ==
  ASSUME TypeOK, ready # <<>>, NEW passesOn \in BOOLEAN,
         putters' = IF passesOn THEN OtherPutters ELSE putters,
         ready' = Tail(ready) \o (IF passesOn THEN FirstPutter ELSE <<>>)
                              \o TaskEnds("cancelled")
  PROVE  /\ Keeps({Callback("done", HowEnded["cancelled"], run)}) /\ LetsIn
         /\ N(Head(ready).who) > 0
         /\ \A w : N(w)' + P(w)' = ((N(w) + P(w)) - One(Head(ready).who = w))
                                     + (One(w = "done") + One(w = "stop" /\ owner = "awaiting"))
<1> DEFINE X == IF passesOn THEN FirstPutter ELSE <<>>
           ends == TaskEnds("cancelled")
           come == X \o ends
           end == Callback("done", HowEnded["cancelled"], run)
<1>1. /\ X \in Seq(Callbacks) /\ Announced(X) = {}
      /\ \A w : CountIn(X, Kind(w)) = P(w) - P(w)'
  <2>1. CASE passesOn
    <3>1. X = FirstPutter /\ putters' = OtherPutters BY <2>1
    <3>2. ASSUME NEW w PROVE CountIn(FirstPutter, Kind(w)) = P(w) - CountIn(OtherPutters, Kind(w))
      <4>1. /\ CountIn(FirstPutter, Kind(w)) + CountIn(OtherPutters, Kind(w)) = P(w)
            /\ CountIn(FirstPutter, Kind(w)) \in Nat
            /\ CountIn(OtherPutters, Kind(w)) \in Nat
        BY FirstPutterComes
      <4>2. QED BY <4>1
    <3>3. \A w : P(w)' = CountIn(OtherPutters, Kind(w)) BY <3>1 DEF P
    <3> HIDE DEF X
    <3>4. QED BY <3>1, <3>2, <3>3, FirstPutterComes
  <2>2. CASE ~passesOn
    <3>1. X = <<>> /\ putters' = putters BY <2>2
    <3>2. \A w : P(w)' = P(w) BY <3>1 DEF P
    <3>3. \A w : P(w) \in Nat BY FirstPutterComes
    <3>4. \A w : P(w) - P(w)' = 0 BY <3>2, <3>3
    <3> HIDE DEF X
    <3>5. QED BY <3>1, <3>4, NoneComes
  <2>3. QED BY <2>1, <2>2
<1>2. LetsIn
  <2>1. putters' \in {putters, OtherPutters} OBVIOUS
  <2>2. QED BY <2>1, SomeoneLetIn
<1>3. /\ ends \in Seq(Callbacks) /\ Announced(ends) = {end}
      /\ \A w : CountIn(ends, Kind(w)) = One(w = "done") + One(w = "stop" /\ owner = "awaiting")
  BY TaskEndsComes
<1>4. Pops(come)
  <2>1. Tail(ready) \in Seq(Callbacks) BY DEF TypeOK
  <2>2. ready' = (Tail(ready) \o X) \o ends OBVIOUS
  <2> HIDE DEF X, ends
  <2>3. (Tail(ready) \o X) \o ends = Tail(ready) \o come
    BY <1>1, <1>3, <2>1, ConcatAssociative
  <2>4. QED BY <2>2, <2>3 DEF Pops
<1> HIDE DEF X, ends, end
<1>5. /\ come \in Seq(Callbacks)
      /\ \A w : CountIn(come, Kind(w)) = CountIn(X, Kind(w)) + CountIn(ends, Kind(w))
      /\ Announced(come) = Announced(X) \cup Announced(ends)
  BY <1>1, <1>3, ComesConcat
<1> HIDE DEF come
<1>6. Announced(come) = {end} BY <1>1, <1>3, <1>5
<1>7. /\ ready' \in Seq(Callbacks) /\ N(Head(ready).who) > 0
      /\ \A w : N(w)' = (N(w) - One(Head(ready).who = w)) + CountIn(come, Kind(w))
      /\ \A w : N(w) \in Nat /\ N(w)' \in Nat
      /\ Announced(ready)' \subseteq Announced(ready) \cup Announced(come)
  BY <1>4, <1>5, ReadyPops
<1>8. Keeps({end}) BY <1>6, <1>7 DEF Keeps
<1>9. ASSUME NEW w
      PROVE  N(w)' + P(w)' = ((N(w) + P(w)) - One(Head(ready).who = w))
                               + (One(w = "done") + One(w = "stop" /\ owner = "awaiting"))
  <2>1. CountIn(come, Kind(w)) =
          (P(w) - P(w)') + (One(w = "done") + One(w = "stop" /\ owner = "awaiting"))
    BY <1>1, <1>3, <1>5
  <2>2. /\ N(w) \in Nat
        /\ N(w)' = (N(w) - One(Head(ready).who = w)) + CountIn(come, Kind(w))
    BY <1>7
  <2>3. P(w) \in Nat /\ P(w)' \in Nat BY <1>2 DEF LetsIn
  <2>4. /\ One(Head(ready).who = w) \in Nat /\ One(w = "done") \in Nat
        /\ One(w = "stop" /\ owner = "awaiting") \in Nat
    BY DEF One
  <2> HIDE <1>1, <1>3, <1>5, <1>7
  <2>5. QED BY <2>1, <2>2, <2>3, <2>4
<1>10. QED BY <1>2, <1>7, <1>8, <1>9 DEF end

LEMMA RunnerCounts ==
  ASSUME TypeOK
  PROVE  /\ IsReady(Runner) <=> N("runner") > 0
         /\ IsWaiting(Runner) <=> P("runner") > 0
         /\ IsReady(Starter) <=> N("start") > 0
         /\ IsReady(Stopper) <=> N("stop") > 0
         /\ Announced(ready) = {} <=> N("done") = 0
         /\ \A w : N(w) \in Nat /\ P(w) \in Nat
<1>1. ready \in Seq(Callbacks) /\ putters \in Seq(Handlers \cup {Runner}) BY DEF TypeOK
<1>2. putters \in Seq(Callbacks) BY <1>1, CallbackKinds, SeqMonotone
<1>3. \A w : /\ N(w) \in Nat /\ (N(w) = 0 <=> \A c \in Elements(ready) : c.who # w)
             /\ P(w) \in Nat /\ (P(w) = 0 <=> \A c \in Elements(putters) : c.who # w)
  BY <1>1, <1>2, CountsOfKinds DEF N, P
<1>4. Elements(ready) \subseteq Callbacks /\ Elements(putters) \subseteq Callbacks
  BY <1>1, <1>2 DEF Elements
<1>5. /\ IsReady(Runner) <=> Runner \in Elements(ready)
      /\ IsWaiting(Runner) <=> Runner \in Elements(putters)
      /\ IsReady(Starter) <=> Starter \in Elements(ready)
      /\ IsReady(Stopper) <=> Stopper \in Elements(ready)
  BY DEF IsReady, IsWaiting, Elements
<1>6. /\ \A c \in Elements(ready) : c.who = "runner" <=> c = Runner
      /\ \A c \in Elements(putters) : c.who = "runner" <=> c = Runner
      /\ \A c \in Elements(ready) : c.who = "start" <=> c = Starter
      /\ \A c \in Elements(ready) : c.who = "stop" <=> c = Stopper
  BY <1>4, CallbackKinds
<1>7. Announced(ready) = {} <=> \A c \in Elements(ready) : c.who # "done"
  BY DEF Announced
<1>8. /\ N("runner") > 0 <=> Runner \in Elements(ready)
      /\ P("runner") > 0 <=> Runner \in Elements(putters)
      /\ N("start") > 0 <=> Starter \in Elements(ready)
      /\ N("stop") > 0 <=> Stopper \in Elements(ready)
  BY <1>3, <1>6
<1>9. QED BY <1>3, <1>5, <1>7, <1>8

(* task.cancel(): the task gives up its place among the emitters and runs. *)
LEMMA StopFlow ==
  ASSUME TypeOK, ready # <<>>, putters' = Without(putters, Runner),
         ready' = Tail(ready) \o (IF IsReady(Runner) THEN <<>> ELSE <<Runner>>)
  PROVE  /\ Keeps({}) /\ N(Head(ready).who) > 0
         /\ putters' \in Seq(Handlers \cup {Runner})
         /\ \A w : P(w)' = P(w) - One(w = "runner" /\ P("runner") > 0)
         /\ \A w : N(w)' = (N(w) - One(Head(ready).who = w))
                            + One(w = "runner" /\ N("runner") = 0)
<1> DEFINE E == Handlers \cup {Runner}
           come == IF IsReady(Runner) THEN <<>> ELSE <<Runner>>
<1>1. putters \in Seq(E) BY DEF TypeOK
<1>2. E \subseteq Callbacks /\ Runner \in Callbacks /\ Runner.who = "runner" BY CallbackKinds
<1> HIDE DEF E
<1>3. putters \in Seq(Callbacks) BY <1>1, <1>2, SeqMonotone
<1>4. /\ putters' \in Seq(E)
      /\ \A w : P(w)' = P(w) - One(w = "runner" /\ P("runner") > 0)
  <2>1. CASE IsWaiting(Runner)
    <3> DEFINE at == PlaceOf(putters, Runner)
    <3>1. at \in 1 .. Len(putters) /\ putters[at] = Runner BY <2>1 DEF IsWaiting, PlaceOf
    <3>2. putters' = SubSeq(putters, 1, at - 1) \o SubSeq(putters, at + 1, Len(putters))
      BY <2>1 DEF Without, RemoveAt, IsWaiting
    <3> HIDE DEF at
    <3>3. putters' \in Seq(E) BY <1>1, <3>1, <3>2
    <3>4. ASSUME NEW w PROVE P(w)' = P(w) - One(w = "runner" /\ P("runner") > 0)
      <4>1. P(w)' = P(w) - One(putters[at] \in Kind(w))
        BY <1>3, <3>1, <3>2, CountWithout DEF P
      <4>2. Runner \in Kind(w) <=> w = "runner" BY <1>2 DEF Kind
      <4>3. P("runner") > 0 BY <2>1, RunnerCounts
      <4>4. One(putters[at] \in Kind(w)) = One(w = "runner" /\ P("runner") > 0)
        BY <3>1, <4>2, <4>3 DEF One
      <4>5. QED BY <4>1, <4>4
    <3>5. QED BY <3>3, <3>4
  <2>2. CASE ~IsWaiting(Runner)
    <3>1. putters' = putters BY <2>2 DEF Without, IsWaiting
    <3>2. ~(P("runner") > 0) BY <2>2, RunnerCounts
    <3>3. \A w : P(w)' = P(w) BY <3>1 DEF P
    <3>4. \A w : One(w = "runner" /\ P("runner") > 0) = 0 BY <3>2 DEF One
    <3>5. \A w : P(w) \in Nat BY RunnerCounts
    <3>6. \A w : P(w) - 0 = P(w) BY <3>5
    <3>7. QED BY <1>1, <3>1, <3>3, <3>4, <3>6
  <2>3. QED BY <2>1, <2>2
<1>5. /\ come \in Seq(Callbacks) /\ Announced(come) = {}
      /\ \A w : CountIn(come, Kind(w)) = One(w = "runner" /\ N("runner") = 0)
  <2>1. CASE IsReady(Runner)
    <3>1. come = <<>> BY <2>1
    <3>2. ~(N("runner") = 0) BY <2>1, RunnerCounts
    <3>3. \A w : One(w = "runner" /\ N("runner") = 0) = 0 BY <3>2 DEF One
    <3> HIDE DEF come
    <3>4. QED BY <3>1, <3>3, NoneComes
  <2>2. CASE ~IsReady(Runner)
    <3>1. come = <<Runner>> BY <2>2
    <3>2. N("runner") = 0 BY <2>2, RunnerCounts
    <3> HIDE DEF come
    <3>4. Elements(come) = {Runner} BY <1>2, <3>1, OneComes
    <3>5. Announced(come) = {} BY <1>2, <3>4 DEF Announced
    <3>7. /\ come \in Seq(Callbacks)
          /\ \A w : CountIn(come, Kind(w)) = One(Runner.who = w)
      BY <1>2, <3>1, OneComes
    <3>8. ASSUME NEW w
          PROVE  CountIn(come, Kind(w)) = One(w = "runner" /\ N("runner") = 0)
      <4>1. One(Runner.who = w) = One(w = "runner" /\ N("runner") = 0)
        BY <1>2, <3>2 DEF One
      <4>2. CountIn(come, Kind(w)) = One(Runner.who = w) BY <3>7
      <4>3. QED BY <4>1, <4>2
    <3>9. \A w : CountIn(come, Kind(w)) = One(w = "runner" /\ N("runner") = 0)
      BY <3>8
    <3>10. QED BY <3>5, <3>7, <3>9
  <2>3. QED BY <2>1, <2>2
<1>6. Pops(come) BY DEF Pops
<1> HIDE DEF come
<1>7. /\ ready' \in Seq(Callbacks) /\ N(Head(ready).who) > 0
      /\ \A w : N(w)' = (N(w) - One(Head(ready).who = w)) + CountIn(come, Kind(w))
      /\ \A w : N(w) \in Nat /\ N(w)' \in Nat
      /\ Announced(ready)' \subseteq Announced(ready) \cup Announced(come)
      /\ EndsBeforeRunners(ready) => EndsBeforeRunners(ready)'
  BY <1>5, <1>6, ReadyPops
<1>8. Keeps({}) BY <1>5, <1>7 DEF Keeps
<1>9. QED BY <1>4, <1>5, <1>7, <1>8 DEF E

-----------------------------------------------------------------------------
(* Who may be ready in which state of the task, of start() and stop() and  *)
(* of the reader: the task once, while it runs; the announcement of its    *)
(* end once, when it has ended or the next task has not yet had its turn;  *)
(* one call of start() or stop(), and a start() only when nobody iterates; *)
(* the reader once, while it reads.  An open connection is that of the     *)
(* current attempt.                                                        *)
Attempting == {"loop", "preflight", "connected"}
TaskInv ==
  /\ N("runner") + P("runner") <= 1
  /\ N("runner") + P("runner") > 0 => IsRunning
  /\ P("runner") > 0 => runner \in {"emitting", "emittingLast"}
  /\ N("done") <= 1
  /\ N("done") > 0 => runner = "done" \/ (runner = "loop" /\ N("runner") > 0)
LinkInv ==
  /\ ConnectionOpen => runner = "connected"
  /\ runner = "connected" /\ N("runner") > 0 /\ ~cancelling => ~ConnectionOpen
CallInv ==
  /\ N("start") + N("stop") <= 1
  /\ N("start") > 0 => owner \in {"new", "started", "stopped", "raised"}
  /\ N("stop") > 0 => owner # "stopped"
  /\ N("stop") > 0 /\ owner = "awaiting" => runner = "done"
  /\ owner \in {"new", "stopped"} => ~IsRunning
StartInv == N("start") > 0 => ~Iterating
MadeInv == Len(made) <= MaxMade + One(runner \notin Attempting)
ReaderInv == N("reader") <= One(reader = "reading")
OrderInv == EndsBeforeRunners(ready)
ControlInv ==
  TaskInv /\ LinkInv /\ CallInv /\ StartInv /\ MadeInv /\ ReaderInv /\ OrderInv

(* What a step changes in the counts.                                      *)
AreNat ==
  /\ N("runner") \in Nat /\ N("done") \in Nat /\ N("start") \in Nat
  /\ N("stop") \in Nat /\ N("reader") \in Nat /\ P("runner") \in Nat
  /\ N("runner")' \in Nat /\ N("done")' \in Nat /\ N("start")' \in Nat
  /\ N("stop")' \in Nat /\ N("reader")' \in Nat /\ P("runner")' \in Nat
Moves(runners, ends, starts, stops, readers) ==
  /\ AreNat
  /\ N("runner")' + P("runner")' = N("runner") + P("runner") + runners
  /\ N("done")' = N("done") + ends
  /\ N("start")' = N("start") + starts
  /\ N("stop")' = N("stop") + stops
  /\ N("reader")' = N("reader") + readers

LEMMA PuttersStay ==
  ASSUME UNCHANGED putters
  PROVE  \A w : P(w)' = P(w)
BY DEF P

Waking == One(reader = "waiting")
Asking == One(owner = "awaiting")

LEMMA KindOnes ==
  /\ \A w, v : (w = v => One(w = v) = 1) /\ (w # v => One(w = v) = 0)
  /\ One("reader" = "reader" /\ reader = "waiting") = Waking
  /\ \A w : w # "reader" => One(w = "reader" /\ reader = "waiting") = 0
  /\ One("stop" = "stop" /\ owner = "awaiting") = Asking
  /\ \A w : w # "stop" => One(w = "stop" /\ owner = "awaiting") = 0
  /\ Waking \in {0, 1} /\ Asking \in {0, 1}
BY DEF One, Waking, Asking

(* The task waits for room.                                                *)
LEMMA RunnerWaitsMoves ==
  ASSUME TypeOK, Runs(Runner), WaitForRoom(Runner)
  PROVE  Keeps({}) /\ Moves(0, 0, 0, 0, 0) /\ P("runner")' = P("runner") + 1
<1>1. /\ Keeps({})
      /\ \A w : N(w)' = N(w) - One(Head(ready).who = w)
      /\ \A w : P(w)' = P(w) + One(Runner.who = w) /\ P(w) \in Nat
  BY WaitFlow DEF Runs
<1>2. Head(ready).who = "runner" /\ Runner.who = "runner" BY CallbackKinds DEF Runs
<1>3. \A w : N(w) \in Nat /\ N(w)' \in Nat BY <1>1 DEF Keeps
<1>4. /\ N("runner")' = N("runner") - 1 /\ P("runner")' = P("runner") + 1
      /\ N("done")' = N("done") - 0 /\ N("start")' = N("start") - 0
      /\ N("stop")' = N("stop") - 0 /\ N("reader")' = N("reader") - 0
  BY <1>1, <1>2, KindOnes
<1>5. P("runner") \in Nat BY <1>1
<1>6. QED BY <1>1, <1>3, <1>4, <1>5 DEF Moves, AreNat

(* The task puts an event into the queue and goes on.                      *)
LEMMA RunnerPutsMoves ==
  ASSUME TypeOK, Runs(Runner), UNCHANGED putters, NEW item, Put(item, <<>>)
  PROVE  Keeps({}) /\ Moves(-1, 0, 0, 0, Waking) /\ P("runner")' = P("runner")
<1>1. /\ Keeps(Announced(<<>>))
      /\ \A w : N(w)' = ((N(w) - One(Head(ready).who = w))
                          + One(w = "reader" /\ reader = "waiting")) + CountIn(<<>>, Kind(w))
  BY NoneComes, PutFlow DEF Runs
<1>2. Head(ready).who = "runner" BY CallbackKinds DEF Runs
<1>3. \A w : CountIn(<<>>, Kind(w)) = 0 /\ P(w)' = P(w) BY NoneComes, PuttersStay
<1>4. /\ N("runner")' = ((N("runner") - 1) + 0) + 0
      /\ N("done")' = ((N("done") - 0) + 0) + 0
      /\ N("start")' = ((N("start") - 0) + 0) + 0
      /\ N("stop")' = ((N("stop") - 0) + 0) + 0
      /\ N("reader")' = ((N("reader") - 0) + Waking) + 0
  BY <1>1, <1>2, <1>3, KindOnes
<1>5. AreNat /\ P("runner")' = P("runner") BY <1>1, <1>3, RunnerCounts DEF AreNat, Keeps
<1>6. Keeps({}) BY <1>1, NoneComes
<1>7. Waking \in {0, 1} BY KindOnes
<1>8. Moves(-1, 0, 0, 0, Waking) BY <1>4, <1>5, <1>7 DEF Moves, AreNat
<1>9. QED BY <1>5, <1>6, <1>8

(* The task puts its last event into the queue and ends.                   *)
LEMMA RunnerPutsLastMoves ==
  ASSUME TypeOK, Runs(Runner), UNCHANGED putters, NEW item,
         NEW how \in {"returned", "raised", "cancelled"}, Put(item, TaskEnds(how))
  PROVE  /\ Keeps({Callback("done", HowEnded[how], run)})
         /\ Moves(-1, 1, 0, Asking, Waking) /\ P("runner")' = P("runner")
<1> DEFINE then == TaskEnds(how)
<1>1. /\ then \in Seq(Callbacks)
      /\ \A w : CountIn(then, Kind(w)) = One(w = "done") + One(w = "stop" /\ owner = "awaiting")
      /\ Announced(then) = {Callback("done", HowEnded[how], run)}
  BY TaskEndsComes
<1> HIDE DEF then
<1>2. Put(item, then) BY DEF then
<1>3. /\ Keeps(Announced(then))
      /\ \A w : N(w)' = ((N(w) - One(Head(ready).who = w))
                          + One(w = "reader" /\ reader = "waiting")) + CountIn(then, Kind(w))
  BY <1>1, <1>2, PutFlow DEF Runs
<1>4. Head(ready).who = "runner" BY CallbackKinds DEF Runs
<1>11. /\ CountIn(then, Kind("runner")) = 0 + 0 /\ CountIn(then, Kind("done")) = 1 + 0
       /\ CountIn(then, Kind("start")) = 0 + 0 /\ CountIn(then, Kind("stop")) = 0 + Asking
       /\ CountIn(then, Kind("reader")) = 0 + 0
  BY <1>1 DEF One, Asking
<1>5. /\ N("runner")' = ((N("runner") - 1) + 0) + (0 + 0)
      /\ N("done")' = ((N("done") - 0) + 0) + (1 + 0)
      /\ N("start")' = ((N("start") - 0) + 0) + (0 + 0)
      /\ N("stop")' = ((N("stop") - 0) + 0) + (0 + Asking)
      /\ N("reader")' = ((N("reader") - 0) + Waking) + (0 + 0)
  BY <1>3, <1>4, <1>11, KindOnes
<1>6. AreNat /\ P("runner")' = P("runner")
  BY <1>3, PuttersStay, RunnerCounts DEF AreNat, Keeps
<1>7. Waking \in {0, 1} /\ Asking \in {0, 1} BY KindOnes
<1>8. Moves(-1, 1, 0, Asking, Waking) BY <1>5, <1>6, <1>7 DEF Moves, AreNat
<1>9. Keeps({Callback("done", HowEnded[how], run)}) BY <1>1, <1>3
<1>10. QED BY <1>6, <1>8, <1>9

(* The task ends.                                                          *)
LEMMA RunnerEndsMoves ==
  ASSUME TypeOK, Runs(Runner), UNCHANGED putters,
         NEW how \in {"returned", "raised", "cancelled"},
         ready' = Tail(ready) \o TaskEnds(how)
  PROVE  /\ Keeps({Callback("done", HowEnded[how], run)})
         /\ Moves(-1, 1, 0, Asking, 0) /\ P("runner")' = P("runner")
<1>1. /\ Keeps({Callback("done", HowEnded[how], run)})
      /\ \A w : N(w)' = (N(w) - One(Head(ready).who = w))
                         + (One(w = "done") + One(w = "stop" /\ owner = "awaiting"))
  BY EndsFlow DEF Runs
<1>2. Head(ready).who = "runner" BY CallbackKinds DEF Runs
<1>3. /\ N("runner")' = (N("runner") - 1) + (0 + 0)
      /\ N("done")' = (N("done") - 0) + (1 + 0)
      /\ N("start")' = (N("start") - 0) + (0 + 0)
      /\ N("stop")' = (N("stop") - 0) + (0 + Asking)
      /\ N("reader")' = (N("reader") - 0) + (0 + 0)
  BY <1>1, <1>2, KindOnes
<1>4. AreNat /\ P("runner")' = P("runner")
  BY <1>1, PuttersStay, RunnerCounts DEF AreNat, Keeps
<1>5. Asking \in {0, 1} BY KindOnes
<1>6. Moves(-1, 1, 0, Asking, 0) BY <1>3, <1>4, <1>5 DEF Moves, AreNat
<1>7. QED BY <1>1, <1>4, <1>6

(* A callback runs and schedules nothing.                                  *)
LEMMA TailMoves ==
  ASSUME TypeOK, ready # <<>>, UNCHANGED putters, ready' = Tail(ready)
  PROVE  /\ Keeps({}) /\ P("runner")' = P("runner")
         /\ Head(ready) = Runner => Moves(-1, 0, 0, 0, 0)
         /\ Head(ready) = Reader => Moves(0, 0, 0, 0, -1)
         /\ Head(ready) = Stopper => Moves(0, 0, 0, -1, 0)
         /\ Head(ready) = Starter => Moves(0, 0, -1, 0, 0)
         /\ Head(ready).who = "handler" => Moves(0, 0, 0, 0, 0)
<1>1. Keeps({}) /\ \A w : N(w)' = N(w) - One(Head(ready).who = w) BY TailFlow
<1>2. AreNat /\ P("runner")' = P("runner")
  BY <1>1, PuttersStay, RunnerCounts DEF AreNat, Keeps
<1>3. /\ Runner.who = "runner" /\ Reader.who = "reader" /\ Stopper.who = "stop"
      /\ Starter.who = "start"
  BY CallbackKinds
<1>4. CASE Head(ready) = Runner
  <2>1. /\ N("runner")' = N("runner") - 1 /\ N("done")' = N("done") - 0
        /\ N("start")' = N("start") - 0 /\ N("stop")' = N("stop") - 0
        /\ N("reader")' = N("reader") - 0
    BY <1>1, <1>3, <1>4, KindOnes
  <2>2. QED BY <1>1, <1>2, <1>3, <1>4, <2>1 DEF Moves, AreNat
<1>5. CASE Head(ready) = Reader
  <2>1. /\ N("runner")' = N("runner") - 0 /\ N("done")' = N("done") - 0
        /\ N("start")' = N("start") - 0 /\ N("stop")' = N("stop") - 0
        /\ N("reader")' = N("reader") - 1
    BY <1>1, <1>3, <1>5, KindOnes
  <2>2. QED BY <1>1, <1>2, <1>3, <1>5, <2>1 DEF Moves, AreNat
<1>6. CASE Head(ready) = Stopper
  <2>1. /\ N("runner")' = N("runner") - 0 /\ N("done")' = N("done") - 0
        /\ N("start")' = N("start") - 0 /\ N("stop")' = N("stop") - 1
        /\ N("reader")' = N("reader") - 0
    BY <1>1, <1>3, <1>6, KindOnes
  <2>2. QED BY <1>1, <1>2, <1>3, <1>6, <2>1 DEF Moves, AreNat
<1>9. CASE Head(ready) = Starter
  <2>1. /\ N("runner")' = N("runner") - 0 /\ N("done")' = N("done") - 0
        /\ N("start")' = N("start") - 1 /\ N("stop")' = N("stop") - 0
        /\ N("reader")' = N("reader") - 0
    BY <1>1, <1>3, <1>9, KindOnes
  <2>2. QED BY <1>1, <1>2, <1>3, <1>9, <2>1 DEF Moves, AreNat
<1>7. CASE Head(ready).who = "handler"
  <2>1. /\ N("runner")' = N("runner") - 0 /\ N("done")' = N("done") - 0
        /\ N("start")' = N("start") - 0 /\ N("stop")' = N("stop") - 0
        /\ N("reader")' = N("reader") - 0
    BY <1>1, <1>7, KindOnes
  <2>2. QED BY <1>1, <1>2, <1>3, <1>7, <2>1 DEF Moves, AreNat
<1>8. QED BY <1>1, <1>2, <1>4, <1>5, <1>6, <1>7, <1>9

(* A client's listener waits for room, or puts its event into the queue.   *)
LEMMA HandlerWaitsMoves ==
  ASSUME TypeOK, ready # <<>>, Head(ready).who = "handler",
         NEW c \in Handlers, WaitForRoom(c)
  PROVE  Keeps({}) /\ Moves(0, 0, 0, 0, 0) /\ P("runner")' = P("runner")
<1>1. /\ Keeps({})
      /\ \A w : N(w)' = N(w) - One(Head(ready).who = w)
      /\ \A w : P(w)' = P(w) + One(c.who = w) /\ P(w) \in Nat
  BY WaitFlow
<1>2. c.who = "handler" BY CallbackKinds
<1>3. \A w : N(w) \in Nat /\ N(w)' \in Nat BY <1>1 DEF Keeps
<1>4. /\ N("runner")' = N("runner") - 0 /\ P("runner")' = P("runner") + 0
      /\ N("done")' = N("done") - 0 /\ N("start")' = N("start") - 0
      /\ N("stop")' = N("stop") - 0 /\ N("reader")' = N("reader") - 0
  BY <1>1, <1>2, KindOnes
<1>5. P("runner") \in Nat BY <1>1
<1>6. QED BY <1>1, <1>3, <1>4, <1>5 DEF Moves, AreNat

LEMMA HandlerPutsMoves ==
  ASSUME TypeOK, ready # <<>>, Head(ready).who = "handler", UNCHANGED putters,
         NEW item, Put(item, <<>>)
  PROVE  Keeps({}) /\ Moves(0, 0, 0, 0, Waking) /\ P("runner")' = P("runner")
<1>1. /\ Keeps(Announced(<<>>))
      /\ \A w : N(w)' = ((N(w) - One(Head(ready).who = w))
                          + One(w = "reader" /\ reader = "waiting")) + CountIn(<<>>, Kind(w))
  BY NoneComes, PutFlow
<1>2. \A w : CountIn(<<>>, Kind(w)) = 0 /\ P(w)' = P(w) BY NoneComes, PuttersStay
<1>3. /\ N("runner")' = ((N("runner") - 0) + 0) + 0
      /\ N("done")' = ((N("done") - 0) + 0) + 0
      /\ N("start")' = ((N("start") - 0) + 0) + 0
      /\ N("stop")' = ((N("stop") - 0) + 0) + 0
      /\ N("reader")' = ((N("reader") - 0) + Waking) + 0
  BY <1>1, <1>2, KindOnes
<1>4. AreNat /\ P("runner")' = P("runner") BY <1>1, <1>2, RunnerCounts DEF AreNat, Keeps
<1>5. Keeps({}) BY <1>1, NoneComes
<1>6. Waking \in {0, 1} BY KindOnes
<1>7. Moves(0, 0, 0, 0, Waking) BY <1>3, <1>4, <1>6 DEF Moves, AreNat
<1>8. QED BY <1>4, <1>5, <1>7

(* A stop marker is put into the queue, and the caller may go on.          *)
GoesOn(next) == One(next # <<>>)

LEMMA GoingOn ==
  ASSUME NEW c \in {Starter, Stopper}, NEW next \in {<<>>, <<c>>}
  PROVE  /\ GoesOn(next) \in {0, 1}
         /\ \A w : CountIn(next, Kind(w)) = IF w = c.who THEN GoesOn(next) ELSE 0
<1>1. GoesOn(next) \in {0, 1} BY DEF GoesOn, One
<1>2. CASE next = <<>>
  <2>1. GoesOn(next) = 0 BY <1>2 DEF GoesOn, One
  <2>2. \A w : CountIn(next, Kind(w)) = 0 BY <1>2, NoneComes
  <2>3. QED BY <1>1, <2>1, <2>2
<1>3. CASE next # <<>>
  <2>1. GoesOn(next) = 1 /\ next = <<c>> BY <1>3 DEF GoesOn, One
  <2>2. c \in Callbacks BY CallbackKinds
  <2>3. \A w : CountIn(next, Kind(w)) = One(c.who = w) BY <2>1, <2>2, OneComes
  <2>4. \A w : One(c.who = w) = IF w = c.who THEN 1 ELSE 0 BY DEF One
  <2>5. QED BY <1>1, <2>1, <2>3, <2>4
<1>4. QED BY <1>2, <1>3

LEMMA WakeMoves ==
  ASSUME TypeOK, ready # <<>>, NEW r, NEW next \in {<<>>, <<Starter>>},
         WakeEventConsumers(r, next)
  PROVE  /\ Keeps({}) /\ LetsIn
         /\ Head(ready).who = "done" =>
              N("done") > 0 /\ Moves(0, -1, GoesOn(next), 0, Waking)
         /\ Head(ready) = Stopper =>
              N("stop") > 0 /\ Moves(0, 0, GoesOn(next), -1, Waking)
<1>1. /\ Keeps({}) /\ LetsIn /\ N(Head(ready).who) > 0
      /\ \A w : N(w)' + P(w)' = (((N(w) + P(w)) - One(Head(ready).who = w))
                                   + One(w = "reader" /\ reader = "waiting"))
                                   + CountIn(next, Kind(w))
  BY WakeFlow
<1>2. \A w : N(w) \in Nat /\ N(w)' \in Nat BY <1>1 DEF Keeps
<1>3. /\ \A w : P(w) \in Nat /\ P(w)' \in Nat
      /\ \A w : w \notin {"runner", "handler"} => P(w) = 0 /\ P(w)' = 0
  BY <1>1 DEF LetsIn
<1>4. AreNat BY <1>2, <1>3 DEF AreNat
<1>5. /\ P("done") = 0 /\ P("done")' = 0 /\ P("start") = 0 /\ P("start")' = 0
      /\ P("stop") = 0 /\ P("stop")' = 0 /\ P("reader") = 0 /\ P("reader")' = 0
  BY <1>3
<1>6. Waking \in {0, 1} BY KindOnes
<1>7. /\ GoesOn(next) \in {0, 1}
      /\ CountIn(next, Kind("start")) = GoesOn(next)
      /\ CountIn(next, Kind("runner")) = 0 /\ CountIn(next, Kind("done")) = 0
      /\ CountIn(next, Kind("stop")) = 0 /\ CountIn(next, Kind("reader")) = 0
  <2>1. Starter.who = "start" BY CallbackKinds
  <2>2. QED BY <2>1, GoingOn
<1>8. CASE Head(ready).who = "done"
  <2>1. /\ N("runner")' + P("runner")' = (((N("runner") + P("runner")) - 0) + 0) + 0
        /\ N("done")' + 0 = (((N("done") + 0) - 1) + 0) + 0
        /\ N("start")' + 0 = (((N("start") + 0) - 0) + 0) + GoesOn(next)
        /\ N("stop")' + 0 = (((N("stop") + 0) - 0) + 0) + 0
        /\ N("reader")' + 0 = (((N("reader") + 0) - 0) + Waking) + 0
    BY <1>1, <1>5, <1>7, <1>8 DEF One, Waking
  <2>2. Moves(0, -1, GoesOn(next), 0, Waking) BY <1>4, <1>6, <1>7, <2>1 DEF Moves, AreNat
  <2>3. Head(ready) # Stopper BY <1>8, CallbackKinds
  <2>4. QED BY <1>1, <1>8, <2>2, <2>3
<1>9. CASE Head(ready) = Stopper
  <2>1. Head(ready).who = "stop" BY <1>9, CallbackKinds
  <2>2. /\ N("runner")' + P("runner")' = (((N("runner") + P("runner")) - 0) + 0) + 0
        /\ N("done")' + 0 = (((N("done") + 0) - 0) + 0) + 0
        /\ N("start")' + 0 = (((N("start") + 0) - 0) + 0) + GoesOn(next)
        /\ N("stop")' + 0 = (((N("stop") + 0) - 1) + 0) + 0
        /\ N("reader")' + 0 = (((N("reader") + 0) - 0) + Waking) + 0
    BY <1>1, <1>5, <1>7, <2>1 DEF One, Waking
  <2>3. Moves(0, 0, GoesOn(next), -1, Waking) BY <1>4, <1>6, <1>7, <2>2 DEF Moves, AreNat
  <2>4. QED BY <1>1, <2>1, <2>3
<1>10. QED BY <1>1, <1>8, <1>9

(* The reader takes something out of the queue.                            *)
LEMMA GetMoves ==
  ASSUME TypeOK, Runs(Reader), putters' = OtherPutters, NEW stays \in BOOLEAN,
         ready' = (IF stays THEN ready ELSE Tail(ready)) \o FirstPutter
  PROVE  /\ Keeps({}) /\ LetsIn /\ N("reader") > 0
         /\ stays => Moves(0, 0, 0, 0, 0)
         /\ ~stays => Moves(0, 0, 0, 0, -1)
<1>1. /\ Keeps({}) /\ LetsIn /\ N(Head(ready).who) > 0
      /\ \A w : N(w)' + P(w)' = (N(w) + P(w)) - One(~stays /\ Head(ready).who = w)
  BY GetFlow DEF Runs
<1>2. Head(ready).who = "reader" BY CallbackKinds DEF Runs
<1>3. \A w : N(w) \in Nat /\ N(w)' \in Nat BY <1>1 DEF Keeps
<1>4. /\ \A w : P(w) \in Nat /\ P(w)' \in Nat
      /\ \A w : w \notin {"runner", "handler"} => P(w) = 0 /\ P(w)' = 0
  BY <1>1 DEF LetsIn
<1>5. AreNat BY <1>3, <1>4 DEF AreNat
<1>6. /\ P("done") = 0 /\ P("done")' = 0 /\ P("start") = 0 /\ P("start")' = 0
      /\ P("stop") = 0 /\ P("stop")' = 0 /\ P("reader") = 0 /\ P("reader")' = 0
  BY <1>4
<1>7. /\ One(~stays /\ Head(ready).who = "runner") = 0
      /\ One(~stays /\ Head(ready).who = "done") = 0
      /\ One(~stays /\ Head(ready).who = "start") = 0
      /\ One(~stays /\ Head(ready).who = "stop") = 0
      /\ One(~stays /\ Head(ready).who = "reader") = IF stays THEN 0 ELSE 1
  BY <1>2 DEF One
<1>8. /\ N("runner")' + P("runner")' = (N("runner") + P("runner")) - 0
      /\ N("done")' + 0 = (N("done") + 0) - 0
      /\ N("start")' + 0 = (N("start") + 0) - 0
      /\ N("stop")' + 0 = (N("stop") + 0) - 0
      /\ N("reader")' + 0 = (N("reader") + 0) - (IF stays THEN 0 ELSE 1)
  BY <1>1, <1>6, <1>7
<1>9. /\ stays => Moves(0, 0, 0, 0, 0)
      /\ ~stays => Moves(0, 0, 0, 0, -1)
  BY <1>5, <1>8 DEF Moves, AreNat
<1>10. QED BY <1>1, <1>2, <1>9

(* The task notices that it is cancelled.                                  *)
LEMMA CancelledMoves ==
  ASSUME TypeOK, Runs(Runner), NEW passesOn \in BOOLEAN,
         putters' = IF passesOn THEN OtherPutters ELSE putters,
         ready' = Tail(ready) \o (IF passesOn THEN FirstPutter ELSE <<>>)
                              \o TaskEnds("cancelled")
  PROVE  /\ Keeps({Callback("done", HowEnded["cancelled"], run)}) /\ LetsIn
         /\ N("runner") > 0 /\ Moves(-1, 1, 0, Asking, 0)
<1>1. /\ Keeps({Callback("done", HowEnded["cancelled"], run)}) /\ LetsIn
      /\ N(Head(ready).who) > 0
      /\ \A w : N(w)' + P(w)' = ((N(w) + P(w)) - One(Head(ready).who = w))
                                  + (One(w = "done") + One(w = "stop" /\ owner = "awaiting"))
  BY CancelFlow DEF Runs
<1>2. Head(ready).who = "runner" BY CallbackKinds DEF Runs
<1>3. \A w : N(w) \in Nat /\ N(w)' \in Nat BY <1>1 DEF Keeps
<1>4. /\ \A w : P(w) \in Nat /\ P(w)' \in Nat
      /\ \A w : w \notin {"runner", "handler"} => P(w) = 0 /\ P(w)' = 0
  BY <1>1 DEF LetsIn
<1>5. AreNat BY <1>3, <1>4 DEF AreNat
<1>6. /\ P("done") = 0 /\ P("done")' = 0 /\ P("start") = 0 /\ P("start")' = 0
      /\ P("stop") = 0 /\ P("stop")' = 0 /\ P("reader") = 0 /\ P("reader")' = 0
  BY <1>4
<1>7. /\ N("runner")' + P("runner")' = ((N("runner") + P("runner")) - 1) + (0 + 0)
      /\ N("done")' + 0 = ((N("done") + 0) - 0) + (1 + 0)
      /\ N("start")' + 0 = ((N("start") + 0) - 0) + (0 + 0)
      /\ N("stop")' + 0 = ((N("stop") + 0) - 0) + (0 + Asking)
      /\ N("reader")' + 0 = ((N("reader") + 0) - 0) + (0 + 0)
  BY <1>1, <1>2, <1>6 DEF One, Asking
<1>8. Asking \in {0, 1} BY KindOnes
<1>9. Moves(-1, 1, 0, Asking, 0) BY <1>5, <1>7, <1>8 DEF Moves, AreNat
<1>10. QED BY <1>1, <1>2, <1>9

(* task.cancel() makes the task ready, wherever it waits.                  *)
LEMMA StopMoves ==
  ASSUME TypeOK, Runs(Stopper), putters' = Without(putters, Runner),
         ready' = Tail(ready) \o (IF IsReady(Runner) THEN <<>> ELSE <<Runner>>)
  PROVE  /\ Keeps({}) /\ AreNat
         /\ putters' \in Seq(Handlers \cup {Runner})
         /\ P("runner")' = P("runner") - One(P("runner") > 0)
         /\ N("runner")' = N("runner") + One(N("runner") = 0)
         /\ N("stop") > 0 /\ N("stop")' = N("stop") - 1
         /\ N("done")' = N("done") /\ N("start")' = N("start") /\ N("reader")' = N("reader")
<1>1. /\ Keeps({}) /\ N(Head(ready).who) > 0
      /\ putters' \in Seq(Handlers \cup {Runner})
      /\ \A w : P(w)' = P(w) - One(w = "runner" /\ P("runner") > 0)
      /\ \A w : N(w)' = (N(w) - One(Head(ready).who = w))
                         + One(w = "runner" /\ N("runner") = 0)
  BY StopFlow DEF Runs
<1>2. Head(ready).who = "stop" BY CallbackKinds DEF Runs
<1>3. \A w : N(w) \in Nat /\ N(w)' \in Nat BY <1>1 DEF Keeps
<1>4. P("runner")' = P("runner") - One(P("runner") > 0) BY <1>1 DEF One
<1>5. P("runner") \in Nat BY RunnerCounts
<1>6. P("runner")' \in Nat BY <1>4, <1>5 DEF One
<1>7. AreNat BY <1>3, <1>5, <1>6 DEF AreNat
<1>8. /\ N("runner")' = (N("runner") - 0) + One(N("runner") = 0)
      /\ N("stop")' = (N("stop") - 1) + 0
      /\ N("done")' = (N("done") - 0) + 0
      /\ N("start")' = (N("start") - 0) + 0
      /\ N("reader")' = (N("reader") - 0) + 0
  BY <1>1, <1>2 DEF One
<1>9. /\ N("runner")' = N("runner") + One(N("runner") = 0)
      /\ N("stop")' = N("stop") - 1
      /\ N("done")' = N("done") /\ N("start")' = N("start") /\ N("reader")' = N("reader")
  BY <1>7, <1>8 DEF AreNat
<1>10. QED BY <1>1, <1>2, <1>4, <1>7, <1>9

(* start() makes a new task ready, and new queues; the caller may go on.   *)
LEMMA StartMoves ==
  ASSUME TypeOK, Runs(Starter), putters' = <<>>, NEW next \in {<<>>, <<Stopper>>},
         ready' = next \o Append(Tail(ready), Runner)
  PROVE  /\ Keeps({}) /\ AreNat
         /\ P("runner")' = 0 /\ N("runner")' = N("runner") + 1
         /\ N("start") > 0 /\ N("start")' = N("start") - 1
         /\ N("done")' = N("done") /\ N("stop")' = N("stop") + GoesOn(next)
         /\ N("reader")' = N("reader")
<1>1. /\ Runner \in Callbacks /\ Runner.who = "runner" BY CallbackKinds
<1>2. /\ <<Runner>> \in Seq(Callbacks) /\ Elements(<<Runner>>) = {Runner}
      /\ \A w : CountIn(<<Runner>>, Kind(w)) = One(Runner.who = w)
  BY <1>1, OneComes
<1>3. Announced(<<Runner>>) = {} BY <1>1, <1>2 DEF Announced
<1>4. ready # <<>> /\ ready' = next \o (Tail(ready) \o <<Runner>>)
  <2>1. Tail(ready) \in Seq(Callbacks) BY DEF TypeOK, Runs
  <2>2. Append(Tail(ready), Runner) = Tail(ready) \o <<Runner>> BY <1>1, <2>1
  <2>3. QED BY <2>2 DEF Runs
<1>5. /\ Keeps({}) /\ N(Head(ready).who) > 0
      /\ \A w : N(w)' = ((N(w) - One(Head(ready).who = w)) + CountIn(<<Runner>>, Kind(w)))
                         + CountIn(next, Kind(w))
  <2>1. next \in {<<>>, <<Starter>>, <<Stopper>>} OBVIOUS
  <2>2. QED BY <1>2, <1>3, <1>4, <2>1, ReadyGoesOn
<1>6. \A w : N(w) \in Nat /\ N(w)' \in Nat BY <1>5 DEF Keeps
<1>7. Head(ready).who = "start" BY CallbackKinds DEF Runs
<1>8. \A w : P(w)' = 0 BY NoneComes DEF P
<1>9. AreNat BY <1>6, <1>8, RunnerCounts DEF AreNat
<1>10. /\ GoesOn(next) \in {0, 1}
       /\ CountIn(next, Kind("stop")) = GoesOn(next)
       /\ CountIn(next, Kind("runner")) = 0 /\ CountIn(next, Kind("done")) = 0
       /\ CountIn(next, Kind("start")) = 0 /\ CountIn(next, Kind("reader")) = 0
  <2>1. Stopper.who = "stop" BY CallbackKinds
  <2>2. QED BY <2>1, GoingOn
<1>11. /\ N("runner")' = ((N("runner") - 0) + 1) + 0
       /\ N("start")' = ((N("start") - 1) + 0) + 0
       /\ N("done")' = ((N("done") - 0) + 0) + 0
       /\ N("stop")' = ((N("stop") - 0) + 0) + GoesOn(next)
       /\ N("reader")' = ((N("reader") - 0) + 0) + 0
  BY <1>1, <1>2, <1>5, <1>7, <1>10 DEF One
<1>12. /\ N("runner")' = N("runner") + 1 /\ N("start")' = N("start") - 1
       /\ N("done")' = N("done") /\ N("stop")' = N("stop") + GoesOn(next)
       /\ N("reader")' = N("reader")
  BY <1>9, <1>10, <1>11 DEF AreNat
<1>13. QED BY <1>5, <1>7, <1>8, <1>9, <1>12

(* Something outside the loop makes a callback ready.                      *)
LEMMA WakesMoves ==
  ASSUME TypeOK, NEW c \in {Runner, Reader, Starter, Stopper} \cup Handlers, Wakes(c)
  PROVE  /\ Keeps({}) /\ P("runner")' = P("runner")
         /\ c = Runner => Moves(1, 0, 0, 0, 0)
         /\ c = Starter => Moves(0, 0, 1, 0, 0)
         /\ c = Stopper => Moves(0, 0, 0, 1, 0)
         /\ c = Reader => Moves(0, 0, 0, 0, 1)
         /\ c \in Handlers => Moves(0, 0, 0, 0, 0)
<1>1. /\ c \in Callbacks /\ c.who # "done"
      /\ Runner.who = "runner" /\ Reader.who = "reader"
      /\ Starter.who = "start" /\ Stopper.who = "stop"
      /\ c \in Handlers => c.who = "handler"
  BY CallbackKinds
<1>2. ready' = Append(ready, c) /\ UNCHANGED putters BY DEF Wakes
<1>3. /\ ready' \in Seq(Callbacks)
      /\ \A w : N(w)' = N(w) + One(c.who = w)
      /\ \A w : N(w) \in Nat /\ N(w)' \in Nat
      /\ Announced(ready)' \subseteq Announced(ready)
      /\ EndsBeforeRunners(ready) => EndsBeforeRunners(ready)'
  BY <1>1, <1>2, ReadyWakes
<1>4. Keeps({}) BY <1>3 DEF Keeps
<1>5. AreNat /\ P("runner")' = P("runner")
  BY <1>2, <1>3, PuttersStay, RunnerCounts DEF AreNat
<1>6. /\ N("runner")' = N("runner") + One(c.who = "runner")
      /\ N("done")' = N("done") + One(c.who = "done")
      /\ N("start")' = N("start") + One(c.who = "start")
      /\ N("stop")' = N("stop") + One(c.who = "stop")
      /\ N("reader")' = N("reader") + One(c.who = "reader")
  BY <1>3
<1>7. Moves(One(c.who = "runner"), One(c.who = "done"), One(c.who = "start"),
            One(c.who = "stop"), One(c.who = "reader"))
  BY <1>5, <1>6 DEF Moves, AreNat, One
<1>8. QED BY <1>1, <1>4, <1>5, <1>7 DEF One

-----------------------------------------------------------------------------
(* Types and control: one lemma for every action *)

USE DEF Attempting

(* A step of the loop is taken by the callback at its head.                *)
LEMMA HeadsCount ==
  ASSUME TypeOK
  PROVE  /\ Runs(Runner) => ready # <<>> /\ N("runner") > 0
         /\ Runs(Reader) => ready # <<>> /\ N("reader") > 0
         /\ Runs(Starter) => ready # <<>> /\ N("start") > 0
         /\ Runs(Stopper) => ready # <<>> /\ N("stop") > 0
<1>1. ASSUME ready # <<>> PROVE N(Head(ready).who) > 0
  <2>1. ready \in Seq(Callbacks) BY DEF TypeOK
  <2>2. Head(ready) \in Elements(ready) BY <1>1, <2>1, ElementsTail
  <2>3. CountIn(ready, Kind(Head(ready).who)) # 0 BY <2>1, <2>2, CountsOfKinds
  <2>4. CountIn(ready, Kind(Head(ready).who)) \in Nat BY <2>1, CountsOfKinds
  <2>5. QED BY <2>3, <2>4 DEF N
<1>2. QED BY <1>1, CallbackKinds DEF Runs

(* An event is put into a queue that has room.                             *)
LEMMA PutTypes ==
  ASSUME TypeOK, NEW e \in AllEvents \cup {0}, NEW then, Put(Item(e), then)
  PROVE  /\ queue' \in Seq([event : AllEvents \cup {0}, of : 0 .. MaxStarts])
         /\ Len(queue') <= MaxSize
         /\ reader' \in {"idle", "waiting", "reading", "busy", "ended", "failed"}
         /\ reader' = IF reader = "waiting" THEN "reading" ELSE reader
<1> DEFINE Q == [event : AllEvents \cup {0}, of : 0 .. MaxStarts]
<1>1. Item(e) \in Q BY ConnectorAssumption DEF Item
<1>2. queue \in Seq(Q) /\ queue' = Append(queue, Item(e)) /\ ~(Len(queue) >= MaxSize)
  BY DEF TypeOK, Put, IsFull
<1> HIDE DEF Q
<1>3. queue' \in Seq(Q) /\ Len(queue') = Len(queue) + 1 /\ Len(queue) \in Nat BY <1>1, <1>2
<1>4. Len(queue') <= MaxSize BY <1>2, <1>3, ConnectorAssumption
<1>5. reader' = IF reader = "waiting" THEN "reading" ELSE reader BY DEF Put
<1>6. QED BY <1>3, <1>4, <1>5 DEF TypeOK, Q

(* When the task runs, it is nowhere else and no end is announced.         *)
LEMMA RunnerIsAlone ==
  ASSUME TypeOK, ControlInv, Runs(Runner)
  PROVE  /\ N("runner") = 1 /\ P("runner") = 0 /\ N("done") = 0
         /\ IsRunning /\ runner # "done" /\ owner \notin {"new", "stopped"}
         /\ owner = "awaiting" => N("start") = 0 /\ N("stop") = 0
         /\ ready # <<>>
<1>1. N("runner") > 0 /\ ready # <<>> BY HeadsCount
<1>2. \A w : N(w) \in Nat /\ P(w) \in Nat BY RunnerCounts
<1>3. TaskInv /\ CallInv BY DEF ControlInv
<1>4. /\ N("runner") \in Nat /\ P("runner") \in Nat /\ N("done") \in Nat
      /\ N("start") \in Nat /\ N("stop") \in Nat
  BY <1>2
<1>5. N("runner") = 1 /\ P("runner") = 0 BY <1>1, <1>3, <1>4 DEF TaskInv
<1>6. IsRunning BY <1>1, <1>3, <1>4 DEF TaskInv
<1>7. runner # "done" BY <1>6 DEF IsRunning
<1>8. N("done") = 0
  <2>1. ready \in Seq(Callbacks) /\ Head(ready).who = "runner"
    BY CallbackKinds DEF TypeOK, Runs
  <2>2. EndsBeforeRunners(ready) BY DEF ControlInv, OrderInv
  <2>3. Announced(Tail(ready)) = {} BY <1>1, <2>1, <2>2, OrderTail
  <2>4. Elements(ready) = Elements(Tail(ready)) \cup {Head(ready)}
    BY <1>1, <2>1, ElementsTail
  <2>5. Announced(ready) = {} BY <2>1, <2>3, <2>4 DEF Announced
  <2>6. QED BY <2>5, RunnerCounts
<1>9. owner \notin {"new", "stopped"} BY <1>3, <1>6 DEF CallInv
<1>10. owner = "awaiting" => N("start") = 0 BY <1>3, <1>4 DEF CallInv
<1>11. owner = "awaiting" => N("stop") = 0 BY <1>3, <1>4, <1>7 DEF CallInv
<1>12. QED BY <1>1, <1>5, <1>6, <1>7, <1>8, <1>9, <1>10, <1>11

(* The counts when the task has taken its step.                            *)
LEMMA RunnerMoved ==
  ASSUME TypeOK, ControlInv, Runs(Runner), NEW e \in {0, 1}, NEW s \in {0, 1}, NEW w \in {0, 1},
         NEW r \in {-1, 0}, Moves(r, e, 0, s, w), s = 1 => owner = "awaiting"
  PROVE  /\ N("runner")' + P("runner")' = 1 + r /\ N("done")' = e
         /\ N("start")' = N("start") /\ N("start")' + N("stop")' <= 1
         /\ AreNat /\ (N("stop")' > 0 => owner # "stopped")
         /\ (N("stop")' > 0 /\ owner = "awaiting" => s = 1)
         /\ N("reader")' = N("reader") + w
<1>1. /\ N("runner") = 1 /\ P("runner") = 0 /\ N("done") = 0
      /\ owner \notin {"new", "stopped"}
      /\ owner = "awaiting" => N("start") = 0 /\ N("stop") = 0
  BY RunnerIsAlone
<1>2. /\ AreNat
      /\ N("runner")' + P("runner")' = 1 + 0 + r
      /\ N("done")' = 0 + e /\ N("start")' = N("start") + 0
      /\ N("stop")' = N("stop") + s /\ N("reader")' = N("reader") + w
  BY <1>1 DEF Moves
<1>3. N("start") \in Nat /\ N("stop") \in Nat /\ N("start") + N("stop") <= 1
  BY <1>2 DEF AreNat, ControlInv, CallInv
<1>4. /\ N("runner")' + P("runner")' = 1 + r /\ N("done")' = e /\ N("start")' = N("start")
  BY <1>2 DEF AreNat
<1>5. CASE s = 0
  <2>1. N("stop")' = N("stop") BY <1>2, <1>3, <1>5
  <2>2. N("start")' + N("stop")' <= 1 BY <1>3, <1>4, <2>1
  <2>3. N("stop")' > 0 /\ owner = "awaiting" => s = 1 BY <1>1, <2>1
  <2>4. QED BY <1>1, <1>2, <1>4, <2>2, <2>3
<1>6. CASE s = 1
  <2>1. N("stop")' = 1 /\ N("start")' = 0 BY <1>1, <1>2, <1>6
  <2>2. QED BY <1>1, <1>2, <1>4, <1>6, <2>1
<1>7. QED BY <1>5, <1>6

(* Where no task is ready, none is before an announcement.                 *)
LEMMA NoRunnersOrdered ==
  ASSUME NEW s \in Seq(Callbacks), CountIn(s, Kind("runner")) = 0
  PROVE  EndsBeforeRunners(s)
<1>1. \A c \in Elements(s) : c.who # "runner" BY CountsOfKinds
<1>2. QED BY <1>1 DEF EndsBeforeRunners, Elements

(* What any step of the task must show of itself.                          *)
LEMMA RunnerStepControl ==
  ASSUME TypeOK, ControlInv, Runs(Runner), NEW e \in {0, 1}, NEW s \in {0, 1}, NEW w \in {0, 1},
         NEW r \in {-1, 0}, Moves(r, e, 0, s, w), NEW ends, Keeps(ends), UNCHANGED owner,
         s = 1 => owner = "awaiting" /\ e = 1, r = 0 => ends = {},
         r = 0 => runner' \in {"emitting", "emittingLast"},
         e = 1 => runner' = "done",
         \/ w = Waking /\ reader' = IF reader = "waiting" THEN "reading" ELSE reader
         \/ w = 0 /\ UNCHANGED reader,
         LinkInv', MadeInv'
  PROVE  ControlInv'
<1>1. owner \notin {"new", "stopped"} BY RunnerIsAlone
<1>2. /\ N("runner")' + P("runner")' = 1 + r /\ N("done")' = e
      /\ N("start")' = N("start") /\ N("start")' + N("stop")' <= 1
      /\ AreNat /\ (N("stop")' > 0 => owner # "stopped")
      /\ (N("stop")' > 0 /\ owner = "awaiting" => s = 1)
      /\ N("reader")' = N("reader") + w
  BY RunnerMoved
<1>3. TaskInv'
  <2>1. CASE r = 0
    <3>1. N("runner")' + P("runner")' = 1 /\ N("done")' <= 1 /\ (N("done")' > 0 => e = 1)
      BY <1>2, <2>1
    <3>2. runner' \in {"emitting", "emittingLast"} BY <2>1
    <3>3. QED BY <3>1, <3>2 DEF TaskInv, IsRunning
  <2>2. CASE r = -1
    <3>1. /\ N("runner")' + P("runner")' = 0 /\ P("runner")' = 0
          /\ N("done")' <= 1 /\ (N("done")' > 0 => e = 1)
      BY <1>2, <2>2 DEF AreNat
    <3>2. QED BY <3>1 DEF TaskInv
  <2>3. QED BY <2>1, <2>2
<1>4. CallInv'
  <2>1. N("start")' + N("stop")' <= 1 BY <1>2
  <2>2. N("start")' > 0 => owner' \in {"new", "started", "stopped", "raised"}
    BY <1>2 DEF ControlInv, CallInv
  <2>3. N("stop")' > 0 /\ owner' = "awaiting" => runner' = "done" BY <1>2
  <2>4. QED BY <1>1, <1>2, <2>1, <2>2, <2>3 DEF CallInv
<1>5. StartInv'
  <2>1. N("start")' > 0 => ~Iterating BY <1>2 DEF ControlInv, StartInv
  <2>2. Iterating' => Iterating BY DEF Iterating
  <2>3. QED BY <2>1, <2>2 DEF StartInv
<1>6. ReaderInv'
  <2>1. N("reader") \in Nat /\ N("reader") <= One(reader = "reading")
    BY <1>2 DEF AreNat, ControlInv, ReaderInv
  <2>2. CASE w = Waking /\ reader' = IF reader = "waiting" THEN "reading" ELSE reader
    <3>1. CASE reader = "waiting"
      <4>1. N("reader")' = 1 /\ reader' = "reading" BY <1>2, <2>1, <2>2, <3>1 DEF One, Waking
      <4>2. QED BY <4>1 DEF ReaderInv, One
    <3>2. CASE reader # "waiting"
      <4>1. N("reader")' = N("reader") /\ reader' = reader
        BY <1>2, <2>1, <2>2, <3>2 DEF One, Waking
      <4>2. QED BY <2>1, <4>1 DEF ReaderInv, One
    <3>3. QED BY <3>1, <3>2
  <2>3. CASE w = 0 /\ UNCHANGED reader
    <3>1. N("reader")' = N("reader") BY <1>2, <2>1, <2>3
    <3>2. QED BY <2>1, <2>3, <3>1 DEF ReaderInv, One
  <2>4. QED BY <2>2, <2>3
<1>7. OrderInv'
  <2>1. CASE r = 0 BY <2>1 DEF Keeps, ControlInv, OrderInv
  <2>2. CASE r = -1
    <3>1. N("runner")' = 0 BY <1>2, <2>2 DEF AreNat
    <3>2. ready' \in Seq(Callbacks) BY DEF Keeps
    <3>3. CountIn(ready', Kind("runner")) = 0 BY <3>1 DEF N
    <3>4. EndsBeforeRunners(ready') BY <3>2, <3>3, NoRunnersOrdered
    <3>5. QED BY <3>4 DEF OrderInv
  <2>3. QED BY <2>1, <2>2
<1>8. QED BY <1>3, <1>4, <1>5, <1>6, <1>7 DEF ControlInv

(* The task emits an event: it waits for room, goes on or ends.            *)
LEMMA RunnerEmitsControl ==
  ASSUME TypeOK, ControlInv, Runs(Runner), ~ConnectionOpen,
         NEW e \in AllEvents \cup {0}, NEW pc \in {"emitting", "emittingLast"},
         RunnerEmits(e, pc),
         UNCHANGED <<config, run, cancelling, failure, stopRequested, clientVars, owner,
                     historyVars, raised>>,
         made' \in Seq(Payloads \cup {Synthetic, ErrorRaw}), Len(made') <= MaxMade + 1
  PROVE  TypeOK' /\ ControlInv'
<1>1. ready # <<>> BY HeadsCount
<1>2. UNCHANGED owner /\ ~ConnectionOpen' BY DEF ConnectionOpen, clientVars
<1>3. CASE WaitForRoom(Runner) /\ runner' = pc /\ holding' = e
  <2>1. Keeps({}) /\ Moves(0, 0, 0, 0, 0) BY <1>3, RunnerWaitsMoves
  <2>2. putters' \in Seq(Handlers \cup {Runner}) BY <1>1, <1>3, WaitFlow
  <2>3. UNCHANGED <<queue, reader>> BY <1>3 DEF WaitForRoom
  <2>4. LinkInv' BY <1>2 DEF LinkInv
  <2>5. MadeInv' BY <1>3 DEF MadeInv, One
  <2>6. ControlInv' BY <1>2, <1>3, <2>1, <2>3, <2>4, <2>5, RunnerStepControl
  <2>7. TypeOK'
    BY <1>3, <2>1, <2>2, <2>3 DEF TypeOK, Keeps, RunnerStates, clientVars, historyVars
  <2>8. QED BY <2>6, <2>7
<1>4. CASE /\ Put(Item(e), IF AfterEmission(pc) = "done" THEN TaskEnds("returned") ELSE <<>>)
           /\ runner' = AfterEmission(pc) /\ holding' = 0
           /\ UNCHANGED putters
  <2>1. CASE AfterEmission(pc) = "done"
    <3>1. Put(Item(e), TaskEnds("returned")) /\ runner' = "done" BY <1>4, <2>1
    <3>2. /\ Keeps({Callback("done", HowEnded["returned"], run)})
          /\ Moves(-1, 1, 0, Asking, Waking)
      BY <1>4, <3>1, RunnerPutsLastMoves
    <3>3. /\ queue' \in Seq([event : AllEvents \cup {0}, of : 0 .. MaxStarts])
          /\ Len(queue') <= MaxSize
          /\ reader' \in {"idle", "waiting", "reading", "busy", "ended", "failed"}
          /\ reader' = IF reader = "waiting" THEN "reading" ELSE reader
      BY <3>1, PutTypes
    <3>4. LinkInv' BY <1>2 DEF LinkInv
    <3>5. MadeInv' BY <3>1 DEF MadeInv, One
    <3>6. Waking \in {0, 1} /\ Asking \in {0, 1} BY KindOnes
    <3>7. Asking = 1 => owner = "awaiting" BY DEF Asking, One
    <3>8. ControlInv' BY <1>2, <3>1, <3>2, <3>3, <3>4, <3>5, <3>6, <3>7, RunnerStepControl
    <3>9. TypeOK'
      BY <1>4, <3>1, <3>2, <3>3 DEF TypeOK, Keeps, RunnerStates, clientVars, historyVars
    <3>10. QED BY <3>8, <3>9
  <2>2. CASE AfterEmission(pc) # "done"
    <3>1. Put(Item(e), <<>>) /\ runner' = "sleeping" BY <1>4, <2>2 DEF AfterEmission
    <3>2. Keeps({}) /\ Moves(-1, 0, 0, 0, Waking) BY <1>4, <3>1, RunnerPutsMoves
    <3>3. /\ queue' \in Seq([event : AllEvents \cup {0}, of : 0 .. MaxStarts])
          /\ Len(queue') <= MaxSize
          /\ reader' \in {"idle", "waiting", "reading", "busy", "ended", "failed"}
          /\ reader' = IF reader = "waiting" THEN "reading" ELSE reader
      BY <3>1, PutTypes
    <3>4. LinkInv' BY <1>2 DEF LinkInv
    <3>5. MadeInv' BY <3>1 DEF MadeInv, One
    <3>6. Waking \in {0, 1} BY KindOnes
    <3>7. ControlInv' BY <1>2, <3>1, <3>2, <3>3, <3>4, <3>5, <3>6, RunnerStepControl
    <3>8. TypeOK'
      BY <1>4, <3>1, <3>2, <3>3 DEF TypeOK, Keeps, RunnerStates, clientVars, historyVars
    <3>9. QED BY <3>7, <3>8
  <2>3. QED BY <2>1, <2>2
<1>5. QED BY <1>3, <1>4 DEF RunnerEmits

(* The connection of an attempt is not open while the task has its turn,   *)
(* unless the task has been cancelled.                                     *)
LEMMA NotConnected ==
  ASSUME TypeOK, ControlInv, Runs(Runner), ~cancelling
  PROVE  ~ConnectionOpen
<1>1. N("runner") > 0 BY RunnerIsAlone
<1>2. QED BY <1>1 DEF ControlInv, LinkInv

LEMMA RunnerMakesControl ==
  ASSUME TypeOK, ControlInv, NEW at \in Attempting, RunnerAt(at),
         NEW payload \in Payloads \cup {Synthetic, ErrorRaw},
         NEW pc \in {"emitting", "emittingLast"}, RunnerMakes(payload, pc)
  PROVE  TypeOK' /\ ControlInv'
<1>1. Runs(Runner) /\ ~cancelling /\ runner \in Attempting BY DEF RunnerAt
<1>2. ~ConnectionOpen BY <1>1, NotConnected
<1>3. Len(made) \in Nat /\ Len(made) <= MaxMade + 0
  <2>1. MadeInv BY DEF ControlInv
  <2>2. One(runner \notin Attempting) = 0 BY <1>1 DEF One
  <2>3. QED BY <2>1, <2>2 DEF MadeInv, TypeOK
<1>4. MaxMade \in Nat BY ConnectorAssumption
<1>5. Len(made) + 1 \in AllEvents BY <1>3, <1>4 DEF AllEvents
<1>6. made' = Append(made, payload) BY DEF RunnerMakes
<1>7. made' \in Seq(Payloads \cup {Synthetic, ErrorRaw}) /\ Len(made') = Len(made) + 1
  BY <1>6 DEF TypeOK
<1>8. Len(made') <= MaxMade + 1 BY <1>3, <1>4, <1>7
<1>9. RunnerEmits(Len(made) + 1, pc) BY DEF RunnerMakes
<1>10. UNCHANGED <<config, run, cancelling, failure, stopRequested, clientVars, owner,
                   historyVars, raised>>
  BY DEF RunnerMakes
<1>11. QED BY <1>1, <1>2, <1>5, <1>7, <1>8, <1>9, <1>10, RunnerEmitsControl

LEMMA MakersControl ==
  ASSUME TypeOK, ControlInv,
         MockEmits \/ MissingDependency \/ CreateFails \/ ConnectionRaises
  PROVE  TypeOK' /\ ControlInv'
<1>1. CASE MockEmits
  BY <1>1, RunnerMakesControl DEF MockEmits
<1>2. CASE MissingDependency
  BY <1>2, RunnerMakesControl DEF MissingDependency
<1>3. CASE CreateFails
  BY <1>3, RunnerMakesControl DEF CreateFails
<1>4. CASE ConnectionRaises
  BY <1>4, RunnerMakesControl DEF ConnectionRaises
<1>5. QED BY <1>1, <1>2, <1>3, <1>4

LEMMA ResumesControl ==
  ASSUME TypeOK, ControlInv, ResumesEmission
  PROVE  TypeOK' /\ ControlInv'
<1>1. Runs(Runner) /\ ~cancelling BY DEF ResumesEmission
<1>2. ~ConnectionOpen BY <1>1, NotConnected
<1>3. /\ holding \in AllEvents \cup {0}
      /\ runner \in {"emitting", "emittingLast"} /\ RunnerEmits(holding, runner)
  BY DEF ResumesEmission, TypeOK
<1>4. /\ UNCHANGED <<config, run, cancelling, failure, stopRequested, clientVars, owner,
                     historyVars, raised>>
      /\ UNCHANGED made
  BY DEF ResumesEmission
<1>5. made' \in Seq(Payloads \cup {Synthetic, ErrorRaw}) /\ Len(made') <= MaxMade + 1
  BY <1>4 DEF TypeOK
<1>6. QED BY <1>1, <1>2, <1>3, <1>4, <1>5, RunnerEmitsControl

LEMMA RaisesControl ==
  ASSUME TypeOK, ControlInv, ProducerRaises
  PROVE  TypeOK' /\ ControlInv'
<1>1. Runs(Runner) /\ ~cancelling /\ runner = "loop" /\ runner' = "done"
  BY DEF ProducerRaises, RunnerAt
<1>2. ~ConnectionOpen BY <1>1, NotConnected
<1>3. /\ UNCHANGED <<config, putters, run, holding, cancelling, failure, stopRequested,
                     clientVars, owner, historyVars>>
      /\ raised' \in BOOLEAN
  BY DEF ProducerRaises
<1>4. UNCHANGED owner /\ UNCHANGED putters /\ ~ConnectionOpen'
  BY <1>2, <1>3 DEF ConnectionOpen, clientVars
<1>5. Len(made) \in Nat /\ Len(made) <= MaxMade + 0
  <2>1. MadeInv BY DEF ControlInv
  <2>2. One(runner \notin Attempting) = 0 BY <1>1 DEF One
  <2>3. QED BY <2>1, <2>2 DEF MadeInv, TypeOK
<1>6. MaxMade \in Nat BY ConnectorAssumption
<1>7. LinkInv' BY <1>4 DEF LinkInv
<1>8. Waking \in {0, 1} /\ Asking \in {0, 1} /\ (Asking = 1 => owner = "awaiting")
  BY KindOnes DEF Asking, One
<1>9. CASE Put(Item(Len(made) + 1), TaskEnds("raised")) /\ made' = Append(made, Synthetic)
  <2>1. /\ Keeps({Callback("done", HowEnded["raised"], run)})
        /\ Moves(-1, 1, 0, Asking, Waking)
    BY <1>1, <1>4, <1>9, RunnerPutsLastMoves
  <2>2. Len(made) + 1 \in AllEvents BY <1>5, <1>6 DEF AllEvents
  <2>3. /\ queue' \in Seq([event : AllEvents \cup {0}, of : 0 .. MaxStarts])
        /\ Len(queue') <= MaxSize
        /\ reader' \in {"idle", "waiting", "reading", "busy", "ended", "failed"}
        /\ reader' = IF reader = "waiting" THEN "reading" ELSE reader
    BY <1>9, <2>2, PutTypes
  <2>4. made' \in Seq(Payloads \cup {Synthetic, ErrorRaw}) /\ Len(made') = Len(made) + 1
    BY <1>9 DEF TypeOK
  <2>5. Len(made') <= MaxMade + 1 BY <1>5, <1>6, <2>4
  <2>6. MadeInv' BY <1>1, <2>5 DEF MadeInv, One
  <2>7. ControlInv' BY <1>1, <1>4, <1>7, <1>8, <2>1, <2>3, <2>6, RunnerStepControl
  <2>8. TypeOK' BY <1>1, <1>3, <2>1, <2>3, <2>4, <2>5
                DEF TypeOK, Keeps, RunnerStates, clientVars, historyVars
  <2>9. QED BY <2>7, <2>8
<1>10. CASE ready' = Tail(ready) \o TaskEnds("raised") /\ UNCHANGED <<queue, reader, made>>
  <2>1. /\ Keeps({Callback("done", HowEnded["raised"], run)})
        /\ Moves(-1, 1, 0, Asking, 0)
    BY <1>1, <1>4, <1>10, RunnerEndsMoves
  <2>2. MadeInv' BY <1>1, <1>5, <1>6, <1>10 DEF MadeInv, One
  <2>3. ControlInv' BY <1>1, <1>4, <1>7, <1>8, <1>10, <2>1, <2>2, RunnerStepControl
  <2>4. TypeOK' BY <1>1, <1>3, <1>10, <2>1
                DEF TypeOK, Keeps, RunnerStates, clientVars, historyVars
  <2>5. QED BY <2>3, <2>4
<1>11. QED BY <1>9, <1>10 DEF ProducerRaises

LEMMA LastReplaced ==
  ASSUME NEW S, NEW s \in Seq(S), NEW x \in S
  PROVE  /\ [s EXCEPT ![Len(s)] = x] \in Seq(S)
         /\ Len([s EXCEPT ![Len(s)] = x]) = Len(s)
<1>1. Len(s) \in Nat /\ DOMAIN s = 1 .. Len(s) /\ \A i \in 1 .. Len(s) : s[i] \in S
  OBVIOUS
<1> DEFINE t == [s EXCEPT ![Len(s)] = x]
           u == [i \in 1 .. Len(s) |-> IF i = Len(s) THEN x ELSE s[i]]
<1>2. t = u
  <2>1. DOMAIN t = 1 .. Len(s) BY <1>1
  <2>2. \A i \in 1 .. Len(s) : t[i] = u[i] BY <1>1
  <2>3. QED BY <2>1, <2>2
<1>3. u \in Seq(S) /\ Len(u) = Len(s)
  <2>1. u \in [1 .. Len(s) -> S] BY <1>1
  <2> HIDE DEF u
  <2>2. u \in Seq(S) BY <1>1, <2>1
  <2>3. DOMAIN u = 1 .. Len(s) /\ DOMAIN u = 1 .. Len(u) /\ Len(u) \in Nat
    BY <2>1, <2>2, LenProperties
  <2>4. Len(u) = Len(s) BY <1>1, <2>3
  <2>5. QED BY <2>2, <2>4
<1>4. QED BY <1>2, <1>3

(* The task runs up to an await and schedules nothing.                     *)
LEMMA RunnerPauses ==
  ASSUME TypeOK, ControlInv, Runs(Runner), UNCHANGED <<putters, made, owner, reader>>,
         ready' = Tail(ready), runner' # "done", runner \in Attempting,
         ConnectionOpen' => runner' = "connected"
  PROVE  Keeps({}) /\ ControlInv'
<1>1. ready # <<>> /\ Head(ready) = Runner BY DEF Runs
<1>2. Keeps({}) /\ Moves(-1, 0, 0, 0, 0) BY <1>1, TailMoves
<1>3. N("runner")' + P("runner")' = 0 /\ AreNat BY <1>2, RunnerMoved
<1>4. ~(N("runner")' > 0) BY <1>3 DEF AreNat
<1>5. LinkInv' BY <1>4 DEF LinkInv
<1>6. MadeInv'
  <2>1. MadeInv /\ MaxMade \in Nat BY ConnectorAssumption DEF ControlInv
  <2>2. One(runner \notin Attempting) = 0 BY DEF One
  <2>3. Len(made) \in Nat /\ Len(made) <= MaxMade BY <2>1, <2>2 DEF MadeInv, TypeOK
  <2>4. One((runner \notin Attempting)') \in {0, 1} BY DEF One
  <2>5. QED BY <2>1, <2>3, <2>4 DEF MadeInv
<1>7. ControlInv' BY <1>2, <1>5, <1>6, RunnerStepControl
<1>8. QED BY <1>2, <1>7

LEMMA CreateControl ==
  ASSUME TypeOK, ControlInv, CreateClient
  PROVE  TypeOK' /\ ControlInv'
<1>1. /\ Runs(Runner) /\ runner = "loop" /\ ready' = Tail(ready)
      /\ client' = Len(link) + 1
      /\ UNCHANGED <<config, queue, putters, run, holding, cancelling, failure, stopRequested,
                     asked, owner, reader, made, historyVars, raised>>
  BY DEF CreateClient, RunnerAt
<1>2. /\ link \in Seq({"new", "open", "closed", "cut"}) /\ Len(link) \in Nat
      /\ asked \subseteq 1 .. Len(link)
  BY DEF TypeOK
<1>3. PICK l \in {"new", "open"} :
        link' = Append(link, l) /\ runner' = IF l = "new" THEN "preflight" ELSE "connected"
  BY DEF CreateClient
<1>4. /\ link' \in Seq({"new", "open", "closed", "cut"}) /\ Len(link') = Len(link) + 1
      /\ link'[Len(link')] = l
  BY <1>2, <1>3
<1>5. ConnectionOpen' => runner' = "connected" BY <1>3, <1>4 DEF ConnectionOpen
<1>6. Keeps({}) /\ ControlInv' BY <1>1, <1>3, <1>5, RunnerPauses
<1>7. client' \in 0 .. Len(link') /\ asked' \subseteq 1 .. Len(link') BY <1>1, <1>2, <1>4
<1>8. runner' \in RunnerStates BY <1>3 DEF RunnerStates
<1>9. TypeOK' BY <1>1, <1>4, <1>6, <1>7, <1>8 DEF TypeOK, Keeps, historyVars
<1>10. QED BY <1>6, <1>9

LEMMA PreflightControl ==
  ASSUME TypeOK, ControlInv, PreflightGoesOn
  PROVE  TypeOK' /\ ControlInv'
<1>1. /\ Runs(Runner) /\ runner = "preflight" /\ ready' = Tail(ready)
      /\ runner' = "connected" /\ link' = [link EXCEPT ![Len(link)] = "open"]
      /\ UNCHANGED <<config, queue, putters, run, holding, cancelling, failure, stopRequested,
                     client, asked, owner, reader, made, historyVars, raised>>
  BY DEF PreflightGoesOn, RunnerAt
<1>2. link' \in Seq({"new", "open", "closed", "cut"}) /\ Len(link') = Len(link)
  <2>1. link \in Seq({"new", "open", "closed", "cut"}) BY DEF TypeOK
  <2>2. QED BY <1>1, <2>1, LastReplaced
<1>3. Keeps({}) /\ ControlInv' BY <1>1, RunnerPauses
<1>4. client' \in 0 .. Len(link') /\ asked' \subseteq 1 .. Len(link')
  BY <1>1, <1>2 DEF TypeOK
<1>5. runner' \in RunnerStates BY <1>1 DEF RunnerStates
<1>6. TypeOK' BY <1>1, <1>2, <1>3, <1>4, <1>5 DEF TypeOK, Keeps, historyVars
<1>7. QED BY <1>3, <1>6

LEMMA AttemptOverControl ==
  ASSUME TypeOK, ControlInv, AttemptOver
  PROVE  TypeOK' /\ ControlInv'
<1>1. /\ Runs(Runner) /\ ~cancelling /\ runner \in Attempting
      /\ runner' = AfterEmission("emitting")
      /\ ready' = Tail(ready) \o
           (IF AfterEmission("emitting") = "done" THEN TaskEnds("returned") ELSE <<>>)
      /\ UNCHANGED <<config, queue, putters, run, holding, cancelling, failure, stopRequested,
                     clientVars, owner, reader, made, historyVars, raised>>
  BY DEF AttemptOver, RunnerAt
<1>2. ~ConnectionOpen BY <1>1, NotConnected
<1>3. ~ConnectionOpen' BY <1>1, <1>2 DEF ConnectionOpen, clientVars
<1>4. CASE AfterEmission("emitting") = "done"
  <2>1. runner' = "done" /\ ready' = Tail(ready) \o TaskEnds("returned") BY <1>1, <1>4
  <2>2. /\ Keeps({Callback("done", HowEnded["returned"], run)})
        /\ Moves(-1, 1, 0, Asking, 0)
    BY <1>1, <2>1, RunnerEndsMoves
  <2>3. LinkInv' BY <1>3 DEF LinkInv
  <2>4. MadeInv' BY <1>1, <2>1 DEF MadeInv, One, TypeOK
  <2>5. Asking \in {0, 1} /\ (Asking = 1 => owner = "awaiting") BY KindOnes DEF Asking, One
  <2>6. ControlInv' BY <1>1, <2>1, <2>2, <2>3, <2>4, <2>5, RunnerStepControl
  <2>7. TypeOK' BY <1>1, <2>1, <2>2 DEF TypeOK, Keeps, RunnerStates, clientVars, historyVars
  <2>8. QED BY <2>6, <2>7
<1>5. CASE AfterEmission("emitting") # "done"
  <2>1. runner' = "sleeping" BY <1>1, <1>5 DEF AfterEmission
  <2>2. Tail(ready) \in Seq(Callbacks) BY <1>1 DEF TypeOK, Runs
  <2>3. ready' = Tail(ready) BY <1>1, <1>5, <2>2, ConcatEmptySeq
  <2>4. Keeps({}) /\ ControlInv' BY <1>1, <1>3, <2>1, <2>3, RunnerPauses
  <2>5. TypeOK' BY <1>1, <2>1, <2>4 DEF TypeOK, Keeps, RunnerStates, clientVars, historyVars
  <2>6. QED BY <2>4, <2>5
<1>6. QED BY <1>4, <1>5

LEMMA CancelledControl ==
  ASSUME TypeOK, ControlInv, RunnerCancelled
  PROVE  TypeOK' /\ ControlInv'
<1> DEFINE passesOn == runner \in {"emitting", "emittingLast"} /\ ~IsFull
           cuts == runner = "connected" /\ link[Len(link)] = "open"
<1>1. /\ Runs(Runner)
      /\ putters' = IF passesOn THEN OtherPutters ELSE putters
      /\ ready' = Tail(ready) \o (IF passesOn THEN FirstPutter ELSE <<>>)
                              \o TaskEnds("cancelled")
      /\ runner' = "done" /\ cancelling' = FALSE /\ holding' = 0
      /\ abandoned' = abandoned \cup ({holding} \ {0})
      /\ link' = IF cuts THEN [link EXCEPT ![Len(link)] = "cut"] ELSE link
      /\ UNCHANGED <<config, queue, run, failure, stopRequested, client, asked, owner, reader,
                     made, delivered, evicted, overtook, raised>>
  BY DEF RunnerCancelled
<1>2. passesOn \in BOOLEAN OBVIOUS
<1>3. link \in Seq({"new", "open", "closed", "cut"}) /\ Len(link) \in Nat BY DEF TypeOK
<1>4. /\ link' \in Seq({"new", "open", "closed", "cut"}) /\ Len(link') = Len(link)
      /\ ~ConnectionOpen'
  <2>1. CASE cuts
    <3>1. link' = [link EXCEPT ![Len(link)] = "cut"] BY <1>1, <2>1
    <3>2. /\ link' \in Seq({"new", "open", "closed", "cut"}) /\ Len(link') = Len(link)
      BY <1>3, <3>1, LastReplaced
    <3>3. ASSUME link' # <<>> PROVE link'[Len(link')] # "open"
      <4>1. Len(link) \in 1 .. Len(link) BY <1>3, <3>2, <3>3
      <4>2. link'[Len(link)] = "cut" BY <1>3, <3>1, <4>1
      <4>3. QED BY <3>2, <4>2
    <3>4. QED BY <3>2, <3>3 DEF ConnectionOpen
  <2>2. CASE ~cuts
    <3>1. link' = link BY <1>1, <2>2
    <3>2. ConnectionOpen => runner = "connected" BY DEF ControlInv, LinkInv
    <3>3. ~ConnectionOpen BY <2>2, <3>2 DEF ConnectionOpen
    <3>4. QED BY <1>3, <3>1, <3>3 DEF ConnectionOpen
  <2>3. QED BY <2>1, <2>2
<1> HIDE DEF passesOn, cuts
<1>5. /\ Keeps({Callback("done", HowEnded["cancelled"], run)}) /\ LetsIn
      /\ Moves(-1, 1, 0, Asking, 0)
  BY <1>1, <1>2, CancelledMoves
<1>6. LinkInv' BY <1>4 DEF LinkInv
<1>7. MadeInv' BY <1>1 DEF MadeInv, One, TypeOK
<1>8. Asking \in {0, 1} /\ (Asking = 1 => owner = "awaiting") BY KindOnes DEF Asking, One
<1>9. ControlInv' BY <1>1, <1>5, <1>6, <1>7, <1>8, RunnerStepControl
<1>10. abandoned' \subseteq AllEvents BY <1>1 DEF TypeOK
<1>11. client' \in 0 .. Len(link') /\ asked' \subseteq 1 .. Len(link')
  BY <1>1, <1>4 DEF TypeOK
<1>12. TypeOK' BY <1>1, <1>4, <1>5, <1>10, <1>11 DEF TypeOK, Keeps, LetsIn, RunnerStates
<1>13. QED BY <1>9, <1>12

(* What a step shows that leaves the task, or start() and stop(), alone.   *)
LEMMA TaskStays ==
  ASSUME TypeOK, ControlInv, NEW e \in {-1, 0}, NEW t, NEW s, NEW w, Moves(0, e, t, s, w),
         P("runner")' <= P("runner"), UNCHANGED <<runner, cancelling, link>>
  PROVE  TaskInv' /\ LinkInv' /\ (UNCHANGED made => MadeInv')
<1>1. /\ AreNat /\ N("runner")' + P("runner")' = N("runner") + P("runner") + 0
      /\ N("done")' = N("done") + e
  BY DEF Moves
<1>2. N("runner")' + P("runner")' = N("runner") + P("runner") /\ N("done")' <= N("done")
  BY <1>1 DEF AreNat
<1>3. TaskInv /\ LinkInv /\ MadeInv BY DEF ControlInv
<1>4. TaskInv'
  <2>1. N("runner")' + P("runner")' <= 1 BY <1>1, <1>2, <1>3 DEF TaskInv, AreNat
  <2>2. N("runner")' + P("runner")' > 0 => IsRunning' BY <1>1, <1>2, <1>3 DEF TaskInv, IsRunning
  <2>3. P("runner")' > 0 => runner' \in {"emitting", "emittingLast"}
    BY <1>1, <1>3 DEF TaskInv, AreNat
  <2>4. N("done")' <= 1 BY <1>1, <1>2, <1>3 DEF TaskInv, AreNat
  <2>5. ASSUME N("done")' > 0
        PROVE  runner' = "done" \/ (runner' = "loop" /\ N("runner")' > 0)
    <3>1. N("done") > 0 BY <1>1, <1>2, <2>5 DEF AreNat
    <3>2. CASE runner = "done" BY <3>2
    <3>3. CASE runner # "done"
      <4>1. runner = "loop" /\ N("runner") > 0 BY <1>3, <3>1, <3>3 DEF TaskInv
      <4>2. P("runner") = 0 /\ P("runner")' = 0 BY <1>1, <1>3, <4>1 DEF TaskInv, AreNat
      <4>3. N("runner")' = N("runner") BY <1>1, <1>2, <4>2 DEF AreNat
      <4>4. QED BY <4>1, <4>3
    <3>4. QED BY <3>2, <3>3
  <2>6. QED BY <2>1, <2>2, <2>3, <2>4, <2>5 DEF TaskInv
<1>5. LinkInv'
  <2>1. ConnectionOpen' = ConnectionOpen BY DEF ConnectionOpen
  <2>2. runner = "connected" => N("runner")' = N("runner")
    <3>1. SUFFICES ASSUME runner = "connected" PROVE N("runner")' = N("runner") OBVIOUS
    <3>2. P("runner") = 0 BY <1>1, <1>3, <3>1 DEF TaskInv, AreNat
    <3>3. P("runner")' = 0 BY <1>1, <3>2 DEF AreNat
    <3>4. QED BY <1>1, <1>2, <3>2, <3>3 DEF AreNat
  <2>3. QED BY <1>3, <2>1, <2>2 DEF LinkInv
<1>6. UNCHANGED made => MadeInv' BY <1>3 DEF MadeInv, One
<1>7. QED BY <1>4, <1>5, <1>6

LEMMA CallsStay ==
  ASSUME TypeOK, ControlInv, NEW r, NEW e, NEW w, Moves(r, e, 0, 0, w), Iterating' => Iterating,
         UNCHANGED <<runner, owner, run, made>>
  PROVE  CallInv' /\ StartInv'
<1>1. N("start")' = N("start") /\ N("stop")' = N("stop") BY DEF Moves, AreNat
<1>2. CallInv' BY <1>1 DEF ControlInv, CallInv, IsRunning
<1>3. StartInv' BY <1>1 DEF ControlInv, StartInv
<1>4. QED BY <1>2, <1>3

LEMMA ReaderMoves ==
  ASSUME TypeOK, ControlInv, NEW r, NEW e, NEW t, NEW s, NEW w \in {-1, 0, 1}, Moves(r, e, t, s, w),
         \/ w = Waking /\ reader' = IF reader = "waiting" THEN "reading" ELSE reader
         \/ w = 0 /\ UNCHANGED reader
         \/ w = -1
         \/ w = 1 /\ reader # "reading" /\ reader' = "reading"
  PROVE  ReaderInv'
<1>1. AreNat /\ N("reader")' = N("reader") + w BY DEF Moves
<1>2. N("reader") \in Nat /\ N("reader")' \in Nat /\ N("reader") <= One(reader = "reading")
  BY <1>1 DEF AreNat, ControlInv, ReaderInv
<1>3. CASE w = Waking /\ reader' = IF reader = "waiting" THEN "reading" ELSE reader
  <2>1. CASE reader = "waiting"
    <3>1. N("reader")' = 1 /\ reader' = "reading" BY <1>1, <1>2, <1>3, <2>1 DEF One, Waking
    <3>2. QED BY <3>1 DEF ReaderInv, One
  <2>2. CASE reader # "waiting"
    <3>1. N("reader")' = N("reader") /\ reader' = reader
      BY <1>1, <1>2, <1>3, <2>2 DEF One, Waking
    <3>2. QED BY <1>2, <3>1 DEF ReaderInv, One
  <2>3. QED BY <2>1, <2>2
<1>4. CASE w = 0 /\ UNCHANGED reader
  <2>1. N("reader")' = N("reader") BY <1>1, <1>2, <1>4
  <2>2. QED BY <1>2, <1>4, <2>1 DEF ReaderInv, One
<1>5. CASE w = -1
  <2>1. N("reader")' = 0 BY <1>1, <1>2, <1>5 DEF One
  <2>2. QED BY <2>1 DEF ReaderInv, One
<1>6. CASE w = 1 /\ reader # "reading" /\ reader' = "reading"
  <2>1. N("reader")' = 1 BY <1>1, <1>2, <1>6 DEF One
  <2>2. QED BY <1>6, <2>1 DEF ReaderInv, One
<1>7. QED BY <1>3, <1>4, <1>5, <1>6

(* A stop marker takes the place of an event when the queue is full.       *)
LEMMA WakeTypes ==
  ASSUME TypeOK, NEW r \in 0 .. MaxStarts, NEW next, WakeEventConsumers(r, next)
  PROVE  /\ queue' \in Seq([event : AllEvents \cup {0}, of : 0 .. MaxStarts])
         /\ Len(queue') <= MaxSize /\ evicted' \subseteq AllEvents
         /\ reader' \in {"idle", "waiting", "reading", "busy", "ended", "failed"}
         /\ reader' = IF reader = "waiting" THEN "reading" ELSE reader
<1> DEFINE Q == [event : AllEvents \cup {0}, of : 0 .. MaxStarts]
           kept == IF IsFull THEN Tail(queue) ELSE queue
<1>1. queue \in Seq(Q) /\ Len(queue) <= MaxSize /\ MaxSize \in Nat \ {0}
  BY ConnectorAssumption DEF TypeOK
<1>2. Marker(r) \in Q BY DEF Marker
<1>3. queue' = Append(kept, Marker(r)) BY DEF WakeEventConsumers
<1>4. \A q \in Q : q.event \in AllEvents \cup {0} OBVIOUS
<1> HIDE DEF Q
<1>5. kept \in Seq(Q) /\ Len(kept) \in Nat /\ Len(kept) + 1 <= MaxSize
  <2>1. CASE IsFull
    <3>1. queue # <<>> BY <1>1, <2>1 DEF IsFull
    <3>2. QED BY <1>1, <2>1, <3>1
  <2>2. CASE ~IsFull BY <1>1, <2>2 DEF IsFull
  <2>3. QED BY <2>1, <2>2
<1> HIDE DEF kept
<1>6. queue' \in Seq(Q) /\ Len(queue') = Len(kept) + 1 BY <1>2, <1>3, <1>5
<1>7. evicted' \subseteq AllEvents
  <2>1. evicted \subseteq AllEvents BY DEF TypeOK
  <2>2. CASE IsFull
    <3>1. Head(queue) \in Q BY <1>1, <2>2 DEF IsFull
    <3>2. evicted' = evicted \cup EventsIn(<<Head(queue)>>) BY <2>2 DEF WakeEventConsumers
    <3>3. EventsIn(<<Head(queue)>>) \subseteq AllEvents
      <4>1. Len(<<Head(queue)>>) = 1 /\ <<Head(queue)>>[1] = Head(queue) OBVIOUS
      <4>2. QED BY <1>4, <3>1, <4>1 DEF EventsIn
    <3>4. QED BY <2>1, <3>2, <3>3
  <2>3. CASE ~IsFull BY <2>1, <2>3 DEF WakeEventConsumers
  <2>4. QED BY <2>2, <2>3
<1>8. reader' = IF reader = "waiting" THEN "reading" ELSE reader BY DEF WakeEventConsumers
<1>9. QED BY <1>5, <1>6, <1>7, <1>8 DEF TypeOK, Q

LEMMA DoneControl ==
  ASSUME TypeOK, ControlInv, OnTaskDone
  PROVE  TypeOK' /\ ControlInv'
<1>1. /\ ready # <<>> /\ Head(ready).who = "done" /\ WakeEventConsumers(Head(ready).on, <<>>)
      /\ UNCHANGED <<config, run, taskVars, stopRequested, clientVars, owner, made, delivered,
                     abandoned, overtook, raised>>
  BY DEF OnTaskDone
<1>2. Head(ready) \in Callbacks BY <1>1 DEF TypeOK
<1>3. Head(ready) \in [who : {"done"}, arg : 0 .. 2, on : 0 .. MaxStarts]
  BY <1>1, <1>2 DEF Callbacks, Handlers, Runner, Reader, Starter, Stopper, Callback
<1>4. Head(ready).on \in 0 .. MaxStarts BY <1>3
<1>5. failure' \in BOOLEAN BY DEF OnTaskDone, TypeOK
<1>6. /\ Keeps({}) /\ LetsIn /\ Moves(0, -1, 0, 0, Waking)
  <2>1. <<>> \in {<<>>, <<Starter>>} /\ GoesOn(<<>>) = 0 BY DEF GoesOn, One
  <2>2. QED BY <1>1, <2>1, WakeMoves
<1>7. /\ queue' \in Seq([event : AllEvents \cup {0}, of : 0 .. MaxStarts])
      /\ Len(queue') <= MaxSize /\ evicted' \subseteq AllEvents
      /\ reader' \in {"idle", "waiting", "reading", "busy", "ended", "failed"}
      /\ reader' = IF reader = "waiting" THEN "reading" ELSE reader
  BY <1>1, <1>4, WakeTypes
<1>8. /\ UNCHANGED <<runner, cancelling, link, made>>
      /\ UNCHANGED <<runner, owner, run, made>> /\ (Iterating' => Iterating)
  BY <1>1, <1>7 DEF taskVars, clientVars, Iterating
<1>9. P("runner")' <= P("runner") BY <1>6 DEF LetsIn
<1>10. TaskInv' /\ LinkInv' /\ MadeInv' BY <1>6, <1>8, <1>9, TaskStays
<1>11. CallInv' /\ StartInv' BY <1>6, <1>8, CallsStay
<1>12. ReaderInv' BY <1>6, <1>7, KindOnes, ReaderMoves
<1>13. OrderInv' BY <1>6 DEF Keeps, ControlInv, OrderInv
<1>14. ControlInv' BY <1>10, <1>11, <1>12, <1>13 DEF ControlInv
<1>15. TypeOK' BY <1>1, <1>5, <1>6, <1>7 DEF TypeOK, Keeps, LetsIn, taskVars, clientVars
<1>16. QED BY <1>14, <1>15

(* A client's listener runs.                                               *)
LEMMA HandlerControl ==
  ASSUME TypeOK, ControlInv, NEW e \in MadeEvents, HandlerSkips(e) \/ HandlerEmits(e)
  PROVE  TypeOK' /\ ControlInv'
<1>1. /\ ready # <<>> /\ Head(ready).who = "handler"
      /\ UNCHANGED <<config, run, taskVars, failure, stopRequested, clientVars, owner, made,
                     historyVars, raised>>
  BY DEF HandlerSkips, HandlerEmits, Handles
<1>2. e \in AllEvents BY ConnectorAssumption DEF TypeOK, MadeEvents, AllEvents
<1>3. /\ UNCHANGED <<runner, cancelling, link, made>> /\ UNCHANGED <<runner, owner, run, made>>
  BY <1>1 DEF taskVars, clientVars
<1>4. CASE HandlerSkips(e)
  <2>1. ready' = Tail(ready) /\ UNCHANGED <<queue, putters, reader>> BY <1>4 DEF HandlerSkips
  <2>2. Keeps({}) /\ P("runner")' = P("runner") /\ Moves(0, 0, 0, 0, 0)
    BY <1>1, <2>1, TailMoves
  <2>3. P("runner")' <= P("runner") BY <2>2 DEF Moves, AreNat
  <2>4. TaskInv' /\ LinkInv' /\ MadeInv' BY <1>3, <2>2, <2>3, TaskStays
  <2>5. Iterating' => Iterating BY <2>1 DEF Iterating
  <2>6. CallInv' /\ StartInv' BY <1>3, <2>2, <2>5, CallsStay
  <2>7. ReaderInv' BY <2>1, <2>2, ReaderMoves
  <2>8. OrderInv' BY <2>2 DEF Keeps, ControlInv, OrderInv
  <2>9. ControlInv' BY <2>4, <2>6, <2>7, <2>8 DEF ControlInv
  <2>10. TypeOK' BY <1>1, <2>1, <2>2 DEF TypeOK, Keeps, taskVars, clientVars, historyVars
  <2>11. QED BY <2>9, <2>10
<1>5. CASE HandlerEmits(e) /\ WaitForRoom(Callback("handler", e, run))
  <2>1. Callback("handler", e, run) \in Handlers BY <1>2 DEF Callback, Handlers, TypeOK
  <2>2. Keeps({}) /\ Moves(0, 0, 0, 0, 0) /\ P("runner")' = P("runner")
    BY <1>1, <1>5, <2>1, HandlerWaitsMoves
  <2>3. putters' \in Seq(Handlers \cup {Runner}) BY <1>1, <1>5, <2>1, WaitFlow
  <2>4. UNCHANGED <<queue, reader>> BY <1>5 DEF WaitForRoom
  <2>5. P("runner")' <= P("runner") BY <2>2 DEF Moves, AreNat
  <2>6. TaskInv' /\ LinkInv' /\ MadeInv' BY <1>3, <2>2, <2>5, TaskStays
  <2>7. Iterating' => Iterating BY <2>4 DEF Iterating
  <2>8. CallInv' /\ StartInv' BY <1>3, <2>2, <2>7, CallsStay
  <2>9. ReaderInv' BY <2>2, <2>4, ReaderMoves
  <2>10. OrderInv' BY <2>2 DEF Keeps, ControlInv, OrderInv
  <2>11. ControlInv' BY <2>6, <2>8, <2>9, <2>10 DEF ControlInv
  <2>12. TypeOK' BY <1>1, <2>2, <2>3, <2>4 DEF TypeOK, Keeps, taskVars, clientVars, historyVars
  <2>13. QED BY <2>11, <2>12
<1>6. CASE HandlerEmits(e) /\ Put(Item(e), <<>>) /\ UNCHANGED putters
  <2>1. Keeps({}) /\ Moves(0, 0, 0, 0, Waking) /\ P("runner")' = P("runner")
    BY <1>1, <1>6, HandlerPutsMoves
  <2>2. /\ queue' \in Seq([event : AllEvents \cup {0}, of : 0 .. MaxStarts])
        /\ Len(queue') <= MaxSize
        /\ reader' \in {"idle", "waiting", "reading", "busy", "ended", "failed"}
        /\ reader' = IF reader = "waiting" THEN "reading" ELSE reader
    BY <1>2, <1>6, PutTypes
  <2>3. P("runner")' <= P("runner") BY <2>1 DEF Moves, AreNat
  <2>4. TaskInv' /\ LinkInv' /\ MadeInv' BY <1>3, <2>1, <2>3, TaskStays
  <2>5. Iterating' => Iterating BY <2>2 DEF Iterating
  <2>6. CallInv' /\ StartInv' BY <1>3, <2>1, <2>5, CallsStay
  <2>7. ReaderInv' BY <2>1, <2>2, KindOnes, ReaderMoves
  <2>8. OrderInv' BY <2>1 DEF Keeps, ControlInv, OrderInv
  <2>9. ControlInv' BY <2>4, <2>6, <2>7, <2>8 DEF ControlInv
  <2>10. TypeOK' BY <1>1, <1>6, <2>1, <2>2 DEF TypeOK, Keeps, taskVars, clientVars, historyVars
  <2>11. QED BY <2>9, <2>10
<1>7. QED BY <1>4, <1>5, <1>6 DEF HandlerEmits

LEMMA PutsAsideControl ==
  ASSUME TypeOK, ControlInv, NEW e \in MadeEvents, HandlerPutsAside(e)
  PROVE  TypeOK' /\ ControlInv'
<1>1. /\ ready # <<>> /\ Head(ready).who = "handler" /\ ready' = Tail(ready)
      /\ abandoned' = abandoned \cup {e}
      /\ UNCHANGED <<config, queue, putters, run, taskVars, failure, stopRequested, clientVars,
                     owner, reader, made, delivered, evicted, overtook, raised>>
  BY DEF HandlerPutsAside, Handles
<1>2. e \in AllEvents BY ConnectorAssumption DEF TypeOK, MadeEvents, AllEvents
<1>3. /\ UNCHANGED putters /\ UNCHANGED reader
      /\ UNCHANGED <<runner, cancelling, link, made>> /\ UNCHANGED <<runner, owner, run, made>>
  BY <1>1 DEF taskVars, clientVars
<1>4. Keeps({}) /\ P("runner")' = P("runner") /\ Moves(0, 0, 0, 0, 0)
  BY <1>1, <1>3, TailMoves
<1>5. P("runner")' <= P("runner") BY <1>4 DEF Moves, AreNat
<1>6. TaskInv' /\ LinkInv' /\ MadeInv' BY <1>3, <1>4, <1>5, TaskStays
<1>7. Iterating' => Iterating BY <1>3 DEF Iterating
<1>8. CallInv' /\ StartInv' BY <1>3, <1>4, <1>7, CallsStay
<1>9. ReaderInv' BY <1>3, <1>4, ReaderMoves
<1>10. OrderInv' BY <1>4 DEF Keeps, ControlInv, OrderInv
<1>11. ControlInv' BY <1>6, <1>8, <1>9, <1>10 DEF ControlInv
<1>12. TypeOK' BY <1>1, <1>2, <1>4 DEF TypeOK, Keeps, taskVars, clientVars
<1>13. QED BY <1>11, <1>12

(* start() finds no other call, and nobody who iterates.                   *)
LEMMA StarterIsAlone ==
  ASSUME TypeOK, ControlInv, Runs(Starter)
  PROVE  /\ N("start") = 1 /\ N("stop") = 0 /\ N("reader") = 0
         /\ ready # <<>> /\ ~Iterating
<1>1. N("start") > 0 /\ ready # <<>> BY HeadsCount
<1>2. \A w : N(w) \in Nat BY RunnerCounts
<1>3. /\ N("start") \in Nat /\ N("stop") \in Nat /\ N("reader") \in Nat BY <1>2
<1>4. N("start") = 1 /\ N("stop") = 0 BY <1>1, <1>3 DEF ControlInv, CallInv
<1>5. ~Iterating BY <1>1 DEF ControlInv, StartInv
<1>6. N("reader") = 0 BY <1>3, <1>5 DEF ControlInv, ReaderInv, One, Iterating
<1>7. QED BY <1>1, <1>4, <1>5, <1>6

LEMMA StartControl ==
  ASSUME TypeOK, ControlInv, Start
  PROVE  TypeOK' /\ ControlInv'
<1>1. /\ Runs(Starter) /\ ~IsRunning /\ MayStart /\ run' = run + 1
      /\ queue' = <<>> /\ putters' = <<>>
      /\ failure' = FALSE /\ stopRequested' = FALSE /\ runner' = "loop"
      /\ owner' = "started" /\ reader' = "idle" /\ overtook' \in BOOLEAN
      /\ abandoned' = abandoned \cup evicted \cup EventsIn(queue) \cup PutterEvents
      /\ evicted' = {} /\ raised' = FALSE
      /\ UNCHANGED <<config, holding, cancelling, clientVars, made, delivered>>
  BY DEF Start, NewQueue
<1>2. PICK next \in {<<>>, <<Stopper>>} : ready' = next \o Append(Tail(ready), Runner)
  BY DEF Start
<1>3. /\ N("start") = 1 /\ N("stop") = 0 /\ N("reader") = 0 BY <1>1, StarterIsAlone
<1>4. /\ Keeps({}) /\ AreNat
      /\ P("runner")' = 0 /\ N("runner")' = N("runner") + 1
      /\ N("start")' = N("start") - 1
      /\ N("done")' = N("done") /\ N("stop")' = N("stop") + GoesOn(next)
      /\ N("reader")' = N("reader")
  BY <1>1, <1>2, StartMoves
<1>5. N("runner") = 0 BY <1>1, <1>4 DEF ControlInv, TaskInv, AreNat
<1>6. GoesOn(next) \in {0, 1} BY DEF GoesOn, One
<1>7. /\ N("runner")' = 1 /\ N("start")' = 0 /\ N("stop")' \in {0, 1} /\ N("reader")' = 0
  BY <1>3, <1>4, <1>5, <1>6
<1>8. TaskInv'
  <2>1. N("runner")' + P("runner")' = 1 /\ ~(P("runner")' > 0) /\ N("runner")' > 0
    BY <1>4, <1>7
  <2>2. IsRunning' BY <1>1 DEF IsRunning
  <2>3. N("done")' <= 1 BY <1>4 DEF ControlInv, TaskInv
  <2>4. QED BY <1>1, <2>1, <2>2, <2>3 DEF TaskInv
<1>9. ~ConnectionOpen BY <1>1 DEF ControlInv, LinkInv, IsRunning
<1>10. LinkInv' BY <1>1, <1>9 DEF LinkInv, ConnectionOpen, clientVars
<1>11. CallInv'
  <2>1. N("start")' + N("stop")' <= 1 /\ ~(N("start")' > 0) BY <1>7
  <2>2. QED BY <1>1, <2>1 DEF CallInv
<1>12. StartInv'
  <2>1. ~(N("start")' > 0) BY <1>7
  <2>2. QED BY <2>1 DEF StartInv
<1>13. Len(made) \in Nat /\ Len(made) <= MaxMade /\ run < MaxStarts
  BY <1>1 DEF MayStart, TypeOK
<1>14. MadeInv' BY <1>1, <1>13, ConnectorAssumption DEF MadeInv, One
<1>15. ReaderInv' BY <1>7 DEF ReaderInv, One
<1>16. OrderInv' BY <1>4 DEF Keeps, ControlInv, OrderInv
<1>17. ControlInv' BY <1>8, <1>10, <1>11, <1>12, <1>14, <1>15, <1>16 DEF ControlInv
<1>18. abandoned' \subseteq AllEvents
  <2>1. EventsIn(queue) \subseteq AllEvents
    <3> DEFINE Q == [event : AllEvents \cup {0}, of : 0 .. MaxStarts]
    <3>1. queue \in Seq(Q) BY DEF TypeOK
    <3>2. \A q \in Q : q.event \in AllEvents \cup {0} OBVIOUS
    <3> HIDE DEF Q
    <3>3. \A i \in 1 .. Len(queue) : queue[i] \in Q BY <3>1
    <3>4. QED BY <3>2, <3>3 DEF EventsIn
  <2>2. PutterEvents \subseteq AllEvents
    <3> DEFINE E == Handlers \cup {Runner}
    <3>1. \A c \in E : c.arg \in AllEvents \cup {0} BY DEF Handlers, Runner, Callback
    <3>2. putters \in Seq(E) BY DEF TypeOK
    <3> HIDE DEF E
    <3>3. \A i \in 1 .. Len(putters) : putters[i] \in E BY <3>2
    <3>4. QED BY <3>1, <3>3 DEF PutterEvents
  <2>3. QED BY <1>1, <2>1, <2>2 DEF TypeOK
<1>19. run' \in 0 .. MaxStarts BY <1>1, <1>13, ConnectorAssumption DEF TypeOK
<1>20. /\ queue' \in Seq([event : AllEvents \cup {0}, of : 0 .. MaxStarts])
       /\ putters' \in Seq(Handlers \cup {Runner})
  BY <1>1
<1>21. Len(queue') <= MaxSize
  <2>1. Len(<<>>) = 0 OBVIOUS
  <2>2. QED BY <1>1, <2>1, ConnectorAssumption
<1>22. TypeOK' BY <1>1, <1>4, <1>18, <1>19, <1>20, <1>21
               DEF TypeOK, Keeps, RunnerStates, clientVars
<1>23. QED BY <1>17, <1>22

LEMMA StartReturnsControl ==
  ASSUME TypeOK, ControlInv, StartReturns
  PROVE  TypeOK' /\ ControlInv'
<1>1. /\ Runs(Starter) /\ ready' = Tail(ready)
      /\ UNCHANGED <<config, queue, putters, run, taskVars, failure, stopRequested, clientVars,
                     owner, reader, made, historyVars, raised>>
  BY DEF StartReturns
<1>2. /\ UNCHANGED putters /\ UNCHANGED reader
      /\ UNCHANGED <<runner, cancelling, link, made>>
  BY <1>1 DEF taskVars, clientVars
<1>3. ready # <<>> /\ Head(ready) = Starter BY <1>1 DEF Runs
<1>4. Keeps({}) /\ Moves(0, 0, -1, 0, 0) /\ P("runner")' = P("runner")
  BY <1>1, <1>2, <1>3, TailMoves
<1>5. AreNat /\ N("start")' = N("start") + (-1) /\ N("stop")' = N("stop") + 0
  BY <1>4 DEF Moves
<1>6. N("start") = 1 /\ N("stop") = 0 BY <1>1, StarterIsAlone
<1>7. N("start")' = 0 /\ N("stop")' = 0 BY <1>5, <1>6
<1>8. P("runner")' <= P("runner") BY <1>4, <1>5 DEF AreNat
<1>9. TaskInv' /\ LinkInv' /\ MadeInv' BY <1>2, <1>4, <1>8, TaskStays
<1>10. CallInv'
  <2>1. N("start")' + N("stop")' <= 1 /\ ~(N("start")' > 0) /\ ~(N("stop")' > 0) BY <1>7
  <2>2. (owner \in {"new", "stopped"} => ~IsRunning)' BY <1>1
    DEF ControlInv, CallInv, IsRunning, taskVars
  <2>3. QED BY <2>1, <2>2 DEF CallInv
<1>11. StartInv'
  <2>1. ~(N("start")' > 0) BY <1>7
  <2>2. QED BY <2>1 DEF StartInv
<1>12. ReaderInv' BY <1>2, <1>4, ReaderMoves
<1>13. OrderInv' BY <1>4 DEF Keeps, ControlInv, OrderInv
<1>14. ControlInv' BY <1>9, <1>10, <1>11, <1>12, <1>13 DEF ControlInv
<1>15. TypeOK' BY <1>1, <1>4 DEF TypeOK, Keeps, taskVars, clientVars, historyVars
<1>16. QED BY <1>14, <1>15

(* stop() runs up to an await, or on without one.                          *)
LEMMA StopPauses ==
  ASSUME TypeOK, ControlInv, Runs(Stopper), NEW s \in {-1, 0}, Moves(0, 0, 0, s, 0), Keeps({}),
         P("runner")' = P("runner"), owner' # "stopped",
         owner' \in {"new", "stopped"} => ~IsRunning,
         s = 0 => owner' # "awaiting",
         UNCHANGED <<runner, cancelling, link, made, run, reader>>
  PROVE  ControlInv'
<1>1. N("stop") > 0 BY HeadsCount
<1>2. /\ AreNat /\ N("start")' = N("start") + 0 /\ N("stop")' = N("stop") + s
  BY DEF Moves
<1>3. CallInv /\ N("stop") \in Nat /\ N("start") \in Nat BY <1>2 DEF ControlInv, AreNat
<1>4. N("stop") = 1 /\ N("start") = 0 BY <1>1, <1>3 DEF CallInv
<1>5. N("start")' = 0 /\ N("stop")' = 1 + s BY <1>2, <1>4
<1>6. P("runner")' <= P("runner") BY <1>2 DEF AreNat
<1>7. TaskInv' /\ LinkInv' /\ MadeInv' BY <1>6, TaskStays
<1>8. CallInv'
  <2>1. /\ N("start")' + N("stop")' <= 1 /\ ~(N("start")' > 0)
        /\ (N("stop")' > 0 => s = 0)
    BY <1>5
  <2>2. QED BY <2>1 DEF CallInv, IsRunning
<1>9. StartInv'
  <2>1. ~(N("start")' > 0) BY <1>5
  <2>2. QED BY <2>1 DEF StartInv
<1>10. ReaderInv' BY ReaderMoves
<1>11. OrderInv' BY DEF Keeps, ControlInv, OrderInv
<1>12. QED BY <1>7, <1>8, <1>9, <1>10, <1>11 DEF ControlInv

LEMMA DisconnectsControl ==
  ASSUME TypeOK, ControlInv, StopDisconnects
  PROVE  TypeOK' /\ ControlInv'
<1>1. /\ Runs(Stopper) /\ client # 0 /\ asked' = asked \cup {client} /\ client' = 0
      /\ owner' = "disconnecting" /\ ready' \in {ready, Tail(ready)}
      /\ UNCHANGED <<config, queue, putters, run, taskVars, failure, stopRequested, link, reader,
                     made, historyVars, raised>>
  BY DEF StopDisconnects
<1>2. /\ UNCHANGED putters /\ UNCHANGED <<runner, cancelling, link, made, run, reader>>
  BY <1>1 DEF taskVars
<1>3. Keeps({}) /\ ControlInv'
  <2>1. CASE ready' = ready
    <3>1. \A w : N(w)' = N(w) /\ P(w)' = P(w) BY <1>2, <2>1 DEF N, P
    <3>2. \A w : N(w) \in Nat /\ P(w) \in Nat BY RunnerCounts
    <3>3. Moves(0, 0, 0, 0, 0) BY <3>1, <3>2 DEF Moves, AreNat
    <3>4. Keeps({}) BY <2>1, <3>1, <3>2 DEF Keeps, TypeOK
    <3>5. ControlInv' BY <1>1, <1>2, <3>1, <3>3, <3>4, StopPauses
    <3>6. QED BY <3>4, <3>5
  <2>2. CASE ready' = Tail(ready)
    <3>1. ready # <<>> /\ Head(ready) = Stopper BY <1>1 DEF Runs
    <3>2. Keeps({}) /\ Moves(0, 0, 0, -1, 0) /\ P("runner")' = P("runner")
      BY <1>2, <2>2, <3>1, TailMoves
    <3>3. ControlInv' BY <1>1, <1>2, <3>2, StopPauses
    <3>4. QED BY <3>2, <3>3
  <2>3. QED BY <1>1, <2>1, <2>2
<1>4. client' \in 0 .. Len(link') /\ asked' \subseteq 1 .. Len(link')
  BY <1>1 DEF TypeOK
<1>5. TypeOK' BY <1>1, <1>3, <1>4 DEF TypeOK, Keeps, taskVars, historyVars
<1>6. QED BY <1>3, <1>5

LEMMA DisconnectRaisesControl ==
  ASSUME TypeOK, ControlInv, DisconnectRaises
  PROVE  TypeOK' /\ ControlInv'
<1>1. /\ Runs(Stopper) /\ owner' = "raised" /\ ready' = Tail(ready)
      /\ UNCHANGED <<config, queue, putters, run, taskVars, failure, stopRequested, clientVars,
                     reader, made, historyVars, raised>>
  BY DEF DisconnectRaises
<1>2. /\ UNCHANGED putters /\ UNCHANGED <<runner, cancelling, link, made, run, reader>>
  BY <1>1 DEF taskVars, clientVars
<1>3. ready # <<>> /\ Head(ready) = Stopper BY <1>1 DEF Runs
<1>4. Keeps({}) /\ Moves(0, 0, 0, -1, 0) /\ P("runner")' = P("runner")
  BY <1>1, <1>2, <1>3, TailMoves
<1>5. ControlInv' BY <1>1, <1>2, <1>4, StopPauses
<1>6. TypeOK' BY <1>1, <1>4 DEF TypeOK, Keeps, taskVars, clientVars, historyVars
<1>7. QED BY <1>5, <1>6

LEMMA CancelsControl ==
  ASSUME TypeOK, ControlInv, StopCancels
  PROVE  TypeOK' /\ ControlInv'
<1>1. /\ Runs(Stopper) /\ IsRunning /\ stopRequested' = TRUE /\ cancelling' = TRUE
      /\ putters' = Without(putters, Runner)
      /\ runner' = IF IsWaiting(Runner) THEN "cancelled" ELSE runner
      /\ ready' = Tail(ready) \o (IF IsReady(Runner) THEN <<>> ELSE <<Runner>>)
      /\ owner' = "awaiting"
      /\ UNCHANGED <<config, queue, run, holding, failure, clientVars, reader, made,
                     historyVars, raised>>
  BY DEF StopCancels, BaseStops
<1>2. /\ Keeps({}) /\ AreNat /\ putters' \in Seq(Handlers \cup {Runner})
      /\ P("runner")' = P("runner") - One(P("runner") > 0)
      /\ N("runner")' = N("runner") + One(N("runner") = 0)
      /\ N("stop") > 0 /\ N("stop")' = N("stop") - 1
      /\ N("done")' = N("done") /\ N("start")' = N("start") /\ N("reader")' = N("reader")
  BY <1>1, StopMoves
<1>3. /\ N("runner")' = 1 /\ P("runner")' = 0
  <2>1. N("runner") + P("runner") <= 1 BY DEF ControlInv, TaskInv
  <2>2. N("runner") \in {0, 1} /\ P("runner") \in {0, 1} BY <1>2, <2>1 DEF AreNat
  <2>3. QED BY <1>2, <2>2 DEF One
<1>4. N("start") = 0 /\ N("stop") = 1 BY <1>2 DEF ControlInv, CallInv, AreNat
<1>5. /\ N("done")' <= 1
      /\ N("done")' > 0 => runner' = "loop"
  <2>1. N("done")' > 0 => runner = "loop" /\ N("runner") > 0
    BY <1>1, <1>2 DEF ControlInv, TaskInv, IsRunning
  <2>2. IsWaiting(Runner) => runner \in {"emitting", "emittingLast"}
    BY RunnerCounts DEF ControlInv, TaskInv
  <2>3. QED BY <1>1, <1>2, <2>1, <2>2 DEF ControlInv, TaskInv
<1>6. IsWaiting(Runner) => runner \in {"emitting", "emittingLast"}
  BY RunnerCounts DEF ControlInv, TaskInv
<1>7. TaskInv'
  <2>1. IsRunning' BY <1>1 DEF IsRunning
  <2>2. N("runner")' + P("runner")' = 1 /\ ~(P("runner")' > 0) /\ N("runner")' > 0
    BY <1>3
  <2>3. QED BY <1>5, <2>1, <2>2 DEF TaskInv
<1>8. LinkInv'
  <2>1. ConnectionOpen' = ConnectionOpen BY <1>1 DEF ConnectionOpen, clientVars
  <2>2. ConnectionOpen => runner = "connected" BY DEF ControlInv, LinkInv
  <2>3. ConnectionOpen => runner' = "connected" BY <1>1, <1>6, <2>2
  <2>4. QED BY <1>1, <2>1, <2>3 DEF LinkInv
<1>9. CallInv'
  <2>1. N("start")' = 0 /\ N("stop")' = 0 BY <1>2, <1>4
  <2>2. QED BY <1>1, <2>1 DEF CallInv
<1>10. StartInv'
  <2>1. ~(N("start")' > 0) BY <1>2, <1>4
  <2>2. QED BY <2>1 DEF StartInv
<1>11. MadeInv'
  <2>1. MadeInv BY DEF ControlInv
  <2>2. One((runner \notin Attempting)') = One(runner \notin Attempting)
    BY <1>1, <1>6 DEF One
  <2>3. QED BY <1>1, <2>1, <2>2 DEF MadeInv
<1>12. ReaderInv'
  <2>1. ReaderInv BY DEF ControlInv
  <2>2. QED BY <1>1, <1>2, <2>1 DEF ReaderInv
<1>13. OrderInv' BY <1>2 DEF Keeps, ControlInv, OrderInv
<1>14. ControlInv' BY <1>7, <1>8, <1>9, <1>10, <1>11, <1>12, <1>13 DEF ControlInv
<1>15. runner' \in RunnerStates BY <1>1 DEF TypeOK, RunnerStates
<1>16. TypeOK' BY <1>1, <1>2, <1>15 DEF TypeOK, Keeps, clientVars, historyVars
<1>17. QED BY <1>14, <1>16

LEMMA MarksControl ==
  ASSUME TypeOK, ControlInv, StopMarks
  PROVE  TypeOK' /\ ControlInv'
<1>1. /\ Runs(Stopper) /\ (~IsRunning \/ owner = "awaiting")
      /\ stopRequested' = TRUE /\ owner' = "stopped"
      /\ UNCHANGED <<config, run, taskVars, failure, clientVars, made, delivered, abandoned,
                     overtook, raised>>
  BY DEF StopMarks, BaseStops
<1>2. ready # <<>> /\ Head(ready) = Stopper BY <1>1 DEF Runs
<1>20. PICK next \in {<<>>, <<Starter>>} :
         (next # <<>> => ~Iterating) /\ WakeEventConsumers(run, next)
  BY DEF StopMarks
<1>3. Keeps({}) /\ LetsIn /\ N("stop") > 0 /\ Moves(0, 0, GoesOn(next), -1, Waking)
  BY <1>2, <1>20, WakeMoves
<1>4. run \in 0 .. MaxStarts BY DEF TypeOK
<1>5. /\ queue' \in Seq([event : AllEvents \cup {0}, of : 0 .. MaxStarts])
      /\ Len(queue') <= MaxSize /\ evicted' \subseteq AllEvents
      /\ reader' \in {"idle", "waiting", "reading", "busy", "ended", "failed"}
      /\ reader' = IF reader = "waiting" THEN "reading" ELSE reader
  BY <1>4, <1>20, WakeTypes
<1>6. UNCHANGED <<runner, cancelling, link, made>> BY <1>1 DEF taskVars, clientVars
<1>7. P("runner")' <= P("runner") BY <1>3 DEF LetsIn
<1>8. TaskInv' /\ LinkInv' /\ MadeInv' BY <1>3, <1>6, <1>7, TaskStays
<1>9. AreNat /\ N("start")' = N("start") + GoesOn(next) /\ N("stop")' = N("stop") + (-1)
  BY <1>3 DEF Moves
<1>10. N("start") = 0 /\ N("stop") = 1 BY <1>3, <1>9 DEF ControlInv, CallInv, AreNat
<1>21. GoesOn(next) \in {0, 1} /\ (GoesOn(next) = 1 => next # <<>>) BY DEF GoesOn, One
<1>11. /\ N("start")' \in {0, 1} /\ N("stop")' = 0
       /\ N("start")' > 0 => next # <<>>
  BY <1>9, <1>10, <1>21
<1>12. ~IsRunning
  <2>1. owner = "awaiting" => runner = "done" BY <1>3 DEF ControlInv, CallInv
  <2>2. QED BY <1>1, <2>1 DEF IsRunning
<1>13. CallInv'
  <2>1. ~(N("stop")' > 0) /\ N("start")' + N("stop")' <= 1 BY <1>11
  <2>2. ~IsRunning' BY <1>6, <1>12 DEF IsRunning
  <2>3. QED BY <1>1, <2>1, <2>2 DEF CallInv
<1>14. StartInv'
  <2>1. N("start")' > 0 => ~Iterating BY <1>11, <1>20
  <2>2. Iterating' => Iterating BY <1>5 DEF Iterating
  <2>3. QED BY <2>1, <2>2 DEF StartInv
<1>15. ReaderInv' BY <1>3, <1>5, KindOnes, ReaderMoves
<1>16. OrderInv' BY <1>3 DEF Keeps, ControlInv, OrderInv
<1>17. ControlInv' BY <1>8, <1>13, <1>14, <1>15, <1>16 DEF ControlInv
<1>18. TypeOK' BY <1>1, <1>3, <1>5 DEF TypeOK, Keeps, LetsIn, taskVars, clientVars
<1>19. QED BY <1>17, <1>18

(* The reader of events().                                                 *)
LEMMA ReaderStepControl ==
  ASSUME TypeOK, ControlInv, Runs(Reader), NEW w \in {-1, 0}, Moves(0, 0, 0, 0, w), Keeps({}),
         P("runner")' <= P("runner"), w = 0 => reader' = "reading",
         UNCHANGED <<runner, cancelling, link, made, owner, run>>
  PROVE  ControlInv'
<1>1. N("reader") > 0 BY HeadsCount
<1>2. reader = "reading" BY <1>1 DEF Moves, AreNat, ControlInv, ReaderInv, One
<1>3. TaskInv' /\ LinkInv' /\ MadeInv' BY TaskStays
<1>4. Iterating' => Iterating BY <1>2 DEF Iterating
<1>5. CallInv' /\ StartInv' BY <1>4, CallsStay
<1>6. ReaderInv' BY <1>2, ReaderMoves
<1>7. OrderInv' BY DEF Keeps, ControlInv, OrderInv
<1>8. QED BY <1>3, <1>5, <1>6, <1>7 DEF ControlInv

LEMMA ReaderControl ==
  ASSUME TypeOK, ControlInv, ReaderWaits \/ ReaderTakes \/ ReaderEnds
  PROVE  TypeOK' /\ ControlInv'
<1>1. /\ Runs(Reader) /\ ready # <<>> /\ Head(ready) = Reader
      /\ UNCHANGED <<runner, cancelling, link, made, owner, run>>
  BY DEF ReaderWaits, ReaderTakes, ReaderEnds, Runs, taskVars, clientVars
<1> DEFINE Q == [event : AllEvents \cup {0}, of : 0 .. MaxStarts]
<1>2. queue \in Seq(Q) /\ Len(queue) <= MaxSize /\ MaxSize \in Nat
  BY ConnectorAssumption DEF TypeOK
<1>3. \A q \in Q : q.event \in AllEvents \cup {0} OBVIOUS
<1> HIDE DEF Q
<1>4. CASE ReaderWaits
  <2>1. /\ reader' = "waiting" /\ ready' = Tail(ready)
        /\ UNCHANGED <<config, queue, putters, run, taskVars, failure, stopRequested, clientVars,
                       owner, made, historyVars, raised>>
    BY <1>4 DEF ReaderWaits
  <2>2. Keeps({}) /\ Moves(0, 0, 0, 0, -1) /\ P("runner")' = P("runner")
    BY <1>1, <2>1, TailMoves
  <2>3. P("runner")' <= P("runner") BY <2>2 DEF Moves, AreNat
  <2>4. ControlInv' BY <1>1, <2>2, <2>3, ReaderStepControl
  <2>5. TypeOK' BY <2>1, <2>2 DEF TypeOK, Keeps, taskVars, clientVars, historyVars
  <2>6. QED BY <2>4, <2>5
<1>5. ASSUME queue # <<>>, queue' = Tail(queue)
      PROVE  queue' \in Seq(Q) /\ Len(queue') <= MaxSize /\ Head(queue) \in Q
  BY <1>2, <1>5
<1>6. CASE ReaderTakes
  <2>1. /\ queue # <<>> /\ queue' = Tail(queue) /\ putters' = OtherPutters
        /\ ~IsMarker(Head(queue)) /\ delivered' = Append(delivered, Head(queue).event)
        /\ UNCHANGED <<config, run, taskVars, failure, stopRequested, clientVars, owner, made,
                       evicted, abandoned, overtook, raised>>
    BY <1>6 DEF ReaderTakes
  <2>2. queue' \in Seq(Q) /\ Len(queue') <= MaxSize /\ Head(queue) \in Q BY <1>5, <2>1
  <2>3. Head(queue).event \in AllEvents BY <1>3, <2>1, <2>2 DEF IsMarker
  <2>4. delivered' \in Seq(AllEvents) BY <2>1, <2>3 DEF TypeOK
  <2>5. PICK stays \in BOOLEAN :
          /\ ready' = (IF stays THEN ready ELSE Tail(ready)) \o FirstPutter
          /\ reader' = IF stays THEN "reading" ELSE "busy"
    <3>1. \/ reader' = "reading" /\ ready' = ready \o FirstPutter
          \/ reader' = "busy" /\ ready' = Tail(ready) \o FirstPutter
      BY <1>6 DEF ReaderTakes
    <3>2. QED BY <3>1
  <2>6. /\ Keeps({}) /\ LetsIn
        /\ stays => Moves(0, 0, 0, 0, 0)
        /\ ~stays => Moves(0, 0, 0, 0, -1)
    BY <1>1, <2>1, <2>5, GetMoves
  <2>7. P("runner")' <= P("runner") BY <2>6 DEF LetsIn
  <2>8. ControlInv'
    <3>1. CASE stays
      <4>1. Moves(0, 0, 0, 0, 0) /\ reader' = "reading" BY <2>5, <2>6, <3>1
      <4>2. QED BY <1>1, <2>6, <2>7, <4>1, ReaderStepControl
    <3>2. CASE ~stays
      <4>1. Moves(0, 0, 0, 0, -1) BY <2>6, <3>2
      <4>2. QED BY <1>1, <2>6, <2>7, <4>1, ReaderStepControl
    <3>3. QED BY <3>1, <3>2
  <2>9. TypeOK' BY <2>1, <2>2, <2>4, <2>5, <2>6 DEF TypeOK, Keeps, LetsIn, taskVars, clientVars, Q
  <2>10. QED BY <2>8, <2>9
<1>7. CASE ReaderEnds
  <2>1. /\ queue # <<>> /\ queue' = Tail(queue) /\ putters' = OtherPutters
        /\ reader' = IF failure THEN "failed" ELSE "ended"
        /\ ready' = Tail(ready) \o FirstPutter
        /\ UNCHANGED <<config, run, taskVars, failure, stopRequested, clientVars, owner, made,
                       historyVars, raised>>
    BY <1>7 DEF ReaderEnds
  <2>2. queue' \in Seq(Q) /\ Len(queue') <= MaxSize BY <1>5, <2>1
  <2>3. ready' = (IF FALSE THEN ready ELSE Tail(ready)) \o FirstPutter BY <2>1
  <2>4. Keeps({}) /\ LetsIn /\ Moves(0, 0, 0, 0, -1) BY <1>1, <2>1, <2>3, GetMoves
  <2>5. P("runner")' <= P("runner") BY <2>4 DEF LetsIn
  <2>6. ControlInv' BY <1>1, <2>4, <2>5, ReaderStepControl
  <2>7. TypeOK' BY <2>1, <2>2, <2>4 DEF TypeOK, Keeps, LetsIn, taskVars, clientVars, historyVars, Q
  <2>8. QED BY <2>6, <2>7
<1>8. QED BY <1>4, <1>6, <1>7

(* What is outside the loop.                                               *)
LEMMA TaskWoken ==
  ASSUME TypeOK, ControlInv, Wakes(Runner), ~IsReady(Runner),
         runner \in {"sleeping", "preflight", "connected"}, runner' \in Attempting,
         UNCHANGED <<owner, reader, made>>, runner \in Attempting \/ Len(made) < MaxMade,
         ~ConnectionOpen'
  PROVE  Keeps({}) /\ ControlInv'
<1>1. Keeps({}) /\ P("runner")' = P("runner") /\ Moves(1, 0, 0, 0, 0)
  BY WakesMoves
<1>2. /\ AreNat /\ N("done")' = N("done") /\ N("start")' = N("start") /\ N("stop")' = N("stop")
      /\ N("runner")' + P("runner")' = N("runner") + P("runner") + 1
  BY <1>1 DEF Moves, AreNat
<1>3. /\ N("runner") = 0 /\ P("runner") = 0 /\ N("done") = 0
  BY <1>2, RunnerCounts DEF ControlInv, TaskInv, AreNat
<1>4. IsRunning /\ IsRunning' BY DEF IsRunning
<1>5. TaskInv'
  <2>1. N("runner")' + P("runner")' = 1 /\ P("runner")' = 0 /\ N("done")' = 0
    BY <1>1, <1>2, <1>3
  <2>2. QED BY <1>4, <2>1 DEF TaskInv
<1>6. LinkInv' BY DEF LinkInv
<1>7. CallInv' BY <1>2, <1>4 DEF ControlInv, CallInv, IsRunning
<1>8. StartInv' BY <1>2 DEF ControlInv, StartInv, Iterating, Wakes
<1>9. MadeInv'
  <2>1. MadeInv /\ MaxMade \in Nat /\ Len(made) \in Nat
    BY ConnectorAssumption DEF ControlInv, TypeOK
  <2>2. Len(made) <= MaxMade BY <2>1 DEF MadeInv, One
  <2>3. QED BY <2>1, <2>2 DEF MadeInv, One
<1>10. ReaderInv' BY <1>1, ReaderMoves
<1>11. OrderInv' BY <1>1 DEF Keeps, ControlInv, OrderInv
<1>12. QED BY <1>1, <1>5, <1>6, <1>7, <1>8, <1>9, <1>10, <1>11 DEF ControlInv

LEMMA WokenControl ==
  ASSUME TypeOK, ControlInv, TimerFires \/ PreflightAnswers \/ ConnectionCloses
  PROVE  TypeOK' /\ ControlInv'
<1>1. Wakes(Runner) /\ ~IsReady(Runner) /\ UNCHANGED <<owner, reader, made>>
  BY DEF TimerFires, PreflightAnswers, ConnectionCloses
<1>2. ConnectionOpen => runner = "connected" BY DEF ControlInv, LinkInv
<1>3. CASE TimerFires
  <2>1. runner = "sleeping" /\ runner' = "loop" /\ UNCHANGED link /\ Len(made) < MaxMade
    BY <1>3 DEF TimerFires, WithinBounds
  <2>2. ~ConnectionOpen' BY <1>2, <2>1 DEF ConnectionOpen
  <2>3. Keeps({}) /\ ControlInv' BY <1>1, <2>1, <2>2, TaskWoken
  <2>4. TypeOK' BY <1>1, <2>1, <2>3 DEF TypeOK, Keeps, Wakes, RunnerStates, historyVars
  <2>5. QED BY <2>3, <2>4
<1>4. CASE PreflightAnswers
  <2>1. runner = "preflight" /\ UNCHANGED <<runner, link>> BY <1>4 DEF PreflightAnswers
  <2>2. ~ConnectionOpen' BY <1>2, <2>1 DEF ConnectionOpen
  <2>3. Keeps({}) /\ ControlInv' BY <1>1, <2>1, <2>2, TaskWoken
  <2>4. TypeOK' BY <1>1, <2>1, <2>3 DEF TypeOK, Keeps, Wakes, historyVars
  <2>5. QED BY <2>3, <2>4
<1>5. CASE ConnectionCloses
  <2>1. /\ ConnectionOpen /\ link' = [link EXCEPT ![Len(link)] = "closed"]
        /\ UNCHANGED runner
    BY <1>5 DEF ConnectionCloses
  <2>2. link \in Seq({"new", "open", "closed", "cut"}) BY DEF TypeOK
  <2>3. link' \in Seq({"new", "open", "closed", "cut"}) /\ Len(link') = Len(link)
    BY <2>1, <2>2, LastReplaced
  <2>4. ~ConnectionOpen'
    <3>1. Len(link) \in 1 .. Len(link) BY <2>1, <2>2 DEF ConnectionOpen
    <3>2. link'[Len(link')] = "closed" BY <2>1, <2>2, <2>3, <3>1
    <3>3. QED BY <3>2 DEF ConnectionOpen
  <2>5. Keeps({}) /\ ControlInv' BY <1>1, <1>2, <2>1, <2>4, TaskWoken
  <2>6. client' \in 0 .. Len(link') /\ asked' \subseteq 1 .. Len(link')
    BY <1>1, <2>3 DEF TypeOK, Wakes
  <2>7. TypeOK' BY <1>1, <2>1, <2>3, <2>5, <2>6 DEF TypeOK, Keeps, Wakes, historyVars
  <2>8. QED BY <2>5, <2>7
<1>6. QED BY <1>3, <1>4, <1>5

LEMMA CallerControl ==
  ASSUME TypeOK, ControlInv, OwnerCalls \/ DisconnectReturns
  PROVE  TypeOK' /\ ControlInv'
<1>1. UNCHANGED <<runner, link, owner, reader, made>> BY DEF OwnerCalls, DisconnectReturns
<1>2. PICK c \in {Starter, Stopper} :
        /\ Wakes(c)
        /\ c = Starter => owner \in {"new", "started", "stopped", "raised"} /\ ~Iterating
        /\ c = Stopper => owner \in {"new", "started", "raised", "disconnecting"}
  <2>1. Starter # Stopper BY CallbackKinds
  <2>2. CASE OwnerCalls BY <2>1, <2>2 DEF OwnerCalls
  <2>3. CASE DisconnectReturns BY <2>1, <2>3 DEF DisconnectReturns
  <2>4. QED BY <2>2, <2>3
<1>3. N("start") = 0 /\ N("stop") = 0
  <2>1. N("stop") = 0 /\ N("start") \in Nat
    BY RunnerCounts DEF OwnerCalls, DisconnectReturns
  <2>2. CASE OwnerCalls BY <2>1, <2>2, RunnerCounts DEF OwnerCalls
  <2>3. CASE DisconnectReturns
    BY <2>1, <2>3 DEF DisconnectReturns, ControlInv, CallInv
  <2>4. QED BY <2>1, <2>2, <2>3
<1>4. UNCHANGED <<cancelling, run>> BY <1>2 DEF Wakes
<1>5. Keeps({}) /\ P("runner")' = P("runner") BY <1>2, WakesMoves
<1>6. PICK s \in {0, 1}, t \in {0, 1} :
        /\ Moves(0, 0, t, s, 0)
        /\ t = 1 => c = Starter /\ s = 0
        /\ s = 1 => c = Stopper /\ t = 0
  <2>1. CASE c = Starter
    <3>1. Moves(0, 0, 1, 0, 0) BY <1>2, <2>1, WakesMoves
    <3>2. QED BY <2>1, <3>1
  <2>2. CASE c = Stopper
    <3>1. Moves(0, 0, 0, 1, 0) BY <1>2, <2>2, WakesMoves
    <3>2. QED BY <2>2, <3>1
  <2>3. QED BY <2>1, <2>2
<1>7. AreNat /\ N("start")' = t /\ N("stop")' = s BY <1>3, <1>6 DEF Moves
<1>8. P("runner")' <= P("runner") BY <1>5, <1>7 DEF AreNat
<1>9. TaskInv' /\ LinkInv' /\ MadeInv' BY <1>1, <1>4, <1>6, <1>8, TaskStays
<1>10. CallInv'
  <2>1. /\ N("start")' + N("stop")' <= 1
        /\ N("start")' > 0 => c = Starter
        /\ N("stop")' > 0 => c = Stopper
    BY <1>6, <1>7
  <2>2. owner \in {"new", "stopped"} => ~IsRunning BY DEF ControlInv, CallInv
  <2>3. QED BY <1>1, <1>2, <2>1, <2>2 DEF CallInv, IsRunning
<1>11. StartInv'
  <2>1. N("start")' > 0 => c = Starter BY <1>6, <1>7
  <2>2. QED BY <1>1, <1>2, <2>1 DEF StartInv, Iterating
<1>12. ReaderInv' BY <1>1, <1>6, ReaderMoves
<1>13. OrderInv' BY <1>5 DEF Keeps, ControlInv, OrderInv
<1>14. ControlInv' BY <1>9, <1>10, <1>11, <1>12, <1>13 DEF ControlInv
<1>15. TypeOK' BY <1>1, <1>2, <1>5 DEF TypeOK, Keeps, Wakes, historyVars
<1>16. QED BY <1>14, <1>15

LEMMA ReaderWokenControl ==
  ASSUME TypeOK, ControlInv, ReaderBegins \/ BodyReturns
  PROVE  TypeOK' /\ ControlInv'
<1>1. /\ Wakes(Reader) /\ reader # "reading" /\ reader' = "reading"
      /\ UNCHANGED <<runner, link, owner, made>>
  BY DEF ReaderBegins, BodyReturns
<1>2. UNCHANGED <<cancelling, run>> BY <1>1 DEF Wakes
<1>3. Keeps({}) /\ P("runner")' = P("runner") /\ Moves(0, 0, 0, 0, 1)
  BY <1>1, WakesMoves
<1>4. AreNat /\ N("start")' = N("start") /\ N("stop")' = N("stop")
  BY <1>3 DEF Moves, AreNat
<1>5. P("runner")' <= P("runner") BY <1>3, <1>4 DEF AreNat
<1>6. TaskInv' /\ LinkInv' /\ MadeInv' BY <1>1, <1>2, <1>3, <1>5, TaskStays
<1>7. CallInv' BY <1>1, <1>4 DEF ControlInv, CallInv, IsRunning
<1>8. ~(N("start") > 0)
  <2>1. CASE ReaderBegins BY <2>1, RunnerCounts DEF ReaderBegins
  <2>2. CASE BodyReturns BY <2>2 DEF BodyReturns, ControlInv, StartInv, Iterating
  <2>3. QED BY <2>1, <2>2
<1>9. StartInv' BY <1>4, <1>8 DEF StartInv
<1>10. ReaderInv' BY <1>1, <1>3, ReaderMoves
<1>11. OrderInv' BY <1>3 DEF Keeps, ControlInv, OrderInv
<1>12. ControlInv' BY <1>6, <1>7, <1>9, <1>10, <1>11 DEF ControlInv
<1>13. TypeOK' BY <1>1, <1>3 DEF TypeOK, Keeps, Wakes, historyVars
<1>14. QED BY <1>12, <1>13

LEMMA ReportsControl ==
  ASSUME TypeOK, ControlInv, ClientReports
  PROVE  TypeOK' /\ ControlInv'
<1> DEFINE c == Callback("handler", Len(made) + 1, 0)
<1>1. /\ ConnectionOpen /\ Len(made) < MaxMade /\ Wakes(c)
      /\ UNCHANGED <<runner, link, owner, reader>>
  BY DEF ClientReports
<1>2. PICK p \in Payloads : made' = Append(made, p) BY DEF ClientReports
<1>3. made' \in Seq(Payloads \cup {Synthetic, ErrorRaw}) /\ Len(made') = Len(made) + 1
  BY <1>2 DEF TypeOK
<1>4. MaxMade \in Nat /\ MaxStarts \in Nat /\ Len(made) \in Nat
  BY ConnectorAssumption DEF TypeOK
<1>5. Len(made) + 1 \in AllEvents BY <1>1, <1>4 DEF AllEvents
<1>6. c \in Handlers BY <1>4, <1>5 DEF Handlers, Callback
<1> HIDE DEF c
<1>7. UNCHANGED <<cancelling, run>> BY <1>1 DEF Wakes
<1>8. Keeps({}) /\ P("runner")' = P("runner") /\ Moves(0, 0, 0, 0, 0)
  BY <1>1, <1>6, WakesMoves
<1>9. AreNat /\ N("start")' = N("start") /\ N("stop")' = N("stop")
  BY <1>8 DEF Moves, AreNat
<1>10. P("runner")' <= P("runner") BY <1>8, <1>9 DEF AreNat
<1>11. TaskInv' /\ LinkInv' BY <1>1, <1>7, <1>8, <1>10, TaskStays
<1>12. MadeInv' BY <1>1, <1>3, <1>4 DEF MadeInv, One
<1>13. CallInv' BY <1>1, <1>9 DEF ControlInv, CallInv, IsRunning
<1>14. StartInv' BY <1>1, <1>9 DEF ControlInv, StartInv, Iterating
<1>15. ReaderInv' BY <1>1, <1>8, ReaderMoves
<1>16. OrderInv' BY <1>8 DEF Keeps, ControlInv, OrderInv
<1>17. ControlInv' BY <1>11, <1>12, <1>13, <1>14, <1>15, <1>16 DEF ControlInv
<1>18. Len(made') <= MaxMade + 1 BY <1>1, <1>3, <1>4
<1>19. TypeOK' BY <1>1, <1>3, <1>8, <1>18 DEF TypeOK, Keeps, Wakes, historyVars
<1>20. QED BY <1>17, <1>19

-----------------------------------------------------------------------------
(* The invariant *)

LEMMA InitControl == Init => TypeOK /\ ControlInv
<1> SUFFICES ASSUME Init PROVE TypeOK /\ ControlInv OBVIOUS
<1>1. Len(<<>>) = 0 /\ \A S : <<>> \in Seq(S)
  <2>1. Len(<<>>) = 0 OBVIOUS
  <2>2. \A S : <<>> \in Seq(S) OBVIOUS
  <2>3. QED BY <2>1, <2>2
<1>2. TypeOK
  <2>1. /\ ready \in Seq(Callbacks) /\ putters \in Seq(Handlers \cup {Runner})
        /\ queue \in Seq([event : AllEvents \cup {0}, of : 0 .. MaxStarts])
        /\ link \in Seq({"new", "open", "closed", "cut"})
        /\ made \in Seq(Payloads \cup {Synthetic, ErrorRaw}) /\ delivered \in Seq(AllEvents)
    BY <1>1 DEF Init
  <2>2. Len(queue) <= MaxSize /\ Len(made) <= MaxMade + 1 /\ Len(link) = 0
    BY <1>1, ConnectorAssumption DEF Init
  <2>3. run \in 0 .. MaxStarts /\ client \in 0 .. Len(link) /\ asked \subseteq 1 .. Len(link)
    BY <2>2, ConnectorAssumption DEF Init
  <2>4. QED BY <2>1, <2>2, <2>3 DEF Init, TypeOK, RunnerStates
<1>3. \A w : N(w) = 0 /\ P(w) = 0 BY NoneComes DEF Init, N, P
<1>4. TaskInv BY <1>3 DEF TaskInv
<1>5. LinkInv BY DEF LinkInv, ConnectionOpen, Init
<1>6. CallInv BY <1>3 DEF CallInv, IsRunning, Init
<1>7. StartInv BY <1>3 DEF StartInv
<1>8. MadeInv BY <1>1, ConnectorAssumption DEF MadeInv, One, Init
<1>9. ReaderInv BY <1>3 DEF ReaderInv, One
<1>10. OrderInv BY <1>1 DEF OrderInv, EndsBeforeRunners, Init
<1>11. QED BY <1>2, <1>4, <1>5, <1>6, <1>7, <1>8, <1>9, <1>10 DEF ControlInv

LEMMA ControlStutters ==
  ASSUME TypeOK, ControlInv, UNCHANGED vars
  PROVE  TypeOK' /\ ControlInv'
<1>1. TypeOK' BY DEF TypeOK, vars, taskVars, clientVars, historyVars
<1>2. \A w : N(w)' = N(w) /\ P(w)' = P(w) BY DEF N, P, vars
<1>3. /\ UNCHANGED <<ready, run, runner, cancelling, link, owner, reader, made>>
  BY DEF vars, taskVars, clientVars
<1>4. TaskInv' BY <1>2, <1>3 DEF ControlInv, TaskInv, IsRunning
<1>5. LinkInv' BY <1>2, <1>3 DEF ControlInv, LinkInv, ConnectionOpen
<1>6. CallInv' BY <1>2, <1>3 DEF ControlInv, CallInv, IsRunning
<1>7. StartInv' BY <1>2, <1>3 DEF ControlInv, StartInv, Iterating
<1>8. MadeInv' BY <1>3 DEF ControlInv, MadeInv, One
<1>9. ReaderInv' BY <1>2, <1>3 DEF ControlInv, ReaderInv, One
<1>10. OrderInv' BY <1>3 DEF ControlInv, OrderInv
<1>11. QED BY <1>1, <1>4, <1>5, <1>6, <1>7, <1>8, <1>9, <1>10 DEF ControlInv

LEMMA StepControl ==
  ASSUME TypeOK, ControlInv, [Next]_vars
  PROVE  TypeOK' /\ ControlInv'
<1>1. CASE RunnerStep
  BY <1>1, MakersControl, ResumesControl, RaisesControl, CreateControl, PreflightControl,
     AttemptOverControl, CancelledControl
  DEF RunnerStep
<1>2. CASE LoopStep /\ ~RunnerStep
  BY <1>2, DoneControl, HandlerControl, PutsAsideControl, StartControl, StartReturnsControl,
     DisconnectsControl, DisconnectRaisesControl, CancelsControl, MarksControl, ReaderControl
  DEF LoopStep
<1>3. CASE Outside
  BY <1>3, WokenControl, CallerControl, ReaderWokenControl, ReportsControl DEF Outside
<1>4. CASE UNCHANGED vars BY <1>4, ControlStutters
<1>5. QED BY <1>1, <1>2, <1>3, <1>4 DEF Next, LoopStep, AllQuiet

LEMMA ControlInvariant == Spec => [](TypeOK /\ ControlInv)
<1>1. Init => TypeOK /\ ControlInv BY InitControl
<1>2. TypeOK /\ ControlInv /\ [Next]_vars => (TypeOK /\ ControlInv)' BY StepControl
<1>3. QED BY <1>1, <1>2, PTL DEF Spec

(* Every variable keeps its values, and the queue its size: an emitter     *)
(* that was let in (put() in base.py) finds room or waits again, and a     *)
(* stop marker makes its own.                                              *)
THEOREM TypeCorrect == Spec => []TypeOK
BY ControlInvariant, PTL

-----------------------------------------------------------------------------
(* Stop markers.  A task's end is announced to the run it ended, as what   *)
(* it was, or to the next run, which start() made too early: that run's    *)
(* task has then not begun, and no marker has cost it anything.  But for   *)
(* such a run, a marker in the queue, and a reader that has seen one, mean *)
(* that stop() was called or that the task has ended and its failure is    *)
(* known.  What the markers cost is paid by the announcement of the task's *)
(* end, by that of the task before it, and by the stop() that returned.    *)
MarkerQueued == \E i \in 1 .. Len(queue) : IsMarker(queue[i])
OwnEnd(c) == c.on = run /\ runner = "done" /\ (raised <=> c.arg = HowEnded.raised)
OvertakenEnd(c) ==
  overtook /\ c.on = run - 1 /\ runner = "loop" /\ evicted = {} /\ ~MarkerQueued
EndsInv == \A c \in Announced(ready) : OwnEnd(c) \/ OvertakenEnd(c)
TakenInv ==
  /\ raised => runner = "done"
  /\ MarkerQueued /\ ~stopRequested
       => (runner = "done" /\ (raised => failure)) \/ overtook
  /\ reader \in {"ended", "failed"} /\ ~stopRequested
       => (runner = "done" /\ (reader = "ended" => ~raised)) \/ overtook
  /\ failure => raised \/ overtook
  /\ reader = "failed" => raised \/ overtook
PaidByOvertaken == overtook /\ (runner = "done" \/ Announced(ready) = {})
PaidByEnd == runner = "done" /\ Announced(ready) = {}
CostInv ==
  Cardinality(evicted) <= (One(PaidByOvertaken) + One(PaidByEnd)) + One(owner = "stopped")
HoldInv == runner \in {"emitting", "emittingLast"} => holding # 0
MarkerInv == EndsInv /\ OwnMarker /\ TakenInv /\ CostInv /\ HoldInv

NoNewMarkers ==
  \A i \in 1 .. Len(queue') :
    IsMarker(queue'[i]) => \E j \in 1 .. Len(queue) : queue[j] = queue'[i]

LEMMA NoMarkerAppears ==
  ASSUME NoNewMarkers
  PROVE  MarkerQueued' => MarkerQueued
BY DEF NoNewMarkers, MarkerQueued, IsMarker

LEMMA CostIsNat == ASSUME TypeOK PROVE IsFiniteSet(evicted) /\ Cardinality(evicted) \in Nat
<1>1. IsFiniteSet(AllEvents) BY FS_Interval, ConnectorAssumption DEF AllEvents
<1>2. QED BY <1>1, FS_Subset, FS_CardinalityType DEF TypeOK

(* What has paid for an event still does.                                  *)
LEMMA CostStays ==
  ASSUME TypeOK, CostInv, UNCHANGED evicted, owner = "stopped" => owner' = "stopped",
         PaidByOvertaken => PaidByOvertaken', PaidByEnd => PaidByEnd'
  PROVE  CostInv'
<1> DEFINE a == One(PaidByOvertaken)
           b == One(PaidByEnd)
           c == One(owner = "stopped")
           n == Cardinality(evicted)
           a2 == One(PaidByOvertaken')
           b2 == One(PaidByEnd')
           c2 == One(owner' = "stopped")
<1>1. n \in Nat BY CostIsNat
<1>2. /\ a \in Nat /\ b \in Nat /\ c \in Nat /\ a2 \in Nat /\ b2 \in Nat /\ c2 \in Nat
      /\ a <= a2 /\ b <= b2 /\ c <= c2
  BY DEF One
<1>3. n <= (a + b) + c BY DEF CostInv
<1> HIDE DEF a, b, c, n, a2, b2, c2
<1>4. n <= (a2 + b2) + c2 BY <1>1, <1>2, <1>3
<1>5. QED BY <1>4 DEF CostInv, n, a2, b2, c2

LEMMA QueueSame == ASSUME UNCHANGED queue PROVE NoNewMarkers
BY DEF NoNewMarkers

LEMMA QueuePuts ==
  ASSUME TypeOK, NEW e, e # 0, queue' = Append(queue, Item(e))
  PROVE  NoNewMarkers
<1>1. /\ Len(queue) \in Nat /\ Len(queue') = Len(queue) + 1
      /\ \A i \in 1 .. Len(queue) : queue'[i] = queue[i]
      /\ queue'[Len(queue) + 1] = Item(e)
  <2> DEFINE Q == [event : AllEvents \cup {0}, of : 0 .. MaxStarts]
  <2>1. queue \in Seq(Q) BY DEF TypeOK
  <2> HIDE DEF Q
  <2>2. QED BY <2>1
<1>2. ~IsMarker(Item(e)) BY DEF IsMarker, Item
<1>3. QED BY <1>1, <1>2 DEF NoNewMarkers

LEMMA QueueTakes ==
  ASSUME TypeOK, queue # <<>>, queue' = Tail(queue)
  PROVE  NoNewMarkers
<1>1. /\ Len(queue) \in Nat /\ Len(queue') = Len(queue) - 1
      /\ \A i \in 1 .. Len(queue) - 1 : queue'[i] = queue[i + 1]
  <2> DEFINE Q == [event : AllEvents \cup {0}, of : 0 .. MaxStarts]
  <2>1. queue \in Seq(Q) BY DEF TypeOK
  <2> HIDE DEF Q
  <2>2. QED BY <2>1
<1>2. \A i \in 1 .. Len(queue) - 1 : i + 1 \in 1 .. Len(queue) BY <1>1
<1>3. QED BY <1>1, <1>2 DEF NoNewMarkers

(* A step that puts no marker, takes none and starts nothing.              *)
LEMMA MarksStay ==
  ASSUME TypeOK, ControlInv, MarkerInv, NEW ends, NoNewMarkers,
         UNCHANGED <<run, failure, stopRequested, evicted, overtook>>,
         owner = "stopped" => owner' = "stopped",
         Announced(ready)' \subseteq Announced(ready) \cup ends,
         \/ ends = {} /\ UNCHANGED <<runner, raised>>
         \/ /\ runner # "done" /\ (raised' => runner' = "done")
            /\ Announced(ready) = {} /\ \A c \in ends : OwnEnd(c)',
         reader' \in {"ended", "failed"} => reader' = reader,
         runner' \in {"emitting", "emittingLast"} => holding' # 0
  PROVE  MarkerInv'
<1>1. EndsInv /\ OwnMarker /\ TakenInv /\ CostInv BY DEF MarkerInv
<1>2. MarkerQueued' => MarkerQueued BY NoMarkerAppears
<1>3. EndsInv'
  <2>1. CASE ends = {} /\ UNCHANGED <<runner, raised>>
    BY <1>1, <1>2, <2>1 DEF EndsInv, OwnEnd, OvertakenEnd
  <2>2. CASE Announced(ready) = {} /\ \A c \in ends : OwnEnd(c)' BY <2>2 DEF EndsInv
  <2>3. QED BY <2>1, <2>2
<1>4. OwnMarker' BY <1>1 DEF OwnMarker, NoNewMarkers
<1>5. TakenInv'
  <2>1. CASE UNCHANGED <<runner, raised>> BY <1>1, <1>2, <2>1 DEF TakenInv
  <2>2. CASE runner # "done" /\ (raised' => runner' = "done")
    <3>1. /\ MarkerQueued /\ ~stopRequested => overtook
          /\ reader \in {"ended", "failed"} /\ ~stopRequested => overtook
          /\ failure => overtook
          /\ reader = "failed" => overtook
      BY <1>1, <2>2 DEF TakenInv
    <3>2. QED BY <1>2, <2>2, <3>1 DEF TakenInv
  <2>3. QED BY <2>1, <2>2
<1>6. CostInv'
  <2>1. CASE ends = {} /\ UNCHANGED runner
    <3>1. /\ PaidByOvertaken => PaidByOvertaken'
          /\ PaidByEnd => PaidByEnd'
      BY <2>1 DEF PaidByOvertaken, PaidByEnd
    <3>2. QED BY <1>1, <3>1, CostStays
  <2>2. CASE runner # "done" /\ Announced(ready) = {} /\ \A c \in ends : OwnEnd(c)'
    <3>1. runner' = "done" \/ ends = {} BY <2>2 DEF OwnEnd
    <3>2. PaidByOvertaken => PaidByOvertaken' BY <2>2, <3>1 DEF PaidByOvertaken
    <3>3. ~PaidByEnd BY <2>2 DEF PaidByEnd
    <3>4. QED BY <1>1, <3>2, <3>3, CostStays
  <2>3. QED BY <2>1, <2>2
<1>7. HoldInv' BY DEF HoldInv
<1>8. QED BY <1>3, <1>4, <1>5, <1>6, <1>7 DEF MarkerInv

(* When the task has its turn, it has not ended and no end is announced.   *)
LEMMA RunnerUnannounced ==
  ASSUME TypeOK, ControlInv, MarkerInv, Runs(Runner)
  PROVE  runner # "done" /\ ready # <<>> /\ Announced(ready) = {} /\ ~raised
<1>1. runner # "done" /\ ready # <<>> /\ N("done") = 0 BY RunnerIsAlone
<1>2. Announced(ready) = {} BY <1>1, RunnerCounts
<1>3. ~raised BY <1>1 DEF MarkerInv, TakenInv
<1>4. QED BY <1>1, <1>2, <1>3

LEMMA EmitsMarks ==
  ASSUME TypeOK, ControlInv, MarkerInv, Runs(Runner), NEW e \in AllEvents,
         NEW pc \in {"emitting", "emittingLast"}, RunnerEmits(e, pc),
         UNCHANGED <<run, failure, stopRequested, owner, historyVars, raised>>
  PROVE  MarkerInv'
<1>1. runner # "done" /\ ready # <<>> /\ Announced(ready) = {} BY RunnerUnannounced
<1>2. UNCHANGED <<run, failure, stopRequested, evicted, overtook>> /\ UNCHANGED owner /\ e # 0
  BY DEF historyVars, AllEvents
<1>3. ~raised' BY RunnerUnannounced
<1>4. CASE WaitForRoom(Runner) /\ runner' = pc /\ holding' = e
  <2>1. Keeps({}) BY <1>4, RunnerWaitsMoves
  <2>2. Announced(ready)' \subseteq Announced(ready) \cup {} BY <2>1 DEF Keeps
  <2>3. UNCHANGED <<queue, reader>> BY <1>4 DEF WaitForRoom
  <2>4. NoNewMarkers BY <2>3, QueueSame
  <2>5. QED BY <1>1, <1>2, <1>3, <1>4, <2>2, <2>3, <2>4, MarksStay
<1>5. CASE /\ Put(Item(e), IF AfterEmission(pc) = "done" THEN TaskEnds("returned") ELSE <<>>)
           /\ runner' = AfterEmission(pc) /\ holding' = 0
           /\ UNCHANGED putters
  <2>1. /\ queue' = Append(queue, Item(e))
        /\ reader' = IF reader = "waiting" THEN "reading" ELSE reader
    BY <1>5 DEF Put
  <2>2. NoNewMarkers BY <1>2, <2>1, QueuePuts
  <2>3. runner' \notin {"emitting", "emittingLast"} BY <1>5 DEF AfterEmission
  <2>4. reader' \in {"ended", "failed"} => reader' = reader BY <2>1
  <2>5. CASE AfterEmission(pc) = "done"
    <3>1. Put(Item(e), TaskEnds("returned")) BY <1>5, <2>5
    <3>2. Keeps({Callback("done", HowEnded["returned"], run)})
      BY <1>5, <3>1, RunnerPutsLastMoves
    <3> DEFINE end == Callback("done", HowEnded["returned"], run)
    <3>3. Announced(ready)' \subseteq Announced(ready) \cup {end} /\ end.on = run
          /\ end.arg # HowEnded.raised /\ runner' = "done"
      BY <1>5, <2>5, <3>2 DEF Keeps, Callback, HowEnded
    <3> HIDE DEF end
    <3>4. \A c \in {end} : OwnEnd(c)' BY <1>2, <1>3, <3>3 DEF OwnEnd
    <3>5. QED BY <1>1, <1>2, <1>3, <2>2, <2>3, <2>4, <3>3, <3>4, MarksStay
  <2>6. CASE AfterEmission(pc) # "done"
    <3>1. Put(Item(e), <<>>) BY <1>5, <2>6
    <3>2. Keeps({}) BY <1>5, <3>1, RunnerPutsMoves
    <3>3. Announced(ready)' \subseteq Announced(ready) \cup {} BY <3>2 DEF Keeps
    <3>4. QED BY <1>1, <1>2, <1>3, <2>2, <2>3, <2>4, <3>3, MarksStay
  <2>7. QED BY <2>5, <2>6
<1>6. QED BY <1>4, <1>5 DEF RunnerEmits

LEMMA MakersMark ==
  ASSUME TypeOK, ControlInv, MarkerInv,
         MockEmits \/ MissingDependency \/ CreateFails \/ ConnectionRaises \/ ResumesEmission
  PROVE  MarkerInv'
<1>1. Runs(Runner)
  BY DEF MockEmits, MissingDependency, CreateFails, ConnectionRaises, ResumesEmission, RunnerAt
<1>2. UNCHANGED <<run, failure, stopRequested, owner, historyVars, raised>>
  BY DEF MockEmits, MissingDependency, CreateFails, ConnectionRaises, ResumesEmission, RunnerMakes
<1>3. CASE ResumesEmission
  <2>1. /\ RunnerEmits(holding, runner) /\ runner \in {"emitting", "emittingLast"}
        /\ holding \in AllEvents
    BY <1>3 DEF ResumesEmission, MarkerInv, HoldInv, TypeOK
  <2>2. QED BY <1>1, <1>2, <2>1, EmitsMarks
<1>4. CASE ~ResumesEmission
  <2>1. PICK pc \in {"emitting", "emittingLast"} : RunnerEmits(Len(made) + 1, pc)
    BY <1>4 DEF MockEmits, MissingDependency, CreateFails, ConnectionRaises, RunnerMakes
  <2>2. runner \in Attempting
    BY <1>4 DEF MockEmits, MissingDependency, CreateFails, ConnectionRaises, RunnerAt
  <2>3. Len(made) + 1 \in AllEvents
    BY <2>2, ConnectorAssumption DEF ControlInv, MadeInv, One, TypeOK, AllEvents
  <2>4. QED BY <1>1, <1>2, <2>1, <2>3, EmitsMarks
<1>5. QED BY <1>3, <1>4

LEMMA RaisesMark ==
  ASSUME TypeOK, ControlInv, MarkerInv, ProducerRaises
  PROVE  MarkerInv'
<1>1. /\ Runs(Runner) /\ runner' = "done" /\ raised' = TRUE
      /\ UNCHANGED putters /\ UNCHANGED owner
      /\ UNCHANGED <<run, failure, stopRequested, evicted, overtook>>
  BY DEF ProducerRaises, RunnerAt, historyVars
<1>2. runner # "done" /\ Announced(ready) = {} BY <1>1, RunnerUnannounced
<1> DEFINE end == Callback("done", HowEnded["raised"], run)
<1>3. end.on = run /\ end.arg = HowEnded.raised BY DEF Callback
<1>4. Keeps({end}) /\ NoNewMarkers /\ (reader' \in {"ended", "failed"} => reader' = reader)
  <2>1. CASE Put(Item(Len(made) + 1), TaskEnds("raised"))
    <3>1. Keeps({end}) BY <1>1, <2>1, RunnerPutsLastMoves
    <3>2. Len(made) + 1 # 0 BY DEF TypeOK
    <3>3. NoNewMarkers BY <2>1, <3>2, QueuePuts DEF Put
    <3>4. QED BY <2>1, <3>1, <3>3 DEF Put
  <2>2. CASE ready' = Tail(ready) \o TaskEnds("raised") /\ UNCHANGED <<queue, reader>>
    <3>1. Keeps({end}) BY <1>1, <2>2, RunnerEndsMoves
    <3>2. QED BY <2>2, <3>1, QueueSame
  <2>3. QED BY <2>1, <2>2 DEF ProducerRaises
<1> HIDE DEF end
<1>5. Announced(ready)' \subseteq Announced(ready) \cup {end} BY <1>4 DEF Keeps
<1>6. \A c \in {end} : OwnEnd(c)' BY <1>1, <1>3 DEF OwnEnd
<1>7. QED BY <1>1, <1>2, <1>4, <1>5, <1>6, MarksStay

(* The task ends without an event, or pauses.                              *)
LEMMA TaskMarks ==
  ASSUME TypeOK, ControlInv, MarkerInv,
         CreateClient \/ PreflightGoesOn \/ AttemptOver \/ RunnerCancelled
  PROVE  MarkerInv'
<1>1. /\ Runs(Runner)
      /\ UNCHANGED <<run, failure, stopRequested, evicted, overtook>> /\ UNCHANGED <<owner, reader>>
      /\ UNCHANGED queue /\ UNCHANGED raised
      /\ runner' \notin {"emitting", "emittingLast"}
  BY DEF CreateClient, PreflightGoesOn, AttemptOver, RunnerCancelled, RunnerAt, historyVars,
         AfterEmission
<1>2. runner # "done" /\ Announced(ready) = {} /\ ~raised BY <1>1, RunnerUnannounced
<1>3. ~raised' BY <1>1, <1>2
<1>4. NoNewMarkers BY <1>1, QueueSame
<1> DEFINE returned == Callback("done", HowEnded["returned"], run)
           cancelled == Callback("done", HowEnded["cancelled"], run)
<1>5. PICK ends \in {{}, {returned}, {cancelled}} :
        /\ Announced(ready)' \subseteq Announced(ready) \cup ends
        /\ ends # {} => runner' = "done"
  <2>1. CASE CreateClient \/ PreflightGoesOn
    <3>1. ready # <<>> /\ UNCHANGED putters /\ ready' = Tail(ready)
      BY <1>1, <2>1 DEF CreateClient, PreflightGoesOn, Runs
    <3>2. Keeps({}) BY <3>1, TailMoves
    <3>3. Announced(ready)' \subseteq Announced(ready) \cup {} BY <3>2 DEF Keeps
    <3>4. QED BY <3>3
  <2>2. CASE AttemptOver
    <3>1. /\ UNCHANGED putters /\ runner' = AfterEmission("emitting")
          /\ ready' = Tail(ready) \o
               (IF AfterEmission("emitting") = "done" THEN TaskEnds("returned") ELSE <<>>)
      BY <2>2 DEF AttemptOver
    <3>2. CASE AfterEmission("emitting") = "done"
      <4>1. ready' = Tail(ready) \o TaskEnds("returned") BY <3>1, <3>2
      <4>2. Keeps({returned}) BY <1>1, <3>1, <4>1, RunnerEndsMoves
      <4>3. Announced(ready)' \subseteq Announced(ready) \cup {returned} BY <4>2 DEF Keeps
      <4>4. QED BY <3>1, <3>2, <4>3
    <3>3. CASE AfterEmission("emitting") # "done"
      <4>1. ready # <<>> /\ Tail(ready) \in Seq(Callbacks) BY <1>1 DEF TypeOK, Runs
      <4>2. ready' = Tail(ready) BY <3>1, <3>3, <4>1, ConcatEmptySeq
      <4>3. Keeps({}) BY <3>1, <4>1, <4>2, TailMoves
      <4>4. Announced(ready)' \subseteq Announced(ready) \cup {} BY <4>3 DEF Keeps
      <4>5. QED BY <4>4
    <3>4. QED BY <3>2, <3>3
  <2>3. CASE RunnerCancelled
    <3> DEFINE passesOn == runner \in {"emitting", "emittingLast"} /\ ~IsFull
    <3>1. /\ putters' = IF passesOn THEN OtherPutters ELSE putters
          /\ ready' = Tail(ready) \o (IF passesOn THEN FirstPutter ELSE <<>>)
                                  \o TaskEnds("cancelled")
          /\ passesOn \in BOOLEAN /\ runner' = "done"
      BY <2>3 DEF RunnerCancelled
    <3> HIDE DEF passesOn
    <3>2. Keeps({cancelled}) BY <1>1, <3>1, CancelledMoves
    <3>3. Announced(ready)' \subseteq Announced(ready) \cup {cancelled} BY <3>2 DEF Keeps
    <3>4. QED BY <3>1, <3>3
  <2>4. QED BY <2>1, <2>2, <2>3
<1>6. /\ returned.on = run /\ returned.arg # HowEnded.raised
      /\ cancelled.on = run /\ cancelled.arg # HowEnded.raised
  BY DEF Callback, HowEnded
<1> HIDE DEF returned, cancelled
<1>7. \A c \in ends : OwnEnd(c)' BY <1>1, <1>3, <1>5, <1>6 DEF OwnEnd
<1>8. QED BY <1>1, <1>2, <1>3, <1>4, <1>5, <1>7, MarksStay

(* Callbacks that neither end the task nor put a marker.                   *)
LEMMA HandlerMarks ==
  ASSUME TypeOK, ControlInv, MarkerInv, NEW e \in MadeEvents,
         HandlerSkips(e) \/ HandlerEmits(e) \/ HandlerPutsAside(e)
  PROVE  MarkerInv'
<1>1. /\ ready # <<>> /\ Head(ready).who = "handler"
      /\ UNCHANGED <<run, failure, stopRequested, evicted, overtook>> /\ UNCHANGED owner
      /\ UNCHANGED <<runner, raised>> /\ UNCHANGED holding
  BY DEF HandlerSkips, HandlerEmits, HandlerPutsAside, Handles, taskVars, historyVars
<1>2. e \in AllEvents BY ConnectorAssumption DEF TypeOK, MadeEvents, AllEvents
<1>3. Keeps({}) /\ NoNewMarkers /\ (reader' \in {"ended", "failed"} => reader' = reader)
  <2>1. CASE HandlerSkips(e) \/ HandlerPutsAside(e)
    <3>1. UNCHANGED putters /\ ready' = Tail(ready) /\ UNCHANGED <<queue, reader>>
      BY <2>1 DEF HandlerSkips, HandlerPutsAside
    <3>2. QED BY <1>1, <3>1, TailMoves, QueueSame
  <2>2. CASE HandlerEmits(e) /\ WaitForRoom(Callback("handler", e, run))
    <3>1. Callback("handler", e, run) \in Handlers BY <1>2 DEF Callback, Handlers, TypeOK
    <3>2. UNCHANGED <<queue, reader>> BY <2>2 DEF WaitForRoom
    <3>3. QED BY <1>1, <2>2, <3>1, <3>2, HandlerWaitsMoves, QueueSame
  <2>3. CASE HandlerEmits(e) /\ Put(Item(e), <<>>) /\ UNCHANGED putters
    <3>1. Keeps({}) BY <1>1, <2>3, HandlerPutsMoves
    <3>2. e # 0 /\ queue' = Append(queue, Item(e)) BY <1>2, <2>3 DEF Put, AllEvents
    <3>3. NoNewMarkers BY <3>2, QueuePuts
    <3>4. QED BY <2>3, <3>1, <3>3 DEF Put
  <2>4. QED BY <2>1, <2>2, <2>3 DEF HandlerEmits
<1>4. Announced(ready)' \subseteq Announced(ready) \cup {} BY <1>3 DEF Keeps
<1>5. runner' \in {"emitting", "emittingLast"} => holding' # 0 BY <1>1 DEF MarkerInv, HoldInv
<1>6. QED BY <1>1, <1>3, <1>4, <1>5, MarksStay

LEMMA PausesMark ==
  ASSUME TypeOK, ControlInv, MarkerInv,
         \/ StopDisconnects \/ DisconnectRaises \/ StartReturns
         \/ ReaderWaits \/ ReaderTakes
  PROVE  MarkerInv'
<1>1. /\ UNCHANGED <<run, failure, stopRequested, evicted, overtook>>
      /\ UNCHANGED <<runner, raised>> /\ UNCHANGED holding
      /\ owner = "stopped" => owner' = "stopped"
  BY DEF StopDisconnects, DisconnectRaises, StartReturns, ReaderWaits, ReaderTakes, taskVars,
         historyVars
<1>2. Keeps({}) /\ NoNewMarkers /\ (reader' \in {"ended", "failed"} => reader' = reader)
  <2>1. CASE ReaderTakes
    <3>1. /\ Runs(Reader) /\ putters' = OtherPutters /\ queue # <<>> /\ queue' = Tail(queue)
          /\ reader' \notin {"ended", "failed"}
      BY <2>1 DEF ReaderTakes
    <3>2. PICK stays \in BOOLEAN :
            ready' = (IF stays THEN ready ELSE Tail(ready)) \o FirstPutter
      <4>1. ready' \in {ready \o FirstPutter, Tail(ready) \o FirstPutter}
        BY <2>1 DEF ReaderTakes
      <4>2. QED BY <4>1
    <3>3. QED BY <3>1, <3>2, GetMoves, QueueTakes
  <2>2. CASE StopDisconnects \/ DisconnectRaises \/ StartReturns \/ ReaderWaits
    <3>1. /\ ready # <<>> /\ ready' \in {ready, Tail(ready)}
          /\ UNCHANGED putters /\ UNCHANGED queue
          /\ reader' \in {"ended", "failed"} => reader' = reader
      BY <2>2 DEF StopDisconnects, DisconnectRaises, StartReturns, ReaderWaits, Runs
    <3>2. CASE ready' = ready
      <4>1. \A w : N(w)' = N(w) BY <3>2 DEF N
      <4>2. QED BY <3>1, <3>2, <4>1, QueueSame, RunnerCounts DEF Keeps, TypeOK
    <3>3. CASE ready' = Tail(ready) BY <3>1, <3>3, TailMoves, QueueSame
    <3>4. QED BY <3>1, <3>2, <3>3
  <2>3. QED BY <2>1, <2>2
<1>3. Announced(ready)' \subseteq Announced(ready) \cup {} BY <1>2 DEF Keeps
<1>4. runner' \in {"emitting", "emittingLast"} => holding' # 0 BY <1>1 DEF MarkerInv, HoldInv
<1>5. QED BY <1>1, <1>2, <1>3, <1>4, MarksStay

LEMMA OutsideMarks ==
  ASSUME TypeOK, ControlInv, MarkerInv, Outside
  PROVE  MarkerInv'
<1>1. PICK woken \in {Runner, Reader, Starter, Stopper} \cup Handlers : Wakes(woken)
  <2>1. CASE ClientReports
    <3>1. Len(made) + 1 \in AllEvents /\ 0 \in 0 .. MaxStarts
      BY <2>1, ConnectorAssumption DEF ClientReports, TypeOK, AllEvents
    <3>2. Callback("handler", Len(made) + 1, 0) \in Handlers BY <3>1 DEF Callback, Handlers
    <3>3. QED BY <2>1, <3>2 DEF ClientReports
  <2>2. CASE ~ClientReports
    BY <2>2 DEF Outside, OwnerCalls, DisconnectReturns, ReaderBegins, BodyReturns, TimerFires,
                PreflightAnswers, ConnectionCloses
  <2>3. QED BY <2>1, <2>2
<1>2. /\ UNCHANGED <<run, failure, stopRequested, evicted, overtook>> /\ UNCHANGED raised
      /\ UNCHANGED queue /\ UNCHANGED holding
  BY <1>1 DEF Wakes, historyVars
<1>3. /\ UNCHANGED owner /\ (reader' \in {"ended", "failed"} => reader' = reader)
      /\ \/ UNCHANGED runner
         \/ runner = "sleeping" /\ runner' = "loop"
  BY DEF Outside, OwnerCalls, DisconnectReturns, ReaderBegins, BodyReturns, TimerFires,
         PreflightAnswers, ConnectionCloses, ClientReports
<1>4. Keeps({}) BY <1>1, WakesMoves
<1>5. Announced(ready)' \subseteq Announced(ready) \cup {} BY <1>4 DEF Keeps
<1>6. NoNewMarkers BY <1>2, QueueSame
<1>7. runner' \in {"emitting", "emittingLast"} => holding' # 0
  BY <1>2, <1>3 DEF MarkerInv, HoldInv
<1>8. CASE UNCHANGED runner BY <1>2, <1>3, <1>5, <1>6, <1>7, <1>8, MarksStay
<1>9. CASE runner = "sleeping" /\ runner' = "loop"
  <2>1. ~raised' BY <1>2, <1>9 DEF MarkerInv, TakenInv
  <2>2. runner # "done" /\ Announced(ready) = {}
    BY <1>9, RunnerCounts DEF ControlInv, TaskInv
  <2>3. PICK none : none = {} OBVIOUS
  <2>4. /\ runner # "done" /\ (raised' => runner' = "done")
        /\ Announced(ready) = {} /\ \A c \in none : OwnEnd(c)'
    BY <2>1, <2>2, <2>3
  <2>5. Announced(ready)' \subseteq Announced(ready) \cup none BY <1>5
  <2>6. owner = "stopped" => owner' = "stopped" BY <1>3
  <2>7. reader' \in {"ended", "failed"} => reader' = reader BY <1>3
  <2>8. runner' \notin {"emitting", "emittingLast"} BY <1>9
  <2> HIDE <1>3, <1>5, <1>7, <2>1, <2>2, <2>3
  <2>9. QED BY <1>2, <1>6, <2>4, <2>5, <2>6, <2>7, <2>8, MarksStay
<1>10. QED BY <1>3, <1>8, <1>9

LEMMA CancelsMark ==
  ASSUME TypeOK, ControlInv, MarkerInv, StopCancels
  PROVE  MarkerInv'
<1>1. /\ Runs(Stopper) /\ IsRunning /\ stopRequested' = TRUE
      /\ putters' = Without(putters, Runner)
      /\ runner' = IF IsWaiting(Runner) THEN "cancelled" ELSE runner
      /\ ready' = Tail(ready) \o (IF IsReady(Runner) THEN <<>> ELSE <<Runner>>)
      /\ UNCHANGED <<queue, run, holding, failure, reader, evicted, overtook, raised>>
  BY DEF StopCancels, BaseStops, historyVars
<1>2. Keeps({}) /\ N("stop") > 0 BY <1>1, StopMoves
<1>3. runner # "done" /\ runner' # "done" BY <1>1 DEF IsRunning
<1>4. owner # "stopped" BY <1>2 DEF ControlInv, CallInv
<1>5. Announced(ready)' \subseteq Announced(ready) BY <1>2 DEF Keeps
<1>6. runner = "loop" => runner' = "loop"
  BY <1>1, RunnerCounts DEF ControlInv, TaskInv
<1>7. EndsInv'
  <2>1. \A c \in Announced(ready)' : OvertakenEnd(c)
    BY <1>3, <1>5 DEF MarkerInv, EndsInv, OwnEnd
  <2>2. MarkerQueued' = MarkerQueued BY <1>1 DEF MarkerQueued
  <2>3. QED BY <1>1, <1>6, <2>1, <2>2 DEF EndsInv, OvertakenEnd
<1>8. OwnMarker' BY <1>1 DEF MarkerInv, OwnMarker
<1>9. TakenInv' BY <1>1, <1>3 DEF MarkerInv, TakenInv
<1>10. CostInv'
  <2>1. /\ PaidByOvertaken => PaidByOvertaken'
        /\ ~PaidByEnd
    BY <1>1, <1>3, <1>5 DEF PaidByOvertaken, PaidByEnd
  <2>2. QED BY <1>1, <1>4, <2>1, CostStays DEF MarkerInv
<1>11. HoldInv' BY <1>1 DEF MarkerInv, HoldInv
<1>12. QED BY <1>7, <1>8, <1>9, <1>10, <1>11 DEF MarkerInv

(* start() may come before the last task's end is announced.               *)
LEMMA StartMarks ==
  ASSUME TypeOK, ControlInv, MarkerInv, Start
  PROVE  MarkerInv'
<1>1. /\ Runs(Starter) /\ ~IsRunning /\ queue' = <<>> /\ putters' = <<>>
      /\ runner' = "loop" /\ run' = run + 1 /\ failure' = FALSE
      /\ overtook' = \E i \in 1 .. Len(ready) : ready[i].who = "done"
      /\ reader' = "idle" /\ evicted' = {} /\ raised' = FALSE
  BY DEF Start, NewQueue
<1>2. PICK next \in {<<>>, <<Stopper>>} : ready' = next \o Append(Tail(ready), Runner)
  BY DEF Start
<1>3. Keeps({}) BY <1>1, <1>2, StartMoves
<1>4. Announced(ready)' \subseteq Announced(ready) BY <1>3 DEF Keeps
<1>5. Len(queue') = 0
  <2>1. Len(<<>>) = 0 OBVIOUS
  <2>2. QED BY <1>1, <2>1
<1>6. ~MarkerQueued' BY <1>5 DEF MarkerQueued
<1>7. EndsInv'
  <2>1. ASSUME NEW c \in Announced(ready)' PROVE OvertakenEnd(c)'
    <3>1. c \in Announced(ready) BY <1>4
    <3>2. c.on = run BY <1>1, <3>1 DEF MarkerInv, EndsInv, OwnEnd, OvertakenEnd, IsRunning
    <3>3. overtook' BY <1>1, <3>1 DEF Announced, Elements
    <3>4. c.on = run' - 1 BY <1>1, <3>2 DEF TypeOK
    <3>5. QED BY <1>1, <1>6, <3>3, <3>4 DEF OvertakenEnd
  <2>2. QED BY <2>1 DEF EndsInv
<1>8. OwnMarker' BY <1>5 DEF OwnMarker
<1>9. TakenInv' BY <1>1, <1>6 DEF TakenInv
<1>10. CostInv'
  <2>1. Cardinality(evicted') = 0 BY <1>1, FS_EmptySet
  <2>2. /\ One(PaidByOvertaken') \in {0, 1} /\ One(PaidByEnd') \in {0, 1}
        /\ One((owner = "stopped")') \in {0, 1}
    BY DEF One
  <2>3. QED BY <2>1, <2>2 DEF CostInv
<1>11. HoldInv' BY <1>1 DEF HoldInv
<1>12. QED BY <1>7, <1>8, <1>9, <1>10, <1>11 DEF MarkerInv

(* The reader ends with the exception of the task, if it had one.          *)
LEMMA EndMarks ==
  ASSUME TypeOK, ControlInv, MarkerInv, ReaderEnds
  PROVE  MarkerInv'
<1>1. /\ Runs(Reader) /\ queue # <<>> /\ queue' = Tail(queue) /\ putters' = OtherPutters
      /\ IsMarker(Head(queue))
      /\ reader' = IF failure THEN "failed" ELSE "ended"
      /\ ready' = Tail(ready) \o FirstPutter
      /\ UNCHANGED <<run, runner, holding, failure, stopRequested, owner, evicted, overtook,
                     raised>>
  BY DEF ReaderEnds, taskVars, historyVars
<1>2. ready' = (IF FALSE THEN ready ELSE Tail(ready)) \o FirstPutter BY <1>1
<1>3. Keeps({}) BY <1>1, <1>2, GetMoves
<1>4. Announced(ready)' \subseteq Announced(ready) BY <1>3 DEF Keeps
<1>5. NoNewMarkers BY <1>1, QueueTakes
<1>6. MarkerQueued' => MarkerQueued BY <1>5, NoMarkerAppears
<1>7. EndsInv' BY <1>1, <1>4, <1>6 DEF MarkerInv, EndsInv, OwnEnd, OvertakenEnd
<1>8. OwnMarker' BY <1>1, <1>5 DEF MarkerInv, OwnMarker, NoNewMarkers
<1>9. MarkerQueued
  <2> DEFINE Q == [event : AllEvents \cup {0}, of : 0 .. MaxStarts]
  <2>1. queue \in Seq(Q) BY DEF TypeOK
  <2> HIDE DEF Q
  <2>2. 1 \in 1 .. Len(queue) /\ Head(queue) = queue[1] BY <1>1, <2>1
  <2>3. QED BY <1>1, <2>2 DEF MarkerQueued
<1>10. TakenInv' BY <1>1, <1>9 DEF MarkerInv, TakenInv
<1>11. CostInv'
  <2>1. /\ PaidByOvertaken => PaidByOvertaken'
        /\ PaidByEnd => PaidByEnd'
    BY <1>1, <1>4 DEF PaidByOvertaken, PaidByEnd
  <2>2. QED BY <1>1, <2>1, CostStays DEF MarkerInv
<1>12. HoldInv' BY <1>1 DEF MarkerInv, HoldInv
<1>13. QED BY <1>7, <1>8, <1>10, <1>11, <1>12 DEF MarkerInv

(* A marker costs one event at most.                                       *)
LEMMA WakeCosts ==
  ASSUME TypeOK, NEW r, NEW next, WakeEventConsumers(r, next)
  PROVE  /\ Cardinality(evicted) \in Nat
         /\ Cardinality(evicted') <= Cardinality(evicted) + 1
<1>1. IsFiniteSet(evicted) BY CostIsNat
<1>2. Cardinality(evicted) \in Nat BY CostIsNat
<1>3. evicted' = evicted \/ \E e : evicted' = evicted \cup {e}
  <2>1. CASE IsFull
    <3> DEFINE q == Head(queue)
    <3>1. evicted' = evicted \cup EventsIn(<<q>>) BY <2>1 DEF WakeEventConsumers
    <3>2. Len(<<q>>) = 1 /\ <<q>>[1] = q OBVIOUS
    <3>3. EventsIn(<<q>>) = {q.event} \ {0} BY <3>2 DEF EventsIn
    <3>4. EventsIn(<<q>>) = {} \/ EventsIn(<<q>>) = {q.event} BY <3>3
    <3> HIDE DEF q
    <3>5. QED BY <3>1, <3>4
  <2>2. CASE ~IsFull BY <2>2 DEF WakeEventConsumers
  <2>3. QED BY <2>1, <2>2
<1>4. CASE evicted' = evicted BY <1>2, <1>4
<1>5. ASSUME NEW e, evicted' = evicted \cup {e}
      PROVE  Cardinality(evicted') <= Cardinality(evicted) + 1
  <2>1. Cardinality(evicted \cup {e}) =
          IF e \in evicted THEN Cardinality(evicted) ELSE Cardinality(evicted) + 1
    BY <1>1, FS_AddElement
  <2>2. QED BY <1>2, <1>5, <2>1
<1>6. QED BY <1>2, <1>3, <1>4, <1>5

LEMMA WakeQueue ==
  ASSUME TypeOK, OwnMarker, NEW r, NEW next, WakeEventConsumers(r, next),
         UNCHANGED <<run, overtook>>, r = run \/ (overtook /\ r = run - 1)
  PROVE  OwnMarker'
<1> DEFINE Q == [event : AllEvents \cup {0}, of : 0 .. MaxStarts]
           kept == IF IsFull THEN Tail(queue) ELSE queue
<1>1. queue \in Seq(Q) BY DEF TypeOK
<1>2. queue' = Append(kept, Marker(r)) BY DEF WakeEventConsumers
<1> HIDE DEF Q
<1>3. /\ kept \in Seq(Q)
      /\ \A i \in 1 .. Len(kept) : \E j \in 1 .. Len(queue) : kept[i] = queue[j]
  <2>1. CASE IsFull
    <3>1. queue # <<>>
      <4>1. Len(<<>>) = 0 OBVIOUS
      <4>2. QED BY <2>1, <4>1, ConnectorAssumption DEF IsFull
    <3>2. /\ Tail(queue) \in Seq(Q) /\ Len(Tail(queue)) = Len(queue) - 1 /\ Len(queue) \in Nat
          /\ \A i \in 1 .. Len(queue) - 1 : Tail(queue)[i] = queue[i + 1]
      BY <1>1, <3>1
    <3>3. \A i \in 1 .. Len(queue) - 1 : i + 1 \in 1 .. Len(queue) BY <3>2
    <3>4. QED BY <2>1, <3>2, <3>3
  <2>2. CASE ~IsFull BY <1>1, <2>2
  <2>3. QED BY <2>1, <2>2
<1> HIDE DEF kept
<1>4. /\ Len(kept) \in Nat /\ Len(queue') = Len(kept) + 1
      /\ \A i \in 1 .. Len(kept) : queue'[i] = kept[i]
      /\ queue'[Len(kept) + 1] = Marker(r)
  BY <1>2, <1>3
<1>5. ASSUME NEW i \in 1 .. Len(queue'), IsMarker(queue'[i])
      PROVE  queue'[i].of = run \/ (overtook /\ queue'[i].of = run - 1)
  <2>1. CASE i = Len(kept) + 1 BY <1>4, <2>1 DEF Marker
  <2>2. CASE i \in 1 .. Len(kept)
    <3>1. PICK j \in 1 .. Len(queue) : queue'[i] = queue[j] BY <1>3, <1>4, <2>2
    <3>2. QED BY <1>5, <3>1 DEF OwnMarker
  <2>3. QED BY <1>4, <1>5, <2>1, <2>2
<1>6. QED BY <1>5 DEF OwnMarker

LEMMA DoneMarks ==
  ASSUME TypeOK, ControlInv, MarkerInv, OnTaskDone
  PROVE  MarkerInv'
<1> DEFINE done == Head(ready)
<1>1. /\ ready # <<>> /\ done.who = "done" /\ WakeEventConsumers(done.on, <<>>)
      /\ failure' = IF done.arg = HowEnded.cancelled THEN failure ELSE done.arg = HowEnded.raised
      /\ UNCHANGED <<run, runner, holding, stopRequested, owner, overtook, raised>>
  BY DEF OnTaskDone, taskVars
<1>2. ready \in Seq(Callbacks) BY DEF TypeOK
<1>3. done \in Announced(ready) BY <1>1, <1>2, ElementsTail DEF Announced
<1>4. OwnEnd(done) \/ OvertakenEnd(done) BY <1>3 DEF MarkerInv, EndsInv
<1> HIDE DEF done
<1>5. Keeps({}) /\ N("done") > 0 /\ N("done")' = N("done") - 1
  <2>1. <<>> \in {<<>>, <<Starter>>} OBVIOUS
  <2>2. Keeps({}) /\ N("done") > 0 /\ Moves(0, -1, GoesOn(<<>>), 0, Waking)
    BY <1>1, <2>1, WakeMoves DEF done
  <2>3. QED BY <2>2 DEF Moves, AreNat
<1>6. Announced(ready)' = {}
  <2>1. N("done") = 1 BY <1>5, RunnerCounts DEF ControlInv, TaskInv
  <2>2. N("done")' = 0 BY <1>5, <2>1
  <2>3. ready' \in Seq(Callbacks) BY <1>5 DEF Keeps
  <2>4. \A c \in Elements(ready') : c.who # "done" BY <2>2, <2>3, CountsOfKinds DEF N
  <2>5. QED BY <2>4 DEF Announced
<1>7. EndsInv' BY <1>6 DEF EndsInv
<1>8. OwnMarker' BY <1>1, <1>4, WakeQueue DEF MarkerInv, OwnEnd, OvertakenEnd
<1>9. TakenInv'
  <2>1. reader' \in {"ended", "failed"} => reader' = reader
    BY <1>1 DEF WakeEventConsumers
  <2>2. CASE OwnEnd(done)
    <3>1. HowEnded.raised # HowEnded.cancelled BY DEF HowEnded
    <3>2. raised => failure'
      <4>1. SUFFICES ASSUME raised PROVE failure' OBVIOUS
      <4>2. done.arg = HowEnded.raised BY <2>2, <4>1 DEF OwnEnd
      <4>3. QED BY <1>1, <3>1, <4>2
    <3>3. failure' => raised \/ overtook
      BY <1>1, <2>2 DEF OwnEnd, MarkerInv, TakenInv
    <3>4. runner = "done" BY <2>2 DEF OwnEnd
    <3>5. QED BY <1>1, <2>1, <3>2, <3>3, <3>4 DEF MarkerInv, TakenInv
  <2>3. CASE OvertakenEnd(done)
    <3>1. overtook BY <2>3 DEF OvertakenEnd
    <3>2. QED BY <1>1, <3>1 DEF MarkerInv, TakenInv
  <2>4. QED BY <1>4, <2>2, <2>3
<1>10. CostInv'
  <2> DEFINE a == One(PaidByOvertaken)
             b == One(PaidByEnd)
             c == One(owner = "stopped")
             n == Cardinality(evicted)
             a2 == One(PaidByOvertaken')
             b2 == One(PaidByEnd')
             n2 == Cardinality(evicted')
  <2>1. n \in Nat /\ n2 <= n + 1 BY <1>1, WakeCosts
  <2>2. n2 \in Nat
    <3>1. TypeOK' BY DoneControl
    <3>2. evicted' \subseteq AllEvents BY <3>1 DEF TypeOK
    <3>3. IsFiniteSet(AllEvents) BY FS_Interval, ConnectorAssumption DEF AllEvents
    <3>4. QED BY <3>2, <3>3, FS_Subset, FS_CardinalityType
  <2>3. a \in Nat /\ b \in Nat /\ c \in Nat /\ a2 \in Nat /\ b2 \in Nat BY DEF One
  <2>4. n2 <= (a2 + b2) + c
    <3>1. CASE OwnEnd(done)
      <4>1. ~PaidByEnd /\ PaidByEnd' /\ (PaidByOvertaken => PaidByOvertaken')
        BY <1>1, <1>3, <1>6, <3>1 DEF OwnEnd, PaidByEnd, PaidByOvertaken
      <4>2. b = 0 /\ b2 = 1 /\ a <= a2 BY <4>1 DEF One
      <4>3. n <= (a + b) + c BY DEF MarkerInv, CostInv
      <4> HIDE DEF a, b, c, n, a2, b2, n2
      <4>4. QED BY <2>1, <2>2, <2>3, <4>2, <4>3
    <3>2. CASE OvertakenEnd(done)
      <4>1. PaidByOvertaken' /\ evicted = {}
        BY <1>1, <1>6, <3>2 DEF OvertakenEnd, PaidByOvertaken
      <4>2. a2 = 1 /\ n = 0 BY <4>1, FS_EmptySet DEF One
      <4> HIDE DEF a, b, c, n, a2, b2, n2
      <4>3. QED BY <2>1, <2>2, <2>3, <4>2
    <3>3. QED BY <1>4, <3>1, <3>2
  <2>5. QED BY <1>1, <2>4 DEF CostInv
<1>11. HoldInv' BY <1>1 DEF MarkerInv, HoldInv
<1>12. QED BY <1>7, <1>8, <1>9, <1>10, <1>11 DEF MarkerInv

LEMMA StopMark ==
  ASSUME TypeOK, ControlInv, MarkerInv, StopMarks
  PROVE  MarkerInv'
<1>1. /\ Runs(Stopper) /\ ready # <<>> /\ Head(ready) = Stopper
      /\ ~IsRunning \/ owner = "awaiting"
      /\ stopRequested' = TRUE /\ owner' = "stopped"
      /\ UNCHANGED <<run, runner, holding, failure, overtook, raised>>
  BY DEF StopMarks, BaseStops, taskVars, Runs
<1>2. PICK next \in {<<>>, <<Starter>>} : WakeEventConsumers(run, next) BY DEF StopMarks
<1>3. Keeps({}) /\ N("stop") > 0 BY <1>1, <1>2, WakeMoves
<1>4. Announced(ready)' \subseteq Announced(ready) BY <1>3 DEF Keeps
<1>5. owner # "stopped" BY <1>3 DEF ControlInv, CallInv
<1>6. runner # "loop" BY <1>1, <1>3 DEF ControlInv, CallInv, IsRunning
<1>7. EndsInv'
  <2>1. \A c \in Announced(ready)' : OwnEnd(c)
    BY <1>4, <1>6 DEF MarkerInv, EndsInv, OvertakenEnd
  <2>2. QED BY <1>1, <2>1 DEF EndsInv, OwnEnd
<1>8. OwnMarker' BY <1>1, <1>2, WakeQueue DEF MarkerInv
<1>9. TakenInv'
  <2>1. reader' \in {"ended", "failed"} => reader' = reader
    BY <1>2 DEF WakeEventConsumers
  <2>2. QED BY <1>1, <2>1 DEF MarkerInv, TakenInv
<1>10. CostInv'
  <2> DEFINE a == One(PaidByOvertaken)
             b == One(PaidByEnd)
             n == Cardinality(evicted)
             a2 == One(PaidByOvertaken')
             b2 == One(PaidByEnd')
             n2 == Cardinality(evicted')
  <2>1. One(owner = "stopped") = 0 /\ One((owner = "stopped")') = 1 BY <1>1, <1>5 DEF One
  <2>2. /\ PaidByOvertaken => PaidByOvertaken'
        /\ PaidByEnd => PaidByEnd'
    BY <1>1, <1>4 DEF PaidByOvertaken, PaidByEnd
  <2>3. a \in Nat /\ b \in Nat /\ a2 \in Nat /\ b2 \in Nat /\ a <= a2 /\ b <= b2
    BY <2>2 DEF One
  <2>4. n \in Nat /\ n2 <= n + 1 BY <1>2, WakeCosts
  <2>5. n2 \in Nat
    <3>1. TypeOK' BY MarksControl
    <3>2. evicted' \subseteq AllEvents BY <3>1 DEF TypeOK
    <3>3. IsFiniteSet(AllEvents) BY FS_Interval, ConnectorAssumption DEF AllEvents
    <3>4. QED BY <3>2, <3>3, FS_Subset, FS_CardinalityType
  <2>6. n <= (a + b) + 0 BY <2>1 DEF MarkerInv, CostInv
  <2> HIDE DEF a, b, n, a2, b2, n2
  <2>7. n2 <= (a2 + b2) + 1 BY <2>3, <2>4, <2>5, <2>6
  <2>8. QED BY <2>1, <2>7 DEF CostInv, a2, b2, n2
<1>11. HoldInv' BY <1>1 DEF MarkerInv, HoldInv
<1>12. QED BY <1>7, <1>8, <1>9, <1>10, <1>11 DEF MarkerInv

LEMMA InitMarks == Init => MarkerInv
<1> SUFFICES ASSUME Init PROVE MarkerInv OBVIOUS
<1>1. Len(queue) = 0
  <2>1. Len(<<>>) = 0 OBVIOUS
  <2>2. QED BY <2>1 DEF Init
<1>2. EndsInv BY NoElements DEF Init, EndsInv
<1>3. OwnMarker BY <1>1 DEF OwnMarker
<1>4. TakenInv BY <1>1 DEF TakenInv, MarkerQueued, Init
<1>5. Cardinality(evicted) = 0 BY FS_EmptySet DEF Init
<1>6. CostInv
  <2>1. /\ One(PaidByOvertaken) \in {0, 1} /\ One(PaidByEnd) \in {0, 1}
        /\ One(owner = "stopped") \in {0, 1}
    BY DEF One
  <2>2. QED BY <1>5, <2>1 DEF CostInv
<1>7. HoldInv BY DEF HoldInv, Init
<1>8. QED BY <1>2, <1>3, <1>4, <1>6, <1>7 DEF MarkerInv

LEMMA MarksStutter ==
  ASSUME TypeOK, ControlInv, MarkerInv, UNCHANGED vars
  PROVE  MarkerInv'
<1>1. /\ UNCHANGED <<ready, queue, run, runner, holding, failure, stopRequested, owner, reader,
                     evicted, overtook, raised>>
  BY DEF vars, taskVars, historyVars
<1>2. MarkerQueued' = MarkerQueued BY <1>1 DEF MarkerQueued
<1>3. EndsInv' BY <1>1, <1>2 DEF MarkerInv, EndsInv, OwnEnd, OvertakenEnd
<1>4. OwnMarker' BY <1>1 DEF MarkerInv, OwnMarker
<1>5. TakenInv' BY <1>1, <1>2 DEF MarkerInv, TakenInv
<1>6. CostInv' BY <1>1, CostStays DEF MarkerInv, PaidByOvertaken, PaidByEnd
<1>7. HoldInv' BY <1>1 DEF MarkerInv, HoldInv
<1>8. QED BY <1>3, <1>4, <1>5, <1>6, <1>7 DEF MarkerInv

LEMMA StepMarks ==
  ASSUME TypeOK, ControlInv, MarkerInv, [Next]_vars
  PROVE  MarkerInv'
<1>1. CASE RunnerStep BY <1>1, MakersMark, RaisesMark, TaskMarks DEF RunnerStep
<1>2. CASE LoopStep /\ ~RunnerStep
  BY <1>2, DoneMarks, HandlerMarks, StartMarks, PausesMark, CancelsMark, StopMark, EndMarks
  DEF LoopStep
<1>3. CASE Outside BY <1>3, OutsideMarks
<1>4. CASE UNCHANGED vars BY <1>4, MarksStutter
<1>5. QED BY <1>1, <1>2, <1>3, <1>4 DEF Next, LoopStep, AllQuiet

LEMMA MarkerInvariant == Spec => [](TypeOK /\ ControlInv /\ MarkerInv)
<1>1. Init => TypeOK /\ ControlInv /\ MarkerInv BY InitControl, InitMarks
<1>2. TypeOK /\ ControlInv /\ MarkerInv /\ [Next]_vars => (TypeOK /\ ControlInv /\ MarkerInv)'
  BY StepControl, StepMarks
<1>3. QED BY <1>1, <1>2, PTL DEF Spec

(* However stop(), start() and the end of a task come together, a marker   *)
(* in the queue is that of the run, or that of the run before it when      *)
(* start() came too early for _on_task_done (base.py): no marker outlives  *)
(* the next start().                                                       *)
THEOREM MarkersAreOwn == Spec => []OwnMarker
<1>1. TypeOK /\ ControlInv /\ MarkerInv => OwnMarker BY DEF MarkerInv
<1>2. QED BY <1>1, MarkerInvariant, PTL

(* Unless start() overtook the announcement of the last run's end, a       *)
(* reader whose stream ended without a stop() was not denied an exception  *)
(* of the producer, and one that got an exception got a real one.          *)
THEOREM FailureIsReported == Spec => []FailureReported
<1>1. TypeOK /\ ControlInv /\ MarkerInv => FailureReported
  BY DEF MarkerInv, TakenInv, FailureReported
<1>2. QED BY <1>1, MarkerInvariant, PTL

(* _wake_event_consumers takes at most two events from the reader of a     *)
(* run, none while its producer runs, and one more when start() overtook   *)
(* the announcement of the last run's end.                                 *)
THEOREM MarkersCostLittle == Spec => []MarkersCostFew
<1>1. TypeOK /\ ControlInv /\ MarkerInv => MarkersCostFew
  <2> SUFFICES ASSUME TypeOK, ControlInv, MarkerInv PROVE MarkersCostFew OBVIOUS
  <2> DEFINE n == Cardinality(evicted)
             a == One(PaidByOvertaken)
             b == One(PaidByEnd)
             c == One(owner = "stopped")
             o == IF overtook THEN 1 ELSE 0
  <2>1. n \in Nat BY CostIsNat
  <2>2. n <= (a + b) + c BY DEF MarkerInv, CostInv
  <2>3. a \in {0, 1} /\ b \in {0, 1} /\ c \in {0, 1} /\ o \in {0, 1} /\ a <= o
    BY DEF One, PaidByOvertaken
  <2>4. IsRunning => b = 0 /\ c = 0
    BY DEF One, PaidByEnd, IsRunning, ControlInv, CallInv
  <2> HIDE DEF n, a, b, c, o
  <2>5. n <= 2 + o /\ (IsRunning => n <= 0 + o) BY <2>1, <2>2, <2>3, <2>4
  <2>6. QED BY <2>5 DEF MarkersCostFew, n, o
<1>2. QED BY <1>1, MarkerInvariant, PTL

-----------------------------------------------------------------------------
(* Where the events are.  A handler is on its way with an event if it is   *)
(* ready with it and is not just going to skip it.                         *)

Sent(e) == {c \in Callbacks : c.who = "handler" /\ c.arg = e}
Intermediate(e) == e \in MadeEvents /\ IsIntermediateGiftStreak(made[e])
Going(e) == {c \in Sent(e) : Intermediate(e) => c.on # 0}
Items == [event : AllEvents \cup {0}, of : 0 .. MaxStarts]
Bearing(e) == {item \in Items : item.event = e}

OnItsWay(e) == CountIn(ready, Going(e))
Waits(e)    == CountIn(putters, Sent(e))
InQueue(e)  == CountIn(queue, Bearing(e))
Gone(e)     == CountIn(delivered, {e}) + (One(e \in evicted) + One(e \in abandoned))
Total(e)    == ((OnItsWay(e) + Waits(e)) + One(holding = e)) + (InQueue(e) + Gone(e))

Final(e) == e \in MadeEvents /\ ~Intermediate(e)
PlaceInv == \A e \in AllEvents : Total(e) = One(Final(e))

(* The task holds an event only where it may be waiting for room.          *)
HolderInv == holding # 0 => runner \in {"emitting", "emittingLast", "cancelled"}

LEMMA PlacesAreNat ==
  ASSUME TypeOK, NEW e \in AllEvents
  PROVE  /\ OnItsWay(e) \in Nat /\ Waits(e) \in Nat /\ InQueue(e) \in Nat
         /\ CountIn(delivered, {e}) \in Nat /\ Gone(e) \in Nat
         /\ One(holding = e) \in {0, 1} /\ One(e \in evicted) \in {0, 1}
         /\ One(e \in abandoned) \in {0, 1}
         /\ queue \in Seq(Items) /\ ready \in Seq(Callbacks) /\ putters \in Seq(Callbacks)
<1>1. ready \in Seq(Callbacks) /\ putters \in Seq(Handlers \cup {Runner})
      /\ queue \in Seq(Items) /\ delivered \in Seq(AllEvents)
  BY DEF TypeOK, Items
<1>2. Handlers \cup {Runner} \subseteq Callbacks BY CallbackKinds
<1>3. putters \in Seq(Callbacks)
  <2> DEFINE E == Handlers \cup {Runner}
  <2>1. putters \in Seq(E) /\ E \subseteq Callbacks BY <1>1, <1>2
  <2> HIDE DEF E
  <2>2. QED BY <2>1, SeqMonotone
<1>4. OnItsWay(e) \in Nat BY <1>1, CountIsNat DEF OnItsWay
<1>5. Waits(e) \in Nat BY <1>3, CountIsNat DEF Waits
<1>6. InQueue(e) \in Nat BY <1>1, CountIsNat DEF InQueue
<1>7. CountIn(delivered, {e}) \in Nat BY <1>1, CountIsNat
<1>8. /\ One(holding = e) \in {0, 1} /\ One(e \in evicted) \in {0, 1}
      /\ One(e \in abandoned) \in {0, 1}
  BY DEF One
<1>9. Gone(e) \in Nat BY <1>7, <1>8 DEF Gone
<1>10. QED BY <1>1, <1>3, <1>4, <1>5, <1>6, <1>7, <1>8, <1>9

(* How the steps change the number of callbacks in any set K.              *)
LEMMA TakesHead ==
  ASSUME TypeOK, ready # <<>>, ready' = Tail(ready), NEW K
  PROVE  CountIn(ready', K) = CountIn(ready, K) - One(Head(ready) \in K)
<1>1. ready \in Seq(Callbacks) BY DEF TypeOK
<1>2. CountIn(Tail(ready), K) = CountIn(ready, K) - One(Head(ready) \in K)
  BY <1>1, CountTail
<1>3. QED BY <1>2

LEMMA TakesHeadAndOne ==
  ASSUME TypeOK, ready # <<>>, NEW a \in Seq(Callbacks), ready' = Tail(ready) \o a, NEW K
  PROVE  CountIn(ready', K) = (CountIn(ready, K) - One(Head(ready) \in K)) + CountIn(a, K)
<1> DEFINE rest == Tail(ready)
<1>1. ready \in Seq(Callbacks) /\ rest \in Seq(Callbacks) BY DEF TypeOK
<1>2. CountIn(rest, K) = CountIn(ready, K) - One(Head(ready) \in K)
  BY <1>1, CountTail
<1> HIDE DEF rest
<1>3. CountIn(rest \o a, K) = CountIn(rest, K) + CountIn(a, K) BY <1>1, CountConcat
<1>4. QED BY <1>2, <1>3 DEF rest

LEMMA TakesHeadAndTwo ==
  ASSUME TypeOK, ready # <<>>, NEW a \in Seq(Callbacks), NEW b \in Seq(Callbacks),
         ready' = (Tail(ready) \o a) \o b, NEW K
  PROVE  CountIn(ready', K) =
           ((CountIn(ready, K) - One(Head(ready) \in K)) + CountIn(a, K)) + CountIn(b, K)
<1> DEFINE rest == Tail(ready)
<1>1. ready \in Seq(Callbacks) /\ rest \in Seq(Callbacks) BY DEF TypeOK
<1>2. CountIn(rest, K) = CountIn(ready, K) - One(Head(ready) \in K)
  BY <1>1, CountTail
<1>5. ready' = (rest \o a) \o b OBVIOUS
<1> HIDE DEF rest
<1>3. CountIn(rest \o a, K) = CountIn(rest, K) + CountIn(a, K) BY <1>1, CountConcat
<1> DEFINE front == rest \o a
<1>6. front \in Seq(Callbacks) BY <1>1, ConcatProperties
<1>7. CountIn(front, K) = CountIn(rest, K) + CountIn(a, K) BY <1>3
<1>8. ready' = front \o b BY <1>5
<1> HIDE DEF front
<1>4. CountIn(front \o b, K) = CountIn(front, K) + CountIn(b, K) BY <1>6, CountConcat
<1>9. QED BY <1>2, <1>4, <1>7, <1>8

(* Callbacks that are not handlers carry no event.                         *)
LEMMA CarriesNone ==
  ASSUME NEW s \in Seq(Callbacks), \A c \in Elements(s) : c.who # "handler",
         NEW e, NEW K \in SUBSET Sent(e)
  PROVE  CountIn(s, K) = 0
<1>1. \A i \in 1 .. Len(s) : s[i] \notin K BY DEF Elements, Sent
<1>2. QED BY <1>1, CountPositive

LEMMA CarryNone ==
  ASSUME TypeOK, NEW e, NEW K \in SUBSET Sent(e)
  PROVE  /\ WokenReader \in Seq(Callbacks) /\ CountIn(WokenReader, K) = 0
         /\ \A how \in {"returned", "raised", "cancelled"} :
              TaskEnds(how) \in Seq(Callbacks) /\ CountIn(TaskEnds(how), K) = 0
         /\ CountIn(<<>>, K) = 0 /\ <<>> \in Seq(Callbacks)
         /\ {Runner, Reader, Starter, Stopper} \cap K = {}
<1>1. /\ WokenReader \in Seq(Callbacks)
      /\ \A c \in Elements(WokenReader) : c = Reader /\ Reader.who = "reader"
  BY WokenReaderComes, CallbackKinds
<1>2. CountIn(WokenReader, K) = 0 BY <1>1, CarriesNone
<1>3. ASSUME NEW how \in {"returned", "raised", "cancelled"}
      PROVE  TaskEnds(how) \in Seq(Callbacks) /\ CountIn(TaskEnds(how), K) = 0
  <2>1. TaskEnds(how) \in Seq(Callbacks) BY TaskEndsComes
  <2>2. CountIn(TaskEnds(how), Kind("handler")) =
          One("handler" = "done") + One("handler" = "stop" /\ owner = "awaiting")
    BY TaskEndsComes
  <2>3. CountIn(TaskEnds(how), Kind("handler")) = 0 BY <2>2 DEF One
  <2>4. \A c \in Elements(TaskEnds(how)) : c.who # "handler" BY <2>1, <2>3, CountsOfKinds
  <2>5. QED BY <2>1, <2>4, CarriesNone
<1>4. CountIn(<<>>, K) = 0 /\ <<>> \in Seq(Callbacks) BY CountNone, NoneComes
<1>5. {Runner, Reader, Starter, Stopper} \cap K = {} BY CallbackKinds DEF Sent
<1>6. QED BY <1>1, <1>2, <1>3, <1>4, <1>5

LEMMA NextCarriesNone ==
  ASSUME NEW next \in {<<>>, <<Starter>>, <<Stopper>>}, NEW e, NEW K \in SUBSET Sent(e)
  PROVE  next \in Seq(Callbacks) /\ CountIn(next, K) = 0
<1>1. next \in Seq(Callbacks) BY NextComes
<1>2. CountIn(<<>>, K) = 0 BY CountNone
<1>3. CountIn(<<Starter>>, K) = One(Starter \in K) BY CountOne
<1>4. CountIn(<<Stopper>>, K) = One(Stopper \in K) BY CountOne
<1>5. One(Starter \in K) = 0 /\ One(Stopper \in K) = 0 BY CallbackKinds DEF Sent, One
<1>6. QED BY <1>1, <1>2, <1>3, <1>4, <1>5

(* An emitter that is let in carries an event that goes on.                *)
LEMMA LetInCarries ==
  ASSUME TypeOK, PlaceInv, NEW e \in AllEvents
  PROVE  /\ FirstPutter \in Seq(Callbacks) /\ OtherPutters \in Seq(Callbacks)
         /\ CountIn(FirstPutter, Going(e)) + CountIn(OtherPutters, Sent(e)) = Waits(e)
         /\ CountIn(FirstPutter, Going(e)) \in Nat /\ CountIn(OtherPutters, Sent(e)) \in Nat
<1> DEFINE E == Handlers \cup {Runner}
<1>1. FirstPutter \in Seq(Callbacks) /\ OtherPutters \in Seq(E) BY FirstPutterComes
<1>2. OtherPutters \in Seq(Callbacks)
  <2>1. E \subseteq Callbacks BY CallbackKinds
  <2> HIDE DEF E
  <2>2. QED BY <1>1, <2>1, SeqMonotone
<1>3. FirstPutter \o OtherPutters = putters
  <2>1. putters \in Seq(Callbacks) BY PlacesAreNat
  <2>2. CASE putters = <<>> BY <2>2 DEF FirstPutter, OtherPutters
  <2>3. CASE putters # <<>> BY <2>1, <2>3 DEF FirstPutter, OtherPutters
  <2>4. QED BY <2>2, <2>3
<1>4. CountIn(FirstPutter, Sent(e)) + CountIn(OtherPutters, Sent(e)) = Waits(e)
  <2>1. CountIn(FirstPutter \o OtherPutters, Sent(e)) =
          CountIn(FirstPutter, Sent(e)) + CountIn(OtherPutters, Sent(e))
    BY <1>1, <1>2, CountConcat
  <2>2. QED BY <1>3, <2>1 DEF Waits
<1>5. /\ CountIn(FirstPutter, Sent(e)) \in Nat /\ CountIn(FirstPutter, Going(e)) \in Nat
      /\ CountIn(OtherPutters, Sent(e)) \in Nat
  BY <1>1, <1>2, CountIsNat
<1>6. CountIn(FirstPutter, Going(e)) = CountIn(FirstPutter, Sent(e))
  <2>1. CASE ~Intermediate(e)
    <3>1. Going(e) = Sent(e) BY <2>1 DEF Going
    <3>2. QED BY <3>1
  <2>2. CASE Intermediate(e)
    <3>1. Total(e) = 0 BY <2>2 DEF PlaceInv, One, Final
    <3>2. Waits(e) = 0
      <4> DEFINE h == One(holding = e)
      <4>1. /\ Gone(e) \in Nat /\ OnItsWay(e) \in Nat /\ Waits(e) \in Nat /\ InQueue(e) \in Nat
        BY PlacesAreNat
      <4>5. h \in Nat BY DEF One
      <4>2. ((OnItsWay(e) + Waits(e)) + h) + (InQueue(e) + Gone(e)) = 0 BY <3>1 DEF Total
      <4> HIDE DEF h
      <4>3. \A a, b, c, d, f \in Nat : ((a + b) + c) + (d + f) = 0 => b = 0 OBVIOUS
      <4>4. QED BY <4>1, <4>2, <4>3, <4>5
    <3>3. CountIn(FirstPutter, Sent(e)) = 0 BY <1>4, <1>5, <3>2
    <3>4. \A i \in 1 .. Len(FirstPutter) : FirstPutter[i] \notin Sent(e)
      BY <1>1, <3>3, CountPositive
    <3>5. \A i \in 1 .. Len(FirstPutter) : FirstPutter[i] \notin Going(e)
      BY <3>4 DEF Going
    <3>6. CountIn(FirstPutter, Going(e)) = 0 BY <1>1, <3>5, CountPositive
    <3>7. QED BY <3>3, <3>6
  <2>3. QED BY <2>1, <2>2
<1>7. QED BY <1>1, <1>2, <1>4, <1>5, <1>6

(* No event is in two places.                                              *)
LEMMA OnePlace ==
  ASSUME TypeOK, PlaceInv, NEW e \in AllEvents
  PROVE  /\ Total(e) \in {0, 1} /\ Gone(e) \in Nat
         /\ InQueue(e) > 0 => /\ InQueue(e) = 1 /\ Gone(e) = 0 /\ OnItsWay(e) = 0
                              /\ Waits(e) = 0 /\ holding # e
                              /\ e \notin evicted /\ e \notin abandoned
         /\ holding = e => /\ InQueue(e) = 0 /\ Gone(e) = 0 /\ OnItsWay(e) = 0 /\ Waits(e) = 0
                           /\ e \notin evicted /\ e \notin abandoned
         /\ OnItsWay(e) > 0 => e \notin abandoned
<1>1. Total(e) \in {0, 1} BY DEF PlaceInv, One
<1>2. Gone(e) \in Nat BY PlacesAreNat
<1>3. Gone(e) = 0 => e \notin evicted /\ e \notin abandoned
  <2>1. SUFFICES ASSUME Gone(e) = 0 PROVE e \notin evicted /\ e \notin abandoned OBVIOUS
  <2>2. One(e \in evicted) = 0 /\ One(e \in abandoned) = 0
    BY <2>1, PlacesAreNat DEF Gone
  <2>3. QED BY <2>2 DEF One
<1>4. One(holding = e) = 0 => holding # e BY DEF One
<1>5. holding = e => One(holding = e) = 1 BY DEF One
<1>6. /\ OnItsWay(e) \in Nat /\ Waits(e) \in Nat /\ InQueue(e) \in Nat
      /\ One(holding = e) \in {0, 1}
  BY PlacesAreNat
<1> DEFINE h == One(holding = e)
<1>7. h \in {0, 1} /\ ((OnItsWay(e) + Waits(e)) + h) + (InQueue(e) + Gone(e)) \in {0, 1}
  BY <1>1, <1>6 DEF Total
<1> HIDE DEF h
<1>8. InQueue(e) > 0 => /\ InQueue(e) = 1 /\ Gone(e) = 0 /\ OnItsWay(e) = 0
                        /\ Waits(e) = 0 /\ h = 0
  BY <1>2, <1>6, <1>7
<1>9. h = 1 => InQueue(e) = 0 /\ Gone(e) = 0 /\ OnItsWay(e) = 0 /\ Waits(e) = 0
  BY <1>2, <1>6, <1>7
<1>10. OnItsWay(e) > 0 => Gone(e) = 0 BY <1>2, <1>6, <1>7
<1>11. QED BY <1>1, <1>2, <1>3, <1>4, <1>5, <1>8, <1>9, <1>10 DEF h

(* What stays where it was when no event is made.                          *)
LEMMA SameEvents ==
  ASSUME UNCHANGED made, NEW e
  PROVE  Going(e)' = Going(e) /\ (Final(e)' <=> Final(e)) /\ Sent(e)' = Sent(e)
BY DEF Going, Sent, Final, Intermediate, MadeEvents

LEMMA Balance ==
  ASSUME PlaceInv, UNCHANGED made, \A e \in AllEvents : Total(e)' = Total(e)
  PROVE  PlaceInv'
<1>1. \A e \in AllEvents : One(Final(e))' = One(Final(e)) BY SameEvents DEF One
<1>2. QED BY <1>1 DEF PlaceInv

LEMMA SumStays ==
  \A a, b, c, d, g, c1, d1 \in Nat :
    c1 + d1 = c + d => ((a + b) + c1) + (d1 + g) = ((a + b) + c) + (d + g)
OBVIOUS

(* An event is put into the queue.                                         *)
LEMMA QueueGets ==
  ASSUME TypeOK, NEW ev \in AllEvents, queue' = Append(queue, Item(ev)), NEW e \in AllEvents
  PROVE  InQueue(e)' = InQueue(e) + One(ev = e)
<1>1. queue \in Seq(Items) BY PlacesAreNat
<1>2. Item(ev) \in Items BY ConnectorAssumption DEF Item, Items
<1>3. CountIn(Append(queue, Item(ev)), Bearing(e)) =
        CountIn(queue, Bearing(e)) + One(Item(ev) \in Bearing(e))
  BY <1>1, <1>2, CountAppend
<1>4. One(Item(ev) \in Bearing(e)) = One(ev = e) BY <1>2 DEF Bearing, Item, One
<1>5. InQueue(e)' = CountIn(queue', Bearing(e)) BY DEF InQueue, Bearing
<1>6. QED BY <1>3, <1>4, <1>5 DEF InQueue

LEMMA PutCarries ==
  ASSUME TypeOK, ready # <<>>, NEW item, NEW then \in Seq(Callbacks), Put(item, then),
         NEW e, NEW K \in SUBSET Sent(e), CountIn(then, K) = 0
  PROVE  CountIn(ready', K) = CountIn(ready, K) - One(Head(ready) \in K)
<1>1. WokenReader \in Seq(Callbacks) /\ CountIn(WokenReader, K) = 0 BY CarryNone
<1>2. ready' = (Tail(ready) \o WokenReader) \o then BY DEF Put, WokenReader
<1>6. CountIn(ready', K) = ((CountIn(ready, K) - One(Head(ready) \in K))
                               + CountIn(WokenReader, K)) + CountIn(then, K)
  <2> DEFINE woken == WokenReader
  <2>1. woken \in Seq(Callbacks) /\ ready' = (Tail(ready) \o woken) \o then BY <1>1, <1>2
  <2> HIDE DEF woken
  <2>2. CountIn(ready', K) =
          ((CountIn(ready, K) - One(Head(ready) \in K)) + CountIn(woken, K)) + CountIn(then, K)
    BY <2>1, TakesHeadAndTwo
  <2>3. QED BY <2>2 DEF woken
<1>3. CountIn(ready', K) = ((CountIn(ready, K) - One(Head(ready) \in K)) + 0) + 0
  BY <1>1, <1>6
<1>4. CountIn(ready, K) \in Nat /\ One(Head(ready) \in K) \in Nat
  <2>1. ready \in Seq(Callbacks) BY DEF TypeOK
  <2>2. CountIn(ready, K) \in Nat BY <2>1, CountIsNat
  <2>3. QED BY <2>2 DEF One
<1>5. QED BY <1>3, <1>4

(* The task that runs is at the head, which is no handler.                 *)
LEMMA HeadCarriesNone ==
  ASSUME TypeOK, NEW e, NEW K \in SUBSET Sent(e),
         Head(ready) \in {Runner, Reader, Starter, Stopper} \/ Head(ready).who # "handler"
  PROVE  /\ One(Head(ready) \in K) = 0 /\ CountIn(ready, K) \in Nat
         /\ CountIn(ready, K) - One(Head(ready) \in K) = CountIn(ready, K)
<1>1. Head(ready).who # "handler" BY CallbackKinds
<1>2. Head(ready) \notin K BY <1>1 DEF Sent
<1>3. One(Head(ready) \in K) = 0 BY <1>2 DEF One
<1>4. ready \in Seq(Callbacks) BY DEF TypeOK
<1>5. CountIn(ready, K) \in Nat BY <1>4, CountIsNat
<1>6. QED BY <1>3, <1>5

LEMMA RunnerEmitsPlaces ==
  ASSUME TypeOK, Runs(Runner), NEW ev \in AllEvents, NEW pc, RunnerEmits(ev, pc),
         NEW e \in AllEvents, NEW K \in SUBSET Sent(e)
  PROVE  /\ CountIn(ready', K) = CountIn(ready, K)
         /\ Waits(e)' = Waits(e)
         /\ One(holding' = e) + InQueue(e)' = InQueue(e) + One(ev = e)
         /\ One(holding' = e) \in Nat /\ InQueue(e)' \in Nat /\ One(ev = e) \in Nat
<1>1. ready # <<>> /\ Head(ready) = Runner BY DEF Runs
<1>2. /\ One(Head(ready) \in K) = 0
      /\ CountIn(ready, K) - One(Head(ready) \in K) = CountIn(ready, K)
  BY <1>1, HeadCarriesNone
<1>3. InQueue(e) \in Nat /\ One(ev = e) \in Nat /\ One(holding' = e) \in Nat
  BY PlacesAreNat DEF One
<1>4. CASE WaitForRoom(Runner) /\ runner' = pc /\ holding' = ev
  <2>1. ready' = Tail(ready) /\ putters' = Append(putters, Runner) /\ queue' = queue
    BY <1>4 DEF WaitForRoom
  <2>2. CountIn(ready', K) = CountIn(ready, K) BY <1>1, <1>2, <2>1, TakesHead
  <2>3. Waits(e)' = Waits(e)
    <3>1. putters \in Seq(Callbacks) /\ Runner \in Callbacks BY PlacesAreNat, CallbackKinds
    <3>2. CountIn(Append(putters, Runner), Sent(e)) =
            CountIn(putters, Sent(e)) + One(Runner \in Sent(e))
      BY <3>1, CountAppend
    <3>3. One(Runner \in Sent(e)) = 0 BY CallbackKinds DEF Sent, One
    <3>4. Waits(e) \in Nat BY PlacesAreNat
    <3>5. Waits(e)' = CountIn(putters', Sent(e)) BY DEF Waits, Sent
    <3>6. QED BY <2>1, <3>2, <3>3, <3>4, <3>5 DEF Waits
  <2>4. InQueue(e)' = InQueue(e) BY <2>1 DEF InQueue, Bearing
  <2>5. One(holding' = e) = One(ev = e) BY <1>4
  <2>6. QED BY <1>3, <2>2, <2>3, <2>4, <2>5
<1>5. ASSUME NEW then \in Seq(Callbacks), CountIn(then, K) = 0, Put(Item(ev), then),
             holding' = 0, UNCHANGED putters
      PROVE  /\ CountIn(ready', K) = CountIn(ready, K)
             /\ Waits(e)' = Waits(e)
             /\ One(holding' = e) + InQueue(e)' = InQueue(e) + One(ev = e)
             /\ InQueue(e)' \in Nat
  <2>1. CountIn(ready', K) = CountIn(ready, K) BY <1>1, <1>2, <1>5, PutCarries
  <2>2. Waits(e)' = Waits(e) BY <1>5 DEF Waits, Sent
  <2>3. queue' = Append(queue, Item(ev)) BY <1>5 DEF Put
  <2>4. InQueue(e)' = InQueue(e) + One(ev = e) BY <2>3, QueueGets
  <2>5. One(holding' = e) = 0 BY <1>5 DEF One, AllEvents
  <2>6. QED BY <1>3, <2>1, <2>2, <2>4, <2>5
<1>6. CASE Put(Item(ev), IF AfterEmission(pc) = "done" THEN TaskEnds("returned") ELSE <<>>)
           /\ holding' = 0 /\ UNCHANGED putters
  <2>1. CASE AfterEmission(pc) = "done"
    <3>1. /\ TaskEnds("returned") \in Seq(Callbacks) /\ CountIn(TaskEnds("returned"), K) = 0
      BY CarryNone
    <3>2. Put(Item(ev), TaskEnds("returned")) BY <1>6, <2>1
    <3>3. QED BY <1>3, <1>5, <1>6, <3>1, <3>2
  <2>2. CASE AfterEmission(pc) # "done"
    <3>1. <<>> \in Seq(Callbacks) /\ CountIn(<<>>, K) = 0 BY CarryNone
    <3>2. Put(Item(ev), <<>>) BY <1>6, <2>2
    <3>3. QED BY <1>3, <1>5, <1>6, <3>1, <3>2
  <2>3. QED BY <2>1, <2>2
<1>7. QED BY <1>4, <1>6 DEF RunnerEmits

LEMMA ResumesPlaces ==
  ASSUME TypeOK, MarkerInv, PlaceInv, ResumesEmission
  PROVE  PlaceInv'
<1>1. /\ Runs(Runner) /\ runner \in {"emitting", "emittingLast"} /\ RunnerEmits(holding, runner)
      /\ UNCHANGED <<made, delivered, evicted, abandoned>>
  BY DEF ResumesEmission, historyVars
<1>2. holding \in AllEvents BY <1>1 DEF MarkerInv, HoldInv, TypeOK
<1>3. ASSUME NEW e \in AllEvents PROVE Total(e)' = Total(e)
  <2>1. Going(e)' = Going(e) /\ Going(e) \in SUBSET Sent(e) BY <1>1, SameEvents DEF Going
  <2>2. /\ CountIn(ready', Going(e)) = CountIn(ready, Going(e))
        /\ Waits(e)' = Waits(e)
        /\ One(holding' = e) + InQueue(e)' = InQueue(e) + One(holding = e)
        /\ One(holding' = e) \in Nat /\ InQueue(e)' \in Nat /\ One(holding = e) \in Nat
    BY <1>1, <1>2, <2>1, RunnerEmitsPlaces
  <2>3. OnItsWay(e)' = OnItsWay(e) BY <2>1, <2>2 DEF OnItsWay
  <2>4. Gone(e)' = Gone(e) BY <1>1 DEF Gone
  <2>5. OnItsWay(e) \in Nat /\ Waits(e) \in Nat /\ InQueue(e) \in Nat /\ Gone(e) \in Nat
    BY PlacesAreNat
  <2>6. One(holding' = e) + InQueue(e)' = One(holding = e) + InQueue(e) BY <2>2, <2>5
  <2>7. QED BY <2>2, <2>3, <2>4, <2>5, <2>6, SumStays DEF Total
<1>4. QED BY <1>1, <1>3, Balance

(* A new event is nowhere yet.                                             *)
LEMMA NewEvent ==
  ASSUME TypeOK, NEW p \in Payloads \cup {Synthetic, ErrorRaw}, made' = Append(made, p),
         NEW e \in AllEvents
  PROVE  /\ Len(made) \in Nat
         /\ e # Len(made) + 1 => Going(e)' = Going(e) /\ (Final(e)' <=> Final(e))
         /\ e = Len(made) + 1 => /\ ~Final(e) /\ ~Intermediate(e) /\ Going(e) = Sent(e)
                                 /\ Final(e)' <=> ~IsIntermediateGiftStreak(p)
                                 /\ Intermediate(e)' <=> IsIntermediateGiftStreak(p)
         /\ ~IsIntermediateGiftStreak(p) => Going(e)' = Going(e)
         /\ Going(e)' \in SUBSET Sent(e) /\ Sent(e)' = Sent(e)
<1>1. /\ Len(made) \in Nat /\ Len(made') = Len(made) + 1 /\ made'[Len(made) + 1] = p
      /\ \A i \in 1 .. Len(made) : made'[i] = made[i]
  <2> DEFINE S == Payloads \cup {Synthetic, ErrorRaw}
  <2>1. made \in Seq(S) /\ p \in S BY DEF TypeOK
  <2> HIDE DEF S
  <2>2. QED BY <2>1
<1>2. e \in Nat \ {0}
  <2>1. MaxMade + 1 \in Nat BY ConnectorAssumption
  <2>2. QED BY <2>1 DEF AllEvents
<1>3. Sent(e)' = Sent(e) BY DEF Sent
<1>4. CASE e # Len(made) + 1
  <2>1. e \in MadeEvents' <=> e \in MadeEvents BY <1>1, <1>2, <1>4 DEF MadeEvents
  <2>2. e \in MadeEvents => made'[e] = made[e] BY <1>1 DEF MadeEvents
  <2>3. Intermediate(e)' <=> Intermediate(e)
    BY <2>1, <2>2 DEF Intermediate, IsIntermediateGiftStreak
  <2>4. QED BY <1>1, <1>3, <1>4, <2>1, <2>3 DEF Going, Final
<1>5. CASE e = Len(made) + 1
  <2>1. e \in MadeEvents' /\ e \notin MadeEvents BY <1>1, <1>2, <1>5 DEF MadeEvents
  <2>2. Intermediate(e)' <=> IsIntermediateGiftStreak(p)
    BY <1>1, <1>5, <2>1 DEF Intermediate, IsIntermediateGiftStreak
  <2>3. QED BY <1>1, <1>3, <1>5, <2>1, <2>2 DEF Going, Final, Intermediate
<1>6. QED BY <1>4, <1>5

LEMMA OwnPayloads == ~IsIntermediateGiftStreak(Synthetic) /\ ~IsIntermediateGiftStreak(ErrorRaw)
BY DEF IsIntermediateGiftStreak, Synthetic, ErrorRaw, Payload

LEMMA SumGrows ==
  \A a, b, d, g, o, c1, d1 \in Nat :
    c1 + d1 = d + o => ((a + b) + c1) + (d1 + g) = (((a + b) + 0) + (d + g)) + o
OBVIOUS

(* What is made by the task is at once in its one place.                   *)
LEMMA MadeAndPlaced ==
  ASSUME TypeOK, PlaceInv, NEW p \in {Synthetic, ErrorRaw}, made' = Append(made, p), holding = 0,
         UNCHANGED <<delivered, evicted, abandoned>>,
         \A e \in AllEvents : \A K \in SUBSET Sent(e) :
           /\ CountIn(ready', K) = CountIn(ready, K)
           /\ Waits(e)' = Waits(e)
           /\ One(holding' = e) + InQueue(e)' = InQueue(e) + One(Len(made) + 1 = e)
           /\ One(holding' = e) \in Nat /\ InQueue(e)' \in Nat /\ One(Len(made) + 1 = e) \in Nat
  PROVE  PlaceInv'
<1>1. ~IsIntermediateGiftStreak(p) BY OwnPayloads
<1>2. ASSUME NEW e \in AllEvents PROVE Total(e)' = One(Final(e))'
  <2>1. /\ Going(e)' = Going(e) /\ Going(e) \in SUBSET Sent(e)
        /\ e # Len(made) + 1 => (Final(e)' <=> Final(e))
        /\ e = Len(made) + 1 => ~Final(e) /\ Final(e)'
    BY <1>1, NewEvent
  <2>2. /\ CountIn(ready', Going(e)) = CountIn(ready, Going(e))
        /\ Waits(e)' = Waits(e)
        /\ One(holding' = e) + InQueue(e)' = InQueue(e) + One(Len(made) + 1 = e)
        /\ One(holding' = e) \in Nat /\ InQueue(e)' \in Nat /\ One(Len(made) + 1 = e) \in Nat
    BY <2>1
  <2>3. OnItsWay(e)' = OnItsWay(e) BY <2>1, <2>2 DEF OnItsWay
  <2>4. Gone(e)' = Gone(e) BY DEF Gone
  <2>5. OnItsWay(e) \in Nat /\ Waits(e) \in Nat /\ InQueue(e) \in Nat /\ Gone(e) \in Nat
    BY PlacesAreNat
  <2>6. One(holding = e) = 0 BY DEF One, AllEvents
  <2>11. Total(e) = ((OnItsWay(e) + Waits(e)) + 0) + (InQueue(e) + Gone(e))
    BY <2>6 DEF Total
  <2>12. Total(e)' = ((OnItsWay(e)' + Waits(e)') + One(holding' = e)) + (InQueue(e)' + Gone(e)')
    BY DEF Total, One
  <2>13. Total(e)' = ((OnItsWay(e) + Waits(e)) + One(holding' = e)) + (InQueue(e)' + Gone(e))
    BY <2>2, <2>3, <2>4, <2>12
  <2>14. ((OnItsWay(e) + Waits(e)) + One(holding' = e)) + (InQueue(e)' + Gone(e))
           = (((OnItsWay(e) + Waits(e)) + 0) + (InQueue(e) + Gone(e))) + One(Len(made) + 1 = e)
    <3> DEFINE a == OnItsWay(e)
               b == Waits(e)
               d == InQueue(e)
               g == Gone(e)
               o == One(Len(made) + 1 = e)
               c1 == One(holding' = e)
               d1 == InQueue(e)'
    <3>1. /\ a \in Nat /\ b \in Nat /\ d \in Nat /\ g \in Nat
          /\ o \in Nat /\ c1 \in Nat /\ d1 \in Nat /\ c1 + d1 = d + o
      BY <2>2, <2>5
    <3> HIDE DEF a, b, d, g, o, c1, d1
    <3>2. ((a + b) + c1) + (d1 + g) = (((a + b) + 0) + (d + g)) + o BY <3>1, SumGrows
    <3>3. QED BY <3>2 DEF a, b, d, g, o, c1, d1
  <2>7. Total(e)' = Total(e) + One(Len(made) + 1 = e) BY <2>11, <2>13, <2>14
  <2>8. Total(e) = One(Final(e)) BY DEF PlaceInv
  <2>9. One(Final(e))' = One(Final(e)) + One(Len(made) + 1 = e) BY <2>1 DEF One
  <2>10. QED BY <2>7, <2>8, <2>9
<1>3. QED BY <1>2 DEF PlaceInv

LEMMA MakesPlaces ==
  ASSUME TypeOK, ControlInv, PlaceInv, HolderInv,
         MockEmits \/ MissingDependency \/ CreateFails \/ ConnectionRaises
  PROVE  PlaceInv'
<1>1. PICK p \in {Synthetic, ErrorRaw} : \E pc \in {"emitting", "emittingLast"} : RunnerMakes(p, pc)
  BY DEF MockEmits, MissingDependency, CreateFails, ConnectionRaises
<1>2. PICK pc \in {"emitting", "emittingLast"} : RunnerMakes(p, pc) BY <1>1
<1>3. Runs(Runner) /\ runner \in {"loop", "connected"}
  BY DEF MockEmits, MissingDependency, CreateFails, ConnectionRaises, RunnerAt
<1>4. /\ made' = Append(made, p) /\ RunnerEmits(Len(made) + 1, pc)
      /\ UNCHANGED <<delivered, evicted, abandoned>>
  BY <1>2 DEF RunnerMakes, historyVars
<1>5. holding = 0 BY <1>3 DEF HolderInv
<1>6. Len(made) + 1 \in AllEvents
  <2>1. MadeInv BY DEF ControlInv
  <2>2. Len(made) <= MaxMade + 0 BY <1>3, <2>1 DEF MadeInv, Attempting, One
  <2>3. Len(made) \in Nat BY <1>1, <1>4, NewEvent DEF TypeOK
  <2>4. QED BY <2>2, <2>3, ConnectorAssumption DEF AllEvents
<1>7. \A e \in AllEvents : \A K \in SUBSET Sent(e) :
        /\ CountIn(ready', K) = CountIn(ready, K)
        /\ Waits(e)' = Waits(e)
        /\ One(holding' = e) + InQueue(e)' = InQueue(e) + One(Len(made) + 1 = e)
        /\ One(holding' = e) \in Nat /\ InQueue(e)' \in Nat /\ One(Len(made) + 1 = e) \in Nat
  BY <1>3, <1>4, <1>6, RunnerEmitsPlaces
<1>8. QED BY <1>4, <1>5, <1>7, MadeAndPlaced

(* A producer that raises puts its event or makes none.                    *)
LEMMA RaisesPlaces ==
  ASSUME TypeOK, ControlInv, PlaceInv, HolderInv, ProducerRaises
  PROVE  PlaceInv'
<1>1. /\ Runs(Runner) /\ runner = "loop" /\ ready # <<>> /\ Head(ready) = Runner
      /\ UNCHANGED <<putters, holding, delivered, evicted, abandoned>>
  BY DEF ProducerRaises, RunnerAt, Runs, historyVars
<1>2. holding = 0 BY <1>1 DEF HolderInv
<1>3. \A e \in AllEvents : Waits(e)' = Waits(e) BY <1>1 DEF Waits, Sent
<1>4. CASE Put(Item(Len(made) + 1), TaskEnds("raised")) /\ made' = Append(made, Synthetic)
  <2>1. Len(made) + 1 \in AllEvents
    <3>1. MadeInv BY DEF ControlInv
    <3>2. Len(made) <= MaxMade + 0 BY <1>1, <3>1 DEF MadeInv, Attempting, One
    <3>3. Len(made) \in Nat
      <4> DEFINE S == Payloads \cup {Synthetic, ErrorRaw}
      <4>1. made \in Seq(S) BY DEF TypeOK
      <4> HIDE DEF S
      <4>2. QED BY <4>1
    <3>4. QED BY <3>2, <3>3, ConnectorAssumption DEF AllEvents
  <2>2. queue' = Append(queue, Item(Len(made) + 1)) BY <1>4 DEF Put
  <2>3. ASSUME NEW e \in AllEvents, NEW K \in SUBSET Sent(e)
        PROVE  /\ CountIn(ready', K) = CountIn(ready, K)
               /\ Waits(e)' = Waits(e)
               /\ One(holding' = e) + InQueue(e)' = InQueue(e) + One(Len(made) + 1 = e)
               /\ One(holding' = e) \in Nat /\ InQueue(e)' \in Nat
               /\ One(Len(made) + 1 = e) \in Nat
    <3>1. TaskEnds("raised") \in Seq(Callbacks) /\ CountIn(TaskEnds("raised"), K) = 0
      BY CarryNone
    <3>2. CountIn(ready', K) = CountIn(ready, K) - One(Head(ready) \in K)
      BY <1>1, <1>4, <3>1, PutCarries
    <3>3. CountIn(ready', K) = CountIn(ready, K) BY <1>1, <3>2, HeadCarriesNone
    <3>4. InQueue(e)' = InQueue(e) + One(Len(made) + 1 = e) BY <2>1, <2>2, QueueGets
    <3>5. One(holding' = e) = 0 BY <1>1, <1>2 DEF One, AllEvents
    <3>6. InQueue(e) \in Nat /\ One(Len(made) + 1 = e) \in Nat BY PlacesAreNat DEF One
    <3>7. QED BY <1>3, <3>3, <3>4, <3>5, <3>6
  <2>4. QED BY <1>1, <1>2, <1>4, <2>3, MadeAndPlaced
<1>5. CASE ready' = Tail(ready) \o TaskEnds("raised") /\ UNCHANGED <<queue, reader, made>>
  <2>1. ASSUME NEW e \in AllEvents PROVE Total(e)' = Total(e)
    <3>1. Going(e)' = Going(e) /\ Going(e) \in SUBSET Sent(e) BY <1>5, SameEvents DEF Going
    <3>2. /\ TaskEnds("raised") \in Seq(Callbacks)
          /\ CountIn(TaskEnds("raised"), Going(e)) = 0
      BY <3>1, CarryNone
    <3>3. CountIn(ready', Going(e)) =
            (CountIn(ready, Going(e)) - One(Head(ready) \in Going(e))) + 0
      BY <1>1, <1>5, <3>2, TakesHeadAndOne
    <3>4. /\ CountIn(ready, Going(e)) - One(Head(ready) \in Going(e)) = CountIn(ready, Going(e))
          /\ CountIn(ready, Going(e)) \in Nat
      BY <1>1, <3>1, HeadCarriesNone
    <3>5. OnItsWay(e)' = OnItsWay(e) BY <3>1, <3>3, <3>4 DEF OnItsWay
    <3>6. InQueue(e)' = InQueue(e) /\ Gone(e)' = Gone(e)
      BY <1>1, <1>5 DEF InQueue, Bearing, Gone
    <3>7. QED BY <1>1, <1>3, <3>5, <3>6 DEF Total
  <2>2. QED BY <1>5, <2>1, Balance
<1>6. QED BY <1>4, <1>5 DEF ProducerRaises

(* Steps that move no event.                                               *)
LEMMA Unmoved ==
  ASSUME PlaceInv, UNCHANGED <<made, putters, holding, queue, delivered, evicted, abandoned>>,
         \A e \in AllEvents : CountIn(ready', Going(e)) = CountIn(ready, Going(e))
  PROVE  PlaceInv'
<1>1. ASSUME NEW e \in AllEvents PROVE Total(e)' = Total(e)
  <2>1. OnItsWay(e)' = OnItsWay(e) BY SameEvents DEF OnItsWay
  <2>2. Waits(e)' = Waits(e) /\ InQueue(e)' = InQueue(e) /\ Gone(e)' = Gone(e)
    BY DEF Waits, Sent, InQueue, Bearing, Gone
  <2>3. QED BY <2>1, <2>2 DEF Total
<1>2. QED BY <1>1, Balance

LEMMA QuietEnds ==
  ASSUME TypeOK, PlaceInv, ready # <<>>, Head(ready).who # "handler",
         UNCHANGED <<made, putters, holding, queue, delivered, evicted, abandoned>>,
         NEW a \in Seq(Callbacks), ready' = Tail(ready) \o a,
         \A e \in AllEvents : CountIn(a, Going(e)) = 0
  PROVE  PlaceInv'
<1>1. ASSUME NEW e \in AllEvents PROVE CountIn(ready', Going(e)) = CountIn(ready, Going(e))
  <2> DEFINE K == Going(e)
  <2>1. K \in SUBSET Sent(e) /\ CountIn(a, K) = 0 BY DEF Going
  <2> HIDE DEF K
  <2>2. CountIn(ready', K) = (CountIn(ready, K) - One(Head(ready) \in K)) + CountIn(a, K)
    BY TakesHeadAndOne
  <2>3. /\ CountIn(ready, K) - One(Head(ready) \in K) = CountIn(ready, K)
        /\ CountIn(ready, K) \in Nat
    BY <2>1, HeadCarriesNone
  <2>4. CountIn(ready', K) = CountIn(ready, K) + 0 BY <2>1, <2>2, <2>3
  <2>5. QED BY <2>3, <2>4 DEF K
<1>2. QED BY <1>1, Unmoved

LEMMA QuietTakes ==
  ASSUME TypeOK, PlaceInv, ready # <<>>, Head(ready).who # "handler",
         UNCHANGED <<made, putters, holding, queue, delivered, evicted, abandoned>>,
         ready' = Tail(ready)
  PROVE  PlaceInv'
<1>1. ASSUME NEW e \in AllEvents PROVE CountIn(ready', Going(e)) = CountIn(ready, Going(e))
  <2>1. Going(e) \in SUBSET Sent(e) BY DEF Going
  <2>2. CountIn(ready', Going(e)) = CountIn(ready, Going(e)) - One(Head(ready) \in Going(e))
    BY TakesHead
  <2>3. QED BY <2>1, <2>2, HeadCarriesNone
<1>2. QED BY <1>1, Unmoved

LEMMA RunnersPlaces ==
  ASSUME TypeOK, PlaceInv, CreateClient \/ PreflightGoesOn \/ AttemptOver
  PROVE  PlaceInv'
<1>1. /\ ready # <<>> /\ Head(ready).who # "handler"
      /\ UNCHANGED <<made, putters, holding, queue, delivered, evicted, abandoned>>
  BY CallbackKinds
     DEF CreateClient, PreflightGoesOn, AttemptOver, RunnerAt, Runs, historyVars
<1>2. CASE CreateClient \/ PreflightGoesOn
  <2>1. ready' = Tail(ready) BY <1>2 DEF CreateClient, PreflightGoesOn
  <2>2. QED BY <1>1, <2>1, QuietTakes
<1>3. CASE AttemptOver
  <2> DEFINE a == IF AfterEmission("emitting") = "done" THEN TaskEnds("returned") ELSE <<>>
  <2>1. ready' = Tail(ready) \o a BY <1>3 DEF AttemptOver
  <2>2. a \in Seq(Callbacks)
    <3>1. TaskEnds("returned") \in Seq(Callbacks) BY TaskEndsComes
    <3>2. <<>> \in Seq(Callbacks) BY NoneComes
    <3>3. QED BY <3>1, <3>2
  <2>3. ASSUME NEW e \in AllEvents PROVE CountIn(a, Going(e)) = 0
    <3>1. Going(e) \in SUBSET Sent(e) BY DEF Going
    <3>2. CountIn(TaskEnds("returned"), Going(e)) = 0 BY <3>1, CarryNone
    <3>3. CountIn(<<>>, Going(e)) = 0 BY CountNone
    <3>4. QED BY <3>2, <3>3
  <2> HIDE DEF a
  <2>4. QED BY <1>1, <2>1, <2>2, <2>3, QuietEnds
<1>4. QED BY <1>2, <1>3

LEMMA CallsPlaces ==
  ASSUME TypeOK, PlaceInv, StartReturns \/ StopDisconnects \/ DisconnectRaises \/ ReaderWaits
  PROVE  PlaceInv'
<1>1. /\ ready # <<>> /\ Head(ready).who # "handler"
      /\ UNCHANGED <<made, putters, holding, queue, delivered, evicted, abandoned>>
  BY CallbackKinds
     DEF StartReturns, StopDisconnects, DisconnectRaises, ReaderWaits, Runs, historyVars, taskVars
<1>2. ready' \in {ready, Tail(ready)}
  BY DEF StartReturns, StopDisconnects, DisconnectRaises, ReaderWaits
<1>3. CASE ready' = ready
  <2>1. \A e \in AllEvents : CountIn(ready', Going(e)) = CountIn(ready, Going(e)) BY <1>3
  <2>2. QED BY <1>1, <2>1, Unmoved
<1>4. CASE ready' = Tail(ready) BY <1>1, <1>4, QuietTakes
<1>5. QED BY <1>2, <1>3, <1>4

(* An intermediate report is skipped: it was not on its way.               *)
LEMMA SkipsPlaces ==
  ASSUME TypeOK, PlaceInv, NEW f \in MadeEvents, HandlerSkips(f)
  PROVE  PlaceInv'
<1>1. /\ ready # <<>> /\ ready' = Tail(ready) /\ Head(ready).arg = f /\ Head(ready).on = 0
      /\ IsIntermediateGiftStreak(made[f])
      /\ UNCHANGED <<made, putters, holding, queue, delivered, evicted, abandoned>>
  BY DEF HandlerSkips, Handles, historyVars, taskVars
<1>2. ASSUME NEW e \in AllEvents PROVE CountIn(ready', Going(e)) = CountIn(ready, Going(e))
  <2>1. Head(ready) \notin Going(e) BY <1>1 DEF Going, Sent, Intermediate
  <2>2. CountIn(ready', Going(e)) = CountIn(ready, Going(e)) - One(Head(ready) \in Going(e))
    BY <1>1, TakesHead
  <2>3. ready \in Seq(Callbacks) BY DEF TypeOK
  <2>4. CountIn(ready, Going(e)) \in Nat BY <2>3, CountIsNat
  <2>5. QED BY <2>1, <2>2, <2>4 DEF One
<1>3. QED BY <1>1, <1>2, Unmoved

(* What happens outside the loop makes a callback ready.                   *)
LEMMA WakesPlaces ==
  ASSUME TypeOK, PlaceInv, NEW c \in {Runner, Reader, Starter, Stopper}, Wakes(c),
         UNCHANGED made
  PROVE  PlaceInv'
<1>1. /\ ready' = Append(ready, c)
      /\ UNCHANGED <<made, putters, holding, queue, delivered, evicted, abandoned>>
  BY DEF Wakes, historyVars
<1>2. ASSUME NEW e \in AllEvents PROVE CountIn(ready', Going(e)) = CountIn(ready, Going(e))
  <2>1. ready \in Seq(Callbacks) /\ c \in Callbacks BY CallbackKinds DEF TypeOK
  <2>2. CountIn(Append(ready, c), Going(e)) = CountIn(ready, Going(e)) + One(c \in Going(e))
    BY <2>1, CountAppend
  <2>3. c \notin Going(e) BY CallbackKinds DEF Going, Sent
  <2>4. CountIn(ready, Going(e)) \in Nat BY <2>1, CountIsNat
  <2>5. QED BY <1>1, <2>2, <2>3, <2>4 DEF One
<1>3. QED BY <1>1, <1>2, Unmoved

LEMMA OutsidePlaces ==
  ASSUME TypeOK, PlaceInv,
         \/ OwnerCalls \/ DisconnectReturns \/ ReaderBegins \/ BodyReturns \/ TimerFires
         \/ PreflightAnswers \/ ConnectionCloses
  PROVE  PlaceInv'
<1>1. UNCHANGED made
  BY DEF OwnerCalls, DisconnectReturns, ReaderBegins, BodyReturns, TimerFires,
         PreflightAnswers, ConnectionCloses
<1>2. \E c \in {Runner, Reader, Starter, Stopper} : Wakes(c)
  BY DEF OwnerCalls, DisconnectReturns, ReaderBegins, BodyReturns, TimerFires,
         PreflightAnswers, ConnectionCloses
<1>3. QED BY <1>1, <1>2, WakesPlaces

(* An event that moves from the callbacks to those that wait, or into the  *)
(* queue.                                                                  *)
LEMMA SumMoves ==
  \A a, b, h, d, g, a1, b1, d1 \in Nat :
    (a1 + b1) + d1 = (a + b) + d => ((a1 + b1) + h) + (d1 + g) = ((a + b) + h) + (d + g)
OBVIOUS

LEMMA MovedOn ==
  ASSUME TypeOK, PlaceInv, UNCHANGED <<made, holding, delivered, evicted, abandoned>>,
         \A e \in AllEvents :
           /\ CountIn(ready', Going(e)) \in Nat /\ Waits(e)' \in Nat /\ InQueue(e)' \in Nat
           /\ (CountIn(ready', Going(e)) + Waits(e)') + InQueue(e)'
                = (OnItsWay(e) + Waits(e)) + InQueue(e)
  PROVE  PlaceInv'
<1>1. ASSUME NEW e \in AllEvents PROVE Total(e)' = Total(e)
  <2> DEFINE a == OnItsWay(e)
             b == Waits(e)
             h == One(holding = e)
             d == InQueue(e)
             g == Gone(e)
             a1 == CountIn(ready', Going(e))
             b1 == Waits(e)'
             d1 == InQueue(e)'
  <2>1. a \in Nat /\ b \in Nat /\ d \in Nat /\ g \in Nat BY PlacesAreNat
  <2>2. h \in Nat BY DEF One
  <2>3. a1 \in Nat /\ b1 \in Nat /\ d1 \in Nat /\ (a1 + b1) + d1 = (a + b) + d OBVIOUS
  <2>4. OnItsWay(e)' = a1 BY SameEvents DEF OnItsWay
  <2>5. Gone(e)' = g /\ One(holding' = e) = h BY DEF Gone
  <2>6. Total(e) = ((a + b) + h) + (d + g) BY DEF Total
  <2>7. Total(e)' = ((OnItsWay(e)' + Waits(e)') + One(holding' = e)) + (InQueue(e)' + Gone(e)')
    BY DEF Total, One
  <2>8. Total(e)' = ((a1 + b1) + h) + (d1 + g) BY <2>4, <2>5, <2>7
  <2> HIDE DEF a, b, h, d, g, a1, b1, d1
  <2>9. ((a1 + b1) + h) + (d1 + g) = ((a + b) + h) + (d + g) BY <2>1, <2>2, <2>3, SumMoves
  <2>10. QED BY <2>6, <2>8, <2>9
<1>2. QED BY <1>1, Balance

LEMMA HandlerPlaces ==
  ASSUME TypeOK, PlaceInv, NEW f \in MadeEvents, HandlerEmits(f)
  PROVE  PlaceInv'
<1>1. /\ ready # <<>> /\ Head(ready).who = "handler" /\ Head(ready).arg = f
      /\ Head(ready).on = 0 => ~IsIntermediateGiftStreak(made[f])
      /\ UNCHANGED <<made, holding, delivered, evicted, abandoned>>
  BY DEF HandlerEmits, Handles, historyVars, taskVars
<1>2. ready \in Seq(Callbacks) /\ Head(ready) \in Callbacks
  <2>1. ready \in Seq(Callbacks) BY DEF TypeOK
  <2>2. QED BY <1>1, <2>1
<1>3. f \in AllEvents /\ run \in 0 .. MaxStarts
  <2>1. Head(ready) \in Handlers BY <1>1, <1>2, CallbackKinds
  <2>2. QED BY <1>1, <2>1 DEF Handlers, TypeOK
<1>4. ASSUME NEW e \in AllEvents
      PROVE  /\ One(Head(ready) \in Going(e)) = One(f = e) /\ One(f = e) \in {0, 1}
             /\ CountIn(ready, Going(e)) - One(f = e) \in Nat
  <2>1. Head(ready) \in Going(e) <=> f = e BY <1>1, <1>2 DEF Going, Sent, Intermediate
  <2>2. CountIn(ready, Going(e)) \in Nat BY <1>2, CountIsNat
  <2>3. f = e => CountIn(ready, Going(e)) > 0
    <3>1. 1 \in 1 .. Len(ready) /\ ready[1] = Head(ready) BY <1>1, <1>2
    <3>2. QED BY <1>2, <2>1, <3>1, CountPositive
  <2>4. QED BY <2>1, <2>2, <2>3 DEF One
<1>5. CASE WaitForRoom(Callback("handler", f, run))
  <2> DEFINE c == Callback("handler", f, run)
  <2>1. c \in Handlers /\ \A e \in AllEvents : c \in Sent(e) <=> f = e
    BY <1>3, CallbackKinds DEF Callback, Handlers, Sent
  <2>2. c \in Callbacks BY <2>1, CallbackKinds
  <2>3. ready' = Tail(ready) /\ putters' = Append(putters, c) /\ queue' = queue
    BY <1>5 DEF WaitForRoom
  <2> HIDE DEF c
  <2>4. ASSUME NEW e \in AllEvents
        PROVE  /\ CountIn(ready', Going(e)) \in Nat /\ Waits(e)' \in Nat /\ InQueue(e)' \in Nat
               /\ (CountIn(ready', Going(e)) + Waits(e)') + InQueue(e)'
                    = (OnItsWay(e) + Waits(e)) + InQueue(e)
    <3>1. CountIn(ready', Going(e)) = CountIn(ready, Going(e)) - One(f = e)
      BY <1>1, <1>4, <2>3, TakesHead
    <3>2. putters \in Seq(Callbacks) /\ InQueue(e) \in Nat /\ Waits(e) \in Nat
      BY PlacesAreNat
    <3>3. CountIn(Append(putters, c), Sent(e)) = CountIn(putters, Sent(e)) + One(c \in Sent(e))
      BY <2>2, <3>2, CountAppend
    <3>4. One(c \in Sent(e)) = One(f = e) BY <2>1 DEF One
    <3>5. Waits(e)' = CountIn(putters', Sent(e)) BY DEF Waits, Sent
    <3>6. Waits(e)' = Waits(e) + One(f = e) BY <2>3, <3>3, <3>4, <3>5 DEF Waits
    <3>7. InQueue(e)' = InQueue(e) BY <2>3 DEF InQueue, Bearing
    <3>8. CountIn(ready, Going(e)) = OnItsWay(e) /\ OnItsWay(e) \in Nat
      BY PlacesAreNat DEF OnItsWay
    <3>9. OnItsWay(e) - One(f = e) \in Nat /\ One(f = e) \in {0, 1} BY <1>4, <3>8
    <3>10. QED BY <3>1, <3>2, <3>6, <3>7, <3>8, <3>9
  <2>5. QED BY <1>1, <2>4, MovedOn
<1>6. CASE Put(Item(f), <<>>) /\ UNCHANGED putters
  <2>1. <<>> \in Seq(Callbacks) /\ queue' = Append(queue, Item(f))
    BY <1>6, NoneComes DEF Put
  <2>2. ASSUME NEW e \in AllEvents
        PROVE  /\ CountIn(ready', Going(e)) \in Nat /\ Waits(e)' \in Nat /\ InQueue(e)' \in Nat
               /\ (CountIn(ready', Going(e)) + Waits(e)') + InQueue(e)'
                    = (OnItsWay(e) + Waits(e)) + InQueue(e)
    <3>1. Going(e) \in SUBSET Sent(e) /\ CountIn(<<>>, Going(e)) = 0
      BY CountNone DEF Going
    <3>2. CountIn(ready', Going(e)) = CountIn(ready, Going(e)) - One(Head(ready) \in Going(e))
      BY <1>1, <1>6, <2>1, <3>1, PutCarries
    <3>3. CountIn(ready', Going(e)) = CountIn(ready, Going(e)) - One(f = e)
      BY <1>4, <3>2
    <3>4. InQueue(e)' = InQueue(e) + One(f = e) BY <1>3, <2>1, QueueGets
    <3>5. Waits(e)' = Waits(e) BY <1>6 DEF Waits, Sent
    <3>6. Waits(e) \in Nat /\ InQueue(e) \in Nat BY PlacesAreNat
    <3>8. CountIn(ready, Going(e)) = OnItsWay(e) /\ OnItsWay(e) \in Nat
      BY PlacesAreNat DEF OnItsWay
    <3>9. OnItsWay(e) - One(f = e) \in Nat /\ One(f = e) \in {0, 1} BY <1>4, <3>8
    <3>10. QED BY <3>3, <3>4, <3>5, <3>6, <3>8, <3>9
  <2>3. QED BY <1>1, <2>2, MovedOn
<1>7. QED BY <1>5, <1>6 DEF HandlerEmits

(* A queue that nobody reads takes the event of the emitter that chose it. *)
LEMMA AsidePlaces ==
  ASSUME TypeOK, PlaceInv, NEW f \in MadeEvents, HandlerPutsAside(f)
  PROVE  PlaceInv'
<1>1. /\ ready # <<>> /\ Head(ready).who = "handler" /\ Head(ready).arg = f
      /\ Head(ready).on # 0 /\ ready' = Tail(ready) /\ abandoned' = abandoned \cup {f}
      /\ UNCHANGED <<made, holding, putters, queue, delivered, evicted>>
  BY DEF HandlerPutsAside, Handles, taskVars
<1>2. ready \in Seq(Callbacks) /\ Head(ready) \in Callbacks
  <2>1. ready \in Seq(Callbacks) BY DEF TypeOK
  <2>2. QED BY <1>1, <2>1
<1>3. ASSUME NEW e \in AllEvents PROVE Total(e)' = Total(e)
  <2> DEFINE c == CountIn(delivered, {e})
             u == One(e \in evicted)
             v == One(e \in abandoned)
             h == One(holding = e)
             i == InQueue(e)
             a == OnItsWay(e)
             b == Waits(e)
             x == One(f = e)
             a1 == OnItsWay(e)'
  <2>1. Head(ready) \in Going(e) <=> f = e BY <1>1, <1>2 DEF Going, Sent
  <2>2. CountIn(ready', Going(e)) = CountIn(ready, Going(e)) - One(Head(ready) \in Going(e))
    BY <1>1, TakesHead
  <2>3. One(Head(ready) \in Going(e)) = x BY <2>1 DEF One
  <2>4. a1 = a - x BY <1>1, <2>2, <2>3, SameEvents DEF OnItsWay
  <2>5. f = e => a > 0
    <3>1. 1 \in 1 .. Len(ready) /\ ready[1] = Head(ready) BY <1>1, <1>2
    <3>2. QED BY <1>2, <2>1, <3>1, CountPositive DEF OnItsWay
  <2>6. One(e \in abandoned') = v + x
    <3>1. f = e => e \notin abandoned BY <2>5, OnePlace
    <3>2. QED BY <1>1, <3>1 DEF One
  <2>7. Gone(e)' = c + (u + (v + x)) BY <1>1, <2>6 DEF Gone
  <2>8. Gone(e) = c + (u + v) BY DEF Gone
  <2>9. InQueue(e)' = i /\ Waits(e)' = b BY <1>1 DEF InQueue, Bearing, Waits, Sent
  <2>10. a \in Nat /\ b \in Nat /\ i \in Nat /\ c \in Nat BY PlacesAreNat
  <2>11. u \in Nat /\ v \in Nat /\ h \in Nat /\ x \in Nat BY DEF One
  <2>12. Total(e)' = ((OnItsWay(e)' + Waits(e)') + One(holding' = e)) + (InQueue(e)' + Gone(e)')
    BY DEF Total, One
  <2>13. Total(e)' = (((a - x) + b) + h) + (i + (c + (u + (v + x))))
    BY <1>1, <2>4, <2>7, <2>9, <2>12
  <2>14. Total(e) = ((a + b) + h) + (i + (c + (u + v))) BY <2>8 DEF Total
  <2> HIDE DEF c, u, v, h, i, a, b, x, a1
  <2>15. QED BY <2>10, <2>11, <2>13, <2>14
<1>4. QED BY <1>1, <1>3, Balance

(* A client reports an event: it is on its way, unless it is skipped.      *)
LEMMA ReportsPlaces ==
  ASSUME TypeOK, PlaceInv, ClientReports
  PROVE  PlaceInv'
<1> DEFINE n == Len(made) + 1
           h == Callback("handler", n, 0)
<1>1. PICK p \in Payloads : made' = Append(made, p) BY DEF ClientReports
<1>2. /\ ready' = Append(ready, h) /\ Len(made) < MaxMade
      /\ UNCHANGED <<putters, holding, queue, delivered, evicted, abandoned>>
  BY DEF ClientReports, Wakes, historyVars
<1>3. Len(made) \in Nat
  <2> DEFINE S == Payloads \cup {Synthetic, ErrorRaw}
  <2>1. made \in Seq(S) BY DEF TypeOK
  <2> HIDE DEF S
  <2>2. QED BY <2>1
<1>4. n \in AllEvents BY <1>2, <1>3, ConnectorAssumption DEF AllEvents
<1>5. h \in Callbacks /\ h.on = 0 /\ \A e \in AllEvents : h \in Sent(e) <=> e = n
  <2>1. 0 \in 0 .. MaxStarts BY ConnectorAssumption
  <2>2. h \in Handlers BY <1>4, <2>1 DEF Callback, Handlers
  <2>3. QED BY <2>2, CallbackKinds DEF Sent, Callback
<1> HIDE DEF h
<1>6. ASSUME NEW e \in AllEvents PROVE Total(e)' = One(Final(e))'
  <2> DEFINE K == Going(e)'
             a1 == CountIn(ready', K)
  <2>1. /\ e # n => K = Going(e) /\ (Final(e)' <=> Final(e))
        /\ e = n => /\ ~Final(e) /\ Going(e) = Sent(e)
                    /\ Final(e)' <=> ~IsIntermediateGiftStreak(p)
                    /\ Intermediate(e)' <=> IsIntermediateGiftStreak(p)
        /\ K \in SUBSET Sent(e)
    BY <1>1, NewEvent
  <2>2. h \in K <=> (e = n /\ Final(e)')
    <3>1. CASE e # n BY <1>5, <2>1, <3>1
    <3>2. CASE e = n /\ IsIntermediateGiftStreak(p)
      <4>1. Intermediate(e)' BY <2>1, <3>2
      <4>2. h \notin K BY <1>5, <4>1 DEF Going
      <4>3. QED BY <2>1, <3>2, <4>2
    <3>3. CASE e = n /\ ~IsIntermediateGiftStreak(p)
      <4>1. ~Intermediate(e)' BY <2>1, <3>3
      <4>2. K = Sent(e) BY <4>1 DEF Going, Sent
      <4>3. QED BY <1>5, <2>1, <3>3, <4>2
    <3>4. QED BY <3>1, <3>2, <3>3
  <2>3. ready \in Seq(Callbacks) BY DEF TypeOK
  <2>4. OnItsWay(e)' = a1 BY DEF OnItsWay
  <2>5. /\ Waits(e)' = Waits(e) /\ InQueue(e)' = InQueue(e) /\ Gone(e)' = Gone(e)
        /\ One(holding' = e) = One(holding = e)
    BY <1>2 DEF Waits, Sent, InQueue, Bearing, Gone
  <2>6. Total(e)' = ((OnItsWay(e)' + Waits(e)') + One(holding' = e)) + (InQueue(e)' + Gone(e)')
    BY DEF Total, One
  <2>7. Total(e)' = ((a1 + Waits(e)) + One(holding = e)) + (InQueue(e) + Gone(e))
    BY <2>4, <2>5, <2>6
  <2> HIDE DEF K
  <2>8. a1 = CountIn(ready, K) + One(h \in K) BY <1>2, <1>5, <2>3, CountAppend
  <2>9. CountIn(ready, K) = OnItsWay(e)
    <3>1. CASE e # n BY <2>1, <3>1 DEF OnItsWay
    <3>2. CASE e = n
      <4>1. OnItsWay(e) = 0
        <5> DEFINE x == One(holding = e)
        <5>1. /\ Gone(e) \in Nat /\ OnItsWay(e) \in Nat /\ Waits(e) \in Nat
              /\ InQueue(e) \in Nat
          BY PlacesAreNat
        <5>2. x \in Nat BY DEF One
        <5>3. ((OnItsWay(e) + Waits(e)) + x) + (InQueue(e) + Gone(e)) = 0
          <6>1. Total(e) = 0 BY <2>1, <3>2 DEF PlaceInv, One
          <6>2. QED BY <6>1 DEF Total
        <5> HIDE DEF x
        <5>4. \A a, b, c, d, f \in Nat : ((a + b) + c) + (d + f) = 0 => a = 0 OBVIOUS
        <5>5. QED BY <5>1, <5>2, <5>3, <5>4
      <4>2. \A i \in 1 .. Len(ready) : ready[i] \notin Sent(e)
        BY <2>1, <2>3, <3>2, <4>1, CountPositive DEF OnItsWay
      <4>3. CountIn(ready, K) = 0
        <5>1. \A i \in 1 .. Len(ready) : ready[i] \notin K BY <2>1, <4>2
        <5>2. QED BY <2>3, <5>1, CountPositive
      <4>4. QED BY <4>1, <4>3
    <3>3. QED BY <3>1, <3>2
  <2> HIDE DEF a1
  <2> DEFINE x == One(holding = e)
             y == One(h \in K)
  <2>10. /\ Gone(e) \in Nat /\ OnItsWay(e) \in Nat /\ Waits(e) \in Nat /\ InQueue(e) \in Nat
         /\ x \in Nat /\ y \in Nat
    BY PlacesAreNat DEF One
  <2>11. Total(e) = ((OnItsWay(e) + Waits(e)) + x) + (InQueue(e) + Gone(e)) BY DEF Total
  <2>12. Total(e)' = (((OnItsWay(e) + y) + Waits(e)) + x) + (InQueue(e) + Gone(e))
    BY <2>7, <2>8, <2>9
  <2> HIDE DEF x, y
  <2>13. \A a, b, c, d, f, o \in Nat :
           (((a + o) + b) + c) + (d + f) = (((a + b) + c) + (d + f)) + o OBVIOUS
  <2>14. Total(e)' = Total(e) + y BY <2>10, <2>11, <2>12, <2>13
  <2>15. Total(e) = One(Final(e)) BY DEF PlaceInv
  <2>16. One(Final(e))' = One(Final(e)) + y BY <2>1, <2>2 DEF One, y
  <2>17. QED BY <2>14, <2>15, <2>16
<1>7. QED BY <1>6 DEF PlaceInv

(* The first emitter that waits is let in.                                 *)
LEMMA EmitterLetIn ==
  ASSUME TypeOK, PlaceInv, NEW rest \in Seq(Callbacks), NEW e \in AllEvents,
         CountIn(rest, Going(e)) = OnItsWay(e)
  PROVE  /\ CountIn(rest \o FirstPutter, Going(e)) + CountIn(OtherPutters, Sent(e))
              = OnItsWay(e) + Waits(e)
         /\ CountIn(rest \o FirstPutter, Going(e)) \in Nat
         /\ CountIn(OtherPutters, Sent(e)) \in Nat
         /\ rest \o FirstPutter \in Seq(Callbacks)
<1> DEFINE f == FirstPutter
           o == CountIn(OtherPutters, Sent(e))
<1>1. /\ f \in Seq(Callbacks) /\ CountIn(f, Going(e)) + o = Waits(e)
      /\ CountIn(f, Going(e)) \in Nat /\ o \in Nat
  BY LetInCarries
<1>2. OnItsWay(e) \in Nat /\ Waits(e) \in Nat BY PlacesAreNat
<1> HIDE DEF f, o
<1>3. CountIn(rest \o f, Going(e)) = CountIn(rest, Going(e)) + CountIn(f, Going(e))
  BY <1>1, CountConcat
<1>4. CountIn(rest \o f, Going(e)) = OnItsWay(e) + CountIn(f, Going(e)) BY <1>3
<1>5. rest \o f \in Seq(Callbacks) BY <1>1, ConcatProperties
<1>6. /\ CountIn(rest \o f, Going(e)) + o = OnItsWay(e) + Waits(e)
      /\ CountIn(rest \o f, Going(e)) \in Nat
  BY <1>1, <1>2, <1>4
<1>7. QED BY <1>1, <1>5, <1>6 DEF f, o

LEMMA LetInAfter ==
  ASSUME TypeOK, PlaceInv, NEW rest \in Seq(Callbacks), NEW e \in AllEvents,
         CountIn(rest, Going(e)) = OnItsWay(e),
         NEW lets \in BOOLEAN, NEW a \in Seq(Callbacks), CountIn(a, Going(e)) = 0,
         putters' = IF lets THEN OtherPutters ELSE putters,
         ready' = (rest \o (IF lets THEN FirstPutter ELSE <<>>)) \o a
  PROVE  /\ CountIn(ready', Going(e)) + Waits(e)' = OnItsWay(e) + Waits(e)
         /\ CountIn(ready', Going(e)) \in Nat /\ Waits(e)' \in Nat
<1> DEFINE G == Going(e)
<1>1. rest \in Seq(Callbacks) OBVIOUS
<1>2. CountIn(rest, G) = OnItsWay(e) OBVIOUS
<1>3. Waits(e)' = CountIn(putters', Sent(e)) BY DEF Waits, Sent
<1>4. OnItsWay(e) \in Nat /\ Waits(e) \in Nat BY PlacesAreNat
<1>5. CountIn(a, G) = 0 OBVIOUS
<1>6. CASE lets
  <2> DEFINE front == rest \o FirstPutter
             o == CountIn(OtherPutters, Sent(e))
  <2>1. ready' = front \o a /\ Waits(e)' = o BY <1>3, <1>6
  <2>2. /\ CountIn(front, G) + o = OnItsWay(e) + Waits(e)
        /\ CountIn(front, G) \in Nat /\ o \in Nat /\ front \in Seq(Callbacks)
    BY <1>1, <1>2, EmitterLetIn
  <2> HIDE DEF front, o
  <2>3. CountIn(front \o a, G) = CountIn(front, G) + CountIn(a, G) BY <2>2, CountConcat
  <2>4. CountIn(ready', G) = CountIn(front, G)
    <3>1. CountIn(a, G) = 0 BY <1>5
    <3>2. ready' = front \o a BY <2>1
    <3>3. CountIn(ready', G) = CountIn(front \o a, G) BY <3>2
    <3> DEFINE x == CountIn(front, G)
               y == CountIn(a, G)
               z == CountIn(ready', G)
    <3>4. z = x + y /\ y = 0 /\ x \in Nat BY <2>2, <2>3, <3>1, <3>3
    <3> HIDE DEF x, y, z
    <3>5. z = x BY <3>4
    <3>6. QED BY <3>5 DEF x, z
  <2>5. QED BY <2>1, <2>2, <2>4
<1>7. CASE ~lets
  <2>1. Waits(e)' = Waits(e) BY <1>3, <1>7 DEF Waits
  <2>2. ready' = rest \o a
    <3>1. rest \o <<>> = rest BY <1>1
    <3>2. ready' = (rest \o <<>>) \o a BY <1>7
    <3>3. QED BY <3>1, <3>2
  <2>3. CountIn(rest \o a, G) = CountIn(rest, G) + CountIn(a, G) BY <1>1, CountConcat
  <2>4. CountIn(ready', G) = OnItsWay(e)
    <3>1. CountIn(a, G) = 0 BY <1>5
    <3>3. CountIn(ready', G) = CountIn(rest \o a, G) BY <2>2
    <3> DEFINE x == CountIn(rest, G)
               y == CountIn(a, G)
               z == CountIn(ready', G)
    <3>4. z = x + y /\ y = 0 /\ x = OnItsWay(e) /\ x \in Nat BY <1>2, <1>4, <2>3, <3>1, <3>3
    <3> HIDE DEF x, y, z
    <3>5. z = x BY <3>4
    <3>6. QED BY <3>4, <3>5 DEF z
  <2>5. QED BY <1>4, <2>1, <2>4
<1>8. QED BY <1>6, <1>7

LEMMA MayLetIn ==
  ASSUME TypeOK, PlaceInv, ready # <<>>, Head(ready).who # "handler",
         NEW lets \in BOOLEAN, NEW a \in Seq(Callbacks), NEW e \in AllEvents,
         CountIn(a, Going(e)) = 0,
         putters' = IF lets THEN OtherPutters ELSE putters,
         ready' = (Tail(ready) \o (IF lets THEN FirstPutter ELSE <<>>)) \o a
  PROVE  /\ CountIn(ready', Going(e)) + Waits(e)' = OnItsWay(e) + Waits(e)
         /\ CountIn(ready', Going(e)) \in Nat /\ Waits(e)' \in Nat
<1> DEFINE rest == Tail(ready)
           G == Going(e)
<1>1. ready \in Seq(Callbacks) /\ rest \in Seq(Callbacks) BY DEF TypeOK
<1>2. CountIn(rest, G) = OnItsWay(e)
  <2>1. G \in SUBSET Sent(e) BY DEF Going
  <2> HIDE DEF G
  <2>2. CountIn(rest, G) = CountIn(ready, G) - One(Head(ready) \in G) BY <1>1, CountTail
  <2> HIDE DEF rest
  <2>3. CountIn(rest, G) = CountIn(ready, G) BY <2>1, <2>2, HeadCarriesNone
  <2>4. QED BY <2>3 DEF OnItsWay, G
<1> HIDE DEF rest
<1>3. CountIn(rest, Going(e)) = OnItsWay(e) BY <1>2
<1>4. ready' = (rest \o (IF lets THEN FirstPutter ELSE <<>>)) \o a BY DEF rest
<1>5. QED BY <1>1, <1>3, <1>4, LetInAfter

(* The oldest item leaves the queue.                                       *)
LEMMA QueueLoses ==
  ASSUME TypeOK, queue # <<>>, NEW e \in AllEvents
  PROVE  /\ Head(queue) \in Items /\ Tail(queue) \in Seq(Items)
         /\ CountIn(Tail(queue), Bearing(e)) = InQueue(e) - One(Head(queue).event = e)
         /\ Head(queue).event = e => InQueue(e) > 0
         /\ InQueue(e) \in Nat /\ One(Head(queue).event = e) \in {0, 1}
<1>1. queue \in Seq(Items) /\ InQueue(e) \in Nat BY PlacesAreNat
<1>2. Head(queue) \in Items /\ Tail(queue) \in Seq(Items) BY <1>1
<1>3. Head(queue) \in Bearing(e) <=> Head(queue).event = e BY <1>2 DEF Bearing
<1>4. CountIn(Tail(queue), Bearing(e)) = InQueue(e) - One(Head(queue) \in Bearing(e))
  BY <1>1, CountTail DEF InQueue
<1>5. One(Head(queue) \in Bearing(e)) = One(Head(queue).event = e) BY <1>3 DEF One
<1>6. Head(queue).event = e => InQueue(e) > 0
  <2>1. SUFFICES ASSUME Head(queue).event = e PROVE InQueue(e) > 0 OBVIOUS
  <2>2. 1 \in 1 .. Len(queue) /\ queue[1] = Head(queue) BY <1>1
  <2>3. queue[1] \in Bearing(e) BY <1>3, <2>1, <2>2
  <2>4. QED BY <1>1, <2>2, <2>3, CountPositive DEF InQueue
<1>7. QED BY <1>1, <1>2, <1>4, <1>5, <1>6 DEF One

(* The queue's head is delivered, or it is a marker.                       *)
LEMMA ReaderPlaces ==
  ASSUME TypeOK, PlaceInv, ReaderTakes \/ ReaderEnds
  PROVE  PlaceInv'
<1> DEFINE ev == Head(queue).event
<1>1. /\ ready # <<>> /\ Head(ready) = Reader /\ queue # <<>>
      /\ queue' = Tail(queue) /\ putters' = OtherPutters
      /\ ready' = ready \o FirstPutter \/ ready' = Tail(ready) \o FirstPutter
      /\ UNCHANGED <<made, holding, evicted, abandoned>>
  BY DEF ReaderTakes, ReaderEnds, Runs, historyVars, taskVars
<1>2. Head(ready).who # "handler" BY <1>1, CallbackKinds
<1>3. ASSUME NEW e \in AllEvents
      PROVE  /\ OnItsWay(e)' + Waits(e)' = OnItsWay(e) + Waits(e)
             /\ OnItsWay(e)' \in Nat /\ Waits(e)' \in Nat
  <2>1. OnItsWay(e)' = CountIn(ready', Going(e)) BY <1>1, SameEvents DEF OnItsWay
  <2>2. CASE ready' = ready \o FirstPutter
    <3>1. ready \in Seq(Callbacks) /\ CountIn(ready, Going(e)) = OnItsWay(e)
      BY DEF TypeOK, OnItsWay
    <3>2. Waits(e)' = CountIn(OtherPutters, Sent(e)) BY <1>1 DEF Waits, Sent
    <3>3. QED BY <2>1, <2>2, <3>1, <3>2, EmitterLetIn
  <2>3. CASE ready' = Tail(ready) \o FirstPutter
    <3>1. <<>> \in Seq(Callbacks) /\ CountIn(<<>>, Going(e)) = 0 BY NoneComes, CountNone
    <3>2. ready' = (Tail(ready) \o FirstPutter) \o <<>>
      <4>1. Tail(ready) \o FirstPutter \in Seq(Callbacks)
        <5>1. Tail(ready) \in Seq(Callbacks) BY <1>1 DEF TypeOK
        <5>2. FirstPutter \in Seq(Callbacks) BY FirstPutterComes
        <5>3. QED BY <5>1, <5>2, ConcatProperties
      <4> DEFINE t == Tail(ready) \o FirstPutter
      <4>2. t \in Seq(Callbacks) /\ ready' = t BY <2>3, <4>1
      <4> HIDE DEF t
      <4>3. ready' = t \o <<>> BY <4>2
      <4>4. QED BY <4>3 DEF t
    <3>3. /\ putters' = IF TRUE THEN OtherPutters ELSE putters
          /\ ready' = (Tail(ready) \o (IF TRUE THEN FirstPutter ELSE <<>>)) \o <<>>
      BY <1>1, <3>2
    <3>4. QED BY <1>1, <1>2, <2>1, <3>1, <3>3, MayLetIn
  <2>4. QED BY <1>1, <2>2, <2>3
<1>4. ASSUME NEW e \in AllEvents
      PROVE  /\ CountIn(delivered', {e}) = CountIn(delivered, {e}) + One(ev = e)
             /\ CountIn(delivered, {e}) \in Nat
  <2>1. delivered \in Seq(AllEvents) BY DEF TypeOK
  <2>2. CountIn(delivered, {e}) \in Nat BY <2>1, CountIsNat
  <2>3. CASE ReaderTakes
    <3>1. ev \in AllEvents
      <4>1. Head(queue) \in Items BY <1>1, QueueLoses
      <4>2. ev # 0 BY <2>3 DEF ReaderTakes, IsMarker
      <4>3. QED BY <4>1, <4>2 DEF Items
    <3>2. delivered' = Append(delivered, ev) BY <2>3 DEF ReaderTakes
    <3> HIDE DEF ev
    <3>3. CountIn(Append(delivered, ev), {e}) = CountIn(delivered, {e}) + One(ev \in {e})
      BY <2>1, <3>1, CountAppend
    <3>4. One(ev \in {e}) = One(ev = e) BY DEF One
    <3>5. QED BY <2>2, <3>2, <3>3, <3>4
  <2>4. CASE ReaderEnds
    <3>1. ev = 0 /\ delivered' = delivered BY <2>4 DEF ReaderEnds, IsMarker, historyVars
    <3>2. One(ev = e) = 0 BY <3>1 DEF One, AllEvents
    <3>3. QED BY <2>2, <3>1, <3>2
  <2>5. QED BY <2>3, <2>4
<1>5. ASSUME NEW e \in AllEvents PROVE Total(e)' = Total(e)
  <2> DEFINE c == CountIn(delivered, {e})
             x == One(ev = e)
             u == One(e \in evicted)
             v == One(e \in abandoned)
             h == One(holding = e)
             i == InQueue(e)
             a == OnItsWay(e)
             b == Waits(e)
             a1 == OnItsWay(e)'
             b1 == Waits(e)'
  <2>1. InQueue(e)' = i - x
    <3>1. InQueue(e)' = CountIn(queue', Bearing(e)) BY DEF InQueue, Bearing
    <3>2. QED BY <1>1, <3>1, QueueLoses
  <2>2. i - x \in Nat /\ x \in Nat
    <3>1. ev = e => i > 0 BY <1>1, QueueLoses
    <3>2. i \in Nat /\ x \in {0, 1} BY <1>1, QueueLoses
    <3>3. ~(ev = e) => x = 0 BY DEF One
    <3> HIDE DEF x, i
    <3>4. QED BY <3>1, <3>2, <3>3
  <2>3. Gone(e)' = CountIn(delivered', {e}) + (u + v) BY <1>1 DEF Gone
  <2>4. CountIn(delivered', {e}) = c + x /\ c \in Nat BY <1>4
  <2>5. Gone(e) = c + (u + v) BY DEF Gone
  <2>6. a1 + b1 = a + b /\ a1 \in Nat /\ b1 \in Nat BY <1>3
  <2>7. a \in Nat /\ b \in Nat /\ i \in Nat BY PlacesAreNat
  <2>8. u \in Nat /\ v \in Nat /\ h \in Nat BY DEF One
  <2>9. Total(e)' = ((OnItsWay(e)' + Waits(e)') + One(holding' = e)) + (InQueue(e)' + Gone(e)')
    BY DEF Total, One
  <2>10. One(holding' = e) = h BY <1>1
  <2>11. Total(e)' = ((a1 + b1) + h) + ((i - x) + ((c + x) + (u + v)))
    BY <2>1, <2>3, <2>4, <2>9, <2>10
  <2>12. Total(e) = ((a + b) + h) + (i + (c + (u + v))) BY <2>5 DEF Total
  <2> HIDE DEF c, x, u, v, h, i, a, b, a1, b1
  <2>13. QED BY <2>2, <2>4, <2>6, <2>7, <2>8, <2>11, <2>12
<1>6. QED BY <1>1, <1>5, Balance

(* What is left of ready, after what the step's caller does next.          *)
LEMMA RestAfterNext ==
  ASSUME TypeOK, ready # <<>>, Head(ready).who # "handler",
         NEW next \in {<<>>, <<Starter>>}, NEW e \in AllEvents
  PROVE  /\ next \o Tail(ready) \in Seq(Callbacks)
         /\ CountIn(next \o Tail(ready), Going(e)) = OnItsWay(e)
<1> DEFINE rest == Tail(ready)
           G == Going(e)
<1>1. ready \in Seq(Callbacks) /\ rest \in Seq(Callbacks) BY DEF TypeOK
<1>2. next \in {<<>>, <<Starter>>, <<Stopper>>} OBVIOUS
<1>3. G \in SUBSET Sent(e) BY DEF Going
<1> HIDE DEF G
<1>4. next \in Seq(Callbacks) /\ CountIn(next, G) = 0 BY <1>2, <1>3, NextCarriesNone
<1>5. CountIn(rest, G) = CountIn(ready, G) - One(Head(ready) \in G) BY <1>1, CountTail
<1> HIDE DEF rest
<1>6. CountIn(rest, G) = CountIn(ready, G) /\ CountIn(ready, G) \in Nat
  BY <1>3, <1>5, HeadCarriesNone
<1>7. \A x, y \in Seq(Callbacks) :
        x \o y \in Seq(Callbacks) /\ CountIn(x \o y, G) = CountIn(x, G) + CountIn(y, G)
  BY ONLY CountConcat, ConcatProperties
<1>8. /\ next \o rest \in Seq(Callbacks)
      /\ CountIn(next \o rest, G) = CountIn(next, G) + CountIn(rest, G)
  BY ONLY <1>1, <1>4, <1>7, Zenon
<1> DEFINE x == CountIn(next, G)
           y == CountIn(rest, G)
           z == CountIn(next \o rest, G)
<1>9. z = x + y /\ x = 0 /\ y \in Nat BY <1>4, <1>6, <1>8
<1> HIDE DEF x, y, z
<1>10. z = y BY ONLY <1>9
<1>11. QED BY ONLY <1>6, <1>8, <1>10, Zenon DEF y, z, rest, G, OnItsWay

(* A stop marker takes the oldest event's place, or room is left for it.   *)
LEMMA WakePlaces ==
  ASSUME TypeOK, PlaceInv, ready # <<>>, Head(ready).who # "handler",
         NEW r \in 0 .. MaxStarts, NEW next \in {<<>>, <<Starter>>},
         WakeEventConsumers(r, next),
         UNCHANGED <<made, holding, delivered, abandoned>>
  PROVE  PlaceInv'
<1> DEFINE base == IF IsFull THEN Tail(queue) ELSE queue
           Lost(e) == IsFull /\ Head(queue).event = e
<1>1. /\ queue' = Append(base, Marker(r))
      /\ putters' = IF IsFull THEN OtherPutters ELSE putters
      /\ ready' = ((next \o Tail(ready)) \o (IF IsFull THEN FirstPutter ELSE <<>>))
                     \o WokenReader
      /\ evicted' = evicted \cup (IF IsFull THEN EventsIn(<<Head(queue)>>) ELSE {})
  BY DEF WakeEventConsumers, WokenReader
<1>2. IsFull => queue # <<>>
  <2>1. Len(<<>>) = 0 OBVIOUS
  <2>2. QED BY <2>1, ConnectorAssumption DEF IsFull
<1>3. Marker(r) \in Items BY DEF Marker, Items
<1>4. ASSUME NEW e \in AllEvents PROVE Total(e)' = Total(e)
  <2> DEFINE x == One(Lost(e))
             b0 == CountIn(base, Bearing(e))
  <2>1. /\ base \in Seq(Items) /\ b0 = InQueue(e) - x /\ (Lost(e) => InQueue(e) > 0)
        /\ InQueue(e) \in Nat
    <3>1. CASE IsFull
      <4>1. One(Head(queue).event = e) = x BY <3>1 DEF One
      <4>2. base = Tail(queue) BY <3>1
      <4> HIDE DEF x
      <4>3. QED BY <1>2, <3>1, <4>1, <4>2, QueueLoses
    <3>2. CASE ~IsFull
      <4>1. base = queue /\ x = 0 BY <3>2 DEF One
      <4> HIDE DEF x, base
      <4>2. queue \in Seq(Items) /\ InQueue(e) \in Nat BY PlacesAreNat
      <4>3. b0 = InQueue(e) BY <4>1 DEF InQueue
      <4>4. b0 = InQueue(e) - x BY <4>1, <4>2, <4>3
      <4>5. QED BY <3>2, <4>1, <4>2, <4>4
    <3>3. QED BY <3>1, <3>2
  <2>2. InQueue(e)' = b0
    <3>1. InQueue(e)' = CountIn(queue', Bearing(e)) BY DEF InQueue, Bearing
    <3>2. Marker(r) \notin Bearing(e) BY DEF Marker, Bearing, AllEvents
    <3>3. One(Marker(r) \in Bearing(e)) = 0 BY <3>2 DEF One
    <3> HIDE DEF base
    <3>4. CountIn(Append(base, Marker(r)), Bearing(e)) = b0 + One(Marker(r) \in Bearing(e))
      BY <1>3, <2>1, CountAppend
    <3>5. b0 \in Nat BY <2>1, CountIsNat
    <3> HIDE DEF b0
    <3>6. b0 + 0 = b0 BY <3>5
    <3>7. QED BY <1>1, <3>1, <3>3, <3>4, <3>6
  <2>3. One(e \in evicted') = One(e \in evicted) + x
    <3>1. e \in evicted' <=> e \in evicted \/ Lost(e)
      <4>1. IsFull => (e \in EventsIn(<<Head(queue)>>) <=> Head(queue).event = e)
        <5>1. e # 0 BY DEF AllEvents
        <5>2. /\ Len(<<Head(queue)>>) = 1 /\ 1 .. 1 = {1} /\ <<Head(queue)>>[1] = Head(queue)
          OBVIOUS
        <5>3. EventsIn(<<Head(queue)>>) = {Head(queue).event} \ {0} BY <5>2 DEF EventsIn
        <5>4. QED BY <5>1, <5>3
      <4>2. QED BY <1>1, <4>1
    <3>2. Lost(e) => e \notin evicted BY <2>1, OnePlace
    <3> HIDE DEF Lost
    <3>3. QED BY <3>1, <3>2 DEF One
  <2> DEFINE c == CountIn(delivered, {e})
             u == One(e \in evicted)
             v == One(e \in abandoned)
             h == One(holding = e)
             i == InQueue(e)
             a == OnItsWay(e)
             b == Waits(e)
             a1 == OnItsWay(e)'
             b1 == Waits(e)'
  <2>4. a1 + b1 = a + b /\ a1 \in Nat /\ b1 \in Nat
    <3>1. OnItsWay(e)' = CountIn(ready', Going(e)) BY SameEvents DEF OnItsWay
    <3>2. WokenReader \in Seq(Callbacks) /\ CountIn(WokenReader, Going(e)) = 0
      <4>1. Going(e) \in SUBSET Sent(e) BY DEF Going
      <4>2. QED BY <4>1, CarryNone
    <3> DEFINE woken == WokenReader
               rest == next \o Tail(ready)
    <3>3. ready' = (rest \o (IF IsFull THEN FirstPutter ELSE <<>>)) \o woken
      BY <1>1
    <3>8. rest \in Seq(Callbacks) /\ CountIn(rest, Going(e)) = OnItsWay(e)
      BY RestAfterNext
    <3>4. woken \in Seq(Callbacks) /\ CountIn(woken, Going(e)) = 0 BY <3>2
    <3>5. IsFull \in BOOLEAN BY DEF IsFull
    <3> DEFINE full == IsFull
    <3>6. /\ full \in BOOLEAN
          /\ putters' = IF full THEN OtherPutters ELSE putters
          /\ ready' = (rest \o (IF full THEN FirstPutter ELSE <<>>)) \o woken
      BY <1>1, <3>3, <3>5
    <3> HIDE DEF woken, full, rest
    <3>7. QED BY <3>1, <3>4, <3>6, <3>8, LetInAfter
  <2>5. Gone(e)' = c + ((u + x) + v) BY <2>3 DEF Gone
  <2>6. Gone(e) = c + (u + v) BY DEF Gone
  <2>7. a \in Nat /\ b \in Nat /\ i \in Nat /\ c \in Nat BY PlacesAreNat
  <2>8. u \in Nat /\ v \in Nat /\ h \in Nat /\ x \in Nat BY DEF One
  <2>9. Total(e)' = ((OnItsWay(e)' + Waits(e)') + One(holding' = e)) + (InQueue(e)' + Gone(e)')
    BY DEF Total, One
  <2>10. Total(e)' = ((a1 + b1) + h) + ((i - x) + (c + ((u + x) + v)))
    BY <2>1, <2>2, <2>5, <2>9
  <2>11. Total(e) = ((a + b) + h) + (i + (c + (u + v))) BY <2>6 DEF Total
  <2> HIDE DEF c, x, u, v, h, i, a, b, a1, b1
  <2>12. QED BY <2>4, <2>7, <2>8, <2>10, <2>11
<1>5. QED BY <1>4, Balance

LEMMA MarkersPlaces ==
  ASSUME TypeOK, PlaceInv, OnTaskDone \/ StopMarks
  PROVE  PlaceInv'
<1>1. CASE OnTaskDone
  <2>1. /\ ready # <<>> /\ Head(ready).who = "done" /\ WakeEventConsumers(Head(ready).on, <<>>)
        /\ UNCHANGED <<made, holding, delivered, abandoned>>
    BY <1>1 DEF OnTaskDone, taskVars
  <2>2. Head(ready) \in Callbacks BY <2>1 DEF TypeOK
  <2>3. Head(ready).on \in 0 .. MaxStarts
    <3>1. Head(ready) \notin Handlers BY <2>1, CallbackKinds
    <3>2. Head(ready) \notin {Runner, Reader, Starter, Stopper} BY <2>1, CallbackKinds
    <3>3. QED BY <2>2, <3>1, <3>2 DEF Callbacks
  <2>4. <<>> \in {<<>>, <<Starter>>} OBVIOUS
  <2>5. QED BY <2>1, <2>3, <2>4, WakePlaces
<1>2. CASE StopMarks
  <2>1. Runs(Stopper) /\ UNCHANGED <<made, holding, delivered, abandoned>>
    BY <1>2 DEF StopMarks, BaseStops, taskVars
  <2>5. PICK next \in {<<>>, <<Starter>>} : WakeEventConsumers(run, next)
    BY <1>2 DEF StopMarks
  <2>2. ready # <<>> /\ Head(ready).who # "handler" BY <2>1, CallbackKinds DEF Runs
  <2>3. run \in 0 .. MaxStarts BY DEF TypeOK
  <2>4. QED BY <2>1, <2>2, <2>3, <2>5, WakePlaces
<1>3. QED BY <1>1, <1>2

(* The task that is cancelled abandons the event it holds.                 *)
LEMMA CancelledPlaces ==
  ASSUME TypeOK, PlaceInv, RunnerCancelled
  PROVE  PlaceInv'
<1> DEFINE passesOn == runner \in {"emitting", "emittingLast"} /\ ~IsFull
           ends == TaskEnds("cancelled")
<1>1. /\ ready # <<>> /\ Head(ready) = Runner
      /\ putters' = IF passesOn THEN OtherPutters ELSE putters
      /\ ready' = (Tail(ready) \o (IF passesOn THEN FirstPutter ELSE <<>>)) \o ends
      /\ holding' = 0 /\ abandoned' = abandoned \cup ({holding} \ {0})
      /\ UNCHANGED <<queue, made, delivered, evicted>>
  BY DEF RunnerCancelled, Runs
<1>2. Head(ready).who # "handler" BY <1>1, CallbackKinds
<1>3. passesOn \in BOOLEAN OBVIOUS
<1>4. ASSUME NEW e \in AllEvents PROVE Total(e)' = Total(e)
  <2> DEFINE c == CountIn(delivered, {e})
             u == One(e \in evicted)
             v == One(e \in abandoned)
             h == One(holding = e)
             i == InQueue(e)
             a == OnItsWay(e)
             b == Waits(e)
             a1 == OnItsWay(e)'
             b1 == Waits(e)'
  <2>1. One(e \in abandoned') = v + h
    <3>1. e \in abandoned' <=> e \in abandoned \/ holding = e BY <1>1 DEF AllEvents
    <3>2. holding = e => e \notin abandoned BY OnePlace
    <3>3. QED BY <3>1, <3>2 DEF One
  <2>2. One(holding' = e) = 0 BY <1>1 DEF One, AllEvents
  <2>3. a1 + b1 = a + b /\ a1 \in Nat /\ b1 \in Nat
    <3>1. OnItsWay(e)' = CountIn(ready', Going(e)) BY <1>1, SameEvents DEF OnItsWay
    <3>2. ends \in Seq(Callbacks) /\ CountIn(ends, Going(e)) = 0
      <4>1. Going(e) \in SUBSET Sent(e) BY DEF Going
      <4>2. QED BY <4>1, CarryNone
    <3> HIDE DEF ends, passesOn
    <3>3. QED BY <1>1, <1>2, <1>3, <3>1, <3>2, MayLetIn
  <2>4. Gone(e)' = c + (u + (v + h)) BY <1>1, <2>1 DEF Gone
  <2>5. Gone(e) = c + (u + v) BY DEF Gone
  <2>6. InQueue(e)' = i BY <1>1 DEF InQueue, Bearing
  <2>7. a \in Nat /\ b \in Nat /\ i \in Nat /\ c \in Nat BY PlacesAreNat
  <2>8. u \in Nat /\ v \in Nat /\ h \in Nat BY DEF One
  <2>9. Total(e)' = ((OnItsWay(e)' + Waits(e)') + One(holding' = e)) + (InQueue(e)' + Gone(e)')
    BY DEF Total, One
  <2>10. Total(e)' = ((a1 + b1) + 0) + (i + (c + (u + (v + h))))
    BY <2>2, <2>4, <2>6, <2>9
  <2>11. Total(e) = ((a + b) + h) + (i + (c + (u + v))) BY <2>5 DEF Total
  <2> HIDE DEF c, u, v, h, i, a, b, a1, b1
  <2>12. QED BY <2>3, <2>7, <2>8, <2>10, <2>11
<1>5. QED BY <1>1, <1>4, Balance

(* stop() cancels the task, which keeps the event it waited with.          *)
LEMMA CancelsPlaces ==
  ASSUME TypeOK, PlaceInv, StopCancels
  PROVE  PlaceInv'
<1> DEFINE come == IF IsReady(Runner) THEN <<>> ELSE <<Runner>>
<1>1. /\ ready # <<>> /\ Head(ready) = Stopper
      /\ putters' = Without(putters, Runner) /\ ready' = Tail(ready) \o come
      /\ UNCHANGED <<made, holding, queue, delivered, evicted, abandoned>>
  BY DEF StopCancels, BaseStops, Runs, historyVars
<1>2. Head(ready).who # "handler" /\ Runner \in Callbacks BY <1>1, CallbackKinds
<1>3. come \in Seq(Callbacks) BY <1>2
<1>4. ASSUME NEW e \in AllEvents
      PROVE  /\ CountIn(ready', Going(e)) \in Nat /\ Waits(e)' \in Nat /\ InQueue(e)' \in Nat
             /\ (CountIn(ready', Going(e)) + Waits(e)') + InQueue(e)'
                  = (OnItsWay(e) + Waits(e)) + InQueue(e)
  <2>1. Runner \notin Sent(e) /\ Going(e) \in SUBSET Sent(e) BY CallbackKinds DEF Sent, Going
  <2>2. CountIn(come, Going(e)) = 0
    <3>1. CountIn(<<>>, Going(e)) = 0 BY CountNone
    <3>2. CountIn(<<Runner>>, Going(e)) = One(Runner \in Going(e)) BY CountOne
    <3>3. One(Runner \in Going(e)) = 0 BY <2>1 DEF One
    <3>4. QED BY <3>1, <3>2, <3>3
  <2> HIDE DEF come
  <2>3. CountIn(ready', Going(e)) =
          (CountIn(ready, Going(e)) - One(Head(ready) \in Going(e))) + CountIn(come, Going(e))
    BY <1>1, <1>3, TakesHeadAndOne
  <2>4. CountIn(ready, Going(e)) - One(Head(ready) \in Going(e)) = OnItsWay(e)
    BY <1>1, <1>2, <2>1, HeadCarriesNone DEF OnItsWay
  <2>5. OnItsWay(e) \in Nat /\ Waits(e) \in Nat /\ InQueue(e) \in Nat
        /\ putters \in Seq(Callbacks)
    BY PlacesAreNat
  <2>6. CountIn(ready', Going(e)) = OnItsWay(e)
    <3>1. CountIn(ready', Going(e)) = OnItsWay(e) + 0 BY <2>2, <2>3, <2>4
    <3>2. QED BY <2>5, <3>1
  <2>7. Waits(e)' = Waits(e)
    <3>1. Waits(e)' = CountIn(putters', Sent(e)) BY DEF Waits, Sent
    <3>2. CASE IsWaiting(Runner)
      <4> DEFINE at == PlaceOf(putters, Runner)
      <4>1. at \in 1 .. Len(putters) /\ putters[at] = Runner BY <3>2 DEF IsWaiting, PlaceOf
      <4>2. putters' = SubSeq(putters, 1, at - 1) \o SubSeq(putters, at + 1, Len(putters))
        BY <1>1, <3>2 DEF Without, RemoveAt, IsWaiting
      <4> HIDE DEF at
      <4>3. CountIn(putters', Sent(e)) = CountIn(putters, Sent(e)) - One(putters[at] \in Sent(e))
        BY <2>5, <4>1, <4>2, CountWithout
      <4>4. One(putters[at] \in Sent(e)) = 0 BY <2>1, <4>1 DEF One
      <4>5. CountIn(putters', Sent(e)) = Waits(e) - 0 BY <4>3, <4>4 DEF Waits
      <4>6. QED BY <2>5, <3>1, <4>5
    <3>3. CASE ~IsWaiting(Runner)
      <4>1. putters' = putters BY <1>1, <3>3 DEF Without, IsWaiting
      <4>2. QED BY <3>1, <4>1 DEF Waits
    <3>4. QED BY <3>2, <3>3
  <2>8. InQueue(e)' = InQueue(e) BY <1>1 DEF InQueue, Bearing
  <2>9. QED BY <2>5, <2>6, <2>7, <2>8
<1>5. QED BY <1>1, <1>4, MovedOn

LEMMA RestAndRunner ==
  ASSUME TypeOK, ready # <<>>, Head(ready).who # "handler",
         NEW next \in {<<>>, <<Stopper>>}, NEW e \in AllEvents,
         ready' = next \o Append(Tail(ready), Runner)
  PROVE  CountIn(ready', Going(e)) = OnItsWay(e)
<1> DEFINE rest == Tail(ready)
           all == Append(rest, Runner)
           G == Going(e)
<1>1. ready \in Seq(Callbacks) /\ rest \in Seq(Callbacks) /\ Runner \in Callbacks
  BY CallbackKinds DEF TypeOK
<1>2. next \in {<<>>, <<Starter>>, <<Stopper>>} OBVIOUS
<1>3. G \in SUBSET Sent(e) /\ Runner \notin G BY CallbackKinds DEF Going, Sent
<1> HIDE DEF G
<1>4. next \in Seq(Callbacks) /\ CountIn(next, G) = 0 BY <1>2, <1>3, NextCarriesNone
<1>5. CountIn(rest, G) = CountIn(ready, G) - One(Head(ready) \in G) BY <1>1, CountTail
<1> HIDE DEF rest
<1>6. CountIn(rest, G) = CountIn(ready, G) /\ CountIn(ready, G) \in Nat
  BY <1>3, <1>5, HeadCarriesNone
<1>7. CountIn(all, G) = CountIn(rest, G) + One(Runner \in G) /\ all \in Seq(Callbacks)
  BY <1>1, CountAppend
<1>8. One(Runner \in G) = 0 BY <1>3 DEF One
<1>9. ready' = next \o all BY DEF rest
<1> HIDE DEF all
<1>10. \A x, y \in Seq(Callbacks) : CountIn(x \o y, G) = CountIn(x, G) + CountIn(y, G)
  BY ONLY CountConcat
<1>11. CountIn(next \o all, G) = CountIn(next, G) + CountIn(all, G)
  BY ONLY <1>4, <1>7, <1>10, Zenon
<1> DEFINE x == CountIn(next, G)
           y == CountIn(all, G)
           w == CountIn(rest, G)
           z == CountIn(next \o all, G)
<1>12. z = x + y /\ x = 0 /\ y = w + 0 /\ w \in Nat BY <1>4, <1>6, <1>7, <1>8, <1>11
<1> HIDE DEF x, y, z, w
<1>13. z = w BY ONLY <1>12
<1>14. QED BY ONLY <1>6, <1>9, <1>13, Zenon DEF z, w, G, OnItsWay

(* start() leaves the events of the last run behind.                       *)
LEMMA StartPlaces ==
  ASSUME TypeOK, PlaceInv, HolderInv, Start
  PROVE  PlaceInv'
<1>1. /\ ready # <<>> /\ Head(ready) = Starter /\ ~IsRunning
      /\ queue' = <<>> /\ putters' = <<>>
      /\ abandoned' = abandoned \cup evicted \cup EventsIn(queue) \cup PutterEvents
      /\ evicted' = {} /\ UNCHANGED <<holding, made, delivered>>
  BY DEF Start, NewQueue, Runs
<1>2. Head(ready).who # "handler" /\ Runner \in Callbacks BY <1>1, CallbackKinds
<1>3. PICK next \in {<<>>, <<Stopper>>} : ready' = next \o Append(Tail(ready), Runner)
  BY DEF Start
<1>4. holding = 0 BY <1>1 DEF HolderInv, IsRunning
<1>5. ASSUME NEW e \in AllEvents PROVE Total(e)' = Total(e)
  <2> DEFINE a == OnItsWay(e)
             b == Waits(e)
             i == InQueue(e)
             c == CountIn(delivered, {e})
             u == One(e \in evicted)
             v == One(e \in abandoned)
             v1 == One(e \in abandoned')
  <2>1. OnItsWay(e)' = a
    <3>1. OnItsWay(e)' = CountIn(ready', Going(e)) BY <1>1, SameEvents DEF OnItsWay
    <3>2. CountIn(ready', Going(e)) = OnItsWay(e) BY <1>1, <1>2, <1>3, RestAndRunner
    <3>3. QED BY <3>1, <3>2
  <2>2. Waits(e)' = 0 /\ InQueue(e)' = 0
    <3>1. Waits(e)' = CountIn(<<>>, Sent(e)) /\ InQueue(e)' = CountIn(<<>>, Bearing(e))
      BY <1>1 DEF Waits, Sent, InQueue, Bearing
    <3>2. QED BY <3>1, CountNone
  <2>3. One(holding = e) = 0 /\ One(holding' = e) = 0 BY <1>1, <1>4 DEF One, AllEvents
  <2>4. One(e \in evicted') = 0 BY <1>1 DEF One
  <2>5. e \in PutterEvents <=> b > 0
    <3> DEFINE E == Handlers \cup {Runner}
    <3>1. putters \in Seq(Callbacks) BY PlacesAreNat
    <3>2. putters \in Seq(E) BY DEF TypeOK
    <3>3. \A h \in E : h \in Sent(e) <=> h.arg = e
      <4>1. Runner.arg = 0 BY DEF Runner, Callback
      <4>2. QED BY <4>1, CallbackKinds DEF Sent, AllEvents
    <3> HIDE DEF E
    <3>4. \A k \in 1 .. Len(putters) : putters[k] \in Sent(e) <=> putters[k].arg = e
      BY <3>2, <3>3
    <3>5. b > 0 <=> \E k \in 1 .. Len(putters) : putters[k] \in Sent(e)
      BY <3>1, CountPositive DEF Waits
    <3>6. e # 0 BY DEF AllEvents
    <3>7. e \in PutterEvents <=> \E k \in 1 .. Len(putters) : putters[k].arg = e
      BY <3>6 DEF PutterEvents
    <3>8. QED BY <3>4, <3>5, <3>7
  <2>6. e \in EventsIn(queue) <=> i > 0
    <3>1. queue \in Seq(Items) BY PlacesAreNat
    <3>2. \A k \in 1 .. Len(queue) : queue[k] \in Bearing(e) <=> queue[k].event = e
      BY <3>1 DEF Bearing
    <3>3. i > 0 <=> \E k \in 1 .. Len(queue) : queue[k] \in Bearing(e)
      BY <3>1, CountPositive DEF InQueue
    <3>4. e # 0 BY DEF AllEvents
    <3>5. e \in EventsIn(queue) <=> \E k \in 1 .. Len(queue) : queue[k].event = e
      BY <3>4 DEF EventsIn
    <3>6. QED BY <3>2, <3>3, <3>5
  <2>7. v1 = 1 <=> \/ v = 1 \/ u = 1 \/ i > 0 \/ b > 0
    <3>1. e \in abandoned' <=> \/ e \in abandoned \/ e \in evicted
                               \/ e \in EventsIn(queue) \/ e \in PutterEvents
      BY <1>1
    <3>2. v1 = 1 <=> e \in abandoned' BY DEF One
    <3>3. (v = 1 <=> e \in abandoned) /\ (u = 1 <=> e \in evicted) BY DEF One
    <3> HIDE DEF v1, v, u, i, b
    <3>4. QED BY <2>5, <2>6, <3>1, <3>2, <3>3
  <2>8. Gone(e)' = c + (0 + v1) BY <1>1, <2>4 DEF Gone
  <2>9. Gone(e) = c + (u + v) BY DEF Gone
  <2>10. a \in Nat /\ b \in Nat /\ i \in Nat /\ c \in Nat BY PlacesAreNat
  <2>11. u \in {0, 1} /\ v \in {0, 1} /\ v1 \in {0, 1} BY DEF One
  <2>12. Total(e)' = ((OnItsWay(e)' + Waits(e)') + One(holding' = e)) + (InQueue(e)' + Gone(e)')
    BY DEF Total, One
  <2>13. Total(e)' = ((a + 0) + 0) + (0 + (c + (0 + v1)))
    BY <2>1, <2>2, <2>3, <2>8, <2>12
  <2>14. Total(e) = ((a + b) + 0) + (i + (c + (u + v))) BY <2>3, <2>9 DEF Total
  <2>15. Total(e) \in {0, 1} BY OnePlace
  <2> HIDE DEF c, u, v, v1, i, a, b
  <2>16. QED BY <2>7, <2>10, <2>11, <2>13, <2>14, <2>15
<1>6. QED BY <1>1, <1>5, Balance

LEMMA InitPlaces == Init => PlaceInv /\ HolderInv
<1> SUFFICES ASSUME Init PROVE PlaceInv /\ HolderInv OBVIOUS
<1>1. /\ ready = <<>> /\ queue = <<>> /\ putters = <<>> /\ holding = 0
      /\ made = <<>> /\ delivered = <<>> /\ evicted = {} /\ abandoned = {}
  BY DEF Init
<1>2. ASSUME NEW e \in AllEvents PROVE Total(e) = One(Final(e))
  <2>1. OnItsWay(e) = 0 /\ Waits(e) = 0 /\ InQueue(e) = 0 /\ CountIn(delivered, {e}) = 0
    BY <1>1, CountNone DEF OnItsWay, Waits, InQueue
  <2>2. One(holding = e) = 0 /\ One(e \in evicted) = 0 /\ One(e \in abandoned) = 0
    BY <1>1 DEF One, AllEvents
  <2>3. One(Final(e)) = 0
    <3>1. Len(<<>>) = 0 OBVIOUS
    <3>2. ~Final(e) BY <1>1, <3>1 DEF Final, MadeEvents, AllEvents
    <3>3. QED BY <3>2 DEF One
  <2>4. Gone(e) = 0 BY <2>1, <2>2 DEF Gone
  <2>5. QED BY <2>1, <2>2, <2>3, <2>4 DEF Total
<1>3. QED BY <1>1, <1>2 DEF PlaceInv, HolderInv

LEMMA StepHolds ==
  ASSUME TypeOK, ControlInv, HolderInv, Next
  PROVE  HolderInv'
<1>1. CASE MockEmits \/ MissingDependency \/ CreateFails \/ ConnectionRaises
  <2>1. \E p \in {Synthetic, ErrorRaw}, pc \in {"emitting", "emittingLast"} : RunnerMakes(p, pc)
    BY <1>1 DEF MockEmits, MissingDependency, CreateFails, ConnectionRaises
  <2>2. runner' \in {"emitting", "emittingLast"} \/ holding' = 0
    BY <2>1 DEF RunnerMakes, RunnerEmits
  <2>3. QED BY <2>2 DEF HolderInv
<1>2. CASE ResumesEmission BY <1>2 DEF ResumesEmission, RunnerEmits, HolderInv
<1>3. CASE ProducerRaises BY <1>3 DEF ProducerRaises, RunnerAt, HolderInv
<1>4. CASE CreateClient \/ PreflightGoesOn \/ AttemptOver
  BY <1>4 DEF CreateClient, PreflightGoesOn, AttemptOver, RunnerAt, HolderInv
<1>5. CASE RunnerCancelled BY <1>5 DEF RunnerCancelled, HolderInv
<1>6. CASE OnTaskDone \/ StopMarks BY <1>6 DEF OnTaskDone, StopMarks, taskVars, HolderInv
<1>7. CASE \E e \in MadeEvents : HandlerSkips(e) \/ HandlerEmits(e) \/ HandlerPutsAside(e)
  BY <1>7 DEF HandlerSkips, HandlerEmits, HandlerPutsAside, taskVars, HolderInv
<1>8. CASE Start BY <1>8 DEF Start, IsRunning, HolderInv
<1>9. CASE StartReturns \/ StopDisconnects \/ DisconnectRaises
  BY <1>9 DEF StartReturns, StopDisconnects, DisconnectRaises, taskVars, HolderInv
<1>10. CASE StopCancels
  BY <1>10 DEF StopCancels, HolderInv
<1>11. CASE ReaderWaits \/ ReaderTakes \/ ReaderEnds
  BY <1>11 DEF ReaderWaits, ReaderTakes, ReaderEnds, taskVars, HolderInv
<1>12. CASE OwnerCalls \/ DisconnectReturns \/ ReaderBegins \/ BodyReturns
            \/ PreflightAnswers \/ ConnectionCloses \/ ClientReports
  BY <1>12 DEF OwnerCalls, DisconnectReturns, ReaderBegins, BodyReturns,
               PreflightAnswers, ConnectionCloses, ClientReports, Wakes, HolderInv
<1>13. CASE TimerFires BY <1>13 DEF TimerFires, Wakes, HolderInv
<1>14. CASE AllQuiet BY <1>14 DEF AllQuiet, vars, taskVars, HolderInv
<1>15. QED
  BY <1>1, <1>2, <1>3, <1>4, <1>5, <1>6, <1>7, <1>8, <1>9, <1>10, <1>11, <1>12, <1>13, <1>14
     DEF Next, LoopStep, RunnerStep, Outside

LEMMA StepPlaces ==
  ASSUME TypeOK, ControlInv, MarkerInv, PlaceInv, HolderInv, [Next]_vars
  PROVE  PlaceInv' /\ HolderInv'
<1>1. CASE Next
  <2>1. HolderInv' BY <1>1, StepHolds
  <2>2. CASE RunnerStep
    BY <2>1, <2>2, MakesPlaces, ResumesPlaces, RaisesPlaces, RunnersPlaces, CancelledPlaces
       DEF RunnerStep
  <2>3. CASE OnTaskDone \/ StopMarks BY <2>1, <2>3, MarkersPlaces
  <2>4. CASE \E e \in MadeEvents : HandlerSkips(e) \/ HandlerEmits(e) \/ HandlerPutsAside(e)
    BY <2>1, <2>4, SkipsPlaces, HandlerPlaces, AsidePlaces
  <2>5. CASE Start BY <2>1, <2>5, StartPlaces
  <2>6. CASE StartReturns \/ StopDisconnects \/ DisconnectRaises \/ ReaderWaits
    BY <2>1, <2>6, CallsPlaces
  <2>7. CASE StopCancels BY <2>1, <2>7, CancelsPlaces
  <2>8. CASE ReaderTakes \/ ReaderEnds BY <2>1, <2>8, ReaderPlaces
  <2>9. CASE Outside BY <2>1, <2>9, OutsidePlaces, ReportsPlaces DEF Outside
  <2>10. CASE AllQuiet
    <3>1. UNCHANGED <<made, putters, holding, queue, delivered, evicted, abandoned, ready>>
      BY <2>10 DEF AllQuiet, vars, taskVars, historyVars
    <3>2. \A e \in AllEvents : CountIn(ready', Going(e)) = CountIn(ready, Going(e)) BY <3>1
    <3>3. QED BY <2>1, <3>1, <3>2, Unmoved
  <2>11. QED BY <1>1, <2>1, <2>2, <2>3, <2>4, <2>5, <2>6, <2>7, <2>8, <2>9, <2>10
             DEF Next, LoopStep
<1>2. CASE UNCHANGED vars
  <2>1. UNCHANGED <<made, putters, holding, queue, delivered, evicted, abandoned, ready,
                    runner>>
    BY <1>2 DEF vars, taskVars, historyVars
  <2>2. \A e \in AllEvents : CountIn(ready', Going(e)) = CountIn(ready, Going(e)) BY <2>1
  <2>3. PlaceInv' BY <2>1, <2>2, Unmoved
  <2>4. QED BY <2>1, <2>3 DEF HolderInv
<1>3. QED BY <1>1, <1>2

LEMMA PlaceInvariant == Spec => [](TypeOK /\ ControlInv /\ MarkerInv /\ PlaceInv /\ HolderInv)
<1>1. Init => PlaceInv /\ HolderInv BY InitPlaces
<1>2. /\ TypeOK /\ ControlInv /\ MarkerInv /\ PlaceInv /\ HolderInv /\ [Next]_vars
      => PlaceInv' /\ HolderInv'
  BY StepPlaces
<1>3. QED BY <1>1, <1>2, MarkerInvariant, PTL DEF Spec

(* Every event that goes on is in exactly one place, from its making on,   *)
(* through every wait, cancellation, stop and restart of base.py, and an   *)
(* intermediate report of a gift combo (_is_intermediate_gift_streak in    *)
(* tiktok_live.py) reaches neither the queue nor the reader.               *)
THEOREM EventsAreSomewhere == Spec => []EveryEventSomewhere
<1>1. TypeOK /\ PlaceInv => EveryEventSomewhere
  <2> SUFFICES ASSUME TypeOK, PlaceInv, NEW e \in MadeEvents
               PROVE  IF IsIntermediateGiftStreak(made[e]) THEN ~GivenTo(e) ELSE Places(e) = 1
    BY DEF EveryEventSomewhere, IsIntermediateGiftStreak
  <2>1. e \in AllEvents
    <3>1. Len(made) \in Nat
      <4> DEFINE S == Payloads \cup {Synthetic, ErrorRaw}
      <4>1. made \in Seq(S) BY DEF TypeOK
      <4> HIDE DEF S
      <4>2. QED BY <4>1
    <3>2. Len(made) <= MaxMade + 1 BY DEF TypeOK
    <3>3. QED BY <3>1, <3>2, ConnectorAssumption DEF MadeEvents, AllEvents
  <2>2. Intermediate(e) <=> IsIntermediateGiftStreak(made[e]) BY DEF Intermediate
  <2>3. Total(e) = One(Final(e)) BY <2>1 DEF PlaceInv
  <2> DEFINE a == OnItsWay(e)
             b == Waits(e)
             h == One(holding = e)
             i == InQueue(e)
             c == CountIn(delivered, {e})
             u == One(e \in evicted)
             v == One(e \in abandoned)
  <2>4. /\ a \in Nat /\ b \in Nat /\ h \in Nat /\ i \in Nat /\ c \in Nat
        /\ u \in Nat /\ v \in Nat
    BY <2>1, PlacesAreNat DEF One
  <2>5. Total(e) = ((a + b) + h) + (i + (c + (u + v))) BY DEF Total, Gone
  <2>6. CASE Intermediate(e)
    <3>1. Total(e) = 0 BY <2>3, <2>6 DEF Final, One
    <3>2. i = 0 /\ c = 0
      <4> HIDE DEF a, b, h, i, c, u, v
      <4>1. QED BY <2>4, <2>5, <3>1
    <3>3. \A k \in 1 .. Len(delivered) : delivered[k] # e
      <4>1. delivered \in Seq(AllEvents) BY DEF TypeOK
      <4>2. QED BY <3>2, <4>1, CountPositive
    <3>4. \A k \in 1 .. Len(queue) : queue[k].event # e
      <4>1. queue \in Seq(Items) BY <2>1, PlacesAreNat
      <4>2. \A k \in 1 .. Len(queue) : queue[k] \notin Bearing(e)
        BY <3>2, <4>1, CountPositive DEF InQueue
      <4>3. QED BY <4>1, <4>2 DEF Bearing
    <3>5. ~GivenTo(e) BY <3>3, <3>4 DEF GivenTo, EventsIn
    <3>6. QED BY <2>2, <2>6, <3>5
  <2>7. CASE ~Intermediate(e)
    <3>1. Total(e) = 1 BY <2>3, <2>7 DEF Final, One
    <3>2. a = Cardinality({k \in 1 .. Len(ready) : ready[k].who = "handler" /\ ready[k].arg = e})
      <4>1. ready \in Seq(Callbacks) BY DEF TypeOK
      <4>2. Going(e) = Sent(e) BY <2>7 DEF Going
      <4>3. PlacesOf(ready, Sent(e)) =
              {k \in 1 .. Len(ready) : ready[k].who = "handler" /\ ready[k].arg = e}
        BY <4>1 DEF PlacesOf, Sent
      <4>4. QED BY <4>2, <4>3 DEF OnItsWay, CountIn
    <3>3. b = Cardinality({k \in 1 .. Len(putters) :
                             putters[k].who = "handler" /\ putters[k].arg = e})
      <4>1. putters \in Seq(Callbacks) BY <2>1, PlacesAreNat
      <4>2. PlacesOf(putters, Sent(e)) =
              {k \in 1 .. Len(putters) : putters[k].who = "handler" /\ putters[k].arg = e}
        BY <4>1 DEF PlacesOf, Sent
      <4>3. QED BY <4>2 DEF Waits, CountIn
    <3>4. i = Cardinality({k \in 1 .. Len(queue) : queue[k].event = e})
      <4>1. queue \in Seq(Items) BY <2>1, PlacesAreNat
      <4>2. PlacesOf(queue, Bearing(e)) = {k \in 1 .. Len(queue) : queue[k].event = e}
        BY <4>1 DEF PlacesOf, Bearing
      <4>3. QED BY <4>2 DEF InQueue, CountIn
    <3>5. c = Cardinality({k \in 1 .. Len(delivered) : delivered[k] = e})
      <4>1. PlacesOf(delivered, {e}) = {k \in 1 .. Len(delivered) : delivered[k] = e}
        BY DEF PlacesOf
      <4>2. QED BY <4>1 DEF CountIn
    <3>6. Places(e) = (((((a + b) + h) + i) + c) + u) + v
      BY <3>2, <3>3, <3>4, <3>5 DEF Places, One
    <3>7. Places(e) = 1
      <4> HIDE DEF a, b, h, i, c, u, v
      <4>1. QED BY <2>4, <2>5, <3>1, <3>6
    <3>8. QED BY <2>2, <2>7, <3>7
  <2>8. QED BY <2>6, <2>7
<1>2. QED BY <1>1, PlaceInvariant, PTL

-----------------------------------------------------------------------------
(* The connector implements EventStream: what the queue holds, without the *)
(* markers, is the backlog.                                                *)

EventOn(S) == [item \in S |-> IF IsMarker(item) THEN <<>> ELSE <<item.event>>]
Closing == stopRequested \/ runner = "done" \/ overtook
Ending == IF reader \in {"ended", "failed"} THEN reader ELSE "open"

LEMMA StreamCollects ==
  ASSUME NEW S, NEW s \in Seq(S)
  PROVE  StreamEvents(s) = Collected(s, EventOn(S))
<1> DEFINE f == [i \in 1 .. Len(s) |-> IF IsMarker(s[i]) THEN <<>> ELSE <<s[i].event>>]
           g == [i \in 1 .. Len(s) |-> EventOn(S)[s[i]]]
<1>1. \A i \in 1 .. Len(s) : s[i] \in S OBVIOUS
<1>2. f = g BY <1>1 DEF EventOn
<1>3. StreamEvents(s) = FlattenSeq(f) BY DEF StreamEvents
<1>4. Collected(s, EventOn(S)) = FlattenSeq(g) BY DEF Collected
<1> HIDE DEF f, g
<1>5. QED BY <1>2, <1>3, <1>4

LEMMA EventParts == EventOn(Items) \in PartsOf(Items, AllEvents)
<1>1. \A item \in Items : ~IsMarker(item) => item.event \in AllEvents BY DEF Items, IsMarker
<1>2. <<>> \in Seq(AllEvents) OBVIOUS
<1>3. \A x \in AllEvents : <<x>> \in Seq(AllEvents) OBVIOUS
<1>4. \A item \in Items :
        (IF IsMarker(item) THEN <<>> ELSE <<item.event>>) \in Seq(AllEvents)
  BY <1>1, <1>2, <1>3
<1>5. QED BY <1>4 DEF EventOn, PartsOf

LEMMA StreamGets ==
  ASSUME NEW s \in Seq(Items), NEW ev \in AllEvents
  PROVE  /\ StreamEvents(Append(s, Item(ev))) = Append(StreamEvents(s), ev)
         /\ StreamEvents(s) \in Seq(AllEvents)
<1> DEFINE part == EventOn(Items)
           x == Item(ev)
<1>1. part \in PartsOf(Items, AllEvents) BY EventParts
<1>2. x \in Items /\ part[x] = <<ev>>
  BY ConnectorAssumption DEF Item, Items, EventOn, IsMarker, AllEvents
<1>3. <<>> \in Seq(Items) OBVIOUS
<1> HIDE DEF part, x
<1>4. Append(s, x) \in Seq(Items) BY <1>2
<1>5. Collected(Append(s, x), part) = Collected(s, part) \o part[x] BY <1>1, <1>2, CollectedAppend
<1>6. Collected(s, part) \in Seq(AllEvents) BY <1>1, <1>3, CollectedConcat
<1>7. StreamEvents(s) = Collected(s, part) BY StreamCollects DEF part
<1>8. StreamEvents(Append(s, x)) = Collected(Append(s, x), part)
  BY <1>4, StreamCollects DEF part
<1>9. \A t \in Seq(AllEvents) : t \o <<ev>> = Append(t, ev) OBVIOUS
<1>10. StreamEvents(Append(s, x)) = Append(StreamEvents(s), ev)
  BY <1>2, <1>5, <1>6, <1>7, <1>8, <1>9
<1>11. QED BY <1>6, <1>7, <1>10 DEF x

LEMMA StreamMarks ==
  ASSUME NEW s \in Seq(Items), NEW r \in 0 .. MaxStarts
  PROVE  StreamEvents(Append(s, Marker(r))) = StreamEvents(s)
<1> DEFINE part == EventOn(Items)
           x == Marker(r)
<1>1. part \in PartsOf(Items, AllEvents) BY EventParts
<1>2. x \in Items /\ part[x] = <<>> BY DEF Marker, Items, EventOn, IsMarker
<1>3. <<>> \in Seq(Items) OBVIOUS
<1> HIDE DEF part, x
<1>4. Append(s, x) \in Seq(Items) BY <1>2
<1>5. Collected(Append(s, x), part) = Collected(s, part) \o part[x] BY <1>1, <1>2, CollectedAppend
<1>6. Collected(s, part) \in Seq(AllEvents) BY <1>1, <1>3, CollectedConcat
<1>7. StreamEvents(s) = Collected(s, part) BY StreamCollects DEF part
<1>8. StreamEvents(Append(s, x)) = Collected(Append(s, x), part)
  BY <1>4, StreamCollects DEF part
<1>9. \A t \in Seq(AllEvents) : t \o <<>> = t OBVIOUS
<1>10. QED BY <1>2, <1>5, <1>6, <1>7, <1>8, <1>9 DEF x

LEMMA StreamLoses ==
  ASSUME NEW s \in Seq(Items), s # <<>>
  PROVE  /\ IsMarker(Head(s)) => StreamEvents(Tail(s)) = StreamEvents(s)
         /\ ~IsMarker(Head(s)) => /\ StreamEvents(s) # <<>>
                                  /\ Head(StreamEvents(s)) = Head(s).event
                                  /\ Tail(StreamEvents(s)) = StreamEvents(Tail(s))
<1> DEFINE part == EventOn(Items)
           x == Head(s)
           rest == Tail(s)
<1>1. part \in PartsOf(Items, AllEvents) BY EventParts
<1>2. x \in Items /\ rest \in Seq(Items) OBVIOUS
<1>3. part[x] = IF IsMarker(x) THEN <<>> ELSE <<x.event>> BY <1>2 DEF EventOn
<1>4. <<>> \in Seq(Items) OBVIOUS
<1>5. Collected(s, part) = part[Head(s)] \o Collected(Tail(s), part)
  <2> HIDE DEF part
  <2>1. QED BY <1>1, CollectedTail
<1>6. Collected(s, part) = part[x] \o Collected(rest, part) BY <1>5
<1> HIDE DEF part, rest
<1>7. Collected(rest, part) \in Seq(AllEvents) BY <1>1, <1>2, <1>4, CollectedConcat
<1>8. StreamEvents(s) = Collected(s, part) /\ StreamEvents(rest) = Collected(rest, part)
  BY <1>2, StreamCollects DEF part
<1> DEFINE t == StreamEvents(rest)
<1>9. t \in Seq(AllEvents) BY <1>7, <1>8
<1>10. StreamEvents(s) = part[x] \o t BY <1>6, <1>8
<1>11. CASE IsMarker(x)
  <2>1. part[x] = <<>> BY <1>3, <1>11
  <2> HIDE DEF t
  <2>2. <<>> \o t = t BY <1>9
  <2>3. StreamEvents(s) = t BY <1>10, <2>1, <2>2
  <2>4. QED BY <1>11, <2>3 DEF t, rest
<1>12. CASE ~IsMarker(x)
  <2>1. x.event \in AllEvents BY <1>2, <1>12 DEF Items, IsMarker
  <2>2. part[x] = <<x.event>> BY <1>3, <1>12
  <2> DEFINE y == x.event
  <2>3. StreamEvents(s) = <<y>> \o t /\ y \in AllEvents BY <1>10, <2>1, <2>2
  <2> HIDE DEF t, y
  <2>4. /\ <<y>> \o t # <<>> /\ Head(<<y>> \o t) = y /\ Tail(<<y>> \o t) = t
    BY <1>9, <2>3
  <2>5. StreamEvents(s) # <<>> /\ Head(StreamEvents(s)) = y /\ Tail(StreamEvents(s)) = t
    BY <2>3, <2>4
  <2>6. QED BY <1>12, <2>5 DEF t, y, rest
<1>13. QED BY <1>11, <1>12

(* An event is put into the queue once.                                    *)
LEMMA NotQueuedFresh ==
  ASSUME TypeOK, NEW e \in AllEvents, InQueue(e) = 0
  PROVE  Stream!Fresh(e)
<1> DEFINE S == Items \ Bearing(e)
           T == AllEvents \ {e}
           part == EventOn(S)
<1>1. queue \in Seq(Items) BY PlacesAreNat
<1>2. \A i \in 1 .. Len(queue) : queue[i] \notin Bearing(e) BY <1>1, CountPositive DEF InQueue
<1>3. queue \in Seq(S)
  <2>1. \A i \in 1 .. Len(queue) : queue[i] \in S BY <1>1, <1>2
  <2>2. Len(queue) \in Nat /\ queue = [i \in 1 .. Len(queue) |-> queue[i]] BY <1>1
  <2> HIDE DEF S
  <2>3. QED BY <2>1, <2>2
<1>4. part \in PartsOf(S, T)
  <2>1. \A item \in S : ~IsMarker(item) => item.event \in T
    BY DEF Items, IsMarker, Bearing
  <2> HIDE DEF S, T
  <2>2. <<>> \in Seq(T) OBVIOUS
  <2>3. \A x \in T : <<x>> \in Seq(T) OBVIOUS
  <2>4. \A item \in S : (IF IsMarker(item) THEN <<>> ELSE <<item.event>>) \in Seq(T)
    BY <2>1, <2>2, <2>3
  <2>5. QED BY <2>4 DEF EventOn, PartsOf
<1>5. e \notin T OBVIOUS
<1> HIDE DEF S, T
<1>6. StreamEvents(queue) = Collected(queue, part) BY <1>3, StreamCollects
<1>7. <<>> \in Seq(S) OBVIOUS
<1> HIDE DEF part
<1>8. Collected(queue, part) \in Seq(T) BY <1>3, <1>4, <1>7, CollectedConcat
<1> DEFINE backlog == StreamEvents(queue)
<1>9. backlog \in Seq(T) BY <1>6, <1>8
<1>10. Stream!Fresh(e) <=> \A i \in 1 .. Len(backlog) : backlog[i] # e BY DEF Stream!Fresh
<1> HIDE DEF backlog
<1>11. QED BY <1>5, <1>9, <1>10

(* The steps of a stream.                                                  *)
LEMMA StreamRests ==
  ASSUME UNCHANGED <<queue, delivered>>, Closing' <=> Closing, Ending' = Ending
  PROVE  UNCHANGED Stream!streamVars
<1>1. (stopRequested \/ runner = "done" \/ overtook)'
        = (stopRequested \/ runner = "done" \/ overtook)
  BY DEF Closing
<1>2. StreamEvents(queue)' = StreamEvents(queue)
  <2>1. StreamEvents(queue') = StreamEvents(queue) OBVIOUS
  <2>2. QED BY <2>1 DEF StreamEvents, IsMarker
<1>3. Ending' = Ending OBVIOUS
<1>4. QED BY <1>1, <1>2, <1>3 DEF Stream!streamVars, Ending

LEMMA StreamCloses ==
  ASSUME UNCHANGED delivered, StreamEvents(queue') = StreamEvents(queue), Closing',
         Ending' = Ending
  PROVE  Stream!Close
<1>1. (stopRequested \/ runner = "done" \/ overtook)' = TRUE BY DEF Closing
<1>2. StreamEvents(queue)' = StreamEvents(queue) BY DEF StreamEvents, IsMarker
<1>3. Ending' = Ending OBVIOUS
<1>4. QED BY <1>1, <1>2, <1>3 DEF Stream!Close, Ending

LEMMA StreamAccepts ==
  ASSUME TypeOK, NEW e \in AllEvents, InQueue(e) = 0, queue' = Append(queue, Item(e)),
         UNCHANGED delivered, Closing => Closing', Ending' = Ending
  PROVE  Stream!Accept(e)
<1>1. (stopRequested \/ runner = "done" \/ overtook)'
          \in {stopRequested \/ runner = "done" \/ overtook, TRUE}
  <2>1. CASE Closing' BY <2>1 DEF Closing
  <2>2. CASE ~Closing'
    <3>1. ~Closing BY <2>2
    <3>2. (stopRequested \/ runner = "done" \/ overtook)'
            = (stopRequested \/ runner = "done" \/ overtook)
      BY <2>2, <3>1 DEF Closing
    <3>3. QED BY <3>2
  <2>3. QED BY <2>1, <2>2
<1>2. queue \in Seq(Items) BY PlacesAreNat
<1>3. StreamEvents(queue') = Append(StreamEvents(queue), e) BY <1>2, StreamGets
<1>4. StreamEvents(queue)' = Append(StreamEvents(queue), e)
  BY <1>3 DEF StreamEvents, IsMarker
<1>5. Stream!Fresh(e) BY NotQueuedFresh
<1>6. Ending' = Ending OBVIOUS
<1>7. QED BY <1>1, <1>4, <1>5, <1>6 DEF Stream!Accept, Ending

LEMMA WokenSame ==
  ASSUME reader' = IF reader = "waiting" THEN "reading" ELSE reader
  PROVE  Ending' = Ending
BY DEF Ending

LEMMA RunnerEmitsStream ==
  ASSUME TypeOK, runner # "done", NEW e \in AllEvents, InQueue(e) = 0,
         NEW pc \in {"emitting", "emittingLast"}, RunnerEmits(e, pc),
         UNCHANGED <<stopRequested, delivered, overtook>>
  PROVE  Stream!Accept(e) \/ UNCHANGED Stream!streamVars
<1>1. CASE WaitForRoom(Runner) /\ runner' = pc /\ holding' = e
  <2>1. UNCHANGED <<queue, delivered>> /\ (Closing' <=> Closing) /\ Ending' = Ending
    BY <1>1 DEF WaitForRoom, Closing, Ending
  <2>2. QED BY <2>1, StreamRests
<1>2. CASE Put(Item(e), IF AfterEmission(pc) = "done" THEN TaskEnds("returned") ELSE <<>>)
  <2>1. queue' = Append(queue, Item(e)) /\ Ending' = Ending BY <1>2, WokenSame DEF Put
  <2>2. Closing => Closing' BY DEF Closing
  <2>3. QED BY <2>1, <2>2, StreamAccepts
<1>3. QED BY <1>1, <1>2 DEF RunnerEmits

(* What is made now has not been queued.                                   *)
LEMMA NewNotQueued ==
  ASSUME TypeOK, PlaceInv, NEW e \in AllEvents, e = Len(made) + 1
  PROVE  InQueue(e) = 0
<1>1. Len(made) \in Nat
  <2> DEFINE S == Payloads \cup {Synthetic, ErrorRaw}
  <2>1. made \in Seq(S) BY DEF TypeOK
  <2> HIDE DEF S
  <2>2. QED BY <2>1
<1>2. ~Final(e) BY <1>1 DEF Final, MadeEvents
<1>3. Total(e) = 0 BY <1>2 DEF PlaceInv, One
<1> DEFINE x == One(holding = e)
<1>4. /\ Gone(e) \in Nat /\ OnItsWay(e) \in Nat /\ Waits(e) \in Nat
      /\ InQueue(e) \in Nat /\ x \in Nat
  BY PlacesAreNat DEF One
<1>5. ((OnItsWay(e) + Waits(e)) + x) + (InQueue(e) + Gone(e)) = 0 BY <1>3 DEF Total
<1> HIDE DEF x
<1>6. \A a, b, c, d, f \in Nat : ((a + b) + c) + (d + f) = 0 => d = 0 OBVIOUS
<1>7. QED BY <1>4, <1>5, <1>6

LEMMA NextIsEvent ==
  ASSUME TypeOK, ControlInv, runner \in {"loop", "connected"}
  PROVE  Len(made) + 1 \in AllEvents
<1>1. Len(made) <= MaxMade + 0 BY DEF ControlInv, MadeInv, Attempting, One
<1>2. Len(made) \in Nat
  <2> DEFINE S == Payloads \cup {Synthetic, ErrorRaw}
  <2>1. made \in Seq(S) BY DEF TypeOK
  <2> HIDE DEF S
  <2>2. QED BY <2>1
<1>3. QED BY <1>1, <1>2, ConnectorAssumption DEF AllEvents

LEMMA MakesStream ==
  ASSUME TypeOK, ControlInv, PlaceInv,
         MockEmits \/ MissingDependency \/ CreateFails \/ ConnectionRaises
  PROVE  [Stream!StreamNext]_(Stream!streamVars)
<1> DEFINE e == Len(made) + 1
<1>1. PICK p \in {Synthetic, ErrorRaw}, pc \in {"emitting", "emittingLast"} : RunnerMakes(p, pc)
  BY DEF MockEmits, MissingDependency, CreateFails, ConnectionRaises
<1>2. runner \in {"loop", "connected"}
  BY DEF MockEmits, MissingDependency, CreateFails, ConnectionRaises, RunnerAt
<1>3. RunnerEmits(e, pc) /\ UNCHANGED <<stopRequested, delivered, overtook>>
  BY <1>1 DEF RunnerMakes, historyVars
<1>4. e \in AllEvents BY <1>2, NextIsEvent
<1>5. InQueue(e) = 0 BY <1>4, NewNotQueued
<1> HIDE DEF e
<1>6. Stream!Accept(e) \/ UNCHANGED Stream!streamVars BY <1>2, <1>3, <1>4, <1>5, RunnerEmitsStream
<1>7. QED BY <1>4, <1>6 DEF Stream!StreamNext

LEMMA ResumesStream ==
  ASSUME TypeOK, MarkerInv, PlaceInv, ResumesEmission
  PROVE  [Stream!StreamNext]_(Stream!streamVars)
<1>1. /\ runner \in {"emitting", "emittingLast"} /\ RunnerEmits(holding, runner)
      /\ UNCHANGED <<stopRequested, delivered, overtook>>
  BY DEF ResumesEmission, historyVars
<1>2. holding \in AllEvents BY <1>1 DEF MarkerInv, HoldInv, TypeOK
<1>3. InQueue(holding) = 0 BY <1>2, OnePlace
<1>4. Stream!Accept(holding) \/ UNCHANGED Stream!streamVars
  BY <1>1, <1>2, <1>3, RunnerEmitsStream
<1>5. QED BY <1>2, <1>4 DEF Stream!StreamNext

LEMMA RaisesStream ==
  ASSUME TypeOK, ControlInv, PlaceInv, ProducerRaises
  PROVE  [Stream!StreamNext]_(Stream!streamVars)
<1> DEFINE e == Len(made) + 1
<1>1. /\ runner = "loop" /\ runner' = "done" /\ UNCHANGED delivered
      /\ \/ Put(Item(e), TaskEnds("raised"))
         \/ UNCHANGED <<queue, reader>>
  BY DEF ProducerRaises, RunnerAt, historyVars
<1>2. e \in AllEvents BY <1>1, NextIsEvent
<1>3. Closing' BY <1>1 DEF Closing
<1>4. CASE Put(Item(e), TaskEnds("raised"))
  <2>1. queue' = Append(queue, Item(e)) /\ Ending' = Ending BY <1>4, WokenSame DEF Put
  <2>2. InQueue(e) = 0 BY <1>2, NewNotQueued
  <2> HIDE DEF e
  <2>3. Stream!Accept(e) BY <1>1, <1>2, <1>3, <2>1, <2>2, StreamAccepts
  <2>4. QED BY <1>2, <2>3 DEF Stream!StreamNext
<1>5. CASE UNCHANGED <<queue, reader>>
  <2>1. Ending' = Ending BY <1>5 DEF Ending
  <2>2. Stream!Close BY <1>1, <1>3, <1>5, <2>1, StreamCloses
  <2>3. QED BY <2>2 DEF Stream!StreamNext
<1>6. QED BY <1>1, <1>4, <1>5

LEMMA TaskStream ==
  ASSUME TypeOK, CreateClient \/ PreflightGoesOn \/ AttemptOver \/ RunnerCancelled \/ StopCancels
  PROVE  [Stream!StreamNext]_(Stream!streamVars)
<1>1. UNCHANGED <<queue, delivered, reader>>
  BY DEF CreateClient, PreflightGoesOn, AttemptOver, RunnerCancelled, StopCancels, historyVars
<1>2. Ending' = Ending BY <1>1 DEF Ending
<1>3. Closing' \/ (Closing' <=> Closing)
  BY DEF CreateClient, PreflightGoesOn, AttemptOver, RunnerAt, RunnerCancelled, StopCancels,
         Closing, historyVars
<1>4. CASE Closing'
  <2>1. Stream!Close BY <1>1, <1>2, <1>4, StreamCloses
  <2>2. QED BY <2>1 DEF Stream!StreamNext
<1>5. CASE Closing' <=> Closing
  <2>1. UNCHANGED Stream!streamVars BY <1>1, <1>2, <1>5, StreamRests
  <2>2. QED BY <2>1
<1>6. QED BY <1>3, <1>4, <1>5

LEMMA HandlerStream ==
  ASSUME TypeOK, PlaceInv, NEW f \in MadeEvents, HandlerEmits(f)
  PROVE  [Stream!StreamNext]_(Stream!streamVars)
<1>1. /\ ready # <<>> /\ Head(ready).who = "handler" /\ Head(ready).arg = f
      /\ Head(ready).on = 0 => ~IsIntermediateGiftStreak(made[f])
      /\ UNCHANGED <<delivered, stopRequested, runner, overtook>>
  BY DEF HandlerEmits, Handles, historyVars, taskVars
<1>2. ready \in Seq(Callbacks) /\ Head(ready) \in Callbacks
  <2>1. ready \in Seq(Callbacks) BY DEF TypeOK
  <2>2. QED BY <1>1, <2>1
<1>3. f \in AllEvents
  <2>1. Head(ready) \in Handlers BY <1>1, <1>2, CallbackKinds
  <2>2. QED BY <1>1, <2>1 DEF Handlers
<1>4. Closing' <=> Closing BY <1>1 DEF Closing
<1>5. CASE WaitForRoom(Callback("handler", f, run))
  <2>1. UNCHANGED <<queue, delivered>> /\ Ending' = Ending
    BY <1>1, <1>5 DEF WaitForRoom, Ending
  <2>2. UNCHANGED Stream!streamVars BY <1>4, <2>1, StreamRests
  <2>3. QED BY <2>2
<1>6. CASE Put(Item(f), <<>>)
  <2>1. queue' = Append(queue, Item(f)) /\ Ending' = Ending BY <1>6, WokenSame DEF Put
  <2>2. InQueue(f) = 0
    <3>1. Head(ready) \in Going(f) BY <1>1, <1>2 DEF Going, Sent, Intermediate
    <3>2. 1 \in 1 .. Len(ready) /\ ready[1] = Head(ready) BY <1>1, <1>2
    <3>3. OnItsWay(f) > 0 BY <1>2, <3>1, <3>2, CountPositive DEF OnItsWay
    <3>4. InQueue(f) > 0 => OnItsWay(f) = 0 BY <1>3, OnePlace
    <3>5. InQueue(f) \in Nat BY <1>3, PlacesAreNat
    <3>6. QED BY <3>3, <3>4, <3>5
  <2>3. Stream!Accept(f) BY <1>1, <1>3, <1>4, <2>1, <2>2, StreamAccepts
  <2>4. QED BY <1>3, <2>3 DEF Stream!StreamNext
<1>7. QED BY <1>5, <1>6 DEF HandlerEmits

(* A stop marker: the stream closes, and its oldest event may be lost.     *)
LEMMA WakeStream ==
  ASSUME TypeOK, NEW r \in 0 .. MaxStarts, NEW next, WakeEventConsumers(r, next),
         UNCHANGED delivered, Closing'
  PROVE  [Stream!StreamNext]_(Stream!streamVars)
<1>1. /\ queue' = Append(IF IsFull THEN Tail(queue) ELSE queue, Marker(r))
      /\ reader' = IF reader = "waiting" THEN "reading" ELSE reader
  BY DEF WakeEventConsumers
<1>2. Ending' = Ending BY <1>1, WokenSame
<1>3. queue \in Seq(Items) BY DEF TypeOK, Items
<1>4. CASE IsFull /\ ~IsMarker(Head(queue))
  <2>1. queue # <<>>
    <3>1. Len(<<>>) = 0 OBVIOUS
    <3>2. QED BY <1>4, <3>1, ConnectorAssumption DEF IsFull
  <2> DEFINE rest == Tail(queue)
  <2>2. rest \in Seq(Items) /\ queue' = Append(rest, Marker(r)) BY <1>1, <1>3, <1>4, <2>1
  <2>3. StreamEvents(queue) # <<>> /\ StreamEvents(rest) = Tail(StreamEvents(queue))
    BY <1>3, <1>4, <2>1, StreamLoses
  <2> HIDE DEF rest
  <2>4. StreamEvents(queue') = StreamEvents(rest) BY <2>2, StreamMarks
  <2>5. StreamEvents(queue)' = Tail(StreamEvents(queue))
    BY <2>3, <2>4 DEF StreamEvents, IsMarker
  <2>6. (stopRequested \/ runner = "done" \/ overtook)' = TRUE BY DEF Closing
  <2>7. Stream!Evict BY <1>2, <2>3, <2>5, <2>6 DEF Stream!Evict, Ending
  <2>8. QED BY <2>7 DEF Stream!StreamNext
<1>5. CASE ~(IsFull /\ ~IsMarker(Head(queue)))
  <2> DEFINE base == IF IsFull THEN Tail(queue) ELSE queue
  <2>1. base \in Seq(Items) /\ StreamEvents(base) = StreamEvents(queue)
    <3>1. CASE IsFull
      <4>1. queue # <<>>
        <5>1. Len(<<>>) = 0 OBVIOUS
        <5>2. QED BY <3>1, <5>1, ConnectorAssumption DEF IsFull
      <4>2. base = Tail(queue) BY <3>1
      <4> HIDE DEF base
      <4>3. Tail(queue) \in Seq(Items) BY <1>3, <4>1
      <4>4. StreamEvents(Tail(queue)) = StreamEvents(queue)
        BY <1>3, <1>5, <3>1, <4>1, StreamLoses
      <4>5. QED BY <4>2, <4>3, <4>4
    <3>2. CASE ~IsFull BY <1>3, <3>2
    <3>3. QED BY <3>1, <3>2
  <2>2. queue' = Append(base, Marker(r)) BY <1>1
  <2> HIDE DEF base
  <2>3. StreamEvents(queue') = StreamEvents(queue) BY <2>1, <2>2, StreamMarks
  <2>4. Stream!Close BY <1>2, <2>3, StreamCloses
  <2>5. QED BY <2>4 DEF Stream!StreamNext
<1>6. QED BY <1>4, <1>5

LEMMA MarkersStream ==
  ASSUME TypeOK, MarkerInv, OnTaskDone \/ StopMarks
  PROVE  [Stream!StreamNext]_(Stream!streamVars)
<1>1. CASE OnTaskDone
  <2>1. /\ ready # <<>> /\ Head(ready).who = "done" /\ WakeEventConsumers(Head(ready).on, <<>>)
        /\ UNCHANGED <<runner, delivered, overtook>>
    BY <1>1 DEF OnTaskDone, taskVars
  <2>2. Head(ready) \in Callbacks BY <2>1 DEF TypeOK
  <2>3. Head(ready).on \in 0 .. MaxStarts
    <3>1. Head(ready) \notin Handlers BY <2>1, CallbackKinds
    <3>2. Head(ready) \notin {Runner, Reader, Starter, Stopper} BY <2>1, CallbackKinds
    <3>3. QED BY <2>2, <3>1, <3>2 DEF Callbacks
  <2>4. runner = "done" \/ overtook
    <3>1. ready \in Seq(Callbacks) BY DEF TypeOK
    <3>2. Head(ready) \in Announced(ready) BY <2>1, <3>1, ElementsTail DEF Announced
    <3>3. QED BY <3>2 DEF MarkerInv, EndsInv, OwnEnd, OvertakenEnd
  <2>5. Closing' BY <2>1, <2>4 DEF Closing
  <2>6. QED BY <2>1, <2>3, <2>5, WakeStream
<1>2. CASE StopMarks
  <2>1. stopRequested' = TRUE /\ UNCHANGED delivered BY <1>2 DEF StopMarks
  <2>5. PICK next \in {<<>>, <<Starter>>} : WakeEventConsumers(run, next)
    BY <1>2 DEF StopMarks
  <2>2. run \in 0 .. MaxStarts BY DEF TypeOK
  <2>3. Closing' BY <2>1 DEF Closing
  <2>4. QED BY <2>1, <2>2, <2>3, <2>5, WakeStream
<1>3. QED BY <1>1, <1>2

LEMMA StartStream ==
  ASSUME TypeOK, MarkerInv, Start
  PROVE  [Stream!StreamNext]_(Stream!streamVars)
<1>1. /\ queue' = <<>> /\ stopRequested' = FALSE /\ runner' = "loop" /\ reader' = "idle"
      /\ UNCHANGED delivered
  BY DEF Start, NewQueue
<1>2. StreamEvents(queue)' = <<>>
  <2>1. StreamEvents(<<>>) = <<>>
    <3>1. <<>> \in Seq(Items) OBVIOUS
    <3>2. StreamEvents(<<>>) = Collected(<<>>, EventOn(Items)) BY <3>1, StreamCollects
    <3>3. QED BY <3>2, CollectedNone
  <2>2. StreamEvents(queue') = <<>> BY <1>1, <2>1
  <2>3. QED BY <2>2 DEF StreamEvents, IsMarker
<1>3. (stopRequested \/ runner = "done" \/ overtook)'
        \in {stopRequested \/ runner = "done" \/ overtook, FALSE}
  <2>1. CASE overtook'
    <3>1. Announced(ready) # {} BY <2>1 DEF Start, Announced, Elements
    <3>2. Closing BY <3>1 DEF MarkerInv, EndsInv, OwnEnd, OvertakenEnd, Closing
    <3>3. (stopRequested \/ runner = "done" \/ overtook)' = TRUE BY <2>1
    <3>4. (stopRequested \/ runner = "done" \/ overtook) = TRUE BY <3>2 DEF Closing
    <3>5. QED BY <3>3, <3>4
  <2>2. CASE ~overtook'
    <3>1. (stopRequested \/ runner = "done" \/ overtook)' = FALSE BY <1>1, <2>2
    <3>2. QED BY <3>1
  <2>3. QED BY <2>1, <2>2
<1>4. Stream!Open BY <1>1, <1>2, <1>3 DEF Stream!Open
<1>5. QED BY <1>4 DEF Stream!StreamNext

(* The reader reads only while its stream is open, and a marker that it    *)
(* finds closes the stream.                                                *)
LEMMA ReaderReads ==
  ASSUME TypeOK, ControlInv, Runs(Reader)
  PROVE  reader = "reading" /\ Ending = "open"
<1>1. ready # <<>> /\ Head(ready).who = "reader" BY CallbackKinds DEF Runs
<1>2. N("reader") > 0 BY <1>1, HeadsCount
<1>3. reader = "reading" BY <1>2, RunnerCounts DEF ControlInv, ReaderInv, One
<1>4. QED BY <1>3 DEF Ending

LEMMA ReaderStream ==
  ASSUME TypeOK, ControlInv, MarkerInv, ReaderWaits \/ ReaderTakes \/ ReaderEnds
  PROVE  [Stream!StreamNext]_(Stream!streamVars)
<1>1. Runs(Reader) /\ UNCHANGED <<stopRequested, runner, overtook>>
  BY DEF ReaderWaits, ReaderTakes, ReaderEnds, taskVars, historyVars
<1>2. Ending = "open" BY <1>1, ReaderReads
<1>3. (Closing' <=> Closing)
      /\ (stopRequested \/ runner = "done" \/ overtook)'
           = (stopRequested \/ runner = "done" \/ overtook)
  BY <1>1 DEF Closing
<1>4. queue \in Seq(Items) BY DEF TypeOK, Items
<1>5. CASE ReaderWaits
  <2>1. UNCHANGED <<queue, delivered>> /\ Ending' = "open"
    BY <1>5 DEF ReaderWaits, historyVars, Ending
  <2>2. UNCHANGED Stream!streamVars BY <1>2, <1>3, <2>1, StreamRests
  <2>3. QED BY <2>2
<1>6. CASE ReaderTakes
  <2>1. /\ queue # <<>> /\ ~IsMarker(Head(queue)) /\ queue' = Tail(queue)
        /\ delivered' = Append(delivered, Head(queue).event)
        /\ Ending' = "open"
    BY <1>6 DEF ReaderTakes, Ending
  <2>2. /\ StreamEvents(queue) # <<>> /\ Head(StreamEvents(queue)) = Head(queue).event
        /\ StreamEvents(Tail(queue)) = Tail(StreamEvents(queue))
    BY <1>4, <2>1, StreamLoses
  <2>3. StreamEvents(queue') = Tail(StreamEvents(queue)) BY <2>1, <2>2
  <2>4. StreamEvents(queue)' = Tail(StreamEvents(queue)) BY <2>3 DEF StreamEvents, IsMarker
  <2>5. delivered' = Append(delivered, Head(StreamEvents(queue))) BY <2>1, <2>2
  <2>6. Stream!Give BY <1>2, <1>3, <2>1, <2>2, <2>4, <2>5 DEF Stream!Give, Ending
  <2>7. QED BY <2>6 DEF Stream!StreamNext
<1>7. CASE ReaderEnds
  <2>1. /\ queue # <<>> /\ IsMarker(Head(queue)) /\ queue' = Tail(queue)
        /\ UNCHANGED delivered /\ reader' \in {"ended", "failed"}
    BY <1>7 DEF ReaderEnds, historyVars
  <2>2. StreamEvents(queue') = StreamEvents(queue) BY <1>4, <2>1, StreamLoses
  <2>3. StreamEvents(queue)' = StreamEvents(queue) BY <2>2 DEF StreamEvents, IsMarker
  <2>4. Ending' \in {"ended", "failed"} BY <2>1 DEF Ending
  <2>5. Closing
    <3>1. 1 \in 1 .. Len(queue) /\ queue[1] = Head(queue) BY <1>4, <2>1
    <3>2. \E i \in 1 .. Len(queue) : IsMarker(queue[i]) BY <2>1, <3>1
    <3>3. QED BY <3>2 DEF MarkerInv, TakenInv, MarkerQueued, Closing
  <2>6. Stream!End BY <1>2, <1>3, <2>1, <2>3, <2>4, <2>5 DEF Stream!End, Ending, Closing
  <2>7. QED BY <2>6 DEF Stream!StreamNext
<1>8. QED BY <1>5, <1>6, <1>7

(* The other steps leave the stream alone.                                 *)
LEMMA OthersStream ==
  ASSUME TypeOK, ControlInv,
         \/ \E f \in MadeEvents : HandlerSkips(f) \/ HandlerPutsAside(f)
         \/ StartReturns \/ StopDisconnects \/ DisconnectRaises \/ Outside \/ AllQuiet
  PROVE  UNCHANGED Stream!streamVars
<1>1. UNCHANGED <<queue, delivered, stopRequested, overtook>>
  BY DEF HandlerSkips, HandlerPutsAside, StartReturns, StopDisconnects, DisconnectRaises,
         Outside, OwnerCalls, DisconnectReturns, ReaderBegins, BodyReturns, TimerFires,
         PreflightAnswers,
         ConnectionCloses, ClientReports, Wakes, AllQuiet, vars, historyVars
<1>2. runner' = runner \/ TimerFires
  BY DEF HandlerSkips, HandlerPutsAside, StartReturns, StopDisconnects, DisconnectRaises,
         Outside, OwnerCalls, DisconnectReturns, ReaderBegins, BodyReturns, PreflightAnswers,
         ConnectionCloses, ClientReports, Wakes, AllQuiet, vars, taskVars
<1>3. Closing' <=> Closing BY <1>1, <1>2 DEF TimerFires, Closing
<1>4. reader' = reader \/ ReaderBegins \/ BodyReturns
  BY DEF HandlerSkips, HandlerPutsAside, StartReturns, StopDisconnects, DisconnectRaises,
         Outside, OwnerCalls, DisconnectReturns, TimerFires, PreflightAnswers,
         ConnectionCloses, ClientReports, Wakes, AllQuiet, vars
<1>5. Ending' = Ending BY <1>4 DEF ReaderBegins, BodyReturns, Ending
<1>6. QED BY <1>1, <1>3, <1>5, StreamRests

LEMMA StepStream ==
  ASSUME TypeOK, ControlInv, MarkerInv, PlaceInv, [Next]_vars
  PROVE  [Stream!StreamNext]_(Stream!streamVars)
<1>1. CASE RunnerStep \/ StopCancels
  BY <1>1, MakesStream, ResumesStream, RaisesStream, TaskStream DEF RunnerStep
<1>2. CASE OnTaskDone \/ StopMarks BY <1>2, MarkersStream
<1>3. CASE \E e \in MadeEvents : HandlerEmits(e) BY <1>3, HandlerStream
<1>4. CASE Start BY <1>4, StartStream
<1>5. CASE ReaderWaits \/ ReaderTakes \/ ReaderEnds BY <1>5, ReaderStream
<1>6. CASE \/ \E f \in MadeEvents : HandlerSkips(f) \/ HandlerPutsAside(f)
           \/ StartReturns \/ StopDisconnects \/ DisconnectRaises \/ Outside \/ AllQuiet
  <2>1. UNCHANGED Stream!streamVars BY <1>6, OthersStream
  <2>2. QED BY <2>1
<1>7. CASE UNCHANGED vars
  <2>1. UNCHANGED <<queue, delivered, stopRequested, runner, reader, overtook>>
    BY <1>7 DEF vars, taskVars, historyVars
  <2>2. (Closing' <=> Closing) /\ Ending' = Ending BY <2>1 DEF Closing, Ending
  <2>3. UNCHANGED Stream!streamVars BY <2>1, <2>2, StreamRests
  <2>4. QED BY <2>3
<1>8. QED BY <1>1, <1>2, <1>3, <1>4, <1>5, <1>6, <1>7 DEF Next, LoopStep

(* Whoever iterates over events() sees a plain stream: the event loop, the *)
(* waiting emitters, the cancelled task and the stop markers of base.py    *)
(* give every accepted event once, in order, lose only the oldest, and     *)
(* only while the stream closes, and end it only when it has closed: when  *)
(* its producer has ended, when stop() was called, or when start() came    *)
(* before _on_task_done had announced the end of the run before.           *)
THEOREM StreamIsImplemented == Spec => ImplementsStream
<1>1. Init => Stream!StreamInit
  <2> SUFFICES ASSUME Init PROVE Stream!StreamInit OBVIOUS
  <2>1. /\ queue = <<>> /\ delivered = <<>> /\ stopRequested = FALSE /\ runner = "none"
        /\ reader = "idle" /\ overtook = FALSE
    BY DEF Init
  <2>2. StreamEvents(queue) = <<>>
    <3>1. <<>> \in Seq(Items) OBVIOUS
    <3>2. StreamEvents(<<>>) = Collected(<<>>, EventOn(Items)) BY <3>1, StreamCollects
    <3>3. QED BY <2>1, <3>2, CollectedNone
  <2>3. (stopRequested \/ runner = "done" \/ overtook) = FALSE BY <2>1
  <2>4. QED BY <2>1, <2>2, <2>3 DEF Stream!StreamInit
<1>2. TypeOK /\ ControlInv /\ MarkerInv /\ PlaceInv /\ [Next]_vars
      => [Stream!StreamNext]_(Stream!streamVars)
  BY StepStream
<1>3. QED BY <1>1, <1>2, PlaceInvariant, PTL DEF Spec, ImplementsStream, Stream!StreamSpec
=============================================================================
