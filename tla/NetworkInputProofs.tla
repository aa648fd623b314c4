------------------------- MODULE NetworkInputProofs -------------------------
(***************************************************************************)
(* Proofs about NetworkInput, for any number of datagrams: types, the      *)
(* exclusive access to the queue, and who closes the socket.               *)
(***************************************************************************)
EXTENDS NetworkInput, DataLemmas

(* Every variable keeps its type, and only messages that were understood   *)
(* are queued.                                                             *)
THEOREM TypeCorrect == Spec => []TypeOK
<1>1. Init => TypeOK
  <2> SUFFICES ASSUME Init PROVE TypeOK
    OBVIOUS
  <2>1. /\ 0 \in 0 .. MaxDatagrams
        /\ <<>> \in Seq(Datagrams) /\ <<>> \in Seq(Commands)
    BY DatagramsAssumption
  <2> QED
    BY <2>1 DEF Init, TypeOK
<1>2. TypeOK /\ [Next]_vars => TypeOK'
  <2> SUFFICES ASSUME TypeOK, [Next]_vars PROVE TypeOK'
    OBVIOUS
  <2> USE DEF TypeOK, netVars, sockVars, queueVars, pollVars, threadVars
  <2>1. CASE Send
    <3>1. sends' \in Datagrams /\ sends' \in 0 .. MaxDatagrams
      BY <2>1, DatagramsAssumption DEF Send, Datagrams
    <3>2. PICK e \in Datagrams : e = sends'
      BY <3>1
    <3>3. wire' = Append(wire, e) \/ wire' = wire
      BY <2>1, <3>2 DEF Send
    <3>4. wire \in Seq(Datagrams)
      OBVIOUS
    <3> HIDE DEF TypeOK
    <3>5. wire' \in Seq(Datagrams)
      BY <3>3, <3>4
    <3> QED
      BY <2>1, <3>1, <3>5 DEF Send, Commands, TypeOK
  <2>2. CASE ReuseDescriptor \/ UNCHANGED vars
    BY <2>2 DEF ReuseDescriptor, vars, Commands
  <2>3. CASE OpenSocket \/ StoreSocket \/ Bind
    BY <2>3 DEF OpenSocket, StoreSocket, Bind, Commands
  <2>4. CASE TestRunning \/ SelectReturns \/ SelectFails
    BY <2>4 DEF TestRunning, SelectReturns, SelectFails, Commands
  <2>5. CASE Start \/ Stop
    BY <2>5 DEF Start, Stop, Commands
  <2>6. CASE Receive
    BY <2>6 DEF Receive, Understood, Commands
  <2>7. CASE ReceiveFails
    BY <2>7 DEF ReceiveFails, Commands
  <2>8. CASE LockToPush
    BY <2>8 DEF LockToPush, Commands
  <2>9. CASE Push
    BY <2>9 DEF Push, Commands
  <2>10. CASE ExchangeAtEnd
    BY <2>10 DEF ExchangeAtEnd, TakeSocket, AfterLoop, Commands
  <2>11. CASE CloseAtEnd
    BY <2>11 DEF CloseAtEnd, Close, Commands
  <2>12. CASE LockToPoll
    BY <2>12 DEF LockToPoll, Commands
  <2>13. CASE DrainOne
    BY <2>13 DEF DrainOne, Commands
  <2>14. CASE UnlockAfterPoll
    BY <2>14 DEF UnlockAfterPoll, Commands
  <2>15. CASE FilterOne
    BY <2>15 DEF FilterOne, DeliveredNext, Commands
  <2>16. CASE PollReturns
    BY <2>16 DEF PollReturns, Commands
  <2>17. CASE ExchangeInStop
    BY <2>17 DEF ExchangeInStop, TakeSocket, Commands
  <2>18. CASE CloseInStop
    BY <2>18 DEF CloseInStop, Close, Commands
  <2>19. CASE Join
    BY <2>19 DEF Join, Commands
  <2> QED
    BY <2>1, <2>2, <2>3, <2>4, <2>5, <2>6, <2>7, <2>8, <2>9, <2>10, <2>11, <2>12,
       <2>13, <2>14, <2>15, <2>16, <2>17, <2>18, <2>19
    DEF Next, Listen, Poll, FinishStop, Gone
<1> QED
  BY <1>1, <1>2, PTL DEF Spec

-----------------------------------------------------------------------------
(* The queue *)

(* A thread is inside the queue exactly while it holds the mutex; start    *)
(* creates the only other thread.                                          *)
MutexInv ==
  /\ mutex = "worker" <=> worker = "push"
  /\ mutex = "game" <=> game = "draining"
  /\ game = "new" => worker = "none"

(* enqueue and poll never touch the queue at the same time, whatever the   *)
(* interleaving of their steps.                                            *)
THEOREM QueueIsExclusive == Spec => []QueueExclusive
<1>1. Init => MutexInv
  BY DEF Init, MutexInv
<1>2. TypeOK /\ MutexInv /\ [Next]_vars => MutexInv'
  <2> SUFFICES ASSUME TypeOK, MutexInv, [Next]_vars PROVE MutexInv'
    OBVIOUS
  <2> USE DEF MutexInv, netVars, sockVars, queueVars, pollVars, threadVars
  <2>1. CASE Listen \/ SelectFails
    BY <2>1 DEF Listen, OpenSocket, StoreSocket, Bind, TestRunning, SelectReturns,
       SelectFails, Receive, ReceiveFails, LockToPush, MutexFree, Push, ExchangeAtEnd,
       AfterLoop, CloseAtEnd
  <2>2. CASE Poll
    BY <2>2 DEF Poll, LockToPoll, MutexFree, DrainOne, UnlockAfterPoll, FilterOne,
       PollReturns
  <2>3. CASE Start \/ Stop
    BY <2>3 DEF Start, Stop
  <2>4. CASE Send \/ ReuseDescriptor \/ Gone \/ UNCHANGED vars
    BY <2>4 DEF Send, ReuseDescriptor, Gone, vars
  <2>5. CASE FinishStop
    BY <2>5 DEF FinishStop, ExchangeInStop, CloseInStop, Join
  <2> QED
    BY <2>1, <2>2, <2>3, <2>4, <2>5 DEF Next
<1>3. MutexInv => QueueExclusive
  BY DEF MutexInv, QueueExclusive
<1> QED
  BY <1>1, <1>2, <1>3, TypeCorrect, PTL DEF Spec

-----------------------------------------------------------------------------
(* The socket *)

(* An open socket always has exactly one party that will close it: the     *)
(* thread before it has published the descriptor, whoever exchanges the    *)
(* published descriptor, or the one that has exchanged it.                 *)
SocketInv ==
  /\ desc = "open" =>
       worker \in {"store", "close"} \/ socketFd \/ game = "close"
  /\ socketFd => /\ desc = "open"
                 /\ worker \notin {"none", "begin", "store", "close", "ended"}
                 /\ game # "close"
  /\ worker = "begin" => desc = "none"
  /\ worker \in {"store", "close"} => desc = "open" /\ game # "close"
  /\ game = "close" => desc = "open" /\ worker \notin {"none", "begin"}
  /\ game \in {"new", "stopped"} => worker = "none"
  /\ game = "new" => desc = "none"

LEMMA SocketInvariance == Spec => []SocketInv
<1>1. Init => SocketInv
  BY DEF Init, SocketInv
<1>2. TypeOK /\ SocketInv /\ [Next]_vars => SocketInv'
  <2> SUFFICES ASSUME TypeOK, SocketInv, [Next]_vars PROVE SocketInv'
    OBVIOUS
  <2> USE DEF SocketInv, netVars, sockVars, queueVars, pollVars, threadVars
  <2>1. socketFd \in BOOLEAN
    BY DEF TypeOK
  <2>2. CASE OpenSocket \/ StoreSocket \/ Bind
    BY <2>1, <2>2 DEF OpenSocket, StoreSocket, Bind
  <2>3. CASE TestRunning \/ SelectReturns \/ SelectFails
    BY <2>1, <2>3 DEF TestRunning, SelectReturns, SelectFails
  <2>4. CASE Receive \/ ReceiveFails \/ LockToPush \/ Push
    BY <2>1, <2>4 DEF Receive, ReceiveFails, LockToPush, Push
  <2>5. CASE ExchangeAtEnd
    BY <2>1, <2>5 DEF ExchangeAtEnd, AfterLoop, TakeSocket
  <2>6. CASE CloseAtEnd
    BY <2>1, <2>6 DEF CloseAtEnd, Close
  <2>7. CASE Poll
    BY <2>1, <2>7 DEF Poll, LockToPoll, DrainOne, UnlockAfterPoll, FilterOne, PollReturns
  <2>8. CASE Start \/ Stop
    BY <2>1, <2>8 DEF Start, Stop
  <2>9. CASE ExchangeInStop
    BY <2>1, <2>9 DEF ExchangeInStop, TakeSocket
  <2>10. CASE CloseInStop
    BY <2>1, <2>10 DEF CloseInStop, Close
  <2>11. CASE Join
    BY <2>1, <2>11 DEF Join
  <2>12. CASE Send \/ ReuseDescriptor \/ Gone \/ UNCHANGED vars
    BY <2>1, <2>12 DEF Send, ReuseDescriptor, Gone, vars
  <2> QED
    BY <2>2, <2>3, <2>4, <2>5, <2>6, <2>7, <2>8, <2>9, <2>10, <2>11, <2>12
    DEF Next, Listen, FinishStop
<1> QED
  BY <1>1, <1>2, TypeCorrect, PTL DEF Spec

(* Whatever stop meets, a descriptor is closed once and while it is the    *)
(* adapter's own.                                                          *)
THEOREM OwnSocketClosed == Spec => []ClosesOwnSocket
<1>1. SocketInv => ClosesOwnSocket
  BY DEF SocketInv, ClosesOwnSocket
<1> QED
  BY <1>1, SocketInvariance, PTL

(* When stop has returned there is neither a thread nor an open socket.    *)
THEOREM NoLeaks == Spec => []NothingLeaks
<1>1. SocketInv => NothingLeaks
  BY DEF SocketInv, NothingLeaks
<1> QED
  BY <1>1, SocketInvariance, PTL

-----------------------------------------------------------------------------
(* What the game gets *)

(* What each command contributes to the commands that are meant.           *)
Kept == [n \in Commands |-> IF Meant(n) THEN <<n>> ELSE <<>>]

LEMMA KeptCommands ==
  /\ Kept \in PartsOf(Commands, Commands)
  /\ \A s \in Seq(Commands) : MeantOf(s) = Collected(s, Kept)
<1>1. Kept \in PartsOf(Commands, Commands)
  <2>1. <<>> \in Seq(Commands) OBVIOUS
  <2>2. \A n \in Commands : <<n>> \in Seq(Commands) OBVIOUS
  <2> DEFINE lists == Seq(Commands)
             none == <<>>
  <2>3. Kept = [n \in Commands |-> IF Meant(n) THEN <<n>> ELSE none] BY DEF Kept
  <2>4. none \in lists /\ \A n \in Commands : <<n>> \in lists BY <2>1, <2>2
  <2> HIDE DEF lists, none
  <2>5. Kept \in [Commands -> lists] BY <2>3, <2>4
  <2>6. QED BY <2>5 DEF PartsOf, lists
<1>2. ASSUME NEW s \in Seq(Commands) PROVE MeantOf(s) = Collected(s, Kept)
  <2>1. \A i \in 1 .. Len(s) : s[i] \in Commands OBVIOUS
  <2>2. \A i \in 1 .. Len(s) : Kept[s[i]] = IF Meant(s[i]) THEN <<s[i]>> ELSE <<>>
    BY <2>1 DEF Kept
  <2>3. [i \in 1 .. Len(s) |-> IF Meant(s[i]) THEN <<s[i]>> ELSE <<>>] =
          [i \in 1 .. Len(s) |-> Kept[s[i]]]
    BY <2>2
  <2>4. QED BY <2>3 DEF MeantOf, Collected
<1>3. QED BY <1>1, <1>2

(* The parser and the check of the towers read every message as the        *)
(* protocol describes it: what MCNetworkInput's messages are examples of.  *)
ParsesAsDocumented ==
  \A c \in Contents :
    Means[c] = IF CommandMatchesTowerCount(Parsed(c), TowerCount) THEN Parsed(c) ELSE NoCommand

LEMMA FitsIsMeant ==
  ASSUME ParsesAsDocumented, TypeOK, NEW n \in Commands
  PROVE  /\ Fits(n) <=> Meant(n)
         /\ Fits(n) => Parsed(contents[n]) = Means[contents[n]]
<1>1. contents[n] \in Contents BY DEF TypeOK, Commands
<1> DEFINE c == contents[n]
<1>2. Fits(n) <=> CommandMatchesTowerCount(Parsed(c), TowerCount)
  BY <1>1 DEF Fits, FittingContents
<1>3. ~CommandMatchesTowerCount(NoCommand, TowerCount)
  BY DEF CommandMatchesTowerCount, NoCommand, Command
<1>4. Means[c] = IF CommandMatchesTowerCount(Parsed(c), TowerCount) THEN Parsed(c) ELSE NoCommand
  BY <1>1 DEF ParsesAsDocumented
<1>5. Meant(n) <=> Means[c] # NoCommand BY DEF Meant
<1> HIDE DEF c
<1>6. CASE CommandMatchesTowerCount(Parsed(c), TowerCount)
  <2>1. Parsed(c) # NoCommand BY <1>3, <1>6
  <2>2. QED BY <1>2, <1>4, <1>5, <1>6, <2>1 DEF c
<1>7. CASE ~CommandMatchesTowerCount(Parsed(c), TowerCount)
  BY <1>2, <1>4, <1>5, <1>7
<1>8. QED BY <1>6, <1>7

GetsInv ==
  /\ Collected(accepted, Kept) = delivered \o Collected(batch \o queue, Kept)
  /\ \A i \in 1 .. Len(delivered) : contents[delivered[i]] \in FittingContents

LEMMA PushGets ==
  ASSUME TypeOK, GetsInv, Push, Kept' = Kept
  PROVE  Collected(accepted', Kept') = delivered' \o Collected(batch' \o queue', Kept')
<1> DEFINE S == Commands
           held == batch \o queue
           one == Kept[received]
<1>1. /\ received \in S /\ queue \in Seq(S) /\ accepted \in Seq(S)
      /\ batch \in Seq(S) /\ delivered \in Seq(S)
      /\ queue' = Append(queue, received) /\ accepted' = Append(accepted, received)
      /\ batch' = batch /\ delivered' = delivered
  BY DEF TypeOK, Push, pollVars
<1>2. Kept \in PartsOf(S, S) BY KeptCommands
<1>3. Collected(accepted, Kept) = delivered \o Collected(held, Kept) BY DEF GetsInv
<1> HIDE DEF S
<1>4. held \in Seq(S) /\ batch \o Append(queue, received) = Append(held, received)
  <2>1. \A s, t \in Seq(S) : \A x \in S : s \o Append(t, x) = Append(s \o t, x)
    <3> TAKE s, t \in Seq(S)
    <3> TAKE x \in S
    <3>1. QED OBVIOUS
  <2>2. QED BY <1>1, <2>1
<1> HIDE DEF held, one
<1>5. Collected(Append(held, received), Kept) = Collected(held, Kept) \o one
  BY <1>1, <1>2, <1>4, CollectedAppend DEF one
<1>6. Collected(Append(accepted, received), Kept) = Collected(accepted, Kept) \o one
  BY <1>1, <1>2, CollectedAppend DEF one
<1>7. Collected(held, Kept) \in Seq(S) BY <1>2, <1>4, CollectedConcat
<1>8. one \in Seq(S) BY <1>1, <1>2 DEF one, PartsOf
<1>9. (delivered \o Collected(held, Kept)) \o one = delivered \o (Collected(held, Kept) \o one)
  <2>1. \A r, s, t \in Seq(S) : (r \o s) \o t = r \o (s \o t) BY ConcatAssociative
  <2>2. QED BY <1>1, <1>7, <1>8, <2>1
<1>10. batch' \o queue' = Append(held, received) BY <1>1, <1>4
<1>11. QED BY <1>1, <1>3, <1>5, <1>6, <1>9, <1>10

LEMMA FilterGets ==
  ASSUME ParsesAsDocumented, TypeOK, GetsInv, FilterOne, Kept' = Kept, UNCHANGED contents
  PROVE  GetsInv'
<1> DEFINE S == Commands
           h == Head(batch)
           rest == Tail(batch) \o queue
<1>1. /\ queue \in Seq(S) /\ accepted \in Seq(S) /\ batch \in Seq(S) /\ delivered \in Seq(S)
      /\ batch # <<>> /\ batch' = Tail(batch)
      /\ delivered' = IF Fits(h) THEN Append(delivered, h) ELSE delivered
      /\ accepted' = accepted /\ queue' = queue
  BY DEF TypeOK, FilterOne, queueVars, DeliveredNext
<1>2. Kept \in PartsOf(S, S) BY KeptCommands
<1>3. /\ Collected(accepted, Kept) = delivered \o Collected(batch \o queue, Kept)
      /\ \A i \in 1 .. Len(delivered) : Fits(delivered[i])
  BY DEF GetsInv, Fits
<1>4. h \in Commands BY <1>1
<1>5. Kept[h] = IF Fits(h) THEN <<h>> ELSE <<>> BY <1>4, FitsIsMeant DEF Kept
<1> HIDE DEF S
<1>6. rest \in Seq(S) /\ batch \o queue = <<h>> \o rest /\ <<h>> \in Seq(S)
  <2>1. Tail(batch) \in Seq(S) /\ <<h>> \in Seq(S) /\ batch = <<h>> \o Tail(batch)
    BY <1>1
  <2> HIDE DEF h
  <2>3. (<<h>> \o Tail(batch)) \o queue = <<h>> \o (Tail(batch) \o queue)
    <3> DEFINE first == <<h>>
               tail == Tail(batch)
    <3>1. first \in Seq(S) /\ tail \in Seq(S) BY <2>1
    <3> HIDE DEF first, tail
    <3>4. queue \in Seq(S) BY <1>1
    <3>2. (first \o tail) \o queue = first \o (tail \o queue) BY <3>1, <3>4, ConcatThree
    <3>3. QED BY <3>2 DEF first, tail
  <2>4. rest \in Seq(S) BY <1>1, <2>1
  <2>5. QED BY <2>1, <2>3, <2>4
<1>7. h \in S BY <1>4 DEF S
<1> HIDE DEF h, rest
<1>8. Collected(<<h>> \o rest, Kept) = Kept[h] \o Collected(rest, Kept)
  <2>1. rest \in Seq(S) BY <1>6
  <2>2. QED BY <1>2, <1>7, <2>1, CollectedPrefix
<1>9. Collected(rest, Kept) \in Seq(S) BY <1>2, <1>6, CollectedConcat
<1> DEFINE tail == Collected(rest, Kept)
<1>10. Collected(accepted, Kept) = delivered \o (Kept[h] \o tail) BY <1>3, <1>6, <1>8
<1>11. tail \in Seq(S) BY <1>9
<1>12. batch' \o queue' = rest BY <1>1 DEF rest
<1> HIDE DEF tail
<1>13. delivered \o (Kept[h] \o tail) = delivered' \o tail
  <2>1. CASE Fits(h)
    <3>1. Kept[h] = <<h>> /\ delivered' = Append(delivered, h) BY <1>1, <1>5, <2>1 DEF h
    <3>2. \A s, t \in Seq(S) : \A x \in S : s \o (<<x>> \o t) = Append(s, x) \o t
      <4> TAKE s, t \in Seq(S)
      <4> TAKE x \in S
      <4>1. QED OBVIOUS
    <3>3. QED BY <1>1, <1>7, <1>11, <3>1, <3>2
  <2>2. CASE ~Fits(h)
    <3>1. Kept[h] = <<>> /\ delivered' = delivered BY <1>1, <1>5, <2>2 DEF h
    <3>2. <<>> \o tail = tail BY <1>11
    <3>3. QED BY <3>1, <3>2
  <2>3. QED BY <2>1, <2>2
<1>14. Collected(accepted', Kept') = delivered' \o Collected(batch' \o queue', Kept')
  BY <1>1, <1>10, <1>12, <1>13 DEF tail
<1>15. \A i \in 1 .. Len(delivered') : Fits(delivered'[i])
  <2>1. CASE Fits(h)
    <3>1. delivered' = Append(delivered, h) BY <1>1, <2>1 DEF h
    <3>2. /\ Len(delivered) \in Nat /\ Len(delivered') = Len(delivered) + 1
          /\ \A i \in 1 .. Len(delivered) : delivered'[i] = delivered[i]
          /\ delivered'[Len(delivered) + 1] = h
      BY <1>1, <1>7, <3>1
    <3>3. \A i \in 1 .. Len(delivered') : i \in 1 .. Len(delivered) \/ i = Len(delivered) + 1
      BY <3>2
    <3>4. QED BY <1>3, <2>1, <3>2, <3>3
  <2>2. CASE ~Fits(h) BY <1>1, <1>3, <2>2 DEF h
  <2>3. QED BY <2>1, <2>2
<1>16. \A i \in 1 .. Len(delivered') : contents[delivered'[i]] \in FittingContents
  BY <1>15 DEF Fits
<1>17. QED BY <1>14, <1>16 DEF GetsInv

(* Whatever the interleaving of the two threads: the game is given exactly *)
(* the commands that the protocol means, in the order in which they were   *)
(* queued, if the parser reads each message as documented (TikTokAdapter:  *)
(* enqueue, poll).                                                         *)
THEOREM GameIsGivenAll == ParsesAsDocumented => (Spec => []GameGetsAll)
<1> SUFFICES ASSUME ParsesAsDocumented PROVE Spec => []GameGetsAll
  OBVIOUS
<1>1. Init => GetsInv
  <2> SUFFICES ASSUME Init PROVE GetsInv OBVIOUS
  <2>1. batch \o queue = <<>> /\ accepted = <<>> /\ delivered = <<>> BY DEF Init
  <2>2. Collected(<<>>, Kept) = <<>> BY CollectedNone
  <2>3. Len(<<>>) = 0 /\ <<>> \o <<>> = <<>> OBVIOUS
  <2>4. QED BY <2>1, <2>2, <2>3 DEF GetsInv
<1>2. TypeOK /\ GetsInv /\ [Next]_vars => GetsInv'
  <2> SUFFICES ASSUME TypeOK, GetsInv, [Next]_vars PROVE GetsInv'
    OBVIOUS
  <2> USE DEF netVars, sockVars, queueVars, pollVars, threadVars
  <2>1. contents' = contents
    BY DEF Next, Send, ReuseDescriptor, Listen, OpenSocket, StoreSocket, Bind, TestRunning,
       SelectReturns, SelectFails, Receive, ReceiveFails, LockToPush, Push, ExchangeAtEnd,
       CloseAtEnd, Start, Poll, LockToPoll, DrainOne, UnlockAfterPoll, FilterOne, PollReturns,
       Stop, FinishStop, ExchangeInStop, CloseInStop, Join, Gone, vars
  <2>2. Kept' = Kept BY <2>1 DEF Kept, Commands, Meant
  <2>3. ASSUME UNCHANGED <<accepted, delivered, batch \o queue>> PROVE GetsInv'
    BY <2>1, <2>2, <2>3 DEF GetsInv
  <2>4. CASE Push
    <3>1. delivered' = delivered BY <2>4 DEF Push
    <3>2. QED BY <2>1, <2>2, <2>4, <3>1, PushGets DEF GetsInv
  <2>5. CASE FilterOne BY <2>1, <2>2, <2>5, FilterGets
  <2>6. CASE DrainOne
    <3>1. /\ queue # <<>> /\ batch' = Append(batch, Head(queue)) /\ queue' = Tail(queue)
          /\ UNCHANGED <<accepted, delivered>>
          /\ queue \in Seq(Commands) /\ batch \in Seq(Commands)
      BY <2>6 DEF DrainOne, TypeOK
    <3> DEFINE S == Commands
    <3>2. queue \in Seq(S) /\ batch \in Seq(S) BY <3>1
    <3> HIDE DEF S
    <3>3. Append(batch, Head(queue)) \o Tail(queue) = batch \o queue BY <3>1, <3>2
    <3>4. QED BY <2>3, <3>1, <3>3
  <2>7. CASE \/ Send \/ ReuseDescriptor \/ OpenSocket \/ StoreSocket \/ Bind \/ TestRunning
             \/ SelectReturns \/ SelectFails \/ Receive \/ ReceiveFails
    BY <2>3, <2>7 DEF Send, ReuseDescriptor, OpenSocket, StoreSocket, Bind, TestRunning,
       SelectReturns, SelectFails, Receive, ReceiveFails
  <2>8. CASE \/ LockToPush \/ ExchangeAtEnd \/ CloseAtEnd \/ Start \/ LockToPoll
             \/ UnlockAfterPoll \/ PollReturns
    BY <2>3, <2>8 DEF LockToPush, ExchangeAtEnd, CloseAtEnd, Start, LockToPoll,
       UnlockAfterPoll, PollReturns
  <2>9. CASE \/ Stop \/ ExchangeInStop \/ CloseInStop \/ Join \/ Gone \/ UNCHANGED vars
    BY <2>3, <2>9 DEF Stop, ExchangeInStop, CloseInStop, Join, Gone, vars
  <2> QED
    BY <2>4, <2>5, <2>6, <2>7, <2>8, <2>9 DEF Next, Listen, Poll, FinishStop
<1>3. TypeOK /\ GetsInv => GameGetsAll
  <2> SUFFICES ASSUME TypeOK, GetsInv PROVE GameGetsAll OBVIOUS
  <2>1. /\ accepted \in Seq(Commands) /\ batch \o queue \in Seq(Commands)
        /\ delivered \in Seq(Commands)
    <3> DEFINE S == Commands
    <3>1. /\ accepted \in Seq(S) /\ batch \in Seq(S) /\ queue \in Seq(S)
          /\ delivered \in Seq(S)
      BY DEF TypeOK
    <3> HIDE DEF S
    <3>2. batch \o queue \in Seq(S) BY <3>1
    <3>3. QED BY <3>1, <3>2 DEF S
  <2>2. MeantOf(accepted) = delivered \o MeantOf(batch \o queue)
    BY <2>1, KeptCommands DEF GetsInv
  <2>3. \A i \in 1 .. Len(delivered) : delivered[i] \in Commands BY <2>1
  <2>4. \A i \in 1 .. Len(delivered) :
          Parsed(contents[delivered[i]]) = Means[contents[delivered[i]]]
    BY <2>3, FitsIsMeant DEF GetsInv, Fits
  <2>5. QED BY <2>2, <2>4 DEF GameGetsAll
<1> QED
  BY <1>1, <1>2, <1>3, TypeCorrect, PTL DEF Spec
=============================================================================
