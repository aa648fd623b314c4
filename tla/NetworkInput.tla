---------------------------- MODULE NetworkInput ----------------------------
(***************************************************************************)
(* TikTokAdapter: a thread that receives datagrams and queues the commands *)
(* in them, and the game thread that starts it, polls the queue in every   *)
(* frame and stops it in the end.                                          *)
(*                                                                         *)
(* The two share the flag running_, the descriptor socketFd_, both atomic, *)
(* and the queue, under queueMutex_.  An action is one access to what they *)
(* share, or one system call.  The adapter lives once: the constructor     *)
(* starts it and the destructor stops it.                                  *)
(***************************************************************************)
EXTENDS Messages, SequencesExt

CONSTANTS
  MaxDatagrams,         (* bound of the model: datagrams sent to the game  *)
  Contents,             (* names for what a datagram may hold              *)
  Text,                 (* the text of each, [object, fields]              *)
  Means,                (* the command that each is for a game of so many  *)
                        (* towers by the description of the protocol       *)
  TowerCount            (* the towers of the game                          *)

ASSUME DatagramsAssumption == MaxDatagrams \in Nat

Datagrams == 1 .. MaxDatagrams

VARIABLES
  contents,   (* what each datagram will hold                              *)
  sends,      (* number of datagrams sent so far                           *)
  wire,       (* datagrams in the socket's receive buffer                  *)
  desc,       (* the file descriptor of the thread, as the system sees it  *)
  running,    (* running_                                                  *)
  socketFd,   (* socketFd_ holds the descriptor, and not kInvalidSocket    *)
  worker,     (* where the thread is in listenLoop                         *)
  received,   (* local of the thread: the command it is about to queue     *)
  mutex,      (* who holds queueMutex_                                     *)
  queue,      (* queue_                                                    *)
  game,       (* where the game thread is in the adapter's functions       *)
  batch,      (* local of poll: externalCommands                           *)
  accepted,   (* history: commands queued                                  *)
  delivered   (* history: commands returned by poll                        *)

netVars    == <<contents, sends, wire>>
sockVars   == <<desc, socketFd>>
queueVars  == <<mutex, queue, accepted>>
pollVars   == <<batch, delivered>>
threadVars == <<running, worker, game, received>>
vars == <<netVars, sockVars, queueVars, pollVars, threadVars>>

Parsed(c) == ParseExternalInputMessage(Text[c])
UnderstoodContents == {c \in Contents : Parsed(c) # NoCommand}
FittingContents == {c \in Contents : CommandMatchesTowerCount(Parsed(c), TowerCount)}

UnderstoodAny(n) == n \in Datagrams
Understood(n) == contents[n] \in UnderstoodContents
Fits(n) == contents[n] \in FittingContents

Init ==
  /\ contents \in [Datagrams -> Contents]
  /\ sends = 0 /\ wire = <<>>
  /\ desc = "none" /\ socketFd = FALSE
  /\ running = FALSE /\ worker = "none" /\ game = "new" /\ received = 0
  /\ mutex = "free" /\ queue = <<>> /\ accepted = <<>>
  /\ batch = <<>> /\ delivered = <<>>

-----------------------------------------------------------------------------
(* The environment *)

Listening ==
  desc = "open" /\ worker \in {"test", "select", "receive", "lock", "push", "exchange"}

(* A datagram reaches the socket's buffer or is lost.                      *)
Send ==
  /\ sends < MaxDatagrams
  /\ sends' = sends + 1
  /\ \/ Listening /\ wire' = Append(wire, sends')
     \/ UNCHANGED wire
  /\ UNCHANGED <<contents, sockVars, queueVars, pollVars, threadVars>>

(* The number of a closed descriptor is given to another file.             *)
ReuseDescriptor ==
  /\ desc = "closed"
  /\ desc' = "other"
  /\ UNCHANGED <<netVars, socketFd, queueVars, pollVars, threadVars>>

-----------------------------------------------------------------------------
(* closeSocket: whoever exchanges the descriptor for kInvalidSocket closes *)
(* it.                                                                     *)

TakeSocketByLoad == UNCHANGED socketFd
TakeSocket == socketFd' = FALSE

Close ==
  /\ desc' = "closed"
  /\ wire' = <<>>

-----------------------------------------------------------------------------
(* The thread: listenLoop *)

OpenSocket ==
  /\ worker = "begin"
  /\ \/ desc' = "open" /\ worker' = "store" /\ UNCHANGED running
     \/ running' = FALSE /\ worker' = "ended" /\ UNCHANGED desc
  /\ UNCHANGED <<netVars, socketFd, queueVars, pollVars, game, received>>

StoreSocket ==
  /\ worker = "store"
  /\ socketFd' = TRUE
  /\ worker' = "bind"
  /\ UNCHANGED <<netVars, desc, queueVars, pollVars, running, game, received>>

(* bind fails for a bad address, for a port in use, and when stop has      *)
(* closed the socket in the meantime.                                      *)
Bind ==
  /\ worker = "bind"
  /\ \/ desc = "open" /\ worker' = "test" /\ UNCHANGED running
     \/ running' = FALSE /\ worker' = "exchange"
  /\ UNCHANGED <<netVars, sockVars, queueVars, pollVars, game, received>>

TestRunning ==
  /\ worker = "test"
  /\ worker' = IF running THEN "select" ELSE "exchange"
  /\ UNCHANGED <<netVars, sockVars, queueVars, pollVars, running, game, received>>

(* select returns after its timeout at the latest, and also when there is  *)
(* something to read; running_ is tested again.                            *)
SelectDueWhenReady == wire # <<>>
SelectDue == TRUE

SelectReturns ==
  /\ worker = "select"
  /\ SelectDue
  /\ worker' \in IF ~running THEN {"exchange"}
                 ELSE IF wire = <<>> THEN {"test"} ELSE {"test", "receive"}
  /\ UNCHANGED <<netVars, sockVars, queueVars, pollVars, running, game, received>>

(* A select that fails ends the loop and leaves running_ as it is.         *)
SelectFails ==
  /\ worker = "select"
  /\ worker' = "exchange"
  /\ UNCHANGED <<netVars, sockVars, queueVars, pollVars, running, game, received>>

(* recvfrom; stop may have closed the descriptor since select.             *)
Receive ==
  /\ worker = "receive"
  /\ desc = "open" /\ wire # <<>>
  /\ wire' = Tail(wire)
  /\ IF Understood(Head(wire))
     THEN received' = Head(wire) /\ worker' = "lock"
     ELSE worker' = "test" /\ UNCHANGED received
  /\ UNCHANGED <<contents, sends, sockVars, queueVars, pollVars, running, game>>

ReceiveFails ==
  /\ worker = "receive"
  /\ worker' = "test"
  /\ UNCHANGED <<netVars, sockVars, queueVars, pollVars, running, game, received>>

(* enqueue *)
MutexFree == mutex = "free"

LockToPush ==
  /\ worker = "lock"
  /\ MutexFree
  /\ mutex' = "worker"
  /\ worker' = "push"
  /\ UNCHANGED <<netVars, sockVars, queue, accepted, pollVars, running, game, received>>

Push ==
  /\ worker = "push"
  /\ queue' = Append(queue, received)
  /\ accepted' = Append(accepted, received)
  /\ mutex' = "free"
  /\ worker' = "test"
  /\ UNCHANGED <<netVars, sockVars, pollVars, running, game, received>>

AfterLoopForgetful == "ended"
AfterLoop == IF socketFd THEN "close" ELSE "ended"

ExchangeAtEnd ==
  /\ worker = "exchange"
  /\ TakeSocket
  /\ worker' = AfterLoop
  /\ UNCHANGED <<netVars, desc, queueVars, pollVars, running, game, received>>

CloseAtEnd ==
  /\ worker = "close"
  /\ Close
  /\ worker' = "ended"
  /\ UNCHANGED <<contents, sends, socketFd, queueVars, pollVars, running, game, received>>

-----------------------------------------------------------------------------
(* The game thread *)

(* The constructor calls start; input that is not enabled has no thread.   *)
Start ==
  /\ game = "new"
  /\ game' = "playing"
  /\ \/ running' = TRUE /\ worker' = "begin"
     \/ UNCHANGED <<running, worker>>
  /\ UNCHANGED <<netVars, sockVars, queueVars, pollVars, received>>

LockToPoll ==
  /\ game = "playing"
  /\ MutexFree
  /\ mutex' = "game"
  /\ game' = "draining"
  /\ UNCHANGED <<netVars, sockVars, queue, accepted, pollVars, running, worker, received>>

DrainOne ==
  /\ game = "draining"
  /\ queue # <<>>
  /\ batch' = Append(batch, Head(queue))
  /\ queue' = Tail(queue)
  /\ UNCHANGED <<netVars, sockVars, mutex, accepted, delivered, threadVars>>

DrainedAlmost == Len(queue) <= 1
Drained == queue = <<>>

UnlockAfterPoll ==
  /\ game = "draining"
  /\ Drained
  /\ mutex' = "free"
  /\ game' = "filtering"
  /\ UNCHANGED <<netVars, sockVars, queue, accepted, pollVars, running, worker, received>>

DeliveredInFront(n) == <<n>> \o delivered
DeliveredNext(n) == Append(delivered, n)

FilterOne ==
  /\ game = "filtering"
  /\ batch # <<>>
  /\ delivered' = IF Fits(Head(batch)) THEN DeliveredNext(Head(batch)) ELSE delivered
  /\ batch' = Tail(batch)
  /\ UNCHANGED <<netVars, sockVars, queueVars, threadVars>>

PollReturns ==
  /\ game = "filtering"
  /\ batch = <<>>
  /\ game' = "playing"
  /\ UNCHANGED <<netVars, sockVars, queueVars, pollVars, running, worker, received>>

(* The destructor calls stop; a thread that was never created is not       *)
(* joinable.                                                               *)
Stop ==
  /\ game = "playing"
  /\ running' = FALSE
  /\ game' = IF running \/ worker # "none" THEN "exchange" ELSE "stopped"
  /\ UNCHANGED <<netVars, sockVars, queueVars, pollVars, worker, received>>

ExchangeInStop ==
  /\ game = "exchange"
  /\ TakeSocket
  /\ game' = IF socketFd THEN "close" ELSE "join"
  /\ UNCHANGED <<netVars, desc, queueVars, pollVars, running, worker, received>>

CloseInStop ==
  /\ game = "close"
  /\ Close
  /\ game' = "join"
  /\ UNCHANGED <<contents, sends, socketFd, queueVars, pollVars, running, worker, received>>

Join ==
  /\ game = "join"
  /\ worker = "ended"
  /\ worker' = "none"
  /\ game' = "stopped"
  /\ UNCHANGED <<netVars, sockVars, queueVars, pollVars, running, received>>

Gone == game = "stopped" /\ UNCHANGED vars

-----------------------------------------------------------------------------
Listen ==
  \/ OpenSocket \/ StoreSocket \/ Bind
  \/ TestRunning \/ SelectReturns
  \/ Receive \/ ReceiveFails
  \/ LockToPush \/ Push
  \/ ExchangeAtEnd \/ CloseAtEnd

Poll == LockToPoll \/ DrainOne \/ UnlockAfterPoll \/ FilterOne \/ PollReturns
FinishStop == ExchangeInStop \/ CloseInStop \/ Join

Next ==
  \/ Send \/ ReuseDescriptor
  \/ Listen \/ SelectFails
  \/ Start \/ Poll \/ Stop \/ FinishStop \/ Gone

Spec == Init /\ [][Next]_vars

(* Both threads are scheduled, frames follow each other, and select keeps  *)
(* its timeout.  Nobody need start or stop the game or send to it.         *)
FairSpec == Spec /\ WF_vars(Listen) /\ WF_vars(Poll) /\ WF_vars(FinishStop)

-----------------------------------------------------------------------------
(* Type correctness; only messages that were understood are ever queued.   *)
Commands == {n \in Datagrams : contents[n] \in UnderstoodContents}
TypeOK ==
  /\ contents \in [Datagrams -> Contents]
  /\ sends \in 0 .. MaxDatagrams
  /\ wire \in Seq(Datagrams)
  /\ desc \in {"none", "open", "closed", "other"}
  /\ running \in BOOLEAN /\ socketFd \in BOOLEAN
  /\ worker \in {"none", "begin", "store", "bind", "test", "select", "receive", "lock",
                 "push", "exchange", "close", "ended"}
  /\ received \in Commands \cup {0}
  /\ worker \in {"lock", "push"} => received \in Commands
  /\ mutex \in {"free", "worker", "game"}
  /\ queue \in Seq(Commands) /\ accepted \in Seq(Commands)
  /\ game \in {"new", "playing", "draining", "filtering", "exchange", "close", "join",
               "stopped"}
  /\ batch \in Seq(Commands) /\ delivered \in Seq(Commands)

(* The two threads are never inside the queue at the same time: std::queue *)
(* would be corrupted.                                                     *)
QueueExclusive == ~(worker = "push" /\ game = "draining")

(* A thread that is about to close the descriptor closes the open socket,  *)
(* and is the only one: not a descriptor that is closed already or that    *)
(* belongs to another file by now.                                         *)
ClosesOwnSocket ==
  /\ worker = "close" \/ game = "close" => desc = "open"
  /\ ~(worker = "close" /\ game = "close")

(* When stop returns, the thread is gone and its socket is closed, even if *)
(* stop came between the creation of the socket and its publication.       *)
NothingLeaks == game = "stopped" => worker = "none" /\ desc # "open"

(* The game gets the commands that the protocol describes and that are for *)
(* its towers, in the order in which they were queued, each once and as    *)
(* described, and no others; what poll has not returned is still held.     *)
Meant(n) == Means[contents[n]] # NoCommand
MeantOf(s) == FlattenSeq([i \in 1 .. Len(s) |-> IF Meant(s[i]) THEN <<s[i]>> ELSE <<>>])
GameGetsAll ==
  /\ MeantOf(accepted) = delivered \o MeantOf(batch \o queue)
  /\ \A i \in 1 .. Len(delivered) : Parsed(contents[delivered[i]]) = Means[contents[delivered[i]]]

(* stop returns, whatever the thread is doing.                             *)
StopReturns == game = "exchange" ~> game = "stopped"

(* A command that fits the game and was queued reaches it, unless the game *)
(* is stopped.                                                             *)
Among(n, s) == \E i \in 1 .. Len(s) : s[i] = n
CommandsArrive ==
  \A n \in Datagrams :
    Among(n, accepted) /\ Meant(n) ~> Among(n, delivered) \/ game = "stopped"
=============================================================================
