------------------------------ MODULE RingLog ------------------------------
(***************************************************************************)
(* What the event broker promises its subscribers.  Every subscriber has a *)
(* log of the events offered to it, of which the newest Capacity at most   *)
(* are kept; it takes them in order.  A subscriber that falls behind loses *)
(* the oldest events kept, each of them counted, and holds up nobody.      *)
(***************************************************************************)
EXTENDS Naturals, Sequences

CONSTANTS
  Subscribers,  (* everyone who ever subscribes                            *)
  Capacity,     (* events kept for a subscriber                            *)
  Events        (* the events that can be published                        *)

VARIABLES
  log,   (* events offered to each subscriber, oldest first                *)
  gone,  (* how many of them are no longer kept: taken or lost             *)
  lost   (* how many of them were lost                                     *)

logVars == <<log, gone, lost>>

Kept(s) == Len(log[s]) - gone[s]

Init ==
  /\ log = [s \in Subscribers |-> <<>>]
  /\ gone = [s \in Subscribers |-> 0]
  /\ lost = [s \in Subscribers |-> 0]

(* One event is offered to some subscribers at once; those whose store is  *)
(* full lose the oldest event they had.                                    *)
Offer(e, S) ==
  LET overrun(s) == s \in S /\ Kept(s) = Capacity
  IN /\ log' = [s \in Subscribers |-> IF s \in S THEN Append(log[s], e) ELSE log[s]]
     /\ gone' = [s \in Subscribers |-> IF overrun(s) THEN gone[s] + 1 ELSE gone[s]]
     /\ lost' = [s \in Subscribers |-> IF overrun(s) THEN lost[s] + 1 ELSE lost[s]]

Take(s) ==
  /\ Kept(s) > 0
  /\ gone' = [gone EXCEPT ![s] = @ + 1]
  /\ UNCHANGED <<log, lost>>

Next ==
  \/ \E e \in Events, S \in SUBSET Subscribers : Offer(e, S)
  \/ \E s \in Subscribers : Take(s)

Spec == Init /\ [][Next]_logVars
=============================================================================
