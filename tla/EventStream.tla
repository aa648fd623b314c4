----------------------------- MODULE EventStream -----------------------------
(***************************************************************************)
(* What a connector promises to the code that iterates over its events(),  *)
(* without the event loop, the tasks and the stop markers behind it:       *)
(* events are given once each, in the order in which they were accepted;   *)
(* only the oldest may be lost, and only while the stream is closing;      *)
(* the iteration is over only after the stream has begun to close, and     *)
(* nothing is given once it is over, until the connector is started again. *)
(***************************************************************************)
EXTENDS Integers, Sequences

CONSTANT Events       (* every event a connector may accept                *)

VARIABLES
  backlog,            (* accepted, not yet given                           *)
  given,              (* what the reader has been given so far             *)
  closing,            (* the producer has ended, stop() was called, or an  *)
                      (* earlier end is still to be announced              *)
  ending              (* "open", or how the reader's iteration has ended   *)

streamVars == <<backlog, given, closing, ending>>

Endings == {"open", "ended", "failed"}
Fresh(e) == \A i \in 1 .. Len(backlog) : backlog[i] # e

StreamInit ==
  /\ backlog = <<>> /\ given = <<>>
  /\ closing = FALSE /\ ending = "open"

(* start(): a new queue.  What the old one still held is gone.  A start()   *)
(* that comes before the end of the last stream was announced takes the     *)
(* announcement along: the new stream is closing from the beginning.        *)
Open ==
  /\ backlog' = <<>> /\ closing' \in {closing, FALSE} /\ ending' = "open"
  /\ UNCHANGED given

(* emit(): an emitter that had to wait may be let in after the end.         *)
Accept(e) ==
  /\ Fresh(e)
  /\ backlog' = Append(backlog, e)
  /\ closing' \in {closing, TRUE}
  /\ UNCHANGED <<given, ending>>

Give ==
  /\ ending = "open" /\ backlog # <<>>
  /\ given' = Append(given, Head(backlog))
  /\ backlog' = Tail(backlog)
  /\ UNCHANGED <<closing, ending>>

Close ==
  /\ closing' = TRUE
  /\ UNCHANGED <<backlog, given, ending>>

(* A stop marker put into a full queue takes the place of the oldest event. *)
Evict ==
  /\ backlog # <<>>
  /\ backlog' = Tail(backlog)
  /\ closing' = TRUE
  /\ UNCHANGED <<given, ending>>

End ==
  /\ ending = "open" /\ closing
  /\ ending' \in {"ended", "failed"}
  /\ UNCHANGED <<backlog, given, closing>>

StreamNext ==
  \/ Open \/ Give \/ Close \/ Evict \/ End
  \/ \E e \in Events : Accept(e)

StreamSpec == StreamInit /\ [][StreamNext]_streamVars
=============================================================================
