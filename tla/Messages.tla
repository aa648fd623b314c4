------------------------------ MODULE Messages ------------------------------
(***************************************************************************)
(* What TikTokAdapter makes of a datagram: the pure part, from the text to *)
(* a command or to nothing.                                                *)
(*                                                                         *)
(* The parser searches the text for a key with a value of the kind that it *)
(* wants, wherever the key is nested, and takes the first.  So a datagram  *)
(* is whether it looks like an object and the list of its keys with their  *)
(* values in the order of the text; the value of a key that opens an       *)
(* object says how many of the keys after it are inside.  A text is the    *)
(* list of its words, with the int that std::stoi reads at its beginning;  *)
(* there is none (<<>>) where it would not fit an int.  The words of an    *)
(* action are in lower case, which is how the parser compares them; that   *)
(* of a message type is as it is sent.                                     *)
(***************************************************************************)
EXTENDS Integers, Sequences

Words(list) == [kind |-> "text", words |-> list, n |-> <<>>, size |-> 0]
Digits(n)   == [kind |-> "text", words |-> <<"digits">>, n |-> <<n>>, size |-> 0]
Number(n)   == [kind |-> "number", words |-> <<>>, n |-> <<n>>, size |-> 0]
TooLarge    == [kind |-> "number", words |-> <<>>, n |-> <<>>, size |-> 0]
Opens(size) == [kind |-> "object", words |-> <<>>, n |-> <<>>, size |-> size]
Other       == [kind |-> "other", words |-> <<>>, n |-> <<>>, size |-> 0]

Field(key, value) == [key |-> key, value |-> value]

Kinds == {"text", "number", "object", "other"}
Occurrences(fields, key, kinds) ==
  {i \in DOMAIN fields : fields[i].key = key /\ fields[i].value.kind \in kinds}
FirstOf(places) == CHOOSE i \in places : \A j \in places : i <= j

ExtractStringField(fields, key) ==
  LET texts == Occurrences(fields, key, {"text"})
  IN  IF texts = {} THEN <<>> ELSE fields[FirstOf(texts)].value.words

(* A number that is found is taken even when it is too large; a text is    *)
(* looked for only where there is no number.                               *)
ExtractIntField(fields, key) ==
  LET numbers == Occurrences(fields, key, {"number"})
      texts == Occurrences(fields, key, {"text"})
  IN  CASE numbers # {} -> fields[FirstOf(numbers)].value.n
        [] numbers = {} /\ texts # {} -> fields[FirstOf(texts)].value.n
        [] OTHER -> <<>>

(* Only the first occurrence of the key is looked at.                      *)
ExtractObjectField(fields, key) ==
  LET all == Occurrences(fields, key, Kinds)
      at == FirstOf(all)
  IN  IF all = {} THEN <<>> ELSE SubSeq(fields, at + 1, at + fields[at].value.size)

-----------------------------------------------------------------------------
InvalidId == -1
Command(type, source, target, count) ==
  [type |-> type, source |-> source, target |-> target, count |-> count]
NoCommand == Command("none", InvalidId, InvalidId, 0)
ResetGame == Command("ResetGame", InvalidId, InvalidId, 1)

(* A team is the number of its tower.                                      *)
TowerIds == [red |-> 0, blue |-> 1, purple |-> 2, green |-> 3]
IsTeam(word) == word \in DOMAIN TowerIds

ParseActionString(words, repeatCount) ==
  LET count == IF repeatCount < 1 THEN 1 ELSE repeatCount
      Is(name, arguments) ==
        /\ Len(words) > arguments /\ words[1] = name
        /\ \A i \in 2 .. arguments + 1 : IsTeam(words[i])
  IN  CASE Is("spawn", 2) /\ words[2] # words[3] ->
             Command("SpawnAttack", TowerIds[words[2]], TowerIds[words[3]], count)
        [] Is("heal", 1) -> Command("SpawnHeal", TowerIds[words[2]], TowerIds[words[2]], count)
        [] Is("reset", 0) -> ResetGame
        [] OTHER -> NoCommand

(* The count is looked for in the payload alone; the other metadata serve  *)
(* the log.                                                                *)
RepeatCount(fields) ==
  LET count == ExtractIntField(ExtractObjectField(fields, "payload"), "repeat_count")
  IN  IF count = <<>> THEN 1 ELSE count[1]

ParseExternalInputMessage(datagram) ==
  IF datagram.object /\ ExtractStringField(datagram.fields, "message_type") = <<"game_event">>
    THEN ParseActionString(ExtractStringField(datagram.fields, "action"),
                           RepeatCount(datagram.fields))
    ELSE NoCommand

CommandMatchesTowerCount(command, towerCount) ==
  LET IsValid(tower) == tower \in 0 .. towerCount - 1
  IN  CASE command.type = "ResetGame"   -> TRUE
        [] command.type = "SpawnHeal"   -> IsValid(command.target)
        [] command.type = "SpawnAttack" -> /\ IsValid(command.source) /\ IsValid(command.target)
                                           /\ command.source # command.target
        [] OTHER -> FALSE
=============================================================================
