--------------------------- MODULE MCNetworkInput ---------------------------
(* The network input for TLC, in a game of two towers.  A gift and a like  *)
(* as the bridge sends them with its template game_event (the action is    *)
(* inside the rule, the count inside the payload: a number, or null where  *)
(* the event has none), a reset with a count that is no int, a heal for a  *)
(* tower of larger games, and a message of the other compact template.     *)
EXTENDS NetworkInput

Object(fields) == [object |-> TRUE, fields |-> fields]
Member(key, fields) == <<Field(key, Opens(Len(fields)))>> \o fields
Type(word) == <<Field("message_type", Words(<<word>>))>>
Action(words) == <<Field("action", Words(words))>>

FromBridge(eventType, action, likes, count) ==
  Object(Type("game_event")
         \o Member("rule", <<Field("id", Words(<<"compact">>)),
                             Field("event_type", Words(<<eventType>>))>> \o Action(action))
         \o Member("event", <<Field("id", Words(<<"evt">>)), Field("type", Words(<<eventType>>))>>)
         \o Member("user", <<Field("id", Digits(7)), Field("username", Words(<<"ana">>))>>)
         \o Member("payload", <<Field("like_count", likes), Field("repeat_count", count)>>))

SomeContents == {"gift", "like", "reset", "foreign", "custom"}
SomeText ==
  [gift |-> FromBridge("gift", <<"spawn", "red", "blue">>, Other, Number(3)),
   like |-> FromBridge("like", <<"heal", "red">>, Number(5), Other),
   reset |-> Object(Type("game_event") \o Action(<<"reset">>)
                    \o Member("payload", <<Field("repeat_count", TooLarge)>>)),
   foreign |-> Object(Type("game_event") \o Action(<<"heal", "purple">>)
                      \o Member("payload", <<Field("repeat_count", Digits(2))>>)),
   custom |-> Object(Type("custom_game_event") \o Action(<<"reset">>))]
TheirMeaning ==
  [gift |-> Command("SpawnAttack", 0, 1, 3), like |-> Command("SpawnHeal", 0, 0, 1),
   reset |-> ResetGame, foreign |-> NoCommand, custom |-> NoCommand]
=============================================================================
