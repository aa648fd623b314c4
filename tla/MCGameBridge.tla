---------------------------- MODULE MCGameBridge ----------------------------
(* The bridge for TLC.  The rule files are those of examples/game_bridge,  *)
(* cut down to what the events below tell apart, and ones with the         *)
(* mistakes that load_rules refuses or that show only when an event comes. *)
EXTENDS GameBridge, TLC

Element(id, type, value, action, conditions, messages) ==
  [id |-> id, type |-> Text(type), value |-> value, action |-> action,
   template |-> Absent, conditions |-> conditions, messages |-> messages]
Compact(type, value, action) == Element(Absent, type, Text(value), Text(action), <<>>, <<>>)
Verbose(id, type, conditions, messages) ==
  Element(Text(id), type, Absent, Absent, conditions, messages)

Condition(field, op, expected, ignoreCase, as) ==
  [field |-> Text(field), operators |-> {op}, expected |-> expected,
   ignoreCase |-> ignoreCase, as |-> as]
Param(name, value, from, default, as) ==
  [name |-> Text(name), value |-> value, from |-> from, default |-> default, as |-> as]
Message(template, params) == [template |-> Text(template), params |-> params]

Action(name) == Param("action", Text(name), Absent, Absent, "str")
Amount(as) == Param("amount", Absent, Text("payload.repeat_count"), Number("1", 1), as)
Rose == Condition("payload.gift_name", "equals", Text("Rose"), FALSE, "str")
Shout == Value("!ATTACK", "!attack", <<>>, <<>>)
Attack(op, as) == Condition("payload.comment", op, Text("!attack"), TRUE, as)
Large == Condition("payload.diamond_count", "greater_than", Number("50", 50), FALSE, "int")
True == Value("true", "true", <<>>, <<TRUE>>)
HasUser == Condition("user.username", "exists", True, FALSE, "str")
Galaxy == Condition("payload.gift_name", "not_equals", Text("Rose"), FALSE, "str")
Many == Condition("payload.like_count", "equals", Text("many"), FALSE, "int")
UserNumber == Param("amount", Absent, Text("user.username"), Absent, "int")

File(elements) == [readable |-> TRUE, elements |-> elements]
CompactFile ==
  File(<<Compact("gift", "Rose", "spawn"), Compact("gift", "Football", "heal"),
         [Compact("like", "*", "like_bonus") EXCEPT !.template = Text("game_action")]>>)
(* The last two rules name types that are not those of the values: no one  *)
(* notices before such an event comes.                                     *)
VerboseFile ==
  File(<<Verbose("rose", "gift", <<Rose>>,
                 <<Message("game_action", <<Action("spawn"), Amount("int")>>),
                   Message("game_event", <<>>)>>),
         Verbose("large", "gift", <<HasUser, Large>>,
                 <<Message("game_action", <<Action("bonus")>>)>>),
         Verbose("attack", "comment", <<Attack("starts_with", "str")>>,
                 <<Message("game_action", <<Action("spawn")>>)>>),
         Verbose("other", "gift", <<Galaxy>>, <<Message("game_action", <<UserNumber>>)>>),
         Verbose("likes", "like", <<Many>>, <<Message("game_action", <<>>)>>)>>)
DuplicateIds ==
  File(<<Verbose("rose", "gift", <<Rose>>, <<Message("game_action", <<>>)>>),
         Verbose("rose", "like", <<>>, <<Message("game_action", <<>>)>>)>>)
NoMessages == File(<<Verbose("rose", "gift", <<Rose>>, <<>>)>>)
SomeRules == {CompactFile, VerboseFile, DuplicateIds, NoMessages}

Placeholder(of, path, exact) == [of |-> of, path |-> Text(path), exact |-> exact]
GameEvent ==
  Text("game_event") :> <<Placeholder("rule", "id", TRUE), Placeholder("rule", "action", TRUE),
                          Placeholder("event", "payload.gift_name", FALSE)>>
GameAction ==
  Text("game_action") :> <<Placeholder("params", "action", TRUE),
                           Placeholder("params", "amount", TRUE)>>
SomeTemplates ==
  {[readable |-> TRUE, templates |-> GameEvent @@ GameAction],
   [readable |-> TRUE, templates |-> GameEvent]}

Event(id, type, fields) == [id |-> id, type |-> Text(type), fields |-> fields, mapping |-> TRUE]
Gift(id, name, count) ==
  Event(id, "gift",
        Text("payload.gift_name") :> Text(name) @@ Text("payload.repeat_count") :> count
        @@ Text("payload.diamond_count") :> Number("99", 99)
        @@ Text("user.username") :> Text("ana"))
SomeEvents ==
  {Gift("a", "Rose", Number("3", 3)), Gift("", "Galaxy", Number("1", 1)),
   Event("b", "comment", Text("payload.comment") :> Shout),
   Event(NoId, "like", Text("payload.like_count") :> Number("5", 5)),
   [id |-> "d", type |-> Text("gift"), fields |-> <<>>, mapping |-> FALSE]}

SomeSettings ==
  {[output |-> "udp", deduplicates |-> TRUE], [output |-> "stdout", deduplicates |-> FALSE]}

SomeRelation == {<<"starts_with", "!attack", "!attack">>}
=============================================================================
