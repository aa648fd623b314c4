------------------------------ MODULE GameRules ------------------------------
(***************************************************************************)
(* The pure part of the game bridge: which rule files load                 *)
(* (rule_loader.py), which template files they may be used with            *)
(* (template_loader.py), which rules an event matches and what messages    *)
(* they make of it (rule_engine.py, template_renderer.py, utils.py).       *)
(*                                                                         *)
(* A file is what its parser finds in it.  A value is what the conversions *)
(* of utils.py can make of it: its text, the text in lower case, the       *)
(* number and the truth value it reads as (empty when it does not).        *)
(***************************************************************************)
EXTENDS Integers, Sequences, FiniteSets, SequencesExt

CONSTANT TextRelation    (* <<operator, actual, expected>> that hold of texts *)

Value(text, lower, number, truth) ==
  [text |-> text, lower |-> lower, number |-> number, truth |-> truth]
Text(t) == Value(t, t, <<>>, <<>>)
Number(t, n) == Value(t, t, <<n>>, <<>>)
Absent == Text("<absent>")            (* MISSING and None are told apart nowhere *)
Blank  == Text("")
Star   == Text("*")

Operators == {"equals", "not_equals", "contains", "starts_with", "greater_than",
              "less_than", "exists"}

-----------------------------------------------------------------------------
(* load_rules                                                              *)

IsCompact(el) == el.type # Absent /\ el.value # Absent /\ el.action # Absent
Given(v) == v \notin {Absent, Blank}

ConditionLoads(c) == Given(c.field) /\ Cardinality(c.operators) = 1

ParamLoads(p) ==
  /\ Given(p.name)
  /\ ~(p.value # Absent /\ p.from # Absent)
  /\ p.value # Absent \/ p.from # Absent \/ p.default # Absent

MessageLoads(m) ==
  /\ Given(m.template)
  /\ \A i \in DOMAIN m.params :
       /\ ParamLoads(m.params[i])
       /\ \A j \in DOMAIN m.params : m.params[i].name = m.params[j].name => i = j

(* An empty id is replaced by a made-up one, a blank one is refused.       *)
CompactLoads(el) ==
  /\ Given(el.type) /\ Given(el.value) /\ Given(el.action)
  /\ el.id # Blank
  /\ el.conditions = <<>> /\ el.messages = <<>>

VerboseLoads(el) ==
  /\ Given(el.id) /\ Given(el.type)
  /\ \A i \in DOMAIN el.conditions : ConditionLoads(el.conditions[i])
  /\ \A i \in DOMAIN el.messages : MessageLoads(el.messages[i])
  /\ el.messages # <<>>

ElementLoads(el) == IF IsCompact(el) THEN CompactLoads(el) ELSE VerboseLoads(el)

RuleId(el, index) ==
  [text |-> el.id.text, index |-> IF IsCompact(el) /\ el.id = Absent THEN index ELSE 0]

ParseCompact(el, index) ==
  [id |-> RuleId(el, index), type |-> el.type, compact |-> TRUE, value |-> el.value,
   action |-> el.action, conditions |-> <<>>,
   messages |-> <<[template |-> IF Given(el.template) THEN el.template ELSE Text("game_event"),
                   params |-> <<>>]>>]

ParseVerbose(el) ==
  [id |-> RuleId(el, 0), type |-> el.type, compact |-> FALSE, value |-> Absent,
   action |-> Absent, conditions |-> el.conditions, messages |-> el.messages]

ParsedRules(file) ==
  [i \in DOMAIN file.elements |->
     IF IsCompact(file.elements[i]) THEN ParseCompact(file.elements[i], i)
                                    ELSE ParseVerbose(file.elements[i])]

RulesLoad(file) ==
  /\ file.readable
  /\ \A i \in DOMAIN file.elements :
       /\ ElementLoads(file.elements[i])
       /\ \A j \in DOMAIN file.elements :
            RuleId(file.elements[i], i) = RuleId(file.elements[j], j) => i = j

(* validate_rule_template_references                                       *)
ReferencesHold(rules, templates) ==
  \A i \in DOMAIN rules : \A k \in DOMAIN rules[i].messages :
    rules[i].messages[k].template \in DOMAIN templates

-----------------------------------------------------------------------------
(* utils.py                                                                *)

ReadDotPath(fields, path) == IF path \in DOMAIN fields THEN fields[path] ELSE Absent

(* convert_value: a type that it does not know converts nothing.           *)
Converts(v, as) ==
  \/ as = "str"
  \/ as \in {"int", "float"} /\ v.number # <<>>
  \/ as = "bool" /\ v.truth # <<>>

-----------------------------------------------------------------------------
(* Matching: a condition holds, fails, or raises because the value it      *)
(* expects does not convert; what the event has merely fails.              *)

ConditionRaises(c, e) ==
  IF "exists" \in c.operators
    THEN ~Converts(c.expected, "bool")
    ELSE ReadDotPath(e.fields, c.field) # Absent /\ ~Converts(c.expected, c.as)

Compared(v, c) == IF c.as = "str" /\ c.ignoreCase THEN v.lower ELSE v.text

ValuesAgree(op, actual, c) ==
  LET same == CASE c.as = "str"  -> Compared(actual, c) = Compared(c.expected, c)
                [] c.as = "bool" -> actual.truth = c.expected.truth
                [] OTHER         -> actual.number = c.expected.number
      numeric == c.as \in {"int", "float"}
  IN  CASE op = "equals"     -> same
        [] op = "not_equals" -> ~same
        [] op = "greater_than" /\ numeric -> actual.number[1] > c.expected.number[1]
        [] op = "less_than" /\ numeric    -> actual.number[1] < c.expected.number[1]
        [] OTHER -> <<op, Compared(actual, c), Compared(c.expected, c)>> \in TextRelation

ConditionHolds(c, e) ==
  LET actual == ReadDotPath(e.fields, c.field)
  IN  IF "exists" \in c.operators
        THEN Converts(c.expected, "bool") /\ <<actual # Absent>> = c.expected.truth
        ELSE /\ actual # Absent
             /\ Converts(c.expected, c.as) /\ Converts(actual, c.as)
             /\ \A op \in c.operators : ValuesAgree(op, actual, c)

ExtractCompactEventValue(e) ==
  CASE e.type = Text("gift")    -> ReadDotPath(e.fields, Text("payload.gift_name"))
    [] e.type = Text("comment") -> ReadDotPath(e.fields, Text("payload.comment"))
    [] e.type \in {Text("like"), Text("follow"), Text("join")} -> Star
    [] OTHER -> Absent

MatchesCompactRule(rule, e) ==
  \/ rule.value = Star
  \/ /\ ExtractCompactEventValue(e) # Absent
     /\ ExtractCompactEventValue(e).text = rule.value.text

MatchesRule(rule, e) ==
  /\ rule.type = e.type
  /\ IF rule.compact
       THEN MatchesCompactRule(rule, e)
       ELSE \A i \in DOMAIN rule.conditions : ConditionHolds(rule.conditions[i], e)

MatchingRaises(rule, e) ==
  /\ rule.type = e.type
  /\ \E i \in DOMAIN rule.conditions :
       /\ ConditionRaises(rule.conditions[i], e)
       /\ \A j \in 1 .. i - 1 : ConditionHolds(rule.conditions[j], e)

-----------------------------------------------------------------------------
(* Rendering                                                               *)

RawParam(p, e) ==
  LET read == ReadDotPath(e.fields, p.from)
  IN  CASE p.from # Absent -> IF read = Absent THEN p.default ELSE read
        [] p.from = Absent /\ p.value # Absent -> p.value
        [] OTHER -> p.default

ParamRaises(p, e) == RawParam(p, e) # Absent /\ ~Converts(RawParam(p, e), p.as)

BuildParams(message, e) ==
  [name \in {message.params[i].name : i \in DOMAIN message.params} |->
     RawParam(message.params[CHOOSE i \in DOMAIN message.params :
                               message.params[i].name = name], e)]

(* What templates read as rule.*; the id made up for a rule without one    *)
(* tells its place in the file.                                            *)
RuleIdText(id) == Text(IF id.index = 0 THEN id.text ELSE "compact " \o ToString(id.index))
PyBool(b) == IF b THEN Value("True", "true", <<1>>, <<TRUE>>)
                  ELSE Value("False", "false", <<0>>, <<FALSE>>)

RuleContext(rule) ==
  Text("id")            :> RuleIdText(rule.id)
  @@ Text("event_type")  :> rule.type
  @@ Text("event_value") :> rule.value
  @@ Text("action")      :> rule.action
  @@ Text("compact")     :> PyBool(rule.compact)

(* A template is the sequence of its placeholders.  One that is the whole  *)
(* string keeps the type of what it reads (null when there is nothing),    *)
(* any other puts its text (or nothing) into the string around it.         *)
RenderString(placeholder, e, params, rule) ==
  LET context == CASE placeholder.of = "event"  -> e.fields
                   [] placeholder.of = "params" -> params
                   [] OTHER -> RuleContext(rule)
      resolved == ReadDotPath(context, placeholder.path)
  IN  IF placeholder.exact THEN resolved
      ELSE Text(IF resolved = Absent THEN "" ELSE resolved.text)

Render(template, e, params, rule) ==
  [i \in DOMAIN template |-> RenderString(template[i], e, params, rule)]

RuleMessages(rule, e, templates) ==
  [k \in DOMAIN rule.messages |->
     [template |-> rule.messages[k].template,
      body |-> Render(templates[rule.messages[k].template], e,
                      BuildParams(rule.messages[k], e), rule)]]

(* render_messages raises, and then nothing of the event is sent, when any *)
(* condition it tries or any parameter of a rule that matches does.        *)
RenderRaises(rules, e) ==
  \/ \E i \in DOMAIN rules : MatchingRaises(rules[i], e)
  \/ \E i \in DOMAIN rules :
       /\ MatchesRule(rules[i], e)
       /\ \E k \in DOMAIN rules[i].messages : \E n \in DOMAIN rules[i].messages[k].params :
            ParamRaises(rules[i].messages[k].params[n], e)

(* Every rule that matches adds its messages, in the order of the rules.   *)
RenderMessages(rules, e, templates) ==
  FlattenSeq([i \in DOMAIN rules |->
                IF MatchesRule(rules[i], e) THEN RuleMessages(rules[i], e, templates)
                                            ELSE <<>>])
=============================================================================
