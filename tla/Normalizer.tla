----------------------------- MODULE Normalizer -----------------------------
(***************************************************************************)
(* The pure part of the gateway's pipeline: how an event of a TikTokLive   *)
(* client becomes a raw dictionary (_adapt_tiktok_event, tiktok_live.py)   *)
(* and a raw dictionary an event of the gateway (TikTokEventNormalizer,    *)
(* normalizer.py, with the models of events.py).                           *)
(*                                                                         *)
(* A provider event or a dictionary is the record of the fields it has.    *)
(* A value is what the conversions tell apart: nothing (None), the empty   *)
(* text, a text, a number or its digits, a truth value or the word for it, *)
(* a date (or a text that reads as one), an object with fields; numbers    *)
(* are whole.  Of an event of the gateway the model keeps what the rest of *)
(* the system looks at: its type, its user, its count and the code of an   *)
(* error.                                                                  *)
(***************************************************************************)
EXTENDS Integers, Sequences, FiniteSets

CONSTANT EndsWith      (* <<name, alias>>: the type name ends with the alias *)

Value(kind, text, n, fields) == [kind |-> kind, text |-> text, n |-> n, fields |-> fields]
None      == Value("none", "", 0, <<>>)
Blank     == Value("blank", "", 0, <<>>)
Word(w)   == Value("text", w, 0, <<>>)
Number(n) == Value("number", "", n, <<>>)
Flag(b)   == Value("flag", "", IF b THEN 1 ELSE 0, <<>>)
Date      == Value("date", "", 0, <<>>)
Object(f) == Value("object", "", 0, f)

(* str() of a value.                                                       *)
AsText(v) ==
  CASE v.kind = "number" -> Value("digits", "digits", v.n, <<>>)
    [] v.kind = "flag" -> Value("truth word", "truth word", v.n, <<>>)
    [] v.kind \in {"date", "object"} -> Word("its text")
    [] OTHER -> v

(* _read: the first of the names that is there, whatever it holds.         *)
Has(fields, names) == \E i \in DOMAIN names : names[i] \in DOMAIN fields
Read(fields, names) ==
  IF Has(fields, names)
    THEN fields[names[CHOOSE i \in DOMAIN names :
                        /\ names[i] \in DOMAIN fields
                        /\ \A j \in 1 .. i - 1 : names[j] \notin DOMAIN fields]]
    ELSE None

(* _optional_text, _text: whatever is there has a text; an empty one is    *)
(* none.                                                                   *)
HasText(v) == v.kind \notin {"none", "blank"}
OptionalText(fields, names) ==
  IF HasText(Read(fields, names)) THEN AsText(Read(fields, names)) ELSE None

(* _optional_int and _optional_bool of the normalizer raise for what they  *)
(* cannot convert.                                                         *)
IsInt(v)  == v.kind \in {"number", "digits", "flag"}
IsBool(v) ==
  \/ v.kind \in {"number", "flag", "truth word"}
  \/ v.kind = "digits" /\ v.n \in {0, 1}
ReadsAsInt(v)  == IsInt(v) \/ v.kind \in {"none", "blank"}
ReadsAsBool(v) == IsBool(v) \/ v.kind = "none"
OrOne(v) == IF IsInt(v) /\ v.n # 0 THEN v.n ELSE 1
AtLeast(v, least) == IsInt(v) => v.n >= least

-----------------------------------------------------------------------------
(* _adapt_tiktok_event.  Its _int and _bool give nothing for what they     *)
(* cannot convert.                                                         *)

IntOrNone(v)  == IF IsInt(v) THEN Number(v.n) ELSE None
BoolOrNone(v) == IF IsBool(v) THEN Flag(v.n # 0) ELSE None
TextOr(v, default) == IF HasText(v) THEN AsText(v) ELSE default

(* Only what is there goes into the dictionary.                            *)
Kept(fields) == [name \in {f \in DOMAIN fields : fields[f].kind # "none"} |-> fields[name]]
Merge(f, g) == [name \in DOMAIN f \cup DOMAIN g |->
                  IF name \in DOMAIN g THEN g[name] ELSE f[name]]

UserIds == <<"user_id", "id", "unique_id", "sec_uid", "userId">>

AdaptUser(v) ==
  LET user == v.fields
      id == OptionalText(user, UserIds)
      names == <<"username", "unique_id", "nickname">>
      displayNames == <<"display_name", "nickname", "name">>
  IN  IF v.kind # "object" \/ id.kind = "none" THEN None
      ELSE Object(Kept(
        [id |-> id, unique_id |-> OptionalText(user, names),
         nickname |-> OptionalText(user, displayNames),
         avatar_url |-> OptionalText(user, <<"avatar_url", "profile_picture_url">>),
         moderator |-> BoolOrNone(Read(user, <<"is_moderator", "moderator">>)),
         subscriber |-> BoolOrNone(Read(user, <<"is_subscriber", "subscriber">>))]))

NestedText(fields, name, nested) ==
  IF Read(fields, <<name>>).kind # "none"
    THEN OptionalText(fields, <<name>>)
    ELSE OptionalText(Read(fields, <<"gift">>).fields, <<nested>>)

AdaptedPayload(type, e) ==
  CASE type = "comment" -> [comment |-> TextOr(Read(e, <<"comment", "text">>), Blank)]
    [] type = "join" -> [viewer_count |-> IntOrNone(Read(e, <<"viewer_count", "viewerCount">>))]
    [] type = "gift" ->
         [gift |-> Object([id |-> TextOr(NestedText(e, "gift_id", "id"), Word("unknown")),
                           name |-> TextOr(NestedText(e, "gift_name", "name"),
                                           Word("Unknown Gift"))]),
          repeat_count |-> Number(OrOne(Read(e, <<"repeat_count", "repeatCount">>))),
          diamond_count |-> IntOrNone(Read(e, <<"diamond_count", "diamondCount">>)),
          repeat_end |-> BoolOrNone(Read(e, <<"repeat_end", "repeatEnd">>)),
          streaking |-> BoolOrNone(Read(e, <<"streaking", "is_streaking", "isStreaking">>))]
    [] type = "like" ->
         [like_count |-> Number(OrOne(Read(e, <<"like_count", "count">>))),
          total_like_count |->
            IntOrNone(Read(e, <<"total_like_count", "totalLikeCount", "total">>))]
    [] type = "follow" -> [followed |-> Flag(TRUE)]
    [] type = "connect" ->
         [message |-> TextOr(Read(e, <<"message">>), Word("connected")),
          connection_id |-> OptionalText(e, <<"connection_id", "client_id">>)]
    [] type = "disconnect" ->
         [reason |-> TextOr(Read(e, <<"reason">>), Word("disconnected")),
          code |-> OptionalText(e, <<"code">>)]
    [] OTHER ->
         [message |-> TextOr(Read(e, <<"message", "error">>), Word("event")),
          code |-> OptionalText(e, <<"code">>)]

(* _timestamp: a date stays one, anything else becomes its text.           *)
TimeNames == <<"timestamp", "timestamp_ms", "created_at", "create_time", "event_time">>
Timestamp(v) == IF v.kind \in {"none", "date"} THEN Date ELSE AsText(v)

Adapt(type, e) ==
  Kept(Merge(
    [type |-> Word(type), connector |-> Word("tiktok-live"),
     timestamp |-> Timestamp(Read(e, TimeNames)),
     user |-> AdaptUser(Read(e, <<"user_info", "user", "author">>))],
    AdaptedPayload(type, e)))

-----------------------------------------------------------------------------
(* TikTokEventNormalizer                                                   *)

AliasesOf ==
  [comment |-> {"chat", "comment", "commentevent"},
   join |-> {"join", "joinevent", "member", "memberevent"},
   gift |-> {"gift", "giftevent"}, like |-> {"like", "likeevent"},
   follow |-> {"follow", "followevent"},
   connect |-> {"connect", "connectevent", "connected"},
   disconnect |-> {"disconnect", "disconnectevent", "disconnected"},
   error |-> {"error", "errorevent"}]
Types == DOMAIN AliasesOf
Aliases == UNION {AliasesOf[t] : t \in Types}
TypeOfAlias(a) == CHOOSE t \in Types : a \in AliasesOf[t]

TypeNames == <<"event_type", "type", "kind", "event", "name", "__event_type__">>

(* An alias, else the longest alias the name ends with.                    *)
AliasSuffixes(name) == {a \in Aliases : <<name, a>> \in EndsWith}

(* Of the ends of one text, the longest ends with all the others.          *)
ASSUME EndsWithAssumption ==
  \A name \in {pair[1] : pair \in EndsWith} : AliasSuffixes(name) # {} =>
    \E a \in AliasSuffixes(name) : \A b \in AliasSuffixes(name) \ {a} : <<a, b>> \in EndsWith

DetectEventType(raw) ==
  LET name == OptionalText(raw, TypeNames).text
  IN  CASE name \in Aliases -> TypeOfAlias(name)
        [] name \notin Aliases /\ AliasSuffixes(name) # {} ->
             TypeOfAlias(CHOOSE a \in AliasSuffixes(name) :
                           \A b \in AliasSuffixes(name) \ {a} : <<a, b>> \in EndsWith)
        [] OTHER -> "unknown"

ReadsAsTime(v) ==
  \/ v.kind \in {"none", "number", "flag", "date"}
  \/ v.kind = "digits" /\ v.n >= 0

(* The user is the object of that name, or else the dictionary itself.     *)
UserSource(raw) ==
  IF Has(raw, <<"user", "author">>) THEN Read(raw, <<"user", "author">>).fields ELSE raw
UserId(raw) == OptionalText(UserSource(raw), UserIds)
BuildsUserWithoutId(raw) ==
  OptionalText(UserSource(raw), <<"avatar_url", "profile_picture_url">>).text # "not a URL"
BuildsUser(raw) ==
  LET user == UserSource(raw) IN
  /\ UserId(raw).kind # "none"
  /\ OptionalText(user, <<"avatar_url", "profile_picture_url">>).text # "not a URL"
  /\ ReadsAsBool(Read(user, <<"is_moderator", "moderator">>))
  /\ ReadsAsBool(Read(user, <<"is_subscriber", "subscriber">>))

HasRequiredText(raw, name, nested) ==
  \/ OptionalText(raw, <<name>>).kind # "none"
  \/ OptionalText(Read(raw, <<"gift">>).fields, <<nested>>).kind # "none"

IntAtLeast(v, least) == ReadsAsInt(v) /\ AtLeast(v, least)

Count(type, raw) ==
  CASE type = "gift" -> OrOne(Read(raw, <<"repeat_count">>))
    [] type = "like" -> OrOne(Read(raw, <<"like_count", "count">>))
    [] OTHER -> 0

(* The event's own constructor, with the checks of its models.             *)
BuildsPayload(type, raw) ==
  CASE type = "comment" -> OptionalText(raw, <<"comment", "text">>).kind # "none"
    [] type = "join" -> IntAtLeast(Read(raw, <<"viewer_count">>), 0)
    [] type = "gift" ->
         /\ HasRequiredText(raw, "gift_id", "id") /\ HasRequiredText(raw, "gift_name", "name")
         /\ ReadsAsInt(Read(raw, <<"repeat_count">>)) /\ Count(type, raw) >= 1
         /\ IntAtLeast(Read(raw, <<"diamond_count">>), 0)
         /\ ReadsAsBool(Read(raw, <<"repeat_end">>))
    [] type = "like" ->
         /\ ReadsAsInt(Read(raw, <<"like_count", "count">>)) /\ Count(type, raw) >= 1
         /\ IntAtLeast(Read(raw, <<"total_like_count", "total">>), 0)
    [] type = "follow" -> ReadsAsBool(Read(raw, <<"followed">>))
    [] type = "error" -> ReadsAsBool(Read(raw, <<"recoverable">>))
    [] OTHER -> TRUE

NeedsUser(type) == type \in {"comment", "join", "gift", "like", "follow"}

GatewayEvent(type, user, count, code) ==
  [type |-> type, user |-> user, count |-> count, code |-> code]
ErrorEvent == GatewayEvent("error", "", 0, "normalization_error")

(* normalize(): what raises on the way becomes an error event.             *)
Normalize(raw) ==
  LET type == DetectEventType(raw)
  IN  IF /\ type # "unknown"
         /\ ReadsAsTime(Read(raw, TimeNames))
         /\ NeedsUser(type) => BuildsUser(raw)
         /\ BuildsPayload(type, raw)
        THEN GatewayEvent(type, IF NeedsUser(type) THEN UserId(raw).text ELSE "",
                          Count(type, raw),
                          IF type \in {"disconnect", "error"}
                            THEN OptionalText(raw, <<"code">>).text ELSE "")
        ELSE ErrorEvent
=============================================================================
