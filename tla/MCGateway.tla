------------------------------ MODULE MCGateway ------------------------------
(* The gateway for TLC: with and without bridge and event log, as a        *)
(* replay, and messages of every kind: adapted from a TikTokLive client,   *)
(* of the mock connector, from objects whose names only end like a type,   *)
(* and bad ones.                                                           *)
EXTENDS Gateway

Setting(mode, hasBridge, hasWriter) ==
  [mode |-> mode, bridge |-> hasBridge, writer |-> hasWriter]
SomeSettings ==
  {Setting("live", TRUE, TRUE), Setting("live", FALSE, TRUE), Setting("live", TRUE, FALSE),
   Setting("live", FALSE, FALSE), Setting("replay", FALSE, FALSE)}

Message(name, raw, means) == [name |-> name, raw |-> raw, means |-> means]
Ana == Object([user_id |-> Word("ana"), nickname |-> Word("Ana")])
Seven == Object([id |-> Number(7), is_moderator |-> Flag(TRUE)])
NoUrl == Object([id |-> Word("bo"), avatar_url |-> Word("not a URL")])

SomeMessages ==
  {Message("gift", Adapt("gift", [user |-> Seven, gift |-> Object([name |-> Word("Rose")]),
                                  repeat_count |-> Number(0), create_time |-> Number(9)]),
           "gift"),
   Message("noText", Adapt("comment", [user |-> Ana]), "bad input"),
   Message("noUser", Adapt("follow", [user |-> Object([nickname |-> Word("Ana")])]),
                      "bad input"),
   Message("flatLike", [type |-> Word("like"), id |-> Word("ana"), count |-> Blank], "like"),
   Message("badCount", [type |-> Word("join"), user |-> Ana, viewer_count |-> Number(-1)],
                        "bad input"),
   Message("byName", [type |-> Word("FakeDisconnectEvent"), code |-> Word("shutdown")],
                      "disconnect"),
   Message("badUser", [type |-> Word("chat"), user |-> NoUrl, text |-> Word("hi")],
                       "bad input"),
   Message("unknown", [type |-> Word("emote"), user |-> Ana], "bad input")}

SomeEndings ==
  {<<"FakeDisconnectEvent", "disconnectevent">>, <<"FakeDisconnectEvent", "connectevent">>,
   <<"disconnectevent", "connectevent">>, <<"disconnect", "connect">>,
   <<"disconnected", "connected">>}
=============================================================================
