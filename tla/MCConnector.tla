----------------------------- MODULE MCConnector -----------------------------
(* The connectors for TLC: every kind of producer, with TikTokLive once    *)
(* with and once without reconnecting, and clients that report comments    *)
(* and gift combos that go on.                                             *)
EXTENDS Connector

Connect(provider, reconnect) == [provider |-> provider, reconnect |-> reconnect]

AllConnectors ==
  {Connect("mock", FALSE), Connect("failing", FALSE), Connect("missing", TRUE),
   Connect("tiktok", FALSE), Connect("tiktok", TRUE)}
Reconnecting == {Connect("tiktok", TRUE)}

CommentsAndGifts ==
  {Payload("comment", "none", "none"), Payload("gift", "none", "true")}
JustComments == {Payload("comment", "none", "none")}
=============================================================================
