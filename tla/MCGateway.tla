------------------------------- MODULE MCGateway -------------------------------
(* The gateway process for TLC: a connection on each of its two            *)
(* listeners, one of them with two channels that compete for its target leg.  *)
EXTENDS Gateway, TLC

CONSTANTS c1, c2, h1, h2, ssh, tls

AllConns == {c1, c2}
OnePortEach == (c1 :> ssh) @@ (c2 :> tls)
AllHandlers == {h1, h2}
FirstOnly == {<<c1, h1>>, <<c1, h2>>}
=============================================================================
