------------------------------ MODULE MCFraming ------------------------------
(* Instances of Framing for TLC: what hubs and gateways write.             *)
EXTENDS Framing

\* A hub announces itself, stays alive and broadcasts; a keep-alive and another
\* broadcast follow.
FromHub == <<<<INFO, 5>>, <<KEEPALIVE, 2>>, <<BROADCAST, 4>>>>

\* A gateway relays an info and tells of its test message and of a hub that
\* left.
FromGateway == <<<<MSG, 4>>, <<INFO, 5>>, <<NOTIFY, 3>>>>

MCTraffic ==
  [to \in {"HUB", "GATEWAY"} |-> IF to = "HUB" THEN FromGateway ELSE FromHub]
==============================================================================
