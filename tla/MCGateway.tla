----------------------------- MODULE MCGateway -----------------------------
(* Instances of Gateway for TLC. *)
EXTENDS Gateway
CONSTANTS a, b

NoOne == {}
NoInvitations == {}
OneBroadcaster == {a}
AInvitesB == {<<a, b>>}
============================================================================
