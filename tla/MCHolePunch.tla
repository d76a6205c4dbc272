---------------------------- MODULE MCHolePunch ----------------------------
(* Instances of HolePunch for TLC. *)
EXTENDS HolePunch, TLC
CONSTANTS a, b, c, lanB, wanA, wanB, wanC

\* b's private address is c's in the network of a, and a's NAT lets nothing of b
\* in; each hub reaches itself.
MCLan == a :> << >> @@ b :> <<lanB>> @@ c :> << >>
MCWan == a :> wanA @@ b :> wanB @@ c :> wanC
Wide == lanB :> b @@ wanA :> a @@ wanB :> b @@ wanC :> c
MCReach == a :> [Wide EXCEPT ![lanB] = c] @@ b :> [Wide EXCEPT ![wanA] = None] @@ c :> Wide

\* a calls b, and b calls a, which makes a's listener probe too.
OneCall == a :> <<b>> @@ b :> << >> @@ c :> << >>
CrossCalls == a :> <<b>> @@ b :> <<a>> @@ c :> << >>
============================================================================
