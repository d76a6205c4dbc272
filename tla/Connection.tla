----------------------------- MODULE Connection -----------------------------
(***************************************************************************)
(* What a hub connection relies on in the connection under it (the         *)
(* IConnection that HubConnection of signalr.js gets): one start at a      *)
(* time, whose promise is settled only when the connection is up or down   *)
(* again, and one onclose for each start that was resolved, after which    *)
(* the connection can be started again.                                    *)
(***************************************************************************)
VARIABLES
  phase,    \* the state the connection is in
  promise,  \* the promise of the last start(), until the caller has seen it
  open      \* an onclose is owed to the caller

vars == <<phase, promise, open>>

Phase == {"Disconnected", "Connecting", "Connected", "Disconnecting"}

Init == phase = "Disconnected" /\ promise = "none" /\ open = FALSE

(* The caller starts a connection only when it is down.                    *)
Start ==
  /\ phase = "Disconnected" /\ promise = "none" /\ ~open
  /\ phase' = "Connecting" /\ promise' = "pending"
  /\ UNCHANGED open

Connect ==
  /\ phase = "Connecting" /\ promise = "pending"
  /\ phase' = "Connected"
  /\ UNCHANGED <<promise, open>>

Stop ==
  /\ phase \in {"Connecting", "Connected"}
  /\ phase' = "Disconnecting"
  /\ UNCHANGED <<promise, open>>

(* The connection goes down: onclose is called if the start was resolved.  *)
GoDown ==
  /\ phase # "Disconnected"
  /\ phase' = "Disconnected" /\ open' = FALSE
  /\ UNCHANGED promise

Resolve ==
  /\ promise = "pending" /\ phase = "Connected" /\ ~open
  /\ promise' = "resolved" /\ open' = TRUE
  /\ UNCHANGED phase

Reject ==
  /\ promise = "pending" /\ phase = "Disconnected"
  /\ promise' = "rejected"
  /\ UNCHANGED <<phase, open>>

(* The caller's continuation takes the settled promise.                    *)
Take ==
  /\ promise \in {"resolved", "rejected"}
  /\ promise' = "none"
  /\ UNCHANGED <<phase, open>>

Next == Start \/ Connect \/ Stop \/ GoDown \/ Resolve \/ Reject \/ Take

Settles == promise = "pending" ~> promise # "pending"

Spec == Init /\ [][Next]_vars

FairSpec == Spec /\ Settles
=============================================================================
