------------------------------- MODULE Browser -------------------------------
(***************************************************************************)
(* The hub's web page beside the hub's directory: HubManager's event       *)
(* subscriptions, which send every event to the browsers that are          *)
(* connected, HubService, which connects the page, and PeerService, which  *)
(* keeps the list of hubs the page shows.                                  *)
(*                                                                         *)
(* A step of the directory that publishes an event writes it, in the same  *)
(* step, to the connection of an open page: Publish runs its subscribers   *)
(* on the publishing thread.  The connection is SignalR's: it keeps the    *)
(* order and may be lost.  Events PeerService does not look at are left    *)
(* out; ConnectionStartedEvent is handled like ConnectionUpdatedEvent.     *)
(*                                                                         *)
(* RemoveNothing is a wrong version of the definition that follows it, for *)
(* the property to notice.                                                 *)
(***************************************************************************)
EXTENDS Directory

CONSTANT MaxLoads  \* how often the page is opened or reloaded

ASSUME BrowserAssumption == MaxLoads \in Nat

VARIABLES
  conn,   \* the page's connection to the hub
  wire,   \* events the hub sent and the page has not handled
  peers,  \* PeerService.peers: the Id of every hub the page shows
  loads   \* how often the page was loaded

page == <<conn, wire, peers, loads>>
allVars == <<vars, page>>

Event(n, h) == [name |-> n, id |-> h]
Events == [name : {"ADDED", "REMOVED", "UPDATED"}, id : Id]

BrowserInit ==
  /\ Init
  /\ conn = "closed"
  /\ wire = << >>
  /\ peers = << >>
  /\ loads = 0

------------------------------------------------------------------------------
(* The hub: Clients.All.SendAsync("Event", e), when each event is published. *)

SendAsync(n, h) ==
  /\ wire' = IF conn = "open" THEN Append(wire, Event(n, h)) ELSE wire
  /\ UNCHANGED <<conn, peers, loads>>

PublishAdded == \E t \in Thread : Added(t) /\ SendAsync("ADDED", msg[t].id)
PublishUpdated == \E t \in Thread : Updated(t) /\ SendAsync("UPDATED", msg[t].id)
PublishNewPort == NewPort /\ SendAsync("UPDATED", msg[UDP].id)
PublishRemoved == Removed /\ SendAsync("REMOVED", msg[TCP].id)

HubPublishes == PublishAdded \/ PublishUpdated \/ PublishNewPort \/ PublishRemoved

\* The directory's other steps.  GatewayShutdownEvent is sent too, and
\* PeerService ignores it.
HubWorks ==
  /\ \/ ReceiveTcp \/ ReceiveUdp
     \/ \E t \in Thread : Enter(t) \/ Lookup(t) \/ Add(t) \/ Update(t)
     \/ FindGone \/ Remove \/ Unlink \/ Clear
     \/ FindAsker \/ NewAddress
  /\ UNCHANGED page

------------------------------------------------------------------------------
(* HubService.                                                             *)

\* The page is opened or reloaded: both services start anew.
Load ==
  /\ loads < MaxLoads
  /\ loads' = loads + 1
  /\ conn' = "starting"
  /\ wire' = << >>
  /\ peers' = << >>
  /\ UNCHANGED vars

\* start() succeeds, or fails and sets a timer.
Started ==
  /\ conn = "starting"
  /\ conn' = "open"
  /\ UNCHANGED <<wire, peers, loads, vars>>
StartFails ==
  /\ conn = "starting"
  /\ conn' = "waiting"
  /\ UNCHANGED <<wire, peers, loads, vars>>

\* The timer's callback is a function with a `this' of its own, which has no
\* startConnection: it throws, and nobody catches it.
Retry ==
  /\ conn = "waiting"
  /\ conn' = "closed"
  /\ UNCHANGED <<wire, peers, loads, vars>>

\* The connection breaks, with what was on it; nothing listens for that.
Lose ==
  /\ conn = "open"
  /\ conn' = "closed"
  /\ wire' = << >>
  /\ UNCHANGED <<peers, loads, vars>>

------------------------------------------------------------------------------
(* PeerService: the handler of eventReceived.                              *)

\* peers.findIndex(id): -1 when no element has it.  Indices start at 0.
FindIndex(h) ==
  LET at == {i \in DOMAIN peers : peers[i] = h} IN
    IF at = {} THEN -1 ELSE Min(at) - 1

\* peers.splice(index) has no count: it removes every element from the index
\* on, and the last element for the index -1.
RemoveNothing(i) == peers
Splice(i) ==
  SubSeq(peers, 1, IF i = -1 THEN Len(peers) - 1 ELSE i)

\* peers[index] = message: the index -1 is a property, not an element.
Replace(i, h) == [peers EXCEPT ![i + 1] = h]

Receive ==
  /\ conn = "open"
  /\ wire # << >>
  /\ LET e == Head(wire)
         i == FindIndex(e.id) IN
       peers' = CASE e.name = "ADDED" -> Append(peers, e.id)
                  [] e.name = "REMOVED" -> Splice(i)
                  [] e.name = "UPDATED" -> Replace(i, e.id)
  /\ wire' = Tail(wire)
  /\ UNCHANGED <<conn, loads, vars>>

------------------------------------------------------------------------------
HubStep == HubPublishes \/ HubWorks
PageStep == Load \/ Started \/ StartFails \/ Retry \/ Lose \/ Receive

BrowserNext == HubStep \/ PageStep

BrowserSpec == BrowserInit /\ [][BrowserNext]_allVars

------------------------------------------------------------------------------
Shown == {peers[i] : i \in DOMAIN peers}
Listed == {recs[r].id : r \in listed}

\* The page handled everything the hub published and the hub is idle.
Settled == conn = "open" /\ wire = << >> /\ Quiet /\ linked

\* When the gateway's stream is all the hub hears, a settled page shows no hub
\* twice and none that left: however often it was reloaded or came late, and
\* although an event may name a hub it does not know.
ShownHubIsListed ==
  Settled /\ datagrams = 0 => /\ Shown \subseteq Listed
             /\ Len(peers) = Cardinality(Shown)

==============================================================================
