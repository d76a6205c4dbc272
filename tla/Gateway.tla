------------------------------- MODULE Gateway -------------------------------
(***************************************************************************)
(* The orchestration gateway: GatewayManager, its ConnectionManager and    *)
(* the gateway's message handlers, with the threads they run on.           *)
(*                                                                         *)
(* One thread receives every UDP datagram (UDP), one thread per accepted   *)
(* TCP client reads that client's stream (a member of Client), and the     *)
(* host's own thread runs StopAsync (MAIN).  They share the list of        *)
(* HubInfo records, which only Add and Remove lock, the fields of those    *)
(* records, which nothing locks, and the field udpEndpoint.                *)
(*                                                                         *)
(* The hubs are the environment: they follow HubManager.ConnectGateway     *)
(* (connect, one UDP info, one TCP info 550 ms later), may broadcast,      *)
(* invite a peer, and go away without a word.                              *)
(*                                                                         *)
(* SubjectByEndpoint, VictimById, RecipientIsSender, WithEndpoint,         *)
(* ByAnyClient, RemoveQuietly, CloseWithoutRemove and ReadFailureIsLogged  *)
(* are wrong versions of the definitions that follow them: bugs the        *)
(* properties must notice.  Nothing else uses them.                        *)
(***************************************************************************)
EXTENDS Naturals, Sequences, FiniteSets, FiniteSetsExt

CONSTANTS
  Hub,           \* the hubs, named by HubInfo.Id
  MaxConnects,   \* how often one hub connects with the same Id
  Broadcasters,  \* the hubs that send one BroadcastMessage To = "HUB"
  Invitations,   \* pairs <<h, g>>: hub h sends one ReqMessage for hub g
  Reachable,     \* the hubs whose UDP datagrams may get through
  Leavers,       \* the hubs whose TCP connection may end
  Stops,         \* TRUE when the host may stop the gateway
  UDP,           \* the thread of UdpWorker
  MAIN,          \* the thread of StopAsync
  None           \* the null reference

Client == Hub \X (1..MaxConnects)    \* <<h, n>>: the n-th TcpClient of hub h
Owner(c) == c[1]
Thread == Client \cup {UDP, MAIN}

ASSUME GatewayAssumption ==
  /\ MaxConnects \in Nat
  /\ Broadcasters \subseteq Hub
  /\ Invitations \subseteq Hub \X Hub
  /\ Reachable \subseteq Hub
  /\ Leavers \subseteq Hub
  /\ Stops \in BOOLEAN
  /\ UDP # MAIN /\ UDP \notin Client /\ MAIN \notin Client
  /\ None \notin Client /\ None \notin Hub

\* What a hub writes to its TCP stream.  KeepAlive and MSG only log.
Info == [type |-> "INFO", to |-> None]
Relay == [type |-> "BROADCAST", to |-> None]
Req(g) == [type |-> "REQ", to |-> g]
Message == {Info, Relay} \cup {Req(g) : g \in Hub}

\* HubInfo: the fields the handlers test.
Record == [id : Hub, client : Client \cup {None}, ep : BOOLEAN,
           initialized : BOOLEAN]

VARIABLES
  recs,         \* every HubInfo ever allocated, in allocation order
  listed,       \* ConnectionManager.Connections, as indices of recs: a record
                \* is added once, when allocated, so list order is index order
  udpEndpoint,  \* GatewayManager.udpEndpoint: sender of the last datagram
  pc,           \* what each thread does next
  ref,          \* the HubInfo a thread's handler holds, 0 for null
  todo,         \* the records a thread's foreach has yet to visit
  seen,         \* the list's version when the thread's enumerator started
  to,           \* RecipientId of the ReqMessage a thread handles
  sock,         \* each TcpClient
  queue,        \* what the hub wrote and the worker has not read
  sent,         \* what the hub has written since it connected
  datagrams,    \* UDP infos in flight, named by the connection they announce
  told,         \* hubs the client was sent an info of and no Disconnected since
  introduced,   \* hubs whose info was sent to the hub's UDP endpoint
  inbox,        \* Broadcast, Req and ServerShutdown delivered to the client
  up            \* the gateway process runs

store == <<recs, listed>>
hubside == <<sent, datagrams>>
streams == <<told, introduced, inbox>>
vars == <<recs, listed, udpEndpoint, pc, ref, todo, seen, to, sock, queue,
          sent, datagrams, told, introduced, inbox, up>>

Init ==
  /\ recs = << >>
  /\ listed = {}
  /\ udpEndpoint = None
  /\ pc = [t \in Thread |-> IF t \in Client THEN "off" ELSE "recv"]
  /\ ref = [t \in Thread |-> 0]
  /\ todo = [t \in Thread |-> {}]
  /\ seen = [t \in Thread |-> <<0, {}>>]
  /\ to = [t \in Thread |-> None]
  /\ sock = [c \in Client |-> "idle"]
  /\ queue = [c \in Client |-> << >>]
  /\ sent = [c \in Client |-> {}]
  /\ datagrams = {}
  /\ told = [c \in Client |-> {}]
  /\ introduced = [h \in Hub |-> {}]
  /\ inbox = [c \in Client |-> {}]
  /\ up = TRUE

------------------------------------------------------------------------------
(* Where a thread goes.                                                    *)

\* Thread t goes on at pc l, holding record r, having the records S to visit.
Goto(t, l, r, S) ==
  /\ pc' = [pc EXCEPT ![t] = l]
  /\ ref' = [ref EXCEPT ![t] = r]
  /\ todo' = [todo EXCEPT ![t] = S]
  /\ UNCHANGED up

\* What List counts as its version: records are added once and removed once,
\* so no two versions have the same records ever added and the same listed.
Version == <<Len(recs), listed>>
Versions == Nat \X SUBSET Nat

\* Thread t starts enumerating the live list, and is done with it.
Enumerate(t) == seen' = [seen EXCEPT ![t] = Version]
Enumerated(t) == seen' = [seen EXCEPT ![t] = <<0, {}>>]

\* Thread t goes back to its receive loop, or ends.
Return(t) ==
  /\ Goto(t, "recv", 0, {})
  /\ Enumerated(t)
  /\ to' = [to EXCEPT ![t] = None]

\* StopAsync is over and the process ends.
Stopped ==
  /\ up' = FALSE
  /\ pc' = [pc EXCEPT ![MAIN] = "done"]
  /\ UNCHANGED <<ref, todo, seen, to>>

\* An exception leaves the handler.  The UDP loop logs it and drops the
\* datagram; a TCP loop catches it and calls Disconnect, whose GetConnection
\* enumerates the list; one that leaves Disconnect leaves the thread, and one
\* that leaves StopAsync ends the host: either way the process ends.
Raise(t) ==
  \/ /\ t = UDP
     /\ Return(t)
  \/ /\ t \in Client
     /\ pc[t] \notin {"disconnect", "notify", "final"}
     /\ Goto(t, "disconnect", 0, {})
     /\ Enumerate(t)
     /\ to' = [to EXCEPT ![t] = None]
  \/ /\ t \in Client
     /\ pc[t] \in {"disconnect", "notify", "final"}
     /\ up' = FALSE
     /\ UNCHANGED <<pc, ref, todo, seen, to>>
  \/ /\ t = MAIN
     /\ Stopped

\* The list changed since thread t's enumerator started.
Stale(t) == Version # seen[t]

\* The records GetBroadcastConnections(true) copies.
WithEndpoint(ls) == {r \in ls : recs[r].ep}
WithClient(ls) == {r \in ls : recs[r].client # None}

\* The record GetConnection finds: the first of the list that satisfies.
First(S) == IF S = {} THEN 0 ELSE Min(S)
ById(h) == {r \in listed : recs[r].id = h}
ByAnyClient(c) == {r \in listed : recs[r].client # None}
ByClient(c) == {r \in listed : recs[r].client = c}

\* The hub whose message thread t handles: message.Id.
SubjectByEndpoint(t) == udpEndpoint
Subject(t) == IF t = UDP THEN udpEndpoint ELSE Owner(t)

\* The record Disconnect(client) removes.
VictimById(c) == First(ById(Owner(c)))
Victim(c) == First(ByClient(c))

\* The record of the hub an invitation is for.
RecipientIsSender(t) == First(ById(Subject(t)))
Recipient(t) == First(ById(to[t]))

------------------------------------------------------------------------------
(* Sending.                                                                *)

\* What a message sent by thread t to client c does to the hub reading there.
Deliver(t, c) ==
  CASE pc[t] = "inform" ->
         /\ told' = [told EXCEPT ![c] = @ \cup {recs[ref[t]].id}]
         /\ UNCHANGED <<introduced, inbox>>
    [] pc[t] = "notify" ->
         /\ told' = [told EXCEPT ![c] = @ \ {recs[ref[t]].id}]
         /\ UNCHANGED <<introduced, inbox>>
    [] pc[t] \in {"relay", "forward"} ->
         /\ inbox' = [inbox EXCEPT ![c] = @ \cup
              {[type |-> IF pc[t] = "relay" THEN "BROADCAST" ELSE "REQ",
                from |-> Subject(t)]}]
         /\ UNCHANGED <<told, introduced>>
    [] pc[t] = "stop" ->
         /\ inbox' = [inbox EXCEPT ![c] = @ \cup {[type |-> "SHUTDOWN", from |-> None]}]
         /\ UNCHANGED <<told, introduced>>
    [] OTHER -> UNCHANGED streams

\* SendTCP returns: no client, one that is not Connected, a hub that reads, or
\* a hub that is gone while the kernel still takes the bytes.
SendTCP(t, c) ==
  /\ IF c # None /\ sock[c] = "open" THEN Deliver(t, c) ELSE UNCHANGED streams
  /\ UNCHANGED sock

\* NetStream.Write throws: the peer has reset; Connected is FALSE from now on.
SendFails(t, c) ==
  /\ c # None
  /\ sock[c] = "gone"
  /\ sock' = [sock EXCEPT ![c] = "broken"]
  /\ Raise(t)
  /\ UNCHANGED streams

\* One turn of a foreach that calls SendTCP: the next record, in list order.
SendNext(t) ==
  LET r == Min(todo[t]) IN
  \/ /\ SendTCP(t, recs[r].client)
     /\ Goto(t, pc[t], ref[t], todo[t] \ {r})
     /\ UNCHANGED <<seen, to>>
  \/ SendFails(t, recs[r].client)

------------------------------------------------------------------------------
(* The hubs.                                                               *)

\* ConnectGateway: a new TcpClient, accepted by TcpWorker, which gives it a
\* thread; the hub's one UDP info goes out, and may be lost.  The Id of a hub
\* stays when its loop connects again after an outage.
Connect(c) ==
  /\ up
  /\ sock[c] = "idle"
  /\ \A n \in 1..(c[2] - 1) : sock[<<Owner(c), n>>] \in {"gone", "broken", "closed"}
  /\ sock' = [sock EXCEPT ![c] = "open"]
  /\ pc' = [pc EXCEPT ![c] = "recv"]
  /\ \/ Owner(c) \in Reachable /\ datagrams' = datagrams \cup {c}
     \/ UNCHANGED datagrams
  /\ UNCHANGED <<store, udpEndpoint, ref, todo, seen, to, queue, sent, streams, up>>

\* SendMessageTCP: the hub's info first, 550 ms after it connected, then the
\* broadcast and the invitations it has to send, each once.
HubSends(c, m) ==
  /\ up
  /\ sock[c] = "open"
  /\ m \notin sent[c]
  /\ \/ m = Info
     \/ Info \in sent[c] /\ m = Relay /\ Owner(c) \in Broadcasters
     \/ Info \in sent[c] /\ m.type = "REQ" /\ <<Owner(c), m.to>> \in Invitations
  /\ sent' = [sent EXCEPT ![c] = @ \cup {m}]
  /\ queue' = [queue EXCEPT ![c] = Append(@, m)]
  /\ UNCHANGED <<store, udpEndpoint, pc, ref, todo, seen, to, sock, datagrams, streams, up>>

\* The hub's end of the connection closes or dies: what it wrote is still
\* read, or, when the connection was reset, is lost.
Leave(c) ==
  /\ up
  /\ sock[c] = "open"
  /\ Owner(c) \in Leavers
  /\ sock' = [sock EXCEPT ![c] = "gone"]
  /\ queue' \in {queue, [queue EXCEPT ![c] = << >>]}
  /\ UNCHANGED <<store, udpEndpoint, pc, ref, todo, seen, to, hubside, streams, up>>

------------------------------------------------------------------------------
(* Receiving.                                                              *)

\* UdpWorker: Udp.Receive overwrites the shared udpEndpoint with the sender;
\* the handler starts with GetConnection.
ReceiveUdp(c) ==
  /\ up
  /\ pc[UDP] = "recv"
  /\ c \in datagrams
  /\ datagrams' = datagrams \ {c}
  /\ udpEndpoint' = Owner(c)
  /\ Goto(UDP, "lookup", 0, {})
  /\ Enumerate(UDP)
  /\ UNCHANGED <<store, to, sock, queue, sent, streams>>

\* The worker of c deserializes a message and dispatches it by its type.
ReceiveTcp(c) ==
  /\ up
  /\ pc[c] = "recv"
  /\ sock[c] \in {"open", "gone"}
  /\ queue[c] # << >>
  /\ LET m == Head(queue[c]) IN
       /\ CASE m.type = "INFO" -> Goto(c, "lookup", 0, {})
            [] m.type = "REQ" -> Goto(c, "forward", 0, {})
            [] m.type = "BROADCAST" -> Goto(c, "relay", 0, listed)
       /\ to' = [to EXCEPT ![c] = m.to]
  /\ queue' = [queue EXCEPT ![c] = Tail(@)]
  /\ Enumerate(c)
  /\ UNCHANGED <<store, udpEndpoint, sock, hubside, streams>>

\* The read throws (the hub is gone and all it wrote is read, or the socket
\* broke under a write), or the loop sees that the client is not Connected.
ReadFailureIsLogged(c) ==
  /\ up
  /\ pc[c] = "recv"
  /\ sock[c] \in {"gone", "broken"}
  /\ Return(c)
  /\ UNCHANGED <<store, udpEndpoint, sock, queue, hubside, streams>>
ReadFails(c) ==
  /\ up
  /\ pc[c] = "recv"
  /\ \/ sock[c] = "gone" /\ queue[c] = << >>
     \/ sock[c] = "broken"
  /\ Raise(c)
  /\ UNCHANGED <<store, udpEndpoint, sock, queue, hubside, streams>>

------------------------------------------------------------------------------
(* InfoMessageGatewayHandler.                                              *)

\* GetConnection(message.Id), without the lock: it may throw when the list
\* changed under it.  A record that is found is updated in place.
Lookup(t) ==
  /\ up
  /\ pc[t] = "lookup"
  /\ \/ LET r == First(ById(Subject(t))) IN
          /\ Goto(t, IF r = 0 THEN "add" ELSE "set", r, {})
          /\ Enumerated(t)
          /\ UNCHANGED to
     \/ Stale(t) /\ Raise(t)
  /\ UNCHANGED <<store, udpEndpoint, sock, queue, hubside, streams>>

\* The lookup found nothing: a new HubInfo is added, whatever has been added
\* since.
Add(t) ==
  /\ up
  /\ pc[t] = "add"
  /\ recs' = Append(recs, [id |-> Subject(t), client |-> None, ep |-> FALSE,
                           initialized |-> FALSE])
  /\ listed' = listed \cup {Len(recs) + 1}
  /\ Goto(t, "set", Len(recs) + 1, {})
  /\ UNCHANGED <<udpEndpoint, seen, to, sock, queue, hubside, streams>>

\* The record takes the endpoint (UDP) or the client (TCP) of the message.
SetFields(t) ==
  /\ up
  /\ pc[t] = "set"
  /\ recs' = IF t = UDP THEN [recs EXCEPT ![ref[t]].ep = TRUE]
                        ELSE [recs EXCEPT ![ref[t]].client = t]
  /\ Goto(t, "copy", ref[t], {})
  /\ UNCHANGED <<listed, udpEndpoint, seen, to, sock, queue, hubside, streams>>

\* BroadcastTCP(hubInfo) copies the connections that have a client.
Copy(t) ==
  /\ up
  /\ pc[t] = "copy"
  /\ Goto(t, "inform", ref[t], WithClient(listed))
  /\ UNCHANGED <<store, udpEndpoint, seen, to, sock, queue, hubside, streams>>

\* BroadcastTCP sends to the next copied connection, the sender's too.
Inform(t) ==
  /\ up
  /\ pc[t] = "inform"
  /\ todo[t] # {}
  /\ SendNext(t)
  /\ UNCHANGED <<store, udpEndpoint, queue, hubside>>

\* The broadcast is out.  A record that is not Initialized gets a test message
\* on the protocol the info came by and, once it has both endpoint and client,
\* is introduced to everyone: the foreach over the live list starts.
Greet(t) ==
  /\ up
  /\ pc[t] = "inform"
  /\ todo[t] = {}
  /\ LET r == recs[ref[t]] IN
       \/ /\ r.initialized
          /\ Return(t)
          /\ UNCHANGED <<sock, streams>>
       \/ /\ ~r.initialized
          /\ r.client # None /\ r.ep
          /\ Goto(t, "introduce", ref[t], listed)
          /\ Enumerate(t)
          /\ UNCHANGED <<to, sock, streams>>
       \/ /\ ~r.initialized
          /\ ~(r.client # None /\ r.ep)
          /\ Return(t)
          /\ UNCHANGED <<sock, streams>>
       \/ /\ ~r.initialized
          /\ t # UDP
          /\ SendFails(t, r.client)
  /\ UNCHANGED <<store, udpEndpoint, queue, hubside>>

\* SendUDP(ci, hubInfo.ExternalEndpoint) for every record of the live list.
\* SendUDP ignores its endpoint: the info goes to the shared udpEndpoint.
Introduce(t) ==
  /\ up
  /\ pc[t] = "introduce"
  /\ \/ /\ Stale(t)
        /\ Raise(t)
        /\ UNCHANGED <<recs, introduced>>
     \/ /\ ~Stale(t)
        /\ todo[t] # {}
        /\ LET r == Min(todo[t]) IN
             /\ introduced' = [introduced EXCEPT ![udpEndpoint] = @ \cup {recs[r].id}]
             /\ Goto(t, "introduce", ref[t], todo[t] \ {r})
        /\ UNCHANGED <<recs, seen, to>>
     \/ /\ ~Stale(t)
        /\ todo[t] = {}
        /\ recs' = [recs EXCEPT ![ref[t]].initialized = TRUE]
        /\ Return(t)
        /\ UNCHANGED introduced
  /\ UNCHANGED <<listed, udpEndpoint, sock, queue, hubside, told, inbox>>

------------------------------------------------------------------------------
(* ReqMessageGatewayHandler and BroadcastMessageGatewayHandler.            *)

\* The invitation is forwarded to the recipient's client, if it is listed.
Forward(t) ==
  /\ up
  /\ pc[t] = "forward"
  /\ LET r == Recipient(t) IN
       \/ /\ SendTCP(t, IF r = 0 THEN None ELSE recs[r].client)
          /\ Return(t)
       \/ /\ r # 0
          /\ SendFails(t, recs[r].client)
       \/ /\ Stale(t)
          /\ Raise(t)
          /\ UNCHANGED <<sock, streams>>
  /\ UNCHANGED <<store, udpEndpoint, queue, hubside>>

\* To = "HUB": a foreach over the live list, the source included.
RelayBroadcast(t) ==
  /\ up
  /\ pc[t] = "relay"
  /\ \/ /\ Stale(t)
        /\ Raise(t)
        /\ UNCHANGED <<sock, streams>>
     \/ /\ ~Stale(t)
        /\ todo[t] # {}
        /\ SendNext(t)
     \/ /\ ~Stale(t)
        /\ todo[t] = {}
        /\ Return(t)
        /\ UNCHANGED <<sock, streams>>
  /\ UNCHANGED <<store, udpEndpoint, queue, hubside>>

------------------------------------------------------------------------------
(* Disconnect and StopAsync.                                               *)

\* Disconnect: GetConnection(client).  Without a record nothing is closed, and
\* the loop goes on as long as the client counts as Connected.
DisconnectLookup(c) ==
  /\ up
  /\ pc[c] = "disconnect"
  /\ \/ /\ Victim(c) # 0
        /\ Goto(c, "remove", Victim(c), {})
        /\ Enumerated(c)
        /\ UNCHANGED to
     \/ /\ Victim(c) = 0
        /\ IF sock[c] = "broken" THEN Goto(c, "final", 0, {}) /\ Enumerate(c) /\ UNCHANGED to
                                 ELSE Return(c)
     \/ Stale(c) /\ Raise(c)
  /\ UNCHANGED <<store, udpEndpoint, sock, queue, hubside, streams>>

\* RemoveConnection, client.Close, and the copy BroadcastTCP makes.
RemoveQuietly(c) ==
  /\ up
  /\ pc[c] = "remove"
  /\ listed' = listed \ {ref[c]}
  /\ sock' = [sock EXCEPT ![c] = "closed"]
  /\ Goto(c, "notify", ref[c], {})
  /\ UNCHANGED <<recs, udpEndpoint, seen, to, queue, hubside, streams>>
CloseWithoutRemove(c) ==
  /\ up
  /\ pc[c] = "remove"
  /\ sock' = [sock EXCEPT ![c] = "closed"]
  /\ Goto(c, "notify", ref[c], WithClient(listed))
  /\ UNCHANGED <<store, udpEndpoint, seen, to, queue, hubside, streams>>
Remove(c) ==
  /\ up
  /\ pc[c] = "remove"
  /\ listed' = listed \ {ref[c]}
  /\ sock' = [sock EXCEPT ![c] = "closed"]
  /\ Goto(c, "notify", ref[c], WithClient(listed'))
  /\ UNCHANGED <<recs, udpEndpoint, seen, to, queue, hubside, streams>>

\* BroadcastTCP(Notification Disconnected), then the loop ends.
Notify(c) ==
  /\ up
  /\ pc[c] = "notify"
  /\ \/ todo[c] # {} /\ SendNext(c)
     \/ /\ todo[c] = {}
        /\ Goto(c, "final", 0, {})
        /\ Enumerate(c)
        /\ UNCHANGED <<to, sock, streams>>
  /\ UNCHANGED <<store, udpEndpoint, queue, hubside>>

\* The Disconnect after the loop: outside any try, and on a client that is
\* closed by now, whose RemoteEndPoint no one can read.
FinalDisconnect(c) ==
  /\ up
  /\ pc[c] = "final"
  /\ \/ /\ Victim(c) = 0
        /\ Goto(c, "done", 0, {})
        /\ Enumerated(c)
        /\ UNCHANGED to
     \/ Victim(c) # 0 /\ Raise(c)
     \/ Stale(c) /\ Raise(c)
  /\ UNCHANGED <<store, udpEndpoint, sock, queue, hubside, streams>>

\* StopAsync: BroadcastTCP(Notification ServerShutdown) begins.
StopAsync ==
  /\ up
  /\ Stops
  /\ pc[MAIN] = "recv"
  /\ Goto(MAIN, "stop", 0, WithClient(listed))
  /\ UNCHANGED <<store, udpEndpoint, seen, to, sock, queue, hubside, streams>>

\* It goes on, client by client; after the last one the process ends.
Shutdown ==
  /\ up
  /\ pc[MAIN] = "stop"
  /\ \/ todo[MAIN] # {} /\ SendNext(MAIN)
     \/ /\ todo[MAIN] = {}
        /\ Stopped
        /\ UNCHANGED <<sock, streams>>
  /\ UNCHANGED <<store, udpEndpoint, queue, hubside>>

------------------------------------------------------------------------------
InfoHandler(t) == Lookup(t) \/ Add(t) \/ SetFields(t) \/ Copy(t) \/ Inform(t)
                  \/ Greet(t) \/ Introduce(t)

UdpWorker == (\E c \in Client : ReceiveUdp(c)) \/ InfoHandler(UDP)

TcpWorker(c) ==
  \/ ReceiveTcp(c) \/ ReadFails(c)
  \/ InfoHandler(c) \/ Forward(c) \/ RelayBroadcast(c)
  \/ DisconnectLookup(c) \/ Remove(c) \/ Notify(c) \/ FinalDisconnect(c)

HubStep(c) == Connect(c) \/ (\E m \in Message : HubSends(c, m)) \/ Leave(c)

Next ==
  \/ UdpWorker
  \/ \E c \in Client : TcpWorker(c)
  \/ StopAsync \/ Shutdown
  \/ \E c \in Client : HubStep(c)

Spec == Init /\ [][Next]_vars

\* Every started thread of the gateway is scheduled again and again.
FairSpec == Spec /\ WF_vars(UdpWorker) /\ \A c \in Client : WF_vars(TcpWorker(c))

------------------------------------------------------------------------------
Pc == {"off", "recv", "lookup", "add", "set", "copy", "inform", "introduce",
       "forward", "relay", "disconnect", "remove", "notify", "final", "stop",
       "done"}

TypeOK ==
  /\ recs \in Seq(Record)
  /\ listed \subseteq DOMAIN recs
  /\ udpEndpoint \in Hub \cup {None}
  /\ pc \in [Thread -> Pc]
  /\ ref \in [Thread -> {0} \cup DOMAIN recs]
  /\ todo \in [Thread -> SUBSET DOMAIN recs]
  /\ seen \in [Thread -> Versions]
  /\ to \in [Thread -> Hub \cup {None}]
  /\ sock \in [Client -> {"idle", "open", "gone", "broken", "closed"}]
  /\ queue \in [Client -> Seq(Message)]
  /\ sent \in [Client -> SUBSET Message]
  /\ datagrams \subseteq Client
  /\ told \in [Client -> SUBSET Hub]
  /\ introduced \in [Hub -> SUBSET Hub]
  /\ inbox \in [Client -> SUBSET [type : {"BROADCAST", "REQ", "SHUTDOWN"},
                                  from : Hub \cup {None}]]
  /\ up \in BOOLEAN

\* Hub c's info is still to come, or its worker is about to store it.
Announced(c) == \E i \in DOMAIN queue[c] : queue[c][i] = Info
Unregistered(c) == \/ Info \notin sent[c]
                   \/ Announced(c)
                   \/ pc[c] \in {"lookup", "add", "set"}

(***************************************************************************)
(* The inductive invariant behind the safety properties.                   *)
(***************************************************************************)

\* A handler past its lookup holds a record, and the UDP handler a sender.
HandlerHolds ==
  /\ \A t \in Thread :
       pc[t] \in {"set", "copy", "inform", "introduce", "remove", "notify"} => ref[t] # 0
  /\ pc[UDP] # "recv" => udpEndpoint \in Hub

\* A hub sends one info per connection, before anything else, so that its
\* worker stores its client once.
InfoComesOnce ==
  \A c \in Client :
    /\ \A i \in DOMAIN queue[c] : queue[c][i] = Info => i = 1 /\ Info \in sent[c]
    /\ Info \notin sent[c] => queue[c] = << >>
    /\ pc[c] \in {"lookup", "add", "set"} => Info \in sent[c] /\ ~Announced(c)

\* No record holds the client of a connection still to be registered, and no
\* two records hold the same client.
ClientHeldOnce ==
  /\ \A c \in Client : Unregistered(c) =>
       \A r \in DOMAIN recs : recs[r].client # c
  /\ \A r, s \in DOMAIN recs :
       recs[r].client # None /\ recs[r].client = recs[s].client => r = s

\* Disconnect found the one record that holds the client; from Remove on, no
\* listed record does; and only Disconnect closes a client.
DisconnectUnlists ==
  \A c \in Client :
    /\ pc[c] = "remove" => \A r \in DOMAIN recs : recs[r].client = c => r = ref[c]
    /\ pc[c] \in {"notify", "final", "done"} => ByClient(c) = {}
    /\ sock[c] = "closed" => pc[c] \in {"notify", "final", "done"}

RegistryInv == HandlerHolds /\ InfoComesOnce /\ ClientHeldOnce /\ DisconnectUnlists

(***************************************************************************)
(* Safety.                                                                 *)
(***************************************************************************)

\* A client is held by one record at most, and no listed record holds a client
\* that Disconnect closed: removing the one record GetConnection(client) finds
\* is enough, whatever a concurrent info has added, and no later broadcast is
\* written to a disposed client.
ClosedClientUnlisted ==
  \A r \in listed : recs[r].client # None =>
    /\ sock[recs[r].client] # "closed"
    /\ \A s \in DOMAIN recs : recs[s].client = recs[r].client => s = r

\* The Disconnect after a worker's loop finds no record.  It would read the
\* RemoteEndPoint of a closed client, outside any try, and end the process.
FinalDisconnectFindsNothing ==
  \A c \in Client : pc[c] \in {"final", "done"} => ByClient(c) = {}

\* Worker c has handled the hub's info, and is not about to disconnect it.
Serving(c) == /\ up
              /\ sock[c] = "open"
              /\ pc[c] \in {"recv", "forward", "relay"}
              /\ \E r \in DOMAIN recs : recs[r].client = c

\* A hub whose info was handled and whose connection is sound is in the list:
\* no concurrent lookup, update or disconnect loses its registration.
ServedHubIsListed == \A c \in Client : Serving(c) => ByClient(c) # {}

\* Two hubs may register at the same moment, each before the other is in its
\* broadcast.  Each sets its record's client before it copies the connections,
\* so at least one of the two is told of the other.
OneOfTwoIsTold ==
  \A c, d \in Client :
    Serving(c) /\ Serving(d) /\ Owner(c) # Owner(d)
      => Owner(c) \in told[d] \/ Owner(d) \in told[c]

\* The worker of a hub that disconnected has ended.
Departed(h) == /\ \A n \in 1..MaxConnects : pc[<<h, n>>] \in {"off", "done"}
               /\ \E n \in 1..MaxConnects : pc[<<h, n>>] = "done"

\* A hub that reads its stream has not been left with an info of a hub that
\* disconnected: every Disconnected follows, in each stream, the infos before.
ToldOnlyOfOnline ==
  \A c \in Client : sock[c] = "open" =>
    \A h \in told[c] : ~Departed(h)

\* An invitation reaches the hub it names and no other, whoever reconnected or
\* disconnected since it was sent.
InvitationReachesInvited ==
  \A c \in Client : \A m \in inbox[c] :
    m.type = "REQ" => <<m.from, Owner(c)>> \in Invitations

\* A record leaves the list only by the worker of the client it holds: while no
\* hub connects twice, no thread can unlist the registration of another
\* connection.
OnlyOwnWorkerUnlists ==
  [][\A r \in listed \ listed' :
       \E c \in Client : pc[c] = "remove" /\ ref[c] = r /\ recs[r].client = c]_vars

(***************************************************************************)
(* Liveness.                                                               *)
(***************************************************************************)

\* A registered hub that goes away is unlisted, unless the process ends.
DepartedIsUnlisted ==
  \A c \in Client :
    (sock[c] \in {"gone", "broken"} /\ ByClient(c) # {}) ~> (ByClient(c) = {} \/ ~up)

==============================================================================
