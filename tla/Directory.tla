------------------------------ MODULE Directory ------------------------------
(***************************************************************************)
(* One hub's directory of the other hubs: HubConnectionManager and the     *)
(* handlers that fill it, InfoMessageHandler, NotificationMessageHandler   *)
(* and AckMessageHandler, with the events HubManager subscribes to.        *)
(*                                                                         *)
(* The hub reads the gateway's TCP stream on one thread (TCP) and every    *)
(* datagram on another (UDP), and both run the same handlers.  Infos are   *)
(* handled under a lock on the connection manager; notifications, acks and *)
(* the shutdown are not, and the list has a lock of its own that only Add, *)
(* Remove and Clear take.                                                  *)
(*                                                                         *)
(* The gateway and the peers are the environment: the next word of the     *)
(* stream and the next datagram, which may be late, early or lost, are     *)
(* chosen when the thread receives it.                                     *)
(*                                                                         *)
(* EnterUnlocked, PublishAlways and ListenForEver are wrong versions of    *)
(* the definitions that follow them, for the properties to notice.         *)
(***************************************************************************)
EXTENDS Integers, Sequences, FiniteSets, FiniteSetsExt

CONSTANTS
  Peer,          \* the other hubs
  Self,          \* LocalHubInfo.Id: the gateway sends a hub its own info too
  MaxWords,      \* how many words the gateway writes on the stream
  MaxDatagrams,  \* how many datagrams reach the hub
  TCP,           \* the thread of ListenTCP
  UDP,           \* the thread of ListenUDP
  None           \* the null reference

Id == Peer \cup {Self}
Thread == {TCP, UDP}

ASSUME DirectoryAssumption ==
  /\ Self \notin Peer
  /\ MaxWords \in Nat /\ MaxDatagrams \in Nat
  /\ TCP # UDP
  /\ None \notin Id /\ None \notin {1, 2} /\ None \notin Thread

\* A hub's NAT gives it port 1 towards the gateway and port 2 towards others.
\* It announces the address "lan"; "new" is one it did not announce.
Port == {1, 2}
Address == {"lan", "new"}
Origin == {[addr |-> "wan", port |-> p] : p \in Port}
          \cup {[addr |-> a, port |-> 1] : a \in Address}

\* HubInfoMessage: after the hub's UDP info, after its TCP info, after both.
Info(h) == {[type |-> "INFO", id |-> h, ext |-> 1, addrs |-> {}],
            [type |-> "INFO", id |-> h, ext |-> None, addrs |-> {"lan"}],
            [type |-> "INFO", id |-> h, ext |-> 1, addrs |-> {"lan"}]}
Infos == UNION {Info(h) : h \in Id}
Gone(h) == [type |-> "GONE", id |-> h]
Gones == {Gone(h) : h \in Id}
Shutdown == [type |-> "SHUTDOWN"]
Acks == {[type |-> "ACK", id |-> p, from |-> o] : p \in Peer, o \in Origin}

\* HubInfo: the fields the handlers test.
Record == [id : Id, ext : Port \cup {None}, addrs : SUBSET Address]

VARIABLES
  recs,        \* every HubInfo ever allocated, in allocation order
  listed,      \* ConnectionManager.Connections, as indices of recs
  lock,        \* the thread that holds lock (connections), or None
  pc,          \* what each thread does next
  msg,         \* the message a thread handles
  ref,         \* the HubInfo a thread's handler holds, 0 for null
  seen,        \* the list's version when the thread's enumerator started
  linked,      \* TCPListen and UDPListen: DisconnectedGateway resets both
  told,        \* the last word about a hub that the TCP listener took
  shown,       \* per hub, the Added events published less the Removed ones
  sent,        \* what was sent: Req through the gateway, Ack to the peer
  words,       \* the words of the stream read so far
  datagrams    \* the datagrams received so far

list == <<recs, listed>>
ghosts == <<told, shown, sent>>
counts == <<words, datagrams>>
vars == <<recs, listed, lock, pc, msg, ref, seen, linked, told, shown, sent,
          words, datagrams>>

Init ==
  /\ recs = << >>
  /\ listed = {}
  /\ lock = None
  /\ pc = [t \in Thread |-> "recv"]
  /\ msg = [t \in Thread |-> Shutdown]
  /\ ref = [t \in Thread |-> 0]
  /\ seen = [t \in Thread |-> <<0, {}>>]
  /\ linked = TRUE
  /\ told = [h \in Id |-> "NONE"]
  /\ shown = [h \in Id |-> 0]
  /\ sent = {}
  /\ words = 0
  /\ datagrams = 0

------------------------------------------------------------------------------
\* Thread t goes on at pc l, holding record r.
Goto(t, l, r) ==
  /\ pc' = [pc EXCEPT ![t] = l]
  /\ ref' = [ref EXCEPT ![t] = r]

\* What List counts as its version.
Version == <<Len(recs), listed>>
Versions == Nat \X SUBSET Nat
Enumerate(t) == seen' = [seen EXCEPT ![t] = Version]
Enumerated(t) == seen' = [seen EXCEPT ![t] = <<0, {}>>]
Stale(t) == Version # seen[t]

\* The handler of thread t is over: the loop goes on while the hub listens.
ListenForEver(t) ==
  /\ Goto(t, "recv", 0)
  /\ Enumerated(t)
  /\ msg' = [msg EXCEPT ![t] = Shutdown]
Return(t) ==
  /\ Goto(t, IF linked THEN "recv" ELSE "done", 0)
  /\ Enumerated(t)
  /\ msg' = [msg EXCEPT ![t] = Shutdown]

\* An exception leaves the handler, and with it the lock; the listener logs it.
Raise(t) ==
  /\ Return(t)
  /\ lock' = IF lock = t THEN None ELSE lock

\* GetConnection(id): the first record of the list that satisfies.
ById(h) == {r \in listed : recs[r].id = h}
Found(h) == IF ById(h) = {} THEN 0 ELSE Min(ById(h))

\* ConnectionUpdatedEvent: HubManager sends an invitation, unless to itself.
Invite(h) == sent' = IF h = Self THEN sent ELSE sent \cup {[type |-> "REQ", to |-> h]}

------------------------------------------------------------------------------
(* Receiving.                                                              *)

\* ListenTCP takes the next word of the stream.  The gateway says that a hub
\* is gone after it sent its info, twice when the hub was connected twice, and
\* nothing after a shutdown.
ReceiveTcp ==
  /\ pc[TCP] = "recv"
  /\ words < MaxWords
  /\ words' = words + 1
  /\ \E m \in Infos \cup Gones \cup {Shutdown} :
       /\ m.type = "GONE" => told[m.id] # "NONE"
       /\ msg' = [msg EXCEPT ![TCP] = m]
       /\ CASE m.type = "INFO" ->
                 Goto(TCP, "enter", 0) /\ told' = [told EXCEPT ![m.id] = "INFO"] /\ UNCHANGED seen
            [] m.type = "GONE" ->
                 Goto(TCP, "find", 0) /\ told' = [told EXCEPT ![m.id] = "GONE"] /\ Enumerate(TCP)
            [] m.type = "SHUTDOWN" ->
                 Goto(TCP, "unlink", 0) /\ UNCHANGED <<told, seen>>
  /\ UNCHANGED <<list, lock, linked, shown, sent, datagrams>>

\* ListenUDP receives an info of the gateway or an Ack of a peer.
ReceiveUdp ==
  /\ pc[UDP] = "recv"
  /\ datagrams < MaxDatagrams
  /\ datagrams' = datagrams + 1
  /\ \E m \in Infos \cup Acks :
       /\ msg' = [msg EXCEPT ![UDP] = m]
       /\ \/ m.type = "INFO" /\ Goto(UDP, "enter", 0) /\ UNCHANGED seen
          \/ m.type = "ACK" /\ Goto(UDP, "find", 0) /\ Enumerate(UDP)
  /\ UNCHANGED <<list, lock, linked, ghosts, words>>

------------------------------------------------------------------------------
(* InfoMessageHandler: all of it under lock (connections).                 *)

EnterUnlocked(t) ==
  /\ pc[t] = "enter"
  /\ lock' = t
  /\ Goto(t, "lookup", 0)
  /\ Enumerate(t)
  /\ UNCHANGED <<list, msg, linked, ghosts, counts>>
Enter(t) ==
  /\ pc[t] = "enter"
  /\ lock = None
  /\ lock' = t
  /\ Goto(t, "lookup", 0)
  /\ Enumerate(t)
  /\ UNCHANGED <<list, msg, linked, ghosts, counts>>

\* GetConnection may throw when a notification changed the list under it.
Lookup(t) ==
  /\ pc[t] = "lookup"
  /\ \/ LET r == Found(msg[t].id) IN
          /\ Goto(t, IF r = 0 THEN "add" ELSE "update", r)
          /\ Enumerated(t)
          /\ UNCHANGED <<lock, msg>>
     \/ Stale(t) /\ Raise(t)
  /\ UNCHANGED <<list, linked, ghosts, counts>>

\* new HubInfo(msg), AddConnection.
Add(t) ==
  /\ pc[t] = "add"
  /\ recs' = Append(recs, [id |-> msg[t].id, ext |-> msg[t].ext, addrs |-> msg[t].addrs])
  /\ listed' = listed \cup {Len(recs) + 1}
  /\ Goto(t, "added", Len(recs) + 1)
  /\ UNCHANGED <<lock, msg, seen, linked, ghosts, counts>>

\* ConnectionAddedEvent, and the lock is released.
Added(t) ==
  /\ pc[t] = "added"
  /\ shown' = [shown EXCEPT ![msg[t].id] = @ + 1]
  /\ lock' = None
  /\ Return(t)
  /\ UNCHANGED <<list, linked, told, sent, counts>>

\* HubInfo.Update: an endpoint or addresses the message lacks are kept, those
\* it has replace what the record had.
Update(t) ==
  /\ pc[t] = "update"
  /\ recs' = [recs EXCEPT
       ![ref[t]].ext = IF msg[t].ext = None THEN @ ELSE msg[t].ext,
       ![ref[t]].addrs = IF msg[t].addrs = {} THEN @ ELSE msg[t].addrs]
  /\ Goto(t, "updated", ref[t])
  /\ UNCHANGED <<listed, lock, msg, seen, linked, ghosts, counts>>

\* ConnectionUpdatedEvent, and the lock is released.
Updated(t) ==
  /\ pc[t] = "updated"
  /\ Invite(msg[t].id)
  /\ lock' = None
  /\ Return(t)
  /\ UNCHANGED <<list, linked, told, shown, counts>>

------------------------------------------------------------------------------
(* NotificationMessageHandler: no lock.                                    *)

\* Disconnected: GetConnection(Tag); nothing to do when there is no record.
PublishAlways ==
  /\ pc[TCP] = "find"
  /\ \/ LET r == Found(msg[TCP].id) IN
          /\ Goto(TCP, IF r # 0 THEN "remove" ELSE "removed", r)
          /\ Enumerated(TCP)
          /\ UNCHANGED msg
     \/ Stale(TCP) /\ Return(TCP)
  /\ UNCHANGED <<list, lock, linked, ghosts, counts>>
FindGone ==
  /\ pc[TCP] = "find"
  /\ \/ LET r == Found(msg[TCP].id) IN
          /\ r # 0
          /\ Goto(TCP, "remove", r)
          /\ Enumerated(TCP)
          /\ UNCHANGED msg
     \/ Found(msg[TCP].id) = 0 /\ Return(TCP)
     \/ Stale(TCP) /\ Return(TCP)
  /\ UNCHANGED <<list, lock, linked, ghosts, counts>>

\* RemoveConnection.
Remove ==
  /\ pc[TCP] = "remove"
  /\ listed' = listed \ {ref[TCP]}
  /\ Goto(TCP, "removed", ref[TCP])
  /\ UNCHANGED <<recs, lock, msg, seen, linked, ghosts, counts>>

\* ConnectionRemovedEvent.
Removed ==
  /\ pc[TCP] = "removed"
  /\ shown' = [shown EXCEPT ![msg[TCP].id] = @ - 1]
  /\ Return(TCP)
  /\ UNCHANGED <<list, lock, linked, told, sent, counts>>

\* ServerShutdown: DisconnectedGateway closes the connection, resets both
\* flags, ...
Unlink ==
  /\ pc[TCP] = "unlink"
  /\ linked' = FALSE
  /\ Goto(TCP, "clear", 0)
  /\ UNCHANGED <<list, lock, msg, seen, ghosts, counts>>

\* ... and clears the list; GatewayShutdownEvent names no hub.
Clear ==
  /\ pc[TCP] = "clear"
  /\ listed' = {}
  /\ Return(TCP)
  /\ UNCHANGED <<recs, lock, linked, ghosts, counts>>

------------------------------------------------------------------------------
(* AckMessageHandler, for an Ack that asks: no lock.                       *)

\* GetConnection(msg.Id); without a record, or without its endpoint, the next
\* line dereferences null and the listener logs it.
FindAsker ==
  /\ pc[UDP] = "find"
  /\ LET r == Found(msg[UDP].id)
         known == r # 0 /\ recs[r].ext # None
         moved == msg[UDP].from.addr = "wan" /\ recs[r].ext # msg[UDP].from.port IN
       \/ /\ known
          /\ Goto(UDP, IF moved THEN "port" ELSE "address", r)
          /\ Enumerated(UDP)
          /\ UNCHANGED msg
       \/ ~known /\ Return(UDP)
       \/ Stale(UDP) /\ Return(UDP)
  /\ UNCHANGED <<list, lock, linked, ghosts, counts>>

\* The Ack came from a port the record does not have: the endpoint takes it,
\* and ConnectionUpdatedEvent invites the peer.
NewPort ==
  /\ pc[UDP] = "port"
  /\ recs' = [recs EXCEPT ![ref[UDP]].ext = msg[UDP].from.port]
  /\ Invite(msg[UDP].id)
  /\ Goto(UDP, "address", ref[UDP])
  /\ UNCHANGED <<listed, lock, msg, seen, linked, told, shown, counts>>

\* An address that was not announced joins the record's; the Ack is answered.
\* The copy of the addresses throws when an info replaces them meanwhile.
NewAddress ==
  /\ pc[UDP] = "address"
  /\ LET a == msg[UDP].from.addr
         r == ref[UDP] IN
       \/ /\ recs' = IF a \in Address THEN [recs EXCEPT ![r].addrs = @ \cup {a}] ELSE recs
          /\ sent' = sent \cup {[type |-> "ACK", to |-> msg[UDP].id]}
       \/ /\ pc[TCP] = "update" /\ ref[TCP] = r
          /\ UNCHANGED <<recs, sent>>
  /\ Return(UDP)
  /\ UNCHANGED <<listed, lock, linked, told, shown, counts>>

------------------------------------------------------------------------------
InfoHandler(t) == Enter(t) \/ Lookup(t) \/ Add(t) \/ Added(t) \/ Update(t) \/ Updated(t)
NotificationHandler == FindGone \/ Remove \/ Removed \/ Unlink \/ Clear
AckHandler == FindAsker \/ NewPort \/ NewAddress

Next ==
  \/ ReceiveTcp \/ ReceiveUdp
  \/ \E t \in Thread : InfoHandler(t)
  \/ NotificationHandler
  \/ AckHandler

Spec == Init /\ [][Next]_vars

------------------------------------------------------------------------------
Pc == {"recv", "enter", "lookup", "add", "added", "update", "updated", "find",
       "remove", "removed", "unlink", "clear", "port", "address", "done"}

\* Where a handler holds a record.
Holding == {"added", "update", "updated", "remove", "removed", "port", "address"}

TypeOK ==
  /\ recs \in Seq(Record)
  /\ listed \subseteq DOMAIN recs
  /\ lock \in Thread \cup {None}
  /\ pc \in [Thread -> Pc]
  /\ msg \in [Thread -> Infos \cup Gones \cup Acks \cup {Shutdown}]
  /\ ref \in [Thread -> {0} \cup DOMAIN recs]
  /\ \A t \in Thread : pc[t] \in Holding => ref[t] # 0
  /\ seen \in [Thread -> Versions]
  /\ linked \in BOOLEAN
  /\ told \in [Id -> {"NONE", "INFO", "GONE"}]
  /\ shown \in [Id -> Int]
  /\ sent \subseteq [type : {"REQ", "ACK"}, to : Id]
  /\ words \in Nat
  /\ datagrams \in Nat

(***************************************************************************)
(* Safety.                                                                 *)
(***************************************************************************)

\* No hub has two records.  Infos come almost simultaneously on both threads,
\* and the lock of InfoMessageHandler covers its lookup and its add, although
\* notifications remove records without it.
OneRecordPerHub ==
  \A r, s \in listed : recs[r].id = recs[s].id => r = s

\* No handler is between two steps.
Quiet == \A t \in Thread : pc[t] \in {"recv", "done"}

\* Whatever the order in which the two threads publish, the Added and Removed
\* events of a hub account for its record, until a shutdown clears the list:
\* a browser that counts them ends with the hubs that are listed.
EventsAccountForList ==
  Quiet /\ linked => \A h \in Id : shown[h] = Cardinality(ById(h))

\* Once the TCP listener handled an info, the hub is listed until its
\* Disconnected: the listener's lookup never throws, because only infos add and
\* the other thread's are locked out, and no late datagram unlists a hub.
AnnouncedHubIsListed ==
  pc[TCP] = "recv" => \A h \in Id : told[h] = "INFO" => ById(h) # {}

\* The shutdown clears the list while the UDP listener may be waiting for the
\* lock, in its handler, or in Receive.  It looks at UDPListen only then, so
\* that one record may be added after the clear, but never a second one.
OneLateRecordAtMost ==
  ~linked /\ pc[TCP] # "clear" => Cardinality(listed) <= 1
==============================================================================
