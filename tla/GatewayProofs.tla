---------------------------- MODULE GatewayProofs ----------------------------
(***************************************************************************)
(* Theorems about Gateway, for every set of hubs and every bound: first    *)
(* of the two lists and the threads, then what registered hubs are told of *)
(* each other and whom an invitation reaches.  Some of the latter hold     *)
(* while no hub connects twice, which their statements assume.             *)
(***************************************************************************)
EXTENDS Gateway, SequenceTheorems, WellFoundedInduction, TLAPS

------------------------------------------------------------------------------
(* What the helpers return.                                                *)

\* The least of a set of indices is one of them.
LEMMA MinIsMember ==
  ASSUME NEW S, S \subseteq Nat, S # {}
  PROVE  Min(S) \in S /\ \A s \in S : Min(S) <= s
<1> DEFINE Less == {p \in Nat \X Nat : p[1] < p[2]}
<1>1. IsWellFoundedOn(Less, Nat)
  BY NatLessThanWellFounded DEF OpToRel
<1>2. \A x, y \in Nat : <<y, x>> \notin Less => x <= y
  OBVIOUS
<1> HIDE DEF Less
<1>3. PICK x \in S : \A y \in S : <<y, x>> \notin Less
  BY <1>1, WFMin
<1> QED BY <1>2, <1>3 DEF Min

\* First is null or a member of the set it is asked about.
LEMMA FirstIsMember ==
  ASSUME NEW S, S \subseteq Nat
  PROVE  /\ S = {} => First(S) = 0
         /\ S # {} => First(S) \in S
BY MinIsMember DEF First

\* A client names its hub, and is not one of the other two threads.
LEMMA OwnerIsHub == ASSUME NEW c \in Client PROVE Owner(c) \in Hub
BY DEF Client, Owner

------------------------------------------------------------------------------
\* A field of a record is set in place.
LEMMA UpdateRecord ==
  ASSUME NEW i \in DOMAIN recs, recs \in Seq(Record), NEW r \in Record
  PROVE  /\ [recs EXCEPT ![i] = r] \in Seq(Record)
         /\ DOMAIN [recs EXCEPT ![i] = r] = DOMAIN recs
BY ExceptSeq

\* The fields of a record.
LEMMA RecordAt ==
  ASSUME TypeOK, NEW r \in DOMAIN recs
  PROVE  /\ recs[r] \in Record
         /\ recs[r].id \in Hub
         /\ recs[r].client \in Client \cup {None}
<1>1. recs[r] \in Record
  BY DEF TypeOK
<1> QED BY <1>1 DEF Record

\* Setting a record's fields keeps the types.
LEMMA SetFieldsType == ASSUME TypeOK, NEW t \in Client \cup {UDP}, ref[t] # 0, SetFields(t) PROVE TypeOK'
<1> DEFINE new == IF t = UDP THEN [recs[ref[t]] EXCEPT !.ep = TRUE]
                             ELSE [recs[ref[t]] EXCEPT !.client = t]
<1>1. ref[t] \in DOMAIN recs /\ recs[ref[t]] \in Record /\ t \in Thread
  BY DEF TypeOK, Thread
<1>2. new \in Record
  BY <1>1 DEF Record
<1>3. recs' = [recs EXCEPT ![ref[t]] = new]
  BY <1>1, <1>2 DEF SetFields, Record
<1>4. recs' \in Seq(Record) /\ DOMAIN recs' = DOMAIN recs
  <2> HIDE DEF new
  <2> QED BY <1>1, <1>2, <1>3, UpdateRecord DEF TypeOK
<1> QED
  BY <1>1, <1>4 DEF TypeOK, SetFields, hubside, streams, Goto, Pc

\* So does what a thread notes of the list when it starts and ends a scan.
LEMMA SeenType ==
  ASSUME TypeOK
  PROVE  \A t \in Thread : Enumerate(t) \/ Enumerated(t) => seen' \in [Thread -> Versions]
<1>1. Version \in Versions
  BY DEF TypeOK, Version, Versions
<1>2. <<0, {}>> \in Versions
  BY DEF Versions
<1>3. seen \in [Thread -> Versions]
  BY DEF TypeOK
<1> QED BY <1>1, <1>2, <1>3 DEF Enumerate, Enumerated

\* So does the way back to the receive loop.
LEMMA ReturnType ==
  ASSUME TypeOK, NEW t \in Thread, Return(t)
  PROVE  /\ pc' \in [Thread -> Pc]
         /\ ref' \in [Thread -> {0} \cup DOMAIN recs]
         /\ todo' \in [Thread -> SUBSET DOMAIN recs]
         /\ seen' \in [Thread -> Versions]
         /\ to' \in [Thread -> Hub \cup {None}]
         /\ up' \in BOOLEAN
BY SeenType DEF TypeOK, Return, Goto, Pc

\* So does an exception, in the loop that catches it.
LEMMA RaiseType ==
  ASSUME TypeOK, NEW t \in Thread, Raise(t)
  PROVE  /\ pc' \in [Thread -> Pc]
         /\ ref' \in [Thread -> {0} \cup DOMAIN recs]
         /\ todo' \in [Thread -> SUBSET DOMAIN recs]
         /\ seen' \in [Thread -> Versions]
         /\ to' \in [Thread -> Hub \cup {None}]
         /\ up' \in BOOLEAN
BY GatewayAssumption, SeenType DEF TypeOK, Raise, Return, Goto, Stopped, Pc

StreamType ==
  /\ told \in [Client -> SUBSET Hub]
  /\ introduced \in [Hub -> SUBSET Hub]
  /\ inbox \in [Client -> SUBSET [type : {"BROADCAST", "REQ", "SHUTDOWN"},
                                  from : Hub \cup {None}]]

\* A write to a client adds what the client can be told.
LEMMA SendTCPType ==
  ASSUME TypeOK, NEW t \in Thread, NEW c \in Client \cup {None}, SendTCP(t, c),
         pc[t] \in {"inform", "notify"} => ref[t] # 0,
         pc[t] \in {"relay", "forward"} => Subject(t) \in Hub
  PROVE  StreamType'
<1>1. CASE UNCHANGED streams
  BY <1>1 DEF TypeOK, StreamType, streams
<1>2. CASE c # None /\ Deliver(t, c)
  <2> c \in Client
    BY <1>2
  <2>1. CASE pc[t] \in {"inform", "notify"}
    <3>1. recs[ref[t]].id \in Hub
      BY <2>1, RecordAt DEF TypeOK
    <3>2. /\ \/ told' = [told EXCEPT ![c] = @ \cup {recs[ref[t]].id}]
             \/ told' = [told EXCEPT ![c] = @ \ {recs[ref[t]].id}]
          /\ UNCHANGED <<introduced, inbox>>
      BY <1>2, <2>1 DEF Deliver
    <3>3. told[c] \in SUBSET Hub
      BY DEF TypeOK
    <3>4. PICK T \in SUBSET Hub : told' = [told EXCEPT ![c] = T]
      BY <3>1, <3>2, <3>3
    <3> QED BY <3>2, <3>4 DEF TypeOK, StreamType
  <2>2. CASE pc[t] \in {"relay", "forward"}
    <3>1. PICK k \in {"BROADCAST", "REQ"} :
            /\ inbox' = [inbox EXCEPT ![c] = @ \cup {[type |-> k, from |-> Subject(t)]}]
            /\ UNCHANGED <<told, introduced>>
      BY <1>2, <2>2 DEF Deliver
    <3>2. Subject(t) \in Hub
      BY <2>2
    <3>3. [type |-> k, from |-> Subject(t)]
            \in [type : {"BROADCAST", "REQ", "SHUTDOWN"}, from : Hub \cup {None}]
      BY <3>2
    <3> QED BY <3>1, <3>3 DEF TypeOK, StreamType
  <2>3. CASE pc[t] = "stop"
    <3>1. /\ inbox' = [inbox EXCEPT ![c] = @ \cup {[type |-> "SHUTDOWN", from |-> None]}]
          /\ UNCHANGED <<told, introduced>>
      BY <1>2, <2>3 DEF Deliver
    <3> QED BY <3>1 DEF TypeOK, StreamType
  <2>4. CASE pc[t] \notin {"inform", "notify", "relay", "forward", "stop"}
    <3>1. UNCHANGED streams
      BY <1>2, <2>4 DEF Deliver
    <3> QED BY <3>1 DEF TypeOK, StreamType, streams
  <2> QED BY <2>1, <2>2, <2>3, <2>4
<1> QED BY <1>1, <1>2 DEF SendTCP

\* One turn of a sending foreach keeps the types.
LEMMA SendNextType ==
  ASSUME TypeOK, NEW t \in Thread, SendNext(t), todo[t] # {},
         UNCHANGED <<store, udpEndpoint, queue, hubside>>,
         pc[t] \in {"inform", "notify"} => ref[t] # 0,
         pc[t] \in {"relay", "forward"} => Subject(t) \in Hub
  PROVE  TypeOK'
<1> DEFINE r == Min(todo[t])
<1>1. r \in DOMAIN recs
  <2>1. todo[t] \subseteq Nat
    BY DEF TypeOK
  <2> QED BY <2>1, MinIsMember DEF TypeOK
<1> HIDE DEF r
<1>2. recs[r].client \in Client \cup {None}
  BY <1>1, RecordAt
<1>3. CASE SendFails(t, recs[r].client)
  BY <1>2, <1>3, RaiseType DEF TypeOK, SendFails, store, hubside, streams
<1>4. CASE /\ SendTCP(t, recs[r].client)
           /\ Goto(t, pc[t], ref[t], todo[t] \ {r})
           /\ UNCHANGED <<seen, to>>
  <2>1. StreamType'
    BY <1>2, <1>4, SendTCPType
  <2> QED BY <1>1, <1>4, <2>1 DEF TypeOK, StreamType, SendTCP, Goto, store, hubside
<1> QED BY <1>3, <1>4 DEF SendNext, r

\* The indices GetConnection can return.
LEMMA FoundType ==
  ASSUME TypeOK, NEW S \in SUBSET listed
  PROVE  /\ First(S) \in {0} \cup DOMAIN recs
         /\ First(S) # 0 => First(S) \in S
         /\ First(S) = 0 => S = {}
<1>1. S \subseteq DOMAIN recs /\ DOMAIN recs \subseteq Nat \ {0}
  BY DEF TypeOK
<1> QED BY <1>1, FirstIsMember

\* Every step of the shared info handler keeps the types.
LEMMA InfoHandlerType ==
  ASSUME TypeOK, HandlerHolds, NEW t \in Client \cup {UDP}, InfoHandler(t)
  PROVE  TypeOK'
<1> t \in Thread
  BY DEF Thread
<1> USE GatewayAssumption
<1>1. ASSUME pc[t] # "recv" PROVE Subject(t) \in Hub
  BY <1>1, OwnerIsHub DEF Subject, HandlerHolds
<1>2. CASE Lookup(t)
  <2>1. ById(Subject(t)) \in SUBSET listed
    BY DEF ById
  <2>2. CASE Raise(t) /\ UNCHANGED <<store, udpEndpoint, sock, queue, hubside, streams>>
    BY <2>2, RaiseType DEF TypeOK, store, hubside, streams
  <2>3. CASE ~Raise(t)
    <3> DEFINE r == First(ById(Subject(t)))
    <3>1. r \in {0} \cup DOMAIN recs
      BY <2>1, FoundType
    <3>2. /\ Goto(t, IF r = 0 THEN "add" ELSE "set", r, {})
          /\ Enumerated(t)
          /\ UNCHANGED <<to, store, udpEndpoint, sock, queue, hubside, streams>>
      BY <1>2, <2>3 DEF Lookup
    <3> HIDE DEF r
    <3> QED BY <3>1, <3>2, SeenType DEF TypeOK, Goto, Pc, store, hubside, streams
  <2> QED BY <1>2, <2>2, <2>3 DEF Lookup
<1>3. CASE Add(t)
  BY <1>1, <1>3 DEF TypeOK, Add, hubside, streams, Goto, Record, Pc
<1>4. CASE SetFields(t)
  BY <1>4, SetFieldsType DEF HandlerHolds, SetFields
<1>5. CASE Copy(t)
  BY <1>5 DEF TypeOK, Copy, WithClient, Goto, Pc, store, hubside, streams
<1>6. CASE Inform(t)
  BY <1>6, SendNextType DEF HandlerHolds, Inform
<1>7. CASE Greet(t)
  <2>1. CASE SendFails(t, recs[ref[t]].client) /\ UNCHANGED <<store, udpEndpoint, queue, hubside>>
    <3>1. ref[t] \in DOMAIN recs
      BY <1>7 DEF Greet, HandlerHolds, TypeOK
    <3> QED BY <2>1, <3>1, RecordAt, RaiseType DEF TypeOK, SendFails, store, hubside, streams
  <2>2. CASE ~SendFails(t, recs[ref[t]].client)
    <3>1. /\ UNCHANGED <<store, udpEndpoint, sock, queue, hubside, streams>>
          /\ \/ Return(t)
             \/ Goto(t, "introduce", ref[t], listed) /\ Enumerate(t) /\ UNCHANGED to
      BY <1>7, <2>2 DEF Greet
    <3>2. CASE Return(t)
      BY <3>1, <3>2, ReturnType DEF TypeOK, store, hubside, streams
    <3>3. CASE Goto(t, "introduce", ref[t], listed) /\ Enumerate(t) /\ UNCHANGED to
      <4>1. listed \subseteq DOMAIN recs /\ ref[t] \in {0} \cup DOMAIN recs
        BY DEF TypeOK
      <4> QED BY <3>1, <3>3, <4>1, SeenType DEF TypeOK, Goto, Pc, store, hubside, streams
    <3> QED BY <3>1, <3>2, <3>3
  <2> QED BY <1>7, <2>1, <2>2 DEF Greet
<1>8. CASE Introduce(t)
  <2> USE <1>8 DEF Introduce
  <2>1. CASE Stale(t)
    BY <2>1, RaiseType DEF TypeOK, hubside
  <2>2. CASE ~Stale(t) /\ todo[t] # {}
    <3> DEFINE r == Min(todo[t])
    <3>1. r \in DOMAIN recs
      <4>1. todo[t] \subseteq Nat
        BY DEF TypeOK
      <4> QED BY <2>2, <4>1, MinIsMember DEF TypeOK
    <3> HIDE DEF r
    <3>2. recs[r].id \in Hub
      BY <3>1, RecordAt
    <3>3. /\ introduced' = [introduced EXCEPT ![udpEndpoint] = @ \cup {recs[r].id}]
          /\ Goto(t, "introduce", ref[t], todo[t] \ {r})
          /\ UNCHANGED <<recs, seen, to, listed, udpEndpoint, sock, queue, hubside, told, inbox>>
      BY <2>2 DEF r
    <3>4. introduced' \in [Hub -> SUBSET Hub]
      BY <3>2, <3>3 DEF TypeOK
    <3> QED BY <3>3, <3>4 DEF TypeOK, Goto, Pc, hubside
  <2>3. CASE ~Stale(t) /\ todo[t] = {}
    <3> DEFINE new == [recs[ref[t]] EXCEPT !.initialized = TRUE]
    <3>1. ref[t] \in DOMAIN recs /\ recs[ref[t]] \in Record
      BY RecordAt DEF HandlerHolds, TypeOK
    <3>2. new \in Record
      BY <3>1 DEF Record
    <3>3. recs' = [recs EXCEPT ![ref[t]] = new]
      BY <2>3, <3>1 DEF Record
    <3>4. recs' \in Seq(Record) /\ DOMAIN recs' = DOMAIN recs
      <4> HIDE DEF new
      <4> QED BY <3>1, <3>2, <3>3, UpdateRecord DEF TypeOK
    <3> QED BY <2>3, <3>4, SeenType DEF TypeOK, Return, Goto, Pc, hubside
  <2> QED BY <2>1, <2>2, <2>3
<1> QED BY <1>2, <1>3, <1>4, <1>5, <1>6, <1>7, <1>8 DEF InfoHandler

\* So does every other step of a worker: what it reads, forwards and relays,
\* and how it disconnects.
LEMMA TcpWorkerType ==
  ASSUME TypeOK, HandlerHolds, NEW c \in Client, TcpWorker(c)
  PROVE  TypeOK'
<1> c \in Thread /\ c # UDP /\ c # MAIN
  BY GatewayAssumption DEF Thread
<1>s. Subject(c) \in Hub
  BY OwnerIsHub DEF Subject
<1>1. CASE ReceiveTcp(c)
  <2>1. queue[c] \in Seq(Message) /\ queue[c] # << >>
    BY <1>1 DEF TypeOK, ReceiveTcp
  <2>2. Head(queue[c]) \in Message /\ Tail(queue[c]) \in Seq(Message)
    BY <2>1
  <2>3. Head(queue[c]).to \in Hub \cup {None}
    BY <2>2 DEF Message, Info, Relay, Req
  <2>4. PICK l \in Pc, S \in SUBSET DOMAIN recs : Goto(c, l, 0, S)
    <3>1. Head(queue[c]).type \in {"INFO", "REQ", "BROADCAST"}
      BY <2>2 DEF Message, Info, Relay, Req
    <3>2. \/ Goto(c, "lookup", 0, {}) \/ Goto(c, "forward", 0, {})
          \/ Goto(c, "relay", 0, listed)
      BY <1>1, <3>1 DEF ReceiveTcp
    <3>3. {"lookup", "forward", "relay"} \subseteq Pc /\ {{}, listed} \subseteq SUBSET DOMAIN recs
      BY DEF Pc, TypeOK
    <3> QED BY <3>2, <3>3
  <2>5. /\ to' = [to EXCEPT ![c] = Head(queue[c]).to]
        /\ queue' = [queue EXCEPT ![c] = Tail(queue[c])]
        /\ Enumerate(c)
        /\ UNCHANGED <<store, udpEndpoint, sock, hubside, streams>>
    BY <1>1 DEF ReceiveTcp
  <2> QED BY <2>2, <2>3, <2>4, <2>5, SeenType DEF TypeOK, Goto, store, hubside, streams
<1>2. CASE ReadFails(c)
  BY <1>2, RaiseType DEF TypeOK, ReadFails, store, hubside, streams
<1>3. CASE InfoHandler(c)
  BY <1>3, InfoHandlerType
<1>4. CASE Forward(c)
  <2> DEFINE r == Recipient(c)
  <2>1. r \in {0} \cup DOMAIN recs
    BY FoundType DEF Recipient, ById
  <2> HIDE DEF r
  <2>2. r # 0 => recs[r].client \in Client \cup {None}
    BY <2>1, RecordAt
  <2>3. CASE /\ SendTCP(c, IF r = 0 THEN None ELSE recs[r].client)
             /\ Return(c)
    <3>1. StreamType'
      BY <1>4, <1>s, <2>2, <2>3, SendTCPType DEF Forward
    <3> QED BY <1>4, <2>3, <3>1, ReturnType
         DEF TypeOK, StreamType, Forward, SendTCP, store, hubside
  <2>4. CASE r # 0 /\ SendFails(c, recs[r].client)
    BY <1>4, <2>2, <2>4, RaiseType DEF TypeOK, Forward, SendFails, store, hubside, streams
  <2>5. CASE Raise(c) /\ UNCHANGED <<sock, streams>>
    BY <1>4, <2>5, RaiseType DEF TypeOK, Forward, store, hubside, streams
  <2> QED BY <1>4, <2>3, <2>4, <2>5 DEF Forward, r
<1>5. CASE RelayBroadcast(c)
  <2>1. CASE Stale(c)
    BY <1>5, <2>1, RaiseType DEF TypeOK, RelayBroadcast, store, hubside, streams
  <2>2. CASE ~Stale(c) /\ todo[c] # {}
    BY <1>5, <1>s, <2>2, SendNextType DEF RelayBroadcast
  <2>3. CASE ~Stale(c) /\ todo[c] = {}
    BY <1>5, <2>3, ReturnType DEF TypeOK, RelayBroadcast, store, hubside, streams
  <2> QED BY <2>1, <2>2, <2>3
<1>6. CASE DisconnectLookup(c)
  <2> DEFINE r == Victim(c)
  <2>1. r \in {0} \cup DOMAIN recs
    BY FoundType DEF Victim, ByClient
  <2> HIDE DEF r
  <2>2. CASE Raise(c)
    BY <1>6, <2>2, RaiseType DEF TypeOK, DisconnectLookup, store, hubside, streams
  <2>3. CASE ~Raise(c)
    <3>1. \/ Goto(c, "remove", r, {}) /\ Enumerated(c) /\ UNCHANGED to
          \/ Goto(c, "final", 0, {}) /\ Enumerate(c) /\ UNCHANGED to
          \/ Return(c)
      BY <1>6, <2>3 DEF DisconnectLookup, r
    <3>2. UNCHANGED <<store, udpEndpoint, sock, queue, hubside, streams>>
      BY <1>6 DEF DisconnectLookup
    <3>3. CASE Goto(c, "remove", r, {}) /\ Enumerated(c) /\ UNCHANGED to
      BY <2>1, <3>2, <3>3, SeenType DEF TypeOK, Goto, Pc, store, hubside, streams
    <3>4. CASE Goto(c, "final", 0, {}) /\ Enumerate(c) /\ UNCHANGED to
      BY <3>2, <3>4, SeenType DEF TypeOK, Goto, Pc, store, hubside, streams
    <3>5. CASE Return(c)
      BY <3>2, <3>5, ReturnType DEF TypeOK, store, hubside, streams
    <3> QED BY <3>1, <3>3, <3>4, <3>5
  <2> QED BY <2>2, <2>3
<1>7. CASE Remove(c)
  BY <1>7 DEF TypeOK, Remove, WithClient, Goto, Pc, hubside, streams
<1>8. CASE Notify(c)
  <2>1. CASE todo[c] # {}
    BY <1>8, <2>1, SendNextType DEF Notify, HandlerHolds
  <2>2. CASE todo[c] = {}
    BY <1>8, <2>2, SeenType DEF TypeOK, Notify, Goto, Pc, store, hubside, streams
  <2> QED BY <2>1, <2>2
<1>9. CASE FinalDisconnect(c)
  <2>1. CASE Raise(c)
    BY <1>9, <2>1, RaiseType DEF TypeOK, FinalDisconnect, store, hubside, streams
  <2>2. CASE ~Raise(c)
    BY <1>9, <2>2, SeenType DEF TypeOK, FinalDisconnect, Goto, Pc, store, hubside, streams
  <2> QED BY <2>1, <2>2
<1> QED BY <1>1, <1>2, <1>3, <1>4, <1>5, <1>6, <1>7, <1>8, <1>9 DEF TcpWorker

\* Every step keeps the types, given that handlers hold what they use.
LEMMA TypeStep ==
  ASSUME TypeOK, HandlerHolds, [Next]_vars
  PROVE  TypeOK'
<1> USE GatewayAssumption
<1>1. CASE UdpWorker
  <2>1. ASSUME NEW c \in Client, ReceiveUdp(c) PROVE TypeOK'
    BY <2>1, OwnerIsHub, SeenType DEF TypeOK, ReceiveUdp, Goto, Thread, Pc, store, streams
  <2>2. CASE InfoHandler(UDP)
    BY <2>2, InfoHandlerType
  <2> QED BY <1>1, <2>1, <2>2 DEF UdpWorker
<1>2. ASSUME NEW c \in Client, TcpWorker(c) PROVE TypeOK'
  BY <1>2, TcpWorkerType
<1>3. CASE StopAsync
  BY <1>3 DEF TypeOK, StopAsync, WithClient, Goto, Thread, Pc, store, hubside, streams
<1>4. CASE Shutdown
  <2> MAIN \in Thread
    BY DEF Thread
  <2>1. CASE todo[MAIN] # {}
    BY <1>4, <2>1, SendNextType DEF Shutdown
  <2>2. CASE todo[MAIN] = {}
    BY <1>4, <2>2 DEF TypeOK, Shutdown, Stopped, Thread, Pc, store, hubside, streams
  <2> QED BY <2>1, <2>2
<1>5. ASSUME NEW c \in Client, HubStep(c) PROVE TypeOK'
  <2>1. CASE Connect(c)
    BY <2>1 DEF TypeOK, Connect, store, streams, Pc, Thread
  <2>2. ASSUME NEW m \in Message, HubSends(c, m) PROVE TypeOK'
    BY <2>2 DEF TypeOK, HubSends, store, streams
  <2>3. CASE Leave(c)
    <3>1. << >> \in Seq(Message)
      OBVIOUS
    <3>2. queue' = queue \/ queue' = [queue EXCEPT ![c] = << >>]
      BY <2>3 DEF Leave
    <3>3. queue' \in [Client -> Seq(Message)]
      BY <3>1, <3>2 DEF TypeOK
    <3> QED BY <2>3, <3>3 DEF TypeOK, Leave, store, hubside, streams
  <2> QED BY <1>5, <2>1, <2>2, <2>3 DEF HubStep
<1>6. CASE UNCHANGED vars
  BY <1>6 DEF TypeOK, vars
<1> QED BY <1>1, <1>2, <1>3, <1>4, <1>5, <1>6 DEF Next
------------------------------------------------------------------------------
(* The registry invariant.  Most steps only move their thread, and keep it.  *)

Handling == {"lookup", "add", "set"}
Holding == {"set", "copy", "inform", "introduce", "remove", "notify"}
Ending == {"notify", "final", "done"}

\* Thread t goes on without touching the list, a stream or a record's client.
Moves(t) ==
  /\ UNCHANGED <<listed, udpEndpoint, queue, sent>>
  /\ DOMAIN recs' = DOMAIN recs
  /\ \A r \in DOMAIN recs : recs'[r].client = recs[r].client
  /\ \A c \in Client : sock'[c] = "closed" => sock[c] = "closed"
  /\ \A u \in Thread \ {t} : pc'[u] = pc[u] /\ ref'[u] = ref[u]
  /\ pc'[t] \in Holding => ref'[t] # 0
  /\ pc'[t] \in Handling => pc[t] \in Handling
  /\ pc'[t] # "remove"
  /\ t \in Client /\ pc'[t] \in Ending => pc[t] \in Ending \/ ByClient(t) = {}
  /\ t \in Client /\ pc[t] \in Ending => pc'[t] \in Ending
  /\ t = UDP => pc[UDP] # "recv"

\* A thread that only moves keeps the registry invariant.
LEMMA MovesKeepsRegistry ==
  ASSUME TypeOK, RegistryInv, NEW t \in Thread, Moves(t)
  PROVE  RegistryInv'
<1> USE DEF Moves, Handling, Holding, Ending
<1>0. UDP \in Thread /\ Client \subseteq Thread
  BY DEF Thread
<1>1. HandlerHolds'
  BY <1>0 DEF RegistryInv, HandlerHolds
<1>2. InfoComesOnce'
  BY <1>0 DEF RegistryInv, InfoComesOnce, Announced
<1>3. \A c \in Client : Unregistered(c)' => Unregistered(c)
  BY <1>0 DEF Unregistered, Announced
<1>4. ClientHeldOnce'
  BY <1>3 DEF RegistryInv, ClientHeldOnce
<1>5. \A c \in Client : ByClient(c) = {} => ByClient(c)' = {}
  BY DEF ByClient, TypeOK
<1>6. DisconnectUnlists'
  <2> SUFFICES ASSUME NEW c \in Client
               PROVE  /\ pc'[c] = "remove" => \A r \in DOMAIN recs' : recs'[r].client = c => r = ref'[c]
                      /\ pc'[c] \in Ending => ByClient(c)' = {}
                      /\ sock'[c] = "closed" => pc'[c] \in Ending
    BY DEF DisconnectUnlists
  <2>1. DisconnectUnlists
    BY DEF RegistryInv
  <2>2. CASE c = t
    BY <2>1, <2>2, <1>5 DEF DisconnectUnlists
  <2>3. CASE c # t
    BY <2>1, <2>3, <1>0, <1>5 DEF DisconnectUnlists
  <2> QED BY <2>2, <2>3
<1> QED BY <1>1, <1>2, <1>4, <1>6 DEF RegistryInv

\* An exception that leaves a handler only moves the thread.
LEMMA RaiseMoves ==
  ASSUME TypeOK, RegistryInv, NEW t \in Thread, Raise(t),
         UNCHANGED <<store, udpEndpoint, queue, hubside>>,
         \A c \in Client : sock'[c] = "closed" => sock[c] = "closed",
         pc[t] \notin {"remove", "done"},
         t = UDP => pc[t] # "recv"
  PROVE  Moves(t)
<1> USE GatewayAssumption DEF Moves, Handling, Holding, Ending
<1>1. UNCHANGED <<recs, listed, udpEndpoint, queue, sent>>
  BY DEF store, hubside
<1>2. CASE UNCHANGED <<pc, ref>>
  BY <1>1, <1>2 DEF RegistryInv, HandlerHolds
<1>3. CASE \E l \in {"recv", "disconnect"} : Goto(t, l, 0, {}) /\ (t \in Client => pc[t] \notin Ending)
  BY <1>1, <1>3 DEF Goto, TypeOK
<1>4. CASE t = MAIN /\ pc' = [pc EXCEPT ![t] = "done"] /\ UNCHANGED ref
  BY <1>1, <1>4 DEF TypeOK
<1>5. \/ UNCHANGED <<pc, ref>>
      \/ \E l \in {"recv", "disconnect"} : Goto(t, l, 0, {}) /\ (t \in Client => pc[t] \notin Ending)
      \/ t = MAIN /\ pc' = [pc EXCEPT ![t] = "done"] /\ UNCHANGED ref
  BY DEF Raise, Return, Stopped
<1> QED BY <1>2, <1>3, <1>4, <1>5

\* One turn of a sending foreach only moves the thread, whether it fails or not.
LEMMA SendNextMoves ==
  ASSUME TypeOK, RegistryInv, NEW t \in Thread, SendNext(t),
         UNCHANGED <<store, udpEndpoint, queue, hubside>>,
         pc[t] \notin {"remove", "done"},
         t = UDP => pc[t] # "recv"
  PROVE  Moves(t)
<1> DEFINE c == recs[Min(todo[t])].client
<1>1. CASE SendFails(t, c)
  <2>1. sock' = [sock EXCEPT ![c] = "broken"] /\ Raise(t)
    BY <1>1 DEF SendFails
  <2>2. \A d \in Client : sock'[d] = "closed" => sock[d] = "closed"
    BY <2>1 DEF TypeOK
  <2> QED BY <2>1, <2>2, RaiseMoves
<1>2. CASE SendTCP(t, c) /\ \E S : Goto(t, pc[t], ref[t], S)
  <2>1. UNCHANGED <<recs, listed, udpEndpoint, queue, sent, sock>>
    BY <1>2 DEF SendTCP, store, hubside
  <2>2. \A u \in Thread : pc'[u] = pc[u] /\ ref'[u] = ref[u]
    BY <1>2 DEF Goto, TypeOK
  <2> QED BY <2>1, <2>2 DEF Moves, Holding, Handling, Ending, RegistryInv, HandlerHolds
<1> QED BY <1>1, <1>2 DEF SendNext

\* A new record holds no client.
LEMMA AddKeepsRegistry ==
  ASSUME TypeOK, RegistryInv, NEW t \in Client \cup {UDP}, Add(t)
  PROVE  RegistryInv'
<1> USE GatewayAssumption
<1>0. t \in Thread /\ UDP \in Thread /\ Client \subseteq Thread
  BY DEF Thread
<1>1. /\ DOMAIN recs' = DOMAIN recs \cup {Len(recs) + 1}
      /\ \A r \in DOMAIN recs : recs'[r] = recs[r]
      /\ recs'[Len(recs) + 1].client = None
      /\ Len(recs) + 1 \notin DOMAIN recs
  BY DEF Add, TypeOK
<1>2. \A r \in DOMAIN recs' : recs'[r].client # None => r \in DOMAIN recs
  BY <1>1
<1>3. /\ \A u \in Thread \ {t} : pc'[u] = pc[u] /\ ref'[u] = ref[u]
      /\ pc[t] = "add" /\ pc'[t] = "set" /\ ref'[t] = Len(recs) + 1
      /\ UNCHANGED <<udpEndpoint, queue, sent, sock>>
  BY <1>0 DEF Add, Goto, TypeOK, hubside
<1>4. HandlerHolds'
  <2> Len(recs) + 1 # 0
    BY DEF TypeOK
  <2> QED BY <1>0, <1>3 DEF RegistryInv, HandlerHolds
<1>5. InfoComesOnce'
  BY <1>0, <1>3 DEF RegistryInv, InfoComesOnce, Announced
<1>6. \A c \in Client : Unregistered(c)' => Unregistered(c)
  BY <1>0, <1>3 DEF Unregistered, Announced
<1>7. ClientHeldOnce'
  BY <1>1, <1>2, <1>6 DEF RegistryInv, ClientHeldOnce
<1>8. \A c \in Client : ByClient(c) = {} => ByClient(c)' = {}
  BY <1>1, <1>2 DEF ByClient, Add, TypeOK
<1>9. DisconnectUnlists'
  <2>1. DisconnectUnlists
    BY DEF RegistryInv
  <2> QED BY <1>0, <1>1, <1>2, <1>3, <1>8, <2>1 DEF DisconnectUnlists
<1> QED BY <1>4, <1>5, <1>7, <1>9 DEF RegistryInv

\* A worker stores its own client, which no record held before.
LEMMA SetFieldsKeepsRegistry ==
  ASSUME TypeOK, RegistryInv, NEW t \in Client \cup {UDP}, SetFields(t)
  PROVE  RegistryInv'
<1> USE GatewayAssumption
<1>0. t \in Thread /\ UDP \in Thread /\ Client \subseteq Thread
  BY DEF Thread
<1>1. ref[t] \in DOMAIN recs /\ pc[t] = "set"
  BY <1>0 DEF SetFields, RegistryInv, HandlerHolds, TypeOK
<1>2. /\ \A u \in Thread \ {t} : pc'[u] = pc[u] /\ ref'[u] = ref[u]
      /\ pc'[t] = "copy" /\ ref'[t] = ref[t]
      /\ UNCHANGED <<listed, udpEndpoint, queue, sent, sock>>
  BY <1>0 DEF SetFields, Goto, TypeOK, hubside
<1>3. CASE t = UDP
  <2>1. \A r \in DOMAIN recs : recs[r] \in Record
    BY RecordAt
  <2>2. DOMAIN recs' = DOMAIN recs /\ \A r \in DOMAIN recs : recs'[r].client = recs[r].client
    BY <1>1, <1>3, <2>1 DEF SetFields, Record
  <2>3. Moves(t)
    BY <1>0, <1>1, <1>2, <1>3, <2>2 DEF Moves, Holding, Handling, Ending, RegistryInv, HandlerHolds
  <2> QED BY <1>0, <2>3, MovesKeepsRegistry
<1>4. CASE t # UDP
  <2>0. t \in Client
    BY <1>4
  <2>1. /\ DOMAIN recs' = DOMAIN recs
        /\ \A r \in DOMAIN recs : recs'[r].client = IF r = ref[t] THEN t ELSE recs[r].client
    <3>1. recs[ref[t]] \in Record
      BY <1>1, RecordAt
    <3> QED BY <1>1, <1>4, <3>1 DEF SetFields, Record
  <2>2. HandlerHolds'
    BY <1>0, <1>1, <1>2 DEF RegistryInv, HandlerHolds
  <2>3. InfoComesOnce'
    BY <1>0, <1>2 DEF RegistryInv, InfoComesOnce, Announced
  <2>4. Unregistered(t) /\ ~Unregistered(t)'
    BY <1>1, <1>2, <2>0 DEF Unregistered, Announced, RegistryInv, InfoComesOnce
  <2>5. \A c \in Client : Unregistered(c)' => Unregistered(c) /\ c # t
    BY <1>0, <1>2, <2>4 DEF Unregistered, Announced
  <2>6. \A r \in DOMAIN recs : recs[r].client # t
    BY <2>0, <2>4 DEF RegistryInv, ClientHeldOnce
  <2>7. ClientHeldOnce'
    <3>1. ClientHeldOnce
      BY DEF RegistryInv
    <3> QED BY <2>1, <2>5, <2>6, <3>1 DEF ClientHeldOnce
  <2>8. \A c \in Client \ {t} : /\ ByClient(c) = {} => ByClient(c)' = {}
                               /\ \A r \in DOMAIN recs : recs'[r].client = c => recs[r].client = c
    <3>1. \A c \in Client \ {t} : \A r \in DOMAIN recs : recs'[r].client = c => recs[r].client = c
      BY <2>1
    <3>2. \A c \in Client \ {t} : ByClient(c)' \subseteq ByClient(c)
      BY <1>2, <3>1 DEF ByClient, TypeOK
    <3> QED BY <3>1, <3>2
  <2>9. DisconnectUnlists'
    <3>1. DisconnectUnlists
      BY DEF RegistryInv
    <3>2. sock[t] # "closed"
      BY <1>1, <2>0, <3>1 DEF DisconnectUnlists
    <3> QED BY <1>0, <1>2, <2>1, <2>8, <3>1, <3>2 DEF DisconnectUnlists
  <2> QED BY <2>2, <2>3, <2>7, <2>9 DEF RegistryInv
<1> QED BY <1>3, <1>4

\* The info handler keeps the registry invariant, on either kind of thread.
LEMMA InfoHandlerKeepsRegistry ==
  ASSUME TypeOK, RegistryInv, NEW t \in Client \cup {UDP}, InfoHandler(t)
  PROVE  RegistryInv'
<1> USE GatewayAssumption
<1>0. t \in Thread
  BY DEF Thread
<1>1. SUFFICES ASSUME ~Add(t), ~SetFields(t) PROVE Moves(t)
  BY <1>0, AddKeepsRegistry, SetFieldsKeepsRegistry, MovesKeepsRegistry
<1>2. CASE Lookup(t)
  <2>1. CASE Raise(t)
    BY <1>0, <1>2, <2>1, RaiseMoves DEF Lookup
  <2>2. CASE ~Raise(t)
    <3>1. /\ UNCHANGED <<recs, listed, udpEndpoint, queue, sent, sock>>
          /\ pc[t] = "lookup"
      BY <1>2 DEF Lookup, store, hubside
    <3>2. \E r \in {0} \cup DOMAIN recs : Goto(t, IF r = 0 THEN "add" ELSE "set", r, {})
      <4>1. First(ById(Subject(t))) \in {0} \cup DOMAIN recs
        BY FoundType DEF ById
      <4> QED BY <1>2, <2>2, <4>1 DEF Lookup
    <3>3. \A u \in Thread \ {t} : pc'[u] = pc[u] /\ ref'[u] = ref[u]
      BY <3>2 DEF Goto, TypeOK
    <3>4. pc'[t] = "add" \/ (pc'[t] = "set" /\ ref'[t] # 0)
      BY <1>0, <3>2 DEF Goto, TypeOK
    <3> QED BY <3>1, <3>3, <3>4 DEF Moves, Holding, Handling, Ending
  <2> QED BY <2>1, <2>2
<1>3. CASE Copy(t)
  <2>1. /\ UNCHANGED <<recs, listed, udpEndpoint, queue, sent, sock>>
        /\ pc[t] = "copy" /\ ref[t] # 0
    BY <1>0, <1>3 DEF Copy, store, hubside, RegistryInv, HandlerHolds
  <2>2. /\ \A u \in Thread \ {t} : pc'[u] = pc[u] /\ ref'[u] = ref[u]
        /\ pc'[t] = "inform" /\ ref'[t] = ref[t]
    BY <1>0, <1>3 DEF Copy, Goto, TypeOK
  <2> QED BY <2>1, <2>2 DEF Moves, Holding, Handling, Ending
<1>4. CASE Inform(t)
  BY <1>0, <1>4, SendNextMoves DEF Inform
<1>5. CASE Greet(t)
  <2>1. UNCHANGED <<recs, listed, udpEndpoint, queue, sent>> /\ pc[t] = "inform" /\ ref[t] # 0
    BY <1>0, <1>5 DEF Greet, store, hubside, RegistryInv, HandlerHolds
  <2>2. CASE SendFails(t, recs[ref[t]].client)
    <3>1. \A d \in Client : sock'[d] = "closed" => sock[d] = "closed"
      BY <2>2 DEF TypeOK, SendFails
    <3> QED BY <1>0, <1>5, <2>1, <2>2, <3>1, RaiseMoves DEF Greet, SendFails
  <2>3. CASE ~SendFails(t, recs[ref[t]].client)
    <3>1. /\ \/ Return(t)
             \/ Goto(t, "introduce", ref[t], listed)
          /\ UNCHANGED sock
      BY <1>5, <2>3 DEF Greet
    <3>2. /\ \A u \in Thread \ {t} : pc'[u] = pc[u] /\ ref'[u] = ref[u]
          /\ \/ pc'[t] = "recv"
             \/ pc'[t] = "introduce" /\ ref'[t] = ref[t]
      BY <1>0, <3>1 DEF Goto, Return, TypeOK
    <3> QED BY <2>1, <3>1, <3>2 DEF Moves, Holding, Handling, Ending
  <2> QED BY <2>2, <2>3
<1>6. CASE Introduce(t)
  <2>1. UNCHANGED <<listed, udpEndpoint, queue, sent, sock>> /\ pc[t] = "introduce" /\ ref[t] # 0
    BY <1>0, <1>6 DEF Introduce, hubside, RegistryInv, HandlerHolds
  <2>2. CASE Stale(t)
    BY <1>0, <1>6, <2>1, <2>2, RaiseMoves DEF Introduce, store, hubside
  <2>3. CASE ~Stale(t)
    <3>1. /\ \A u \in Thread \ {t} : pc'[u] = pc[u] /\ ref'[u] = ref[u]
          /\ \/ pc'[t] = "recv"
             \/ pc'[t] = "introduce" /\ ref'[t] = ref[t]
      BY <1>0, <1>6, <2>3 DEF Introduce, Goto, Return, TypeOK
    <3>2. recs' = recs \/ recs' = [recs EXCEPT ![ref[t]].initialized = TRUE]
      BY <1>6, <2>3 DEF Introduce
    <3>3. \A r \in DOMAIN recs : recs[r] \in Record
      BY RecordAt
    <3>4. DOMAIN recs' = DOMAIN recs /\ \A r \in DOMAIN recs : recs'[r].client = recs[r].client
      BY <3>2, <3>3 DEF Record
    <3> QED BY <2>1, <3>1, <3>4 DEF Moves, Holding, Handling, Ending
  <2> QED BY <2>2, <2>3
<1> QED BY <1>1, <1>2, <1>3, <1>4, <1>5, <1>6 DEF InfoHandler

\* Receiving a UDP info names its sender and holds nothing yet.
LEMMA ReceiveUdpKeepsRegistry ==
  ASSUME TypeOK, RegistryInv, NEW c \in Client, ReceiveUdp(c)
  PROVE  RegistryInv'
<1> USE GatewayAssumption
<1>1. /\ UNCHANGED <<recs, listed, queue, sent, sock>>
      /\ udpEndpoint' \in Hub
      /\ \A u \in Thread \ {UDP} : pc'[u] = pc[u] /\ ref'[u] = ref[u]
      /\ pc'[UDP] = "lookup"
  BY OwnerIsHub DEF ReceiveUdp, Goto, store, TypeOK, Thread
<1>2. Client \subseteq Thread \ {UDP}
  BY DEF Thread
<1> QED BY <1>1, <1>2 DEF RegistryInv, HandlerHolds, InfoComesOnce, Announced, ClientHeldOnce,
                           Unregistered, DisconnectUnlists, ByClient

\* A worker that starts on its hub's one info has none left to read.
LEMMA ReceiveTcpKeepsRegistry ==
  ASSUME TypeOK, RegistryInv, NEW c \in Client, ReceiveTcp(c)
  PROVE  RegistryInv'
<1> USE GatewayAssumption
<1> DEFINE m == Head(queue[c])
<1>0. c \in Thread /\ UDP \in Thread /\ Client \subseteq Thread /\ c # UDP
  BY DEF Thread
<1>1. /\ queue[c] \in Seq(Message) /\ queue[c] # << >>
      /\ pc[c] = "recv" /\ sock[c] \in {"open", "gone"}
  BY DEF ReceiveTcp, TypeOK
<1>2. m \in Message /\ m = queue[c][1] /\ 1 \in DOMAIN queue[c]
  BY <1>1
<1>3. /\ UNCHANGED <<recs, listed, udpEndpoint, sock, sent>>
      /\ \A d \in Client \ {c} : queue'[d] = queue[d]
      /\ queue'[c] = Tail(queue[c])
  BY DEF ReceiveTcp, store, hubside, TypeOK
<1>4. \/ Goto(c, "lookup", 0, {}) /\ m = Info
      \/ Goto(c, "forward", 0, {})
      \/ Goto(c, "relay", 0, listed)
  <2>1. m.type \in {"INFO", "REQ", "BROADCAST"} /\ (m.type = "INFO" => m = Info)
    BY <1>2 DEF Message, Info, Relay, Req
  <2>2. CASE m.type = "INFO"
    BY <2>1, <2>2 DEF ReceiveTcp
  <2>3. CASE m.type = "REQ"
    BY <2>3 DEF ReceiveTcp
  <2>4. CASE m.type = "BROADCAST"
    BY <2>4 DEF ReceiveTcp
  <2> QED BY <2>1, <2>2, <2>3, <2>4
<1>5. /\ \A u \in Thread \ {c} : pc'[u] = pc[u] /\ ref'[u] = ref[u]
      /\ pc'[c] \in {"lookup", "forward", "relay"}
      /\ pc'[c] = "lookup" => m = Info
  BY <1>0, <1>4 DEF Goto, TypeOK
<1>6. \A i \in DOMAIN queue'[c] : i + 1 \in DOMAIN queue[c] /\ queue'[c][i] = queue[c][i + 1] /\ i + 1 # 1
  BY <1>1, <1>3
<1>7. ~Announced(c)'
  BY <1>1, <1>6 DEF Announced, RegistryInv, InfoComesOnce
<1>8. m = Info => Announced(c) /\ Info \in sent[c]
  BY <1>2 DEF Announced, RegistryInv, InfoComesOnce
<1>9. HandlerHolds'
  BY <1>0, <1>3, <1>5 DEF RegistryInv, HandlerHolds
<1>10. InfoComesOnce'
  <2> SUFFICES ASSUME NEW d \in Client
               PROVE  /\ \A i \in DOMAIN queue'[d] : queue'[d][i] = Info => i = 1 /\ Info \in sent'[d]
                      /\ Info \notin sent'[d] => queue'[d] = << >>
                      /\ pc'[d] \in {"lookup", "add", "set"} => Info \in sent'[d] /\ ~Announced(d)'
    BY DEF InfoComesOnce
  <2>1. CASE d = c
    <3>1. Info \in sent[c]
      BY <1>1 DEF RegistryInv, InfoComesOnce
    <3> QED BY <1>3, <1>7, <2>1, <3>1 DEF Announced
  <2>2. CASE d # c
    BY <1>0, <1>3, <1>5, <2>2 DEF RegistryInv, InfoComesOnce, Announced
  <2> QED BY <2>1, <2>2
<1>11. \A d \in Client : Unregistered(d)' => Unregistered(d)
  BY <1>0, <1>3, <1>5, <1>7, <1>8 DEF Unregistered, Announced
<1>12. ClientHeldOnce'
  BY <1>3, <1>11 DEF RegistryInv, ClientHeldOnce
<1>13. DisconnectUnlists'
  BY <1>0, <1>1, <1>3, <1>5 DEF RegistryInv, DisconnectUnlists, ByClient
<1> QED BY <1>9, <1>10, <1>12, <1>13 DEF RegistryInv

\* Disconnect takes the one record that holds the client, and unlists it.
LEMMA DisconnectKeepsRegistry ==
  ASSUME TypeOK, RegistryInv, NEW c \in Client, DisconnectLookup(c) \/ Remove(c)
  PROVE  RegistryInv'
<1> USE GatewayAssumption
<1>0. c \in Thread /\ UDP \in Thread /\ Client \subseteq Thread /\ c # UDP
  BY DEF Thread
<1>1. Victim(c) # 0 => Victim(c) \in ByClient(c) /\ Victim(c) \in DOMAIN recs
  BY FoundType DEF Victim, ByClient, TypeOK
<1>2. Victim(c) = 0 => ByClient(c) = {}
  BY FoundType DEF Victim, ByClient
<1>3. CASE Remove(c)
  <2>1. /\ UNCHANGED <<recs, udpEndpoint, queue, sent>>
        /\ pc[c] = "remove" /\ pc'[c] = "notify" /\ ref'[c] = ref[c]
        /\ \A u \in Thread \ {c} : pc'[u] = pc[u] /\ ref'[u] = ref[u]
        /\ \A d \in Client \ {c} : sock'[d] = sock[d]
        /\ listed' = listed \ {ref[c]}
    BY <1>0, <1>3 DEF Remove, Goto, TypeOK, hubside
  <2>2. ByClient(c)' = {}
    BY <2>1 DEF ByClient, RegistryInv, DisconnectUnlists, TypeOK
  <2>3. \A d \in Client : ByClient(d) = {} => ByClient(d)' = {}
    BY <2>1 DEF ByClient
  <2>4. HandlerHolds'
    BY <1>0, <2>1 DEF RegistryInv, HandlerHolds
  <2>5. InfoComesOnce'
    BY <1>0, <2>1 DEF RegistryInv, InfoComesOnce, Announced
  <2>6. ClientHeldOnce'
    BY <1>0, <2>1 DEF RegistryInv, ClientHeldOnce, Unregistered, Announced
  <2>7. DisconnectUnlists'
    BY <1>0, <2>1, <2>2, <2>3 DEF RegistryInv, DisconnectUnlists
  <2> QED BY <2>4, <2>5, <2>6, <2>7 DEF RegistryInv
<1>4. CASE DisconnectLookup(c) /\ Raise(c)
  <2>1. Moves(c)
    BY <1>0, <1>4, RaiseMoves DEF DisconnectLookup
  <2> QED BY <1>0, <2>1, MovesKeepsRegistry
<1>5. CASE DisconnectLookup(c) /\ ~Raise(c) /\ Victim(c) = 0
  <2>1. \/ Goto(c, "final", 0, {})
        \/ Return(c)
    BY <1>5 DEF DisconnectLookup
  <2>2. UNCHANGED <<recs, listed, udpEndpoint, queue, sent, sock>> /\ pc[c] = "disconnect"
    BY <1>5 DEF DisconnectLookup, store, hubside
  <2>3. /\ \A u \in Thread \ {c} : pc'[u] = pc[u] /\ ref'[u] = ref[u]
        /\ pc'[c] \in {"final", "recv"}
    BY <1>0, <2>1 DEF Goto, Return, TypeOK
  <2>4. Moves(c)
    BY <1>0, <1>2, <1>5, <2>2, <2>3 DEF Moves, Holding, Handling, Ending
  <2> QED BY <1>0, <2>4, MovesKeepsRegistry
<1>6. CASE DisconnectLookup(c) /\ ~Raise(c) /\ Victim(c) # 0
  <2>1. /\ UNCHANGED <<recs, listed, udpEndpoint, queue, sent, sock>>
        /\ pc[c] = "disconnect"
        /\ Goto(c, "remove", Victim(c), {})
    BY <1>6 DEF DisconnectLookup, store, hubside
  <2>2. /\ \A u \in Thread \ {c} : pc'[u] = pc[u] /\ ref'[u] = ref[u]
        /\ pc'[c] = "remove" /\ ref'[c] = Victim(c)
    BY <1>0, <2>1 DEF Goto, TypeOK
  <2>3. \A r \in DOMAIN recs : recs[r].client = c => r = Victim(c)
    BY <1>0, <1>1, <1>6 DEF RegistryInv, ClientHeldOnce, ByClient
  <2>4. HandlerHolds'
    BY <1>0, <1>6, <2>1, <2>2 DEF RegistryInv, HandlerHolds
  <2>5. InfoComesOnce'
    BY <1>0, <2>1, <2>2 DEF RegistryInv, InfoComesOnce, Announced
  <2>6. ClientHeldOnce'
    BY <1>0, <2>1, <2>2 DEF RegistryInv, ClientHeldOnce, Unregistered, Announced
  <2>7. DisconnectUnlists'
    BY <1>0, <2>1, <2>2, <2>3 DEF RegistryInv, DisconnectUnlists, ByClient
  <2> QED BY <2>4, <2>5, <2>6, <2>7 DEF RegistryInv
<1> QED BY <1>3, <1>4, <1>5, <1>6

\* A hub that connects, writes or leaves announces its client at most once.
LEMMA HubStepKeepsRegistry ==
  ASSUME TypeOK, RegistryInv, NEW c \in Client, HubStep(c)
  PROVE  RegistryInv'
<1> USE GatewayAssumption
<1>0. c \in Thread /\ UDP \in Thread /\ Client \subseteq Thread /\ c # UDP
  BY DEF Thread
<1>1. CASE Connect(c)
  <2>1. /\ UNCHANGED <<recs, listed, udpEndpoint, queue, sent, ref>>
        /\ pc'[c] = "recv" /\ sock'[c] = "open"
        /\ \A u \in Thread \ {c} : pc'[u] = pc[u]
        /\ \A d \in Client \ {c} : sock'[d] = sock[d]
    BY <1>0, <1>1 DEF Connect, store, TypeOK
  <2>2. HandlerHolds'
    BY <1>0, <2>1 DEF RegistryInv, HandlerHolds
  <2>3. InfoComesOnce'
    BY <1>0, <2>1 DEF RegistryInv, InfoComesOnce, Announced
  <2>4. ClientHeldOnce'
    BY <1>0, <2>1 DEF RegistryInv, ClientHeldOnce, Unregistered, Announced
  <2>5. DisconnectUnlists'
    BY <1>0, <2>1 DEF RegistryInv, DisconnectUnlists, ByClient
  <2> QED BY <2>2, <2>3, <2>4, <2>5 DEF RegistryInv
<1>2. ASSUME NEW m \in Message, HubSends(c, m)
      PROVE  RegistryInv'
  <2>1. /\ UNCHANGED <<recs, listed, udpEndpoint, pc, ref, sock>>
        /\ sent'[c] = sent[c] \cup {m} /\ queue'[c] = Append(queue[c], m)
        /\ \A d \in Client \ {c} : sent'[d] = sent[d] /\ queue'[d] = queue[d]
        /\ m \notin sent[c] /\ (m = Info \/ Info \in sent[c])
    BY <1>2 DEF HubSends, store, TypeOK
  <2>2. queue[c] \in Seq(Message)
    BY DEF TypeOK
  <2>3. /\ \A i \in DOMAIN queue'[c] : queue'[c][i] = IF i \in DOMAIN queue[c] THEN queue[c][i] ELSE m
        /\ DOMAIN queue'[c] = DOMAIN queue[c] \cup {Len(queue[c]) + 1}
        /\ DOMAIN queue[c] \subseteq DOMAIN queue'[c]
        /\ \A i \in DOMAIN queue'[c] : queue[c] = << >> => i = 1
    BY <2>1, <2>2
  <2>4. m = Info => Info \notin sent[c] /\ queue[c] = << >>
    BY <2>1 DEF RegistryInv, InfoComesOnce
  <2>5. Announced(c)' => Announced(c) \/ m = Info
    BY <2>3 DEF Announced
  <2>6. HandlerHolds'
    BY <2>1 DEF RegistryInv, HandlerHolds
  <2>7. InfoComesOnce'
    <3> SUFFICES ASSUME NEW d \in Client
                 PROVE  /\ \A i \in DOMAIN queue'[d] : queue'[d][i] = Info => i = 1 /\ Info \in sent'[d]
                        /\ Info \notin sent'[d] => queue'[d] = << >>
                        /\ pc'[d] \in {"lookup", "add", "set"} => Info \in sent'[d] /\ ~Announced(d)'
      BY DEF InfoComesOnce
    <3>1. CASE d # c
      BY <2>1, <3>1 DEF RegistryInv, InfoComesOnce, Announced
    <3>2. CASE d = c
      <4>1. Info \in sent'[c]
        BY <2>1
      <4>2. \A i \in DOMAIN queue'[c] : queue'[c][i] = Info => i = 1
        BY <2>3, <2>4 DEF RegistryInv, InfoComesOnce
      <4>3. pc[c] \in {"lookup", "add", "set"} => ~Announced(c)'
        BY <2>4, <2>5 DEF RegistryInv, InfoComesOnce
      <4> QED BY <2>1, <3>2, <4>1, <4>2, <4>3
    <3> QED BY <3>1, <3>2
  <2>8. \A d \in Client : Unregistered(d)' => Unregistered(d)
    BY <2>1, <2>4, <2>5 DEF Unregistered, Announced
  <2>9. ClientHeldOnce'
    BY <2>1, <2>8 DEF RegistryInv, ClientHeldOnce
  <2>10. DisconnectUnlists'
    BY <2>1 DEF RegistryInv, DisconnectUnlists, ByClient
  <2> QED BY <2>6, <2>7, <2>9, <2>10 DEF RegistryInv
<1>3. CASE Leave(c)
  <2>1. /\ UNCHANGED <<recs, listed, udpEndpoint, pc, ref, sent>>
        /\ \A d \in Client : sock'[d] = "closed" => sock[d] = "closed"
        /\ \A d \in Client : queue'[d] = queue[d] \/ queue'[d] = << >>
    BY <1>3 DEF Leave, store, hubside, TypeOK
  <2>2. \A d \in Client : Announced(d)' => Announced(d)
    BY <2>1 DEF Announced
  <2>3. HandlerHolds'
    BY <2>1 DEF RegistryInv, HandlerHolds
  <2>4. InfoComesOnce'
    <3>1. InfoComesOnce
      BY DEF RegistryInv
    <3>2. \A d \in Client : DOMAIN queue'[d] # {} => queue'[d] = queue[d]
      BY <2>1
    <3> QED BY <2>1, <2>2, <3>1, <3>2 DEF InfoComesOnce
  <2>5. ClientHeldOnce'
    BY <2>1, <2>2 DEF RegistryInv, ClientHeldOnce, Unregistered
  <2>6. DisconnectUnlists'
    BY <2>1 DEF RegistryInv, DisconnectUnlists, ByClient
  <2> QED BY <2>3, <2>4, <2>5, <2>6 DEF RegistryInv
<1> QED BY <1>1, <1>2, <1>3 DEF HubStep

\* Every other step of a worker only moves its thread.
LEMMA WorkerMoves ==
  ASSUME TypeOK, RegistryInv, NEW c \in Client,
         ReadFails(c) \/ Forward(c) \/ RelayBroadcast(c) \/ Notify(c) \/ FinalDisconnect(c)
  PROVE  Moves(c)
<1> USE GatewayAssumption
<1>0. c \in Thread /\ c # UDP
  BY DEF Thread
<1>1. CASE ReadFails(c)
  BY <1>0, <1>1, RaiseMoves DEF ReadFails
<1>2. CASE Forward(c)
  <2>1. UNCHANGED <<recs, listed, udpEndpoint, queue, sent>> /\ pc[c] = "forward"
    BY <1>2 DEF Forward, store, hubside
  <2>2. CASE Raise(c) /\ \A d \in Client : sock'[d] = "closed" => sock[d] = "closed"
    BY <1>0, <1>2, <2>1, <2>2, RaiseMoves DEF Forward
  <2>3. CASE Return(c) /\ UNCHANGED sock
    <3>1. /\ \A u \in Thread \ {c} : pc'[u] = pc[u] /\ ref'[u] = ref[u]
          /\ pc'[c] = "recv"
      BY <1>0, <2>3 DEF Return, Goto, TypeOK
    <3> QED BY <1>0, <2>1, <2>3, <3>1 DEF Moves, Holding, Handling, Ending
  <2>4. \A d \in Client \cup {None} : SendFails(c, d) =>
          Raise(c) /\ \A e \in Client : sock'[e] = "closed" => sock[e] = "closed"
    BY DEF SendFails, TypeOK
  <2>5. Recipient(c) # 0 => recs[Recipient(c)].client \in Client \cup {None}
    BY FoundType, RecordAt DEF Recipient, ById
  <2> QED BY <1>2, <2>2, <2>3, <2>4, <2>5 DEF Forward, SendTCP
<1>3. CASE RelayBroadcast(c)
  <2>1. CASE Stale(c)
    BY <1>0, <1>3, <2>1, RaiseMoves DEF RelayBroadcast
  <2>2. CASE ~Stale(c) /\ todo[c] # {}
    BY <1>0, <1>3, <2>2, SendNextMoves DEF RelayBroadcast
  <2>3. CASE ~Stale(c) /\ todo[c] = {}
    <3>1. Return(c) /\ UNCHANGED <<recs, listed, udpEndpoint, queue, sent, sock>> /\ pc[c] = "relay"
      BY <1>3, <2>3 DEF RelayBroadcast, store, hubside
    <3>2. /\ \A u \in Thread \ {c} : pc'[u] = pc[u] /\ ref'[u] = ref[u]
          /\ pc'[c] = "recv"
      BY <1>0, <3>1 DEF Return, Goto, TypeOK
    <3> QED BY <1>0, <3>1, <3>2 DEF Moves, Holding, Handling, Ending
  <2> QED BY <2>1, <2>2, <2>3
<1>4. CASE Notify(c)
  <2>1. CASE todo[c] # {}
    BY <1>0, <1>4, <2>1, SendNextMoves DEF Notify
  <2>2. CASE todo[c] = {}
    <3>1. /\ Goto(c, "final", 0, {}) /\ pc[c] = "notify"
          /\ UNCHANGED <<recs, listed, udpEndpoint, queue, sent, sock>>
      BY <1>4, <2>2 DEF Notify, store, hubside
    <3>2. /\ \A u \in Thread \ {c} : pc'[u] = pc[u] /\ ref'[u] = ref[u]
          /\ pc'[c] = "final"
      BY <1>0, <3>1 DEF Goto, TypeOK
    <3> QED BY <1>0, <3>1, <3>2 DEF Moves, Holding, Handling, Ending
  <2> QED BY <2>1, <2>2
<1>5. CASE FinalDisconnect(c)
  <2>1. CASE Raise(c)
    BY <1>0, <1>5, <2>1, RaiseMoves DEF FinalDisconnect
  <2>2. CASE ~Raise(c)
    <3>1. /\ Goto(c, "done", 0, {}) /\ pc[c] = "final"
          /\ UNCHANGED <<recs, listed, udpEndpoint, queue, sent, sock>>
      BY <1>5, <2>2 DEF FinalDisconnect, store, hubside
    <3>2. /\ \A u \in Thread \ {c} : pc'[u] = pc[u] /\ ref'[u] = ref[u]
          /\ pc'[c] = "done"
      BY <1>0, <3>1 DEF Goto, TypeOK
    <3> QED BY <1>0, <3>1, <3>2 DEF Moves, Holding, Handling, Ending
  <2> QED BY <2>1, <2>2
<1> QED BY <1>1, <1>2, <1>3, <1>4, <1>5

\* So does the thread of StopAsync.
LEMMA MainMoves ==
  ASSUME TypeOK, RegistryInv, StopAsync \/ Shutdown
  PROVE  Moves(MAIN)
<1> USE GatewayAssumption
<1>0. MAIN \in Thread /\ MAIN # UDP /\ MAIN \notin Client
  BY DEF Thread
<1>1. CASE StopAsync
  <2>1. UNCHANGED <<recs, listed, udpEndpoint, queue, sent, sock>>
    BY <1>1 DEF StopAsync, store, hubside
  <2>2. /\ \A u \in Thread \ {MAIN} : pc'[u] = pc[u] /\ ref'[u] = ref[u]
        /\ pc'[MAIN] = "stop"
    BY <1>0, <1>1 DEF StopAsync, Goto, TypeOK
  <2> QED BY <1>0, <2>1, <2>2 DEF Moves, Holding, Handling, Ending
<1>2. CASE Shutdown /\ todo[MAIN] # {}
  BY <1>0, <1>2, SendNextMoves DEF Shutdown
<1>3. CASE Shutdown /\ todo[MAIN] = {}
  <2>1. UNCHANGED <<recs, listed, udpEndpoint, queue, sent, sock, ref>> /\ Stopped
    BY <1>3 DEF Shutdown, store, hubside, Stopped
  <2>2. pc'[MAIN] = "done" /\ \A u \in Thread \ {MAIN} : pc'[u] = pc[u]
    BY <1>0, <2>1 DEF Stopped, TypeOK
  <2> QED BY <1>0, <2>1, <2>2 DEF Moves, Holding, Handling, Ending
<1> QED BY <1>1, <1>2, <1>3
------------------------------------------------------------------------------
(* The theorems.                                                           *)

Inv == TypeOK /\ RegistryInv

\* The gateway starts with an empty list and no message read.
LEMMA InvInit == Init => Inv
<1> SUFFICES ASSUME Init PROVE Inv
  OBVIOUS
<1> USE GatewayAssumption DEF Init
<1>1. TypeOK
  <2>1. << >> \in Seq(Record) /\ << >> \in Seq(Message) /\ DOMAIN << >> = {}
    OBVIOUS
  <2>2. <<0, {}>> \in Versions
    BY DEF Versions
  <2> QED BY <2>1, <2>2 DEF TypeOK, Thread, Pc
<1>2. \A t \in Thread : pc[t] \in {"off", "recv"}
  OBVIOUS
<1>3. Client \subseteq Thread /\ UDP \in Thread /\ UDP \notin Client
  BY DEF Thread
<1>4. HandlerHolds
  BY <1>2, <1>3 DEF HandlerHolds
<1>5. InfoComesOnce
  BY <1>2, <1>3 DEF InfoComesOnce
<1>6. ClientHeldOnce
  BY DEF ClientHeldOnce
<1>7. DisconnectUnlists
  BY <1>2, <1>3 DEF DisconnectUnlists
<1> QED BY <1>1, <1>4, <1>5, <1>6, <1>7 DEF Inv, RegistryInv

\* Every step of a worker, of a hub and of the host keeps the invariant.
LEMMA InvStep == Inv /\ [Next]_vars => Inv'
<1> SUFFICES ASSUME TypeOK, RegistryInv, [Next]_vars PROVE Inv'
  BY DEF Inv
<1>1. TypeOK'
  BY TypeStep DEF RegistryInv
<1>2. RegistryInv'
  <2>0. MAIN \in Thread /\ UDP \in Thread /\ Client \subseteq Thread
    BY DEF Thread
  <2>1. CASE UdpWorker
    BY <2>1, ReceiveUdpKeepsRegistry, InfoHandlerKeepsRegistry DEF UdpWorker
  <2>2. ASSUME NEW c \in Client, TcpWorker(c) PROVE RegistryInv'
    <3>1. CASE ReceiveTcp(c)
      BY <3>1, ReceiveTcpKeepsRegistry
    <3>2. CASE InfoHandler(c)
      BY <3>2, InfoHandlerKeepsRegistry
    <3>3. CASE DisconnectLookup(c) \/ Remove(c)
      BY <3>3, DisconnectKeepsRegistry
    <3>4. CASE ReadFails(c) \/ Forward(c) \/ RelayBroadcast(c) \/ Notify(c) \/ FinalDisconnect(c)
      BY <2>0, <3>4, WorkerMoves, MovesKeepsRegistry
    <3> QED BY <2>2, <3>1, <3>2, <3>3, <3>4 DEF TcpWorker
  <2>3. CASE StopAsync \/ Shutdown
    BY <2>0, <2>3, MainMoves, MovesKeepsRegistry
  <2>4. ASSUME NEW c \in Client, HubStep(c) PROVE RegistryInv'
    BY <2>4, HubStepKeepsRegistry
  <2>5. CASE UNCHANGED vars
    BY <2>5 DEF vars, RegistryInv, HandlerHolds, InfoComesOnce, Announced, ClientHeldOnce,
                Unregistered, DisconnectUnlists, ByClient
  <2> QED BY <2>1, <2>2, <2>3, <2>4, <2>5 DEF Next
<1> QED BY <1>1, <1>2 DEF Inv

\* The invariant is inductive, so every behaviour of the gateway has it.
LEMMA InvHolds == Spec => []Inv
BY InvInit, InvStep, PTL DEF Spec

\* Every variable keeps its type: in particular no thread ever holds, or has to
\* visit, a record that was not allocated.
THEOREM TypeCorrect == Spec => []TypeOK
<1>1. Inv => TypeOK
  BY DEF Inv
<1> QED BY <1>1, InvHolds, PTL

\* Every worker stores its client once, in one record, and Disconnect unlists
\* that record before the worker ends, whatever the other threads do.
THEOREM Registry == Spec => []RegistryInv
<1>1. Inv => RegistryInv
  BY DEF Inv
<1> QED BY <1>1, InvHolds, PTL

\* A client that Disconnect closed is in no record of the list, and a client is
\* in one record at most: for every number of hubs and of reconnects.
THEOREM ClosedUnlisted == Spec => []ClosedClientUnlisted
<1>1. Inv => ClosedClientUnlisted
  <2> SUFFICES ASSUME TypeOK, RegistryInv, NEW r \in listed, recs[r].client # None
               PROVE  /\ sock[recs[r].client] # "closed"
                      /\ \A s \in DOMAIN recs : recs[s].client = recs[r].client => s = r
    BY DEF Inv, ClosedClientUnlisted
  <2>1. r \in DOMAIN recs
    BY DEF TypeOK
  <2>2. recs[r].client \in Client
    BY <2>1, RecordAt
  <2>3. r \in ByClient(recs[r].client)
    BY DEF ByClient
  <2>4. sock[recs[r].client] # "closed"
    BY <2>2, <2>3 DEF RegistryInv, DisconnectUnlists
  <2> QED BY <2>1, <2>4 DEF RegistryInv, ClientHeldOnce
<1> QED BY <1>1, InvHolds, PTL

\* The Disconnect after a worker's loop finds no record, so that it never reads
\* the endpoint of a closed client, which nothing would catch.
THEOREM FinalDisconnectIsIdle == Spec => []FinalDisconnectFindsNothing
<1>1. Inv => FinalDisconnectFindsNothing
  BY DEF Inv, RegistryInv, DisconnectUnlists, FinalDisconnectFindsNothing
<1> QED BY <1>1, InvHolds, PTL

------------------------------------------------------------------------------
(* The steps of a thread that leave the list, the records' hubs and        *)
(* clients and the hubs' messages alone: most are.                         *)

Leaving == {"disconnect", "remove", "notify", "final", "done"}

Elsewhere(t) ==
  \A u \in Thread \ {t} : /\ pc'[u] = pc[u] /\ ref'[u] = ref[u]
                          /\ todo'[u] = todo[u] /\ to'[u] = to[u]

SameRecords ==
  /\ DOMAIN recs' = DOMAIN recs
  /\ \A r \in DOMAIN recs : recs'[r].client = recs[r].client /\ recs'[r].id = recs[r].id

SocksHold ==
  \A c \in Client : sock'[c] = sock[c] \/ (sock[c] = "gone" /\ sock'[c] = "broken")

\* The worker c goes from one pc to another, with its record and its list.
Goes(c, from, l) == pc[c] = from /\ pc'[c] = l /\ ref'[c] = ref[c]

\* The client a foreach has come to.
Next1(t) == recs[Min(todo[t])].client
Turn(c) == todo[c] # {} /\ todo'[c] = todo[c] \ {Min(todo[c])}

\* What a worker may do in such a step.
Ends(c) == UNCHANGED <<pc, ref, todo, told>> /\ pc[c] \in {"disconnect", "notify", "final"}
Throws(c) == pc[c] \notin Leaving /\ pc'[c] = "disconnect" /\ told' = told
Finds(c) ==
  /\ pc[c] = "lookup" /\ told' = told
  /\ \/ pc'[c] = "add"
     \/ pc'[c] = "set" /\ ref'[c] \in DOMAIN recs /\ recs[ref'[c]].id = Owner(c)
Copies(c) == Goes(c, "copy", "inform") /\ todo'[c] = WithClient(listed) /\ told' = told
Informs(c) ==
  /\ Goes(c, "inform", "inform") /\ Turn(c)
  /\ told' = IF Next1(c) \in Client /\ sock[Next1(c)] = "open"
               THEN [told EXCEPT ![Next1(c)] = @ \cup {recs[ref[c]].id}] ELSE told
Greets(c) ==
  pc[c] = "inform" /\ todo[c] = {} /\ pc'[c] \in {"recv", "introduce"} /\ told' = told
Works(c) ==
  /\ pc[c] \in {"introduce", "forward", "relay"}
  /\ pc'[c] = "recv" \/ (pc'[c] = pc[c] /\ pc[c] # "forward")
  /\ told' = told
Chooses(c) ==
  /\ pc[c] = "disconnect" /\ told' = told
  /\ \/ pc'[c] = "remove" /\ Victim(c) # 0 /\ ref'[c] = Victim(c)
     \/ pc'[c] = "recv" /\ Victim(c) = 0
     \/ pc'[c] = "final" /\ Victim(c) = 0 /\ sock[c] = "broken"
Notifies(c) ==
  /\ Goes(c, "notify", "notify") /\ Turn(c)
  /\ told' = IF Next1(c) \in Client /\ sock[Next1(c)] = "open"
               THEN [told EXCEPT ![Next1(c)] = @ \ {recs[ref[c]].id}] ELSE told
Notified(c) == pc[c] = "notify" /\ todo[c] = {} /\ pc'[c] = "final" /\ told' = told
Finishes(c) == pc[c] = "final" /\ pc'[c] = "done" /\ told' = told

Path(c) ==
  \/ Ends(c) \/ Throws(c) \/ Finds(c) \/ Copies(c) \/ Informs(c) \/ Greets(c)
  \/ Works(c) \/ Chooses(c) \/ Notifies(c) \/ Notified(c) \/ Finishes(c)

\* The two other threads tell, at most.
Walk(t) ==
  /\ UNCHANGED <<listed, queue, sent>>
  /\ SameRecords /\ SocksHold /\ Elsewhere(t)
  /\ t \in Client => Path(t)
  /\ t \notin Client => \A c \in Client : told[c] \subseteq told'[c]

\* An exception moves its thread only.
LEMMA RaiseGoes ==
  ASSUME TypeOK, NEW t \in Thread, Raise(t)
  PROVE  /\ Elsewhere(t)
         /\ t \in Client => \/ pc[t] \notin {"disconnect", "notify", "final"} /\ pc'[t] = "disconnect"
                            \/ /\ UNCHANGED <<pc, ref, todo>>
                               /\ pc[t] \in {"disconnect", "notify", "final"}
<1> USE GatewayAssumption
<1>0. UDP \in Thread /\ MAIN \in Thread /\ Client \subseteq Thread
  BY DEF Thread
<1>1. CASE t = UDP /\ Return(t)
  BY <1>0, <1>1 DEF Return, Goto, Elsewhere, TypeOK
<1>2. CASE /\ t \in Client /\ pc[t] \notin {"disconnect", "notify", "final"}
           /\ Goto(t, "disconnect", 0, {}) /\ to' = [to EXCEPT ![t] = None]
  BY <1>0, <1>2 DEF Goto, Elsewhere, TypeOK
<1>3. CASE /\ t \in Client /\ pc[t] \in {"disconnect", "notify", "final"}
           /\ UNCHANGED <<pc, ref, todo, to>>
  BY <1>3 DEF Elsewhere
<1>4. CASE t = MAIN /\ Stopped
  BY <1>0, <1>4 DEF Stopped, Elsewhere, TypeOK
<1> QED BY <1>1, <1>2, <1>3, <1>4 DEF Raise

LEMMA ReturnGoes ==
  ASSUME TypeOK, NEW t \in Thread, Return(t)
  PROVE  Elsewhere(t) /\ pc'[t] = "recv"
BY DEF Return, Goto, Elsewhere, TypeOK

LEMMA GotoGoes ==
  ASSUME TypeOK, NEW t \in Thread, NEW l, NEW r, NEW S, Goto(t, l, r, S),
         \A u \in Thread \ {t} : to'[u] = to[u]
  PROVE  Elsewhere(t) /\ pc'[t] = l /\ ref'[t] = r /\ todo'[t] = S
BY DEF Goto, Elsewhere, TypeOK

\* A write that fails breaks the socket of a hub that is gone.
LEMMA SendFailsHolds ==
  ASSUME TypeOK, NEW t, NEW c, SendFails(t, c)
  PROVE  SocksHold /\ Raise(t) /\ UNCHANGED streams
BY DEF SendFails, SocksHold, TypeOK

\* One turn of a foreach that sends.
LEMMA SendNextGoes ==
  ASSUME TypeOK, NEW t \in Thread, SendNext(t), todo[t] # {}
  PROVE  /\ SocksHold /\ Elsewhere(t)
         /\ \/ Raise(t) /\ UNCHANGED streams
            \/ /\ pc'[t] = pc[t] /\ ref'[t] = ref[t] /\ Turn(t)
               /\ SendTCP(t, Next1(t))
<1>1. CASE SendFails(t, Next1(t))
  BY <1>1, SendFailsHolds, RaiseGoes
<1>2. CASE /\ SendTCP(t, Next1(t)) /\ UNCHANGED to
           /\ Goto(t, pc[t], ref[t], todo[t] \ {Min(todo[t])})
  <2>1. UNCHANGED sock
    BY <1>2 DEF SendTCP
  <2>2. SocksHold
    BY <2>1 DEF SocksHold
  <2> QED BY <1>2, <2>2, GotoGoes DEF Turn
<1> QED BY <1>1, <1>2 DEF SendNext, Next1

LEMMA NextIsClient ==
  ASSUME TypeOK, NEW t \in Thread, todo[t] # {}
  PROVE  /\ Min(todo[t]) \in todo[t] /\ todo[t] \subseteq DOMAIN recs
         /\ Next1(t) \in Client \cup {None}
<1>1. todo[t] \subseteq DOMAIN recs /\ DOMAIN recs \subseteq Nat
  BY DEF TypeOK
<1>2. Min(todo[t]) \in todo[t]
  BY <1>1, MinIsMember
<1> QED BY <1>1, <1>2, RecordAt DEF Next1

\* What a write tells of hubs.
LEMMA SendTCPTells ==
  ASSUME TypeOK, NEW t \in Thread, NEW c \in Client \cup {None}, SendTCP(t, c)
  PROVE  /\ pc[t] = "inform" =>
              told' = IF c \in Client /\ sock[c] = "open"
                        THEN [told EXCEPT ![c] = @ \cup {recs[ref[t]].id}] ELSE told
         /\ pc[t] = "notify" =>
              told' = IF c \in Client /\ sock[c] = "open"
                        THEN [told EXCEPT ![c] = @ \ {recs[ref[t]].id}] ELSE told
         /\ pc[t] \notin {"inform", "notify"} => told' = told
<1> USE GatewayAssumption
<1>1. CASE ~(c \in Client /\ sock[c] = "open")
  BY <1>1 DEF SendTCP, streams
<1>2. CASE c \in Client /\ sock[c] = "open"
  <2>1. Deliver(t, c)
    BY <1>2 DEF SendTCP
  <2>2. CASE pc[t] = "inform"
    BY <1>2, <2>1, <2>2 DEF Deliver
  <2>3. CASE pc[t] = "notify"
    BY <1>2, <2>1, <2>3 DEF Deliver
  <2>4. CASE pc[t] \in {"relay", "forward"}
    BY <2>1, <2>4 DEF Deliver
  <2>5. CASE pc[t] = "stop"
    BY <2>1, <2>5 DEF Deliver
  <2>6. CASE pc[t] \notin {"inform", "notify", "relay", "forward", "stop"}
    BY <2>1, <2>6 DEF Deliver, streams
  <2> QED BY <2>2, <2>3, <2>4, <2>5, <2>6
<1> QED BY <1>1, <1>2

\* Another thread than a worker tells, and takes nothing back.
LEMMA OthersTell ==
  ASSUME TypeOK, NEW t \in Thread, todo[t] # {}, SendTCP(t, Next1(t)), pc[t] # "notify"
  PROVE  \A c \in Client : told[c] \subseteq told'[c]
<1>1. \/ told' = told
      \/ /\ Next1(t) \in Client
         /\ told' = [told EXCEPT ![Next1(t)] = @ \cup {recs[ref[t]].id}]
  BY NextIsClient, SendTCPTells
<1> QED BY <1>1 DEF TypeOK

\* Only a worker of a client disconnects.
LEMMA Threads ==
  /\ UDP \in Thread /\ MAIN \in Thread /\ Client \subseteq Thread
  /\ UDP \notin Client /\ MAIN \notin Client /\ UDP # MAIN
BY GatewayAssumption DEF Thread

\* An exception that leaves a handler.
LEMMA RaiseWalks ==
  ASSUME TypeOK, NEW t \in Thread, Raise(t), SocksHold,
         UNCHANGED <<store, queue, hubside, streams>>,
         pc[t] \notin {"remove", "done"}
  PROVE  Walk(t)
<1>1. UNCHANGED <<recs, listed, queue, sent, told>> /\ SameRecords
  BY DEF store, hubside, streams, SameRecords
<1>2. t \in Client => Ends(t) \/ Throws(t)
  BY <1>1, RaiseGoes DEF Ends, Throws, Leaving
<1> QED BY <1>1, <1>2, RaiseGoes DEF Walk, Path

LEMMA LookupWalks ==
  ASSUME TypeOK, NEW t \in Client \cup {UDP}, Lookup(t)
  PROVE  Walk(t)
<1>0. t \in Thread
  BY Threads
<1>1. /\ UNCHANGED <<recs, listed, queue, sent, told, sock>> /\ UNCHANGED <<store, queue, hubside, streams>>
      /\ pc[t] = "lookup" /\ SameRecords /\ SocksHold
  BY DEF Lookup, store, hubside, streams, SameRecords, SocksHold
<1>2. CASE Raise(t)
  BY <1>0, <1>1, <1>2, RaiseWalks
<1>3. CASE ~Raise(t)
  <2> DEFINE r == First(ById(Subject(t)))
  <2>1. Goto(t, IF r = 0 THEN "add" ELSE "set", r, {}) /\ UNCHANGED to
    BY <1>3 DEF Lookup
  <2>2. /\ Elsewhere(t) /\ ref'[t] = r
        /\ pc'[t] = IF r = 0 THEN "add" ELSE "set"
    <3> HIDE DEF r
    <3> QED BY <1>0, <2>1, GotoGoes
  <2>3. t \in Client /\ r # 0 => r \in DOMAIN recs /\ recs[r].id = Owner(t)
    <3>1. ById(Subject(t)) \subseteq Nat /\ listed \subseteq DOMAIN recs
      BY DEF ById, TypeOK
    <3>2. r # 0 => r \in ById(Subject(t))
      BY <3>1, FirstIsMember
    <3> QED BY <3>1, <3>2, Threads DEF ById, Subject
  <2>4. t \in Client => Finds(t)
    BY <1>1, <2>2, <2>3 DEF Finds
  <2> QED BY <1>1, <2>2, <2>4 DEF Walk, Path
<1> QED BY <1>2, <1>3

LEMMA CopyWalks ==
  ASSUME TypeOK, NEW t \in Client \cup {UDP}, Copy(t)
  PROVE  Walk(t)
<1>0. t \in Thread
  BY Threads
<1>1. UNCHANGED <<recs, listed, queue, sent, told>> /\ pc[t] = "copy" /\ SameRecords /\ SocksHold
  BY DEF Copy, store, hubside, streams, SameRecords, SocksHold
<1>2. /\ Elsewhere(t) /\ pc'[t] = "inform" /\ ref'[t] = ref[t]
      /\ todo'[t] = WithClient(listed)
  BY <1>0, GotoGoes DEF Copy
<1>3. t \in Client => Copies(t)
  BY <1>1, <1>2 DEF Copies, Goes
<1> QED BY <1>1, <1>2, <1>3 DEF Walk, Path

LEMMA InformWalks ==
  ASSUME TypeOK, NEW t \in Client \cup {UDP}, Inform(t)
  PROVE  Walk(t)
<1>0. t \in Thread
  BY Threads
<1>1. /\ UNCHANGED <<recs, listed, queue, sent>> /\ UNCHANGED <<store, queue, hubside>>
      /\ pc[t] = "inform" /\ SameRecords
      /\ todo[t] # {} /\ SendNext(t)
  BY DEF Inform, store, hubside, SameRecords
<1>2. CASE Raise(t) /\ UNCHANGED streams
  BY <1>0, <1>1, <1>2, SendNextGoes, RaiseWalks
<1>3. CASE ~(Raise(t) /\ UNCHANGED streams)
  <2>1. /\ SocksHold /\ Elsewhere(t) /\ pc'[t] = pc[t] /\ ref'[t] = ref[t] /\ Turn(t)
        /\ SendTCP(t, Next1(t))
    BY <1>0, <1>1, <1>3, SendNextGoes
  <2>2. t \in Client => Informs(t)
    BY <1>0, <1>1, <2>1, SendTCPTells, NextIsClient DEF Informs, Goes
  <2>3. \A c \in Client : told[c] \subseteq told'[c]
    BY <1>0, <1>1, <2>1, OthersTell
  <2> QED BY <1>1, <2>1, <2>2, <2>3 DEF Walk, Path
<1> QED BY <1>2, <1>3

\* A field of a record that is neither its hub nor its client.
LEMMA OtherField ==
  ASSUME TypeOK, NEW i \in DOMAIN recs,
         \/ recs' = [recs EXCEPT ![i].ep = TRUE]
         \/ recs' = [recs EXCEPT ![i].initialized = TRUE]
  PROVE  SameRecords
<1>1. \A r \in DOMAIN recs : recs[r] \in Record
  BY RecordAt
<1> QED BY <1>1 DEF SameRecords, Record

LEMMA SetFieldsWalks ==
  ASSUME TypeOK, RegistryInv, SetFields(UDP)
  PROVE  Walk(UDP)
<1>1. UNCHANGED <<listed, queue, sent, told>> /\ SocksHold
  BY DEF SetFields, hubside, streams, SocksHold
<1>2. Elsewhere(UDP)
  BY Threads, GotoGoes DEF SetFields
<1>3. ref[UDP] \in DOMAIN recs
  BY Threads DEF SetFields, RegistryInv, HandlerHolds, TypeOK
<1>4. SameRecords
  BY <1>3, OtherField DEF SetFields
<1> QED BY <1>1, <1>2, <1>4, Threads DEF Walk

LEMMA GreetWalks ==
  ASSUME TypeOK, NEW t \in Client \cup {UDP}, Greet(t)
  PROVE  Walk(t)
<1>0. t \in Thread
  BY Threads
<1>1. /\ UNCHANGED <<recs, listed, queue, sent>> /\ UNCHANGED <<store, queue, hubside>>
      /\ pc[t] = "inform" /\ todo[t] = {} /\ SameRecords
  BY DEF Greet, store, hubside, SameRecords
<1>2. CASE SendFails(t, recs[ref[t]].client)
  BY <1>0, <1>1, <1>2, SendFailsHolds, RaiseWalks
<1>3. CASE ~SendFails(t, recs[ref[t]].client)
  <2>1. /\ UNCHANGED <<sock, told>>
        /\ Return(t) \/ (Goto(t, "introduce", ref[t], listed) /\ UNCHANGED to)
    BY <1>3 DEF Greet, streams
  <2>2. Elsewhere(t) /\ pc'[t] \in {"recv", "introduce"}
    BY <1>0, <2>1, ReturnGoes, GotoGoes
  <2>3. SocksHold
    BY <2>1 DEF SocksHold
  <2>4. t \in Client => Greets(t)
    BY <1>1, <2>1, <2>2 DEF Greets
  <2> QED BY <1>1, <2>1, <2>2, <2>3, <2>4 DEF Walk, Path
<1> QED BY <1>2, <1>3

LEMMA IntroduceWalks ==
  ASSUME TypeOK, RegistryInv, NEW t \in Client \cup {UDP}, Introduce(t)
  PROVE  Walk(t)
<1>0. t \in Thread
  BY Threads
<1>1. UNCHANGED <<listed, queue, sent, told>> /\ pc[t] = "introduce" /\ SocksHold
  BY DEF Introduce, hubside, SocksHold
<1>2. CASE Stale(t)
  <2>1. Raise(t) /\ UNCHANGED <<recs, listed, queue, sent, told>>
    BY <1>1, <1>2 DEF Introduce
  <2>2. SameRecords
    BY <2>1 DEF SameRecords
  <2>3. t \in Client => Throws(t)
    BY <1>0, <1>1, <2>1, RaiseGoes DEF Throws, Leaving
  <2> QED BY <1>0, <1>1, <2>1, <2>2, <2>3, RaiseGoes DEF Walk, Path
<1>3. CASE ~Stale(t)
  <2>1. /\ \/ recs' = recs
           \/ recs' = [recs EXCEPT ![ref[t]].initialized = TRUE]
        /\ \/ Return(t)
           \/ \E S : Goto(t, "introduce", ref[t], S) /\ UNCHANGED to
    BY <1>3 DEF Introduce
  <2>2. ref[t] \in DOMAIN recs
    BY <1>0, <1>1 DEF RegistryInv, HandlerHolds, TypeOK
  <2>3. SameRecords
    <3>1. CASE recs' = recs
      BY <3>1 DEF SameRecords
    <3> QED BY <2>1, <2>2, <3>1, OtherField
  <2>4. Elsewhere(t) /\ pc'[t] \in {"recv", "introduce"}
    BY <1>0, <2>1, ReturnGoes, GotoGoes
  <2>5. t \in Client => Works(t)
    BY <1>1, <2>4 DEF Works
  <2> QED BY <1>1, <2>3, <2>4, <2>5 DEF Walk, Path
<1> QED BY <1>2, <1>3

LEMMA ReceiveUdpWalks ==
  ASSUME TypeOK, NEW c \in Client, ReceiveUdp(c)
  PROVE  Walk(UDP)
<1>1. UNCHANGED <<recs, listed, queue, sent, told>> /\ SocksHold /\ SameRecords
  BY DEF ReceiveUdp, store, streams, SocksHold, SameRecords
<1>2. Elsewhere(UDP)
  BY Threads, GotoGoes DEF ReceiveUdp
<1> QED BY <1>1, <1>2, Threads DEF Walk

\* The host's thread.
LEMMA MainWalks ==
  ASSUME TypeOK, StopAsync \/ Shutdown
  PROVE  Walk(MAIN)
<1>1. CASE StopAsync
  <2>1. UNCHANGED <<recs, listed, queue, sent, told>> /\ SocksHold /\ SameRecords
    BY <1>1 DEF StopAsync, store, hubside, streams, SocksHold, SameRecords
  <2>2. Elsewhere(MAIN)
    BY <1>1, Threads, GotoGoes DEF StopAsync
  <2> QED BY <2>1, <2>2, Threads DEF Walk
<1>2. CASE Shutdown
  <2>1. UNCHANGED <<recs, listed, queue, sent>> /\ SameRecords /\ pc[MAIN] = "stop"
    BY <1>2 DEF Shutdown, store, hubside, SameRecords
  <2>2. CASE todo[MAIN] # {}
    <3>1. SendNext(MAIN)
      BY <1>2, <2>2 DEF Shutdown
    <3>2. /\ SocksHold /\ Elsewhere(MAIN)
          /\ UNCHANGED streams \/ SendTCP(MAIN, Next1(MAIN))
      BY <2>2, <3>1, Threads, SendNextGoes
    <3>3. \A c \in Client : told[c] \subseteq told'[c]
      <4>1. CASE UNCHANGED streams
        BY <4>1 DEF streams
      <4>2. CASE SendTCP(MAIN, Next1(MAIN))
        BY <2>1, <2>2, <4>2, Threads, OthersTell
      <4> QED BY <3>2, <4>1, <4>2
    <3> QED BY <2>1, <3>2, <3>3, Threads DEF Walk
  <2>3. CASE todo[MAIN] = {}
    <3>1. Stopped /\ UNCHANGED <<sock, told>>
      BY <1>2, <2>3 DEF Shutdown, streams
    <3>2. Elsewhere(MAIN) /\ SocksHold
      BY <3>1, Threads DEF Stopped, Elsewhere, TypeOK, SocksHold
    <3> QED BY <2>1, <3>1, <3>2, Threads DEF Walk
  <2> QED BY <2>2, <2>3
<1> QED BY <1>1, <1>2

LEMMA ReadFailsWalks ==
  ASSUME TypeOK, NEW c \in Client, ReadFails(c)
  PROVE  Walk(c)
<1>1. SocksHold /\ Raise(c) /\ UNCHANGED <<store, queue, hubside, streams>> /\ pc[c] = "recv"
  BY DEF ReadFails, SocksHold
<1> QED BY <1>1, Threads, RaiseWalks

LEMMA ForwardWalks ==
  ASSUME TypeOK, NEW c \in Client, Forward(c)
  PROVE  Walk(c)
<1> DEFINE r == Recipient(c)
           d == IF r = 0 THEN None ELSE recs[r].client
<1>0. c \in Thread
  BY Threads
<1>1. /\ UNCHANGED <<recs, listed, queue, sent>> /\ UNCHANGED <<store, queue, hubside>>
      /\ pc[c] = "forward" /\ SameRecords
  BY DEF Forward, store, hubside, SameRecords
<1>2. CASE SendTCP(c, d) /\ Return(c)
  <2>1. r # 0 => r \in DOMAIN recs
    BY FoundType DEF Recipient, ById
  <2>2. d \in Client \cup {None}
    BY <2>1, RecordAt
  <2>3. told' = told
    <3> HIDE DEF d
    <3> QED BY <1>0, <1>1, <1>2, <2>2, SendTCPTells
  <2>4. Elsewhere(c) /\ pc'[c] = "recv" /\ SocksHold
    BY <1>0, <1>2, ReturnGoes DEF SendTCP, SocksHold
  <2>5. Works(c)
    BY <1>1, <2>3, <2>4 DEF Works
  <2> QED BY <1>1, <2>4, <2>5 DEF Walk, Path
<1>3. CASE r # 0 /\ SendFails(c, recs[r].client)
  BY <1>0, <1>1, <1>3, SendFailsHolds, RaiseWalks
<1>4. CASE Raise(c) /\ UNCHANGED <<sock, streams>>
  <2>1. SocksHold
    BY <1>4 DEF SocksHold
  <2> QED BY <1>0, <1>1, <1>4, <2>1, RaiseWalks
<1> QED BY <1>2, <1>3, <1>4 DEF Forward

LEMMA RelayWalks ==
  ASSUME TypeOK, NEW c \in Client, RelayBroadcast(c)
  PROVE  Walk(c)
<1>0. c \in Thread
  BY Threads
<1>1. /\ UNCHANGED <<recs, listed, queue, sent>> /\ UNCHANGED <<store, queue, hubside>>
      /\ pc[c] = "relay" /\ SameRecords
  BY DEF RelayBroadcast, store, hubside, SameRecords
<1>2. CASE Raise(c) /\ UNCHANGED <<sock, streams>>
  <2>1. SocksHold
    BY <1>2 DEF SocksHold
  <2> QED BY <1>0, <1>1, <1>2, <2>1, RaiseWalks
<1>3. CASE todo[c] # {} /\ SendNext(c)
  <2>1. CASE Raise(c) /\ UNCHANGED streams
    BY <1>0, <1>1, <1>3, <2>1, SendNextGoes, RaiseWalks
  <2>2. CASE ~(Raise(c) /\ UNCHANGED streams)
    <3>1. /\ SocksHold /\ Elsewhere(c) /\ pc'[c] = "relay" /\ SendTCP(c, Next1(c))
      BY <1>0, <1>1, <1>3, <2>2, SendNextGoes
    <3>2. told' = told
      BY <1>0, <1>1, <1>3, <3>1, SendTCPTells, NextIsClient
    <3>3. Works(c)
      BY <1>1, <3>1, <3>2 DEF Works
    <3> QED BY <1>1, <3>1, <3>3 DEF Walk, Path
  <2> QED BY <2>1, <2>2
<1>4. CASE Return(c) /\ UNCHANGED <<sock, streams>>
  <2>1. Elsewhere(c) /\ pc'[c] = "recv" /\ SocksHold /\ told' = told
    BY <1>0, <1>4, ReturnGoes DEF SocksHold, streams
  <2>2. Works(c)
    BY <1>1, <2>1 DEF Works
  <2> QED BY <1>1, <2>1, <2>2 DEF Walk, Path
<1> QED BY <1>2, <1>3, <1>4 DEF RelayBroadcast

LEMMA DisconnectLookupWalks ==
  ASSUME TypeOK, NEW c \in Client, DisconnectLookup(c)
  PROVE  Walk(c)
<1>0. c \in Thread
  BY Threads
<1>1. /\ UNCHANGED <<recs, listed, queue, sent, sock, told>>
      /\ UNCHANGED <<store, queue, hubside, streams>>
      /\ pc[c] = "disconnect" /\ SameRecords /\ SocksHold
  BY DEF DisconnectLookup, store, hubside, streams, SameRecords, SocksHold
<1>2. CASE Raise(c)
  BY <1>0, <1>1, <1>2, RaiseWalks
<1>3. CASE Victim(c) # 0 /\ Goto(c, "remove", Victim(c), {}) /\ UNCHANGED to
  <2>1. Elsewhere(c) /\ pc'[c] = "remove" /\ ref'[c] = Victim(c)
    BY <1>0, <1>3, GotoGoes
  <2>2. Chooses(c)
    BY <1>1, <1>3, <2>1 DEF Chooses
  <2> QED BY <1>1, <2>1, <2>2 DEF Walk, Path
<1>4. CASE /\ Victim(c) = 0
           /\ \/ sock[c] = "broken" /\ Goto(c, "final", 0, {}) /\ UNCHANGED to
              \/ Return(c)
  <2>1. Elsewhere(c) /\ (pc'[c] = "recv" \/ (pc'[c] = "final" /\ sock[c] = "broken"))
    BY <1>0, <1>4, GotoGoes, ReturnGoes
  <2>2. Chooses(c)
    BY <1>1, <1>4, <2>1 DEF Chooses
  <2> QED BY <1>1, <2>1, <2>2 DEF Walk, Path
<1> QED BY <1>2, <1>3, <1>4 DEF DisconnectLookup

LEMMA NotifyWalks ==
  ASSUME TypeOK, NEW c \in Client, Notify(c)
  PROVE  Walk(c)
<1>0. c \in Thread
  BY Threads
<1>1. /\ UNCHANGED <<recs, listed, queue, sent>> /\ UNCHANGED <<store, queue, hubside>>
      /\ pc[c] = "notify" /\ SameRecords
  BY DEF Notify, store, hubside, SameRecords
<1>2. CASE todo[c] # {}
  <2>0. SendNext(c)
    BY <1>2 DEF Notify
  <2>1. CASE Raise(c) /\ UNCHANGED streams
    BY <1>0, <1>1, <1>2, <2>0, <2>1, SendNextGoes, RaiseWalks
  <2>2. CASE ~(Raise(c) /\ UNCHANGED streams)
    <3>1. /\ SocksHold /\ Elsewhere(c) /\ pc'[c] = "notify" /\ ref'[c] = ref[c] /\ Turn(c)
          /\ SendTCP(c, Next1(c))
      BY <1>0, <1>1, <1>2, <2>0, <2>2, SendNextGoes
    <3>2. Notifies(c)
      BY <1>0, <1>1, <1>2, <3>1, SendTCPTells, NextIsClient DEF Notifies, Goes
    <3> QED BY <1>1, <3>1, <3>2 DEF Walk, Path
  <2> QED BY <2>1, <2>2
<1>3. CASE todo[c] = {}
  <2>1. Goto(c, "final", 0, {}) /\ UNCHANGED <<to, sock, streams>>
    BY <1>3 DEF Notify
  <2>2. Elsewhere(c) /\ pc'[c] = "final" /\ SocksHold /\ told' = told
    BY <1>0, <2>1, GotoGoes DEF SocksHold, streams
  <2>3. Notified(c)
    BY <1>1, <1>3, <2>2 DEF Notified
  <2> QED BY <1>1, <2>2, <2>3 DEF Walk, Path
<1> QED BY <1>2, <1>3

LEMMA FinalDisconnectWalks ==
  ASSUME TypeOK, NEW c \in Client, FinalDisconnect(c)
  PROVE  Walk(c)
<1>0. c \in Thread
  BY Threads
<1>1. /\ UNCHANGED <<recs, listed, queue, sent, sock, told>>
      /\ UNCHANGED <<store, queue, hubside, streams>>
      /\ pc[c] = "final" /\ SameRecords /\ SocksHold
  BY DEF FinalDisconnect, store, hubside, streams, SameRecords, SocksHold
<1>2. CASE Raise(c)
  BY <1>0, <1>1, <1>2, RaiseWalks
<1>3. CASE Goto(c, "done", 0, {}) /\ UNCHANGED to
  <2>1. Elsewhere(c) /\ pc'[c] = "done"
    BY <1>0, <1>3, GotoGoes
  <2>2. Finishes(c)
    BY <1>1, <2>1 DEF Finishes
  <2> QED BY <1>1, <2>1, <2>2 DEF Walk, Path
<1> QED BY <1>2, <1>3 DEF FinalDisconnect

\* Every step is one of these, or one of those that change the list, a record or a
\* hub's messages.
LEMMA Steps ==
  ASSUME TypeOK, RegistryInv, [Next]_vars
  PROVE  \/ UNCHANGED vars
         \/ \E t \in Thread : Walk(t)
         \/ \E t \in Client \cup {UDP} : Add(t)
         \/ \E c \in Client : SetFields(c) \/ ReceiveTcp(c) \/ Remove(c) \/ HubStep(c)
<1>1. CASE UdpWorker
  BY <1>1, Threads, ReceiveUdpWalks, LookupWalks, SetFieldsWalks, CopyWalks, InformWalks,
     GreetWalks, IntroduceWalks
  DEF UdpWorker, InfoHandler
<1>2. ASSUME NEW c \in Client, InfoHandler(c), ~Add(c), ~SetFields(c)
      PROVE  Walk(c)
  BY <1>2, LookupWalks, CopyWalks, InformWalks, GreetWalks, IntroduceWalks DEF InfoHandler
<1>3. ASSUME NEW c \in Client, TcpWorker(c), ~InfoHandler(c), ~ReceiveTcp(c), ~Remove(c)
      PROVE  Walk(c)
  BY <1>3, ReadFailsWalks, ForwardWalks, RelayWalks, DisconnectLookupWalks, NotifyWalks,
     FinalDisconnectWalks
  DEF TcpWorker
<1>4. ASSUME NEW c \in Client, TcpWorker(c)
      PROVE  Walk(c) \/ Add(c) \/ SetFields(c) \/ ReceiveTcp(c) \/ Remove(c)
  BY <1>2, <1>3, <1>4
<1> QED BY <1>1, <1>4, Threads, MainWalks DEF Next

------------------------------------------------------------------------------
(* The other steps.                                                        *)

LEMMA AddDoes ==
  ASSUME TypeOK, NEW t \in Client \cup {UDP}, Add(t)
  PROVE  /\ UNCHANGED <<queue, sent, sock, told, inbox>> /\ Elsewhere(t)
         /\ pc[t] = "add" /\ pc'[t] = "set" /\ ref'[t] = Len(recs) + 1
         /\ Len(recs) + 1 \notin DOMAIN recs /\ Len(recs) + 1 \in Nat
         /\ DOMAIN recs' = DOMAIN recs \cup {Len(recs) + 1}
         /\ \A r \in DOMAIN recs : recs'[r] = recs[r]
         /\ recs'[Len(recs) + 1].client = None /\ recs'[Len(recs) + 1].id = Subject(t)
         /\ listed' = listed \cup {Len(recs) + 1}
<1>1. Elsewhere(t) /\ pc'[t] = "set" /\ ref'[t] = Len(recs) + 1
  BY Threads, GotoGoes DEF Add
<1>2. recs \in Seq(Record)
  BY DEF TypeOK
<1> QED BY <1>1, <1>2 DEF Add, hubside, streams

LEMMA SetFieldsDoes ==
  ASSUME TypeOK, RegistryInv, NEW c \in Client, SetFields(c)
  PROVE  /\ UNCHANGED <<listed, queue, sent, sock, told, inbox>> /\ Elsewhere(c)
         /\ pc[c] = "set" /\ pc'[c] = "copy" /\ ref'[c] = ref[c] /\ ref[c] \in DOMAIN recs
         /\ DOMAIN recs' = DOMAIN recs
         /\ \A r \in DOMAIN recs : /\ recs'[r].id = recs[r].id
                                   /\ recs'[r].client = IF r = ref[c] THEN c ELSE recs[r].client
<1>1. Elsewhere(c) /\ pc'[c] = "copy" /\ ref'[c] = ref[c]
  BY Threads, GotoGoes DEF SetFields
<1>2. pc[c] = "set" /\ ref[c] \in DOMAIN recs
  BY Threads DEF SetFields, RegistryInv, HandlerHolds, TypeOK
<1>3. \A r \in DOMAIN recs : recs[r] \in Record
  BY RecordAt
<1>4. recs' = [recs EXCEPT ![ref[c]].client = c]
  BY Threads DEF SetFields
<1>5. \A r \in DOMAIN recs : /\ recs'[r].id = recs[r].id
                             /\ recs'[r].client = IF r = ref[c] THEN c ELSE recs[r].client
  BY <1>2, <1>3, <1>4 DEF Record
<1> QED BY <1>1, <1>2, <1>4, <1>5 DEF SetFields, hubside, streams

LEMMA ReceiveTcpDoes ==
  ASSUME TypeOK, NEW c \in Client, ReceiveTcp(c)
  PROVE  /\ UNCHANGED <<recs, listed, sent, sock, told, inbox>> /\ Elsewhere(c)
         /\ pc[c] = "recv" /\ pc'[c] \in {"lookup", "forward", "relay"}
         /\ queue[c] # << >>
         /\ queue'[c] = Tail(queue[c]) /\ \A d \in Client \ {c} : queue'[d] = queue[d]
         /\ pc'[c] = "forward" => queue[c][1].type = "REQ" /\ to'[c] = queue[c][1].to
<1> DEFINE m == Head(queue[c])
<1>1. /\ UNCHANGED <<recs, listed, sent, sock, told, inbox>>
      /\ pc[c] = "recv" /\ queue[c] # << >> /\ queue[c] \in Seq(Message)
      /\ queue' = [queue EXCEPT ![c] = Tail(@)] /\ to' = [to EXCEPT ![c] = m.to]
  BY DEF ReceiveTcp, store, hubside, streams, TypeOK
<1>2. m \in Message /\ m = queue[c][1]
  BY <1>1
<1>3. \/ Goto(c, "lookup", 0, {})
      \/ Goto(c, "forward", 0, {}) /\ m.type = "REQ"
      \/ Goto(c, "relay", 0, listed)
  <2>1. m.type \in {"INFO", "REQ", "BROADCAST"}
    BY <1>2 DEF Message, Info, Relay, Req
  <2>2. CASE m.type = "INFO"
    BY <2>1, <2>2 DEF ReceiveTcp
  <2>3. CASE m.type = "REQ"
    BY <2>3 DEF ReceiveTcp
  <2>4. CASE m.type = "BROADCAST"
    BY <2>4 DEF ReceiveTcp
  <2> QED BY <2>1, <2>2, <2>3, <2>4
<1>4. \A u \in Thread \ {c} : to'[u] = to[u]
  BY <1>1 DEF TypeOK
<1>5. /\ Elsewhere(c) /\ pc'[c] \in {"lookup", "forward", "relay"}
      /\ pc'[c] = "forward" => m.type = "REQ"
  BY <1>3, <1>4, Threads, GotoGoes
<1>6. to'[c] = m.to
  BY <1>1, Threads DEF TypeOK
<1>7. queue'[c] = Tail(queue[c]) /\ \A d \in Client \ {c} : queue'[d] = queue[d]
  BY <1>1 DEF TypeOK
<1> QED BY <1>1, <1>2, <1>5, <1>6, <1>7

LEMMA RemoveDoes ==
  ASSUME TypeOK, NEW c \in Client, Remove(c)
  PROVE  /\ UNCHANGED <<recs, queue, sent, told, inbox>> /\ Elsewhere(c)
         /\ pc[c] = "remove" /\ pc'[c] = "notify" /\ ref'[c] = ref[c]
         /\ todo'[c] = WithClient(listed') /\ listed' = listed \ {ref[c]}
         /\ sock'[c] = "closed" /\ \A d \in Client \ {c} : sock'[d] = sock[d]
<1>1. Elsewhere(c) /\ pc'[c] = "notify" /\ ref'[c] = ref[c] /\ todo'[c] = WithClient(listed')
  BY Threads, GotoGoes DEF Remove
<1> QED BY <1>1 DEF Remove, hubside, streams, TypeOK

LEMMA HubStepDoes ==
  ASSUME TypeOK, NEW c \in Client, HubStep(c)
  PROVE  /\ UNCHANGED <<recs, listed, told, inbox, ref, todo, to>>
         /\ \A u \in Thread \ {c} : pc'[u] = pc[u]
         /\ \A d \in Client \ {c} : sock'[d] = sock[d] /\ sent'[d] = sent[d]
         /\ \/ /\ sock[c] = "idle" /\ sock'[c] = "open" /\ pc'[c] = "recv"
               /\ UNCHANGED <<sent, queue>>
            \/ /\ sock[c] = "open" /\ UNCHANGED <<sock, pc>>
               /\ \E m \in Message : /\ queue' = [queue EXCEPT ![c] = Append(@, m)]
                                     /\ m.type = "REQ" => <<Owner(c), m.to>> \in Invitations
            \/ /\ sock[c] = "open" /\ sock'[c] = "gone" /\ UNCHANGED <<pc, sent>>
               /\ queue' \in {queue, [queue EXCEPT ![c] = << >>]}
<1>1. CASE Connect(c)
  BY <1>1, Threads DEF Connect, store, streams, TypeOK
<1>2. ASSUME NEW m \in Message, HubSends(c, m)
      PROVE  /\ UNCHANGED <<recs, listed, told, inbox, ref, todo, to, sock, pc>>
             /\ sock[c] = "open"
             /\ \A d \in Client \ {c} : sent'[d] = sent[d]
             /\ queue' = [queue EXCEPT ![c] = Append(@, m)]
             /\ m.type = "REQ" => <<Owner(c), m.to>> \in Invitations
  <2>1. m.type = "REQ" => m # Info /\ m # Relay
    BY DEF Info, Relay
  <2> QED BY <1>2, <2>1 DEF HubSends, store, streams, TypeOK
<1>3. CASE Leave(c)
  BY <1>3 DEF Leave, store, hubside, streams, TypeOK
<1> QED BY <1>1, <1>2, <1>3 DEF HubStep

------------------------------------------------------------------------------
(* The records of a hub.                                                   *)

\* A record holds a client of its own hub, and a worker that handles an info
\* holds a record of its hub.
RecordsInv ==
  /\ \A r \in DOMAIN recs : recs[r].client # None => recs[r].id = Owner(recs[r].client)
  /\ \A c \in Client : pc[c] \in {"set", "copy", "inform"} => recs[ref[c]].id = Owner(c)

LEMMA RecordsStep ==
  ASSUME TypeOK, RegistryInv, RecordsInv, [Next]_vars
  PROVE  RecordsInv'
<1>0. \A c \in Client : pc[c] \in {"set", "copy", "inform"} => ref[c] \in DOMAIN recs
  BY Threads DEF RegistryInv, HandlerHolds, TypeOK
<1>1. CASE UNCHANGED vars
  BY <1>1 DEF vars, RecordsInv
<1>2. ASSUME NEW t \in Thread, Walk(t)
      PROVE  RecordsInv'
  <2>1. SameRecords /\ Elsewhere(t) /\ (t \in Client => Path(t))
    BY <1>2 DEF Walk
  <2>2. ASSUME NEW r \in DOMAIN recs', recs'[r].client # None
        PROVE  recs'[r].id = Owner(recs'[r].client)
    BY <2>1, <2>2 DEF RecordsInv, SameRecords
  <2>3. ASSUME NEW c \in Client, pc'[c] \in {"set", "copy", "inform"}
        PROVE  recs'[ref'[c]].id = Owner(c)
    <3>1. CASE c # t
      BY <1>0, <2>1, <2>3, <3>1, Threads DEF RecordsInv, SameRecords, Elsewhere
    <3>2. CASE c = t
      <4>1. CASE Finds(c)
        BY <2>1, <2>3, <4>1 DEF Finds, SameRecords
      <4>2. CASE Copies(c) \/ Informs(c)
        BY <1>0, <2>1, <4>2 DEF Copies, Informs, Goes, SameRecords, RecordsInv
      <4>3. ~Ends(c) /\ ~Throws(c) /\ ~Greets(c) /\ ~Works(c)
        BY <2>3 DEF Ends, Throws, Greets, Works
      <4>4. ~Chooses(c) /\ ~Notifies(c) /\ ~Notified(c) /\ ~Finishes(c)
        BY <2>3 DEF Chooses, Notifies, Notified, Finishes, Goes
      <4> QED BY <2>1, <3>2, <4>1, <4>2, <4>3, <4>4 DEF Path
    <3> QED BY <3>1, <3>2
  <2> QED BY <2>2, <2>3 DEF RecordsInv
<1>3. ASSUME NEW t \in Client \cup {UDP}, Add(t)
      PROVE  RecordsInv'
  <2>1. ASSUME NEW r \in DOMAIN recs', recs'[r].client # None
        PROVE  recs'[r].id = Owner(recs'[r].client)
    BY <1>3, <2>1, AddDoes DEF RecordsInv
  <2>2. ASSUME NEW c \in Client, pc'[c] \in {"set", "copy", "inform"}
        PROVE  recs'[ref'[c]].id = Owner(c)
    <3>1. CASE c = t
      BY <1>3, <3>1, AddDoes, Threads DEF Subject
    <3>2. CASE c # t
      BY <1>0, <1>3, <2>2, <3>2, AddDoes, Threads DEF RecordsInv, Elsewhere
    <3> QED BY <3>1, <3>2
  <2> QED BY <2>1, <2>2 DEF RecordsInv
<1>4. ASSUME NEW c \in Client, SetFields(c)
      PROVE  RecordsInv'
  <2>1. recs[ref[c]].id = Owner(c)
    BY <1>4, SetFieldsDoes DEF RecordsInv
  <2>2. ASSUME NEW r \in DOMAIN recs', recs'[r].client # None
        PROVE  recs'[r].id = Owner(recs'[r].client)
    BY <1>4, <2>1, <2>2, SetFieldsDoes DEF RecordsInv
  <2>3. ASSUME NEW d \in Client, pc'[d] \in {"set", "copy", "inform"}
        PROVE  recs'[ref'[d]].id = Owner(d)
    BY <1>0, <1>4, <2>1, <2>3, SetFieldsDoes, Threads DEF RecordsInv, Elsewhere
  <2> QED BY <2>2, <2>3 DEF RecordsInv
<1>5. ASSUME NEW c \in Client, ReceiveTcp(c)
      PROVE  RecordsInv'
  BY <1>5, ReceiveTcpDoes, Threads DEF RecordsInv, Elsewhere
<1>6. ASSUME NEW c \in Client, Remove(c)
      PROVE  RecordsInv'
  BY <1>6, RemoveDoes, Threads DEF RecordsInv, Elsewhere
<1>7. ASSUME NEW c \in Client, HubStep(c)
      PROVE  RecordsInv'
  BY <1>7, HubStepDoes, Threads DEF RecordsInv
<1> QED BY <1>1, <1>2, <1>3, <1>4, <1>5, <1>6, <1>7, Steps

------------------------------------------------------------------------------
(* Invitations.                                                            *)

\* A hub writes, and a worker forwards, an invitation that is one.
InvitedInv ==
  /\ \A c \in Client : \A i \in 1..Len(queue[c]) :
       queue[c][i].type = "REQ" => <<Owner(c), queue[c][i].to>> \in Invitations
  /\ \A c \in Client : pc[c] = "forward" => <<Owner(c), to[c]>> \in Invitations
  /\ InvitationReachesInvited

\* Only Forward delivers an invitation.
NothingInvited ==
  \A c \in Client : \A m \in inbox'[c] : m \in inbox[c] \/ m.type # "REQ"

LEMMA SendTCPInvites ==
  ASSUME TypeOK, NEW t \in Thread, NEW c \in Client \cup {None}, SendTCP(t, c)
  PROVE  /\ pc[t] # "forward" => NothingInvited
         /\ pc[t] = "forward" =>
              \A d \in Client : \A m \in inbox'[d] : m \in inbox[d] \/ (d = c /\ m.from = Subject(t))
<1>1. CASE ~(c # None /\ sock[c] = "open")
  BY <1>1 DEF SendTCP, streams, NothingInvited
<1>2. CASE c # None /\ sock[c] = "open"
  <2>1. Deliver(t, c) /\ inbox \in [Client -> SUBSET [type : {"BROADCAST", "REQ", "SHUTDOWN"},
                                                      from : Hub \cup {None}]]
    BY <1>2 DEF SendTCP, TypeOK
  <2>2. CASE pc[t] = "relay"
    <3>1. inbox' = [inbox EXCEPT ![c] = @ \cup {[type |-> "BROADCAST", from |-> Subject(t)]}]
      BY <2>1, <2>2 DEF Deliver
    <3>2. \A d \in Client : \A m \in inbox'[d] :
            m \in inbox[d] \/ m = [type |-> "BROADCAST", from |-> Subject(t)]
      BY <2>1, <3>1
    <3> QED BY <2>2, <3>2 DEF NothingInvited
  <2>3. CASE pc[t] = "forward"
    <3>1. inbox' = [inbox EXCEPT ![c] = @ \cup {[type |-> "REQ", from |-> Subject(t)]}]
      BY <2>1, <2>3 DEF Deliver
    <3>2. \A d \in Client : \A m \in inbox'[d] :
            m \in inbox[d] \/ (d = c /\ m = [type |-> "REQ", from |-> Subject(t)])
      BY <2>1, <3>1
    <3> QED BY <2>3, <3>2
  <2>4. CASE pc[t] = "stop"
    <3>1. inbox' = [inbox EXCEPT ![c] = @ \cup {[type |-> "SHUTDOWN", from |-> None]}]
      BY <2>1, <2>4 DEF Deliver
    <3>2. \A d \in Client : \A m \in inbox'[d] :
            m \in inbox[d] \/ m = [type |-> "SHUTDOWN", from |-> None]
      BY <2>1, <3>1
    <3> QED BY <2>4, <3>2 DEF NothingInvited
  <2>5. CASE pc[t] \notin {"relay", "forward", "stop"}
    <3>1. inbox' = inbox
      BY <2>1, <2>5 DEF Deliver, streams
    <3> QED BY <2>5, <3>1 DEF NothingInvited
  <2> QED BY <2>2, <2>3, <2>4, <2>5
<1> QED BY <1>1, <1>2

LEMMA SendNextInvites ==
  ASSUME TypeOK, NEW t \in Thread, SendNext(t), todo[t] # {}, pc[t] # "forward"
  PROVE  NothingInvited
BY SendNextGoes, SendTCPInvites, NextIsClient DEF streams, NothingInvited

LEMMA OnlyForwardInvites ==
  ASSUME TypeOK, [Next]_vars, \A c \in Client : ~Forward(c)
  PROVE  NothingInvited
<1>1. ASSUME inbox' = inbox
      PROVE  NothingInvited
  BY <1>1 DEF NothingInvited
<1>2. ASSUME NEW t \in Client \cup {UDP}, InfoHandler(t)
      PROVE  NothingInvited
  <2>1. CASE Inform(t)
    BY <2>1, Threads, SendNextInvites DEF Inform
  <2>2. CASE ~Inform(t)
    BY <1>1, <1>2, <2>2 DEF InfoHandler, Lookup, Add, SetFields, Copy, Greet, Introduce, SendFails,
      streams
  <2> QED BY <2>1, <2>2
<1>3. CASE UdpWorker
  BY <1>1, <1>2, <1>3 DEF UdpWorker, ReceiveUdp, streams
<1>4. ASSUME NEW c \in Client, TcpWorker(c)
      PROVE  NothingInvited
  <2>1. CASE RelayBroadcast(c)
    <3>1. CASE SendNext(c) /\ todo[c] # {}
      BY <2>1, <3>1, Threads, SendNextInvites DEF RelayBroadcast
    <3> QED BY <1>1, <2>1, <3>1 DEF RelayBroadcast, streams
  <2>2. CASE Notify(c)
    <3>1. CASE SendNext(c) /\ todo[c] # {}
      BY <2>2, <3>1, Threads, SendNextInvites DEF Notify
    <3> QED BY <1>1, <2>2, <3>1 DEF Notify, streams
  <2>3. CASE ReceiveTcp(c) \/ ReadFails(c) \/ DisconnectLookup(c) \/ Remove(c) \/ FinalDisconnect(c)
    BY <1>1, <2>3 DEF ReceiveTcp, ReadFails, DisconnectLookup, Remove, FinalDisconnect, streams
  <2> QED BY <1>2, <1>4, <2>1, <2>2, <2>3 DEF TcpWorker
<1>5. CASE StopAsync \/ Shutdown
  <2>1. CASE SendNext(MAIN) /\ Shutdown /\ todo[MAIN] # {}
    BY <2>1, Threads, SendNextInvites DEF Shutdown
  <2> QED BY <1>1, <1>5, <2>1 DEF StopAsync, Shutdown, streams
<1>6. ASSUME NEW c \in Client, HubStep(c)
      PROVE  NothingInvited
  BY <1>1, <1>6 DEF HubStep, Connect, HubSends, Leave, streams
<1>7. CASE UNCHANGED vars
  BY <1>1, <1>7 DEF vars
<1> QED BY <1>3, <1>4, <1>5, <1>6, <1>7 DEF Next

\* Forward delivers to a client of the hub the invitation names.
LEMMA ForwardInvites ==
  ASSUME TypeOK, RecordsInv, InvitedInv, NEW c \in Client, Forward(c)
  PROVE  InvitationReachesInvited'
<1> DEFINE r == Recipient(c)
           d == IF r = 0 THEN None ELSE recs[r].client
<1>0. InvitationReachesInvited
  BY DEF InvitedInv
<1>1. CASE inbox' = inbox
  BY <1>0, <1>1 DEF InvitationReachesInvited
<1>2. CASE SendTCP(c, d)
  <2>1. r # 0 => r \in DOMAIN recs /\ recs[r].id = to[c]
    BY FoundType DEF Recipient, ById
  <2>2. d \in Client \cup {None}
    BY <2>1, RecordAt
  <2>3. d # None => Owner(d) = to[c]
    BY <2>1 DEF RecordsInv
  <2>4. pc[c] = "forward" /\ Subject(c) = Owner(c) /\ <<Owner(c), to[c]>> \in Invitations
    BY Threads DEF Forward, InvitedInv, Subject
  <2>5. \A e \in Client : \A m \in inbox'[e] : m \in inbox[e] \/ (e = d /\ m.from = Subject(c))
    <3> HIDE DEF d
    <3> QED BY <1>2, <2>2, <2>4, Threads, SendTCPInvites
  <2>6. None \notin Client
    BY GatewayAssumption
  <2> QED BY <1>0, <2>3, <2>4, <2>5, <2>6 DEF InvitationReachesInvited
<1>3. SendTCP(c, d) \/ UNCHANGED streams
  BY DEF Forward, SendFails
<1> QED BY <1>1, <1>2, <1>3 DEF streams

\* A walking worker does not come to forward.
LEMMA WalkForwardsNot ==
  ASSUME NEW c \in Client, Path(c)
  PROVE  pc'[c] # "forward"
<1>1. Ends(c) \/ Throws(c) \/ Finds(c) => pc'[c] # "forward"
  BY DEF Ends, Throws, Finds
<1>2. Copies(c) \/ Informs(c) \/ Greets(c) \/ Works(c) => pc'[c] # "forward"
  BY DEF Copies, Informs, Greets, Works, Goes
<1>3. Chooses(c) \/ Notifies(c) \/ Notified(c) \/ Finishes(c) => pc'[c] # "forward"
  BY DEF Chooses, Notifies, Notified, Finishes, Goes
<1> QED BY <1>1, <1>2, <1>3 DEF Path

LEMMA InvitedStep ==
  ASSUME TypeOK, RegistryInv, RecordsInv, InvitedInv, [Next]_vars
  PROVE  InvitedInv'
<1> DEFINE Written ==
             \A c \in Client : \A i \in 1..Len(queue[c]) :
               queue[c][i].type = "REQ" => <<Owner(c), queue[c][i].to>> \in Invitations
           Forwarded == \A c \in Client : pc[c] = "forward" => <<Owner(c), to[c]>> \in Invitations
<1>0. Written /\ Forwarded /\ InvitationReachesInvited
  BY DEF InvitedInv
<1>a. \A c \in Client : queue[c] \in Seq(Message)
  BY DEF TypeOK
<1>1. InvitationReachesInvited'
  <2>1. CASE \E c \in Client : Forward(c)
    BY <2>1, ForwardInvites
  <2>2. CASE \A c \in Client : ~Forward(c)
    <3>1. NothingInvited
      BY <2>2, OnlyForwardInvites
    <3> QED BY <1>0, <3>1 DEF NothingInvited, InvitationReachesInvited
  <2> QED BY <2>1, <2>2
<1>2. SUFFICES Written' /\ Forwarded'
  BY <1>1 DEF InvitedInv
<1>3. CASE UNCHANGED vars
  BY <1>0, <1>3 DEF vars
<1>4. ASSUME NEW t \in Thread, Walk(t)
      PROVE  Written' /\ Forwarded'
  <2>1. Written'
    BY <1>0, <1>4 DEF Walk
  <2>2. Forwarded'
    BY <1>0, <1>4, WalkForwardsNot, Threads DEF Walk, Elsewhere
  <2> QED BY <2>1, <2>2
<1>5. ASSUME NEW t \in Client \cup {UDP}, Add(t)
      PROVE  Written' /\ Forwarded'
  BY <1>0, <1>5, AddDoes, Threads DEF Elsewhere
<1>6. ASSUME NEW c \in Client, SetFields(c)
      PROVE  Written' /\ Forwarded'
  BY <1>0, <1>6, SetFieldsDoes, Threads DEF Elsewhere
<1>7. ASSUME NEW c \in Client, ReceiveTcp(c)
      PROVE  Written' /\ Forwarded'
  <2>1. /\ queue[c] # << >> /\ queue'[c] = Tail(queue[c]) /\ Elsewhere(c)
        /\ \A d \in Client \ {c} : queue'[d] = queue[d]
        /\ pc'[c] = "forward" => queue[c][1].type = "REQ" /\ to'[c] = queue[c][1].to
    BY <1>7, ReceiveTcpDoes
  <2>2. \A i \in 1..Len(queue'[c]) : i + 1 \in 1..Len(queue[c]) /\ queue'[c][i] = queue[c][i + 1]
    BY <1>a, <2>1
  <2>3. Written'
    BY <1>0, <2>1, <2>2
  <2>4. 1 \in 1..Len(queue[c])
    BY <1>a, <2>1
  <2>5. Forwarded'
    BY <1>0, <2>1, <2>4, Threads DEF Elsewhere
  <2> QED BY <2>3, <2>5
<1>8. ASSUME NEW c \in Client, Remove(c)
      PROVE  Written' /\ Forwarded'
  BY <1>0, <1>8, RemoveDoes, Threads DEF Elsewhere
<1>9. ASSUME NEW c \in Client, HubStep(c)
      PROVE  Written' /\ Forwarded'
  <2>1. Forwarded'
    BY <1>0, <1>9, HubStepDoes, Threads
  <2>2. \/ queue' = queue \/ queue' = [queue EXCEPT ![c] = << >>]
        \/ \E m \in Message : /\ queue' = [queue EXCEPT ![c] = Append(@, m)]
                              /\ m.type = "REQ" => <<Owner(c), m.to>> \in Invitations
    BY <1>9, HubStepDoes
  <2>3. CASE queue' = queue
    BY <1>0, <2>1, <2>3
  <2>4. CASE queue' = [queue EXCEPT ![c] = << >>]
    <3>1. \A d \in Client : queue'[d] = queue[d] \/ 1..Len(queue'[d]) = {}
      BY <2>4 DEF TypeOK
    <3> QED BY <1>0, <2>1, <3>1
  <2>5. ASSUME NEW m \in Message, queue' = [queue EXCEPT ![c] = Append(@, m)],
               m.type = "REQ" => <<Owner(c), m.to>> \in Invitations
        PROVE  Written'
    <3>1. queue'[c] = Append(queue[c], m) /\ \A d \in Client \ {c} : queue'[d] = queue[d]
      BY <2>5 DEF TypeOK
    <3>2. \A i \in 1..Len(queue'[c]) :
            queue'[c][i] = m \/ (i \in 1..Len(queue[c]) /\ queue'[c][i] = queue[c][i])
      BY <1>a, <3>1
    <3> QED BY <1>0, <2>5, <3>1, <3>2
  <2> QED BY <2>1, <2>2, <2>3, <2>4, <2>5
<1> QED BY <1>3, <1>4, <1>5, <1>6, <1>7, <1>8, <1>9, Steps

\* The records are of their hubs, and the invitations of those that have them.
MessageInv == RecordsInv /\ InvitedInv

LEMMA MessageInit == Init => MessageInv
<1> SUFFICES ASSUME Init PROVE MessageInv
  OBVIOUS
<1>1. \A c \in Client : pc[c] = "off" /\ queue[c] = << >> /\ inbox[c] = {}
  BY Threads DEF Init
<1>2. DOMAIN recs = {}
  BY DEF Init
<1>3. RecordsInv
  BY <1>1, <1>2 DEF RecordsInv
<1>4. \A c \in Client : 1..Len(queue[c]) = {}
  BY <1>1
<1>5. InvitedInv
  BY <1>1, <1>4 DEF InvitedInv, InvitationReachesInvited
<1> QED BY <1>3, <1>5 DEF MessageInv

LEMMA MessageHolds == Spec => []MessageInv
<1>1. Inv /\ MessageInv /\ [Next]_vars => MessageInv'
  BY RecordsStep, InvitedStep DEF Inv, MessageInv
<1> QED BY <1>1, MessageInit, InvHolds, PTL DEF Spec

\* An invitation reaches no client of another hub than the one it names: the
\* record that Forward finds holds a client of its own hub, whoever connected
\* again or disconnected since the invitation was sent.
THEOREM InvitationsReach == Spec => []InvitationReachesInvited
<1>1. MessageInv => InvitationReachesInvited
  BY DEF MessageInv, InvitedInv
<1> QED BY <1>1, MessageHolds, PTL

------------------------------------------------------------------------------
(* While no hub connects twice.                                            *)

\* A worker past SetFields holds the record of its client; a record that left
\* the list did so by the worker of its client, whose socket is done with.
OwnRecordInv ==
  /\ \A c \in Client : pc[c] \in {"copy", "inform", "remove", "notify"} => recs[ref[c]].client = c
  /\ \A r \in DOMAIN recs \ listed : recs[r].client # None /\ pc[recs[r].client] \in Ending
  /\ \A c \in Client : sock[c] = "idle" => Info \notin sent[c]
  /\ \A c \in Client : pc[c] \in Ending => sock[c] \in {"closed", "broken"}

\* A hub has one client.
LEMMA OneClient ==
  ASSUME MaxConnects = 1
  PROVE  \A c, d \in Client : Owner(c) = Owner(d) => c = d
BY DEF Client, Owner

\* A worker that walks keeps to its record, and ends once it has begun to.
LEMMA PathKeepsRecord ==
  ASSUME TypeOK, RegistryInv, OwnRecordInv, NEW c \in Client, Path(c), SameRecords
  PROVE  /\ pc'[c] \in {"copy", "inform", "remove", "notify"} => recs'[ref'[c]].client = c
         /\ pc[c] \in Ending => pc'[c] \in Ending
         /\ pc'[c] \in Ending => pc[c] \in Ending \/ sock[c] = "broken"
<1>0. ref[c] # 0 => ref[c] \in DOMAIN recs
  BY Threads DEF TypeOK
<1>1. pc[c] \in {"copy", "inform", "remove", "notify"} => ref[c] \in DOMAIN recs /\ recs[ref[c]].client = c
  BY <1>0, Threads DEF OwnRecordInv, RegistryInv, HandlerHolds
<1>2. CASE Ends(c)
  BY <1>1, <1>2 DEF Ends, SameRecords
<1>3. CASE Throws(c)
  BY <1>3 DEF Throws, Leaving, Ending
<1>4. CASE Finds(c)
  BY <1>4 DEF Finds, Ending
<1>5. CASE Copies(c) \/ Informs(c)
  BY <1>1, <1>5 DEF Copies, Informs, Goes, SameRecords, Ending
<1>6. CASE Greets(c) \/ Works(c)
  BY <1>6 DEF Greets, Works, Ending
<1>7. CASE Chooses(c)
  <2>1. Victim(c) # 0 => Victim(c) \in DOMAIN recs /\ recs[Victim(c)].client = c
    BY FoundType DEF Victim, ByClient
  <2> QED BY <1>7, <2>1 DEF Chooses, SameRecords, Ending
<1>8. CASE Notifies(c)
  BY <1>1, <1>8 DEF Notifies, Goes, SameRecords, Ending
<1>9. CASE Notified(c) \/ Finishes(c)
  BY <1>9 DEF Notified, Finishes, Ending
<1> QED BY <1>2, <1>3, <1>4, <1>5, <1>6, <1>7, <1>8, <1>9 DEF Path

LEMMA OwnRecordStep ==
  ASSUME MaxConnects = 1, TypeOK, RegistryInv, RecordsInv, OwnRecordInv, [Next]_vars
  PROVE  OwnRecordInv'
<1> DEFINE Held == \A c \in Client :
             pc[c] \in {"copy", "inform", "remove", "notify"} => recs[ref[c]].client = c
           Left == \A r \in DOMAIN recs \ listed :
             recs[r].client # None /\ pc[recs[r].client] \in Ending
           Silent == \A c \in Client : sock[c] = "idle" => Info \notin sent[c]
           Over == \A c \in Client : pc[c] \in Ending => sock[c] \in {"closed", "broken"}
<1>0. Held /\ Left /\ Silent /\ Over
  BY DEF OwnRecordInv
<1>a. \A c \in Client : pc[c] \in {"set", "copy", "inform", "remove", "notify"} =>
        ref[c] \in DOMAIN recs
  BY Threads DEF RegistryInv, HandlerHolds, TypeOK
<1>b. \A r \in DOMAIN recs : recs[r].client # None => recs[r].client \in Client
  BY RecordAt
<1> SUFFICES Held' /\ Left' /\ Silent' /\ Over'
  BY DEF OwnRecordInv
<1>1. CASE UNCHANGED vars
  BY <1>0, <1>1 DEF vars
<1>2. ASSUME NEW t \in Thread, Walk(t)
      PROVE  Held' /\ Left' /\ Silent' /\ Over'
  <2>1. /\ UNCHANGED <<listed, sent>> /\ SameRecords /\ SocksHold /\ Elsewhere(t)
        /\ t \in Client => Path(t)
    BY <1>2 DEF Walk
  <2>2. t \in Client =>
          /\ pc'[t] \in {"copy", "inform", "remove", "notify"} => recs'[ref'[t]].client = t
          /\ pc[t] \in Ending => pc'[t] \in Ending
          /\ pc'[t] \in Ending => pc[t] \in Ending \/ sock[t] = "broken"
    BY <2>1, PathKeepsRecord
  <2>3. Held'
    <3> SUFFICES ASSUME NEW c \in Client, pc'[c] \in {"copy", "inform", "remove", "notify"}
                 PROVE  recs'[ref'[c]].client = c
      OBVIOUS
    <3>1. CASE c = t
      BY <2>2, <3>1
    <3>2. CASE c # t
      <4>1. pc'[c] = pc[c] /\ ref'[c] = ref[c]
        BY <2>1, <3>2, Threads DEF Elsewhere
      <4> QED BY <1>0, <1>a, <2>1, <4>1 DEF SameRecords
    <3> QED BY <3>1, <3>2
  <2>4. Left'
    <3> SUFFICES ASSUME NEW r \in DOMAIN recs' \ listed'
                 PROVE  recs'[r].client # None /\ pc'[recs'[r].client] \in Ending
      OBVIOUS
    <3>1. /\ r \in DOMAIN recs \ listed /\ recs'[r].client = recs[r].client
          /\ recs[r].client \in Client /\ pc[recs[r].client] \in Ending /\ recs[r].client # None
      BY <1>0, <1>b, <2>1 DEF SameRecords
    <3> QED BY <2>1, <2>2, <3>1, Threads DEF Elsewhere
  <2>5. Silent'
    BY <1>0, <2>1 DEF SocksHold
  <2>6. Over'
    <3> SUFFICES ASSUME NEW c \in Client, pc'[c] \in Ending
                 PROVE  sock'[c] \in {"closed", "broken"}
      OBVIOUS
    <3>1. pc[c] \in Ending \/ sock[c] = "broken"
      BY <2>1, <2>2, Threads DEF Elsewhere
    <3>2. sock[c] \in {"closed", "broken"}
      BY <1>0, <3>1
    <3> QED BY <2>1, <3>2 DEF SocksHold
  <2> QED BY <2>3, <2>4, <2>5, <2>6
<1>3. ASSUME NEW t \in Client \cup {UDP}, Add(t)
      PROVE  Held' /\ Left' /\ Silent' /\ Over'
  <2>1. /\ UNCHANGED <<sent, sock>> /\ Elsewhere(t)
        /\ pc[t] = "add" /\ pc'[t] = "set"
        /\ DOMAIN recs' = DOMAIN recs \cup {Len(recs) + 1}
        /\ \A r \in DOMAIN recs : recs'[r] = recs[r]
        /\ listed' = listed \cup {Len(recs) + 1}
    BY <1>3, AddDoes
  <2>2. \A c \in Client : c # t => pc'[c] = pc[c] /\ ref'[c] = ref[c]
    BY <2>1, Threads DEF Elsewhere
  <2>3. Held'
    BY <1>0, <1>a, <2>1, <2>2
  <2>4. Left'
    BY <1>0, <1>b, <2>1, <2>2 DEF Ending
  <2>5. Over'
    BY <1>0, <2>1, <2>2 DEF Ending
  <2> QED BY <1>0, <2>1, <2>3, <2>4, <2>5
<1>4. ASSUME NEW c \in Client, SetFields(c)
      PROVE  Held' /\ Left' /\ Silent' /\ Over'
  <2>1. /\ UNCHANGED <<listed, sent, sock>> /\ Elsewhere(c)
        /\ pc[c] = "set" /\ pc'[c] = "copy" /\ ref'[c] = ref[c] /\ ref[c] \in DOMAIN recs
        /\ DOMAIN recs' = DOMAIN recs
        /\ \A r \in DOMAIN recs : recs'[r].client = IF r = ref[c] THEN c ELSE recs[r].client
    BY <1>4, SetFieldsDoes
  <2>2. \A d \in Client : d # c => pc'[d] = pc[d] /\ ref'[d] = ref[d]
    BY <2>1, Threads DEF Elsewhere
  <2>3. recs[ref[c]].client = None
    <3> SUFFICES ASSUME recs[ref[c]].client # None PROVE FALSE
      OBVIOUS
    <3>1. recs[ref[c]].client \in Client /\ Owner(recs[ref[c]].client) = Owner(c)
      BY <1>b, <2>1 DEF RecordsInv
    <3>2. recs[ref[c]].client = c
      BY <3>1, OneClient
    <3>3. Unregistered(c)
      BY <2>1 DEF Unregistered
    <3> QED BY <2>1, <3>2, <3>3 DEF RegistryInv, ClientHeldOnce
  <2>4. Held'
    <3> SUFFICES ASSUME NEW d \in Client, pc'[d] \in {"copy", "inform", "remove", "notify"}
                 PROVE  recs'[ref'[d]].client = d
      OBVIOUS
    <3>1. CASE d = c
      BY <2>1, <3>1
    <3>2. CASE d # c
      <4>1. ref'[d] = ref[d] /\ ref[d] \in DOMAIN recs /\ recs[ref[d]].client = d
        BY <1>0, <1>a, <2>2, <3>2
      <4>2. ref[d] # ref[c]
        BY <2>3, <4>1, GatewayAssumption
      <4> QED BY <2>1, <4>1, <4>2
    <3> QED BY <3>1, <3>2
  <2>5. Left'
    BY <1>0, <2>1, <2>2, <2>3, <1>b DEF Ending
  <2>6. Over'
    BY <1>0, <2>1, <2>2 DEF Ending
  <2> QED BY <1>0, <2>1, <2>4, <2>5, <2>6
<1>5. ASSUME NEW c \in Client, ReceiveTcp(c)
      PROVE  Held' /\ Left' /\ Silent' /\ Over'
  <2>1. /\ UNCHANGED <<recs, listed, sent, sock>> /\ pc[c] = "recv"
        /\ pc'[c] \in {"lookup", "forward", "relay"}
        /\ \A d \in Client : d # c => pc'[d] = pc[d] /\ ref'[d] = ref[d]
    BY <1>5, ReceiveTcpDoes, Threads DEF Elsewhere
  <2> QED BY <1>0, <1>b, <2>1 DEF Ending
<1>6. ASSUME NEW c \in Client, Remove(c)
      PROVE  Held' /\ Left' /\ Silent' /\ Over'
  <2>1. /\ UNCHANGED <<recs, sent>> /\ pc[c] = "remove" /\ pc'[c] = "notify" /\ ref'[c] = ref[c]
        /\ listed' = listed \ {ref[c]} /\ sock'[c] = "closed"
        /\ \A d \in Client : d # c => pc'[d] = pc[d] /\ ref'[d] = ref[d] /\ sock'[d] = sock[d]
    BY <1>6, RemoveDoes, Threads DEF Elsewhere
  <2>2. recs[ref[c]].client = c
    BY <1>0, <2>1
  <2>3. Left'
    BY <1>0, <1>b, <2>1, <2>2, GatewayAssumption DEF Ending
  <2> QED BY <1>0, <2>1, <2>2, <2>3
<1>7. ASSUME NEW c \in Client, HubStep(c)
      PROVE  Held' /\ Left' /\ Silent' /\ Over'
  <2>1. /\ UNCHANGED <<recs, listed, ref>>
        /\ \A d \in Client : d # c => pc'[d] = pc[d] /\ sock'[d] = sock[d] /\ sent'[d] = sent[d]
        /\ \/ sock[c] = "idle" /\ sock'[c] = "open" /\ pc'[c] = "recv"
           \/ sock[c] = "open" /\ sock'[c] \in {"open", "gone"} /\ pc'[c] = pc[c]
    BY <1>7, HubStepDoes, Threads
  <2>2. pc[c] \notin Ending
    BY <1>0, <2>1
  <2>3. Left'
    BY <1>0, <1>b, <2>1, <2>2
  <2> QED BY <1>0, <2>1, <2>2, <2>3 DEF Ending
<1> QED BY <1>1, <1>2, <1>3, <1>4, <1>5, <1>6, <1>7, Steps

LEMMA OwnRecordInit == Init => OwnRecordInv
<1> SUFFICES ASSUME Init PROVE OwnRecordInv
  OBVIOUS
<1>1. \A c \in Client : pc[c] = "off" /\ sent[c] = {}
  BY Threads DEF Init
<1>2. DOMAIN recs = {}
  BY DEF Init
<1> QED BY <1>1, <1>2 DEF OwnRecordInv, Ending

OwnInv == Inv /\ MessageInv /\ OwnRecordInv

LEMMA OwnRecordHolds ==
  ASSUME MaxConnects = 1
  PROVE  Spec => []OwnInv
<1>1. OwnInv /\ [Next]_vars => OwnRecordInv'
  BY OwnRecordStep DEF OwnInv, Inv, MessageInv
<1>2. Inv /\ MessageInv /\ OwnRecordInv => OwnInv
  BY DEF OwnInv
<1> QED BY <1>1, <1>2, OwnRecordInit, InvHolds, MessageHolds, PTL DEF Spec, OwnInv

\* A record that is listed no longer was unlisted by the worker of its client.
LEMMA RegisteredIsListed ==
  ASSUME TypeOK, OwnRecordInv, NEW c \in Client, pc[c] \notin Ending,
         NEW r \in DOMAIN recs, recs[r].client = c
  PROVE  r \in listed
BY DEF OwnRecordInv

\* A hub whose info was handled and whose connection is sound stays in the list,
\* whatever lookups, updates and disconnects of others run beside it.
THEOREM ServedIsListed ==
  ASSUME MaxConnects = 1
  PROVE  Spec => []ServedHubIsListed
<1>1. OwnInv => ServedHubIsListed
  <2> SUFFICES ASSUME TypeOK, OwnRecordInv, NEW c \in Client, Serving(c)
               PROVE  ByClient(c) # {}
    BY DEF OwnInv, Inv, ServedHubIsListed
  <2>1. PICK r \in DOMAIN recs : recs[r].client = c
    BY DEF Serving
  <2>2. r \in ByClient(c)
    BY <2>1, RegisteredIsListed DEF Serving, Ending, ByClient
  <2> QED BY <2>2
<1> QED BY <1>1, OwnRecordHolds, PTL

\* No thread unlists the registration of another connection than its own.
THEOREM OwnWorkerUnlists ==
  ASSUME MaxConnects = 1
  PROVE  Spec => OnlyOwnWorkerUnlists
<1> DEFINE Own == \A r \in listed \ listed' :
                    \E c \in Client : pc[c] = "remove" /\ ref[c] = r /\ recs[r].client = c
<1>1. OwnInv /\ [Next]_vars => [Own]_vars
  <2> SUFFICES ASSUME TypeOK, RegistryInv, OwnRecordInv, [Next]_vars
               PROVE  Own
    BY DEF OwnInv, Inv
  <2>1. CASE UNCHANGED vars
    BY <2>1 DEF vars
  <2>2. CASE \E t \in Thread : Walk(t)
    BY <2>2 DEF Walk
  <2>3. CASE \E t \in Client \cup {UDP} : Add(t)
    BY <2>3, AddDoes
  <2>4. ASSUME NEW c \in Client, SetFields(c) \/ ReceiveTcp(c) \/ HubStep(c)
        PROVE  Own
    BY <2>4, SetFieldsDoes, ReceiveTcpDoes, HubStepDoes
  <2>5. ASSUME NEW c \in Client, Remove(c)
        PROVE  Own
    <3>1. pc[c] = "remove" /\ listed' = listed \ {ref[c]}
      BY <2>5, RemoveDoes
    <3> QED BY <3>1 DEF OwnRecordInv
  <2> QED BY <2>1, <2>2, <2>3, <2>4, <2>5, Steps
<1> QED BY <1>1, OwnRecordHolds, PTL DEF Spec, OnlyOwnWorkerUnlists

------------------------------------------------------------------------------
(* Two hubs that register at the same moment.                              *)

Registered(c) == \E r \in DOMAIN recs : recs[r].client = c

\* Worker c has copied the connections, or not yet stored its client, and its
\* hub is there.
Copied(c) == Registered(c) /\ sock[c] = "open" /\ pc[c] \notin {"copy"} \cup Leaving

\* Hub d knows of hub c, or c's worker has still to tell it.
Pending(c, d) == pc[c] = "inform" /\ \E r \in todo[c] : recs[r].client = d
Knows(d, c) == Owner(c) \in told[d] \/ Pending(c, d)

EachOtherInv ==
  \A c, d \in Client :
    Owner(c) # Owner(d) /\ Copied(c) /\ Copied(d) => Knows(d, c) \/ Knows(c, d)

\* A registered hub's worker finds its record, so that it does disconnect.
LEMMA RegisteredIsVictim ==
  ASSUME TypeOK, OwnRecordInv, NEW c \in Client, Registered(c), pc[c] \notin Ending
  PROVE  Victim(c) # 0
<1>1. PICK r \in DOMAIN recs : recs[r].client = c
  BY DEF Registered
<1>2. r \in ByClient(c) /\ ByClient(c) \in SUBSET listed
  BY <1>1, RegisteredIsListed DEF ByClient
<1> QED BY <1>2, FoundType DEF Victim

\* A walking worker c that is still to serve afterwards was so before, or has
\* just copied; and it does not forget whom it has to tell.
LEMMA PathKeepsCopied ==
  ASSUME TypeOK, RegistryInv, RecordsInv, OwnRecordInv, NEW c \in Client, Path(c),
         Registered(c), pc'[c] \notin {"copy"} \cup Leaving
  PROVE  \/ Copies(c)
         \/ /\ pc[c] \notin {"copy"} \cup Leaving
            /\ \A e \in Client : told[e] \subseteq told'[e]
            /\ \A d \in Client : Pending(c, d) /\ sock[d] = "open" =>
                 \/ Owner(c) \in told'[d]
                 \/ pc'[c] = "inform" /\ \E r \in todo'[c] : recs[r].client = d
<1>1. ~Ends(c) /\ ~Throws(c) /\ ~Notifies(c) /\ ~Notified(c) /\ ~Finishes(c)
  BY DEF Ends, Throws, Notifies, Notified, Finishes, Goes, Leaving
<1>2. ~Chooses(c)
  BY RegisteredIsVictim DEF Chooses, Leaving, Ending
<1>3. CASE Finds(c) \/ Works(c)
  BY <1>3 DEF Finds, Works, Leaving, Pending
<1>4. CASE Greets(c)
  BY <1>4 DEF Greets, Leaving, Pending
<1>5. CASE Informs(c)
  <2>1. /\ pc[c] = "inform" /\ pc'[c] = "inform" /\ todo[c] # {}
        /\ todo'[c] = todo[c] \ {Min(todo[c])} /\ recs[ref[c]].id = Owner(c)
        /\ told' = IF Next1(c) \in Client /\ sock[Next1(c)] = "open"
                     THEN [told EXCEPT ![Next1(c)] = @ \cup {Owner(c)}] ELSE told
    BY <1>5 DEF Informs, Goes, Turn, RecordsInv
  <2>2. \A e \in Client : told[e] \subseteq told'[e]
    BY <2>1 DEF TypeOK
  <2>3. ASSUME NEW d \in Client, sock[d] = "open", NEW r \in todo[c], recs[r].client = d
        PROVE  Owner(c) \in told'[d] \/ \E s \in todo'[c] : recs[s].client = d
    <3>1. CASE r = Min(todo[c])
      <4>1. Next1(c) = d
        BY <2>3, <3>1 DEF Next1
      <4> QED BY <2>1, <2>3, <4>1 DEF TypeOK
    <3>2. CASE r # Min(todo[c])
      BY <2>1, <2>3, <3>2
    <3> QED BY <3>1, <3>2
  <2> QED BY <2>1, <2>2, <2>3 DEF Leaving, Pending
<1>6. CASE Copies(c)
  BY <1>6
<1> QED BY <1>1, <1>2, <1>3, <1>4, <1>5, <1>6 DEF Path

\* Nothing is taken back from a hub about another that is registered and there.
LEMMA PathKeepsTold ==
  ASSUME MaxConnects = 1, TypeOK, RegistryInv, RecordsInv, OwnRecordInv,
         NEW t \in Client, Path(t), NEW c \in Client, NEW d \in Client, c # t,
         Owner(c) \in told[d]
  PROVE  Owner(c) \in told'[d]
<1>0. told \in [Client -> SUBSET Hub]
  BY DEF TypeOK
<1>1. CASE Notifies(t)
  <2>1. ref[t] \in DOMAIN recs /\ recs[ref[t]].client = t
    BY <1>1, Threads DEF Notifies, Goes, OwnRecordInv, RegistryInv, HandlerHolds, TypeOK
  <2>2. recs[ref[t]].id = Owner(t)
    BY <2>1, GatewayAssumption DEF RecordsInv
  <2>3. Owner(c) # Owner(t)
    BY OneClient
  <2> QED BY <1>0, <1>1, <2>2, <2>3 DEF Notifies
<1>2. CASE Informs(t)
  BY <1>0, <1>2 DEF Informs
<1>3. CASE ~Notifies(t) /\ ~Informs(t)
  BY <1>3 DEF Path, Ends, Throws, Finds, Copies, Greets, Works, Chooses, Notified, Finishes
<1> QED BY <1>1, <1>2, <1>3

LEMMA WalkKeepsEachOther ==
  ASSUME MaxConnects = 1, TypeOK, RegistryInv, RecordsInv, OwnRecordInv, EachOtherInv,
         NEW t \in Thread, Walk(t)
  PROVE  EachOtherInv'
<1>1. /\ SameRecords /\ SocksHold /\ Elsewhere(t) /\ listed' = listed
      /\ t \in Client => Path(t)
      /\ t \notin Client => \A c \in Client : told[c] \subseteq told'[c]
  BY DEF Walk
<1>2. \A c \in Client : /\ Registered(c)' => Registered(c)
                        /\ sock'[c] = "open" => sock[c] = "open"
  BY <1>1 DEF Registered, SameRecords, SocksHold
<1>3. \A c \in Client \ {t} : /\ Copied(c)' => Copied(c)
                              /\ \A d \in Client : Pending(c, d) => Pending(c, d)'
  <2>1. \A c \in Client : todo[c] \subseteq DOMAIN recs
    BY Threads DEF TypeOK
  <2> QED BY <1>1, <1>2, <2>1, Threads DEF Copied, Pending, Elsewhere, SameRecords
<1>4. \A c \in Client \ {t}, d \in Client : Knows(d, c) => Knows(d, c)'
  <2>1. \A c \in Client \ {t}, d \in Client : Owner(c) \in told[d] => Owner(c) \in told'[d]
    BY <1>1, PathKeepsTold
  <2> QED BY <1>3, <2>1 DEF Knows
<1>5. ASSUME t \in Client, Copied(t)', NEW d \in Client, d # t, Copied(d)'
      PROVE  (Copied(t) /\ (Knows(d, t) => Knows(d, t)')) \/ Knows(d, t)'
  <2>1. Registered(t) /\ pc'[t] \notin {"copy"} \cup Leaving /\ sock[d] = "open" /\ sock[t] = "open"
    BY <1>2, <1>5 DEF Copied
  <2>2. CASE Copies(t)
    <3>1. PICK r \in DOMAIN recs : recs[r].client = d
      BY <1>2, <1>5 DEF Copied, Registered
    <3>2. pc[d] \notin Ending
      BY <1>3, <1>5 DEF Copied, Leaving, Ending
    <3>3. r \in listed /\ recs[r].client # None
      BY <3>1, <3>2, RegisteredIsListed, GatewayAssumption
    <3>4. r \in todo'[t] /\ pc'[t] = "inform" /\ recs'[r].client = d
      BY <1>1, <2>2, <3>1, <3>3 DEF Copies, Goes, WithClient, SameRecords
    <3> QED BY <3>4 DEF Knows, Pending
  <2>3. CASE ~Copies(t)
    <3>1. /\ pc[t] \notin {"copy"} \cup Leaving
          /\ \A e \in Client : told[e] \subseteq told'[e]
          /\ Pending(t, d) => \/ Owner(t) \in told'[d]
                              \/ pc'[t] = "inform" /\ \E r \in todo'[t] : recs[r].client = d
      BY <1>1, <1>5, <2>1, <2>3, PathKeepsCopied
    <3>2. todo'[t] \subseteq todo[t] \/ pc'[t] # "inform"
      <4>1. ~Copies(t) /\ pc'[t] = "inform" => Informs(t) \/ Ends(t)
        BY <1>1, <1>5 DEF Path, Throws, Finds, Greets, Works, Chooses, Notifies, Notified, Finishes, Goes
      <4> QED BY <2>3, <4>1 DEF Informs, Turn, Ends
    <3>3. todo[t] \subseteq DOMAIN recs
      BY Threads DEF TypeOK
    <3>4. Pending(t, d) => Owner(t) \in told'[d] \/ Pending(t, d)'
      BY <1>1, <3>1, <3>2, <3>3 DEF Pending, SameRecords
    <3> QED BY <2>1, <3>1, <3>4, <1>5 DEF Knows, Copied
  <2> QED BY <2>2, <2>3
<1> SUFFICES ASSUME NEW c \in Client, NEW d \in Client, Owner(c) # Owner(d), Copied(c)', Copied(d)'
             PROVE  Knows(d, c)' \/ Knows(c, d)'
  BY DEF EachOtherInv
<1>6. c # d
  OBVIOUS
<1>7. CASE c # t /\ d # t
  BY <1>3, <1>4, <1>7 DEF EachOtherInv
<1>8. CASE c = t
  BY <1>3, <1>4, <1>5, <1>6, <1>8 DEF EachOtherInv
<1>9. CASE d = t
  BY <1>3, <1>4, <1>5, <1>6, <1>9 DEF EachOtherInv
<1> QED BY <1>7, <1>8, <1>9

LEMMA EachOtherStep ==
  ASSUME MaxConnects = 1, TypeOK, RegistryInv, RecordsInv, OwnRecordInv, EachOtherInv, [Next]_vars
  PROVE  EachOtherInv'
<1>0. \A c \in Client : todo[c] \subseteq DOMAIN recs
  BY Threads DEF TypeOK
\* A step that tells nobody, moves the worker t only, and lets no other client
\* be registered or come back.
<1>1. ASSUME NEW t, told' = told, Elsewhere(t),
             \A c \in Client : Copied(c)' => Registered(c) /\ sock[c] = "open" /\ c # t,
             \A r \in DOMAIN recs, c \in Client : recs[r].client = c => recs'[r].client = c
      PROVE  EachOtherInv'
  <2>1. \A c \in Client : Copied(c)' => Copied(c)
    BY <1>1, Threads DEF Copied, Elsewhere
  <2>2. \A c \in Client \ {t}, d \in Client : Knows(d, c) => Knows(d, c)'
    BY <1>0, <1>1, Threads DEF Knows, Pending, Elsewhere
  <2> QED BY <1>1, <2>1, <2>2 DEF EachOtherInv
\* One that moves a worker which has nobody to tell before or after.
<1>2. ASSUME NEW t, told' = told, Elsewhere(t), t \in Client => pc[t] \notin {"inform", "copy"} \cup Leaving,
             UNCHANGED sock,
             \A c \in Client : Registered(c)' => Registered(c),
             \A r \in DOMAIN recs, c \in Client : recs[r].client = c => recs'[r].client = c
      PROVE  EachOtherInv'
  <2>1. \A c \in Client : Copied(c)' => Copied(c)
    BY <1>2, Threads DEF Copied, Elsewhere
  <2>2. \A c, d \in Client : Knows(d, c) => Knows(d, c)'
    BY <1>0, <1>2, Threads DEF Knows, Pending, Elsewhere
  <2> QED BY <2>1, <2>2 DEF EachOtherInv
<1>3. CASE UNCHANGED vars
  BY <1>3 DEF vars, EachOtherInv, Copied, Registered, Knows, Pending
<1>4. CASE \E t \in Thread : Walk(t)
  BY <1>4, WalkKeepsEachOther
<1>5. ASSUME NEW t \in Client \cup {UDP}, Add(t)
      PROVE  EachOtherInv'
  <2>1. /\ told' = told /\ sock' = sock /\ Elsewhere(t) /\ pc[t] = "add"
        /\ DOMAIN recs' = DOMAIN recs \cup {Len(recs) + 1}
        /\ \A r \in DOMAIN recs : recs'[r] = recs[r]
        /\ recs'[Len(recs) + 1].client = None
    BY <1>5, AddDoes
  <2>2. \A c \in Client : Registered(c)' => Registered(c)
    BY <2>1, GatewayAssumption DEF Registered
  <2> QED BY <1>2, <2>1, <2>2 DEF Leaving
<1>6. ASSUME NEW c \in Client, SetFields(c)
      PROVE  EachOtherInv'
  <2>1. /\ told' = told /\ sock' = sock /\ Elsewhere(c) /\ pc[c] = "set" /\ pc'[c] = "copy"
        /\ ref[c] \in DOMAIN recs /\ DOMAIN recs' = DOMAIN recs
        /\ \A r \in DOMAIN recs : recs'[r].client = IF r = ref[c] THEN c ELSE recs[r].client
    BY <1>6, SetFieldsDoes
  <2>2. recs[ref[c]].client \in {None, c}
    <3> SUFFICES ASSUME recs[ref[c]].client # None PROVE recs[ref[c]].client = c
      OBVIOUS
    <3>1. recs[ref[c]].client \in Client /\ Owner(recs[ref[c]].client) = Owner(c)
      BY <2>1, RecordAt DEF RecordsInv
    <3> QED BY <3>1, OneClient
  <2>3. \A r \in DOMAIN recs, d \in Client : recs[r].client = d => recs'[r].client = d
    BY <2>1, <2>2, GatewayAssumption
  <2>4. \A d \in Client : Copied(d)' => Registered(d) /\ sock[d] = "open" /\ d # c
    BY <2>1 DEF Copied, Registered
  <2> QED BY <1>1, <2>1, <2>3, <2>4
<1>7. ASSUME NEW c \in Client, ReceiveTcp(c)
      PROVE  EachOtherInv'
  <2>1. told' = told /\ sock' = sock /\ recs' = recs /\ Elsewhere(c) /\ pc[c] = "recv"
    BY <1>7, ReceiveTcpDoes
  <2> QED BY <1>2, <2>1 DEF Leaving, Registered
<1>8. ASSUME NEW c \in Client, Remove(c)
      PROVE  EachOtherInv'
  <2>1. /\ told' = told /\ recs' = recs /\ Elsewhere(c) /\ pc'[c] = "notify"
        /\ \A d \in Client \ {c} : sock'[d] = sock[d]
    BY <1>8, RemoveDoes
  <2>2. \A d \in Client : Copied(d)' => Registered(d) /\ sock[d] = "open" /\ d # c
    BY <2>1 DEF Copied, Registered, Leaving
  <2> QED BY <1>1, <2>1, <2>2
<1>9. ASSUME NEW c \in Client, HubStep(c)
      PROVE  EachOtherInv'
  <2>1. /\ told' = told /\ recs' = recs /\ todo' = todo
        /\ \A u \in Thread \ {c} : pc'[u] = pc[u]
        /\ \A d \in Client \ {c} : sock'[d] = sock[d]
        /\ \/ sock[c] = "idle"
           \/ sock[c] = "open" /\ pc' = pc /\ sock'[c] \in {"open", "gone"}
    BY <1>9, HubStepDoes
  <2>2. CASE sock[c] = "idle"
    <3>1. ~Registered(c)
      BY <2>2 DEF OwnRecordInv, RegistryInv, ClientHeldOnce, Unregistered, Registered
    <3>2. \A d \in Client : Copied(d)' => Copied(d) /\ d # c
      BY <2>1, <3>1, Threads DEF Copied, Registered
    <3>3. \A d \in Client \ {c}, e \in Client : Knows(e, d) => Knows(e, d)'
      BY <2>1, Threads DEF Knows, Pending
    <3> QED BY <3>2, <3>3 DEF EachOtherInv
  <2>3. CASE sock[c] = "open" /\ pc' = pc
    <3>1. \A d \in Client : Copied(d)' => Copied(d)
      BY <2>1, <2>3 DEF Copied, Registered
    <3>2. \A d, e \in Client : Knows(e, d) => Knows(e, d)'
      BY <2>1, <2>3 DEF Knows, Pending
    <3> QED BY <3>1, <3>2 DEF EachOtherInv
  <2> QED BY <2>1, <2>2, <2>3
<1> QED BY <1>3, <1>4, <1>5, <1>6, <1>7, <1>8, <1>9, Steps

\* Two hubs that register at the same moment, in whatever order their workers
\* run: at least one of the two is told of the other.
THEOREM OneOfTwo ==
  ASSUME MaxConnects = 1
  PROVE  Spec => []OneOfTwoIsTold
<1>1. Init => EachOtherInv
  <2> SUFFICES ASSUME Init PROVE EachOtherInv
    OBVIOUS
  <2>1. DOMAIN recs = {}
    BY DEF Init
  <2> QED BY <2>1 DEF EachOtherInv, Copied, Registered
<1>2. OwnInv /\ EachOtherInv /\ [Next]_vars => EachOtherInv'
  BY EachOtherStep DEF OwnInv, Inv, MessageInv
<1>3. EachOtherInv => OneOfTwoIsTold
  <2> SUFFICES ASSUME EachOtherInv, NEW c \in Client, NEW d \in Client, Serving(c), Serving(d),
                      Owner(c) # Owner(d)
               PROVE  Owner(c) \in told[d] \/ Owner(d) \in told[c]
    BY DEF OneOfTwoIsTold
  <2>1. Copied(c) /\ Copied(d)
    BY DEF Serving, Copied, Registered, Leaving
  <2>2. ~Pending(c, d) /\ ~Pending(d, c)
    BY DEF Serving, Pending
  <2> QED BY <2>1, <2>2 DEF EachOtherInv, Knows
<1> QED BY <1>1, <1>2, <1>3, OwnRecordHolds, PTL DEF Spec

------------------------------------------------------------------------------
(* What a hub is told of others that left, while no UDP info arrives: the  *)
(* info of a hub can be handled after it disconnected only by UDP.         *)

NoDatagram == datagrams = {} /\ pc[UDP] = "recv"

LEMMA NoDatagramStep ==
  ASSUME Reachable = {}, TypeOK, RegistryInv, NoDatagram, [Next]_vars
  PROVE  NoDatagram'
<1>1. CASE UNCHANGED vars
  BY <1>1 DEF vars, NoDatagram
<1>2. ~UdpWorker
  BY DEF NoDatagram, UdpWorker, ReceiveUdp, InfoHandler, Lookup, Add, SetFields, Copy, Inform,
     Greet, Introduce
<1>3. ASSUME NEW c \in Client, TcpWorker(c)
      PROVE  datagrams' = datagrams
  BY <1>3 DEF TcpWorker, ReceiveTcp, ReadFails, InfoHandler, Lookup, Add, SetFields, Copy, Inform,
     Greet, Introduce, Forward, RelayBroadcast, DisconnectLookup, Remove, Notify, FinalDisconnect,
     hubside
<1>4. ASSUME NEW c \in Client, TcpWorker(c)
      PROVE  pc'[UDP] = pc[UDP]
  <2>1. Walk(c) \/ Add(c) \/ SetFields(c) \/ ReceiveTcp(c) \/ Remove(c)
    BY <1>4, LookupWalks, CopyWalks, InformWalks, GreetWalks, IntroduceWalks, ReadFailsWalks,
       ForwardWalks, RelayWalks, DisconnectLookupWalks, NotifyWalks, FinalDisconnectWalks
    DEF TcpWorker, InfoHandler
  <2>2. Elsewhere(c)
    BY <2>1, AddDoes, SetFieldsDoes, ReceiveTcpDoes, RemoveDoes DEF Walk
  <2> QED BY <2>2, Threads DEF Elsewhere
<1>5. CASE StopAsync \/ Shutdown
  <2>1. Elsewhere(MAIN) /\ datagrams' = datagrams
    BY <1>5, MainWalks DEF Walk, StopAsync, Shutdown, hubside
  <2> QED BY <2>1, Threads DEF Elsewhere, NoDatagram
<1>6. ASSUME NEW c \in Client, HubStep(c)
      PROVE  NoDatagram'
  <2>1. pc'[UDP] = pc[UDP]
    BY <1>6, HubStepDoes, Threads
  <2>2. datagrams' = datagrams
    BY <1>6 DEF HubStep, Connect, HubSends, Leave, hubside
  <2> QED BY <2>1, <2>2 DEF NoDatagram
<1> QED BY <1>1, <1>2, <1>3, <1>4, <1>5, <1>6 DEF Next, NoDatagram

\* Without a datagram only the workers' steps matter: the host tells nothing.
LEMMA QuietSteps ==
  ASSUME TypeOK, RegistryInv, NoDatagram, [Next]_vars
  PROVE  \/ UNCHANGED vars
         \/ \E t \in Client : Walk(t) \/ Add(t)
         \/ Walk(MAIN) /\ told' = told
         \/ \E c \in Client : SetFields(c) \/ ReceiveTcp(c) \/ Remove(c) \/ HubStep(c)
<1>1. ~UdpWorker
  BY DEF NoDatagram, UdpWorker, ReceiveUdp, InfoHandler, Lookup, Add, SetFields, Copy, Inform,
     Greet, Introduce
<1>2. ASSUME NEW c \in Client, TcpWorker(c)
      PROVE  Walk(c) \/ Add(c) \/ SetFields(c) \/ ReceiveTcp(c) \/ Remove(c)
  BY <1>2, LookupWalks, CopyWalks, InformWalks, GreetWalks, IntroduceWalks, ReadFailsWalks,
     ForwardWalks, RelayWalks, DisconnectLookupWalks, NotifyWalks, FinalDisconnectWalks
  DEF TcpWorker, InfoHandler
<1>3. StopAsync => told' = told
  BY DEF StopAsync, streams
<1>4. ASSUME Shutdown
      PROVE  told' = told
  <2>1. CASE todo[MAIN] # {} /\ SendNext(MAIN)
    <3>1. UNCHANGED streams \/ SendTCP(MAIN, Next1(MAIN))
      BY <2>1, Threads, SendNextGoes
    <3>2. pc[MAIN] = "stop"
      BY <1>4 DEF Shutdown
    <3> QED BY <2>1, <3>1, <3>2, Threads, SendTCPTells, NextIsClient DEF streams
  <2>2. CASE ~(todo[MAIN] # {} /\ SendNext(MAIN))
    BY <1>4, <2>2 DEF Shutdown, streams
  <2> QED BY <2>1, <2>2
<1> QED BY <1>1, <1>2, <1>3, <1>4, MainWalks DEF Next

\* Hub e, of which hub c was told, is registered and will take back what it told
\* when it disconnects.
WillTell(e, c) ==
  /\ Registered(e)
  /\ pc[e] \notin {"final", "done"}
  /\ pc[e] = "notify" => \E r \in todo[e] : recs[r].client = c

ToldInv ==
  \A c \in Client :
    /\ told[c] # {} => Registered(c)
    /\ sock[c] = "open" => \A e \in Client : Owner(e) \in told[c] => WillTell(e, c)

\* A walking worker e that told c goes on to tell it again.
LEMMA PathWillTell ==
  ASSUME TypeOK, RegistryInv, RecordsInv, OwnRecordInv,
         NEW e \in Client, Path(e), SameRecords,
         NEW c \in Client, sock[c] = "open", WillTell(e, c), Owner(e) \in told'[c]
  PROVE  WillTell(e, c)'
<1>0. told \in [Client -> SUBSET Hub] /\ todo[e] \subseteq DOMAIN recs
  BY Threads DEF TypeOK
<1>1. Registered(e)'
  BY DEF WillTell, Registered, SameRecords
<1>2. ~Notified(e) /\ ~Finishes(e)
  BY DEF WillTell, Notified, Finishes
<1>3. CASE Chooses(e)
  <2>1. Victim(e) # 0
    BY <1>3, RegisteredIsVictim DEF WillTell, Chooses, Ending
  <2> QED BY <1>1, <1>3, <2>1 DEF Chooses, WillTell
<1>4. CASE Notifies(e)
  <2>1. ref[e] \in DOMAIN recs /\ recs[ref[e]].client = e
    BY <1>4, Threads DEF Notifies, Goes, OwnRecordInv, RegistryInv, HandlerHolds, TypeOK
  <2>2. recs[ref[e]].id = Owner(e)
    BY <2>1, GatewayAssumption DEF RecordsInv
  <2>3. Next1(e) # c
    BY <1>0, <1>4, <2>2 DEF Notifies
  <2>4. PICK r \in todo[e] : recs[r].client = c
    BY <1>4 DEF Notifies, Goes, WillTell
  <2>5. r # Min(todo[e])
    BY <2>3, <2>4 DEF Next1
  <2>6. r \in todo'[e] /\ recs'[r].client = c
    BY <1>0, <1>4, <2>4, <2>5 DEF Notifies, Turn, SameRecords
  <2> QED BY <1>1, <1>4, <2>6 DEF Notifies, Goes, WillTell
<1>5. CASE Ends(e)
  <2>1. pc[e] = "notify" => \E r \in todo[e] : recs'[r].client = c
    BY <1>0 DEF WillTell, SameRecords
  <2> QED BY <1>1, <1>5, <2>1 DEF Ends, WillTell
<1>6. CASE Throws(e) \/ Finds(e) \/ Copies(e) \/ Informs(e) \/ Greets(e) \/ Works(e)
  BY <1>1, <1>6 DEF Throws, Finds, Copies, Informs, Greets, Works, Goes, WillTell
<1> QED BY <1>2, <1>3, <1>4, <1>5, <1>6 DEF Path

\* What a walking worker tells, it tells of its own hub, to a registered one.
LEMMA PathTells ==
  ASSUME TypeOK, RegistryInv, RecordsInv, OwnRecordInv, NEW t \in Client, Path(t), NEW c \in Client
  PROVE  \/ told'[c] \subseteq told[c]
         \/ /\ told'[c] = told[c] \cup {Owner(t)}
            /\ Registered(c) /\ Registered(t) /\ pc'[t] = "inform"
<1>0. told \in [Client -> SUBSET Hub]
  BY DEF TypeOK
<1>1. CASE Informs(t)
  <2>1. recs[ref[t]].id = Owner(t) /\ ref[t] \in DOMAIN recs /\ recs[ref[t]].client = t
    BY <1>1, Threads DEF Informs, Goes, RecordsInv, OwnRecordInv, RegistryInv, HandlerHolds, TypeOK
  <2>2. Min(todo[t]) \in DOMAIN recs
    BY <1>1, Threads, NextIsClient DEF Informs, Turn
  <2>3. CASE Next1(t) = c
    <3>1. Registered(c)
      BY <2>2, <2>3 DEF Registered, Next1
    <3> QED BY <1>0, <1>1, <2>1, <2>3, <3>1 DEF Informs, Goes, Registered
  <2>4. CASE Next1(t) # c
    BY <1>0, <1>1, <2>4 DEF Informs
  <2> QED BY <2>3, <2>4
<1>2. CASE Notifies(t)
  BY <1>0, <1>2 DEF Notifies
<1>3. CASE ~Notifies(t) /\ ~Informs(t)
  BY <1>3 DEF Path, Ends, Throws, Finds, Copies, Greets, Works, Chooses, Notified, Finishes
<1> QED BY <1>1, <1>2, <1>3

LEMMA WalkKeepsTold ==
  ASSUME MaxConnects = 1, TypeOK, RegistryInv, RecordsInv, OwnRecordInv, ToldInv,
         NEW t \in Thread, Walk(t), t \notin Client => told' = told
  PROVE  ToldInv'
<1>1. SameRecords /\ SocksHold /\ Elsewhere(t) /\ (t \in Client => Path(t))
  BY DEF Walk
<1>2. \A c \in Client : /\ Registered(c) => Registered(c)'
                        /\ sock'[c] = "open" => sock[c] = "open"
  BY <1>1 DEF Registered, SameRecords, SocksHold
<1>3. \A c \in Client : told'[c] # {} => Registered(c)'
  <2>1. \A c \in Client : told'[c] # {} => Registered(c)
    BY <1>1, PathTells DEF ToldInv
  <2> QED BY <1>2, <2>1
<1>4. ASSUME NEW c \in Client, sock'[c] = "open", NEW e \in Client, Owner(e) \in told'[c]
      PROVE  WillTell(e, c)'
  <2>1. CASE Owner(e) \notin told[c]
    <3>1. t \in Client /\ Owner(e) = Owner(t) /\ Registered(t) /\ pc'[t] = "inform"
      BY <1>1, <1>4, <2>1, PathTells
    <3>2. e = t
      BY <3>1, OneClient
    <3> QED BY <1>2, <3>1, <3>2 DEF WillTell
  <2>2. CASE Owner(e) \in told[c]
    <3>1. WillTell(e, c) /\ sock[c] = "open"
      BY <1>2, <1>4, <2>2 DEF ToldInv
    <3>2. CASE e = t
      BY <1>1, <1>4, <3>1, <3>2, PathWillTell
    <3>3. CASE e # t
      <4>1. pc'[e] = pc[e] /\ todo'[e] = todo[e] /\ todo[e] \subseteq DOMAIN recs
        BY <1>1, <3>3, Threads DEF Elsewhere, TypeOK
      <4> QED BY <1>1, <1>2, <3>1, <4>1 DEF WillTell, SameRecords
    <3> QED BY <3>2, <3>3
  <2> QED BY <2>1, <2>2
<1> QED BY <1>3, <1>4 DEF ToldInv

LEMMA ToldStep ==
  ASSUME MaxConnects = 1, TypeOK, RegistryInv, RecordsInv, OwnRecordInv, NoDatagram, ToldInv,
         [Next]_vars
  PROVE  ToldInv'
<1>0. \A c \in Client : todo[c] \subseteq DOMAIN recs
  BY Threads DEF TypeOK
\* A step of t that tells nothing, and does not leave t's hub untold.
<1>1. ASSUME NEW t, told' = told, Elsewhere(t),
             \A c \in Client : told[c] # {} /\ sock'[c] = "open" => sock[c] = "open",
             \A r \in DOMAIN recs, c \in Client :
               recs[r].client = c => r \in DOMAIN recs' /\ recs'[r].client = c,
             t \in Client => pc'[t] \notin {"notify", "final", "done"}
      PROVE  ToldInv'
  <2>1. \A c \in Client : Registered(c) => Registered(c)'
    BY <1>1 DEF Registered
  <2>2. ASSUME NEW c \in Client, NEW e \in Client, WillTell(e, c)
        PROVE  WillTell(e, c)'
    <3>1. CASE e = t
      BY <1>1, <2>1, <2>2, <3>1 DEF WillTell
    <3>2. CASE e # t
      <4>1. pc'[e] = pc[e] /\ todo'[e] = todo[e]
        BY <1>1, <3>2, Threads DEF Elsewhere
      <4> QED BY <1>0, <1>1, <2>1, <2>2, <4>1 DEF WillTell
    <3> QED BY <3>1, <3>2
  <2> QED BY <1>1, <2>1, <2>2 DEF ToldInv
<1>2. CASE UNCHANGED vars
  BY <1>2 DEF vars, ToldInv, WillTell, Registered
<1>3. CASE (\E t \in Client : Walk(t)) \/ (Walk(MAIN) /\ told' = told)
  BY <1>3, WalkKeepsTold, Threads
<1>4. ASSUME NEW t \in Client, Add(t)
      PROVE  ToldInv'
  <2>1. /\ told' = told /\ sock' = sock /\ Elsewhere(t) /\ pc'[t] = "set"
        /\ \A r \in DOMAIN recs : r \in DOMAIN recs' /\ recs'[r] = recs[r]
    BY <1>4, AddDoes
  <2> QED BY <1>1, <2>1
<1>5. ASSUME NEW c \in Client, SetFields(c)
      PROVE  ToldInv'
  <2>1. /\ told' = told /\ sock' = sock /\ Elsewhere(c) /\ pc'[c] = "copy"
        /\ ref[c] \in DOMAIN recs /\ DOMAIN recs' = DOMAIN recs
        /\ \A r \in DOMAIN recs : recs'[r].client = IF r = ref[c] THEN c ELSE recs[r].client
        /\ recs[ref[c]].id = Owner(c)
    BY <1>5, SetFieldsDoes DEF RecordsInv
  <2>2. recs[ref[c]].client \in {None, c}
    <3> SUFFICES ASSUME recs[ref[c]].client # None PROVE recs[ref[c]].client = c
      OBVIOUS
    <3>1. recs[ref[c]].client \in Client /\ Owner(recs[ref[c]].client) = Owner(c)
      BY <2>1, RecordAt DEF RecordsInv
    <3> QED BY <3>1, OneClient
  <2>3. \A r \in DOMAIN recs, d \in Client : recs[r].client = d => r \in DOMAIN recs' /\ recs'[r].client = d
    BY <2>1, <2>2, GatewayAssumption
  <2> QED BY <1>1, <2>1, <2>3
<1>6. ASSUME NEW c \in Client, ReceiveTcp(c)
      PROVE  ToldInv'
  <2>1. /\ told' = told /\ sock' = sock /\ recs' = recs /\ Elsewhere(c)
        /\ pc'[c] \in {"lookup", "forward", "relay"}
    BY <1>6, ReceiveTcpDoes
  <2> QED BY <1>1, <2>1
<1>7. ASSUME NEW c \in Client, Remove(c)
      PROVE  ToldInv'
  <2>1. /\ told' = told /\ recs' = recs /\ Elsewhere(c) /\ pc[c] = "remove" /\ pc'[c] = "notify"
        /\ todo'[c] = WithClient(listed') /\ listed' = listed \ {ref[c]}
        /\ sock'[c] = "closed" /\ \A d \in Client \ {c} : sock'[d] = sock[d]
    BY <1>7, RemoveDoes
  <2>2. \A d \in Client : told'[d] # {} => Registered(d)'
    BY <2>1 DEF ToldInv, Registered
  <2>3. ASSUME NEW d \in Client, sock'[d] = "open", NEW e \in Client, Owner(e) \in told'[d]
        PROVE  WillTell(e, d)'
    <3>1. d # c /\ sock[d] = "open" /\ WillTell(e, d) /\ Registered(d)
      BY <2>1, <2>3 DEF ToldInv
    <3>2. CASE e # c
      <4>1. pc'[e] = pc[e] /\ todo'[e] = todo[e]
        BY <2>1, <3>2, Threads DEF Elsewhere
      <4> QED BY <2>1, <3>1, <4>1 DEF WillTell, Registered
    <3>3. CASE e = c
      <4>1. PICK r \in DOMAIN recs : recs[r].client = d
        BY <3>1 DEF Registered
      <4>2. r \in listed
        BY <3>1, <4>1, RegisteredIsListed DEF OwnRecordInv
      <4>3. recs[ref[c]].client = c
        BY <2>1 DEF OwnRecordInv
      <4>4. r \in todo'[c] /\ recs'[r].client = d
        BY <2>1, <3>1, <4>1, <4>2, <4>3, GatewayAssumption DEF WithClient
      <4> QED BY <2>1, <3>1, <3>3, <4>4 DEF WillTell, Registered
    <3> QED BY <3>2, <3>3
  <2> QED BY <2>2, <2>3 DEF ToldInv
<1>8. ASSUME NEW c \in Client, HubStep(c)
      PROVE  ToldInv'
  <2>1. /\ told' = told /\ recs' = recs /\ todo' = todo
        /\ \A u \in Thread \ {c} : pc'[u] = pc[u]
        /\ \A d \in Client \ {c} : sock'[d] = sock[d]
        /\ \/ sock[c] = "idle" /\ pc'[c] = "recv"
           \/ sock[c] = "open" /\ pc' = pc
    BY <1>8, HubStepDoes
  <2>2. sock[c] = "idle" => told[c] = {}
    BY DEF OwnRecordInv, RegistryInv, ClientHeldOnce, Unregistered, Registered, ToldInv
  <2>3. \A d \in Client : told'[d] # {} => Registered(d)' /\ (sock'[d] = "open" => sock[d] = "open")
    BY <2>1, <2>2 DEF ToldInv, Registered
  <2>4. \A d, e \in Client : WillTell(e, d) => WillTell(e, d)'
    BY <2>1, Threads DEF WillTell, Registered
  <2> QED BY <2>1, <2>3, <2>4 DEF ToldInv
<1> QED BY <1>2, <1>3, <1>4, <1>5, <1>6, <1>7, <1>8, QuietSteps

\* While no UDP info gets through, a hub that reads its stream is not left with
\* an info of a hub that disconnected: the worker of the one that left tells it.
THEOREM ToldOnly ==
  ASSUME MaxConnects = 1, Reachable = {}
  PROVE  Spec => []ToldOnlyOfOnline
<1> DEFINE Quiet == NoDatagram /\ ToldInv
<1>1. Init => Quiet
  <2> SUFFICES ASSUME Init PROVE Quiet
    OBVIOUS
  <2>1. NoDatagram
    BY Threads DEF Init, NoDatagram
  <2>2. \A c \in Client : told[c] = {}
    BY DEF Init
  <2> QED BY <2>1, <2>2 DEF ToldInv
<1>2. OwnInv /\ Quiet /\ [Next]_vars => Quiet'
  BY NoDatagramStep, ToldStep DEF OwnInv, Inv, MessageInv
<1>3. OwnInv /\ Quiet => ToldOnlyOfOnline
  <2> SUFFICES ASSUME TypeOK, ToldInv, NEW c \in Client, sock[c] = "open", NEW h \in told[c],
                      Departed(h)
               PROVE  FALSE
    BY DEF OwnInv, Inv, ToldOnlyOfOnline
  <2>1. PICK n \in 1..MaxConnects : pc[<<h, n>>] = "done"
    BY DEF Departed
  <2>2. h \in Hub
    BY DEF TypeOK
  <2>3. <<h, n>> \in Client /\ Owner(<<h, n>>) = h
    BY <2>2 DEF Client, Owner
  <2> QED BY <2>1, <2>3 DEF ToldInv, WillTell
<1> HIDE DEF Quiet
<1> QED BY <1>1, <1>2, <1>3, OwnRecordHolds, PTL DEF Spec
==============================================================================
