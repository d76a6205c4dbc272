--------------------------- MODULE DirectoryProofs ---------------------------
(***************************************************************************)
(* Theorems about Directory, for every set of peers and every number of    *)
(* words and datagrams, and about Browser, which puts the page beside it,  *)
(* for every number of reloads.                                            *)
(***************************************************************************)
EXTENDS Browser, FiniteSetTheorems, SequenceTheorems, WellFoundedInduction,
        TLAPS

------------------------------------------------------------------------------
(* The inductive invariant.                                                *)

\* Where InfoMessageHandler holds the lock.
Inside == {"lookup", "add", "added", "update", "updated"}

\* Each handler has a message of its kind, on a thread that receives it.
RightMessage ==
  /\ \A t \in Thread : pc[t] \in Inside \cup {"enter"} => msg[t] \in Infos
  /\ pc[TCP] \in {"find", "remove", "removed"} => msg[TCP] \in Gones
  /\ pc[UDP] \in {"find", "port", "address"} => msg[UDP] \in Acks
  /\ pc[TCP] \notin {"port", "address"}
  /\ pc[UDP] \notin {"remove", "removed", "unlink", "clear"}

\* A thread inside holds the lock, so that nothing is added between its lookup
\* and its add.
HoldsLock(t) ==
  /\ pc[t] \in Inside => lock = t
  /\ pc[t] = "add" => ById(msg[t].id) = {}

\* The TCP thread: nothing is removed behind its back, it removes the record of
\* the hub that is gone, and every other hub it was told of is listed, or about
\* to be, until the shutdown.
TcpInv ==
  /\ pc[TCP] = "lookup" => ~Stale(TCP)
  /\ pc[TCP] \in {"find", "remove"} => told[msg[TCP].id] = "GONE"
  /\ pc[TCP] = "remove" => recs[ref[TCP]].id = msg[TCP].id
  /\ pc[TCP] = "clear" => ~linked
  /\ pc[TCP] \notin {"clear", "done"} =>
       \A h \in Id : told[h] = "INFO" =>
         \/ ById(h) # {}
         \/ pc[TCP] \in {"enter", "lookup", "add"} /\ msg[TCP].id = h

\* After the clear the TCP listener is over, and the UDP listener may add one
\* record before it looks at UDPListen.
AfterClear ==
  ~linked /\ pc[TCP] # "clear" =>
    /\ pc[TCP] = "done"
    /\ \/ listed = {}
       \/ pc[UDP] \in {"added", "done"} /\ \E r : listed = {r}

DirectoryInv ==
  /\ RightMessage
  /\ \A t \in Thread : HoldsLock(t)
  /\ TcpInv
  /\ OneRecordPerHub

Inv == TypeOK /\ DirectoryInv /\ AfterClear

------------------------------------------------------------------------------
(* What the helpers return.                                                *)

\* The least of a set of indices is one of them.
LEMMA MinIsMember ==
  ASSUME NEW S, S \subseteq Nat, S # {}
  PROVE  Min(S) \in S /\ \A s \in S : Min(S) <= s
<1> DEFINE Less == {p \in Nat \X Nat : p[1] < p[2]}
<1>1. IsWellFoundedOn(Less, Nat)
  BY NatLessThanWellFounded DEF OpToRel
<1>2. \A x, y \in Nat : <<y, x>> \notin Less => x <= y
  OBVIOUS
<1> HIDE DEF Less
<1>3. PICK x \in S : \A y \in S : <<y, x>> \notin Less
  BY <1>1, WFMin
<1> QED BY <1>2, <1>3 DEF Min

\* Found is null or a listed record of the hub.
LEMMA FoundIsListed ==
  ASSUME TypeOK, NEW h
  PROVE  /\ ById(h) = {} <=> Found(h) = 0
         /\ Found(h) \in {0} \cup DOMAIN recs
         /\ Found(h) # 0 => Found(h) \in ById(h)
<1>1. ById(h) \subseteq DOMAIN recs /\ DOMAIN recs \subseteq Nat \ {0}
  BY DEF ById, TypeOK
<1>2. ById(h) # {} => Min(ById(h)) \in ById(h)
  BY <1>1, MinIsMember
<1> QED BY <1>1, <1>2 DEF Found

\* The two threads are different, and no lock is nobody's.
LEMMA TwoThreads == TCP # UDP /\ Thread = {TCP, UDP} /\ None \notin Thread
BY DirectoryAssumption DEF Thread

\* The fields of each kind of message.
LEMMA InfoFields ==
  \A m \in Infos : /\ m.type = "INFO"
                   /\ m.id \in Id
                   /\ m.ext \in Port \cup {None}
                   /\ m.addrs \in SUBSET Address
BY DEF Infos, Info, Port, Address

LEMMA GoneFields == \A m \in Gones : m.type = "GONE" /\ m.id \in Id
BY DEF Gones, Gone

LEMMA AckFields ==
  \A m \in Acks : /\ m.type = "ACK"
                  /\ m.id \in Id
                  /\ m.from.port \in Port
BY DEF Acks, Origin, Port, Id

LEMMA MessageKinds ==
  \A m \in Infos \cup Gones \cup Acks \cup {Shutdown} :
    /\ m.type \in {"INFO", "GONE", "ACK", "SHUTDOWN"}
    /\ m.type = "INFO" => m \in Infos
    /\ m.type = "GONE" => m \in Gones
    /\ m.type = "ACK" => m \in Acks
BY InfoFields, GoneFields, AckFields DEF Shutdown

\* What a thread notes of the list when it starts and ends a scan.
LEMMA SeenType ==
  ASSUME TypeOK
  PROVE  \A t \in Thread : Enumerate(t) \/ Enumerated(t) => seen' \in [Thread -> Versions]
<1>1. Version \in Versions
  BY DEF TypeOK, Version, Versions
<1>2. <<0, {}>> \in Versions
  BY DEF Versions
<1>3. seen \in [Thread -> Versions]
  BY DEF TypeOK
<1> QED BY <1>1, <1>2, <1>3 DEF Enumerate, Enumerated

\* The four variables of a thread, and the lock.
ThreadType ==
  /\ pc \in [Thread -> Pc]
  /\ msg \in [Thread -> Infos \cup Gones \cup Acks \cup {Shutdown}]
  /\ ref \in [Thread -> {0} \cup DOMAIN recs]
  /\ \A t \in Thread : pc[t] \in Holding => ref[t] # 0
  /\ seen \in [Thread -> Versions]
  /\ lock \in Thread \cup {None}

\* A thread that goes on, or back to its loop, keeps them typed.
LEMMA GotoType ==
  ASSUME TypeOK, NEW t \in Thread, NEW l \in Pc, NEW r \in {0} \cup DOMAIN recs',
         Goto(t, l, r), l \in Holding => r # 0, DOMAIN recs \subseteq DOMAIN recs'
  PROVE  /\ pc' \in [Thread -> Pc]
         /\ ref' \in [Thread -> {0} \cup DOMAIN recs']
         /\ \A u \in Thread : pc'[u] \in Holding => ref'[u] # 0
<1>1. /\ pc \in [Thread -> Pc] /\ ref \in [Thread -> {0} \cup DOMAIN recs]
      /\ \A u \in Thread : pc[u] \in Holding => ref[u] # 0
  BY DEF TypeOK
<1> QED BY <1>1 DEF Goto

LEMMA ReturnType ==
  ASSUME TypeOK, NEW t \in Thread, Return(t), DOMAIN recs \subseteq DOMAIN recs',
         lock' \in {lock, None}
  PROVE  ThreadType'
<1>1. PICK l \in {"recv", "done"} : Goto(t, l, 0)
  BY DEF Return
<1>2. l \in Pc /\ l \notin Holding
  BY DEF Pc, Holding
<1>3. /\ pc' \in [Thread -> Pc]
      /\ ref' \in [Thread -> {0} \cup DOMAIN recs']
      /\ \A u \in Thread : pc'[u] \in Holding => ref'[u] # 0
  BY <1>1, <1>2, GotoType
<1>4. seen' \in [Thread -> Versions] /\ msg' \in [Thread -> Infos \cup Gones \cup Acks \cup {Shutdown}]
  BY SeenType DEF Return, TypeOK
<1>5. lock' \in Thread \cup {None}
  BY DEF TypeOK
<1> QED BY <1>3, <1>4, <1>5 DEF ThreadType

\* An exception does the same.
LEMMA RaiseType ==
  ASSUME TypeOK, NEW t \in Thread, Raise(t), DOMAIN recs \subseteq DOMAIN recs'
  PROVE  ThreadType'
<1>1. lock' \in {lock, None} /\ Return(t)
  BY DEF Raise
<1> QED BY <1>1, ReturnType

\* A record in place of a listed one is a record of the list.
LEMMA UpdateRecord ==
  ASSUME recs \in Seq(Record), NEW i \in DOMAIN recs, NEW r \in Record
  PROVE  /\ [recs EXCEPT ![i] = r] \in Seq(Record)
         /\ DOMAIN [recs EXCEPT ![i] = r] = DOMAIN recs
         /\ Len([recs EXCEPT ![i] = r]) = Len(recs)
BY ExceptSeq

------------------------------------------------------------------------------
(* Types.                                                                  *)

\* The other variables.
DataType ==
  /\ recs \in Seq(Record)
  /\ listed \subseteq DOMAIN recs
  /\ linked \in BOOLEAN
  /\ told \in [Id -> {"NONE", "INFO", "GONE"}]
  /\ shown \in [Id -> Int]
  /\ sent \subseteq [type : {"REQ", "ACK"}, to : Id]
  /\ words \in Nat
  /\ datagrams \in Nat

LEMMA TypeParts == (TypeOK => DataType) /\ (ThreadType' /\ DataType' => TypeOK')
BY DEF TypeOK, ThreadType, DataType

\* What the listeners receive is one of the messages they handle.
LEMMA ReceiveType ==
  ASSUME TypeOK, ReceiveTcp \/ ReceiveUdp
  PROVE  TypeOK'
<1> TCP \in Thread /\ UDP \in Thread
  BY DEF Thread
<1> DEFINE Word == Infos \cup Gones \cup Acks \cup {Shutdown}
<1>1. CASE ReceiveTcp
  <2>1. PICK m \in Infos \cup Gones \cup {Shutdown} :
          /\ msg' = [msg EXCEPT ![TCP] = m]
          /\ CASE m.type = "INFO" ->
                    Goto(TCP, "enter", 0) /\ told' = [told EXCEPT ![m.id] = "INFO"] /\ UNCHANGED seen
               [] m.type = "GONE" ->
                    Goto(TCP, "find", 0) /\ told' = [told EXCEPT ![m.id] = "GONE"] /\ Enumerate(TCP)
               [] m.type = "SHUTDOWN" ->
                    Goto(TCP, "unlink", 0) /\ UNCHANGED <<told, seen>>
    BY <1>1 DEF ReceiveTcp
  <2>2. /\ UNCHANGED <<recs, listed, lock, linked, shown, sent, datagrams>>
        /\ words' = words + 1
    BY <1>1 DEF ReceiveTcp, list
  <2>3. msg' \in [Thread -> Word]
    BY <2>1 DEF TypeOK
  <2>4. m.type \in {"INFO", "GONE", "SHUTDOWN"}
    BY InfoFields, GoneFields DEF Shutdown
  <2>5. PICK l \in {"enter", "find", "unlink"} : Goto(TCP, l, 0)
    BY <2>1, <2>4
  <2>6. l \in Pc /\ l \notin Holding
    BY DEF Pc, Holding
  <2>7. told' \in [Id -> {"NONE", "INFO", "GONE"}] /\ seen' \in [Thread -> Versions]
    BY <2>1, <2>4, SeenType DEF TypeOK
  <2>8. ThreadType'
    BY <2>2, <2>3, <2>5, <2>6, <2>7, GotoType DEF ThreadType, TypeOK
  <2> QED BY <2>2, <2>7, <2>8, TypeParts DEF DataType
<1>2. CASE ReceiveUdp
  <2>1. PICK m \in Infos \cup Acks, l \in {"enter", "find"} :
          msg' = [msg EXCEPT ![UDP] = m] /\ Goto(UDP, l, 0)
    BY <1>2 DEF ReceiveUdp
  <2>2. seen' = seen \/ Enumerate(UDP)
    BY <1>2 DEF ReceiveUdp
  <2>3. /\ UNCHANGED <<recs, listed, lock, linked, told, shown, sent, words>>
        /\ datagrams' = datagrams + 1
    BY <1>2 DEF ReceiveUdp, list, ghosts
  <2>4. msg' \in [Thread -> Word]
    BY <2>1 DEF TypeOK
  <2>5. l \in Pc /\ l \notin Holding
    BY DEF Pc, Holding
  <2>6. seen' \in [Thread -> Versions]
    BY <2>2, SeenType DEF TypeOK
  <2>7. ThreadType'
    BY <2>1, <2>3, <2>4, <2>5, <2>6, GotoType DEF ThreadType, TypeOK
  <2> QED BY <2>3, <2>7, TypeParts DEF DataType
<1> QED BY <1>1, <1>2

\* An invitation names the hub.
LEMMA InviteType ==
  ASSUME TypeOK, NEW h \in Id, Invite(h)
  PROVE  sent' \subseteq [type : {"REQ", "ACK"}, to : Id]
<1>1. [type |-> "REQ", to |-> h] \in [type : {"REQ", "ACK"}, to : Id]
  OBVIOUS
<1> QED BY <1>1 DEF Invite, TypeOK

\* Every step of the info handler keeps the types.
LEMMA InfoHandlerType ==
  ASSUME TypeOK, RightMessage, NEW t \in Thread, InfoHandler(t)
  PROVE  TypeOK'
<1>1. CASE Enter(t)
  <2>1. /\ UNCHANGED <<recs, listed, msg, linked, told, shown, sent, words, datagrams>>
        /\ Goto(t, "lookup", 0) /\ Enumerate(t) /\ lock' = t
    BY <1>1 DEF Enter, list, ghosts, counts
  <2>2. "lookup" \in Pc \ Holding
    BY DEF Pc, Holding
  <2>3. ThreadType'
    BY <2>1, <2>2, SeenType, GotoType DEF ThreadType, TypeOK
  <2> QED BY <2>1, <2>3, TypeParts DEF DataType
<1>2. CASE Lookup(t)
  <2>1. UNCHANGED <<recs, listed, linked, told, shown, sent, words, datagrams>>
    BY <1>2 DEF Lookup, list, ghosts, counts
  <2>2. CASE Raise(t)
    BY <2>1, <2>2, RaiseType, TypeParts DEF DataType
  <2>3. CASE ~Raise(t)
    <3> DEFINE r == Found(msg[t].id)
    <3>1. PICK l \in {"add", "update"} : /\ Goto(t, l, r) /\ Enumerated(t) /\ UNCHANGED <<lock, msg>>
                                         /\ l = "update" => r # 0
      BY <1>2, <2>3 DEF Lookup
    <3>2. r \in {0} \cup DOMAIN recs
      BY FoundIsListed
    <3> HIDE DEF r
    <3>3. l \in Pc /\ (l \in Holding => r # 0)
      BY <3>1 DEF Pc, Holding
    <3>4. ThreadType'
      BY <2>1, <3>1, <3>2, <3>3, SeenType, GotoType DEF ThreadType, TypeOK
    <3> QED BY <2>1, <3>4, TypeParts DEF DataType
  <2> QED BY <2>2, <2>3
<1>3. CASE Add(t)
  <2> DEFINE new == [id |-> msg[t].id, ext |-> msg[t].ext, addrs |-> msg[t].addrs]
  <2>1. msg[t] \in Infos
    BY <1>3 DEF Add, RightMessage, Inside
  <2>2. new \in Record
    BY <2>1, InfoFields DEF Record
  <2>3. /\ UNCHANGED <<lock, msg, seen, linked, told, shown, sent, words, datagrams>>
        /\ recs' = Append(recs, new) /\ listed' = listed \cup {Len(recs) + 1}
        /\ Goto(t, "added", Len(recs) + 1)
    BY <1>3 DEF Add, ghosts, counts
  <2> HIDE DEF new
  <2>4. recs' \in Seq(Record) /\ DOMAIN recs' = DOMAIN recs \cup {Len(recs) + 1}
    BY <2>2, <2>3 DEF TypeOK
  <2>5. "added" \in Pc /\ Len(recs) + 1 # 0
    BY DEF Pc, TypeOK
  <2>6. ThreadType'
    BY <2>3, <2>4, <2>5, GotoType DEF ThreadType, TypeOK
  <2>7. DataType'
    BY <2>3, <2>4 DEF DataType, TypeOK
  <2> QED BY <2>6, <2>7, TypeParts
<1>4. CASE Added(t)
  <2>1. msg[t].id \in Id
    BY <1>4, InfoFields DEF Added, RightMessage, Inside
  <2>2. /\ UNCHANGED <<recs, listed, linked, told, sent, words, datagrams>>
        /\ Return(t) /\ lock' = None /\ shown' = [shown EXCEPT ![msg[t].id] = @ + 1]
    BY <1>4 DEF Added, list, counts
  <2>3. shown' \in [Id -> Int]
    BY <2>1, <2>2 DEF TypeOK
  <2> QED BY <2>2, <2>3, ReturnType, TypeParts DEF DataType
<1>5. CASE Update(t)
  <2> DEFINE m == msg[t]
             i == ref[t]
             ext == IF m.ext = None THEN recs[i].ext ELSE m.ext
             addrs == IF m.addrs = {} THEN recs[i].addrs ELSE m.addrs
             new == [recs[i] EXCEPT !.ext = ext, !.addrs = addrs]
  <2>1. m \in Infos /\ i \in DOMAIN recs
    BY <1>5 DEF Update, RightMessage, Inside, TypeOK, Holding
  <2>2. recs[i] \in Record
    BY <2>1 DEF TypeOK
  <2>3. new \in Record
    BY <2>1, <2>2, InfoFields DEF Record
  <2>4. recs' = [recs EXCEPT ![i] = new]
    BY <1>5, <2>1, <2>2 DEF Update, Record
  <2>5. /\ UNCHANGED <<listed, lock, msg, seen, linked, told, shown, sent, words, datagrams>>
        /\ Goto(t, "updated", i)
    BY <1>5 DEF Update, ghosts, counts
  <2> HIDE DEF new, i, m
  <2>6. recs' \in Seq(Record) /\ DOMAIN recs' = DOMAIN recs
    BY <2>1, <2>3, <2>4, UpdateRecord DEF TypeOK
  <2>7. "updated" \in Pc /\ i # 0
    BY <2>1 DEF Pc, TypeOK
  <2>8. ThreadType'
    BY <2>1, <2>5, <2>6, <2>7, GotoType DEF ThreadType, TypeOK
  <2>9. DataType'
    BY <2>5, <2>6 DEF DataType, TypeOK
  <2> QED BY <2>8, <2>9, TypeParts
<1>6. CASE Updated(t)
  <2>1. msg[t].id \in Id
    BY <1>6, InfoFields DEF Updated, RightMessage, Inside
  <2>2. /\ UNCHANGED <<recs, listed, linked, told, shown, words, datagrams>>
        /\ Return(t) /\ lock' = None /\ Invite(msg[t].id)
    BY <1>6 DEF Updated, list, counts
  <2> QED BY <2>1, <2>2, InviteType, ReturnType, TypeParts DEF DataType
<1> QED BY <1>1, <1>2, <1>3, <1>4, <1>5, <1>6 DEF InfoHandler

\* So does every step of the notification handler.
LEMMA NotificationHandlerType ==
  ASSUME TypeOK, RightMessage, NotificationHandler
  PROVE  TypeOK'
<1> TCP \in Thread
  BY DEF Thread
<1>1. CASE FindGone
  <2>1. UNCHANGED <<recs, listed, lock, linked, told, shown, sent, words, datagrams>>
    BY <1>1 DEF FindGone, list, ghosts, counts
  <2>2. CASE Return(TCP)
    BY <2>1, <2>2, ReturnType, TypeParts DEF DataType
  <2>3. CASE ~Return(TCP)
    <3> DEFINE r == Found(msg[TCP].id)
    <3>1. r # 0 /\ Goto(TCP, "remove", r) /\ Enumerated(TCP) /\ UNCHANGED msg
      BY <1>1, <2>3 DEF FindGone
    <3>2. r \in {0} \cup DOMAIN recs
      BY FoundIsListed
    <3> HIDE DEF r
    <3>3. "remove" \in Pc
      BY DEF Pc
    <3>4. ThreadType'
      BY <2>1, <3>1, <3>2, <3>3, SeenType, GotoType DEF ThreadType, TypeOK
    <3> QED BY <2>1, <3>4, TypeParts DEF DataType
  <2> QED BY <2>2, <2>3
<1>2. CASE Remove
  <2>1. /\ UNCHANGED <<recs, lock, msg, seen, linked, told, shown, sent, words, datagrams>>
        /\ Goto(TCP, "removed", ref[TCP]) /\ listed' \subseteq listed
    BY <1>2 DEF Remove, ghosts, counts
  <2>2. "removed" \in Pc /\ ref[TCP] \in DOMAIN recs
    BY <1>2 DEF Remove, Pc, TypeOK, Holding
  <2>3. ref[TCP] # 0
    BY <2>2 DEF TypeOK
  <2>4. ThreadType'
    BY <2>1, <2>2, <2>3, GotoType DEF ThreadType, TypeOK
  <2> QED BY <2>1, <2>4, TypeParts DEF DataType
<1>3. CASE Removed
  <2>1. msg[TCP].id \in Id
    BY <1>3, GoneFields DEF Removed, RightMessage
  <2>2. /\ UNCHANGED <<recs, listed, lock, linked, told, sent, words, datagrams>>
        /\ Return(TCP) /\ shown' = [shown EXCEPT ![msg[TCP].id] = @ - 1]
    BY <1>3 DEF Removed, list, counts
  <2>3. shown' \in [Id -> Int]
    BY <2>1, <2>2 DEF TypeOK
  <2> QED BY <2>2, <2>3, ReturnType, TypeParts DEF DataType
<1>4. CASE Unlink
  <2>1. /\ UNCHANGED <<recs, listed, lock, msg, seen, told, shown, sent, words, datagrams>>
        /\ Goto(TCP, "clear", 0) /\ linked' = FALSE
    BY <1>4 DEF Unlink, list, ghosts, counts
  <2>2. "clear" \in Pc \ Holding
    BY DEF Pc, Holding
  <2>3. ThreadType'
    BY <2>1, <2>2, GotoType DEF ThreadType, TypeOK
  <2> QED BY <2>1, <2>3, TypeParts DEF DataType
<1>5. CASE Clear
  <2>1. /\ UNCHANGED <<recs, lock, linked, told, shown, sent, words, datagrams>>
        /\ Return(TCP) /\ listed' = {}
    BY <1>5 DEF Clear, ghosts, counts
  <2> QED BY <2>1, ReturnType, TypeParts DEF DataType
<1> QED BY <1>1, <1>2, <1>3, <1>4, <1>5 DEF NotificationHandler

\* And every step of the ack handler.
LEMMA AckHandlerType ==
  ASSUME TypeOK, RightMessage, AckHandler
  PROVE  TypeOK'
<1> UDP \in Thread
  BY DEF Thread
<1>1. CASE FindAsker
  <2>1. UNCHANGED <<recs, listed, lock, linked, told, shown, sent, words, datagrams>>
    BY <1>1 DEF FindAsker, list, ghosts, counts
  <2>2. CASE Return(UDP)
    BY <2>1, <2>2, ReturnType, TypeParts DEF DataType
  <2>3. CASE ~Return(UDP)
    <3> DEFINE r == Found(msg[UDP].id)
    <3>1. PICK l \in {"port", "address"} : Goto(UDP, l, r)
      BY <1>1, <2>3 DEF FindAsker
    <3>2. r # 0 /\ Enumerated(UDP) /\ UNCHANGED msg
      BY <1>1, <2>3 DEF FindAsker
    <3>3. r \in {0} \cup DOMAIN recs
      BY FoundIsListed
    <3> HIDE DEF r
    <3>4. l \in Pc
      BY DEF Pc
    <3>5. ThreadType'
      BY <2>1, <3>1, <3>2, <3>3, <3>4, SeenType, GotoType DEF ThreadType, TypeOK
    <3> QED BY <2>1, <3>5, TypeParts DEF DataType
  <2> QED BY <2>2, <2>3
<1>2. CASE NewPort
  <2> DEFINE i == ref[UDP]
             port == msg[UDP].from.port
             new == [recs[i] EXCEPT !.ext = port]
  <2>1. msg[UDP] \in Acks /\ i \in DOMAIN recs
    BY <1>2 DEF NewPort, RightMessage, TypeOK, Holding
  <2>2. recs[i] \in Record
    BY <2>1 DEF TypeOK
  <2>3. new \in Record
    BY <2>1, <2>2, AckFields DEF Record
  <2>4. recs' = [recs EXCEPT ![i] = new]
    BY <1>2, <2>1, <2>2 DEF NewPort, Record
  <2>5. /\ UNCHANGED <<listed, lock, msg, seen, linked, told, shown, words, datagrams>>
        /\ Goto(UDP, "address", i) /\ Invite(msg[UDP].id)
    BY <1>2 DEF NewPort, counts
  <2>6. sent' \subseteq [type : {"REQ", "ACK"}, to : Id]
    BY <2>1, <2>5, AckFields, InviteType
  <2> HIDE DEF new, i
  <2>7. recs' \in Seq(Record) /\ DOMAIN recs' = DOMAIN recs
    BY <2>1, <2>3, <2>4, UpdateRecord DEF TypeOK
  <2>8. "address" \in Pc /\ i # 0
    BY <2>1 DEF Pc, TypeOK
  <2>9. ThreadType'
    BY <2>1, <2>5, <2>7, <2>8, GotoType DEF ThreadType, TypeOK
  <2>10. DataType'
    BY <2>5, <2>6, <2>7 DEF DataType, TypeOK
  <2> QED BY <2>9, <2>10, TypeParts
<1>3. CASE NewAddress
  <2> DEFINE i == ref[UDP]
             a == msg[UDP].from.addr
             new == [recs[i] EXCEPT !.addrs = @ \cup {a}]
  <2>1. msg[UDP] \in Acks /\ i \in DOMAIN recs
    BY <1>3 DEF NewAddress, RightMessage, TypeOK, Holding
  <2>2. recs[i] \in Record /\ msg[UDP].id \in Id
    BY <2>1, AckFields DEF TypeOK
  <2>3. /\ UNCHANGED <<listed, lock, linked, told, shown, words, datagrams>>
        /\ Return(UDP)
    BY <1>3 DEF NewAddress, counts
  <2>4. \/ recs' = recs
        \/ /\ a \in Address
           /\ recs' = [recs EXCEPT ![i] = new]
    BY <1>3, <2>1, <2>2 DEF NewAddress, Record
  <2>5. sent' = sent \/ sent' = sent \cup {[type |-> "ACK", to |-> msg[UDP].id]}
    BY <1>3 DEF NewAddress
  <2>6. sent' \subseteq [type : {"REQ", "ACK"}, to : Id]
    BY <2>2, <2>5 DEF TypeOK
  <2>7. a \in Address => new \in Record
    BY <2>2 DEF Record
  <2> HIDE DEF new, i, a
  <2>8. recs' \in Seq(Record) /\ DOMAIN recs' = DOMAIN recs
    <3>1. CASE recs' = recs
      BY <3>1 DEF TypeOK
    <3>2. CASE a \in Address /\ recs' = [recs EXCEPT ![i] = new]
      BY <2>1, <2>7, <3>2, UpdateRecord DEF TypeOK
    <3> QED BY <2>4, <3>1, <3>2
  <2>9. ThreadType'
    BY <2>3, <2>8, ReturnType
  <2>10. DataType'
    BY <2>3, <2>6, <2>8 DEF DataType, TypeOK
  <2> QED BY <2>9, <2>10, TypeParts
<1> QED BY <1>1, <1>2, <1>3 DEF AckHandler

\* Every step keeps the types, given that handlers have messages of their kind.
LEMMA TypeStep ==
  ASSUME TypeOK, RightMessage, [Next]_vars
  PROVE  TypeOK'
<1>1. CASE UNCHANGED vars
  BY <1>1 DEF TypeOK, vars
<1> QED BY <1>1, ReceiveType, InfoHandlerType, NotificationHandlerType, AckHandlerType DEF Next

------------------------------------------------------------------------------
(* The list and the lock.                                                  *)

\* A step that neither adds nor removes a record, and names none anew.
KeepsHubs ==
  /\ listed' = listed
  /\ Len(recs') = Len(recs)
  /\ DOMAIN recs' = DOMAIN recs
  /\ \A r \in DOMAIN recs : recs'[r].id = recs[r].id

\* Such a step changes no lookup and makes no enumerator stale.
LEMMA KeptHubs ==
  ASSUME TypeOK, KeepsHubs
  PROVE  /\ \A h : ById(h)' = ById(h)
         /\ Version' = Version
         /\ OneRecordPerHub => OneRecordPerHub'
BY DEF TypeOK, KeepsHubs, ById, Version, OneRecordPerHub

\* The updates of a record keep its hub.
LEMMA UpdatesKeepHubs ==
  ASSUME TypeOK
  PROVE  /\ recs' = recs /\ listed' = listed => KeepsHubs
         /\ \A t \in Thread : Update(t) => KeepsHubs
         /\ NewPort \/ NewAddress => KeepsHubs
<1>2. recs' = recs /\ listed' = listed => KeepsHubs
  BY DEF KeepsHubs
<1>3. ASSUME NEW i \in DOMAIN recs
      PROVE  DOMAIN recs = 1..Len(recs) /\ Len(recs) \in Nat /\ recs[i] \in Record
  BY <1>3 DEF TypeOK
<1>4. ASSUME NEW t \in Thread, Update(t) PROVE KeepsHubs
  BY <1>4, <1>3 DEF Update, TypeOK, Holding, KeepsHubs, Record
<1>5. UDP \in Thread
  BY DEF Thread
<1>6. CASE NewPort
  BY <1>6, <1>5, <1>3 DEF NewPort, TypeOK, Holding, KeepsHubs, Record
<1>7. CASE NewAddress
  <2> DEFINE i == ref[UDP]
             new == [recs[i] EXCEPT !.addrs = @ \cup {msg[UDP].from.addr}]
  <2>1. listed' = listed /\ i \in DOMAIN recs
    BY <1>7, <1>5 DEF NewAddress, TypeOK, Holding
  <2>2. \/ recs' = recs
        \/ recs' = [recs EXCEPT ![i] = new] /\ new \in Record
    BY <1>3, <1>7, <2>1 DEF NewAddress, Record
  <2>3. new.id = recs[i].id
    BY <1>3, <2>1 DEF Record
  <2> HIDE DEF new, i
  <2>4. CASE recs' = [recs EXCEPT ![i] = new] /\ new \in Record
    BY <2>1, <2>3, <2>4, UpdateRecord DEF TypeOK, KeepsHubs
  <2> QED BY <1>2, <2>1, <2>2, <2>4
<1> QED BY <1>2, <1>4, <1>6, <1>7

\* What thread u is left with when the other thread takes such a step.
LEMMA OtherHoldsLock ==
  ASSUME TypeOK, NEW u \in Thread, HoldsLock(u), \A h : ById(h)' \subseteq ById(h),
         pc'[u] = pc[u], msg'[u] = msg[u], lock = u => lock' = u
  PROVE  HoldsLock(u)'
BY DEF HoldsLock

LEMMA UdpLeavesTcp ==
  ASSUME TypeOK, TcpInv, KeepsHubs, pc'[TCP] = pc[TCP], msg'[TCP] = msg[TCP],
         ref'[TCP] = ref[TCP], seen'[TCP] = seen[TCP], UNCHANGED <<told, linked>>
  PROVE  TcpInv'
<1>1. ref[TCP] \in {0} \cup DOMAIN recs /\ (pc[TCP] = "remove" => ref[TCP] # 0)
  BY DEF TypeOK, Thread, Holding
<1> QED BY <1>1, KeptHubs DEF TcpInv, Stale, KeepsHubs

\* What a return to the loop leaves of a thread.
LEMMA Returns ==
  ASSUME TypeOK, NEW t \in Thread, Return(t)
  PROVE  /\ pc'[t] = IF linked THEN "recv" ELSE "done"
         /\ \A u \in Thread \ {t} : /\ pc'[u] = pc[u] /\ msg'[u] = msg[u]
                                    /\ ref'[u] = ref[u] /\ seen'[u] = seen[u]
BY DEF Return, Goto, Enumerated, TypeOK

LEMMA Goes ==
  ASSUME TypeOK, NEW t \in Thread, NEW l, NEW r, Goto(t, l, r)
  PROVE  /\ pc'[t] = l /\ ref'[t] = r
         /\ \A u \in Thread \ {t} : pc'[u] = pc[u] /\ ref'[u] = ref[u]
BY DEF Goto, TypeOK

LEMMA Enumerates ==
  ASSUME TypeOK, NEW t \in Thread, Enumerate(t) \/ Enumerated(t)
  PROVE  /\ Enumerate(t) => seen'[t] = Version
         /\ \A u \in Thread \ {t} : seen'[u] = seen[u]
BY DEF Enumerate, Enumerated, TypeOK

\* A step of the info handler, except Add, leaves the hubs as they are.
LEMMA InfoKeeps ==
  ASSUME TypeOK, DirectoryInv, NEW t \in Thread, InfoHandler(t), ~Add(t)
  PROVE  DirectoryInv'
<1> USE TwoThreads DEF Inside
<1>0. /\ HoldsLock(t) /\ TcpInv /\ RightMessage
      /\ t = TCP \/ t = UDP
  BY DEF DirectoryInv
<1>1. KeepsHubs
  BY UpdatesKeepHubs DEF InfoHandler, Enter, Lookup, Added, Updated, list
<1>2. UNCHANGED <<told, linked>>
  BY DEF InfoHandler, Enter, Lookup, Added, Update, Updated, ghosts
<1>3. ASSUME NEW u \in Thread \ {t}
      PROVE  /\ pc'[u] = pc[u] /\ msg'[u] = msg[u]
             /\ ref'[u] = ref[u] /\ seen'[u] = seen[u]
             /\ lock = u => lock' = u
  <2>1. CASE Return(t)
    BY <1>0, <2>1, Returns DEF InfoHandler, Enter, Lookup, Raise, Added, Update, Updated, HoldsLock
  <2>2. CASE ~Return(t)
    <3>1. UNCHANGED msg /\ (lock = u => lock' = u)
      BY <2>2 DEF InfoHandler, Enter, Lookup, Raise, Added, Update, Updated
    <3>2. (Enumerate(t) \/ Enumerated(t)) \/ UNCHANGED seen
      BY <2>2 DEF InfoHandler, Enter, Lookup, Raise, Added, Update, Updated
    <3>3. PICK l, r : Goto(t, l, r)
      BY <2>2 DEF InfoHandler, Enter, Lookup, Raise, Added, Update, Updated
    <3> QED BY <3>1, <3>2, <3>3, Goes, Enumerates
  <2> QED BY <2>1, <2>2
<1>4. OneRecordPerHub' /\ \A u \in Thread \ {t} : HoldsLock(u)'
  BY <1>1, <1>3, KeptHubs, OtherHoldsLock DEF DirectoryInv
\* Where the thread itself goes.
<1>5. /\ RightMessage'
      /\ HoldsLock(t)'
      /\ t = TCP => TcpInv'
  <2>1. CASE Enter(t)
    <3>1. pc'[t] = "lookup" /\ seen'[t] = Version /\ lock' = t /\ UNCHANGED msg /\ pc[t] = "enter"
      BY <2>1, Goes, Enumerates DEF Enter
    <3> QED BY <1>0, <1>1, <1>2, <1>3, <3>1, KeptHubs DEF RightMessage, HoldsLock, TcpInv, Stale
  <2>2. CASE Lookup(t)
    <3>1. CASE Raise(t)
      <4>1. Return(t) /\ pc[t] = "lookup"
        BY <2>2, <3>1 DEF Raise, Lookup
      <4>2. pc'[t] \in {"recv", "done"}
        BY <4>1, Returns
      <4>3. t # TCP
        <5>1. CASE Stale(t)
          BY <1>0, <4>1, <5>1 DEF TcpInv
        <5>2. CASE ~Stale(t)
          <6>1. PICK l \in {"add", "update"} : \E r : Goto(t, l, r)
            BY <2>2, <5>2 DEF Lookup
          <6> QED BY <4>2, <6>1, Goes
        <5> QED BY <5>1, <5>2
      <4> QED BY <1>0, <1>1, <1>2, <1>3, <4>1, <4>2, <4>3, KeptHubs DEF RightMessage, HoldsLock
    <3>2. CASE ~Raise(t)
      <4>1. /\ Goto(t, IF Found(msg[t].id) = 0 THEN "add" ELSE "update", Found(msg[t].id))
            /\ UNCHANGED <<lock, msg>> /\ pc[t] = "lookup"
        BY <2>2, <3>2 DEF Lookup
      <4>2. \/ pc'[t] = "add" /\ ById(msg[t].id) = {}
            \/ pc'[t] = "update" /\ ById(msg[t].id) # {}
        <5>1. CASE Found(msg[t].id) = 0
          BY <4>1, <5>1, Goes, FoundIsListed
        <5>2. CASE Found(msg[t].id) # 0
          BY <4>1, <5>2, Goes, FoundIsListed
        <5> QED BY <5>1, <5>2
      <4> QED BY <1>0, <1>1, <1>2, <1>3, <4>1, <4>2, KeptHubs DEF RightMessage, HoldsLock, TcpInv
    <3> QED BY <3>1, <3>2
  <2>3. CASE Added(t) \/ Updated(t)
    <3>1. Return(t) /\ pc[t] \in {"added", "updated"}
      BY <2>3 DEF Added, Updated
    <3>2. pc'[t] = IF linked THEN "recv" ELSE "done"
      BY <3>1, Returns
    <3> QED BY <1>0, <1>1, <1>2, <1>3, <3>1, <3>2, KeptHubs DEF RightMessage, HoldsLock, TcpInv
  <2>4. CASE Update(t)
    <3>1. pc'[t] = "updated" /\ pc[t] = "update" /\ UNCHANGED <<lock, msg>>
      BY <2>4, Goes DEF Update
    <3> QED BY <1>0, <1>1, <1>2, <1>3, <3>1, KeptHubs DEF RightMessage, HoldsLock, TcpInv
  <2> QED BY <2>1, <2>2, <2>3, <2>4 DEF InfoHandler
<1>6. t = UDP => TcpInv'
  BY <1>0, <1>1, <1>2, <1>3, UdpLeavesTcp
<1> QED BY <1>0, <1>4, <1>5, <1>6 DEF DirectoryInv

\* Add finds the list as the lookup left it.
LEMMA AddKeeps ==
  ASSUME TypeOK, DirectoryInv, NEW t \in Thread, Add(t)
  PROVE  DirectoryInv'
<1> USE TwoThreads DEF Inside
<1> DEFINE n == Len(recs) + 1
           new == [id |-> msg[t].id, ext |-> msg[t].ext, addrs |-> msg[t].addrs]
<1>0. /\ RightMessage /\ TcpInv /\ OneRecordPerHub /\ \A u \in Thread : HoldsLock(u)
      /\ t = TCP \/ t = UDP
  BY DEF DirectoryInv
<1>1. /\ recs' = Append(recs, new) /\ listed' = listed \cup {n}
      /\ UNCHANGED <<lock, msg, seen, told, linked>>
      /\ pc[t] = "add" /\ Goto(t, "added", n)
  BY DEF Add, ghosts
<1>2. /\ recs'[n] = new /\ \A r \in DOMAIN recs : recs'[r] = recs[r]
      /\ listed \subseteq DOMAIN recs /\ n \notin DOMAIN recs
  BY <1>1 DEF TypeOK
<1>3. pc'[t] = "added" /\ \A u \in Thread \ {t} : pc'[u] = pc[u] /\ ref'[u] = ref[u]
  BY <1>1, Goes
<1>4. new.id = msg[t].id /\ ById(msg[t].id) = {} /\ lock = t
  BY <1>0, <1>1 DEF HoldsLock
<1> HIDE DEF new, n
<1>5. \A h : ById(h)' = IF h = msg[t].id THEN ById(h) \cup {n} ELSE ById(h)
  BY <1>1, <1>2, <1>4 DEF ById
<1>6. RightMessage'
  BY <1>0, <1>1, <1>3 DEF RightMessage
<1>7. \A u \in Thread : HoldsLock(u)'
  BY <1>0, <1>1, <1>3, <1>4 DEF HoldsLock
<1>8. TcpInv'
  <2>1. pc[TCP] = "remove" => ref[TCP] \in DOMAIN recs
    BY DEF TypeOK, Holding
  <2>2. t # TCP => pc[TCP] \notin Inside /\ pc'[TCP] = pc[TCP] /\ ref'[TCP] = ref[TCP]
    BY <1>0, <1>3, <1>4 DEF HoldsLock
  <2>3. CASE t = TCP
    BY <1>0, <1>1, <1>3, <1>5, <2>3 DEF TcpInv
  <2>4. CASE t # TCP
    BY <1>0, <1>1, <1>2, <1>5, <2>1, <2>2, <2>4 DEF TcpInv
  <2> QED BY <2>3, <2>4
<1>9. OneRecordPerHub'
  <2>1. \A r \in listed : recs'[r].id = recs[r].id /\ recs[r].id # recs'[n].id
    BY <1>2, <1>4 DEF ById
  <2>2. ASSUME NEW r \in listed', NEW s \in listed', recs'[r].id = recs'[s].id
        PROVE  r = s
    <3>1. r \in listed \cup {n} /\ s \in listed \cup {n}
      BY <1>1
    <3>2. CASE r \in listed /\ s \in listed
      BY <1>0, <2>1, <2>2, <3>2 DEF OneRecordPerHub
    <3> QED BY <2>1, <2>2, <3>1, <3>2
  <2> QED BY <2>2 DEF OneRecordPerHub
<1> QED BY <1>6, <1>7, <1>8, <1>9 DEF DirectoryInv

\* What the listeners receive starts a handler of its kind.
LEMMA ReceiveKeeps ==
  ASSUME TypeOK, DirectoryInv, ReceiveTcp \/ ReceiveUdp
  PROVE  DirectoryInv'
<1> USE TwoThreads DEF Inside
<1>0. RightMessage /\ TcpInv /\ \A u \in Thread : HoldsLock(u)
  BY DEF DirectoryInv
<1>1. KeepsHubs /\ UNCHANGED <<lock, linked>>
  BY UpdatesKeepHubs DEF ReceiveTcp, ReceiveUdp, list
<1>2. OneRecordPerHub'
  BY <1>1, KeptHubs DEF DirectoryInv
<1>3. CASE ReceiveUdp
  <2>1. PICK m \in Infos \cup Acks :
          /\ msg' = [msg EXCEPT ![UDP] = m]
          /\ \/ m.type = "INFO" /\ Goto(UDP, "enter", 0) /\ UNCHANGED seen
             \/ m.type = "ACK" /\ Goto(UDP, "find", 0) /\ Enumerate(UDP)
    BY <1>3 DEF ReceiveUdp
  <2>2. /\ pc'[TCP] = pc[TCP] /\ ref'[TCP] = ref[TCP] /\ msg'[TCP] = msg[TCP]
        /\ seen'[TCP] = seen[TCP] /\ msg'[UDP] = m /\ UNCHANGED told
        /\ \/ pc'[UDP] = "enter" /\ m.type = "INFO"
           \/ pc'[UDP] = "find" /\ m.type = "ACK"
    BY <1>3, <2>1, Goes, Enumerates DEF TypeOK, ReceiveUdp, ghosts
  <2>3. RightMessage'
    BY <1>0, <2>2, MessageKinds DEF RightMessage
  <2>4. HoldsLock(TCP)'
    BY <1>0, <1>1, <2>2, KeptHubs DEF HoldsLock
  <2>5. HoldsLock(UDP)'
    BY <2>2 DEF HoldsLock
  <2>6. TcpInv'
    BY <1>0, <1>1, <2>2, UdpLeavesTcp
  <2> QED BY <1>2, <2>3, <2>4, <2>5, <2>6 DEF DirectoryInv
<1>4. CASE ReceiveTcp
  <2>1. PICK m \in Infos \cup Gones \cup {Shutdown} :
          /\ msg' = [msg EXCEPT ![TCP] = m]
          /\ CASE m.type = "INFO" ->
                    Goto(TCP, "enter", 0) /\ told' = [told EXCEPT ![m.id] = "INFO"] /\ UNCHANGED seen
               [] m.type = "GONE" ->
                    Goto(TCP, "find", 0) /\ told' = [told EXCEPT ![m.id] = "GONE"] /\ Enumerate(TCP)
               [] m.type = "SHUTDOWN" ->
                    Goto(TCP, "unlink", 0) /\ UNCHANGED <<told, seen>>
    BY <1>4 DEF ReceiveTcp
  <2>2. msg'[TCP] = m /\ msg'[UDP] = msg[UDP] /\ pc[TCP] = "recv"
    BY <1>4, <2>1 DEF TypeOK, ReceiveTcp
  <2>3. m.type \in {"INFO", "GONE", "SHUTDOWN"}
    BY MessageKinds, InfoFields, GoneFields DEF Shutdown
  <2>4. /\ pc'[UDP] = pc[UDP]
        /\ m.type = "INFO" => pc'[TCP] = "enter" /\ told' = [told EXCEPT ![m.id] = "INFO"]
        /\ m.type = "GONE" => pc'[TCP] = "find" /\ told' = [told EXCEPT ![m.id] = "GONE"]
        /\ m.type = "SHUTDOWN" => pc'[TCP] = "unlink" /\ told' = told
    BY <2>1, <2>3, Goes
  <2>5. RightMessage'
    BY <1>0, <2>2, <2>3, <2>4, MessageKinds DEF RightMessage
  <2>6. HoldsLock(UDP)'
    BY <1>0, <1>1, <2>2, <2>4, KeptHubs DEF HoldsLock
  <2>7. HoldsLock(TCP)'
    BY <2>3, <2>4 DEF HoldsLock
  <2>8. \A h \in Id : told[h] = "INFO" => ById(h)' # {}
    BY <1>0, <1>1, <2>2, KeptHubs DEF TcpInv
  <2>9. m.type \in {"INFO", "GONE"} => m.id \in Id
    BY InfoFields, GoneFields, MessageKinds
  <2>10. TcpInv'
    BY <2>2, <2>3, <2>4, <2>8, <2>9 DEF TcpInv, TypeOK
  <2> QED BY <1>2, <2>5, <2>6, <2>7, <2>10 DEF DirectoryInv
<1> QED BY <1>3, <1>4

\* The notification handler removes the record of the hub that is gone, and only
\* that one, until the shutdown.
LEMMA NotificationKeeps ==
  ASSUME TypeOK, DirectoryInv, NotificationHandler
  PROVE  DirectoryInv'
<1> USE TwoThreads DEF Inside
<1>0. /\ RightMessage /\ TcpInv /\ OneRecordPerHub
      /\ \A u \in Thread : HoldsLock(u)
  BY DEF DirectoryInv
<1>1. recs' = recs /\ lock' = lock /\ listed' \subseteq listed /\ told' = told
  BY DEF NotificationHandler, FindGone, Remove, Removed, Unlink, Clear, list, ghosts
<1>2. /\ \A h : ById(h)' \subseteq ById(h)
      /\ OneRecordPerHub'
  BY <1>0, <1>1 DEF ById, OneRecordPerHub
<1>3. /\ pc'[UDP] = pc[UDP] /\ msg'[UDP] = msg[UDP]
  <2>1. CASE Return(TCP)
    BY <2>1, Returns
  <2>2. CASE ~Return(TCP)
    <3>1. UNCHANGED msg /\ \E l, r : Goto(TCP, l, r)
      BY <2>2 DEF NotificationHandler, FindGone, Remove, Removed, Unlink, Clear
    <3> QED BY <3>1, Goes
  <2> QED BY <2>1, <2>2
<1>4. HoldsLock(UDP)'
  BY <1>0, <1>1, <1>2, <1>3, OtherHoldsLock
\* Where the TCP thread goes.
<1>5. CASE FindGone
  <2>1. KeepsHubs /\ linked' = linked /\ pc[TCP] = "find"
    BY <1>5, UpdatesKeepHubs DEF FindGone, list
  <2>2. CASE Return(TCP)
    <3>1. pc'[TCP] \in {"recv", "done"}
      BY <2>2, Returns
    <3> QED BY <1>0, <1>1, <1>2, <1>3, <1>4, <2>1, <3>1, KeptHubs
         DEF DirectoryInv, RightMessage, HoldsLock, TcpInv
  <2>3. CASE ~Return(TCP)
    <3> DEFINE r == Found(msg[TCP].id)
    <3>1. r # 0 /\ Goto(TCP, "remove", r) /\ msg' = msg
      BY <1>5, <2>3 DEF FindGone
    <3>2. recs[r].id = msg[TCP].id
      BY <3>1, FoundIsListed DEF ById
    <3>3. pc'[TCP] = "remove" /\ recs'[ref'[TCP]].id = msg'[TCP].id
      BY <1>1, <3>1, <3>2, Goes
    <3> HIDE DEF r
    <3> QED BY <1>0, <1>1, <1>2, <1>3, <1>4, <2>1, <3>1, <3>3, KeptHubs
         DEF DirectoryInv, RightMessage, HoldsLock, TcpInv
  <2> QED BY <2>2, <2>3
<1>6. CASE Remove
  <2>1. /\ pc[TCP] = "remove" /\ pc'[TCP] = "removed" /\ msg' = msg
        /\ listed' = listed \ {ref[TCP]} /\ recs[ref[TCP]].id = msg[TCP].id
        /\ told[msg[TCP].id] = "GONE"
    BY <1>0, <1>6, Goes DEF Remove, TcpInv
  <2>2. \A h \in Id : told[h] = "INFO" => ById(h)' # {}
    BY <1>0, <1>1, <2>1 DEF ById, TcpInv
  <2> QED BY <1>0, <1>1, <1>2, <1>3, <1>4, <2>1, <2>2
       DEF DirectoryInv, RightMessage, HoldsLock, TcpInv
<1>7. CASE Removed
  <2>1. KeepsHubs /\ Return(TCP) /\ pc[TCP] = "removed"
    BY <1>7, UpdatesKeepHubs DEF Removed, list
  <2>2. pc'[TCP] \in {"recv", "done"}
    BY <2>1, Returns
  <2> QED BY <1>0, <1>1, <1>2, <1>3, <1>4, <2>1, <2>2, KeptHubs
       DEF DirectoryInv, RightMessage, HoldsLock, TcpInv
<1>8. CASE Unlink
  <2>1. pc'[TCP] = "clear" /\ linked' = FALSE
    BY <1>8, Goes DEF Unlink
  <2> QED BY <1>0, <1>1, <1>2, <1>3, <1>4, <2>1
       DEF DirectoryInv, RightMessage, HoldsLock, TcpInv
<1>9. CASE Clear
  <2>1. pc'[TCP] = "done"
    BY <1>0, <1>9, Returns DEF Clear, TcpInv
  <2> QED BY <1>0, <1>1, <1>2, <1>3, <1>4, <2>1
       DEF DirectoryInv, RightMessage, HoldsLock, TcpInv
<1> QED BY <1>5, <1>6, <1>7, <1>8, <1>9 DEF NotificationHandler

\* The ack handler holds no lock and leaves the hubs of the list as they are.
LEMMA AckKeeps ==
  ASSUME TypeOK, DirectoryInv, AckHandler
  PROVE  DirectoryInv'
<1> USE TwoThreads DEF Inside
<1>0. RightMessage /\ TcpInv /\ \A u \in Thread : HoldsLock(u)
  BY DEF DirectoryInv
<1>1. KeepsHubs /\ UNCHANGED <<lock, linked, told>>
  BY UpdatesKeepHubs DEF AckHandler, FindAsker, NewPort, NewAddress, list, ghosts
<1>2. OneRecordPerHub'
  BY <1>1, KeptHubs DEF DirectoryInv
<1>3. /\ pc'[TCP] = pc[TCP] /\ msg'[TCP] = msg[TCP] /\ ref'[TCP] = ref[TCP] /\ seen'[TCP] = seen[TCP]
      /\ \/ pc'[UDP] \in {"recv", "done"}
         \/ pc'[UDP] \in {"port", "address"} /\ msg'[UDP] = msg[UDP] /\ pc[UDP] \in {"find", "port"}
  <2>1. CASE Return(UDP)
    BY <2>1, Returns
  <2>2. CASE ~Return(UDP)
    <3>1. /\ UNCHANGED msg
          /\ UNCHANGED seen \/ Enumerated(UDP)
          /\ pc[UDP] \in {"find", "port"}
          /\ \E l \in {"port", "address"} : \E r : Goto(UDP, l, r)
      BY <2>2 DEF AckHandler, FindAsker, NewPort, NewAddress
    <3> QED BY <3>1, Goes, Enumerates
  <2> QED BY <2>1, <2>2
<1>4. RightMessage'
  BY <1>0, <1>3 DEF RightMessage
<1>5. HoldsLock(TCP)' /\ HoldsLock(UDP)'
  BY <1>0, <1>1, <1>3, KeptHubs DEF HoldsLock
<1>6. TcpInv'
  BY <1>0, <1>1, <1>3, UdpLeavesTcp
<1> QED BY <1>2, <1>4, <1>5, <1>6 DEF DirectoryInv

\* After the clear no step adds a second record.
LEMMA AfterClearKept ==
  ASSUME TypeOK, AfterClear, Next
  PROVE  AfterClear'
<1> USE TwoThreads
\* The UDP listener: only Add adds, and after its return the loop ends.
<1>1. ASSUME ReceiveUdp \/ InfoHandler(UDP) \/ AckHandler
      PROVE  AfterClear'
  <2>1. UNCHANGED linked /\ pc'[TCP] = pc[TCP]
    <3>1. CASE Return(UDP)
      BY <1>1, <3>1, Returns DEF ReceiveUdp, InfoHandler, Enter, Lookup, Add, Added, Update, Updated,
                                AckHandler, FindAsker, NewPort, NewAddress
    <3>2. CASE ~Return(UDP)
      <4>1. UNCHANGED linked /\ \E l, r : Goto(UDP, l, r)
        BY <1>1, <3>2 DEF ReceiveUdp, InfoHandler, Enter, Lookup, Raise, Add, Added, Update, Updated,
                          AckHandler, FindAsker, NewPort, NewAddress
      <4> QED BY <4>1, Goes
    <3> QED BY <3>1, <3>2
  <2>2. CASE Add(UDP)
    <3>1. pc[UDP] = "add" /\ pc'[UDP] = "added" /\ listed' = listed \cup {Len(recs) + 1}
      BY <2>2, Goes DEF Add
    <3> QED BY <2>1, <3>1 DEF AfterClear
  <2>3. CASE ~Add(UDP)
    <3>1. listed' = listed
      BY <1>1, <2>3 DEF ReceiveUdp, InfoHandler, Enter, Lookup, Added, Update, Updated,
                        AckHandler, FindAsker, NewPort, NewAddress, list
    <3>2. pc[UDP] \in {"added", "done"} => pc[UDP] = "added" /\ Return(UDP)
      BY <1>1, <2>3 DEF ReceiveUdp, InfoHandler, Enter, Lookup, Added, Update, Updated,
                        AckHandler, FindAsker, NewPort, NewAddress
    <3>3. pc[UDP] \in {"added", "done"} /\ ~linked => pc'[UDP] = "done"
      BY <3>2, Returns
    <3> QED BY <2>1, <3>1, <3>3 DEF AfterClear
  <2> QED BY <2>2, <2>3
\* The TCP listener: it works while the hub listens, and ends with the clear.
<1>2. ASSUME ReceiveTcp \/ InfoHandler(TCP) \/ NotificationHandler
      PROVE  AfterClear'
  <2>1. pc[TCP] # "done"
    BY <1>2 DEF ReceiveTcp, InfoHandler, Enter, Lookup, Add, Added, Update, Updated,
                NotificationHandler, FindGone, Remove, Removed, Unlink, Clear
  <2>2. CASE linked
    <3>1. CASE Unlink
      BY <3>1, Goes DEF Unlink, AfterClear
    <3>2. CASE ~Unlink
      BY <1>2, <2>2, <3>2 DEF ReceiveTcp, InfoHandler, Enter, Lookup, Add, Added, Update, Updated,
                              NotificationHandler, FindGone, Remove, Removed, Clear, AfterClear
    <3> QED BY <3>1, <3>2
  <2>3. CASE ~linked
    <3>1. Clear
      BY <1>2, <2>1, <2>3 DEF AfterClear, ReceiveTcp, InfoHandler, Enter, Lookup, Add, Added,
                              Update, Updated, NotificationHandler, FindGone, Remove, Removed, Unlink
    <3>2. pc'[TCP] = "done" /\ listed' = {}
      BY <2>3, <3>1, Returns DEF Clear
    <3> QED BY <3>2 DEF AfterClear
  <2> QED BY <2>2, <2>3
<1> QED BY <1>1, <1>2 DEF Next

------------------------------------------------------------------------------
(* The theorems.                                                           *)

\* The hub starts with an empty directory and no message.
LEMMA InvInit == Init => Inv
<1> SUFFICES ASSUME Init PROVE Inv
  OBVIOUS
<1> USE DEF Init
<1>1. TypeOK
  <2>1. << >> \in Seq(Record) /\ DOMAIN << >> = {}
    OBVIOUS
  <2>2. <<0, {}>> \in Versions
    BY DEF Versions
  <2> QED BY <2>1, <2>2 DEF TypeOK, Pc, Holding
<1>2. pc[TCP] = "recv" /\ pc[UDP] = "recv"
  BY TwoThreads
<1>3. RightMessage /\ (\A t \in Thread : HoldsLock(t)) /\ TcpInv /\ OneRecordPerHub
  BY <1>2, TwoThreads DEF RightMessage, HoldsLock, TcpInv, OneRecordPerHub, Inside
<1>4. AfterClear
  BY DEF AfterClear
<1> QED BY <1>1, <1>3, <1>4 DEF Inv, DirectoryInv

\* Every step of either listener keeps the invariant.
LEMMA InvStep == Inv /\ [Next]_vars => Inv'
<1> SUFFICES ASSUME TypeOK, DirectoryInv, AfterClear, [Next]_vars PROVE Inv'
  BY DEF Inv
<1>1. TypeOK'
  BY TypeStep DEF DirectoryInv
<1>2. DirectoryInv'
  <2>1. CASE UNCHANGED vars
    BY <2>1 DEF vars, DirectoryInv, RightMessage, HoldsLock, TcpInv, OneRecordPerHub, ById,
                Stale, Version
  <2> QED BY <2>1, ReceiveKeeps, InfoKeeps, AddKeeps, NotificationKeeps, AckKeeps DEF Next
<1>3. AfterClear'
  BY AfterClearKept DEF vars, AfterClear
<1> QED BY <1>1, <1>2, <1>3 DEF Inv

\* The invariant is inductive, so every behaviour of the directory has it.
LEMMA InvHolds == Spec => []Inv
BY InvInit, InvStep, PTL DEF Spec

\* Every variable keeps its type: no handler holds a record that was not
\* allocated, and no update stores a field of the wrong kind.
THEOREM TypeCorrect == Spec => []TypeOK
<1>1. Inv => TypeOK
  BY DEF Inv
<1> QED BY <1>1, InvHolds, PTL

\* Whatever infos the two listeners receive, and whatever is removed without
\* the lock meanwhile, no hub has two records.
THEOREM HubListedOnce == Spec => []OneRecordPerHub
<1>1. Inv => OneRecordPerHub
  BY DEF Inv, DirectoryInv
<1> QED BY <1>1, InvHolds, PTL

\* A hub whose info the TCP listener handled stays listed until the listener is
\* told that it is gone, for every number of hubs, words and datagrams.
THEOREM AnnouncedStaysListed == Spec => []AnnouncedHubIsListed
<1>1. Inv => AnnouncedHubIsListed
  BY DEF Inv, DirectoryInv, TcpInv, AnnouncedHubIsListed
<1> QED BY <1>1, InvHolds, PTL

\* After a shutdown the UDP listener leaves at most one record in the list.
THEOREM LateRecordBound == Spec => []OneLateRecordAtMost
<1>1. Inv => OneLateRecordAtMost
  <2> SUFFICES ASSUME AfterClear, ~linked, pc[TCP] # "clear" PROVE Cardinality(listed) <= 1
    BY DEF Inv, OneLateRecordAtMost
  <2>1. listed = {} \/ \E r : listed = {r}
    BY DEF AfterClear
  <2>2. CASE listed = {}
    <3>1. Cardinality(listed) = 0
      BY <2>2, FS_EmptySet
    <3> QED BY <3>1
  <2>3. CASE \E r : listed = {r}
    <3>1. Cardinality(listed) = 1
      BY <2>3, FS_Singleton
    <3> QED BY <3>1
  <2> QED BY <2>1, <2>2, <2>3
<1> QED BY <1>1, InvHolds, PTL

\* Its scan for an announced hub never throws: nothing changes the list between
\* the lock and the lookup of the TCP listener.
THEOREM TcpLookupNeverThrows == Spec => [](pc[TCP] = "lookup" => ~Stale(TCP))
<1>1. Inv => (pc[TCP] = "lookup" => ~Stale(TCP))
  BY DEF Inv, DirectoryInv, TcpInv
<1> QED BY <1>1, InvHolds, PTL

------------------------------------------------------------------------------
(* The events.                                                             *)

\* A hub's record that is listed and whose Added event is still to come, one
\* that is unlisted and whose Removed is, and the records of a hub there are.
Adding(h) == IF \E t \in Thread : pc[t] = "added" /\ msg[t].id = h THEN 1 ELSE 0
Removing(h) == IF pc[TCP] = "removed" /\ msg[TCP].id = h THEN 1 ELSE 0
InList(h) == IF ById(h) = {} THEN 0 ELSE 1

AccountInv ==
  /\ pc[TCP] = "remove" => ref[TCP] \in listed
  /\ linked => \A h \in Id : shown[h] + Adding(h) = InList(h) + Removing(h)

\* A step of one thread leaves the other where it is.
Stays(t) == \A u \in Thread \ {t} : pc'[u] = pc[u] /\ msg'[u] = msg[u] /\ ref'[u] = ref[u]

\* Where a word of the stream sends the TCP listener.
LEMMA ReceivesWord ==
  ASSUME ReceiveTcp
  PROVE  \E l \in {"enter", "find", "unlink"} : Goto(TCP, l, 0)
<1>1. PICK m \in Infos \cup Gones \cup {Shutdown} :
        CASE m.type = "INFO" ->
               Goto(TCP, "enter", 0) /\ told' = [told EXCEPT ![m.id] = "INFO"] /\ UNCHANGED seen
          [] m.type = "GONE" ->
               Goto(TCP, "find", 0) /\ told' = [told EXCEPT ![m.id] = "GONE"] /\ Enumerate(TCP)
          [] m.type = "SHUTDOWN" ->
               Goto(TCP, "unlink", 0) /\ UNCHANGED <<told, seen>>
  BY DEF ReceiveTcp
<1>2. m.type \in {"INFO", "GONE", "SHUTDOWN"}
  BY MessageKinds, InfoFields, GoneFields DEF Shutdown
<1> QED BY <1>1, <1>2

LEMMA OtherStays ==
  ASSUME TypeOK, NEW t \in Thread,
         InfoHandler(t) \/ (t = UDP /\ (ReceiveUdp \/ AckHandler))
           \/ (t = TCP /\ (ReceiveTcp \/ NotificationHandler))
  PROVE  Stays(t)
<1>1. CASE Return(t)
  BY <1>1, Returns DEF Stays
<1>2. ASSUME UNCHANGED msg, \E l, r : Goto(t, l, r)
      PROVE  Stays(t)
  BY <1>2, Goes DEF Stays
<1>3. CASE InfoHandler(t)
  BY <1>1, <1>2, <1>3 DEF InfoHandler, Enter, Lookup, Raise, Add, Added, Update, Updated
<1>4. CASE t = UDP /\ AckHandler
  BY <1>1, <1>2, <1>4 DEF AckHandler, FindAsker, NewPort, NewAddress
<1>5. CASE t = TCP /\ NotificationHandler
  BY <1>1, <1>2, <1>5 DEF NotificationHandler, FindGone, Remove, Removed, Unlink, Clear
<1>6. CASE (t = UDP /\ ReceiveUdp) \/ (t = TCP /\ ReceiveTcp)
  <2>1. \E m : msg' = [msg EXCEPT ![t] = m]
    BY <1>6 DEF ReceiveUdp, ReceiveTcp
  <2>2. \A u \in Thread \ {t} : msg'[u] = msg[u]
    BY <2>1 DEF TypeOK
  <2>3. \E l, r : Goto(t, l, r)
    <3>1. CASE t = UDP /\ ReceiveUdp
      BY <3>1 DEF ReceiveUdp
    <3>2. CASE t = TCP /\ ReceiveTcp
      BY <3>2, ReceivesWord
    <3> QED BY <1>6, <3>1, <3>2
  <2> QED BY <2>2, <2>3, Goes DEF Stays
<1> QED BY <1>3, <1>4, <1>5, <1>6

\* A step that publishes no event and changes no hub's records, of a thread that
\* has none to publish.
LEMMA NothingPublished ==
  ASSUME TypeOK, AccountInv, KeepsHubs, shown' = shown, linked' = linked,
         NEW t \in Thread, Stays(t), pc[t] \notin {"added", "removed"},
         pc'[t] \notin {"added", "removed"},
         t = TCP /\ pc'[TCP] = "remove" => ref'[TCP] \in listed
  PROVE  AccountInv'
<1> USE TwoThreads
<1>1. \A h : Adding(h)' = Adding(h) /\ Removing(h)' = Removing(h) /\ InList(h)' = InList(h)
  <2>1. \A h : ById(h)' = ById(h)
    BY KeptHubs
  <2>2. \A u \in Thread : /\ pc'[u] = "added" <=> pc[u] = "added"
                          /\ pc'[u] = "removed" <=> pc[u] = "removed"
                          /\ pc[u] \in {"added", "removed"} => msg'[u] = msg[u]
    BY DEF Stays
  <2>3. \A h : (\E u \in Thread : pc'[u] = "added" /\ msg'[u].id = h)
              <=> (\E u \in Thread : pc[u] = "added" /\ msg[u].id = h)
    BY <2>2
  <2> QED BY <2>1, <2>2, <2>3 DEF Adding, Removing, InList
<1>2. pc'[TCP] = "remove" => ref'[TCP] \in listed'
  BY DEF AccountInv, KeepsHubs, Stays
<1> QED BY <1>1, <1>2 DEF AccountInv

LEMMA InfoAccounts ==
  ASSUME TypeOK, DirectoryInv, AccountInv, NEW t \in Thread, InfoHandler(t), ~Add(t), ~Added(t)
  PROVE  AccountInv'
<1> USE TwoThreads
<1>1. KeepsHubs
  BY UpdatesKeepHubs DEF InfoHandler, Enter, Lookup, Updated, list
<1>2. UNCHANGED <<shown, linked>> /\ pc[t] \in {"enter", "lookup", "update", "updated"}
  BY DEF InfoHandler, Enter, Lookup, Update, Updated, ghosts
<1>3. pc'[t] \in {"lookup", "add", "update", "updated", "recv", "done"}
  <2>1. CASE Return(t)
    BY <2>1, Returns
  <2>2. CASE ~Return(t)
    <3>1. \E l \in {"lookup", "add", "update", "updated"} : \E r : Goto(t, l, r)
      BY <2>2 DEF InfoHandler, Enter, Lookup, Raise, Update, Updated
    <3> QED BY <3>1, Goes
  <2> QED BY <2>1, <2>2
<1> QED BY <1>1, <1>2, <1>3, OtherStays, NothingPublished

LEMMA ReceiveAccounts ==
  ASSUME TypeOK, AccountInv, ReceiveTcp \/ ReceiveUdp
  PROVE  AccountInv'
<1> USE TwoThreads
<1>1. KeepsHubs /\ UNCHANGED <<shown, linked>>
  BY UpdatesKeepHubs DEF ReceiveTcp, ReceiveUdp, list, ghosts
<1>2. CASE ReceiveUdp
  <2>1. pc[UDP] = "recv" /\ \E l \in {"enter", "find"} : Goto(UDP, l, 0)
    BY <1>2 DEF ReceiveUdp
  <2>2. pc'[UDP] \in {"enter", "find"}
    BY <2>1, Goes
  <2> QED BY <1>1, <1>2, <2>1, <2>2, OtherStays, NothingPublished
<1>3. CASE ReceiveTcp
  <2>1. pc[TCP] = "recv" /\ pc'[TCP] \in {"enter", "find", "unlink"}
    BY <1>3, ReceivesWord, Goes DEF ReceiveTcp
  <2> QED BY <1>1, <1>3, <2>1, OtherStays, NothingPublished
<1> QED BY <1>2, <1>3

LEMMA AckAccounts ==
  ASSUME TypeOK, AccountInv, AckHandler
  PROVE  AccountInv'
<1> USE TwoThreads
<1>1. KeepsHubs /\ UNCHANGED <<shown, linked>> /\ pc[UDP] \in {"find", "port", "address"}
  BY UpdatesKeepHubs DEF AckHandler, FindAsker, NewPort, NewAddress, list, ghosts
<1>2. pc'[UDP] \in {"port", "address", "recv", "done"}
  <2>1. CASE Return(UDP)
    BY <2>1, Returns
  <2>2. CASE ~Return(UDP)
    <3>1. \E l \in {"port", "address"} : \E r : Goto(UDP, l, r)
      BY <2>2 DEF AckHandler, FindAsker, NewPort, NewAddress
    <3> QED BY <3>1, Goes
  <2> QED BY <2>1, <2>2
<1> QED BY <1>1, <1>2, OtherStays, NothingPublished

\* The thread that adds is the one inside, so that no other has an Added to publish.
LEMMA AddsAccount ==
  ASSUME TypeOK, DirectoryInv, AccountInv, NEW t \in Thread, Add(t) \/ Added(t)
  PROVE  AccountInv'
<1> USE TwoThreads
<1> DEFINE g == msg[t].id
<1>0. Stays(t) /\ t \in {TCP, UDP} /\ pc[t] \in {"add", "added"} /\ linked' = linked
  BY OtherStays DEF InfoHandler, Add, Added
<1>1. /\ \A u \in Thread \ {t} : pc[u] \notin Inside
      /\ pc[t] = "add" => ById(g) = {}
  BY <1>0 DEF DirectoryInv, HoldsLock, Inside
<1>2. g \in Id
  BY <1>0, InfoFields DEF DirectoryInv, RightMessage, Inside
<1>3. pc'[t] \in {"added", "recv", "done"} /\ listed \subseteq listed'
  <2>1. CASE Add(t)
    BY <2>1, Goes DEF Add
  <2>2. CASE Added(t)
    BY <2>2, Returns DEF Added, list
  <2> QED BY <2>1, <2>2
<1>4. pc'[TCP] = "remove" => ref'[TCP] \in listed'
  BY <1>0, <1>3 DEF AccountInv, Stays
<1>5. \A h : Removing(h)' = Removing(h)
  BY <1>0, <1>3 DEF Removing, Stays
<1>6. CASE Add(t)
  <2>1. /\ pc[t] = "add" /\ pc'[t] = "added" /\ msg' = msg /\ shown' = shown
        /\ recs' = Append(recs, [id |-> g, ext |-> msg[t].ext, addrs |-> msg[t].addrs])
        /\ listed' = listed \cup {Len(recs) + 1}
    BY <1>6, Goes DEF Add, ghosts
  <2>2. /\ recs'[Len(recs) + 1].id = g /\ \A r \in DOMAIN recs : recs'[r] = recs[r]
        /\ listed \subseteq DOMAIN recs
    BY <2>1 DEF TypeOK
  <2>3. \A h : InList(h)' = IF h = g THEN 1 ELSE InList(h)
    <3>1. \A h : ById(h)' = IF h = g THEN ById(h) \cup {Len(recs) + 1} ELSE ById(h)
      BY <2>1, <2>2 DEF ById
    <3> QED BY <3>1 DEF InList
  <2>4. \A h : Adding(h) = 0 /\ Adding(h)' = IF h = g THEN 1 ELSE 0
    <3>1. \A u \in Thread : pc[u] # "added" /\ (pc'[u] = "added" <=> u = t)
      BY <1>0, <1>1, <2>1 DEF Stays, Inside
    <3> QED BY <2>1, <3>1 DEF Adding
  <2>5. InList(g) = 0
    BY <1>1, <2>1 DEF InList
  <2>6. \A h \in Id : shown[h] \in Int /\ shown'[h] = shown[h]
    BY <2>1 DEF TypeOK
  <2>7. \A h : Removing(h) \in Int /\ InList(h) \in Int
    BY DEF Removing, InList
  <2> QED BY <1>0, <1>4, <1>5, <2>3, <2>4, <2>5, <2>6, <2>7 DEF AccountInv
<1>7. CASE Added(t)
  <2>1. /\ pc[t] = "added" /\ pc'[t] # "added" /\ UNCHANGED <<recs, listed>>
        /\ shown' = [shown EXCEPT ![g] = @ + 1]
    BY <1>7, Returns DEF Added, list
  <2>2. \A h : InList(h)' = InList(h)
    BY <2>1 DEF InList, ById
  <2>3. \A h : Adding(h)' = 0 /\ Adding(h) = IF h = g THEN 1 ELSE 0
    <3>1. \A u \in Thread : pc'[u] # "added" /\ (pc[u] = "added" <=> u = t)
      BY <1>0, <1>1, <2>1 DEF Stays, Inside
    <3> QED BY <3>1 DEF Adding
  <2>4. \A h \in Id : shown[h] \in Int /\ shown'[h] = IF h = g THEN shown[h] + 1 ELSE shown[h]
    BY <2>1 DEF TypeOK
  <2>5. \A h : Removing(h) \in Int /\ InList(h) \in Int
    BY DEF Removing, InList
  <2> QED BY <1>0, <1>4, <1>5, <2>2, <2>3, <2>4, <2>5 DEF AccountInv
<1> QED BY <1>6, <1>7

\* What is removed is the hub's only record, so that the list loses the hub when
\* its Removed event is due; a shutdown ends the account.
LEMMA RemoveAccounts ==
  ASSUME TypeOK, DirectoryInv, AccountInv, NotificationHandler
  PROVE  AccountInv'
<1> USE TwoThreads
<1> DEFINE g == msg[TCP].id
<1>0. Stays(TCP) /\ TcpInv /\ OneRecordPerHub
  BY OtherStays DEF DirectoryInv
<1>1. CASE FindGone
  <2>1. KeepsHubs /\ UNCHANGED <<shown, linked>> /\ pc[TCP] = "find"
    BY <1>1, UpdatesKeepHubs DEF FindGone, list, ghosts
  <2>2. CASE Return(TCP)
    <3>1. pc'[TCP] \in {"recv", "done"}
      BY <2>2, Returns
    <3> QED BY <1>0, <2>1, <3>1, NothingPublished
  <2>3. CASE Found(g) # 0 /\ Goto(TCP, "remove", Found(g))
    <3>1. pc'[TCP] = "remove" /\ ref'[TCP] \in listed
      BY <2>3, Goes, FoundIsListed DEF ById
    <3> QED BY <1>0, <2>1, <3>1, NothingPublished
  <2> QED BY <1>1, <2>2, <2>3 DEF FindGone
<1>2. CASE Remove
  <2>1. /\ pc[TCP] = "remove" /\ pc'[TCP] = "removed" /\ msg' = msg
        /\ UNCHANGED <<recs, shown, linked>>
        /\ listed' = listed \ {ref[TCP]}
    BY <1>2, Goes DEF Remove, ghosts
  <2>2. ref[TCP] \in listed /\ recs[ref[TCP]].id = g
    BY <1>0, <2>1 DEF AccountInv, TcpInv
  <2>3. \A h : ById(h)' = ById(h) \ {ref[TCP]}
    BY <2>1 DEF ById
  <2>4. \A h : InList(h)' = IF h = g THEN 0 ELSE InList(h)
    <3>1. ById(g) = {ref[TCP]}
      BY <1>0, <2>2 DEF ById, OneRecordPerHub
    <3>2. \A h : h # g => ref[TCP] \notin ById(h)
      BY <2>2 DEF ById
    <3>3. \A h : ById(h)' = IF h = g THEN {} ELSE ById(h)
      BY <2>3, <3>1, <3>2
    <3> QED BY <3>3 DEF InList
  <2>5. InList(g) = 1
    BY <2>2 DEF InList, ById
  <2>6. \A h : Removing(h) = 0 /\ Removing(h)' = IF h = g THEN 1 ELSE 0
    BY <2>1 DEF Removing
  <2>7. \A h : Adding(h)' = Adding(h)
    BY <1>0, <2>1 DEF Adding, Stays
  <2>8. \A h : Adding(h) \in Int /\ InList(h) \in Int
    BY DEF Adding, InList
  <2>9. \A h \in Id : shown[h] \in Int /\ shown'[h] = shown[h]
    BY <2>1 DEF TypeOK
  <2> QED BY <2>1, <2>4, <2>5, <2>6, <2>7, <2>8, <2>9 DEF AccountInv
<1>3. CASE Removed
  <2>1. /\ pc[TCP] = "removed" /\ pc'[TCP] \in {"recv", "done"}
        /\ UNCHANGED <<recs, listed, linked>>
        /\ shown' = [shown EXCEPT ![g] = @ - 1]
    BY <1>3, Returns DEF Removed, list
  <2>2. \A h : InList(h)' = InList(h)
    BY <2>1 DEF InList, ById
  <2>3. \A h : Removing(h)' = 0 /\ Removing(h) = IF h = g THEN 1 ELSE 0
    BY <2>1 DEF Removing
  <2>4. \A h : Adding(h)' = Adding(h)
    BY <1>0, <2>1 DEF Adding, Stays
  <2>5. \A h : Adding(h) \in Int /\ InList(h) \in Int
    BY DEF Adding, InList
  <2>6. \A h \in Id : shown[h] \in Int /\ shown'[h] = IF h = g THEN shown[h] - 1 ELSE shown[h]
    BY <2>1 DEF TypeOK
  <2> QED BY <2>1, <2>2, <2>3, <2>4, <2>5, <2>6 DEF AccountInv
<1>4. CASE Unlink
  <2>1. ~linked' /\ pc'[TCP] = "clear"
    BY <1>4, Goes DEF Unlink
  <2> QED BY <2>1 DEF AccountInv
<1>5. CASE Clear
  <2>1. ~linked' /\ pc'[TCP] = "done"
    BY <1>0, <1>5, Returns DEF Clear, TcpInv
  <2> QED BY <2>1 DEF AccountInv
<1> QED BY <1>1, <1>2, <1>3, <1>4, <1>5 DEF NotificationHandler

LEMMA AccountInit == Init => AccountInv
<1> SUFFICES ASSUME Init PROVE AccountInv
  OBVIOUS
<1>1. \A t \in Thread : pc[t] = "recv"
  BY DEF Init
<1>2. \A h : Adding(h) = 0 /\ Removing(h) = 0 /\ InList(h) = 0
  BY <1>1, TwoThreads DEF Init, Adding, Removing, InList, ById
<1>3. \A h \in Id : shown[h] = 0
  BY DEF Init
<1> QED BY <1>1, <1>2, <1>3, TwoThreads DEF AccountInv

LEMMA AccountStep == Inv /\ AccountInv /\ [Next]_vars => AccountInv'
<1> SUFFICES ASSUME TypeOK, DirectoryInv, AccountInv, [Next]_vars PROVE AccountInv'
  BY DEF Inv
<1>1. CASE UNCHANGED vars
  BY <1>1 DEF vars, AccountInv, Adding, Removing, InList, ById
<1>2. ASSUME NEW t \in Thread, InfoHandler(t)
      PROVE  AccountInv'
  BY <1>2, InfoAccounts, AddsAccount
<1> QED BY <1>1, <1>2, ReceiveAccounts, AckAccounts, RemoveAccounts DEF Next

\* Whatever the order in which the two listeners publish, until a shutdown a
\* browser that counts the Added and Removed events of a hub ends with its
\* record when it is listed, and with none when it is not.
THEOREM EventsAccount == Spec => []EventsAccountForList
<1>1. Inv /\ AccountInv => EventsAccountForList
  <2> SUFFICES ASSUME TypeOK, OneRecordPerHub, AccountInv, Quiet, linked, NEW h \in Id
               PROVE  shown[h] = Cardinality(ById(h))
    BY DEF Inv, DirectoryInv, EventsAccountForList
  <2>1. Adding(h) = 0 /\ Removing(h) = 0
    BY TwoThreads DEF Quiet, Adding, Removing
  <2>2. shown[h] = InList(h)
    <3>1. InList(h) \in Int /\ shown[h] \in Int
      BY DEF InList, TypeOK
    <3> QED BY <2>1, <3>1 DEF AccountInv
  <2>3. CASE ById(h) = {}
    BY <2>2, <2>3, FS_EmptySet DEF InList
  <2>4. CASE ById(h) # {}
    <3>1. PICK r : ById(h) = {r}
      BY <2>4 DEF ById, OneRecordPerHub
    <3>2. Cardinality(ById(h)) = 1
      BY <3>1, FS_Singleton
    <3> QED BY <2>2, <2>4, <3>2 DEF InList
  <2> QED BY <2>3, <2>4
<1>2. Spec => [](Inv /\ AccountInv)
  <2>1. Inv /\ AccountInv /\ [Next]_vars => (Inv /\ AccountInv)'
    BY InvStep, AccountStep
  <2> QED BY InvInit, AccountInit, <2>1, PTL DEF Spec
<1> QED BY <1>1, <1>2, PTL

------------------------------------------------------------------------------
(* The page.                                                               *)

\* The hubs whose Added event is published and whose Removed event is not.
Published == {h \in Id : shown[h] > 0}

\* f[k] is what a page may show before it handles the event wire[k]; once it
\* handled them all, that is every hub there is an event for.
Explains(f) ==
  /\ f[Len(wire) + 1] = Published
  /\ \A k \in 1..Len(wire) :
       LET h == wire[k].id IN
       /\ wire[k].name = "ADDED" => h \notin f[k] /\ f[k + 1] = f[k] \cup {h}
       /\ wire[k].name = "REMOVED" => f[k + 1] = f[k] \ {h}
       /\ wire[k].name = "UPDATED" => f[k + 1] = f[k]

ShownOnce == \A i, j \in DOMAIN peers : peers[i] = peers[j] => i = j

PageType ==
  /\ conn \in {"closed", "starting", "open", "waiting"}
  /\ wire \in Seq(Events)
  /\ peers \in Seq(Id)
  /\ conn = "starting" => wire = << >> /\ peers = << >>

\* Without datagrams nobody adds or removes behind the TCP listener's back:
\* the hub is listed when it publishes Added, and not when it publishes Removed.
StreamInv ==
  datagrams = 0 =>
    /\ pc[UDP] = "recv"
    /\ linked /\ pc[TCP] = "added" => ById(msg[TCP].id) # {}
    /\ linked /\ pc[TCP] = "removed" => ById(msg[TCP].id) = {}

\* Whatever an open page was late for, what is on its way explains the rest.
PageInv ==
  datagrams = 0 /\ linked /\ conn = "open" =>
    /\ ShownOnce
    /\ \E f \in [1..Len(wire) + 1 -> SUBSET Id] : Explains(f) /\ Shown \subseteq f[1]

\* A step of the directory without datagrams is the TCP listener's.
LEMMA StreamOnly ==
  ASSUME Inv, StreamInv, Next, datagrams' = 0
  PROVE  /\ datagrams = 0 /\ pc[UDP] = "recv"
         /\ ReceiveTcp \/ InfoHandler(TCP) \/ NotificationHandler
         /\ Stays(TCP)
<1> USE TwoThreads
<1>0. TypeOK /\ RightMessage
  BY DEF Inv, DirectoryInv
<1>1. datagrams = 0
  <2>1. datagrams' = datagrams \/ datagrams' = datagrams + 1
    BY DEF Next, ReceiveTcp, ReceiveUdp, InfoHandler, Enter, Lookup, Add, Added, Update,
           Updated, NotificationHandler, FindGone, Remove, Removed, Unlink, Clear,
           AckHandler, FindAsker, NewPort, NewAddress, counts
  <2> QED BY <1>0, <2>1 DEF TypeOK
<1>2. pc[UDP] = "recv"
  BY <1>1 DEF StreamInv
<1>3. ~ReceiveUdp
  BY <1>1 DEF ReceiveUdp
<1>4. ~InfoHandler(UDP) /\ ~AckHandler
  BY <1>2 DEF InfoHandler, Enter, Lookup, Add, Added, Update, Updated,
              AckHandler, FindAsker, NewPort, NewAddress
<1>5. ReceiveTcp \/ InfoHandler(TCP) \/ NotificationHandler
  BY <1>3, <1>4 DEF Next
<1> QED BY <1>0, <1>1, <1>2, <1>5, OtherStays

\* Only Add and Remove go where an event is due.
LEMMA StreamStep == Inv /\ AccountInv /\ StreamInv /\ [Next]_vars => StreamInv'
<1> SUFFICES ASSUME Inv, AccountInv, StreamInv, [Next]_vars, datagrams' = 0
             PROVE  /\ pc'[UDP] = "recv"
                    /\ linked' /\ pc'[TCP] = "added" => ById(msg[TCP].id)' # {}
                    /\ linked' /\ pc'[TCP] = "removed" => ById(msg[TCP].id)' = {}
  BY DEF StreamInv
<1> USE TwoThreads
<1>0. TypeOK /\ DirectoryInv
  BY DEF Inv
<1>1. CASE UNCHANGED vars
  BY <1>1 DEF vars, StreamInv, ById
<1>2. CASE Next
  <2>1. /\ datagrams = 0 /\ pc[UDP] = "recv"
        /\ ReceiveTcp \/ InfoHandler(TCP) \/ NotificationHandler
        /\ Stays(TCP)
    BY <1>2, StreamOnly
  <2>2. pc'[UDP] = "recv"
    BY <2>1 DEF Stays
  <2>3. CASE Add(TCP)
    <3>1. /\ pc'[TCP] = "added" /\ msg' = msg
          /\ recs' = Append(recs, [id |-> msg[TCP].id, ext |-> msg[TCP].ext,
                                   addrs |-> msg[TCP].addrs])
          /\ listed' = listed \cup {Len(recs) + 1}
      BY <1>0, <2>3, Goes DEF Add
    <3>2. recs'[Len(recs) + 1].id = msg[TCP].id
      BY <1>0, <3>1 DEF TypeOK
    <3>3. Len(recs) + 1 \in ById(msg[TCP].id)'
      BY <3>1, <3>2 DEF ById
    <3> QED BY <2>2, <3>1, <3>3
  <2>4. CASE Remove
    <3>1. /\ pc[TCP] = "remove" /\ pc'[TCP] = "removed" /\ msg' = msg
          /\ recs' = recs /\ listed' = listed \ {ref[TCP]}
      BY <1>0, <2>4, Goes DEF Remove
    <3>2. ref[TCP] \in listed /\ recs[ref[TCP]].id = msg[TCP].id
      BY <1>0, <3>1 DEF AccountInv, DirectoryInv, TcpInv
    <3>3. ById(msg[TCP].id)' = {}
      BY <1>0, <3>1, <3>2 DEF ById, DirectoryInv, OneRecordPerHub
    <3> QED BY <2>2, <3>1, <3>3
  <2>5. CASE ~Add(TCP) /\ ~Remove
    <3>1. CASE Return(TCP)
      BY <1>0, <2>2, <3>1, Returns
    <3>2. ASSUME NEW l, NEW r, Goto(TCP, l, r), l \notin {"added", "removed"}
          PROVE  pc'[TCP] \notin {"added", "removed"}
      BY <1>0, <3>2, Goes
    <3>3. CASE InfoHandler(TCP)
      BY <2>2, <2>5, <3>1, <3>2, <3>3
         DEF InfoHandler, Enter, Lookup, Raise, Added, Update, Updated
    <3>4. CASE NotificationHandler
      BY <2>2, <2>5, <3>1, <3>2, <3>4
         DEF NotificationHandler, FindGone, Removed, Unlink, Clear
    <3>5. CASE ReceiveTcp
      BY <2>2, <3>2, <3>5, ReceivesWord
    <3> QED BY <2>1, <3>3, <3>4, <3>5
  <2> QED BY <2>3, <2>4, <2>5
<1> QED BY <1>1, <1>2

\* What an event does to the hubs there is one for: the Added of a hub is never
\* published twice in a row.
LEMMA EventsPublish ==
  ASSUME Inv, AccountInv, StreamInv, datagrams = 0, linked
  PROVE  /\ Added(TCP) => /\ msg[TCP].id \in Id \ Published
                          /\ Published' = Published \cup {msg[TCP].id}
         /\ Removed => /\ msg[TCP].id \in Id
                       /\ Published' = Published \ {msg[TCP].id}
         /\ shown' = shown => Published' = Published
<1> USE TwoThreads
<1> DEFINE g == msg[TCP].id
<1>0. /\ TypeOK /\ RightMessage
      /\ \A h \in Id : shown[h] \in Int
      /\ \A h \in Id : shown[h] + Adding(h) = InList(h) + Removing(h)
  BY DEF Inv, DirectoryInv, TypeOK, AccountInv
<1>1. CASE Added(TCP)
  <2>1. pc[TCP] = "added" /\ shown' = [shown EXCEPT ![g] = @ + 1]
    BY <1>1 DEF Added
  <2>2. g \in Id
    BY <1>0, <2>1, InfoFields DEF RightMessage, Inside
  <2>3. Adding(g) = 1 /\ Removing(g) = 0 /\ InList(g) = 1
    BY <2>1 DEF Adding, Removing, InList, StreamInv
  <2>4. shown[g] = 0
    BY <1>0, <2>2, <2>3
  <2>5. \A h \in Id : shown'[h] = IF h = g THEN 1 ELSE shown[h]
    BY <1>0, <2>1, <2>4 DEF TypeOK
  <2>6. \A h \in Id : shown'[h] > 0 <=> h = g \/ shown[h] > 0
    BY <2>5
  <2>7. g \notin Published
    BY <2>4 DEF Published
  <2>8. Published' = Published \cup {g}
    BY <2>2, <2>6 DEF Published
  <2>9. ~Removed
    BY <2>1 DEF Removed
  <2>10. shown' # shown
    BY <2>2, <2>4, <2>5
  <2> QED BY <2>2, <2>7, <2>8, <2>9, <2>10
<1>2. CASE Removed
  <2>1. pc[TCP] = "removed" /\ shown' = [shown EXCEPT ![g] = @ - 1]
    BY <1>2 DEF Removed
  <2>2. g \in Id
    BY <1>0, <2>1, GoneFields DEF RightMessage
  <2>3. Adding(g) = 0 /\ Removing(g) = 1 /\ InList(g) = 0
    BY <2>1 DEF Adding, Removing, InList, StreamInv
  <2>4. shown[g] = 1
    BY <1>0, <2>2, <2>3
  <2>5. \A h \in Id : shown'[h] = IF h = g THEN 0 ELSE shown[h]
    BY <1>0, <2>1, <2>4 DEF TypeOK
  <2>6. \A h \in Id : shown'[h] > 0 <=> h # g /\ shown[h] > 0
    BY <2>5
  <2>8. Published' = Published \ {g}
    BY <2>6 DEF Published
  <2>9. ~Added(TCP)
    BY <2>1 DEF Added
  <2>10. shown' # shown
    BY <2>2, <2>4, <2>5
  <2> QED BY <2>2, <2>8, <2>9, <2>10
<1>3. shown' = shown => Published' = Published
  BY DEF Published
<1> QED BY <1>1, <1>2, <1>3

\* An event that is written explains what it says of its hub.
LEMMA WriteExplains ==
  ASSUME PageType, NEW n \in {"ADDED", "REMOVED", "UPDATED"}, NEW h \in Id,
         wire' = Append(wire, Event(n, h)), peers' = peers,
         NEW f \in [1..Len(wire) + 1 -> SUBSET Id], Explains(f), Shown \subseteq f[1],
         n = "ADDED" => h \notin Published /\ Published' = Published \cup {h},
         n = "REMOVED" => Published' = Published \ {h},
         n = "UPDATED" => Published' = Published
  PROVE  \E g \in [1..Len(wire') + 1 -> SUBSET Id] : Explains(g)' /\ Shown' \subseteq g[1]
<1> DEFINE m == Len(wire)
<1>1. m \in Nat /\ wire \in Seq(Events) /\ Event(n, h) \in Events
  BY DEF PageType, Event, Events
<1>2. /\ Len(wire') = m + 1
      /\ wire'[m + 1] = Event(n, h)
      /\ \A k \in 1..m : wire'[k] = wire[k]
  BY <1>1
<1>3. Published' \subseteq Id
  BY DEF Published
<1>4. PICK g \in [1..m + 2 -> SUBSET Id] :
        g = [k \in 1..m + 2 |-> IF k = m + 2 THEN Published' ELSE f[k]]
  <2>1. \A k \in 1..m + 2 : (IF k = m + 2 THEN Published' ELSE f[k]) \in SUBSET Id
    <3>1. \A k \in 1..m + 2 : k # m + 2 => k \in 1..m + 1
      BY <1>1
    <3> QED BY <1>3, <3>1
  <2> QED BY <2>1
<1>5. /\ g[m + 2] = Published'
      /\ \A k \in 1..m + 1 : g[k] = f[k]
  BY <1>1, <1>4
<1>6. f[m + 1] = Published
  BY DEF Explains
<1>7. ASSUME NEW k \in 1..m + 1
      PROVE  /\ wire'[k].name = "ADDED" => /\ wire'[k].id \notin g[k]
                                           /\ g[k + 1] = g[k] \cup {wire'[k].id}
             /\ wire'[k].name = "REMOVED" => g[k + 1] = g[k] \ {wire'[k].id}
             /\ wire'[k].name = "UPDATED" => g[k + 1] = g[k]
  <2>1. CASE k = m + 1
    <3>1. wire'[k] = Event(n, h) /\ g[k] = Published /\ g[k + 1] = Published'
      BY <1>1, <1>2, <1>5, <1>6, <2>1
    <3> QED BY <3>1 DEF Event
  <2>2. CASE k # m + 1
    <3>1. k \in 1..m /\ k + 1 \in 1..m + 1
      BY <1>1, <2>2
    <3>2. wire'[k] = wire[k] /\ g[k] = f[k] /\ g[k + 1] = f[k + 1]
      BY <1>2, <1>5, <3>1
    <3> QED BY <3>1, <3>2 DEF Explains
  <2> QED BY <2>1, <2>2
<1>8. Explains(g)'
  <2>1. Len(wire') + 1 = m + 2
    BY <1>1, <1>2
  <2>2. g[Len(wire') + 1] = Published'
    BY <1>5, <2>1
  <2> HIDE DEF m
  <2> QED BY <1>2, <1>7, <2>2 DEF Explains
<1>9. Shown' \subseteq g[1]
  <2>1. 1 \in 1..m + 1
    BY <1>1
  <2> QED BY <1>5, <2>1 DEF Shown
<1>10. g \in [1..Len(wire') + 1 -> SUBSET Id]
  BY <1>1, <1>2, <1>4
<1> QED BY <1>8, <1>9, <1>10

\* What the page's list helpers return when no hub is shown twice.
LEMMA FindsIndex ==
  ASSUME PageType, NEW h
  PROVE  \/ FindIndex(h) = -1 /\ \A i \in DOMAIN peers : peers[i] # h
         \/ /\ FindIndex(h) + 1 \in DOMAIN peers
            /\ peers[FindIndex(h) + 1] = h
            /\ \A i \in 1..FindIndex(h) : peers[i] # h
<1> DEFINE at == {i \in DOMAIN peers : peers[i] = h}
<1>1. DOMAIN peers \subseteq Nat /\ DOMAIN peers = 1..Len(peers) /\ Len(peers) \in Nat
  BY DEF PageType
<1>2. CASE at = {}
  BY <1>2 DEF FindIndex
<1>3. CASE at # {}
  <2>1. Min(at) \in at /\ \A i \in at : Min(at) <= i
    BY <1>1, <1>3, MinIsMember
  <2>2. FindIndex(h) = Min(at) - 1
    BY <1>3 DEF FindIndex
  <2>3. Min(at) \in 1..Len(peers) /\ FindIndex(h) + 1 = Min(at)
    BY <1>1, <2>1, <2>2
  <2>4. \A i \in 1..FindIndex(h) : i \in DOMAIN peers /\ ~(Min(at) <= i)
    BY <1>1, <2>2, <2>3
  <2> QED BY <2>1, <2>3, <2>4
<1> QED BY <1>2, <1>3

\* splice cuts the list before the hub, or cuts its last element when the hub is
\* not shown: what is left is a prefix without it.
LEMMA SpliceDrops ==
  ASSUME PageType, NEW h
  PROVE  \E m \in 0..Len(peers) :
           /\ Splice(FindIndex(h)) = SubSeq(peers, 1, m)
           /\ \A i \in 1..m : peers[i] # h
<1> DEFINE i == FindIndex(h)
<1>1. Len(peers) \in Nat /\ DOMAIN peers = 1..Len(peers) /\ peers \in Seq(Id)
  BY DEF PageType
<1>2. CASE i = -1 /\ \A k \in DOMAIN peers : peers[k] # h
  <2>1. Splice(i) = SubSeq(peers, 1, Len(peers) - 1)
    BY <1>2 DEF Splice
  <2>2. CASE Len(peers) = 0
    <3>1. Splice(i) = << >> /\ SubSeq(peers, 1, 0) = << >>
      BY <2>1, <2>2, SubSeqEmpty
    <3> QED BY <1>1, <3>1
  <2>3. CASE Len(peers) # 0
    <3>1. Len(peers) - 1 \in 0..Len(peers)
      BY <1>1, <2>3
    <3>2. \A k \in 1..Len(peers) - 1 : peers[k] # h
      BY <1>1, <1>2
    <3> QED BY <2>1, <3>1, <3>2
  <2> QED BY <2>2, <2>3
<1>3. CASE i + 1 \in DOMAIN peers /\ \A k \in 1..i : peers[k] # h
  <2>0. i \in Int
    <3>1. i = -1 \/ i \in Int
      <4>1. \A S : S \subseteq Nat /\ S # {} => Min(S) \in Nat
        BY MinIsMember
      <4>2. {k \in DOMAIN peers : peers[k] = h} \subseteq Nat
        BY <1>1
      <4> QED BY <4>1, <4>2 DEF FindIndex
    <3> QED BY <3>1
  <2>1. i \in 0..Len(peers) /\ i # -1
    BY <1>1, <1>3, <2>0
  <2>2. Splice(i) = SubSeq(peers, 1, i)
    BY <2>1 DEF Splice
  <2> QED BY <1>3, <2>1, <2>2
<1> HIDE DEF i
<1> QED BY <1>2, <1>3, FindsIndex DEF i

\* An update in place keeps the list: it replaces a hub by itself.
LEMMA ReplaceKeeps ==
  ASSUME PageType, NEW h
  PROVE  Replace(FindIndex(h), h) = peers
<1> DEFINE i == FindIndex(h)
<1>1. DOMAIN peers = 1..Len(peers) /\ peers \in Seq(Id) /\ peers = [k \in DOMAIN peers |-> peers[k]]
  BY DEF PageType
<1>2. (i + 1 \in DOMAIN peers /\ peers[i + 1] = h) \/ i + 1 \notin DOMAIN peers
  BY <1>1, FindsIndex
<1> HIDE DEF i
<1>3. [peers EXCEPT ![i + 1] = h] = peers
  BY <1>1, <1>2
<1> QED BY <1>3 DEF Replace, i

\* What the page's handler does to its list, for each event.
LEMMA Receives ==
  ASSUME PageType, Receive
  PROVE  LET e == Head(wire) IN
         /\ e \in Events
         /\ e.name = "ADDED" => peers' = Append(peers, e.id)
         /\ e.name = "REMOVED" => \E m \in 0..Len(peers) :
                                    /\ peers' = SubSeq(peers, 1, m)
                                    /\ \A i \in 1..m : peers[i] # e.id
         /\ e.name = "UPDATED" => peers' = peers
<1> DEFINE e == Head(wire)
<1>1. wire \in Seq(Events) /\ wire # << >>
  BY DEF PageType, Receive
<1>2. e \in Events
  BY <1>1, HeadTailProperties
<1>3. peers' = CASE e.name = "ADDED" -> Append(peers, e.id)
                 [] e.name = "REMOVED" -> Splice(FindIndex(e.id))
                 [] e.name = "UPDATED" -> Replace(FindIndex(e.id), e.id)
  BY DEF Receive
<1> HIDE DEF e
<1>4. /\ e.name = "ADDED" => peers' = Append(peers, e.id)
      /\ e.name = "REMOVED" => peers' = Splice(FindIndex(e.id))
      /\ e.name = "UPDATED" => peers' = Replace(FindIndex(e.id), e.id)
  BY <1>3
<1> QED BY <1>2, <1>4, SpliceDrops, ReplaceKeeps DEF e

\* A prefix of a list without a repetition has none, and shows no other hub.
LEMMA PrefixShows ==
  ASSUME PageType, NEW m \in 0..Len(peers), peers' = SubSeq(peers, 1, m)
  PROVE  /\ peers' \in Seq(Id) /\ DOMAIN peers' = 1..m
         /\ \A i \in 1..m : i \in DOMAIN peers /\ peers'[i] = peers[i]
<1>1. peers \in Seq(Id) /\ DOMAIN peers = 1..Len(peers) /\ Len(peers) \in Nat
  BY DEF PageType
<1>2. m \in Int /\ \A i \in 1..m : i \in DOMAIN peers /\ peers[i] \in Id
  BY <1>1
<1>3. /\ peers' \in Seq(Id) /\ Len(peers') = (IF 1 <= m THEN m - 1 + 1 ELSE 0)
      /\ \A i \in 1..m - 1 + 1 : peers'[i] = peers[1 + i - 1]
  BY <1>2, SubSeqProperties
<1>4. Len(peers') = m
  BY <1>3
<1>5. m - 1 + 1 = m /\ \A i \in 1..m : 1 + i - 1 = i
  OBVIOUS
<1> QED BY <1>2, <1>3, <1>4, <1>5

\* An event that is handled leaves the page with what it may show next.
LEMMA ReceiveExplains ==
  ASSUME PageType, Receive, Published' = Published, ShownOnce,
         NEW f \in [1..Len(wire) + 1 -> SUBSET Id], Explains(f), Shown \subseteq f[1]
  PROVE  /\ ShownOnce'
         /\ \E g \in [1..Len(wire') + 1 -> SUBSET Id] : Explains(g)' /\ Shown' \subseteq g[1]
<1> DEFINE e == Head(wire)
           m == Len(wire)
<1>1. /\ wire \in Seq(Events) /\ wire # << >> /\ m \in Nat \ {0}
      /\ wire' = Tail(wire) /\ e = wire[1]
  BY DEF PageType, Receive
<1>2. /\ Len(wire') = m - 1
      /\ \A k \in 1..m - 1 : wire'[k] = wire[k + 1]
  BY <1>1
<1>3. PICK g \in [1..m -> SUBSET Id] : g = [k \in 1..m |-> f[k + 1]]
  <2>1. \A k \in 1..m : k + 1 \in 1..m + 1
    BY <1>1
  <2> QED BY <2>1
<1>4. \A k \in 1..m : g[k] = f[k + 1]
  BY <1>3
<1>5. g \in [1..Len(wire') + 1 -> SUBSET Id] /\ Len(wire') + 1 = m
  BY <1>1, <1>2
<1>6. Explains(g)'
  <2>1. g[Len(wire') + 1] = Published'
    <3>1. m \in 1..m
      BY <1>1
    <3> QED BY <1>4, <1>5, <3>1 DEF Explains
  <2>2. ASSUME NEW k \in 1..m - 1
        PROVE  /\ wire'[k] = wire[k + 1] /\ k + 1 \in 1..m
               /\ g[k] = f[k + 1] /\ g[k + 1] = f[k + 1 + 1]
    <3>1. k \in 1..m /\ k + 1 \in 1..m
      BY <1>1
    <3> QED BY <1>2, <1>4, <3>1
  <2> HIDE DEF m
  <2>3. \A k \in 1..Len(wire') :
          /\ wire'[k].name = "ADDED" => /\ wire'[k].id \notin g[k]
                                        /\ g[k + 1] = g[k] \cup {wire'[k].id}
          /\ wire'[k].name = "REMOVED" => g[k + 1] = g[k] \ {wire'[k].id}
          /\ wire'[k].name = "UPDATED" => g[k + 1] = g[k]
    BY <1>2, <2>2 DEF Explains, m
  <2> QED BY <2>1, <2>3 DEF Explains
<1>7. /\ e \in Events
      /\ e.name = "ADDED" => e.id \notin f[1] /\ g[1] = f[1] \cup {e.id}
      /\ e.name = "REMOVED" => g[1] = f[1] \ {e.id}
      /\ e.name = "UPDATED" => g[1] = f[1]
  <2>1. 1 \in 1..m /\ g[1] = f[1 + 1]
    BY <1>1, <1>4
  <2> QED BY <1>1, <2>1, Receives DEF Explains
<1>8. ShownOnce' /\ Shown' \subseteq g[1]
  <2>1. CASE e.name = "ADDED"
    <3>1. peers' = Append(peers, e.id) /\ e.id \notin Shown /\ peers \in Seq(Id)
      BY <1>7, <2>1, Receives DEF PageType
    <3>2. /\ DOMAIN peers = 1..Len(peers) /\ DOMAIN peers' = 1..Len(peers) + 1
          /\ Len(peers) \in Nat
          /\ peers'[Len(peers) + 1] = e.id
          /\ \A i \in DOMAIN peers : peers'[i] = peers[i] /\ peers[i] # e.id
      BY <3>1 DEF Shown
    <3>3. \A i \in DOMAIN peers' : i \in DOMAIN peers \/ i = Len(peers) + 1
      BY <3>2
    <3>4. ShownOnce'
      BY <3>2, <3>3 DEF ShownOnce
    <3>5. Shown' \subseteq Shown \cup {e.id}
      BY <3>2, <3>3 DEF Shown
    <3> QED BY <1>7, <2>1, <3>4, <3>5
  <2>2. CASE e.name = "REMOVED"
    <3>1. PICK j \in 0..Len(peers) : /\ peers' = SubSeq(peers, 1, j)
                                     /\ \A i \in 1..j : peers[i] # e.id
      BY <2>2, Receives
    <3>2. /\ DOMAIN peers' = 1..j
          /\ \A i \in 1..j : i \in DOMAIN peers /\ peers'[i] = peers[i]
      BY <3>1, PrefixShows
    <3>3. ShownOnce'
      BY <3>2 DEF ShownOnce
    <3>4. Shown' \subseteq Shown \ {e.id}
      BY <3>1, <3>2 DEF Shown
    <3> QED BY <1>7, <2>2, <3>3, <3>4
  <2>3. CASE e.name = "UPDATED"
    <3>1. peers' = peers
      BY <2>3, Receives
    <3> QED BY <1>7, <2>3, <3>1 DEF ShownOnce, Shown
  <2> QED BY <1>7, <2>1, <2>2, <2>3 DEF Events
<1> QED BY <1>5, <1>6, <1>8

\* Every step beside the page's own is one of the directory, or none of its.
LEMMA BrowserSteps == BrowserNext => Next \/ (PageStep /\ UNCHANGED vars)
BY DEF BrowserNext, HubStep, PageStep, HubPublishes, HubWorks, PublishAdded, PublishUpdated,
       PublishNewPort, PublishRemoved, Next, InfoHandler, NotificationHandler, AckHandler,
       Load, Started, StartFails, Retry, Lose, Receive

\* The event that a thread publishes names a hub.
LEMMA PublishesHub ==
  ASSUME Inv
  PROVE  /\ \A t \in Thread : Added(t) \/ Updated(t) => msg[t].id \in Id
         /\ NewPort => msg[UDP].id \in Id
         /\ Removed => msg[TCP].id \in Id
BY InfoFields, AckFields, GoneFields
   DEF Inv, DirectoryInv, RightMessage, Inside, Added, Updated, NewPort, Removed

LEMMA PageTypeStep == Inv /\ PageType /\ [BrowserNext]_allVars => PageType'
<1> SUFFICES ASSUME Inv, PageType, [BrowserNext]_allVars PROVE PageType'
  OBVIOUS
<1>1. ASSUME NEW n \in {"ADDED", "REMOVED", "UPDATED"}, NEW h \in Id, SendAsync(n, h)
      PROVE  PageType'
  <2>1. Event(n, h) \in Events
    BY DEF Event, Events
  <2> QED BY <1>1, <2>1 DEF SendAsync, PageType
<1>2. CASE HubPublishes
  BY <1>1, <1>2, PublishesHub
     DEF HubPublishes, PublishAdded, PublishUpdated, PublishNewPort, PublishRemoved
<1>3. CASE UNCHANGED page
  BY <1>3 DEF page, PageType
<1>4. CASE Load \/ Started \/ StartFails \/ Retry \/ Lose
  <2>1. << >> \in Seq(Events) /\ << >> \in Seq(Id)
    OBVIOUS
  <2> QED BY <1>4, <2>1 DEF Load, Started, StartFails, Retry, Lose, PageType
<1>5. CASE Receive
  <2>1. conn' = "open" /\ wire' = Tail(wire) /\ wire \in Seq(Events) /\ wire # << >>
    BY <1>5 DEF Receive, PageType
  <2>2. wire' \in Seq(Events)
    BY <2>1, HeadTailProperties
  <2>3. peers' \in Seq(Id)
    <3>1. Head(wire).id \in Id /\ Head(wire).name \in {"ADDED", "REMOVED", "UPDATED"}
      BY <1>5, Receives DEF Events
    <3>2. peers \in Seq(Id)
      BY DEF PageType
    <3> QED BY <1>5, <3>1, <3>2, Receives, PrefixShows
  <2> QED BY <2>1, <2>2, <2>3 DEF PageType
<1> QED BY <1>2, <1>3, <1>4, <1>5 DEF BrowserNext, HubStep, PageStep, HubWorks, allVars, page

\* A step of the directory writes what it publishes, and nothing else.
LEMMA HubExplains ==
  ASSUME Inv, AccountInv, StreamInv, PageType, PageInv, HubStep,
         datagrams = 0, linked, conn = "open"
  PROVE  /\ ShownOnce'
         /\ \E g \in [1..Len(wire') + 1 -> SUBSET Id] : Explains(g)' /\ Shown' \subseteq g[1]
<1>1. PICK f \in [1..Len(wire) + 1 -> SUBSET Id] : Explains(f) /\ Shown \subseteq f[1]
  BY DEF PageInv
<1>2. ShownOnce /\ pc[UDP] = "recv"
  BY DEF PageInv, StreamInv
<1>3. peers' = peers
  BY DEF HubStep, HubPublishes, HubWorks, PublishAdded, PublishUpdated, PublishNewPort,
         PublishRemoved, SendAsync, page
<1>4. ShownOnce'
  BY <1>2, <1>3 DEF ShownOnce
<1>5. ASSUME NEW n \in {"ADDED", "REMOVED", "UPDATED"}, NEW h \in Id, SendAsync(n, h),
             n = "ADDED" => h \notin Published /\ Published' = Published \cup {h},
             n = "REMOVED" => Published' = Published \ {h},
             n = "UPDATED" => Published' = Published
      PROVE  \E g \in [1..Len(wire') + 1 -> SUBSET Id] : Explains(g)' /\ Shown' \subseteq g[1]
  <2>1. wire' = Append(wire, Event(n, h))
    BY <1>5 DEF SendAsync
  <2> QED BY <1>1, <1>3, <1>5, <2>1, WriteExplains
<1>6. CASE PublishAdded
  <2>1. Added(TCP) /\ SendAsync("ADDED", msg[TCP].id)
    BY <1>2, <1>6, TwoThreads DEF PublishAdded, Added
  <2> QED BY <1>4, <1>5, <2>1, EventsPublish
<1>7. CASE PublishUpdated
  <2>1. PICK t \in Thread : Updated(t) /\ SendAsync("UPDATED", msg[t].id)
    BY <1>7 DEF PublishUpdated
  <2>2. msg[t].id \in Id /\ shown' = shown
    BY <2>1, PublishesHub DEF Updated
  <2> QED BY <1>4, <1>5, <2>1, <2>2, EventsPublish
<1>8. CASE PublishRemoved
  BY <1>4, <1>5, <1>8, EventsPublish DEF PublishRemoved
<1>9. CASE HubWorks
  <2>1. UNCHANGED <<wire, peers>>
    BY <1>9 DEF HubWorks, page
  <2>2. shown' = shown
    BY <1>9 DEF HubWorks, ghosts, ReceiveTcp, ReceiveUdp, Enter, Lookup, Add, Update,
                FindGone, Remove, Unlink, Clear, FindAsker, NewAddress
  <2>3. Published' = Published
    BY <2>2, EventsPublish
  <2>4. Explains(f)'
    BY <1>1, <2>1, <2>3 DEF Explains
  <2>5. Shown' \subseteq f[1]
    BY <1>1, <2>1 DEF Shown
  <2>6. f \in [1..Len(wire') + 1 -> SUBSET Id]
    BY <1>1, <2>1
  <2> QED BY <1>4, <2>4, <2>5, <2>6
<1>10. ~PublishNewPort
  BY <1>2 DEF PublishNewPort, NewPort
<1> QED BY <1>6, <1>7, <1>8, <1>9, <1>10 DEF HubStep, HubPublishes

LEMMA PageInvStep ==
  Inv /\ AccountInv /\ StreamInv /\ PageType /\ PageInv /\ [BrowserNext]_allVars => PageInv'
<1> SUFFICES ASSUME Inv, AccountInv, StreamInv, PageType, PageInv, [BrowserNext]_allVars,
                    datagrams' = 0, linked', conn' = "open"
             PROVE  /\ ShownOnce'
                    /\ \E g \in [1..Len(wire') + 1 -> SUBSET Id] :
                         Explains(g)' /\ Shown' \subseteq g[1]
  BY DEF PageInv
<1>1. CASE HubStep
  <2>1. Next
    BY <1>1 DEF HubStep, HubPublishes, HubWorks, PublishAdded, PublishUpdated,
                PublishNewPort, PublishRemoved, Next, InfoHandler, NotificationHandler,
                AckHandler
  <2>2. datagrams = 0
    BY <2>1, StreamOnly
  <2>3. linked
    <3>1. linked' = linked \/ linked' = FALSE
      BY <2>1 DEF Next, ReceiveTcp, ReceiveUdp, InfoHandler, Enter, Lookup, Add, Added,
             Update, Updated, NotificationHandler, FindGone, Remove, Removed, Unlink, Clear,
             AckHandler, FindAsker, NewPort, NewAddress
    <3> QED BY <3>1
  <2>4. conn = "open"
    BY <1>1 DEF HubStep, HubPublishes, HubWorks, PublishAdded, PublishUpdated,
                PublishNewPort, PublishRemoved, SendAsync, page
  <2> QED BY <1>1, <2>2, <2>3, <2>4, HubExplains
<1>2. ASSUME UNCHANGED vars
      PROVE  datagrams = 0 /\ linked /\ Published' = Published
  BY <1>2 DEF vars, Published
<1>3. CASE Started
  <2>1. wire = << >> /\ peers = << >> /\ UNCHANGED <<wire, peers>>
    BY <1>3 DEF Started, PageType
  <2>2. ShownOnce' /\ Shown' = {}
    BY <2>1 DEF ShownOnce, Shown
  <2>3. Len(wire') = 0 /\ Published' \subseteq Id
    BY <2>1 DEF Published
  <2>4. PICK g \in [1..Len(wire') + 1 -> SUBSET Id] : g[Len(wire') + 1] = Published'
    <3>1. 0 + 1 = 1 /\ 1 \in 1..1
      OBVIOUS
    <3>2. [k \in 1..1 |-> Published'] \in [1..1 -> SUBSET Id]
      BY <2>3
    <3>3. [k \in 1..1 |-> Published'][1] = Published'
      BY <3>1
    <3>4. Len(wire') + 1 = 1
      BY <2>3, <3>1
    <3> QED BY <3>2, <3>3, <3>4
  <2>5. Explains(g)'
    BY <2>3, <2>4 DEF Explains
  <2> QED BY <2>2, <2>5
<1>4. CASE Receive
  <2>1. conn = "open" /\ UNCHANGED vars
    BY <1>4 DEF Receive
  <2> QED BY <1>2, <1>4, <2>1, ReceiveExplains DEF PageInv
<1>5. CASE Load \/ StartFails \/ Retry \/ Lose
  BY <1>5 DEF Load, StartFails, Retry, Lose
<1>6. CASE UNCHANGED allVars
  <2>1. UNCHANGED <<wire, peers, conn>> /\ UNCHANGED vars
    BY <1>6 DEF allVars, page
  <2>2. PICK f \in [1..Len(wire) + 1 -> SUBSET Id] : Explains(f) /\ Shown \subseteq f[1]
    BY <1>2, <2>1 DEF PageInv
  <2>3. Explains(f)' /\ Shown' \subseteq f[1]
    BY <1>2, <2>1, <2>2 DEF Explains, Shown
  <2>4. ShownOnce'
    BY <1>2, <2>1 DEF PageInv, ShownOnce
  <2> QED BY <2>1, <2>2, <2>3, <2>4
<1> QED BY <1>1, <1>3, <1>4, <1>5, <1>6 DEF BrowserNext, PageStep

BrowserInv == Inv /\ AccountInv /\ StreamInv /\ PageType /\ PageInv

LEMMA BrowserInvInit == BrowserInit => BrowserInv
<1> SUFFICES ASSUME BrowserInit PROVE BrowserInv
  OBVIOUS
<1>1. Inv /\ AccountInv
  BY InvInit, AccountInit DEF BrowserInit
<1>2. StreamInv
  BY TwoThreads DEF BrowserInit, Init, StreamInv
<1>3. PageType
  <2>1. << >> \in Seq(Events) /\ << >> \in Seq(Id)
    OBVIOUS
  <2> QED BY <2>1 DEF BrowserInit, PageType
<1>4. PageInv
  BY DEF BrowserInit, PageInv
<1> QED BY <1>1, <1>2, <1>3, <1>4 DEF BrowserInv

LEMMA BrowserInvStep == BrowserInv /\ [BrowserNext]_allVars => BrowserInv'
<1> SUFFICES ASSUME BrowserInv, [BrowserNext]_allVars PROVE BrowserInv'
  OBVIOUS
<1>1. [Next]_vars
  BY BrowserSteps DEF allVars
<1> QED BY <1>1, InvStep, AccountStep, StreamStep, PageTypeStep, PageInvStep DEF BrowserInv

\* For every set of hubs, every length of the gateway's stream and every number
\* of reloads: a page that handled all its hub published shows no hub twice and
\* none that left, as long as the gateway's stream is all the hub hears.
THEOREM PageShowsListed == BrowserSpec => []ShownHubIsListed
<1>1. BrowserInv => ShownHubIsListed
  <2> SUFFICES ASSUME BrowserInv, Settled, datagrams = 0
               PROVE  Shown \subseteq Listed /\ Len(peers) = Cardinality(Shown)
    BY DEF ShownHubIsListed
  <2>1. /\ conn = "open" /\ wire = << >> /\ Quiet /\ linked
        /\ AccountInv /\ PageType /\ TypeOK
    BY DEF Settled, BrowserInv, Inv
  <2>2. ShownOnce /\ Shown \subseteq Published
    <3>1. ShownOnce /\ \E f : Explains(f) /\ Shown \subseteq f[1]
      BY <2>1 DEF BrowserInv, PageInv
    <3>2. Len(wire) + 1 = 1
      BY <2>1
    <3> QED BY <3>1, <3>2 DEF Explains
  <2>3. ASSUME NEW h \in Published
        PROVE  h \in Listed
    <3>1. h \in Id /\ shown[h] > 0 /\ shown[h] \in Int
      BY <2>1 DEF Published, TypeOK
    <3>2. Adding(h) = 0 /\ Removing(h) = 0
      BY <2>1, TwoThreads DEF Quiet, Adding, Removing
    <3>3. shown[h] = InList(h)
      <4>1. InList(h) \in Int
        BY DEF InList
      <4> QED BY <2>1, <3>1, <3>2, <4>1 DEF AccountInv
    <3>4. ById(h) # {}
      BY <3>1, <3>3 DEF InList
    <3> QED BY <3>4 DEF ById, Listed
  <2>4. Len(peers) = Cardinality(Shown)
    <3>1. /\ Len(peers) \in Nat /\ DOMAIN peers = 1..Len(peers)
          /\ peers = [i \in 1..Len(peers) |-> peers[i]]
      BY <2>1 DEF PageType
    <3>2. peers \in Bijection(1..Len(peers), Shown)
      BY <2>2, <3>1 DEF Bijection, Injection, Surjection, IsInjective, Shown, ShownOnce
    <3>3. ExistsBijection(1..Len(peers), Shown)
      BY <3>2 DEF ExistsBijection
    <3> QED BY <3>1, <3>3, FS_CountingElements
  <2> QED BY <2>2, <2>3, <2>4
<1> QED BY <1>1, BrowserInvInit, BrowserInvStep, PTL DEF BrowserSpec
==============================================================================
