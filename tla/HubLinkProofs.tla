---------------------------- MODULE HubLinkProofs ----------------------------
(***************************************************************************)
(* Theorems about HubLink, for every number of outages and of calls of     *)
(* ConnectOrDisconnect.                                                    *)
(***************************************************************************)
EXTENDS HubLink, SequenceTheorems, TLAPS

------------------------------------------------------------------------------
(* The inductive invariant.                                                *)

\* Every client was made because the one before it had connected, and every
\* success is one of the loop, which has one, or of a call by the user.
Attempts(a) == IF pc[a] \in {"connect", "dial", "delay"} THEN 1 ELSE 0
Used == client + (IF conn[client] = "new" THEN 0 ELSE 1)

ClientInv ==
  /\ Used + Attempts(LOOP) + Attempts(USER) <= toggles + 1
  /\ pc[USER] # "delay"
  /\ \A k \in Conn : k > client => conn[k] = "new"

\* The loop before its success, between the success and the listener, and after.
Before == pc[LOOP] \in {"connect", "dial", "delay"}
Between == pc[LOOP] \in {"udp", "tcp"}
Listening == pc[LOOP] \in {"info", "publish", "linked"}

\* As long as only the loop connects, there is one client, of which one info is
\* sent on the way to "publish", ...
LoopAlone ==
  /\ pc[USER] = "idle"
  /\ client = 0
  /\ Before => conn[0] = "new"
  /\ Between \/ Listening => conn[0] # "new"
  /\ \A k \in Conn : written[k] # << >> => k = 0 /\ pc[LOOP] \in {"publish", "linked", "end"}
  /\ InfoIsSentOnce

\* ... and one TCP listener, which ends only when the connection is over.
OneListener ==
  /\ \A i \in Slot \ {1} : tcp[i] = "off"
  /\ \A i \in Slot : reading[i] = 0 /\ (closing[i] # "no" => i = 1 /\ tcp[1] = "read")
  /\ Before \/ Between => tcp[1] = "off"
  /\ Listening \/ connected # {} => tcp[1] # "off"
  /\ connected \subseteq {0}
  /\ tcp[1] = "end" \/ (tcp[1] # "off" /\ ~tcpListen) \/ closing[1] = "flags" =>
       conn[0] \notin {"new", "open"}

Inv ==
  /\ TypeOK
  /\ ClientInv
  /\ toggles = 0 => LoopAlone /\ OneListener

------------------------------------------------------------------------------
(* What the helpers return.                                                *)

LEMMA Labels ==
  {"connect", "dial", "udp", "tcp", "info", "publish", "linked", "delay", "end",
   "idle", "disconnect", "flags"} \subseteq Label
BY DEF Label

\* The bounds of the instance are natural numbers, and there is a first slot.
LEMMA Bounds ==
  /\ MaxToggles \in Nat /\ MaxOutages \in Nat /\ MaxConns = MaxToggles + 2
  /\ 0 \in Conn /\ 1 \in Slot /\ Slot \subseteq Nat /\ Conn \subseteq Nat
  /\ \A k \in Nat : k <= MaxConns => k \in Conn
  /\ LOOP \in Actor /\ USER \in Actor /\ LOOP # USER
BY HubLinkAssumption DEF MaxConns, Conn, Slot, Actor

\* A thread that starts takes a slot, if there is one ...
LEMMA StartedType ==
  ASSUME NEW S, NEW f \in [Slot -> S], NEW l \in S
  PROVE  Started(f, l) \in [Slot -> S]
BY DEF Started

\* ... which is the first when all are free.
LEMMA StartedFirst ==
  ASSUME NEW S, NEW f \in [Slot -> S], NEW l \in S, \A i \in Slot : f[i] = "off"
  PROVE  Started(f, l) = [f EXCEPT ![1] = l]
<1> DEFINE P(n) == f[n] = "off" /\ \A k \in 1..(n - 1) : f[k] # "off"
           i == CHOOSE n \in Slot : P(n)
<1>1. 1 \in Slot /\ P(1)
  BY Bounds
<1>2. i \in Slot /\ P(i)
  <2> HIDE DEF P
  <2> QED BY <1>1
<1>3. i = 1
  <2>1. i \in Nat /\ i >= 1
    BY <1>2 DEF Slot, MaxConns
  <2>2. i > 1 => 1 \in 1..(i - 1)
    BY <2>1
  <2> QED BY <1>1, <1>2, <2>1, <2>2
<1> QED BY <1>3 DEF Started

\* Who dials, or is about to, has not got its client yet: there is room for one.
LEMMA RoomForClient ==
  ASSUME TypeOK, ClientInv, NEW a \in Actor, pc[a] = "connect", conn[client] # "new"
  PROVE  client + 1 \in Conn
<1>1. client \in Nat /\ toggles \in Nat /\ toggles <= MaxToggles /\ MaxToggles \in Nat
  BY Bounds DEF TypeOK
<1>2. Used = client + 1
  BY DEF Used
<1>3. Attempts(a) = 1 /\ Attempts(LOOP) \in {0, 1} /\ Attempts(USER) \in {0, 1}
  BY DEF Attempts
<1>4. a = LOOP \/ a = USER
  BY DEF Actor
<1>5. Used + Attempts(LOOP) + Attempts(USER) <= toggles + 1
  BY DEF ClientInv
<1>6. client + 1 <= MaxConns
  BY <1>1, <1>2, <1>3, <1>4, <1>5, Bounds
<1> QED BY <1>1, <1>6, Bounds

------------------------------------------------------------------------------
(* Type correctness.                                                       *)

LEMMA TypeInit == Init => TypeOK
<1> SUFFICES ASSUME Init PROVE TypeOK
  OBVIOUS
<1>1. pc \in [Actor -> Label]
  BY Bounds, Labels DEF Init
<1>2. written \in [Conn -> Seq({"INFO"})]
  BY EmptySeq DEF Init
<1>3. outages \in 0..MaxOutages /\ toggles \in 0..MaxToggles
  BY Bounds DEF Init
<1> QED BY <1>1, <1>2, <1>3, Bounds DEF Init, TypeOK

LEMMA TypeStep ==
  ASSUME TypeOK, ClientInv, [Next]_vars
  PROVE  TypeOK'
<1> USE Bounds DEF TypeOK, env, fields, threads
<1>1. ASSUME NEW a \in Actor, NewClient(a)
      PROVE  TypeOK'
  <2>1. client' \in Conn
    <3>1. CASE conn[client] = "new"
      BY <1>1, <3>1 DEF NewClient
    <3>2. CASE conn[client] # "new"
      <4>1. client + 1 \in Conn
        BY <1>1, <3>2, RoomForClient DEF NewClient
      <4> QED BY <1>1, <3>2, <4>1 DEF NewClient
    <3> QED BY <3>1, <3>2
  <2>2. pc' \in [Actor -> Label]
    BY <1>1, Labels DEF NewClient, Goto
  <2> QED BY <1>1, <2>1, <2>2 DEF NewClient
<1>2. ASSUME NEW a \in Actor, Dial(a)
      PROVE  TypeOK'
  <2>1. pc' \in [Actor -> Label]
    BY <1>2, Labels DEF Dial, Goto, After
  <2>2. conn' \in [Conn -> {"new", "open", "dead", "broken", "closed"}]
    <3>1. conn' = [conn EXCEPT ![client] = "open"] \/ conn' = conn
      BY <1>2 DEF Dial
    <3> QED BY <3>1
  <2> QED BY <1>2, <2>1, <2>2 DEF Dial
<1>3. ASSUME NEW a \in Actor, ListenUDP(a)
      PROVE  TypeOK'
  <2>1. pc' \in [Actor -> Label]
    BY <1>3, Labels DEF ListenUDP, Goto
  <2>2. udp' \in [Slot -> {"off", "check", "recv", "end"}]
    BY <1>3, StartedType DEF ListenUDP
  <2> QED BY <1>3, <2>1, <2>2 DEF ListenUDP
<1>4. ASSUME NEW a \in Actor, ListenTCP(a)
      PROVE  TypeOK'
  <2>1. pc' \in [Actor -> Label]
    BY <1>4, Labels DEF ListenTCP, Goto
  <2>2. tcp' \in [Slot -> {"off", "check", "read", "end"}]
    BY <1>4, StartedType DEF ListenTCP
  <2> QED BY <1>4, <2>1, <2>2 DEF ListenTCP
<1>5. ASSUME NEW a \in Actor, SendInfo(a)
      PROVE  TypeOK'
  <2>1. pc' \in [Actor -> Label]
    BY <1>5, Labels DEF SendInfo, Goto
  <2>2. Append(written[client], "INFO") \in Seq({"INFO"})
    BY AppendProperties
  <2>3. written' \in [Conn -> Seq({"INFO"})]
    BY <1>5, <2>2 DEF SendInfo
  <2>4. conn' \in [Conn -> {"new", "open", "dead", "broken", "closed"}]
    BY <1>5 DEF SendInfo
  <2> QED BY <1>5, <2>1, <2>3, <2>4 DEF SendInfo
<1>6. ASSUME NEW a \in Actor, Publish(a)
      PROVE  TypeOK'
  <2>1. pc' \in [Actor -> Label]
    BY <1>6, Labels DEF Publish, Goto, After
  <2>2. alive' \in [Slot -> {"off", "sleep", "end"}]
    BY <1>6, StartedType DEF Publish
  <2> QED BY <1>6, <2>1, <2>2 DEF Publish
<1>7. CASE Retry
  <2>1. pc' \in [Actor -> Label]
    BY <1>7, Labels DEF Retry, Goto
  <2> QED BY <1>7, <2>1 DEF Retry
<1>8. CASE Cancel
  BY <1>8 DEF Cancel
<1>9. CASE ConnectOrDisconnect
  <2>1. pc' \in [Actor -> Label]
    BY <1>9, Labels DEF ConnectOrDisconnect, Goto
  <2>2. toggles' \in 0..MaxToggles
    BY <1>9 DEF ConnectOrDisconnect
  <2> QED BY <1>9, <2>1, <2>2 DEF ConnectOrDisconnect
<1>10. CASE UserDisconnects
  <2>1. pc' \in [Actor -> Label]
    BY <1>10, Labels DEF UserDisconnects, Goto
  <2>2. conn' \in [Conn -> {"new", "open", "dead", "broken", "closed"}]
    BY <1>10 DEF UserDisconnects
  <2>3. tcpListen' \in BOOLEAN /\ udpListen' \in BOOLEAN
    BY <1>10 DEF UserDisconnects
  <2> QED BY <1>10, <2>1, <2>2, <2>3 DEF UserDisconnects
<1>11. ASSUME NEW i \in Slot, TcpCheck(i)
       PROVE  TypeOK'
  BY <1>11 DEF TcpCheck
<1>12. ASSUME NEW i \in Slot, TcpRead(i)
       PROVE  TypeOK'
  BY <1>12 DEF TcpRead
<1>13. ASSUME NEW i \in Slot, TcpDisconnects(i)
       PROVE  TypeOK'
  BY <1>13 DEF TcpDisconnects
<1>14. ASSUME NEW i \in Slot, Udp(i)
       PROVE  TypeOK'
  BY <1>14 DEF Udp
<1>15. ASSUME NEW i \in Slot, KeepAlive(i)
       PROVE  TypeOK'
  BY <1>15 DEF KeepAlive
<1>16. CASE GatewayStops
  <2>1. outages' \in 0..MaxOutages
    BY <1>16 DEF GatewayStops
  <2> QED BY <1>16, <2>1 DEF GatewayStops
<1>17. CASE GatewayStarts
  BY <1>17 DEF GatewayStarts
<1>18. CASE UNCHANGED vars
  BY <1>18 DEF vars
<1> QED
  BY <1>1, <1>2, <1>3, <1>4, <1>5, <1>6, <1>7, <1>8, <1>9, <1>10, <1>11, <1>12, <1>13,
     <1>14, <1>15, <1>16, <1>17, <1>18
  DEF Next, Loop, User, ConnectGateway, TcpListener

------------------------------------------------------------------------------
(* Clients and the attempts that make them.                                *)

\* What an attempt weighs, and what it weighs after a step of one actor.
LEMMA AttemptsType ==
  ASSUME NEW a \in Actor
  PROVE  Attempts(a) \in {0, 1} /\ Attempts(a)' \in {0, 1}
BY DEF Attempts

\* A step that leaves the clients alone, or marks one that had connected, and
\* in which nobody begins an attempt.
LEMMA ClientKept ==
  ASSUME TypeOK, TypeOK', ClientInv, client' = client, toggles' = toggles,
         conn'[client] = "new" <=> conn[client] = "new",
         \A k \in Conn : conn[k] = "new" => conn'[k] = "new",
         \A a \in Actor : Attempts(a)' <= Attempts(a),
         pc'[USER] # "delay"
  PROVE  ClientInv'
<1>1. Used' = Used
  BY DEF Used
<1>2. Used \in Nat /\ toggles \in Nat /\ LOOP \in Actor /\ USER \in Actor
  BY Bounds DEF Used, TypeOK
<1>3. Attempts(LOOP)' <= Attempts(LOOP) /\ Attempts(USER)' <= Attempts(USER)
  BY <1>2
<1>4. Used + Attempts(LOOP) + Attempts(USER) <= toggles + 1
  BY DEF ClientInv
<1>5. Used' + Attempts(LOOP)' + Attempts(USER)' <= toggles' + 1
  BY <1>1, <1>2, <1>3, <1>4, AttemptsType
<1>6. \A k \in Conn : k > client' => conn'[k] = "new"
  BY DEF ClientInv
<1> QED BY <1>5, <1>6 DEF ClientInv

LEMMA ClientStep ==
  ASSUME TypeOK, TypeOK', ClientInv, [Next]_vars
  PROVE  ClientInv'
<1> USE Bounds
<1>0. /\ conn \in [Conn -> {"new", "open", "dead", "broken", "closed"}]
      /\ client \in Conn /\ pc \in [Actor -> Label] /\ pc[USER] # "delay"
      /\ toggles \in Nat /\ Used \in Nat
  BY DEF TypeOK, ClientInv, Used
<1>a. Used + Attempts(LOOP) + Attempts(USER) <= toggles + 1
  BY DEF ClientInv
<1>b. Attempts(LOOP) \in {0, 1} /\ Attempts(USER) \in {0, 1}
  BY AttemptsType
\* An actor on its way, the clients left alone.
<1>c. ASSUME NEW a \in Actor, NEW l, Goto(a, l), pc[a] \in {"connect", "dial", "delay"} \/
             l \notin {"connect", "dial", "delay"}
      PROVE  \A b \in Actor : Attempts(b)' <= Attempts(b)
  BY <1>0, <1>c DEF Attempts, Goto
\* Nobody on the way.
<1>d. ASSUME pc' = pc
      PROVE  (\A b \in Actor : Attempts(b)' <= Attempts(b)) /\ pc'[USER] # "delay"
  BY <1>0, <1>d DEF Attempts
<1>1. ASSUME NEW a \in Actor, NewClient(a)
      PROVE  ClientInv'
  <2>1. /\ pc[a] = "connect" /\ pc' = [pc EXCEPT ![a] = "dial"] /\ conn' = conn
        /\ toggles' = toggles /\ client' = IF conn[client] = "new" THEN client ELSE client + 1
    BY <1>1 DEF NewClient, Goto
  <2>2. Attempts(LOOP)' = Attempts(LOOP) /\ Attempts(USER)' = Attempts(USER)
    BY <1>0, <2>1 DEF Attempts
  <2>3. pc'[USER] # "delay"
    BY <1>0, <2>1
  <2>4. Used' = Used /\ client <= client'
    <3>1. CASE conn[client] = "new"
      BY <2>1, <3>1, <1>0 DEF Used
    <3>2. CASE conn[client] # "new"
      <4>1. client + 1 \in Conn
        BY <2>1, <3>2, RoomForClient
      <4>2. conn[client + 1] = "new"
        BY <4>1, <1>0 DEF ClientInv
      <4> QED BY <2>1, <3>2, <4>2, <1>0 DEF Used
    <3> QED BY <3>1, <3>2
  <2>5. \A k \in Conn : k > client' => conn'[k] = "new"
    <3>1. client' \in Nat /\ client \in Nat
      BY <1>0, <2>1
    <3> QED BY <2>1, <2>4, <3>1 DEF ClientInv
  <2>6. Used' + Attempts(LOOP)' + Attempts(USER)' <= toggles' + 1
    BY <1>a, <2>1, <2>2, <2>4
  <2> QED BY <2>3, <2>5, <2>6 DEF ClientInv
<1>2. ASSUME NEW a \in Actor, Dial(a)
      PROVE  ClientInv'
  <2>1. CASE serving /\ conn[client] = "new"
    <3>1. /\ pc[a] = "dial" /\ pc' = [pc EXCEPT ![a] = "udp"] /\ client' = client
          /\ toggles' = toggles /\ conn' = [conn EXCEPT ![client] = "open"]
      BY <1>2, <2>1 DEF Dial, Goto, fields
    <3>2. Used' = Used + 1
      BY <1>0, <2>1, <3>1 DEF Used
    <3>3. Attempts(a) = 1 /\ Attempts(a)' = 0
      BY <1>0, <3>1 DEF Attempts
    <3>4. \A b \in Actor : b # a => Attempts(b)' = Attempts(b)
      BY <1>0, <3>1 DEF Attempts
    <3>5. Used' + Attempts(LOOP)' + Attempts(USER)' <= toggles' + 1
      <4>1. a = LOOP \/ a = USER
        BY DEF Actor
      <4> QED BY <1>0, <1>a, <1>b, <3>1, <3>2, <3>3, <3>4, <4>1
    <3>6. \A k \in Conn : k > client' => conn'[k] = "new"
      BY <1>0, <3>1 DEF ClientInv
    <3>7. pc'[USER] # "delay"
      BY <1>0, <3>1
    <3> QED BY <3>5, <3>6, <3>7 DEF ClientInv
  <2>2. CASE ~(serving /\ conn[client] = "new")
    <3>1. pc[a] = "dial" /\ Goto(a, After(a, FALSE)) /\ conn' = conn /\ client' = client
          /\ toggles' = toggles
      BY <1>2, <2>2 DEF Dial, fields
    <3>2. pc'[USER] # "delay"
      BY <1>0, <3>1 DEF Goto, After
    <3> QED BY <1>c, <3>1, <3>2, ClientKept
  <2> QED BY <2>1, <2>2
<1>3. ASSUME NEW a \in Actor, ListenUDP(a) \/ ListenTCP(a) \/ Publish(a)
      PROVE  ClientInv'
  <2>1. PICK l \in {"tcp", "info", "idle", "linked"} : Goto(a, l)
    BY <1>3 DEF ListenUDP, ListenTCP, Publish, After
  <2>2. pc'[USER] # "delay"
    BY <1>0, <2>1 DEF Goto
  <2>3. conn' = conn /\ client' = client /\ toggles' = toggles
    BY <1>3 DEF ListenUDP, ListenTCP, Publish, fields
  <2> QED BY <1>c, <2>1, <2>2, <2>3, ClientKept
<1>4. ASSUME NEW a \in Actor, SendInfo(a)
      PROVE  ClientInv'
  <2>1. Goto(a, "publish") /\ client' = client /\ toggles' = toggles
    BY <1>4 DEF SendInfo, fields
  <2>2. pc'[USER] # "delay"
    BY <1>0, <2>1 DEF Goto
  <2>3. \A k \in Conn : conn'[k] = "new" <=> conn[k] = "new"
    BY <1>0, <1>4 DEF SendInfo
  <2> QED BY <1>c, <1>0, <2>1, <2>2, <2>3, ClientKept
<1>5. CASE Retry
  <2>1. /\ conn' = conn /\ client' = client /\ toggles' = toggles
        /\ Goto(LOOP, "end") \/ (pc[LOOP] = "delay" /\ Goto(LOOP, "connect"))
    BY <1>5 DEF Retry, fields
  <2>2. pc'[USER] # "delay"
    BY <1>0, <2>1 DEF Goto
  <2> QED BY <1>c, <2>1, <2>2, ClientKept
<1>6. CASE ConnectOrDisconnect
  <2>1. /\ conn' = conn /\ client' = client /\ toggles' = toggles + 1
        /\ pc[USER] = "idle"
        /\ Goto(USER, "connect") \/ Goto(USER, "disconnect")
    BY <1>6 DEF ConnectOrDisconnect, fields
  <2>2. pc'[USER] # "delay" /\ pc'[LOOP] = pc[LOOP]
    BY <1>0, <2>1 DEF Goto
  <2>3. Used' = Used /\ Attempts(LOOP)' = Attempts(LOOP)
    BY <2>1, <2>2 DEF Used, Attempts
  <2>4. Attempts(USER) = 0 /\ Attempts(USER)' \in {0, 1}
    BY <2>1, AttemptsType DEF Attempts
  <2>5. Used' + Attempts(LOOP)' + Attempts(USER)' <= toggles' + 1
    BY <1>0, <1>a, <1>b, <2>1, <2>3, <2>4
  <2> QED BY <2>1, <2>2, <2>5 DEF ClientInv
<1>7. CASE UserDisconnects
  <2>1. client' = client /\ toggles' = toggles
    BY <1>7 DEF UserDisconnects
  <2>2. PICK l \in {"flags", "idle"} : Goto(USER, l)
    BY <1>7 DEF UserDisconnects
  <2>3. \A k \in Conn : conn'[k] = "new" <=> conn[k] = "new"
    BY <1>0, <1>7 DEF UserDisconnects, Connected
  <2>4. pc'[USER] # "delay"
    BY <1>0, <2>2 DEF Goto
  <2> QED BY <1>c, <1>0, <2>1, <2>2, <2>3, <2>4, ClientKept
<1>8. ASSUME pc' = pc, client' = client, toggles' = toggles,
             \A k \in Conn : conn'[k] = "new" <=> conn[k] = "new"
      PROVE  ClientInv'
  BY <1>0, <1>d, <1>8, ClientKept
<1>9. ASSUME NEW i \in Slot, TcpDisconnects(i)
      PROVE  ClientInv'
  <2>1. pc' = pc /\ client' = client /\ toggles' = toggles
    BY <1>9 DEF TcpDisconnects
  <2>2. \A k \in Conn : conn'[k] = "new" <=> conn[k] = "new"
    BY <1>0, <1>9 DEF TcpDisconnects, Connected
  <2> QED BY <1>8, <2>1, <2>2
<1>10. ASSUME NEW i \in Slot, KeepAlive(i)
       PROVE  ClientInv'
  <2>1. pc' = pc /\ client' = client /\ toggles' = toggles
    BY <1>10 DEF KeepAlive, fields
  <2>2. \A k \in Conn : conn'[k] = "new" <=> conn[k] = "new"
    BY <1>0, <1>10 DEF KeepAlive
  <2> QED BY <1>8, <2>1, <2>2
<1>11. CASE GatewayStops
  <2>1. pc' = pc /\ client' = client /\ toggles' = toggles
    BY <1>11 DEF GatewayStops, fields
  <2>2. \A k \in Conn : conn'[k] = "new" <=> conn[k] = "new"
    BY <1>0, <1>11 DEF GatewayStops
  <2> QED BY <1>8, <2>1, <2>2
<1>12. ASSUME pc' = pc, client' = client, toggles' = toggles, conn' = conn
       PROVE  ClientInv'
  BY <1>8, <1>12
<1>13. ASSUME NEW i \in Slot, TcpCheck(i) \/ TcpRead(i) \/ Udp(i)
       PROVE  ClientInv'
  BY <1>12, <1>13 DEF TcpCheck, TcpRead, Udp, fields
<1>14. CASE Cancel \/ GatewayStarts \/ UNCHANGED vars
  BY <1>12, <1>14 DEF Cancel, GatewayStarts, vars, fields
<1> QED
  BY <1>1, <1>2, <1>3, <1>4, <1>5, <1>6, <1>7, <1>9, <1>10, <1>11, <1>13, <1>14
  DEF Next, Loop, User, ConnectGateway, TcpListener

------------------------------------------------------------------------------
(* The loop alone.                                                         *)

\* Until the user calls, only the loop connects.
LEMMA OnlyLoop ==
  ASSUME Inv, TypeOK', [Next]_vars, toggles' = 0
  PROVE  /\ toggles = 0 /\ LoopAlone /\ OneListener
         /\ \/ ConnectGateway(LOOP) \/ Retry \/ Cancel
            \/ \E i \in Slot : TcpListener(i) \/ Udp(i) \/ KeepAlive(i)
            \/ GatewayStops \/ GatewayStarts \/ UNCHANGED vars
<1>1. toggles \in Nat
  BY Bounds DEF Inv, TypeOK
<1>2. ~ConnectOrDisconnect /\ (toggles' = toggles \/ toggles' = toggles + 1)
  <2>1. CASE Next
    <3>1. ConnectOrDisconnect => toggles' = toggles + 1
      BY DEF ConnectOrDisconnect
    <3>2. ~ConnectOrDisconnect => toggles' = toggles
      BY <2>1 DEF Next, Loop, User, ConnectGateway, TcpListener, NewClient, Dial, ListenUDP,
        ListenTCP, SendInfo, Publish, Retry, Cancel, UserDisconnects, TcpCheck, TcpRead,
        TcpDisconnects, Udp, KeepAlive, GatewayStops, GatewayStarts
    <3> QED BY <1>1, <3>1, <3>2
  <2>2. CASE UNCHANGED vars
    BY <1>1, <2>2 DEF vars, ConnectOrDisconnect
  <2> QED BY <2>1, <2>2
<1>3. toggles = 0
  BY <1>1, <1>2
<1>4. LoopAlone /\ OneListener
  BY <1>3 DEF Inv
<1>5. ~ConnectGateway(USER) /\ ~UserDisconnects
  BY <1>4 DEF LoopAlone, ConnectGateway, NewClient, Dial, ListenUDP, ListenTCP, SendInfo,
    Publish, UserDisconnects
<1> QED BY <1>2, <1>3, <1>4, <1>5 DEF Next, Loop, User

\* What LoopAlone says of the written infos, of the loop's place and of the client.
WrittenInv ==
  /\ \A k \in Conn : written[k] # << >> => k = 0 /\ pc[LOOP] \in {"publish", "linked", "end"}
  /\ \A k \in Conn : Len(written[k]) <= 1
PlaceInv ==
  /\ pc[USER] = "idle" /\ client = 0
  /\ Before => conn[0] = "new"
  /\ Between \/ Listening => conn[0] # "new"

LEMMA AloneParts == toggles = 0 => (LoopAlone <=> PlaceInv /\ WrittenInv)
BY DEF LoopAlone, PlaceInv, WrittenInv, InfoIsSentOnce

LEMMA PlaceStep ==
  ASSUME Inv, TypeOK', [Next]_vars, toggles' = 0
  PROVE  PlaceInv'
<1> USE Bounds
<1>0. /\ conn \in [Conn -> {"new", "open", "dead", "broken", "closed"}]
      /\ pc \in [Actor -> Label] /\ PlaceInv
  BY OnlyLoop, AloneParts DEF Inv, TypeOK
<1>1. CASE NewClient(LOOP)
  BY <1>0, <1>1 DEF NewClient, Goto, PlaceInv, Before, Between, Listening
<1>2. CASE Dial(LOOP)
  <2>1. CASE serving /\ conn[client] = "new"
    BY <1>0, <1>2, <2>1 DEF Dial, Goto, fields, PlaceInv, Before, Between, Listening
  <2>2. CASE ~(serving /\ conn[client] = "new")
    BY <1>0, <1>2, <2>2 DEF Dial, Goto, After, fields, PlaceInv, Before, Between, Listening
  <2> QED BY <2>1, <2>2
<1>3. CASE ListenUDP(LOOP)
  BY <1>0, <1>3 DEF ListenUDP, Goto, PlaceInv, Before, Between, Listening
<1>4. CASE ListenTCP(LOOP)
  BY <1>0, <1>4 DEF ListenTCP, Goto, PlaceInv, Before, Between, Listening
<1>5. CASE SendInfo(LOOP)
  BY <1>0, <1>5 DEF SendInfo, Goto, fields, PlaceInv, Before, Between, Listening
<1>6. CASE Publish(LOOP)
  BY <1>0, <1>6 DEF Publish, Goto, After, fields, PlaceInv, Before, Between, Listening
<1>7. CASE Retry
  BY <1>0, <1>7 DEF Retry, Goto, fields, PlaceInv, Before, Between, Listening
<1>8. ASSUME pc' = pc, client' = client, conn'[0] = "new" <=> conn[0] = "new"
      PROVE  PlaceInv'
  BY <1>0, <1>8 DEF PlaceInv, Before, Between, Listening
<1>9. ASSUME NEW i \in Slot, TcpDisconnects(i)
      PROVE  PlaceInv'
  <2>1. conn'[0] = "new" <=> conn[0] = "new"
    BY <1>0, <1>9 DEF TcpDisconnects, Connected
  <2> QED BY <1>8, <1>9, <2>1 DEF TcpDisconnects
<1>10. ASSUME NEW i \in Slot, KeepAlive(i)
       PROVE  PlaceInv'
  <2>1. conn'[0] = "new" <=> conn[0] = "new"
    BY <1>0, <1>10 DEF KeepAlive
  <2> QED BY <1>8, <1>10, <2>1 DEF KeepAlive, fields
<1>11. CASE GatewayStops
  <2>1. conn'[0] = "new" <=> conn[0] = "new"
    BY <1>0, <1>11 DEF GatewayStops
  <2> QED BY <1>8, <1>11, <2>1 DEF GatewayStops, fields
<1>12. ASSUME NEW i \in Slot, TcpCheck(i) \/ TcpRead(i) \/ Udp(i)
       PROVE  PlaceInv'
  BY <1>8, <1>12 DEF TcpCheck, TcpRead, Udp, fields
<1>13. CASE Cancel \/ GatewayStarts \/ UNCHANGED vars
  BY <1>8, <1>13 DEF Cancel, GatewayStarts, vars, fields
<1> QED
  BY OnlyLoop, <1>1, <1>2, <1>3, <1>4, <1>5, <1>6, <1>7, <1>9, <1>10, <1>11, <1>12, <1>13
  DEF ConnectGateway, TcpListener

LEMMA WrittenStep ==
  ASSUME Inv, TypeOK', [Next]_vars, toggles' = 0
  PROVE  WrittenInv'
<1> USE Bounds
<1>0. /\ written \in [Conn -> Seq({"INFO"})] /\ client = 0
      /\ pc \in [Actor -> Label] /\ WrittenInv
  BY OnlyLoop, AloneParts DEF Inv, TypeOK, PlaceInv
<1>1. ASSUME written' = written,
             pc[LOOP] \in {"publish", "linked", "end"} => pc'[LOOP] \in {"publish", "linked", "end"}
      PROVE  WrittenInv'
  BY <1>0, <1>1 DEF WrittenInv
<1>2. CASE SendInfo(LOOP)
  <2>1. \A k \in Conn : written[k] = << >>
    BY <1>0, <1>2 DEF SendInfo, WrittenInv
  <2>2. pc'[LOOP] = "publish"
    BY <1>0, <1>2 DEF SendInfo, Goto
  <2>3. \/ written' = written
        \/ written' = [written EXCEPT ![0] = Append(@, "INFO")]
    BY <1>0, <1>2 DEF SendInfo
  <2>4. Len(Append(<< >>, "INFO")) = 1
    OBVIOUS
  <2>5. \A k \in Conn : Len(written'[k]) <= 1 /\ (k # 0 => written'[k] = << >>)
    BY <1>0, <2>1, <2>3, <2>4
  <2> QED BY <2>2, <2>5 DEF WrittenInv
<1>3. CASE NewClient(LOOP) \/ Dial(LOOP) \/ ListenUDP(LOOP) \/ ListenTCP(LOOP)
  <2>1. written' = written
    BY <1>3 DEF NewClient, Dial, ListenUDP, ListenTCP
  <2>2. pc[LOOP] \notin {"publish", "linked", "end"}
    BY <1>3 DEF NewClient, Dial, ListenUDP, ListenTCP
  <2> QED BY <1>1, <2>1, <2>2
<1>4. CASE Publish(LOOP)
  BY <1>0, <1>1, <1>4 DEF Publish, Goto, After
<1>5. CASE Retry
  BY <1>0, <1>1, <1>5 DEF Retry, Goto
<1>6. ASSUME NEW i \in Slot, TcpListener(i) \/ Udp(i) \/ KeepAlive(i)
      PROVE  WrittenInv'
  BY <1>1, <1>6 DEF TcpListener, TcpCheck, TcpRead, TcpDisconnects, Udp, KeepAlive
<1>7. CASE Cancel \/ GatewayStops \/ GatewayStarts \/ UNCHANGED vars
  BY <1>1, <1>7 DEF Cancel, GatewayStops, GatewayStarts, vars
<1> QED
  BY OnlyLoop, <1>2, <1>3, <1>4, <1>5, <1>6, <1>7 DEF ConnectGateway

\* The listener's part of the state, and what ends it.
LEMMA ListenerStep ==
  ASSUME Inv, TypeOK', [Next]_vars, toggles' = 0
  PROVE  OneListener'
<1> USE Bounds
<1>0. /\ conn \in [Conn -> {"new", "open", "dead", "broken", "closed"}]
      /\ tcp \in [Slot -> {"off", "check", "read", "end"}]
      /\ reading \in [Slot -> Conn]
      /\ closing \in [Slot -> {"no", "disconnect", "flags"}]
      /\ pc \in [Actor -> Label] /\ PlaceInv /\ OneListener
  BY OnlyLoop, AloneParts DEF Inv, TypeOK
\* A step of the loop, or of the environment, that leaves the listener alone.
<1>1. ASSUME tcp' = tcp, reading' = reading, closing' = closing, tcpListen' = tcpListen,
             Before' \/ Between' => Before \/ Between,
             Listening' => Listening \/ (tcp[1] # "off"),
             connected' = connected \/ (connected' = connected \cup {0} /\ Listening),
             conn'[0] = conn[0] \/ conn'[0] \notin {"new", "open"} \/ Before
      PROVE  OneListener'
  <2>1. tcp[1] = "end" \/ (tcp[1] # "off" /\ ~tcpListen) \/ closing[1] = "flags" =>
          conn'[0] \notin {"new", "open"}
    BY <1>0, <1>1 DEF OneListener
  <2>2. Listening' \/ connected' # {} => tcp[1] # "off"
    BY <1>0, <1>1 DEF OneListener
  <2> QED BY <1>0, <1>1, <2>1, <2>2 DEF OneListener
<1>2. CASE NewClient(LOOP)
  BY <1>0, <1>1, <1>2 DEF NewClient, Goto, threads, Before, Between, Listening
<1>3. CASE Dial(LOOP)
  <2>1. tcp' = tcp /\ reading' = reading /\ closing' = closing /\ tcpListen' = tcpListen
        /\ connected' = connected
    BY <1>3 DEF Dial, fields, threads
  <2>2. Before /\ ~Listening'
    BY <1>0, <1>3 DEF Dial, Goto, After, Before, Listening
  <2> QED BY <1>1, <2>1, <2>2
<1>4. CASE ListenUDP(LOOP)
  BY <1>0, <1>1, <1>4 DEF ListenUDP, Goto, Before, Between, Listening
<1>5. CASE ListenTCP(LOOP)
  <2>1. \A i \in Slot : tcp[i] = "off"
    BY <1>0, <1>5 DEF ListenTCP, OneListener, Between
  <2>2. tcp' = [tcp EXCEPT ![1] = "check"]
    <3>1. Started(tcp, "check") = [tcp EXCEPT ![1] = "check"]
      <4> DEFINE T == {"off", "check", "read", "end"}
      <4>1. tcp \in [Slot -> T] /\ "check" \in T
        BY <1>0
      <4> HIDE DEF T
      <4> QED BY <4>1, <2>1, StartedFirst
    <3> QED BY <1>5, <3>1 DEF ListenTCP
  <2>3. \A i \in Slot : closing[i] = "no"
    BY <1>0, <2>1 DEF OneListener
  <2>4. ~Before' /\ ~Between'
    BY <1>0, <1>5 DEF ListenTCP, Goto, Before, Between
  <2>5. tcpListen' /\ reading' = reading /\ closing' = closing /\ connected' = connected
    BY <1>5 DEF ListenTCP
  <2>6. tcp'[1] = "check" /\ \A i \in Slot \ {1} : tcp'[i] = "off"
    BY <1>0, <2>1, <2>2
  <2> QED BY <1>0, <2>3, <2>4, <2>5, <2>6 DEF OneListener
<1>6. CASE SendInfo(LOOP)
  <2>1. conn'[0] = conn[0] \/ conn'[0] \notin {"new", "open"}
    BY <1>0, <1>6 DEF SendInfo, PlaceInv
  <2> QED
    BY <1>0, <1>1, <1>6, <2>1 DEF SendInfo, Goto, fields, threads, Before, Between, Listening
<1>7. CASE Publish(LOOP)
  BY <1>0, <1>1, <1>7
  DEF Publish, Goto, After, fields, PlaceInv, Before, Between, Listening
<1>8. CASE Retry
  BY <1>0, <1>1, <1>8 DEF Retry, Goto, fields, threads, Before, Between, Listening
\* A step that leaves the loop alone.
<1>9. ASSUME NEW i \in Slot, TcpCheck(i)
      PROVE  OneListener'
  <2>1. i = 1
    BY <1>0, <1>9 DEF TcpCheck, OneListener
  <2>2. pc' = pc /\ conn' = conn /\ tcpListen' = tcpListen /\ closing' = closing
        /\ connected' = connected /\ closing[1] = "no" /\ tcp[1] = "check"
    BY <1>0, <1>9, <2>1 DEF TcpCheck, OneListener, fields
  <2>3. \/ ~tcpListen /\ tcp' = [tcp EXCEPT ![1] = "end"] /\ reading' = reading
        \/ tcpListen /\ tcp' = [tcp EXCEPT ![1] = "read"] /\ reading' = [reading EXCEPT ![1] = 0]
    BY <1>0, <1>9, <2>1 DEF TcpCheck, PlaceInv
  <2> QED BY <1>0, <2>2, <2>3 DEF OneListener, Before, Between, Listening
<1>10. ASSUME NEW i \in Slot, TcpRead(i)
       PROVE  OneListener'
  <2>1. i = 1
    BY <1>0, <1>10 DEF TcpRead, OneListener
  <2>2. pc' = pc /\ conn' = conn /\ tcpListen' = tcpListen /\ reading' = reading
        /\ connected' = connected /\ closing[1] = "no" /\ tcp[1] = "read" /\ reading[1] = 0
    BY <1>0, <1>10, <2>1 DEF TcpRead, OneListener, fields
  <2>3. \/ tcp' = tcp /\ closing' = [closing EXCEPT ![1] = "disconnect"]
        \/ tcp' = [tcp EXCEPT ![1] = "check"] /\ closing' = closing
    BY <1>10, <2>1 DEF TcpRead
  <2> QED BY <1>0, <2>2, <2>3 DEF OneListener, Before, Between, Listening
<1>11. ASSUME NEW i \in Slot, TcpDisconnects(i)
       PROVE  OneListener'
  <2>1. i = 1 /\ tcp[1] = "read" /\ client = 0
    BY <1>0, <1>11 DEF TcpDisconnects, OneListener, PlaceInv
  <2>2. pc' = pc /\ reading' = reading /\ connected' = connected
    BY <1>11 DEF TcpDisconnects
  <2>3. CASE closing[1] = "disconnect" /\ Connected(client)
    <3>1. /\ conn' = [conn EXCEPT ![0] = "closed"] /\ closing' = [closing EXCEPT ![1] = "flags"]
          /\ tcp' = tcp /\ tcpListen' = tcpListen
      BY <1>11, <2>1, <2>3 DEF TcpDisconnects
    <3> QED BY <1>0, <2>1, <2>2, <3>1 DEF OneListener, Before, Between, Listening
  <2>4. CASE closing[1] = "disconnect" /\ ~Connected(client)
    <3>1. /\ conn' = conn /\ closing' = [closing EXCEPT ![1] = "no"]
          /\ tcp' = [tcp EXCEPT ![1] = "check"] /\ tcpListen' = tcpListen
      BY <1>11, <2>1, <2>4 DEF TcpDisconnects
    <3> QED BY <1>0, <2>1, <2>2, <3>1 DEF OneListener, Before, Between, Listening
  <2>5. CASE closing[1] = "flags"
    <3>1. /\ conn' = conn /\ closing' = [closing EXCEPT ![1] = "no"]
          /\ tcp' = [tcp EXCEPT ![1] = "check"]
      BY <1>11, <2>1, <2>5 DEF TcpDisconnects
    <3>2. conn[0] \notin {"new", "open"}
      BY <1>0, <2>5 DEF OneListener
    <3> QED BY <1>0, <2>1, <2>2, <3>1, <3>2 DEF OneListener, Before, Between, Listening
  <2> QED BY <1>11, <2>1, <2>3, <2>4, <2>5 DEF TcpDisconnects
<1>12. ASSUME NEW i \in Slot, KeepAlive(i)
       PROVE  OneListener'
  <2>1. conn'[0] = conn[0] \/ conn'[0] \notin {"new", "open"}
    BY <1>0, <1>12 DEF KeepAlive, PlaceInv
  <2> QED BY <1>1, <1>12, <2>1 DEF KeepAlive, fields, Before, Between, Listening
<1>13. CASE GatewayStops
  <2>1. conn'[0] = conn[0] \/ conn'[0] \notin {"new", "open"}
    BY <1>0, <1>13 DEF GatewayStops
  <2> QED BY <1>1, <1>13, <2>1 DEF GatewayStops, fields, threads, Before, Between, Listening
<1>14. ASSUME NEW i \in Slot, Udp(i)
       PROVE  OneListener'
  BY <1>1, <1>14 DEF Udp, fields, Before, Between, Listening
<1>15. CASE Cancel \/ GatewayStarts \/ UNCHANGED vars
  BY <1>1, <1>15 DEF Cancel, GatewayStarts, vars, fields, threads, Before, Between, Listening
<1> QED
  BY OnlyLoop, <1>2, <1>3, <1>4, <1>5, <1>6, <1>7, <1>8, <1>9, <1>10, <1>11, <1>12, <1>13,
     <1>14, <1>15
  DEF ConnectGateway, TcpListener

------------------------------------------------------------------------------
(* The theorems.                                                           *)

LEMMA InvInit == Init => Inv
<1> SUFFICES ASSUME Init PROVE Inv
  OBVIOUS
<1> USE Bounds
<1>1. TypeOK
  BY TypeInit
<1>2. pc[LOOP] = "connect" /\ pc[USER] = "idle" /\ \A k \in Conn : conn[k] = "new"
  BY DEF Init
<1>3. Used = 0 /\ Attempts(LOOP) = 1 /\ Attempts(USER) = 0
  BY <1>2 DEF Init, Used, Attempts
<1>4. ClientInv
  BY <1>2, <1>3 DEF Init, ClientInv
<1>5. PlaceInv /\ WrittenInv
  BY <1>2, EmptySeq DEF Init, PlaceInv, WrittenInv, Before, Between, Listening
<1>6. OneListener
  BY <1>2 DEF Init, OneListener, Before, Between, Listening
<1> QED BY <1>1, <1>4, <1>5, <1>6, AloneParts DEF Inv, Init

LEMMA InvStep == Inv /\ [Next]_vars => Inv'
<1> SUFFICES ASSUME Inv, [Next]_vars PROVE Inv'
  OBVIOUS
<1>1. TypeOK'
  BY TypeStep DEF Inv
<1>2. ClientInv'
  BY <1>1, ClientStep DEF Inv
<1>3. ASSUME toggles' = 0
      PROVE  LoopAlone' /\ OneListener'
  <2>1. PlaceInv' /\ WrittenInv' /\ OneListener'
    BY <1>1, <1>3, PlaceStep, WrittenStep, ListenerStep
  <2> QED
    BY <1>3, <2>1 DEF LoopAlone, PlaceInv, WrittenInv, InfoIsSentOnce, Before, Between, Listening
<1> QED BY <1>1, <1>2, <1>3 DEF Inv

LEMMA Invariance == Spec => []Inv
BY InvInit, InvStep, PTL DEF Spec

\* Every field and thread of the link keeps its type; in particular there is a
\* TcpClient for every success of ConnectGateway, so that the bound on
\* connections cuts nothing off.
THEOREM TypeCorrect == Spec => []TypeOK
<1>1. Inv => TypeOK
  BY DEF Inv
<1> QED BY <1>1, Invariance, PTL

\* A connection carries the hub's info once as long as only the loop of
\* StartAsync connects, however often it failed before.
THEOREM InfoSentOnce == Spec => []InfoIsSentOnce
<1>1. Inv => InfoIsSentOnce
  BY DEF Inv, LoopAlone, InfoIsSentOnce
<1> QED BY <1>1, Invariance, PTL

\* As long as only the loop connects, no two listeners share a stream and an
\* open connection that was announced has its listener.
THEOREM OneReader == Spec => []OneReaderPerStream
<1>1. Inv => OneReaderPerStream
  <2> SUFFICES ASSUME Inv, toggles = 0 PROVE OneReaderPerStream
    BY DEF OneReaderPerStream
  <2>1. OneListener /\ tcp \in [Slot -> {"off", "check", "read", "end"}]
    BY DEF Inv, TypeOK
  <2>2. \A i \in Slot : tcp[i] = "read" => i = 1
    BY <2>1 DEF OneListener
  <2>3. ASSUME NEW k \in connected, conn[k] = "open"
        PROVE  \E i \in Slot : tcp[i] = "check" \/ (tcp[i] = "read" /\ reading[i] = k)
    <3>1. k = 0 /\ reading[1] = 0 /\ tcp[1] \in {"check", "read"}
      BY <2>1, <2>3, Bounds DEF OneListener
    <3> QED BY <3>1, Bounds
  <2> QED BY <2>2, <2>3 DEF OneReaderPerStream
<1> QED BY <1>1, Invariance, PTL
==============================================================================
