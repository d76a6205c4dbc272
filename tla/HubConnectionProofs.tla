-------------------------- MODULE HubConnectionProofs --------------------------
(***************************************************************************)
(* Proofs about HubConnection over HttpConnection: the records keep their  *)
(* types, the safety properties of the page's client hold for any          *)
(* transports, offers and data, and HttpConnection is a connection as      *)
(* Connection states it, liveness apart.                                   *)
(***************************************************************************)
EXTENDS HubConnection, WellFoundedInduction, SequenceTheorems, TLAPS

(* What each message of a piece of data keeps, handling all of them keeps  *)
(* (processIncomingData, line 2358): a least length at which it failed has *)
(* one message before it at which it did not.                              *)
LEMMA ProcessAllIn ==
  ASSUME NEW S, NEW both \in S, NEW data \in Seq(ServerText),
         \A m \in ServerText : \A b \in S : Process(m, b) \in S
  PROVE  ProcessAll(data, both) \in S
<1> DEFINE n == Len(data)
           Successor(f, i) == IF i = 0 THEN both ELSE Process(data[i], f[i - 1])
           Less == {ss \in Nat \X Nat : ss[1] < ss[2]}
<1>1. n \in Nat /\ \A i \in 1..n : data[i] \in ServerText
  OBVIOUS
<1>2. IsWellFoundedOn(Less, Nat)
  <2>1. Less = OpToRel(<, Nat)
    BY DEF OpToRel
  <2> QED BY <2>1, NatLessThanWellFounded
<1> HIDE DEF n
<1>3. \E f : f = [i \in 0..n |-> Successor(f, i)]
  <2> DEFINE Starts(g, k) == g \in [0..k -> S] /\ \A i \in 0..k : g[i] = Successor(g, i)
             T == {k \in Nat : k <= n /\ ~(\E g : Starts(g, k))}
  <2>1. T = {}
    <3> SUFFICES ASSUME T # {} PROVE FALSE
      OBVIOUS
    <3>1. PICK k \in T : \A j \in T : <<j, k>> \notin Less
      <4>1. T \subseteq Nat
        OBVIOUS
      <4> HIDE DEF T, Less
      <4> QED BY <1>2, <4>1, WFMin
    <3>2. CASE k = 0
      <4>1. Starts([i \in 0..0 |-> both], 0)
        OBVIOUS
      <4> QED BY <3>2, <4>1
    <3>3. CASE k # 0
      <4>1. k - 1 \in Nat /\ k - 1 <= n /\ k \in 1..n /\ <<k - 1, k>> \in Less
        BY <1>1, <3>3
      <4>2. k - 1 \notin T
        BY <3>1, <4>1
      <4>3. PICK g : Starts(g, k - 1)
        BY <4>1, <4>2
      <4> DEFINE h == [i \in 0..k |-> IF i = k THEN Process(data[k], g[k - 1]) ELSE g[i]]
      <4>4. Process(data[k], g[k - 1]) \in S
        BY <1>1, <4>1, <4>3
      <4>5. h \in [0..k -> S]
        BY <4>1, <4>3, <4>4
      <4>6. ASSUME NEW i \in 0..k PROVE h[i] = Successor(h, i)
        <5>1. CASE i = k
          <6>1. h[k] = Process(data[k], g[k - 1]) /\ h[k - 1] = g[k - 1]
            BY <4>1
          <6> QED BY <3>3, <5>1, <6>1
        <5>2. CASE i = 0
          <6>1. h[0] = g[0] /\ g[0] = both
            BY <4>1, <4>3, <3>3
          <6> QED BY <5>2, <6>1
        <5>3. CASE i # k /\ i # 0
          <6>1. i \in 0..(k - 1) /\ i - 1 \in 0..k /\ i - 1 # k
            BY <4>1, <5>3
          <6>2. h[i] = g[i] /\ h[i - 1] = g[i - 1]
            BY <5>3, <6>1
          <6>3. g[i] = Process(data[i], g[i - 1])
            BY <4>3, <5>3, <6>1
          <6> QED BY <5>3, <6>2, <6>3
        <5> QED BY <5>1, <5>2, <5>3
      <4> QED BY <4>5, <4>6
    <3> QED BY <3>2, <3>3
  <2>2. PICK g : Starts(g, n)
    BY <1>1, <2>1
  <2>3. g = [i \in 0..n |-> Successor(g, i)]
    BY <2>2
  <2> QED BY <2>3
<1> DEFINE after == CHOOSE f : f = [i \in 0..n |-> Successor(f, i)]
<1>4. after = [i \in 0..n |-> Successor(after, i)]
  BY <1>3
<1>5. ProcessAll(data, both) = after[n]
  BY DEF ProcessAll, n
<1> HIDE DEF after
<1>6. \A i \in 0..n : after[i] \in S
  <2> DEFINE T == {k \in Nat : k <= n /\ after[k] \notin S}
  <2>1. T = {}
    <3> SUFFICES ASSUME T # {} PROVE FALSE
      OBVIOUS
    <3>1. PICK k \in T : \A j \in T : <<j, k>> \notin Less
      <4>1. T \subseteq Nat
        OBVIOUS
      <4> HIDE DEF T, Less
      <4> QED BY <1>2, <4>1, WFMin
    <3>2. k \in 0..n
      BY <1>1
    <3>3. CASE k = 0
      <4>1. after[0] = both
        BY <1>1, <1>4
      <4> QED BY <3>3, <4>1
    <3>4. CASE k # 0
      <4>1. k - 1 \in Nat /\ k - 1 <= n /\ k \in 1..n /\ <<k - 1, k>> \in Less
        BY <1>1, <3>4
      <4>2. after[k - 1] \in S
        BY <3>1, <4>1
      <4>3. after[k] = Process(data[k], after[k - 1])
        BY <1>4, <3>2, <3>4
      <4> QED BY <1>1, <4>1, <4>2, <4>3
    <3> QED BY <3>3, <3>4
  <2> QED BY <2>1
<1> QED BY <1>1, <1>5, <1>6
-----------------------------------------------------------------------------
(* The parts of HttpConnection's handlers                                  *)

(* stop() changes a connection that is up or coming up, and nothing else.  *)
LEMMA HttpStopFields ==
  ASSUME NEW h \in HttpRecord
  PROVE  LET g == HttpStop(h)
         IN /\ g \in HttpRecord
            /\ g.connectionStarted = h.connectionStarted /\ g.transport = h.transport
            /\ g.sendQueue = h.sendQueue /\ g.startInternal = h.startInternal
            /\ g.start = h.start /\ g.sent = h.sent
            /\ IF h.state \in {"Disconnected", "Disconnecting"}
                 THEN g = h
                 ELSE g.state = "Disconnecting" /\ g.stopInternal = "awaitStart" /\ ~g.stopped
<1>1. CASE h.state \in {"Disconnected", "Disconnecting"}
  BY <1>1 DEF HttpStop
<1>2. CASE h.state \notin {"Disconnected", "Disconnecting"}
  <2>1. HttpStop(h) = [h EXCEPT !.state = "Disconnecting", !.stopped = FALSE,
                                !.stopInternal = "awaitStart"]
    BY <1>2 DEF HttpStop
  <2> QED BY <1>2, <2>1 DEF HttpRecord
<1> QED BY <1>1, <1>2

LEMMA HttpStopTwice ==
  ASSUME NEW h \in HttpRecord PROVE HttpStop(HttpStop(h)) = HttpStop(h)
<1>1. HttpStop(h).state \in {"Disconnected", "Disconnecting"}
  BY HttpStopFields DEF HttpRecord
<1> QED BY <1>1 DEF HttpStop

(* The onclose of a transport leaves what start() and stop() wait for.     *)
LEMMA StopConnectionFields ==
  ASSUME NEW h \in HttpRecord
  PROVE  LET g == StopConnection(h)
         IN /\ g \in HttpRecord
            /\ g.transport = Undefined /\ g.sendQueue = h.sendQueue
            /\ g.startInternal = h.startInternal /\ g.start = h.start
            /\ g.stopInternal = h.stopInternal /\ g.sent = h.sent
            /\ IF h.state \in {"Disconnected", "Connecting"}
                 THEN /\ g.state = h.state /\ g.stopped = h.stopped
                      /\ g.connectionStarted = h.connectionStarted
                 ELSE /\ g.state = "Disconnected" /\ ~g.connectionStarted
                      /\ g.stopped = (h.stopped \/ h.state = "Disconnecting")
BY DEF StopConnection, HttpRecord

LEMMA StartInternalFailsFields ==
  ASSUME NEW h \in HttpRecord
  PROVE  LET g == StartInternalFails(h)
         IN /\ g \in HttpRecord
            /\ g.connectionStarted = h.connectionStarted /\ g.transport = Undefined
            /\ g.sendQueue = h.sendQueue /\ g.startInternal = "rejected"
            /\ g.start = h.start /\ g.stopInternal = h.stopInternal
            /\ g.stopped = h.stopped /\ g.sent = h.sent /\ g.state = "Disconnected"
<1>1. 0 \in 0..MaxRedirects /\ << >> \in Seq(STRING)
  BY OffersAreLists
<1> QED BY <1>1 DEF StartInternalFails, HttpRecord

LEMMA StartInternalEndsFields ==
  ASSUME NEW h \in HttpRecord
  PROVE  LET g == StartInternalEnds(h)
         IN /\ g \in HttpRecord
            /\ g.connectionStarted = h.connectionStarted /\ g.transport = h.transport
            /\ g.sendQueue = h.sendQueue /\ g.startInternal = "resolved"
            /\ g.start = h.start /\ g.stopInternal = h.stopInternal
            /\ g.stopped = h.stopped /\ g.sent = h.sent
            /\ g.state = IF h.state = "Connecting" THEN "Connected" ELSE h.state
<1>1. 0 \in 0..MaxRedirects /\ << >> \in Seq(STRING)
  BY OffersAreLists
<1>2. (h.inherentKeepAlive \/ h.transport \in LongPolls) \in BOOLEAN
  OBVIOUS
<1> QED BY <1>1, <1>2 DEF StartInternalEnds, HttpRecord

(* What is settled changes only the promises of what was sent.             *)
LEMMA SettleFields ==
  ASSUME NEW h \in HttpRecord, NEW messages \in SUBSET Message,
         NEW result \in {"ok", "failed"}
  PROVE  LET g == Settle(h, messages, result)
         IN /\ g \in HttpRecord
            /\ g.state = h.state
            /\ g.connectionStarted = h.connectionStarted /\ g.transport = h.transport
            /\ g.sendQueue = h.sendQueue /\ g.startInternal = h.startInternal
            /\ g.start = h.start /\ g.stopInternal = h.stopInternal /\ g.stopped = h.stopped
            /\ \A m \in Message :
                 g.sent[m] = IF m \notin messages THEN h.sent[m]
                             ELSE IF result = "ok" /\ m # "handshake" THEN "none" ELSE result
<1> DEFINE now == [m \in Message |->
             IF m \notin messages THEN h.sent[m]
             ELSE IF result = "ok" /\ m # "handshake" THEN "none" ELSE result]
<1>1. now \in [Message -> {"none", "pending", "ok", "failed"}]
  BY DEF HttpRecord
<1>2. Settle(h, messages, result) = [h EXCEPT !.sent = now]
  BY DEF Settle, HttpRecord
<1> HIDE DEF now
<1>3. Settle(h, messages, result).sent = now
  BY <1>2 DEF HttpRecord
<1>4. now = [m \in Message |->
             IF m \notin messages THEN h.sent[m]
             ELSE IF result = "ok" /\ m # "handshake" THEN "none" ELSE result]
  BY DEF now
<1> QED BY <1>1, <1>2, <1>3, <1>4 DEF HttpRecord

LEMMA ClosedIsTransport == Closed \in TransportRecord
BY DEF Closed, TransportRecord

(* What stopConnection does to the state of a connection h.                *)
GoneDown(h) ==
  /\ http'.transport = Undefined
  /\ IF h.state \in {"Disconnected", "Connecting"}
       THEN /\ http'.state = h.state /\ http'.stopped = h.stopped
            /\ http'.connectionStarted = h.connectionStarted
       ELSE /\ http'.state = "Disconnected" /\ ~http'.connectionStarted
            /\ http'.stopped = (h.stopped \/ h.state = "Disconnecting")

(* What is sent is pending or has failed; a queue takes it only while the  *)
(* connection is up, the one there is or a new one of the transport.       *)
LEMMA HttpSendFields ==
  ASSUME NEW h \in HttpRecord, NEW m \in Message, HttpSend(h, m),
         queue \in [Transport \cup {Undefined} -> QueueRecord]
  PROVE  /\ http' \in HttpRecord
         /\ queue' \in [Transport \cup {Undefined} -> QueueRecord]
         /\ http'.state = h.state
         /\ http'.connectionStarted = h.connectionStarted
         /\ http'.transport = h.transport /\ http'.startInternal = h.startInternal
         /\ http'.start = h.start /\ http'.stopInternal = h.stopInternal
         /\ http'.stopped = h.stopped
         /\ http'.sent[m] \in {"pending", "failed"}
         /\ \A n \in Message \ {m} : http'.sent[n] = h.sent[n]
         /\ h.sendQueue # NoQueue => http'.sendQueue = h.sendQueue
         /\ http'.sendQueue # NoQueue => http'.sendQueue \in DOMAIN queue
         /\ http'.sendQueue # h.sendQueue => http'.sendQueue = h.transport
         /\ http'.sendQueue # h.sendQueue => h.state = "Connected"
         /\ queue' # queue => h.state = "Connected"
         /\ \A q \in DOMAIN queue :
              /\ queue'[q].batch \subseteq queue[q].batch
              /\ queue'[q].buffer \subseteq queue[q].buffer \cup {m}
              /\ queue'[q].loop # "ended" => queue[q].loop # "ended" \/ http'.sendQueue = q
<1>1. CASE h.state # "Connected"
  <2>1. http' = [h EXCEPT !.sent[m] = "failed"] /\ queue' = queue
    BY <1>1 DEF HttpSend
  <2>2. http' \in HttpRecord
    BY <2>1 DEF HttpRecord
  <2>3. h.sendQueue # NoQueue => h.sendQueue \in DOMAIN queue
    BY DEF HttpRecord
  <2> QED BY <2>1, <2>2, <2>3 DEF HttpRecord
<1>2. CASE h.state = "Connected"
  <2> DEFINE q == IF h.sendQueue = NoQueue THEN h.transport ELSE h.sendQueue
             old == IF h.sendQueue = NoQueue THEN IdleQueue ELSE queue[q]
  <2>1. /\ http' = [h EXCEPT !.sent[m] = "pending", !.sendQueue = q]
        /\ queue' = [queue EXCEPT ![q] = Buffered(old, m)]
    BY <1>2 DEF HttpSend
  <2>2. q \in Transport \cup {Undefined} /\ q # NoQueue
    BY TransportsAreNumbers DEF HttpRecord, Undefined, NoQueue
  <2>3. old \in QueueRecord /\ old.batch \subseteq queue[q].batch
        /\ old.buffer \subseteq queue[q].buffer
    <3>1. CASE h.sendQueue = NoQueue
      <4>1. old = IdleQueue /\ queue[q] \in QueueRecord
        BY <2>2, <3>1
      <4>2. IdleQueue \in QueueRecord /\ IdleQueue.batch = {} /\ IdleQueue.buffer = {}
        BY DEF IdleQueue, Ended, QueueRecord
      <4> HIDE DEF q, old
      <4> QED BY <4>1, <4>2
    <3>2. CASE h.sendQueue # NoQueue
      BY <2>2, <3>2
    <3> QED BY <3>1, <3>2
  <2>4. /\ Buffered(old, m) \in QueueRecord
        /\ Buffered(old, m).batch = old.batch
        /\ Buffered(old, m).buffer = old.buffer \cup {m}
    <3> HIDE DEF q, old
    <3> QED BY <2>3 DEF Buffered, QueueRecord
  <2>5. http'.sendQueue = q /\ (h.sendQueue # NoQueue => q = h.sendQueue)
        /\ (q # h.sendQueue => q = h.transport)
    <3>1. h.sendQueue # NoQueue => q = h.sendQueue
      OBVIOUS
    <3>2. q # h.sendQueue => q = h.transport
      OBVIOUS
    <3> HIDE DEF q, old
    <3> QED BY <2>1, <3>1, <3>2 DEF HttpRecord
  <2> HIDE DEF q, old
  <2>6. http' \in HttpRecord
    BY <2>1, <2>2 DEF HttpRecord
  <2>7. /\ http'.state = h.state
        /\ http'.connectionStarted = h.connectionStarted
        /\ http'.transport = h.transport /\ http'.startInternal = h.startInternal
        /\ http'.start = h.start /\ http'.stopInternal = h.stopInternal
        /\ http'.stopped = h.stopped
        /\ http'.sent[m] = "pending" /\ \A n \in Message \ {m} : http'.sent[n] = h.sent[n]
    BY <2>1 DEF HttpRecord
  <2>8. queue' \in [Transport \cup {Undefined} -> QueueRecord]
    BY <2>1, <2>2, <2>4
  <2>9. ASSUME NEW p \in DOMAIN queue
        PROVE  /\ queue'[p].batch \subseteq queue[p].batch
               /\ queue'[p].buffer \subseteq queue[p].buffer \cup {m}
               /\ queue'[p].loop # "ended" => queue[p].loop # "ended" \/ q = p
    <3>1. CASE p = q
      <4>1. queue'[p] = Buffered(old, m)
        BY <2>1, <3>1
      <4> QED BY <2>3, <2>4, <3>1, <4>1
    <3>2. CASE p # q
      BY <2>1, <3>2
    <3> QED BY <3>1, <3>2
  <2>10. q \in DOMAIN queue
    BY <2>2
  <2> QED BY <1>2, <2>5, <2>6, <2>7, <2>8, <2>9, <2>10
<1> QED BY <1>1, <1>2

(* The next transport that can be tried is one that nothing refers to; if  *)
(* there is none, the start fails.                                         *)
LEMMA TryTransportFields ==
  ASSUME NEW h \in HttpRecord, NEW objects \in [Transport -> TransportRecord],
         NEW pc \in {"connect", "renegotiate"}, TryTransport(h, objects, pc)
  PROVE  /\ http' \in HttpRecord /\ transport' \in [Transport -> TransportRecord]
         /\ http'.connectionStarted = h.connectionStarted
         /\ http'.sendQueue = h.sendQueue /\ http'.start = h.start
         /\ http'.stopInternal = h.stopInternal /\ http'.stopped = h.stopped
         /\ http'.sent = h.sent
         /\ \/ /\ http'.state = "Disconnected" /\ http'.transport = Undefined
               /\ http'.startInternal = "rejected" /\ transport' = objects
            \/ /\ http'.state = h.state /\ http'.startInternal = pc
               /\ http'.transport \in Transport /\ Unused(http'.transport)
               /\ transport'[http'.transport].st = "connecting"
               /\ transport'[http'.transport].got = {}
               /\ ~transport'[http'.transport].answered
               /\ \A t \in Transport \ {http'.transport} : transport'[t] = objects[t]
<1>1. CASE http' = StartInternalFails(h) /\ transport' = objects
  BY <1>1, StartInternalFailsFields
<1>2. CASE \E i \in DOMAIN h.rest, t \in Transport :
             /\ i \in Resolved(h.rest) /\ Unused(t)
             /\ transport' = [objects EXCEPT
                  ![t] = [Closed EXCEPT !.kind = h.rest[i], !.st = "connecting"]]
             /\ http' = [h EXCEPT !.transport = t, !.startInternal = pc,
                                  !.rest = SubSeq(@, i + 1, Len(@))]
  <2>1. PICK i \in DOMAIN h.rest, t \in Transport :
             /\ i \in Resolved(h.rest) /\ Unused(t)
             /\ transport' = [objects EXCEPT
                  ![t] = [Closed EXCEPT !.kind = h.rest[i], !.st = "connecting"]]
             /\ http' = [h EXCEPT !.transport = t, !.startInternal = pc,
                                  !.rest = SubSeq(@, i + 1, Len(@))]
    BY <1>2
  <2> DEFINE new == [Closed EXCEPT !.kind = h.rest[i], !.st = "connecting"]
  <2>2. transport' = [objects EXCEPT ![t] = new]
    BY <2>1
  <2>3. h.rest[i] \in Kind
    BY <2>1 DEF Resolved
  <2>4. new \in TransportRecord /\ new.st = "connecting" /\ new.got = {} /\ ~new.answered
    BY <2>3 DEF Closed, TransportRecord
  <2>5. SubSeq(h.rest, i + 1, Len(h.rest)) \in Seq(STRING)
    <3>1. h.rest \in Seq(STRING) /\ i \in 1..Len(h.rest) /\ Len(h.rest) \in Nat
      BY DEF HttpRecord
    <3> QED BY <3>1
  <2> HIDE DEF new
  <2>6. http' \in HttpRecord /\ http'.transport = t
    BY <2>1, <2>5 DEF HttpRecord
  <2>7. /\ http'.connectionStarted = h.connectionStarted
        /\ http'.sendQueue = h.sendQueue /\ http'.start = h.start
        /\ http'.stopInternal = h.stopInternal /\ http'.stopped = h.stopped
        /\ http'.sent = h.sent /\ http'.state = h.state /\ http'.startInternal = pc
    BY <2>1 DEF HttpRecord
  <2>8. transport' \in [Transport -> TransportRecord] /\ transport'[t] = new
        /\ \A u \in Transport \ {t} : transport'[u] = objects[u]
    BY <2>2, <2>4
  <2> QED BY <2>1, <2>4, <2>6, <2>7, <2>8
<1> QED BY <1>1, <1>2 DEF TryTransport

(* stop() of the transport there is: gone at once, or the DELETE of a long *)
(* poll is waited for.                                                     *)
LEMMA StopTransportFields ==
  ASSUME NEW h \in HttpRecord, StopTransport(h),
         transport \in [Transport -> TransportRecord]
  PROVE  /\ http' \in HttpRecord /\ transport' \in [Transport -> TransportRecord]
         /\ http'.sendQueue = h.sendQueue /\ http'.startInternal = h.startInternal
         /\ http'.start = h.start /\ http'.sent = h.sent
         /\ \/ /\ h.transport = Undefined /\ transport' = transport
               /\ http'.stopInternal = "none" /\ GoneDown(h)
            \/ /\ h.transport \in Transport
               /\ http'.stopInternal = "transport" /\ http'.transport = h.transport
               /\ http'.state = h.state /\ http'.stopped = h.stopped
               /\ http'.connectionStarted = h.connectionStarted
               /\ transport' = [transport EXCEPT ![h.transport].st = "deleting"]
            \/ /\ h.transport \in Transport
               /\ http'.stopInternal = "transport" /\ GoneDown(h)
               /\ transport' = [transport EXCEPT ![h.transport] = Closed]
<1>1. CASE h.transport = Undefined
  <2> DEFINE g == [h EXCEPT !.stopInternal = "none"]
  <2>1. http' = StopConnection(g) /\ transport' = transport
    <3>1. h.transport \notin LongPolls
      BY <1>1, TransportsAreNumbers DEF LongPolls
    <3> QED BY <1>1, <3>1 DEF StopTransport
  <2>2. g \in HttpRecord /\ g.stopInternal = "none" /\ g.state = h.state
        /\ g.connectionStarted = h.connectionStarted /\ g.stopped = h.stopped
        /\ g.sendQueue = h.sendQueue /\ g.startInternal = h.startInternal
        /\ g.start = h.start /\ g.sent = h.sent
    BY DEF HttpRecord
  <2> HIDE DEF g
  <2> QED BY <1>1, <2>1, <2>2, StopConnectionFields DEF GoneDown
<1> DEFINE waits == [h EXCEPT !.stopInternal = "transport"]
<1>2. waits \in HttpRecord /\ waits.stopInternal = "transport" /\ waits.state = h.state
      /\ waits.connectionStarted = h.connectionStarted /\ waits.stopped = h.stopped
      /\ waits.sendQueue = h.sendQueue /\ waits.startInternal = h.startInternal
      /\ waits.start = h.start /\ waits.sent = h.sent /\ waits.transport = h.transport
  BY DEF HttpRecord
<1>3. CASE h.transport # Undefined /\ h.transport \in LongPolls
  <2>1. http' = waits /\ transport' = [transport EXCEPT ![h.transport].st = "deleting"]
    BY <1>3 DEF StopTransport
  <2>2. transport' \in [Transport -> TransportRecord]
    BY <2>1 DEF TransportRecord
  <2>3. h.transport \in Transport
    BY <1>3 DEF LongPolls
  <2> HIDE DEF waits
  <2> QED BY <1>2, <2>1, <2>2, <2>3
<1>4. CASE h.transport # Undefined /\ h.transport \notin LongPolls
  <2>1. http' = StopConnection(waits) /\ transport' = [transport EXCEPT ![h.transport] = Closed]
    BY <1>4 DEF StopTransport
  <2>2. h.transport \in Transport
    BY <1>4 DEF HttpRecord
  <2>3. transport' \in [Transport -> TransportRecord]
    BY <2>1, ClosedIsTransport
  <2> HIDE DEF waits
  <2> QED BY <1>2, <2>1, <2>2, <2>3, StopConnectionFields DEF GoneDown
<1> QED BY <1>1, <1>3, <1>4

-----------------------------------------------------------------------------
(* The parts of HubConnection's handlers                                   *)

Cancelled(c, d) == \A i \in Call : d.call[i] = Called(c.call[i])

LEMMA CalledIsState ==
  ASSUME NEW s \in {"new", "pending", "streaming", "streamed", "disposed", "ended"}
  PROVE  /\ Called(s) \in {"new", "pending", "streaming", "streamed", "disposed", "ended"}
         /\ Called(s) \notin {"pending", "streaming"}
         /\ Called(s) # s => s \in {"pending", "streaming"} /\ Called(s) \in {"ended", "streamed"}
BY DEF Called

(* completeClose takes down what was started, and only then the state.     *)
LEMMA CompleteCloseFields ==
  ASSUME NEW c \in HubRecord
  PROVE  LET d == CompleteClose(c)
         IN /\ d \in HubRecord
            /\ d.attempt = c.attempt /\ d.by = c.by /\ d.awaitsStop = c.awaitsStop
            /\ d.stopDuringStartError = c.stopDuringStartError
            /\ d.handshake = c.handshake /\ d.timeout = c.timeout /\ d.delay = c.delay
            /\ d.call = c.call /\ d.state \in {c.state, "Disconnected"}
<1>1. CASE c.connectionStarted
  <2>1. CompleteClose(c) = [c EXCEPT !.state = "Disconnected", !.connectionStarted = FALSE]
    BY <1>1 DEF CompleteClose
  <2> QED BY <2>1 DEF HubRecord
<1>2. CASE ~c.connectionStarted
  BY <1>2 DEF CompleteClose
<1> QED BY <1>1, <1>2

LEMMA CleanupTimersFields ==
  ASSUME NEW c \in HubRecord
  PROVE  LET d == CleanupTimers(c)
         IN /\ d \in HubRecord
            /\ d.attempt = c.attempt /\ d.by = c.by /\ d.awaitsStop = c.awaitsStop
            /\ d.stopDuringStartError = c.stopDuringStartError
            /\ d.handshake = c.handshake /\ ~d.timeout /\ d.delay = c.delay
            /\ d.call = c.call /\ d.state = c.state
BY DEF CleanupTimers, HubRecord

LEMMA CancelCallbacksFields ==
  ASSUME NEW c \in HubRecord
  PROVE  LET d == CancelCallbacks(c)
         IN /\ d \in HubRecord
            /\ d.attempt = c.attempt /\ d.by = c.by /\ d.awaitsStop = c.awaitsStop
            /\ d.stopDuringStartError = c.stopDuringStartError
            /\ d.handshake = c.handshake /\ d.timeout = c.timeout /\ d.delay = c.delay
            /\ Cancelled(c, d) /\ d.state = c.state
<1> DEFINE told == [i \in Call |-> Called(c.call[i])]
<1>1. \A i \in Call : c.call[i] \in {"new", "pending", "streaming", "streamed", "disposed", "ended"}
  BY DEF HubRecord
<1>2. told \in [Call -> {"new", "pending", "streaming", "streamed", "disposed", "ended"}]
  BY <1>1, CalledIsState
<1>3. CancelCallbacks(c) = [c EXCEPT !.call = told]
  BY DEF CancelCallbacks, HubRecord
<1>4. \A i \in Call : told[i] = Called(c.call[i])
  OBVIOUS
<1> HIDE DEF told
<1> QED BY <1>2, <1>3, <1>4 DEF HubRecord, Cancelled

(* The onclose of the connection below tells every invocation, clears the  *)
(* timers, and leaves a connected hub reconnecting or closed.              *)
LEMMA ConnectionClosedFields ==
  ASSUME NEW c \in HubRecord, c.delay => c.state = "Reconnecting"
  PROVE  LET d == ConnectionClosed(c)
         IN /\ d \in HubRecord
            /\ d.attempt = c.attempt /\ d.by = c.by /\ d.awaitsStop = c.awaitsStop
            /\ d.stopDuringStartError = (c.attempt # "none")
            /\ d.handshake = IF c.handshake = "pending" THEN "resolved" ELSE c.handshake
            /\ ~d.timeout /\ Cancelled(c, d)
            /\ d.delay => \/ c.delay /\ d.state = c.state
                          \/ c.state = "Connected" /\ d.state = "Reconnecting"
            /\ d.state \in {c.state, "Disconnected", "Reconnecting"}
<1> DEFINE e == [c EXCEPT !.stopDuringStartError = c.attempt # "none",
                          !.handshake = IF @ = "pending" THEN "resolved" ELSE @]
           told == CleanupTimers(CancelCallbacks(e))
<1>1. /\ e \in HubRecord
      /\ e.attempt = c.attempt /\ e.by = c.by /\ e.awaitsStop = c.awaitsStop
      /\ e.stopDuringStartError = (c.attempt # "none")
      /\ e.handshake = IF c.handshake = "pending" THEN "resolved" ELSE c.handshake
      /\ e.delay = c.delay /\ e.call = c.call /\ e.state = c.state
  <2>1. (c.attempt # "none") \in BOOLEAN
    OBVIOUS
  <2>2. (IF c.handshake = "pending" THEN "resolved" ELSE c.handshake)
          \in {"none", "pending", "resolved", "rejected"}
    BY DEF HubRecord
  <2> QED BY <2>1, <2>2 DEF HubRecord
<1>2. ConnectionClosed(c) = CASE c.state = "Disconnecting" -> CompleteClose(told)
                              [] c.state = "Connected" -> Reconnect(told)
                              [] OTHER -> told
  BY DEF ConnectionClosed
<1> HIDE DEF e
<1>3. /\ told \in HubRecord
      /\ told.attempt = c.attempt /\ told.by = c.by /\ told.awaitsStop = c.awaitsStop
      /\ told.stopDuringStartError = (c.attempt # "none")
      /\ told.handshake = IF c.handshake = "pending" THEN "resolved" ELSE c.handshake
      /\ ~told.timeout /\ Cancelled(c, told) /\ told.delay = c.delay /\ told.state = c.state
  <2>1. /\ CancelCallbacks(e) \in HubRecord /\ Cancelled(e, CancelCallbacks(e))
        /\ CancelCallbacks(e).attempt = c.attempt /\ CancelCallbacks(e).by = c.by
        /\ CancelCallbacks(e).awaitsStop = c.awaitsStop
        /\ CancelCallbacks(e).stopDuringStartError = (c.attempt # "none")
        /\ CancelCallbacks(e).handshake = e.handshake
        /\ CancelCallbacks(e).delay = c.delay /\ CancelCallbacks(e).state = c.state
    BY <1>1, CancelCallbacksFields
  <2>2. told.call = CancelCallbacks(e).call
    BY <2>1, CleanupTimersFields
  <2>3. Cancelled(c, told)
    BY <1>1, <2>1, <2>2 DEF Cancelled
  <2> QED BY <1>1, <2>1, <2>3, CleanupTimersFields
<1> HIDE DEF told
<1>4. CASE c.state = "Disconnecting"
  BY <1>2, <1>3, <1>4, CompleteCloseFields DEF Cancelled
<1>5. CASE c.state = "Connected"
  <2>1. ConnectionClosed(c) = Reconnect(told)
    BY <1>2, <1>5
  <2>2. CASE Delays = 0
    BY <1>3, <1>5, <2>1, <2>2, CompleteCloseFields DEF Reconnect, Cancelled
  <2>3. CASE Delays # 0
    <3>1. ConnectionClosed(c) = [told EXCEPT !.state = "Reconnecting", !.retries = 1,
                                             !.delay = TRUE]
      BY <2>1, <2>3 DEF Reconnect
    <3>2. 1 \in 0..Delays
      BY <2>3, MessagesAreNamed
    <3>3. ConnectionClosed(c) \in HubRecord
      BY <1>3, <3>1, <3>2 DEF HubRecord
    <3>4. ConnectionClosed(c).call = told.call
      BY <1>3, <3>1 DEF HubRecord
    <3>5. /\ ConnectionClosed(c).attempt = told.attempt /\ ConnectionClosed(c).by = told.by
          /\ ConnectionClosed(c).awaitsStop = told.awaitsStop
          /\ ConnectionClosed(c).stopDuringStartError = told.stopDuringStartError
          /\ ConnectionClosed(c).handshake = told.handshake
          /\ ConnectionClosed(c).timeout = told.timeout
          /\ ConnectionClosed(c).state = "Reconnecting"
      BY <1>3, <3>1 DEF HubRecord
    <3> QED BY <1>3, <1>5, <3>3, <3>4, <3>5 DEF Cancelled
  <2> QED BY <2>2, <2>3
<1>6. CASE c.state \notin {"Disconnecting", "Connected"}
  <2>1. ConnectionClosed(c) = told
    BY <1>2, <1>6
  <2> QED BY <1>3, <2>1
<1> QED BY <1>4, <1>5, <1>6

(* stop() of the hub connection: at once while it waits to reconnect,      *)
(* otherwise it is under way and the start, if any, is told.               *)
LEMMA StopInternalFields ==
  ASSUME NEW c \in HubRecord
  PROVE  LET d == StopInternal(c)
         IN /\ d \in HubRecord
            /\ d.attempt = c.attempt /\ d.by = c.by /\ d.awaitsStop = c.awaitsStop
            /\ d.handshake = c.handshake /\ d.call = c.call
            /\ IF c.state \in {"Disconnected", "Disconnecting"} THEN d = c
               ELSE IF c.delay
               THEN /\ ~d.delay /\ d.timeout = c.timeout
                    /\ d.state \in {"Disconnected", "Disconnecting"}
                    /\ d.stopDuringStartError = c.stopDuringStartError
               ELSE /\ ~d.delay /\ ~d.timeout /\ d.state = "Disconnecting"
                    /\ d.stopDuringStartError = (c.attempt # "none")
<1>1. CASE c.state \in {"Disconnected", "Disconnecting"}
  BY <1>1 DEF StopInternal
<1>2. CASE c.state \notin {"Disconnected", "Disconnecting"} /\ c.delay
  <2> DEFINE e == [c EXCEPT !.state = "Disconnecting", !.delay = FALSE, !.retries = 0]
  <2>1. StopInternal(c) = CompleteClose(e)
    BY <1>2 DEF StopInternal
  <2>2. 0 \in 0..Delays
    BY MessagesAreNamed
  <2>3. /\ e \in HubRecord
        /\ e.attempt = c.attempt /\ e.by = c.by /\ e.awaitsStop = c.awaitsStop
        /\ e.handshake = c.handshake /\ e.call = c.call /\ e.timeout = c.timeout
        /\ ~e.delay /\ e.state = "Disconnecting"
        /\ e.stopDuringStartError = c.stopDuringStartError
    BY <2>2 DEF HubRecord
  <2> HIDE DEF e
  <2> QED BY <1>2, <2>1, <2>3, CompleteCloseFields
<1>3. CASE c.state \notin {"Disconnected", "Disconnecting"} /\ ~c.delay
  <2> DEFINE e == [c EXCEPT !.state = "Disconnecting",
                            !.stopDuringStartError = c.attempt # "none"]
  <2>1. StopInternal(c) = CleanupTimers(e)
    BY <1>3 DEF StopInternal
  <2>2. (c.attempt # "none") \in BOOLEAN
    OBVIOUS
  <2>3. /\ e \in HubRecord
        /\ e.attempt = c.attempt /\ e.by = c.by /\ e.awaitsStop = c.awaitsStop
        /\ e.handshake = c.handshake /\ e.call = c.call
        /\ ~e.delay /\ e.state = "Disconnecting"
        /\ e.stopDuringStartError = (c.attempt # "none")
    BY <1>3, <2>2 DEF HubRecord
  <2> HIDE DEF e
  <2> QED BY <1>3, <2>1, <2>3, CleanupTimersFields
<1> QED BY <1>1, <1>2, <1>3

(* What the server's data may change: invocations end, and the hub         *)
(* connection may be stopped.                                              *)
Brought(c, d) ==
  /\ d \in HubRecord
  /\ d.attempt = c.attempt /\ d.by = c.by /\ d.awaitsStop = c.awaitsStop
  /\ d.delay = c.delay
  /\ d.state \in {c.state, "Disconnecting"}
  /\ c.handshake # "none" => d.handshake # "none"
  /\ \A i \in Call :
       \/ d.call[i] = c.call[i]
       \/ c.call[i] \in {"pending", "streaming"} /\ d.call[i] \in {"ended", "streamed"}

LEMMA ProcessBrings ==
  ASSUME NEW c \in HubRecord, ~c.delay, NEW h \in HttpRecord, NEW m \in ServerText,
         NEW both \in {b \in [hub : HubRecord, http : HttpRecord] :
                         Brought(c, b.hub) /\ b.http \in {h, HttpStop(h)}}
  PROVE  Process(m, both) \in {b \in [hub : HubRecord, http : HttpRecord] :
                                 Brought(c, b.hub) /\ b.http \in {h, HttpStop(h)}}
<1> DEFINE S == {b \in [hub : HubRecord, http : HttpRecord] :
                   Brought(c, b.hub) /\ b.http \in {h, HttpStop(h)}}
<1> DEFINE Now(s) == [both EXCEPT !.hub.call[m.id] = s]
<1>1. /\ both.hub \in HubRecord /\ Brought(c, both.hub)
      /\ both.http \in {h, HttpStop(h)} /\ both = [hub |-> both.hub, http |-> both.http]
  OBVIOUS
<1>2. HttpStop(both.http) = HttpStop(h) /\ HttpStop(h) \in HttpRecord
  BY <1>1, HttpStopTwice, HttpStopFields
<1>3. \A d, g : d \in HubRecord /\ Brought(c, d) /\ g \in {h, HttpStop(h)}
        => [hub |-> d, http |-> g] \in S
  BY <1>2
<1>4. ASSUME NEW s, m.id \in Call,
             \/ s = both.hub.call[m.id]
             \/ both.hub.call[m.id] \in {"pending", "streaming"} /\ s \in {"ended", "streamed"}
      PROVE  Now(s) \in S
  <2> DEFINE d == [both.hub EXCEPT !.call[m.id] = s]
  <2>1. Now(s) = [hub |-> d, http |-> both.http]
    BY <1>1
  <2>2. d \in HubRecord
    BY <1>1, <1>4 DEF HubRecord
  <2>3. /\ d.attempt = both.hub.attempt /\ d.by = both.hub.by
        /\ d.awaitsStop = both.hub.awaitsStop /\ d.delay = both.hub.delay
        /\ d.state = both.hub.state /\ d.handshake = both.hub.handshake
        /\ \A i \in Call : d.call[i] = IF i = m.id THEN s ELSE both.hub.call[i]
    BY <1>1 DEF HubRecord
  <2> HIDE DEF d
  <2>4. Brought(c, d)
    BY <1>1, <1>4, <2>2, <2>3 DEF Brought
  <2> QED BY <1>1, <1>3, <2>1, <2>2, <2>4
<1>5. ASSUME NEW s, m.id \notin Call PROVE Now(s) = both
  <2> DEFINE d == [both.hub EXCEPT !.call[m.id] = s]
  <2>1. Now(s) = [hub |-> d, http |-> both.http]
    BY <1>1
  <2>2. both.hub.call = [i \in Call |-> both.hub.call[i]]
    BY <1>1 DEF HubRecord
  <2>3. [both.hub.call EXCEPT ![m.id] = s] = both.hub.call
    BY <1>5, <2>2
  <2>4. d = [both.hub EXCEPT !.call = both.hub.call]
    BY <2>3
  <2>5. [both.hub EXCEPT !.call = both.hub.call] = both.hub
    BY <1>1 DEF HubRecord
  <2> QED BY <1>1, <2>1, <2>4, <2>5
<1>6. Stopped(both) \in S
  <2>1. ~both.hub.delay
    BY <1>1 DEF Brought
  <2>2. StopInternal(both.hub) \in HubRecord
    BY <1>1, StopInternalFields
  <2>3. Brought(c, StopInternal(both.hub))
    <3>1. CASE both.hub.state \in {"Disconnected", "Disconnecting"}
      BY <1>1, <3>1, StopInternalFields
    <3>2. CASE both.hub.state \notin {"Disconnected", "Disconnecting"}
      <4>1. /\ StopInternal(both.hub).attempt = both.hub.attempt
            /\ StopInternal(both.hub).by = both.hub.by
            /\ StopInternal(both.hub).awaitsStop = both.hub.awaitsStop
            /\ StopInternal(both.hub).handshake = both.hub.handshake
            /\ StopInternal(both.hub).call = both.hub.call
            /\ ~StopInternal(both.hub).delay
            /\ StopInternal(both.hub).state = "Disconnecting"
        BY <1>1, <2>1, <3>2, StopInternalFields
      <4>2. StopInternal(both.hub).delay = both.hub.delay
        BY <1>1, <2>1, <2>2, <4>1 DEF HubRecord
      <4> QED BY <1>1, <2>2, <4>1, <4>2 DEF Brought
    <3> QED BY <3>1, <3>2
  <2> QED BY <1>1, <1>2, <1>3, <2>2, <2>3 DEF Stopped
<1>7. m.id \in Call => both.hub.call[m.id] \in
         {"new", "pending", "streaming", "streamed", "disposed", "ended"}
  BY <1>1 DEF HubRecord
<1>8. both \in S
  OBVIOUS
<1> SUFFICES Process(m, both) \in S
  OBVIOUS
<1> HIDE DEF S
<1>9. CASE m.type = "Completion"
  <2>1. Process(m, both) = Now(Called(both.hub.call[m.id]))
    BY <1>9 DEF Process
  <2> HIDE DEF Now
  <2>2. CASE m.id \in Call
    <3>1. \/ Called(both.hub.call[m.id]) = both.hub.call[m.id]
          \/ /\ both.hub.call[m.id] \in {"pending", "streaming"}
             /\ Called(both.hub.call[m.id]) \in {"ended", "streamed"}
      BY <1>7, <2>2, CalledIsState
    <3> QED BY <1>4, <2>1, <2>2, <3>1
  <2> QED BY <1>5, <1>8, <2>1, <2>2
<1>10. CASE m.type = "StreamItem"
  <2> DEFINE s == IF both.hub.call[m.id] = "pending" THEN "ended" ELSE both.hub.call[m.id]
  <2>1. Process(m, both) = Now(s)
    BY <1>10 DEF Process
  <2>2. \/ s = both.hub.call[m.id]
        \/ both.hub.call[m.id] \in {"pending", "streaming"} /\ s \in {"ended", "streamed"}
    OBVIOUS
  <2> HIDE DEF s, Now
  <2> QED BY <1>4, <1>5, <1>8, <2>1, <2>2
<1>11. CASE m.type = "CloseAllowingReconnect"
  <2>1. Process(m, both) = [hub |-> both.hub, http |-> HttpStop(both.http)]
    BY <1>1, <1>11 DEF Process
  <2> QED BY <1>1, <1>2, <1>3, <2>1
<1>12. CASE m.type \in {"Close", "InvocationWithId"}
  <2>1. Process(m, both) = Stopped(both)
    BY <1>12 DEF Process, InvokeClientMethod
  <2> QED BY <1>6, <2>1
<1>13. CASE m.type \notin {"Completion", "StreamItem", "CloseAllowingReconnect", "Close",
                           "InvocationWithId"}
  BY <1>8, <1>13 DEF Process
<1> QED BY <1>9, <1>10, <1>11, <1>12, <1>13

LEMMA IncomingBrings ==
  ASSUME http \in HttpRecord, NEW c \in HubRecord, ~c.delay, NEW data \in Seq(ServerText)
  PROVE  LET done == Incoming(c, data)
         IN /\ Brought(c, done.hub)
            /\ done.http \in {http, HttpStop(http)}
            /\ done.throws => done.http = http
<1> DEFINE rest == IF c.receivedHandshakeResponse THEN data ELSE AfterHandshake(data)
           accepted == c.receivedHandshakeResponse \/ Accepts(data)
           quiet == [c EXCEPT !.timeout = FALSE]
           greeted == IF c.receivedHandshakeResponse THEN quiet
                      ELSE [quiet EXCEPT !.receivedHandshakeResponse = TRUE,
                             !.handshake = IF @ = "pending" THEN "resolved" ELSE @]
           refused == [quiet EXCEPT !.handshake = IF @ = "pending" THEN "rejected" ELSE @]
           done == ProcessAll(rest, [hub |-> greeted, http |-> http])
           S == {b \in [hub : HubRecord, http : HttpRecord] :
                   Brought(c, b.hub) /\ b.http \in {http, HttpStop(http)}}
<1>1. Incoming(c, data) =
        IF ~accepted THEN [throws |-> TRUE, http |-> http, hub |-> refused]
        ELSE IF ~MessagesParse(rest) THEN [throws |-> TRUE, http |-> http, hub |-> greeted]
        ELSE [throws |-> FALSE, http |-> done.http, hub |-> ResetTimeout(done.hub)]
  BY DEF Incoming
<1>2. Brought(c, refused) /\ Brought(c, greeted)
  <2>1. /\ quiet \in HubRecord
        /\ quiet.attempt = c.attempt /\ quiet.by = c.by /\ quiet.awaitsStop = c.awaitsStop
        /\ quiet.delay = c.delay /\ quiet.state = c.state /\ quiet.call = c.call
        /\ quiet.handshake = c.handshake
    BY DEF HubRecord
  <2> HIDE DEF quiet
  <2>2. Brought(c, quiet)
    BY <2>1 DEF Brought
  <2>3. Brought(c, refused)
    BY <2>1 DEF Brought, HubRecord
  <2>4. Brought(c, [quiet EXCEPT !.receivedHandshakeResponse = TRUE,
                      !.handshake = IF @ = "pending" THEN "resolved" ELSE @])
    BY <2>1 DEF Brought, HubRecord
  <2> QED BY <2>2, <2>3, <2>4
<1>3. rest \in Seq(ServerText)
  BY DEF AfterHandshake
<1> HIDE DEF accepted, quiet, greeted, refused, rest
<1>4. [hub |-> greeted, http |-> http] \in S
  BY <1>2 DEF Brought
<1>5. \A m \in ServerText : \A b \in S : Process(m, b) \in S
  BY ProcessBrings
<1> HIDE DEF S
<1>6. done \in S
  BY <1>3, <1>4, <1>5, ProcessAllIn
<1> HIDE DEF done
<1>7. Brought(c, done.hub) /\ done.http \in {http, HttpStop(http)}
  BY <1>6 DEF S
<1>8. Brought(c, ResetTimeout(done.hub))
  <2>1. (done.hub.timeout \/ ~http.inherentKeepAlive) \in BOOLEAN
    OBVIOUS
  <2>2. ResetTimeout(done.hub) = [done.hub EXCEPT
          !.timeout = done.hub.timeout \/ ~http.inherentKeepAlive]
    BY DEF ResetTimeout
  <2>3. done.hub \in HubRecord
    BY <1>7 DEF Brought
  <2>4. LET d == ResetTimeout(done.hub)
        IN /\ d \in HubRecord
           /\ d.attempt = done.hub.attempt /\ d.by = done.hub.by
           /\ d.awaitsStop = done.hub.awaitsStop /\ d.delay = done.hub.delay
           /\ d.state = done.hub.state /\ d.call = done.hub.call
           /\ d.handshake = done.hub.handshake
    BY <2>1, <2>2, <2>3 DEF HubRecord
  <2> QED BY <1>7, <2>4 DEF Brought
<1> QED BY <1>1, <1>2, <1>7, <1>8

-----------------------------------------------------------------------------
(* The inductive invariant                                                 *)

HttpTypes ==
  /\ http \in HttpRecord
  /\ transport \in [Transport -> TransportRecord]
  /\ queue \in [Transport \cup {Undefined} -> QueueRecord]

(* The one transport in use is the one HttpConnection holds, and how far   *)
(* it has come is how far start() and stop() have.                         *)
TransportInv ==
  \A t \in Transport :
    /\ transport[t].st # "closed" <=> http.transport = t
    /\ transport[t].st = "connecting" => http.startInternal \in {"connect", "renegotiate"}
    /\ transport[t].st = "open" =>
         /\ http.startInternal \in {"none", "resolved"}
         /\ http.state \in {"Connected", "Disconnecting"}
         /\ http.stopInternal # "transport"
    /\ transport[t].st = "deleting" =>
         http.state = "Disconnecting" /\ http.stopInternal = "transport"

(* How far start() has come, against the state of the connection.          *)
StartInv ==
  /\ http.start = "await" <=> http.startInternal # "none"
  /\ http.state = "Disconnected" => http.transport = Undefined
  /\ http.state = "Connecting" => http.startInternal \in {"negotiate", "connect", "renegotiate"}
  /\ http.startInternal = "negotiate" =>
       http.state \in {"Connecting", "Disconnecting"} /\ http.transport = Undefined
  /\ http.startInternal \in {"connect", "renegotiate"} =>
       /\ http.state \in {"Connecting", "Disconnecting"} /\ http.transport # Undefined
       /\ transport[http.transport].st = "connecting"
  /\ http.startInternal = "rejected" => http.state = "Disconnected"
  /\ http.start = "awaitStop" => http.state \in {"Disconnected", "Disconnecting"}
  /\ http.start = "rejected" => http.state = "Disconnected"
  /\ http.start = "resolved" => http.connectionStarted /\ http.state = "Connected"
  /\ http.connectionStarted =>
       http.state \in {"Connected", "Disconnecting"} /\ http.start \in {"none", "resolved"}

(* How far stop() has come.                                                *)
StopInv ==
  /\ http.state = "Disconnecting" => ~http.stopped /\ http.stopInternal # "none"
  /\ http.stopInternal # "none" => http.state \in {"Disconnected", "Disconnecting"}
  /\ http.stopInternal \in {"queue", "transport"} =>
       http.startInternal \in {"none", "resolved", "rejected"}
  /\ http.stopInternal = "queue" => http.sendQueue # NoQueue
  /\ http.stopInternal = "transport" =>
       http.state = "Disconnected" \/ \E t \in Transport : transport[t].st = "deleting"

(* Only the queue in use has a loop, and before a start is resolved it is  *)
(* not that of the transport in use, which has brought nothing yet.        *)
QueueInv ==
  /\ \A q \in DOMAIN queue : queue[q].loop # "ended" => http.sendQueue = q
  /\ ~http.connectionStarted =>
       \A t \in Transport : transport[t].st # "closed" =>
         transport[t].got = {} /\ ~transport[t].answered /\ http.sendQueue # t

HttpInv == TransportInv /\ StartInv /\ StopInv /\ QueueInv

(* The connection is up and its start() does not know yet.                 *)
Unsettled == http.state = "Connected" /\ ~http.connectionStarted

(* Then only the continuation of start() is due.                           *)
Resolving ==
  Unsettled =>
    /\ http.startInternal = "resolved"
    /\ \A q \in DOMAIN queue : queue[q].loop # "woken"
    /\ \A c \in Call : ~MayCancel(c)
    /\ \A m \in Message : m # "handshake" => http.sent[m] # "failed"

(* The hub connection's state, against that of the connection below.       *)
HubStateInv ==
  /\ hub.state = "Disconnected" => http.state = "Disconnected"
  /\ hub.delay =>
       hub.state = "Reconnecting" /\ hub.attempt = "none" /\ http.state = "Disconnected"
  /\ hub.state = "Connected" => hub.attempt = "none"
  /\ http.start # "none" <=> hub.attempt = "start"
  /\ hub.attempt = "stop" => http.state \in {"Disconnected", "Disconnecting"}
  /\ hub.attempt = "failed" => http.state = "Disconnected"

(* A start whose connection has closed is told so, and its timer is gone   *)
(* or watches an answer that has come.                                     *)
HandshakeInv ==
  /\ hub.attempt \in {"start", "send", "wait"} => hub.handshake # "none"
  /\ hub.attempt \in {"send", "wait"} /\ ~http.connectionStarted =>
       hub.handshake # "pending" /\ hub.stopDuringStartError
  /\ hub.timeout =>
       \/ http.connectionStarted
       \/ /\ hub.attempt = "wait" /\ hub.handshake \in {"resolved", "rejected"}
          /\ hub.stopDuringStartError

Waits(c) == hub.call[c] \in {"pending", "streaming"}

(* What was given to a transport of a connection that is up waits for it;  *)
(* anything else that waits is still to be sent or could not be sent.      *)
CallInv ==
  \A c \in Call :
    /\ Waits(c) => http.connectionStarted \/ http.sent[c] \in {"pending", "failed"}
    /\ \A q \in DOMAIN queue :
         /\ c \in queue[q].batch /\ Waits(c) => http.connectionStarted
         /\ c \in queue[q].batch \cup queue[q].buffer => hub.call[c] # "new"

HubInv == HubStateInv /\ HandshakeInv /\ CallInv

Inv == TypeOK /\ HttpInv /\ Resolving /\ HubInv

ContractStep == Contract!Next \/ UNCHANGED Contract!vars

(* What the connection's own steps leave of what the hub connection sees.  *)
HttpStep ==
  /\ http'.start = "none" <=> http.start = "none"
  /\ http.connectionStarted /\ ~http'.connectionStarted => http'.state = "Disconnected"
  /\ http.state = "Disconnected" => http'.state = "Disconnected"
  /\ http.state \in {"Disconnected", "Disconnecting"} =>
       http'.state \in {"Disconnected", "Disconnecting"}
  /\ \A q \in DOMAIN queue :
       /\ queue'[q].batch \cup queue'[q].buffer \subseteq queue[q].batch \cup queue[q].buffer
       /\ queue'[q].batch \subseteq queue[q].batch \/ http'.connectionStarted
  /\ ~http.connectionStarted => \A m \in Message :
       http.sent[m] \in {"pending", "failed"} =>
         \/ http'.sent[m] \in {"pending", "failed"}
         \/ \E q \in DOMAIN queue : m \in queue[q].batch

-----------------------------------------------------------------------------
(* The steps of HttpConnection                                             *)

(* A loop that still has something to do for a transport that is open has  *)
(* it for a start that was resolved.                                       *)
LEMMA SendingIsStarted ==
  ASSUME HttpTypes, HttpInv, NEW q \in DOMAIN queue, CanSend(q), queue[q].loop # "ended"
  PROVE  http.connectionStarted
<1>1. q \in Transport /\ transport[q].st = "open"
  BY DEF CanSend, HttpTypes
<1>2. http.sendQueue = q
  BY DEF HttpInv, QueueInv
<1> QED BY <1>1, <1>2 DEF HttpInv, QueueInv

LEMMA StartContinuesStep ==
  ASSUME HttpTypes, HttpInv, StartContinues
  PROVE  HttpTypes' /\ HttpInv' /\ HttpStep /\ ~Unsettled' /\ ContractStep
<1>1. /\ http' \in HttpRecord
      /\ transport' = transport /\ queue' = queue
      /\ http'.state = http.state /\ http'.transport = http.transport
      /\ http'.sendQueue = http.sendQueue /\ http'.stopInternal = http.stopInternal
      /\ http'.stopped = http.stopped /\ http'.sent = http.sent
      /\ \/ /\ http.start = "await" /\ http.startInternal = "rejected"
            /\ http'.start = "rejected" /\ http'.startInternal = "none"
            /\ http'.connectionStarted = http.connectionStarted
         \/ /\ http.start = "await" /\ http.startInternal = "resolved"
            /\ http'.startInternal = "none"
            /\ http'.start = CASE http.state = "Disconnecting" -> "awaitStop"
                               [] http.state = "Connected" -> "resolved"
                               [] OTHER -> "rejected"
            /\ http'.connectionStarted =
                 (http.connectionStarted \/ http.state = "Connected")
         \/ /\ http.start = "awaitStop" /\ http.stopped
            /\ http'.start = "rejected" /\ http'.startInternal = http.startInternal
            /\ http'.connectionStarted = http.connectionStarted
  <2>1. transport' = transport /\ queue' = queue
    BY DEF StartContinues
  <2>2. CASE /\ http.start = "await" /\ http.startInternal = "rejected"
             /\ http' = [http EXCEPT !.start = "rejected", !.startInternal = "none"]
    BY <2>1, <2>2 DEF HttpTypes, HttpRecord
  <2>3. CASE /\ http.start = "await" /\ http.startInternal = "resolved"
             /\ http' = [http EXCEPT
                  !.startInternal = "none",
                  !.start = CASE http.state = "Disconnecting" -> "awaitStop"
                              [] http.state = "Connected" -> "resolved"
                              [] OTHER -> "rejected",
                  !.connectionStarted = @ \/ http.state = "Connected"]
    <3> DEFINE s == CASE http.state = "Disconnecting" -> "awaitStop"
                      [] http.state = "Connected" -> "resolved"
                      [] OTHER -> "rejected"
               b == http.connectionStarted \/ http.state = "Connected"
    <3>1. s \in {"awaitStop", "resolved", "rejected"} /\ b \in BOOLEAN
      OBVIOUS
    <3>2. http' = [http EXCEPT !.startInternal = "none", !.start = s, !.connectionStarted = b]
      BY <2>3
    <3> SUFFICES
          /\ http' \in HttpRecord
          /\ http'.state = http.state /\ http'.transport = http.transport
          /\ http'.sendQueue = http.sendQueue /\ http'.stopInternal = http.stopInternal
          /\ http'.stopped = http.stopped /\ http'.sent = http.sent
          /\ http'.startInternal = "none" /\ http'.start = s /\ http'.connectionStarted = b
      BY <2>1, <2>3
    <3> HIDE DEF s, b
    <3> QED BY <3>1, <3>2 DEF HttpTypes, HttpRecord
  <2>4. CASE /\ http.start = "awaitStop" /\ http.stopped
             /\ http' = [http EXCEPT !.start = "rejected"]
    BY <2>1, <2>4 DEF HttpTypes, HttpRecord
  <2> QED BY <2>2, <2>3, <2>4 DEF StartContinues
<1>2. HttpTypes'
  BY <1>1 DEF HttpTypes
<1>3. http.state \in {"Disconnected", "Connecting", "Connected", "Disconnecting"}
      /\ http.connectionStarted \in BOOLEAN
  BY DEF HttpTypes, HttpRecord
<1>4. TransportInv'
  BY <1>1 DEF HttpInv, TransportInv
<1>5. StartInv'
  BY <1>1, <1>3 DEF HttpInv, StartInv, StopInv
<1>6. StopInv'
  BY <1>1 DEF HttpInv, StopInv
<1>7. QueueInv'
  BY <1>1, <1>3 DEF HttpInv, QueueInv
<1>8. HttpStep
  BY <1>1, <1>3 DEF HttpInv, StartInv, HttpStep
<1>9. ~Unsettled'
  BY <1>1, <1>3 DEF HttpInv, StartInv, Unsettled
<1>10. ContractStep
  BY <1>1, <1>3 DEF HttpInv, StartInv, StopInv, ContractStep, Contract!Next, Contract!vars,
                    Contract!Resolve, Contract!Reject
<1> QED BY <1>2, <1>4, <1>5, <1>6, <1>7, <1>8, <1>9, <1>10 DEF HttpInv

LEMMA SendLoopStep ==
  ASSUME HttpTypes, HttpInv, ~Unsettled, NEW q \in DOMAIN queue, SendLoop(q)
  PROVE  HttpTypes' /\ HttpInv' /\ HttpStep /\ ~Unsettled' /\ ContractStep
<1> DEFINE todo == queue[q].buffer
<1>1. /\ queue[q].loop = "woken" /\ queue[q] \in QueueRecord /\ todo \in SUBSET Message
      /\ q \in Transport \cup {Undefined}
  BY DEF SendLoop, HttpTypes, QueueRecord
<1>2. \E new \in QueueRecord :
        /\ queue' = [queue EXCEPT ![q] = new]
        /\ new.buffer = {} /\ new.batch \subseteq queue[q].batch \cup todo
        /\ new.batch \subseteq queue[q].batch \/ CanSend(q)
  <2>1. CASE queue' = [queue EXCEPT ![q] = Ended]
    <3>1. Ended \in QueueRecord /\ Ended.buffer = {} /\ Ended.batch = {}
      BY DEF Ended, QueueRecord
    <3> QED BY <2>1, <3>1
  <2>2. CASE queue' = [queue EXCEPT ![q] = [queue[q] EXCEPT !.buffer = {}, !.loop = "idle"]]
    <3> DEFINE new == [queue[q] EXCEPT !.buffer = {}, !.loop = "idle"]
    <3>1. new \in QueueRecord /\ new.buffer = {} /\ new.batch = queue[q].batch
      BY <1>1 DEF QueueRecord
    <3> QED BY <2>2, <3>1
  <2>3. CASE /\ CanSend(q)
             /\ queue' = [queue EXCEPT ![q] =
                            [queue[q] EXCEPT !.buffer = {}, !.loop = "sending", !.batch = todo]]
    <3> DEFINE new == [queue[q] EXCEPT !.buffer = {}, !.loop = "sending", !.batch = todo]
    <3>1. new \in QueueRecord /\ new.buffer = {} /\ new.batch = todo
      BY <1>1 DEF QueueRecord
    <3> QED BY <2>3, <3>1
  <2>4. [[queue[q] EXCEPT !.buffer = {}] EXCEPT !.loop = "idle"]
          = [queue[q] EXCEPT !.buffer = {}, !.loop = "idle"]
        /\ [[queue[q] EXCEPT !.buffer = {}] EXCEPT !.loop = "sending", !.batch = todo]
          = [queue[q] EXCEPT !.buffer = {}, !.loop = "sending", !.batch = todo]
    BY <1>1 DEF QueueRecord
  <2> QED BY <2>1, <2>2, <2>3, <2>4 DEF SendLoop
<1>3. PICK new \in QueueRecord :
        /\ queue' = [queue EXCEPT ![q] = new]
        /\ new.buffer = {} /\ new.batch \subseteq queue[q].batch \cup todo
        /\ new.batch \subseteq queue[q].batch \/ CanSend(q)
  BY <1>2
<1>4. \/ http' = Settle(http, todo, "failed") /\ transport' = transport
      \/ /\ CanSend(q) /\ http' \in {http, Settle(http, todo, "ok")}
         /\ transport' = [transport EXCEPT ![q].got = @ \cup todo]
  BY DEF SendLoop
<1>5. /\ http' \in HttpRecord
      /\ http'.state = http.state /\ http'.connectionStarted = http.connectionStarted
      /\ http'.transport = http.transport /\ http'.sendQueue = http.sendQueue
      /\ http'.startInternal = http.startInternal /\ http'.start = http.start
      /\ http'.stopInternal = http.stopInternal /\ http'.stopped = http.stopped
      /\ \/ CanSend(q)
         \/ \A m \in Message : http'.sent[m] \in {"failed", http.sent[m]}
  <2>1. http \in HttpRecord
    BY DEF HttpTypes
  <2>2. CASE http' = Settle(http, todo, "failed")
    BY <1>1, <2>1, <2>2, SettleFields
  <2>3. CASE CanSend(q) /\ http' = Settle(http, todo, "ok")
    BY <1>1, <2>1, <2>3, SettleFields
  <2>4. CASE CanSend(q) /\ http' = http
    BY <2>1, <2>4
  <2> QED BY <1>4, <2>2, <2>3, <2>4
<1>6. /\ transport' \in [Transport -> TransportRecord]
      /\ \A t \in Transport : transport'[t].st = transport[t].st
      /\ transport' # transport => CanSend(q)
  <2>1. CASE transport' = transport
    BY <2>1 DEF HttpTypes
  <2>2. CASE CanSend(q) /\ transport' = [transport EXCEPT ![q].got = @ \cup todo]
    <3>1. [transport[q] EXCEPT !.got = @ \cup todo] \in TransportRecord
          /\ [transport[q] EXCEPT !.got = @ \cup todo].st = transport[q].st
      BY <1>1, <2>2 DEF HttpTypes, TransportRecord, CanSend
    <3> QED BY <1>1, <2>2, <3>1 DEF HttpTypes
  <2> QED BY <1>4, <2>1, <2>2
<1>7. \A p \in DOMAIN queue : queue'[p] = IF p = q THEN new ELSE queue[p]
  BY <1>3
<1>8. queue' \in [Transport \cup {Undefined} -> QueueRecord]
  BY <1>3 DEF HttpTypes
<1>9. HttpTypes'
  BY <1>5, <1>6, <1>8 DEF HttpTypes
<1>10. CanSend(q) => http.connectionStarted
  BY <1>1, SendingIsStarted
<1>11. TransportInv'
  BY <1>5, <1>6 DEF HttpInv, TransportInv
<1>12. StartInv'
  <2>1. http.transport # Undefined => http.transport \in Transport
    BY DEF HttpTypes, HttpRecord
  <2> QED BY <1>5, <1>6, <2>1 DEF HttpInv, StartInv
<1>13. StopInv'
  BY <1>5, <1>6 DEF HttpInv, StopInv
<1>14. QueueInv'
  <2>1. \A p \in DOMAIN queue : queue'[p].loop # "ended" => queue[p].loop # "ended"
    BY <1>1, <1>7
  <2>2. DOMAIN queue' = DOMAIN queue
    BY <1>3
  <2> QED BY <1>5, <1>6, <1>10, <2>1, <2>2 DEF HttpInv, QueueInv
<1>15. HttpStep
  BY <1>3, <1>5, <1>7, <1>10 DEF HttpStep
<1>16. ~Unsettled' /\ ContractStep
  BY <1>5 DEF Unsettled, ContractStep, Contract!vars
<1> QED BY <1>9, <1>11, <1>12, <1>13, <1>14, <1>15, <1>16 DEF HttpInv

(* What stop() does once start() and the queue have ended, of a connection *)
(* that has no queue any more.                                             *)
LEMMA StopTransportStep ==
  ASSUME HttpTypes, HttpInv, NEW h \in HttpRecord, StopTransport(h), queue' = queue,
         h.state = http.state, h.connectionStarted = http.connectionStarted,
         h.transport = http.transport, h.sendQueue = NoQueue,
         h.startInternal = http.startInternal, h.start = http.start,
         h.stopInternal = http.stopInternal, h.stopped = http.stopped, h.sent = http.sent,
         http.stopInternal # "none", http.startInternal \in {"none", "resolved", "rejected"},
         \A q \in DOMAIN queue : queue[q].loop = "ended"
  PROVE  HttpTypes' /\ HttpInv' /\ HttpStep /\ ~Unsettled' /\ ContractStep
<1>1. transport \in [Transport -> TransportRecord]
  BY DEF HttpTypes
<1>2. /\ http' \in HttpRecord /\ transport' \in [Transport -> TransportRecord]
      /\ http'.sendQueue = NoQueue /\ http'.startInternal = http.startInternal
      /\ http'.start = http.start /\ http'.sent = http.sent
  BY <1>1, StopTransportFields
<1>3. HttpTypes'
  BY <1>2 DEF HttpTypes
<1>4. http.state \in {"Disconnected", "Disconnecting"}
      /\ http.connectionStarted \in BOOLEAN /\ http.stopped \in BOOLEAN
  BY DEF HttpInv, StopInv, HttpTypes, HttpRecord
<1>5. /\ transport[http.transport].st # "closed" \/ http.transport \notin Transport
      /\ \A t \in Transport : t # http.transport => transport[t].st = "closed"
  BY DEF HttpInv, TransportInv
<1>6. \/ Gone:: /\ http'.state = "Disconnected" /\ ~http'.connectionStarted
                /\ http'.transport = Undefined
                /\ http'.stopInternal \in {"none", "transport"}
                /\ \A t \in Transport : transport'[t].st = "closed"
      \/ Deletes:: /\ http.transport \in Transport
                   /\ http'.stopInternal = "transport" /\ http'.transport = http.transport
                   /\ http'.state = "Disconnecting" /\ http.state = "Disconnecting"
                   /\ http'.stopped = http.stopped
                   /\ http'.connectionStarted = http.connectionStarted
                   /\ transport' = [transport EXCEPT ![http.transport].st = "deleting"]
  <2>1. CASE /\ h.transport = Undefined /\ transport' = transport
             /\ http'.stopInternal = "none" /\ GoneDown(h)
    <3>1. Undefined \notin Transport
      BY TransportsAreNumbers
    <3>2. http.state = "Disconnected" => ~http.connectionStarted
      BY DEF HttpInv, StartInv
    <3> QED BY <1>4, <1>5, <2>1, <3>1, <3>2 DEF GoneDown
  <2>2. CASE /\ h.transport \in Transport
             /\ http'.stopInternal = "transport" /\ http'.transport = h.transport
             /\ http'.state = h.state /\ http'.stopped = h.stopped
             /\ http'.connectionStarted = h.connectionStarted
             /\ transport' = [transport EXCEPT ![h.transport].st = "deleting"]
    <3>1. http.state # "Disconnected"
      BY <2>2, TransportsAreNumbers DEF HttpInv, StartInv
    <3> QED BY <1>4, <2>2, <3>1
  <2>3. CASE /\ h.transport \in Transport
             /\ http'.stopInternal = "transport" /\ GoneDown(h)
             /\ transport' = [transport EXCEPT ![h.transport] = Closed]
    <3>1. \A t \in Transport : transport'[t].st = "closed"
      BY <1>1, <1>5, <2>3 DEF Closed
    <3>2. http.state # "Disconnected"
      BY <2>3, TransportsAreNumbers DEF HttpInv, StartInv
    <3> QED BY <1>4, <2>3, <3>1, <3>2 DEF GoneDown
  <2> QED BY <1>1, <2>1, <2>2, <2>3, StopTransportFields
<1>7. CASE <1>6!Gone
  <2>1. Undefined \notin Transport
    BY TransportsAreNumbers
  <2>2. TransportInv'
    BY <1>7, <2>1 DEF TransportInv
  <2>3. StartInv'
    BY <1>2, <1>4, <1>7 DEF HttpInv, StartInv
  <2>4. StopInv'
    BY <1>2, <1>7 DEF HttpInv, StopInv
  <2>5. QueueInv'
    BY <1>7 DEF QueueInv
  <2>6. HttpStep /\ ~Unsettled'
    BY <1>2, <1>4, <1>7 DEF HttpStep, Unsettled
  <2>7. ContractStep
    <3>1. http'.connectionStarted = FALSE
      BY <1>2, <1>7 DEF HttpRecord
    <3>2. http.state = "Disconnected" => http.connectionStarted = FALSE
      BY <1>4 DEF HttpInv, StartInv
    <3> QED BY <1>2, <1>4, <1>7, <3>1, <3>2 DEF ContractStep, Contract!Next, Contract!vars,
                                                Contract!GoDown
  <2> QED BY <1>3, <2>2, <2>3, <2>4, <2>5, <2>6, <2>7 DEF HttpInv
<1>8. CASE <1>6!Deletes
  <2>1. \A t \in Transport : transport'[t].st = IF t = http.transport THEN "deleting" ELSE "closed"
    BY <1>1, <1>5, <1>8 DEF TransportRecord
  <2>2. TransportInv'
    BY <1>8, <2>1 DEF TransportInv
  <2>3. StartInv'
    BY <1>2, <1>4, <1>8 DEF HttpInv, StartInv
  <2>4. StopInv'
    BY <1>2, <1>8 DEF HttpInv, StopInv
  <2>5. QueueInv'
    <3>1. \A t \in Transport : t # NoQueue
      BY TransportsAreNumbers DEF NoQueue
    <3>2. \A t \in Transport : transport'[t].got = transport[t].got
                               /\ transport'[t].answered = transport[t].answered
      BY <1>1, <1>8 DEF TransportRecord
    <3> QED BY <1>2, <1>8, <2>1, <1>5, <3>1, <3>2 DEF HttpInv, QueueInv
  <2>6. HttpStep /\ ~Unsettled'
    BY <1>2, <1>4, <1>8 DEF HttpStep, Unsettled
  <2>7. ContractStep
    BY <1>2, <1>8 DEF ContractStep, Contract!vars
  <2> QED BY <1>3, <2>2, <2>3, <2>4, <2>5, <2>6, <2>7 DEF HttpInv
<1> QED BY <1>6, <1>7, <1>8

LEMMA StopContinuesStep ==
  ASSUME HttpTypes, HttpInv, ~Unsettled, StopContinues
  PROVE  HttpTypes' /\ HttpInv' /\ HttpStep /\ ~Unsettled' /\ ContractStep
<1>1. CASE http.sendQueue = NoQueue /\ StopTransport(http) /\ queue' = queue
  <2>1. \A q \in DOMAIN queue : queue[q].loop = "ended"
    <3>1. \A q \in DOMAIN queue : q # NoQueue
      BY TransportsAreNumbers DEF HttpTypes, NoQueue, Undefined
    <3> QED BY <1>1, <3>1 DEF HttpInv, QueueInv
  <2>2. http.stopInternal # "none" /\ http.startInternal \in {"none", "resolved", "rejected"}
    BY DEF StopContinues
  <2> QED BY <1>1, <2>1, <2>2, StopTransportStep DEF HttpTypes
<1>2. CASE /\ http.sendQueue # NoQueue
           /\ http' = [http EXCEPT !.stopInternal = "queue"]
           /\ queue' = [queue EXCEPT ![http.sendQueue] = QueueStop(@)]
           /\ transport' = transport
  <2> DEFINE q == http.sendQueue
             new == QueueStop(queue[q])
  <2>1. http.stopInternal = "awaitStart" /\ http.startInternal \in {"none", "resolved", "rejected"}
    BY DEF StopContinues
  <2>2. q \in DOMAIN queue /\ queue[q] \in QueueRecord
    BY <1>2 DEF HttpTypes, HttpRecord
  <2>3. new \in QueueRecord /\ new.batch = queue[q].batch /\ new.buffer = queue[q].buffer
    BY <2>2 DEF QueueStop, QueueRecord
  <2>4. queue' = [queue EXCEPT ![q] = new]
    BY <1>2
  <2> HIDE DEF new
  <2>5. /\ http' \in HttpRecord /\ http'.stopInternal = "queue"
        /\ http'.state = http.state /\ http'.connectionStarted = http.connectionStarted
        /\ http'.transport = http.transport /\ http'.sendQueue = http.sendQueue
        /\ http'.startInternal = http.startInternal /\ http'.start = http.start
        /\ http'.stopped = http.stopped /\ http'.sent = http.sent
    BY <1>2 DEF HttpTypes, HttpRecord
  <2>6. HttpTypes'
    BY <1>2, <2>2, <2>3, <2>4, <2>5 DEF HttpTypes
  <2>7. \A p \in DOMAIN queue : queue'[p] = IF p = q THEN new ELSE queue[p]
    BY <2>4
  <2>8. TransportInv'
    BY <1>2, <2>1, <2>5 DEF HttpInv, TransportInv
  <2>9. StartInv'
    BY <1>2, <2>5 DEF HttpInv, StartInv
  <2>10. StopInv'
    BY <1>2, <2>1, <2>5 DEF HttpInv, StopInv
  <2>11. QueueInv'
    BY <1>2, <2>4, <2>5, <2>7 DEF HttpInv, QueueInv
  <2>12. HttpStep /\ ~Unsettled'
    BY <2>3, <2>5, <2>7 DEF HttpStep, Unsettled
  <2>13. ContractStep
    BY <2>5 DEF ContractStep, Contract!vars
  <2> QED BY <2>6, <2>8, <2>9, <2>10, <2>11, <2>12, <2>13 DEF HttpInv
<1> QED BY <1>1, <1>2 DEF StopContinues

LEMMA QueueStoppedStep ==
  ASSUME HttpTypes, HttpInv, QueueStopped
  PROVE  HttpTypes' /\ HttpInv' /\ HttpStep /\ ~Unsettled' /\ ContractStep
<1> DEFINE h == [http EXCEPT !.sendQueue = NoQueue]
<1>1. /\ http.stopInternal = "queue" /\ queue[http.sendQueue].loop = "ended"
      /\ StopTransport(h) /\ queue' = queue
  BY DEF QueueStopped
<1>2. /\ h \in HttpRecord
      /\ h.state = http.state /\ h.connectionStarted = http.connectionStarted
      /\ h.transport = http.transport /\ h.sendQueue = NoQueue
      /\ h.startInternal = http.startInternal /\ h.start = http.start
      /\ h.stopInternal = http.stopInternal /\ h.stopped = http.stopped /\ h.sent = http.sent
  BY DEF HttpTypes, HttpRecord
<1> HIDE DEF h
<1>3. \A q \in DOMAIN queue : queue[q].loop = "ended"
  BY <1>1 DEF HttpInv, QueueInv
<1>4. http.startInternal \in {"none", "resolved", "rejected"}
  BY <1>1 DEF HttpInv, StopInv
<1> QED BY <1>1, <1>2, <1>3, <1>4, StopTransportStep

LEMMA TransportStoppedStep ==
  ASSUME HttpTypes, HttpInv, ~Unsettled, TransportStopped
  PROVE  HttpTypes' /\ HttpInv' /\ HttpStep /\ ~Unsettled' /\ ContractStep
<1>1. /\ http.stopInternal = "transport" /\ transport' = transport /\ queue' = queue
      /\ http' = [http EXCEPT !.transport = Undefined, !.stopInternal = "none"]
      /\ \A t \in Transport : transport[t].st # "deleting"
  BY DEF TransportStopped, IsDeleting
<1>2. /\ http' \in HttpRecord /\ http'.stopInternal = "none" /\ http'.transport = Undefined
      /\ http'.state = http.state /\ http'.connectionStarted = http.connectionStarted
      /\ http'.sendQueue = http.sendQueue
      /\ http'.startInternal = http.startInternal /\ http'.start = http.start
      /\ http'.stopped = http.stopped /\ http'.sent = http.sent
  BY <1>1 DEF HttpTypes, HttpRecord
<1>3. HttpTypes'
  BY <1>1, <1>2 DEF HttpTypes
<1>4. \A t \in Transport : transport[t].st = "closed"
  <2>1. \A t \in Transport : transport[t].st \in {"closed", "connecting", "open", "deleting"}
    BY DEF HttpTypes, TransportRecord
  <2> QED BY <1>1, <2>1 DEF HttpInv, TransportInv, StopInv
<1>5. http.state = "Disconnected"
  BY <1>1 DEF HttpInv, StopInv
<1>6. TransportInv'
  <2>1. Undefined \notin Transport
    BY TransportsAreNumbers
  <2> QED BY <1>1, <1>2, <1>4, <2>1 DEF HttpInv, TransportInv
<1>7. StartInv'
  BY <1>1, <1>2, <1>5 DEF HttpInv, StartInv
<1>8. StopInv' /\ QueueInv'
  BY <1>1, <1>2, <1>5 DEF HttpInv, StopInv, QueueInv
<1>9. HttpStep /\ ~Unsettled' /\ ContractStep
  BY <1>1, <1>2, <1>5 DEF HttpStep, Unsettled, ContractStep, Contract!vars
<1> QED BY <1>3, <1>6, <1>7, <1>8, <1>9 DEF HttpInv

(* The start that is under way fails and leaves no transport.              *)
LEMMA StartFailsStep ==
  ASSUME HttpTypes, HttpInv, http.startInternal \in {"negotiate", "connect", "renegotiate"},
         http' \in HttpRecord, http'.state = "Disconnected", http'.transport = Undefined,
         http'.startInternal = "rejected", http'.start = http.start, http'.sent = http.sent,
         http'.connectionStarted = http.connectionStarted,
         http'.sendQueue = http.sendQueue, http'.stopInternal = http.stopInternal,
         transport' \in [Transport -> TransportRecord], queue' = queue,
         \A t \in Transport : transport'[t].st = "closed"
  PROVE  HttpTypes' /\ HttpInv' /\ HttpStep /\ ~Unsettled' /\ ContractStep
<1>1. http.start = "await" /\ http.connectionStarted = FALSE
      /\ http.state \in {"Connecting", "Disconnecting"}
      /\ http.stopInternal \in {"none", "awaitStart"}
  BY DEF HttpTypes, HttpRecord, HttpInv, StartInv, StopInv
<1>2. HttpTypes'
  BY DEF HttpTypes
<1>3. TransportInv'
  <2>1. Undefined \notin Transport
    BY TransportsAreNumbers
  <2> QED BY <2>1 DEF TransportInv
<1>4. StartInv'
  BY <1>1 DEF StartInv
<1>5. StopInv' /\ QueueInv'
  BY <1>1 DEF HttpInv, StopInv, QueueInv
<1>6. HttpStep /\ ~Unsettled'
  BY <1>1 DEF HttpStep, Unsettled
<1>7. ContractStep
  BY <1>1 DEF ContractStep, Contract!Next, Contract!GoDown
<1> QED BY <1>2, <1>3, <1>4, <1>5, <1>6, <1>7 DEF HttpInv

(* The start that is under way tries a transport, when there is none.      *)
LEMMA TryStep ==
  ASSUME HttpTypes, HttpInv, http.startInternal \in {"negotiate", "connect"},
         http.state = "Connecting", queue' = queue,
         NEW h \in HttpRecord, NEW objects \in [Transport -> TransportRecord],
         h.state = http.state, h.connectionStarted = http.connectionStarted,
         h.sendQueue = http.sendQueue, h.start = http.start,
         h.stopInternal = http.stopInternal, h.stopped = http.stopped, h.sent = http.sent,
         \A t \in Transport : objects[t].st = "closed",
         NEW pc \in {"connect", "renegotiate"}, TryTransport(h, objects, pc)
  PROVE  HttpTypes' /\ HttpInv' /\ HttpStep /\ ~Unsettled' /\ ContractStep
<1>1. /\ http' \in HttpRecord /\ transport' \in [Transport -> TransportRecord]
      /\ http'.connectionStarted = http.connectionStarted
      /\ http'.sendQueue = http.sendQueue /\ http'.start = http.start
      /\ http'.stopInternal = http.stopInternal /\ http'.stopped = http.stopped
      /\ http'.sent = http.sent
  BY TryTransportFields
<1>2. CASE /\ http'.state = "Disconnected" /\ http'.transport = Undefined
           /\ http'.startInternal = "rejected" /\ transport' = objects
  <2>1. \A t \in Transport : transport'[t].st = "closed"
    BY <1>2
  <2> QED BY <1>1, <1>2, <2>1, StartFailsStep
<1>3. CASE /\ http'.state = h.state /\ http'.startInternal = pc
           /\ http'.transport \in Transport /\ Unused(http'.transport)
           /\ transport'[http'.transport].st = "connecting"
           /\ transport'[http'.transport].got = {}
           /\ ~transport'[http'.transport].answered
           /\ \A t \in Transport \ {http'.transport} : transport'[t] = objects[t]
  <2>1. HttpTypes'
    BY <1>1 DEF HttpTypes
  <2>2. \A t \in Transport \ {http'.transport} : transport'[t].st = "closed"
    BY <1>3
  <2>3. http'.transport # http.sendQueue /\ http'.transport # Undefined
    BY <1>3, TransportsAreNumbers DEF Unused
  <2>4. http.start = "await" /\ ~http.connectionStarted /\ http.stopInternal = "none"
    BY DEF HttpInv, StartInv, StopInv
  <2>5. TransportInv'
    BY <1>3, <2>2 DEF TransportInv
  <2>6. StartInv'
    BY <1>1, <1>3, <2>3, <2>4 DEF StartInv
  <2>7. StopInv' /\ QueueInv'
    BY <1>1, <1>3, <2>2, <2>3, <2>4 DEF HttpInv, StopInv, QueueInv
  <2>8. HttpStep /\ ~Unsettled' /\ ContractStep
    BY <1>1, <1>3 DEF HttpStep, Unsettled, ContractStep, Contract!vars
  <2> QED BY <2>1, <2>5, <2>6, <2>7, <2>8 DEF HttpInv
<1> QED BY <1>2, <1>3, TryTransportFields

LEMMA NegotiateStep ==
  ASSUME HttpTypes, HttpInv, ~Unsettled, Negotiate
  PROVE  HttpTypes' /\ HttpInv' /\ HttpStep /\ ~Unsettled' /\ ContractStep
<1>1. http.startInternal = "negotiate" /\ queue' = queue /\ http \in HttpRecord
      /\ transport \in [Transport -> TransportRecord]
  BY DEF Negotiate, HttpTypes
<1>2. \A t \in Transport : transport[t].st = "closed"
  BY <1>1, TransportsAreNumbers DEF HttpInv, StartInv, TransportInv
<1>3. CASE http' = StartInternalFails(http) /\ transport' = transport
  BY <1>1, <1>2, <1>3, StartFailsStep, StartInternalFailsFields
<1>4. CASE /\ http' = [http EXCEPT !.redirects = @ + 1] /\ transport' = transport
           /\ http.redirects < MaxRedirects /\ http.redirects + 1 # MaxRedirects
  <2>1. http.redirects + 1 \in 0..MaxRedirects
    BY <1>1, <1>4, OffersAreLists DEF HttpRecord
  <2>2. /\ http' \in HttpRecord /\ http'.stopInternal = http.stopInternal
        /\ http'.transport = http.transport
        /\ http'.state = http.state /\ http'.connectionStarted = http.connectionStarted
        /\ http'.sendQueue = http.sendQueue
        /\ http'.startInternal = http.startInternal /\ http'.start = http.start
        /\ http'.stopped = http.stopped /\ http'.sent = http.sent
    BY <1>1, <1>4, <2>1 DEF HttpRecord
  <2>3. HttpTypes'
    BY <1>1, <1>4, <2>2 DEF HttpTypes
  <2>4. HttpInv'
    BY <1>1, <1>4, <2>2 DEF HttpInv, TransportInv, StartInv, StopInv, QueueInv
  <2> QED BY <1>1, <2>2, <2>3, <2>4 DEF HttpStep, Unsettled, ContractStep, Contract!vars
<1>5. CASE /\ http.state = "Connecting"
           /\ \E offer \in Offers :
                TryTransport([http EXCEPT !.rest = offer], transport, "connect")
  <2>1. PICK offer \in Offers : TryTransport([http EXCEPT !.rest = offer], transport, "connect")
    BY <1>5
  <2> DEFINE h == [http EXCEPT !.rest = offer]
  <2>2. offer \in Seq(STRING)
    BY OffersAreLists
  <2>3. /\ h \in HttpRecord
        /\ h.state = http.state /\ h.connectionStarted = http.connectionStarted
        /\ h.sendQueue = http.sendQueue /\ h.start = http.start
        /\ h.stopInternal = http.stopInternal /\ h.stopped = http.stopped
        /\ h.sent = http.sent
    BY <1>1, <2>2 DEF HttpRecord
  <2>4. TryTransport(h, transport, "connect")
    BY <2>1
  <2> HIDE DEF h
  <2> QED BY <1>1, <1>2, <1>5, <2>3, <2>4, TryStep
<1> QED BY <1>3, <1>4, <1>5 DEF Negotiate

LEMMA RenegotiateStep ==
  ASSUME HttpTypes, HttpInv, ~Unsettled, Renegotiate
  PROVE  HttpTypes' /\ HttpInv' /\ HttpStep /\ ~Unsettled' /\ ContractStep
<1>1. http.startInternal = "renegotiate" /\ queue' = queue /\ http \in HttpRecord
      /\ transport \in [Transport -> TransportRecord]
  BY DEF Renegotiate, HttpTypes
<1>2. CASE /\ http' = StartInternalFails(http)
           /\ transport' = [transport EXCEPT ![http.transport] = Closed]
  <2>1. \A t \in Transport : transport'[t].st = "closed"
    BY <1>1, <1>2 DEF HttpInv, TransportInv, Closed
  <2>2. transport' \in [Transport -> TransportRecord]
    BY <1>1, <1>2, ClosedIsTransport
  <2> QED BY <1>1, <1>2, <2>1, <2>2, StartFailsStep, StartInternalFailsFields
<1>3. CASE http' = [http EXCEPT !.startInternal = "connect"] /\ transport' = transport
  <2>1. /\ http' \in HttpRecord /\ http'.stopInternal = http.stopInternal
        /\ http'.transport = http.transport
        /\ http'.state = http.state /\ http'.connectionStarted = http.connectionStarted
        /\ http'.sendQueue = http.sendQueue
        /\ http'.startInternal = "connect" /\ http'.start = http.start
        /\ http'.stopped = http.stopped /\ http'.sent = http.sent
    BY <1>1, <1>3 DEF HttpRecord
  <2>2. HttpTypes'
    BY <1>1, <1>3, <2>1 DEF HttpTypes
  <2>3. HttpInv'
    BY <1>1, <1>3, <2>1 DEF HttpInv, TransportInv, StartInv, StopInv, QueueInv
  <2> QED BY <1>1, <2>1, <2>2, <2>3 DEF HttpStep, Unsettled, ContractStep, Contract!vars
<1> QED BY <1>2, <1>3 DEF Renegotiate

LEMMA ConnectFailsStep ==
  ASSUME HttpTypes, HttpInv, ~Unsettled, ConnectFails
  PROVE  HttpTypes' /\ HttpInv' /\ HttpStep /\ ~Unsettled' /\ ContractStep
<1> DEFINE objects == [transport EXCEPT ![http.transport] = Closed]
<1>1. http.startInternal = "connect" /\ queue' = queue /\ http \in HttpRecord
      /\ transport \in [Transport -> TransportRecord]
  BY DEF ConnectFails, HttpTypes
<1>2. objects \in [Transport -> TransportRecord]
      /\ \A t \in Transport : objects[t].st = "closed"
  BY <1>1, ClosedIsTransport DEF HttpInv, TransportInv, Closed
<1>3. CASE http.state = "Connecting"
  <2>1. TryTransport(http, objects, "renegotiate")
    BY <1>3 DEF ConnectFails
  <2> HIDE DEF objects
  <2> QED BY <1>1, <1>2, <1>3, <2>1, TryStep
<1>4. CASE http.state # "Connecting"
  <2>1. http' = StartInternalFails(http) /\ transport' = objects
    BY <1>4 DEF ConnectFails
  <2> HIDE DEF objects
  <2> QED BY <1>1, <1>2, <2>1, StartFailsStep, StartInternalFailsFields
<1> QED BY <1>3, <1>4

(* The state a connection is in when start() does not know yet that it is  *)
(* up: nothing else has changed.                                           *)
LEMMA ConnectSucceedsStep ==
  ASSUME HttpTypes, HttpInv, ~Unsettled, ConnectSucceeds
  PROVE  HttpTypes' /\ HttpInv' /\ HttpStep /\ ContractStep
         /\ http'.startInternal = "resolved" /\ http'.sent = http.sent /\ queue' = queue
         /\ http'.connectionStarted = http.connectionStarted
<1> DEFINE t == http.transport
<1>1. /\ http.startInternal = "connect" /\ queue' = queue /\ http \in HttpRecord
      /\ transport \in [Transport -> TransportRecord]
      /\ http' = StartInternalEnds(http) /\ transport' = [transport EXCEPT ![t].st = "open"]
  BY DEF ConnectSucceeds, HttpTypes
<1>2. /\ t \in Transport /\ transport[t].st = "connecting"
      /\ http.state \in {"Connecting", "Disconnecting"} /\ http.start = "await"
      /\ ~http.connectionStarted /\ http.stopInternal \in {"none", "awaitStart"}
  BY <1>1 DEF HttpInv, StartInv, StopInv, HttpRecord
<1>3. /\ transport' \in [Transport -> TransportRecord] /\ transport'[t].st = "open"
      /\ transport'[t].got = transport[t].got
      /\ transport'[t].answered = transport[t].answered
      /\ \A u \in Transport \ {t} : transport'[u] = transport[u]
  BY <1>1, <1>2 DEF TransportRecord
<1> HIDE DEF t
<1>4. /\ http' \in HttpRecord
      /\ http'.connectionStarted = http.connectionStarted /\ http'.transport = t
      /\ http'.sendQueue = http.sendQueue /\ http'.startInternal = "resolved"
      /\ http'.start = http.start /\ http'.stopInternal = http.stopInternal
      /\ http'.stopped = http.stopped /\ http'.sent = http.sent
      /\ http'.state = IF http.state = "Connecting" THEN "Connected" ELSE http.state
  BY <1>1, StartInternalEndsFields DEF t
<1>5. HttpTypes'
  BY <1>1, <1>3, <1>4 DEF HttpTypes
<1>6. \A u \in Transport \ {t} : transport[u].st = "closed"
  BY DEF HttpInv, TransportInv, t
<1>7. TransportInv'
  BY <1>2, <1>3, <1>4, <1>6 DEF TransportInv
<1>8. StartInv'
  BY <1>2, <1>3, <1>4 DEF StartInv
<1>9. StopInv'
  BY <1>2, <1>4 DEF HttpInv, StopInv
<1>10. QueueInv'
  BY <1>1, <1>2, <1>3, <1>4, <1>6 DEF HttpInv, QueueInv
<1>11. HttpStep
  BY <1>1, <1>2, <1>4 DEF HttpStep
<1>12. ContractStep
  BY <1>2, <1>4 DEF ContractStep, Contract!Next, Contract!vars, Contract!Connect
<1> QED BY <1>1, <1>4, <1>5, <1>7, <1>8, <1>9, <1>10, <1>11, <1>12 DEF HttpInv

LEMMA FirstPollEndsStep ==
  ASSUME HttpTypes, HttpInv, ~Unsettled, FirstPollEnds
  PROVE  HttpTypes' /\ HttpInv' /\ HttpStep /\ ContractStep
         /\ http'.startInternal = "resolved" /\ http'.sent = http.sent /\ queue' = queue
         /\ http'.connectionStarted = http.connectionStarted
<1> DEFINE t == http.transport
<1>1. /\ http.startInternal = "connect" /\ queue' = queue /\ http \in HttpRecord
      /\ transport \in [Transport -> TransportRecord]
      /\ http' = StartInternalEnds(StopConnection(http))
      /\ transport' = [transport EXCEPT ![t] = Closed]
  BY DEF FirstPollEnds, HttpTypes
<1>2. /\ t \in Transport /\ transport[t].st = "connecting"
      /\ http.state \in {"Connecting", "Disconnecting"} /\ http.start = "await"
      /\ http.connectionStarted = FALSE /\ http.stopInternal \in {"none", "awaitStart"}
  BY <1>1 DEF HttpInv, StartInv, StopInv, HttpRecord
<1>3. /\ transport' \in [Transport -> TransportRecord]
      /\ \A u \in Transport : transport'[u].st = "closed"
  BY <1>1, ClosedIsTransport DEF HttpInv, TransportInv, Closed
<1> HIDE DEF t
<1>4. /\ http' \in HttpRecord
      /\ http'.connectionStarted = FALSE /\ http'.transport = Undefined
      /\ http'.sendQueue = http.sendQueue /\ http'.startInternal = "resolved"
      /\ http'.start = http.start /\ http'.stopInternal = http.stopInternal
      /\ http'.sent = http.sent
      /\ http'.state = IF http.state = "Connecting" THEN "Connected" ELSE "Disconnected"
  <2>1. StopConnection(http) \in HttpRecord
    BY <1>1, StopConnectionFields
  <2>2. /\ http' \in HttpRecord
        /\ http'.connectionStarted = StopConnection(http).connectionStarted
        /\ http'.transport = Undefined
        /\ http'.sendQueue = http.sendQueue /\ http'.startInternal = "resolved"
        /\ http'.start = http.start /\ http'.stopInternal = http.stopInternal
        /\ http'.sent = http.sent
        /\ http'.state = IF StopConnection(http).state = "Connecting" THEN "Connected"
                         ELSE StopConnection(http).state
    BY <1>1, <2>1, StopConnectionFields, StartInternalEndsFields
  <2>3. http'.connectionStarted = FALSE
    BY <1>1, <1>2, <2>1, <2>2, StopConnectionFields DEF HttpRecord
  <2> QED BY <1>1, <1>2, <2>2, <2>3, StopConnectionFields
<1>5. HttpTypes'
  BY <1>1, <1>3, <1>4 DEF HttpTypes
<1>6. TransportInv'
  <2>1. Undefined \notin Transport
    BY TransportsAreNumbers
  <2> QED BY <1>3, <1>4, <2>1 DEF TransportInv
<1>7. StartInv'
  BY <1>2, <1>3, <1>4 DEF StartInv
<1>8. StopInv' /\ QueueInv'
  BY <1>1, <1>2, <1>3, <1>4 DEF HttpInv, StopInv, QueueInv
<1>9. HttpStep
  BY <1>1, <1>2, <1>4 DEF HttpStep
<1>10. ContractStep
  BY <1>2, <1>4 DEF ContractStep, Contract!Next, Contract!Connect, Contract!GoDown
<1> QED BY <1>1, <1>2, <1>4, <1>5, <1>6, <1>7, <1>8, <1>9, <1>10 DEF HttpInv

LEMMA PostReturnsStep ==
  ASSUME HttpTypes, HttpInv, ~Unsettled, NEW q \in DOMAIN queue, PostReturns(q)
  PROVE  HttpTypes' /\ HttpInv' /\ HttpStep /\ ~Unsettled' /\ ContractStep
<1> DEFINE new == [queue[q] EXCEPT !.batch = {},
                     !.loop = IF queue[q].buffer # {} \/ ~queue[q].executing
                                THEN "woken" ELSE "idle"]
<1>1. /\ queue[q].loop = "sending" /\ queue[q] \in QueueRecord
      /\ queue[q].batch \in SUBSET Message /\ transport' = transport
      /\ http \in HttpRecord
      /\ queue' = [queue EXCEPT ![q] = new]
  BY DEF PostReturns, HttpTypes, QueueRecord
<1>2. new \in QueueRecord /\ new.batch = {} /\ new.buffer = queue[q].buffer
  BY <1>1 DEF QueueRecord
<1> HIDE DEF new
<1>3. PICK result \in {"ok", "failed"} : http' = Settle(http, queue[q].batch, result)
  BY DEF PostReturns
<1>4. /\ http' \in HttpRecord
      /\ http'.state = http.state /\ http'.connectionStarted = http.connectionStarted
      /\ http'.transport = http.transport /\ http'.sendQueue = http.sendQueue
      /\ http'.startInternal = http.startInternal /\ http'.start = http.start
      /\ http'.stopInternal = http.stopInternal /\ http'.stopped = http.stopped
      /\ \A m \in Message : m \in queue[q].batch \/ http'.sent[m] = http.sent[m]
  BY <1>1, <1>3, SettleFields
<1>5. \A p \in DOMAIN queue : queue'[p] = IF p = q THEN new ELSE queue[p]
  BY <1>1
<1>6. HttpTypes'
  BY <1>1, <1>2, <1>4 DEF HttpTypes
<1>7. TransportInv' /\ StartInv'
  BY <1>1, <1>4 DEF HttpInv, TransportInv, StartInv
<1>8. StopInv'
  BY <1>1, <1>4 DEF HttpInv, StopInv
<1>9. QueueInv'
  BY <1>1, <1>4, <1>5 DEF HttpInv, QueueInv
<1>10. HttpStep
  BY <1>2, <1>4, <1>5 DEF HttpStep
<1> QED BY <1>4, <1>6, <1>7, <1>8, <1>9, <1>10
        DEF HttpInv, Unsettled, ContractStep, Contract!vars

(* A transport that was open or is being deleted ends.                     *)
LEMMA TransportEndsStep ==
  ASSUME HttpTypes, HttpInv, ~Unsettled, http.start # "resolved",
         NEW t \in Transport, TransportCloses(t) \/ DeleteReturns(t)
  PROVE  HttpTypes' /\ HttpInv' /\ HttpStep /\ ~Unsettled' /\ ContractStep
<1>1. /\ transport[t].st \in {"open", "deleting"} /\ http \in HttpRecord
      /\ transport \in [Transport -> TransportRecord] /\ queue' = queue
      /\ transport' = [transport EXCEPT ![t] = Closed] /\ http' = StopConnection(http)
  BY DEF TransportCloses, DeleteReturns, HttpTypes
<1>2. /\ http.transport = t /\ http.state \in {"Connected", "Disconnecting"}
      /\ http.startInternal \notin {"negotiate", "connect", "renegotiate"}
  <2>1. t # Undefined /\ http.transport = t
    BY <1>1, TransportsAreNumbers DEF HttpInv, TransportInv
  <2> QED BY <1>1, <2>1 DEF HttpInv, TransportInv, StartInv
<1>3. /\ http' \in HttpRecord
      /\ http'.transport = Undefined /\ http'.sendQueue = http.sendQueue
      /\ http'.startInternal = http.startInternal /\ http'.start = http.start
      /\ http'.stopInternal = http.stopInternal /\ http'.sent = http.sent
      /\ http'.state = "Disconnected" /\ ~http'.connectionStarted
  BY <1>1, <1>2, StopConnectionFields
<1>4. /\ transport' \in [Transport -> TransportRecord]
      /\ \A u \in Transport : transport'[u].st = "closed"
  BY <1>1, <1>2, ClosedIsTransport DEF HttpInv, TransportInv, Closed
<1>5. HttpTypes'
  BY <1>1, <1>3, <1>4 DEF HttpTypes
<1>6. TransportInv'
  <2>1. Undefined \notin Transport
    BY TransportsAreNumbers
  <2> QED BY <1>3, <1>4, <2>1 DEF TransportInv
<1>7. StartInv'
  BY <1>2, <1>3 DEF HttpInv, StartInv
<1>8. StopInv' /\ QueueInv'
  BY <1>1, <1>3, <1>4 DEF HttpInv, StopInv, QueueInv
<1>9. HttpStep /\ ~Unsettled'
  BY <1>1, <1>2, <1>3 DEF HttpStep, Unsettled
<1>10. ContractStep
  <2>1. http'.connectionStarted = FALSE
    BY <1>3 DEF HttpRecord
  <2> QED BY <1>2, <1>3, <2>1 DEF ContractStep, Contract!Next, Contract!GoDown
<1> QED BY <1>5, <1>6, <1>7, <1>8, <1>9, <1>10 DEF HttpInv

-----------------------------------------------------------------------------
(* The hub connection under a step of the connection below                 *)

LEMMA TypesAreParts == TypeOK <=> HttpTypes /\ hub \in HubRecord
BY DEF TypeOK, HttpTypes

LEMMA HttpStepKeepsHub ==
  ASSUME HttpTypes, hub \in HubRecord, HttpInv, HubInv, HttpStep, HttpTypes', Closes(hub)
  PROVE  hub' \in HubRecord /\ HubInv'
<1> USE DEF HubInv
<1>1. DOMAIN queue' = DOMAIN queue /\ \A c \in Call : c \in Message
  BY MessagesAreNamed DEF HttpTypes
<1>2. CASE http.connectionStarted /\ ~http'.connectionStarted
  <2>1. hub' = ConnectionClosed(hub) /\ http'.state = "Disconnected"
        /\ http.state # "Disconnected"
    BY <1>2 DEF Closes, HttpStep, HttpInv, StartInv
  <2>2. /\ hub' \in HubRecord
        /\ hub'.attempt = hub.attempt
        /\ hub'.stopDuringStartError = (hub.attempt # "none")
        /\ hub'.handshake = IF hub.handshake = "pending" THEN "resolved" ELSE hub.handshake
        /\ ~hub'.timeout /\ Cancelled(hub, hub')
        /\ hub'.delay => \/ hub.delay /\ hub'.state = hub.state
                         \/ hub.state = "Connected" /\ hub'.state = "Reconnecting"
        /\ hub'.state \in {hub.state, "Disconnected", "Reconnecting"}
    BY <2>1, ConnectionClosedFields DEF HubStateInv
  <2>3. HubStateInv'
    BY <2>1, <2>2 DEF HttpStep, HubStateInv
  <2>4. HandshakeInv'
    BY <1>2, <2>2 DEF HandshakeInv
  <2>5. CallInv'
    <3>1. \A c \in Call : hub.call[c] \in
            {"new", "pending", "streaming", "streamed", "disposed", "ended"}
      BY DEF HubRecord
    <3>2. \A c \in Call : ~Waits(c)' /\ (hub'.call[c] = "new" => hub.call[c] = "new")
      BY <2>2, <3>1, CalledIsState DEF Waits, Cancelled
    <3> QED BY <1>1, <3>2 DEF HttpStep, CallInv
  <2> QED BY <2>2, <2>3, <2>4, <2>5
<1>3. CASE ~(http.connectionStarted /\ ~http'.connectionStarted)
  <2>1. hub' = hub /\ (http.connectionStarted => http'.connectionStarted)
    BY <1>3 DEF Closes
  <2>2. HubStateInv'
    BY <2>1 DEF HttpStep, HubStateInv
  <2>3. HandshakeInv'
    BY <2>1 DEF HandshakeInv
  <2>4. ASSUME NEW c \in Call, Waits(c)
        PROVE  http'.connectionStarted \/ http'.sent[c] \in {"pending", "failed"}
    <3>1. CASE http.connectionStarted
      BY <2>1, <3>1
    <3>2. CASE ~http.connectionStarted
      <4>1. http.sent[c] \in {"pending", "failed"}
            /\ \A q \in DOMAIN queue : c \notin queue[q].batch
        BY <2>4, <3>2 DEF CallInv
      <4> QED BY <1>1, <3>2, <4>1 DEF HttpStep
    <3> QED BY <3>1, <3>2
  <2>5. CallInv'
    BY <1>1, <2>1, <2>4 DEF HttpStep, CallInv, Waits
  <2> QED BY <2>1, <2>2, <2>3, <2>5
<1> QED BY <1>2, <1>3

LEMMA HttpContinuesStep ==
  ASSUME HttpTypes, hub \in HubRecord, HttpInv, HubInv, HttpContinues, Closes(hub),
         ~Unsettled \/ StartContinues
  PROVE  /\ HttpTypes' /\ hub' \in HubRecord /\ HttpInv' /\ HubInv' /\ ~Unsettled'
         /\ ContractStep
<1>1. HttpTypes' /\ HttpInv' /\ HttpStep /\ ~Unsettled' /\ ContractStep
  BY StartContinuesStep, SendLoopStep, StopContinuesStep, QueueStoppedStep,
     TransportStoppedStep DEF HttpContinues
<1> QED BY <1>1, HttpStepKeepsHub

LEMMA NetworkStep ==
  ASSUME HttpTypes, hub \in HubRecord, HttpInv, HubInv, ~Unsettled, Idle,
         NetworkEvent, Closes(hub)
  PROVE  /\ HttpTypes' /\ hub' \in HubRecord /\ HttpInv' /\ HubInv' /\ Resolving'
         /\ ContractStep
<1>1. CASE ConnectSucceeds \/ FirstPollEnds
  <2>1. HttpTypes' /\ HttpInv' /\ HttpStep /\ ContractStep
        /\ http'.startInternal = "resolved" /\ http'.sent = http.sent /\ queue' = queue
        /\ http'.connectionStarted = http.connectionStarted
    BY <1>1, ConnectSucceedsStep, FirstPollEndsStep
  <2>2. hub' = hub
    BY <2>1 DEF Closes
  <2>3. /\ \A q \in DOMAIN queue : queue[q].loop # "woken"
        /\ \A m \in Message \ {"handshake"} : http.sent[m] # "failed"
        /\ \A c \in Call : ~MayCancel(c)
    BY DEF Idle, HttpIdle, HubIdle
  <2>4. Resolving'
    BY <2>1, <2>2, <2>3 DEF Resolving, MayCancel
  <2> QED BY <2>1, <2>4, HttpStepKeepsHub
<1>2. CASE ~(ConnectSucceeds \/ FirstPollEnds)
  <2>1. http.start # "resolved"
    BY DEF Idle, HubIdle
  <2>2. HttpTypes' /\ HttpInv' /\ HttpStep /\ ~Unsettled' /\ ContractStep
    BY <1>2, <2>1, NegotiateStep, RenegotiateStep, ConnectFailsStep, PostReturnsStep,
       TransportEndsStep DEF NetworkEvent
  <2> QED BY <2>2, HttpStepKeepsHub DEF Resolving
<1> QED BY <1>1, <1>2

-----------------------------------------------------------------------------
(* What the hub connection does to the connection below                    *)

(* Only promises of what was sent or of start() are taken.                 *)
LEMMA HttpTaken ==
  ASSUME HttpTypes, HttpInv, ~Unsettled, http' \in HttpRecord,
         http'.state = http.state, http'.connectionStarted = http.connectionStarted,
         http'.transport = http.transport, http'.sendQueue = http.sendQueue,
         http'.startInternal = http.startInternal,
         http'.stopInternal = http.stopInternal, http'.stopped = http.stopped,
         \/ http'.start = http.start
         \/ http.start \in {"resolved", "rejected"} /\ http'.start = "none",
         transport' = transport, queue' = queue
  PROVE  HttpTypes' /\ HttpInv' /\ ~Unsettled' /\ ContractStep
<1>1. TransportInv' /\ StopInv' /\ QueueInv'
  BY DEF HttpInv, TransportInv, StopInv, QueueInv
<1>2. StartInv'
  BY DEF HttpInv, StartInv
<1>3. ContractStep
  BY DEF ContractStep, Contract!Next, Contract!vars, Contract!Take
<1> QED BY <1>1, <1>2, <1>3 DEF HttpTypes, HttpInv, Unsettled

(* Something is sent.                                                      *)
LEMMA HttpSent ==
  ASSUME HttpTypes, HttpInv, ~Unsettled, NEW h \in HttpRecord,
         h.state = http.state, h.connectionStarted = http.connectionStarted,
         h.transport = http.transport, h.sendQueue = http.sendQueue,
         h.startInternal = http.startInternal,
         h.stopInternal = http.stopInternal, h.stopped = http.stopped,
         \/ h.start = http.start
         \/ http.start \in {"resolved", "rejected"} /\ h.start = "none",
         NEW m \in Message, HttpSend(h, m), transport' = transport
  PROVE  HttpTypes' /\ HttpInv' /\ ~Unsettled' /\ ContractStep
<1>1. queue \in [Transport \cup {Undefined} -> QueueRecord]
  BY DEF HttpTypes
<1>2. /\ http' \in HttpRecord
      /\ queue' \in [Transport \cup {Undefined} -> QueueRecord]
      /\ http'.state = http.state
      /\ http'.connectionStarted = http.connectionStarted
      /\ http'.transport = http.transport /\ http'.startInternal = http.startInternal
      /\ http'.start = h.start /\ http'.stopInternal = http.stopInternal
      /\ http'.stopped = http.stopped
      /\ http.sendQueue # NoQueue => http'.sendQueue = http.sendQueue
      /\ http'.sendQueue # http.sendQueue => http.state = "Connected"
      /\ \A q \in DOMAIN queue :
           queue'[q].loop # "ended" => queue[q].loop # "ended" \/ http'.sendQueue = q
  BY <1>1, HttpSendFields
<1>3. HttpTypes' /\ DOMAIN queue' = DOMAIN queue
  BY <1>1, <1>2 DEF HttpTypes
<1>4. TransportInv'
  BY <1>2 DEF HttpInv, TransportInv
<1>5. StartInv'
  BY <1>2 DEF HttpInv, StartInv
<1>6. StopInv'
  BY <1>2 DEF HttpInv, StopInv
<1>7. QueueInv'
  <2>1. \A q \in DOMAIN queue : q # NoQueue
    BY TransportsAreNumbers DEF HttpTypes, NoQueue, Undefined
  <2>2. http'.sendQueue # http.sendQueue => http.connectionStarted
    BY <1>2 DEF Unsettled
  <2> QED BY <1>2, <1>3, <2>1, <2>2 DEF HttpInv, QueueInv
<1>8. ~Unsettled' /\ ContractStep
  BY <1>2 DEF Unsettled, ContractStep, Contract!Next, Contract!vars, Contract!Take
<1> QED BY <1>3, <1>4, <1>5, <1>6, <1>7, <1>8 DEF HttpInv

(* stop() is called, or nothing is done.                                   *)
LEMMA HttpStops ==
  ASSUME HttpTypes, HttpInv, ~Unsettled, http.start # "resolved", NEW h \in HttpRecord,
         h.state = http.state, h.connectionStarted = http.connectionStarted,
         h.transport = http.transport, h.sendQueue = http.sendQueue,
         h.startInternal = http.startInternal, h.start = http.start,
         h.stopInternal = http.stopInternal, h.stopped = http.stopped,
         http' \in {h, HttpStop(h)},
         transport' \in [Transport -> TransportRecord], queue' = queue,
         \A t \in Transport : /\ transport'[t].st = transport[t].st
                              /\ transport'[t] # transport[t] => http.connectionStarted
  PROVE  HttpTypes' /\ HttpInv' /\ ~Unsettled' /\ ContractStep
<1>1. /\ http' \in HttpRecord
      /\ http'.connectionStarted = http.connectionStarted
      /\ http'.transport = http.transport /\ http'.sendQueue = http.sendQueue
      /\ http'.startInternal = http.startInternal /\ http'.start = http.start
      /\ \/ /\ http'.state = http.state /\ http'.stopInternal = http.stopInternal
            /\ http'.stopped = http.stopped
         \/ /\ http.state \notin {"Disconnected", "Disconnecting"}
            /\ http'.state = "Disconnecting" /\ http'.stopInternal = "awaitStart"
            /\ ~http'.stopped
  BY HttpStopFields
<1>2. http.state \in {"Disconnected", "Connecting", "Connected", "Disconnecting"}
      /\ (http.transport # Undefined => http.transport \in Transport)
  BY DEF HttpTypes, HttpRecord
<1>3. HttpTypes'
  BY <1>1 DEF HttpTypes
<1>4. TransportInv'
  BY <1>1, <1>2 DEF HttpInv, TransportInv
<1>5. StartInv'
  BY <1>1, <1>2 DEF HttpInv, StartInv
<1>6. StopInv'
  BY <1>1, <1>2 DEF HttpInv, StopInv
<1>7. QueueInv'
  BY <1>1 DEF HttpInv, QueueInv
<1>8. ~Unsettled' /\ ContractStep
  BY <1>1, <1>2 DEF Unsettled, ContractStep, Contract!Next, Contract!vars, Contract!Stop
<1> QED BY <1>3, <1>4, <1>5, <1>6, <1>7, <1>8 DEF HttpInv

(* start() is called when there is nothing below.                          *)
LEMMA HttpStarts ==
  ASSUME HttpTypes, HttpInv, http.state = "Disconnected", http.start = "none",
         http.stopInternal = "none", http' = HttpStart(http),
         transport' = transport, queue' = queue
  PROVE  /\ HttpTypes' /\ HttpInv' /\ ~Unsettled' /\ ContractStep
         /\ http'.start = "await" /\ http'.state = "Connecting"
         /\ http'.connectionStarted = http.connectionStarted /\ http'.sent = http.sent
<1>1. /\ http' \in HttpRecord
      /\ http'.state = "Connecting" /\ http'.connectionStarted = http.connectionStarted
      /\ http'.transport = http.transport /\ http'.sendQueue = http.sendQueue
      /\ http'.startInternal = "negotiate" /\ http'.start = "await"
      /\ http'.stopInternal = "none" /\ http'.stopped = http.stopped
      /\ http'.sent = http.sent
  BY DEF HttpStart, HttpTypes, HttpRecord
<1>2. /\ http.transport = Undefined /\ http.connectionStarted = FALSE
      /\ \A t \in Transport : transport[t].st = "closed"
  <2>1. http.transport = Undefined /\ http.connectionStarted = FALSE
    BY DEF HttpTypes, HttpRecord, HttpInv, StartInv
  <2> QED BY <2>1, TransportsAreNumbers DEF HttpInv, TransportInv
<1>3. HttpTypes'
  BY <1>1 DEF HttpTypes
<1>4. TransportInv'
  BY <1>1, <1>2 DEF HttpInv, TransportInv
<1>5. StartInv'
  BY <1>1, <1>2 DEF StartInv
<1>6. StopInv' /\ QueueInv'
  BY <1>1, <1>2 DEF HttpInv, StopInv, QueueInv
<1>7. ~Unsettled' /\ ContractStep
  BY <1>1, <1>2 DEF Unsettled, ContractStep, Contract!Next, Contract!Start
<1> QED BY <1>1, <1>3, <1>4, <1>5, <1>6, <1>7 DEF HttpInv

-----------------------------------------------------------------------------
(* The continuations of the hub connection                                 *)

LEMMA CallsKept ==
  ASSUME CallInv, HttpTypes, HttpTypes', http'.connectionStarted = http.connectionStarted,
         \A c \in Call : /\ hub'.call[c] = "new" => hub.call[c] = "new"
                         /\ Waits(c)' => Waits(c) /\ http'.sent[c] = http.sent[c],
         \A q \in DOMAIN queue :
           /\ queue'[q].batch \subseteq queue[q].batch
           /\ queue'[q].buffer \subseteq queue[q].buffer \cup {"handshake", "ping", "cancel"}
  PROVE  CallInv'
<1>1. DOMAIN queue' = DOMAIN queue /\ \A c \in Call : c \notin {"handshake", "ping", "cancel"}
  BY MessagesAreNamed DEF HttpTypes
<1> QED BY <1>1 DEF CallInv

LEMMA OneCall ==
  ASSUME hub \in HubRecord, NEW m \in Call,
         NEW s \in {"new", "pending", "streaming", "streamed", "disposed", "ended"},
         hub' \in HubRecord, hub'.call = [hub.call EXCEPT ![m] = s]
  PROVE  \A c \in Call : hub'.call[c] = IF c = m THEN s ELSE hub.call[c]
BY DEF HubRecord

LEMMA ConnectionStartsStep ==
  ASSUME HttpTypes, hub \in HubRecord, HttpInv, HubInv, ~Unsettled, ConnectionStarts
  PROVE  /\ HttpTypes' /\ hub' \in HubRecord /\ HttpInv' /\ HubInv' /\ ~Unsettled'
         /\ ContractStep
<1> DEFINE h == [http EXCEPT !.start = "none"]
<1>1. /\ hub.attempt = "start" /\ http.start = "resolved"
      /\ hub' = [hub EXCEPT !.attempt = "send", !.ping = TRUE]
      /\ HttpSend(h, "handshake") /\ transport' = transport
  BY DEF ConnectionStarts
<1>2. /\ h \in HttpRecord
      /\ h.state = http.state /\ h.connectionStarted = http.connectionStarted
      /\ h.transport = http.transport /\ h.sendQueue = http.sendQueue
      /\ h.startInternal = http.startInternal /\ h.start = "none"
      /\ h.stopInternal = http.stopInternal /\ h.stopped = http.stopped
      /\ h.sent = http.sent
  BY DEF HttpTypes, HttpRecord
<1> HIDE DEF h
<1>3. "handshake" \in Message /\ Call \subseteq Message \ {"handshake"}
  BY MessagesAreNamed
<1>4. HttpTypes' /\ HttpInv' /\ ~Unsettled' /\ ContractStep
  BY <1>1, <1>2, <1>3, HttpSent
<1>5. /\ http'.state = http.state /\ http'.connectionStarted = http.connectionStarted
      /\ http'.start = "none"
      /\ \A n \in Message \ {"handshake"} : http'.sent[n] = http.sent[n]
      /\ \A q \in DOMAIN queue :
           /\ queue'[q].batch \subseteq queue[q].batch
           /\ queue'[q].buffer \subseteq queue[q].buffer \cup {"handshake"}
  BY <1>1, <1>2, <1>3, HttpSendFields DEF HttpTypes
<1>6. /\ hub' \in HubRecord /\ hub'.attempt = "send" /\ hub'.state = hub.state
      /\ hub'.delay = hub.delay /\ hub'.handshake = hub.handshake
      /\ hub'.timeout = hub.timeout /\ hub'.call = hub.call
  BY <1>1 DEF HubRecord
<1>7. http.connectionStarted /\ http.state = "Connected"
  BY <1>1 DEF HttpInv, StartInv
<1>8. HubStateInv' /\ HandshakeInv'
  BY <1>1, <1>5, <1>6, <1>7 DEF HubInv, HubStateInv, HandshakeInv
<1>9. CallInv'
  BY <1>3, <1>4, <1>5, <1>6, CallsKept DEF HubInv, Waits
<1> QED BY <1>4, <1>6, <1>8, <1>9 DEF HubInv

LEMMA ConnectionFailsStep ==
  ASSUME HttpTypes, hub \in HubRecord, HttpInv, HubInv, ~Unsettled, ConnectionFails
  PROVE  /\ HttpTypes' /\ hub' \in HubRecord /\ HttpInv' /\ HubInv' /\ ~Unsettled'
         /\ ContractStep
<1>1. /\ hub.attempt = "start" /\ http.start = "rejected"
      /\ hub' = [hub EXCEPT !.attempt = "failed"]
      /\ http' = [http EXCEPT !.start = "none"]
      /\ transport' = transport /\ queue' = queue
  BY DEF ConnectionFails
<1>2. /\ http' \in HttpRecord
      /\ http'.state = http.state /\ http'.connectionStarted = http.connectionStarted
      /\ http'.transport = http.transport /\ http'.sendQueue = http.sendQueue
      /\ http'.startInternal = http.startInternal /\ http'.start = "none"
      /\ http'.stopInternal = http.stopInternal /\ http'.stopped = http.stopped
      /\ http'.sent = http.sent
  BY <1>1 DEF HttpTypes, HttpRecord
<1>3. HttpTypes' /\ HttpInv' /\ ~Unsettled' /\ ContractStep
  BY <1>1, <1>2, HttpTaken
<1>4. /\ hub' \in HubRecord /\ hub'.attempt = "failed" /\ hub'.state = hub.state
      /\ hub'.delay = hub.delay /\ hub'.timeout = hub.timeout /\ hub'.call = hub.call
  BY <1>1 DEF HubRecord
<1>5. HubStateInv' /\ HandshakeInv'
  BY <1>1, <1>2, <1>4 DEF HttpInv, StartInv, HubInv, HubStateInv, HandshakeInv
<1>6. CallInv'
  BY <1>1, <1>2, <1>3, <1>4, CallsKept DEF HubInv, Waits
<1> QED BY <1>3, <1>4, <1>5, <1>6 DEF HubInv

LEMMA HandshakeSentStep ==
  ASSUME HttpTypes, hub \in HubRecord, HttpInv, HubInv, ~Unsettled, HandshakeSent
  PROVE  /\ HttpTypes' /\ hub' \in HubRecord /\ HttpInv' /\ HubInv' /\ ~Unsettled'
         /\ ContractStep
<1> DEFINE e == [hub EXCEPT !.attempt = "wait", !.timeout = FALSE, !.ping = TRUE]
<1>1. /\ hub.attempt = "send" /\ hub' = ResetTimeout(e)
      /\ http' = [http EXCEPT !.sent["handshake"] = "none"]
      /\ transport' = transport /\ queue' = queue
  BY DEF HandshakeSent
<1>2. /\ http' \in HttpRecord
      /\ http'.state = http.state /\ http'.connectionStarted = http.connectionStarted
      /\ http'.transport = http.transport /\ http'.sendQueue = http.sendQueue
      /\ http'.startInternal = http.startInternal /\ http'.start = http.start
      /\ http'.stopInternal = http.stopInternal /\ http'.stopped = http.stopped
      /\ \A m \in Message \ {"handshake"} : http'.sent[m] = http.sent[m]
  BY <1>1 DEF HttpTypes, HttpRecord
<1>3. HttpTypes' /\ HttpInv' /\ ~Unsettled' /\ ContractStep
  BY <1>1, <1>2, HttpTaken
<1>4. e \in HubRecord /\ e.attempt = "wait" /\ e.state = hub.state /\ e.delay = hub.delay
      /\ e.call = hub.call /\ e.handshake = hub.handshake
      /\ e.stopDuringStartError = hub.stopDuringStartError
  BY DEF HubRecord
<1> HIDE DEF e
<1>5. /\ hub' \in HubRecord /\ hub'.attempt = "wait" /\ hub'.state = hub.state
      /\ hub'.delay = hub.delay /\ hub'.call = hub.call /\ hub'.handshake = hub.handshake
      /\ hub'.stopDuringStartError = hub.stopDuringStartError
  <2>1. hub' = [e EXCEPT !.timeout = e.timeout \/ ~http.inherentKeepAlive]
    BY <1>1 DEF ResetTimeout
  <2>2. (e.timeout \/ ~http.inherentKeepAlive) \in BOOLEAN
    OBVIOUS
  <2> QED BY <1>4, <2>1, <2>2 DEF HubRecord
<1>6. HubStateInv'
  BY <1>1, <1>2, <1>5 DEF HubInv, HubStateInv
<1>7. HandshakeInv'
  <2>1. hub.handshake \in {"none", "pending", "resolved", "rejected"}
    BY DEF HubRecord
  <2> QED BY <1>1, <1>2, <1>5, <2>1 DEF HubInv, HandshakeInv
<1>8. CallInv'
  <2>1. Call \subseteq Message \ {"handshake"}
    BY MessagesAreNamed
  <2> QED BY <1>1, <1>2, <1>3, <1>5, <2>1, CallsKept DEF HubInv, Waits
<1> QED BY <1>3, <1>5, <1>6, <1>7, <1>8 DEF HubInv

LEMMA HandshakeFailsStep ==
  ASSUME HttpTypes, hub \in HubRecord, HttpInv, HubInv, ~Unsettled, HandshakeFails
  PROVE  /\ HttpTypes' /\ hub' \in HubRecord /\ HttpInv' /\ HubInv' /\ ~Unsettled'
         /\ ContractStep
<1> DEFINE h == [http EXCEPT !.sent["handshake"] = "none"]
           e == [hub EXCEPT !.attempt = "stop",
                   !.awaitsStop = http.state \notin {"Disconnected", "Disconnecting"}]
<1>1. /\ hub.attempt \in {"send", "wait"}
      /\ hub' = CleanupTimers(e) /\ http' = HttpStop(h)
      /\ transport' = transport /\ queue' = queue
  BY DEF HandshakeFails
<1>2. /\ h \in HttpRecord
      /\ h.state = http.state /\ h.connectionStarted = http.connectionStarted
      /\ h.transport = http.transport /\ h.sendQueue = http.sendQueue
      /\ h.startInternal = http.startInternal /\ h.start = http.start
      /\ h.stopInternal = http.stopInternal /\ h.stopped = http.stopped
      /\ \A m \in Message \ {"handshake"} : h.sent[m] = http.sent[m]
  BY DEF HttpTypes, HttpRecord
<1> HIDE DEF h
<1>3. http.start = "none"
  BY <1>1 DEF HubInv, HubStateInv
<1>4. HttpTypes' /\ HttpInv' /\ ~Unsettled' /\ ContractStep
  BY <1>1, <1>2, <1>3, HttpStops DEF HttpTypes
<1>5. /\ http'.state \in {"Disconnected", "Disconnecting"}
      /\ http.state = "Disconnected" => http'.state = "Disconnected"
      /\ http'.start = "none" /\ http'.sent = h.sent
      /\ http'.connectionStarted = http.connectionStarted
  BY <1>1, <1>2, <1>3, HttpStopFields
<1>6. e \in HubRecord /\ e.attempt = "stop" /\ e.state = hub.state /\ e.delay = hub.delay
      /\ e.call = hub.call
  <2>1. (http.state \notin {"Disconnected", "Disconnecting"}) \in BOOLEAN
    OBVIOUS
  <2> QED BY <2>1 DEF HubRecord
<1> HIDE DEF e
<1>7. /\ hub' \in HubRecord /\ hub'.attempt = "stop" /\ hub'.state = hub.state
      /\ hub'.delay = hub.delay /\ hub'.call = hub.call /\ ~hub'.timeout
  BY <1>1, <1>6, CleanupTimersFields
<1>8. HubStateInv' /\ HandshakeInv'
  BY <1>1, <1>3, <1>5, <1>7 DEF HubInv, HubStateInv, HandshakeInv
<1>9. CallInv'
  <2>1. Call \subseteq Message \ {"handshake"}
    BY MessagesAreNamed
  <2> QED BY <1>1, <1>2, <1>4, <1>5, <1>7, <2>1, CallsKept DEF HubInv, Waits
<1> QED BY <1>4, <1>7, <1>8, <1>9 DEF HubInv

(* Nothing below and no invocation is touched.                             *)
LEMMA HubAlone ==
  ASSUME HttpTypes, hub \in HubRecord, HttpInv, HubInv, ~Unsettled, UNCHANGED httpVars,
         hub' \in HubRecord,
         \A c \in Call : \/ hub'.call[c] = hub.call[c]
                         \/ hub'.call[c] \notin {"new", "pending", "streaming"},
         HubStateInv', HandshakeInv'
  PROVE  /\ HttpTypes' /\ hub' \in HubRecord /\ HttpInv' /\ HubInv' /\ ~Unsettled'
         /\ ContractStep
<1>1. http' = http /\ transport' = transport /\ queue' = queue
  BY DEF httpVars
<1>2. HttpTypes' /\ HttpInv' /\ ~Unsettled' /\ ContractStep
  BY <1>1, HttpTaken DEF HttpTypes
<1>3. CallInv'
  BY <1>1, <1>2, CallsKept DEF HubInv, Waits
<1> QED BY <1>2, <1>3 DEF HubInv

LEMMA HandshakeEndsStep ==
  ASSUME HttpTypes, hub \in HubRecord, HttpInv, HubInv, ~Unsettled,
         HandshakeStopped \/ HandshakeCompletes
  PROVE  /\ HttpTypes' /\ hub' \in HubRecord /\ HttpInv' /\ HubInv' /\ ~Unsettled'
         /\ ContractStep
<1>1. UNCHANGED httpVars /\ http' = http
  BY DEF HandshakeStopped, HandshakeCompletes, httpVars
<1>2. CASE HandshakeStopped
  <2>1. /\ hub' = [hub EXCEPT !.attempt = "failed", !.awaitsStop = FALSE]
        /\ hub.attempt = "stop" /\ (http.state = "Disconnected" \/ http.stopped)
    BY <1>2 DEF HandshakeStopped, StopReturns
  <2>2. /\ hub' \in HubRecord /\ hub'.attempt = "failed" /\ hub'.state = hub.state
        /\ hub'.delay = hub.delay /\ hub'.timeout = hub.timeout /\ hub'.call = hub.call
    BY <2>1 DEF HubRecord
  <2>3. http.state = "Disconnected"
    BY <2>1 DEF HubInv, HubStateInv, HttpInv, StopInv
  <2>4. HubStateInv' /\ HandshakeInv'
    BY <1>1, <2>1, <2>2, <2>3 DEF HubInv, HubStateInv, HandshakeInv
  <2> QED BY <1>1, <2>2, <2>4, HubAlone
<1>3. CASE HandshakeCompletes
  <2>1. /\ hub' = [hub EXCEPT !.attempt = "completed"]
        /\ hub.attempt = "wait" /\ ~hub.stopDuringStartError
    BY <1>3 DEF HandshakeCompletes
  <2>2. /\ hub' \in HubRecord /\ hub'.attempt = "completed" /\ hub'.state = hub.state
        /\ hub'.delay = hub.delay /\ hub'.timeout = hub.timeout /\ hub'.call = hub.call
    BY <2>1 DEF HubRecord
  <2>3. HubStateInv' /\ HandshakeInv'
    BY <1>1, <2>1, <2>2 DEF HubInv, HubStateInv, HandshakeInv
  <2> QED BY <1>1, <2>2, <2>3, HubAlone
<1> QED BY <1>2, <1>3

LEMMA NoAttemptFields ==
  ASSUME hub \in HubRecord
  PROVE  /\ NoAttempt \in HubRecord
         /\ NoAttempt.attempt = "none" /\ NoAttempt.state = hub.state
         /\ NoAttempt.delay = hub.delay /\ NoAttempt.timeout = hub.timeout
         /\ NoAttempt.call = hub.call /\ NoAttempt.retries = hub.retries
         /\ NoAttempt.connectionStarted = hub.connectionStarted
BY DEF NoAttempt, HubRecord

LEMMA AttemptEndsStep ==
  ASSUME HttpTypes, hub \in HubRecord, HttpInv, HubInv, ~Unsettled,
         AttemptSucceeds \/ StartFails \/ ReconnectFails
  PROVE  /\ HttpTypes' /\ hub' \in HubRecord /\ HttpInv' /\ HubInv' /\ ~Unsettled'
         /\ ContractStep
<1> DEFINE n == NoAttempt
<1>1. /\ n \in HubRecord
      /\ n.attempt = "none" /\ n.state = hub.state
      /\ n.delay = hub.delay /\ n.timeout = hub.timeout
      /\ n.call = hub.call /\ n.retries = hub.retries
      /\ n.connectionStarted = hub.connectionStarted
  BY NoAttemptFields
<1>2. UNCHANGED httpVars /\ http' = http
  BY DEF AttemptSucceeds, StartFails, ReconnectFails, httpVars
<1>3. 0 \in 0..Delays /\ hub.retries \in 0..Delays /\ Delays \in Nat
  BY MessagesAreNamed DEF HubRecord
<1>4. hub.attempt \in {"completed", "failed"} /\ ~hub.delay /\ http.start = "none"
      /\ (hub.attempt = "failed" => http.state = "Disconnected")
      /\ hub.state # "Connected"
      /\ (hub.timeout => http.connectionStarted)
  BY DEF AttemptSucceeds, StartFails, ReconnectFails, HubInv, HubStateInv, HandshakeInv
<1>5. CASE AttemptSucceeds
  <2>1. hub' = [n EXCEPT !.state = "Connected", !.retries = 0,
                         !.connectionStarted = n.connectionStarted \/ hub.by = "start"]
    BY <1>5 DEF AttemptSucceeds
  <2>2. (n.connectionStarted \/ hub.by = "start") \in BOOLEAN
    OBVIOUS
  <2> HIDE DEF n
  <2>3. /\ hub' \in HubRecord /\ hub'.attempt = "none" /\ hub'.state = "Connected"
        /\ hub'.delay = hub.delay /\ hub'.timeout = hub.timeout /\ hub'.call = hub.call
    BY <1>1, <1>3, <2>1, <2>2 DEF HubRecord
  <2>4. HubStateInv' /\ HandshakeInv'
    BY <1>2, <1>4, <2>3 DEF HubStateInv, HandshakeInv
  <2> QED BY <1>2, <2>3, <2>4, HubAlone
<1>6. CASE StartFails
  <2>1. hub' = [n EXCEPT !.state = "Disconnected"] /\ hub.attempt = "failed"
    BY <1>6 DEF StartFails
  <2> HIDE DEF n
  <2>2. /\ hub' \in HubRecord /\ hub'.attempt = "none" /\ hub'.state = "Disconnected"
        /\ hub'.delay = hub.delay /\ hub'.timeout = hub.timeout /\ hub'.call = hub.call
    BY <1>1, <2>1 DEF HubRecord
  <2>3. HubStateInv' /\ HandshakeInv'
    BY <1>2, <1>4, <2>1, <2>2 DEF HubStateInv, HandshakeInv
  <2> QED BY <1>2, <2>2, <2>3, HubAlone
<1>7. CASE ReconnectFails
  <2> DEFINE ended == [n EXCEPT !.retries = 0]
  <2>1. /\ hub.attempt = "failed"
        /\ hub' = IF hub.state = "Reconnecting" /\ hub.retries < Delays
                    THEN [n EXCEPT !.retries = n.retries + 1, !.delay = TRUE]
                    ELSE IF hub.state = "Reconnecting" THEN CompleteClose(ended) ELSE ended
    BY <1>7 DEF ReconnectFails, RetriesLeft
  <2> HIDE DEF n
  <2>2. CASE hub.state = "Reconnecting" /\ hub.retries < Delays
    <3>1. hub' = [n EXCEPT !.retries = n.retries + 1, !.delay = TRUE]
      BY <2>1, <2>2
    <3>2. n.retries + 1 \in 0..Delays
      BY <1>1, <1>3, <2>2
    <3>3. /\ hub' \in HubRecord /\ hub'.attempt = "none" /\ hub'.state = "Reconnecting"
          /\ hub'.timeout = hub.timeout /\ hub'.call = hub.call
      BY <1>1, <2>2, <3>1, <3>2 DEF HubRecord
    <3>4. HubStateInv' /\ HandshakeInv'
      BY <1>2, <1>4, <2>1, <3>3 DEF HubStateInv, HandshakeInv
    <3> QED BY <1>2, <3>3, <3>4, HubAlone
  <2>3. CASE ~(hub.state = "Reconnecting" /\ hub.retries < Delays)
    <3>1. /\ ended \in HubRecord /\ ended.attempt = "none" /\ ended.state = hub.state
          /\ ended.delay = hub.delay /\ ended.timeout = hub.timeout /\ ended.call = hub.call
      BY <1>1, <1>3 DEF HubRecord
    <3> HIDE DEF ended
    <3>2. hub' \in {ended, CompleteClose(ended)}
      BY <2>1, <2>3
    <3>3. /\ hub' \in HubRecord /\ hub'.attempt = "none"
          /\ hub'.state \in {hub.state, "Disconnected"}
          /\ hub'.delay = hub.delay /\ hub'.timeout = hub.timeout /\ hub'.call = hub.call
      BY <3>1, <3>2, CompleteCloseFields
    <3>4. HubStateInv' /\ HandshakeInv'
      BY <1>2, <1>4, <2>1, <3>3 DEF HubStateInv, HandshakeInv
    <3> QED BY <1>2, <3>3, <3>4, HubAlone
  <2> QED BY <2>2, <2>3
<1> QED BY <1>5, <1>6, <1>7

LEMMA SendFailsStep ==
  ASSUME HttpTypes, hub \in HubRecord, HttpInv, HubInv, ~Unsettled,
         NEW m \in Message, SendFails(m)
  PROVE  /\ HttpTypes' /\ hub' \in HubRecord /\ HttpInv' /\ HubInv' /\ ~Unsettled'
         /\ ContractStep
<1>1. /\ m # "handshake"
      /\ http' = [http EXCEPT !.sent[m] = "none"]
      /\ transport' = transport /\ queue' = queue
  BY DEF SendFails
<1>2. /\ http' \in HttpRecord
      /\ http'.state = http.state /\ http'.connectionStarted = http.connectionStarted
      /\ http'.transport = http.transport /\ http'.sendQueue = http.sendQueue
      /\ http'.startInternal = http.startInternal /\ http'.start = http.start
      /\ http'.stopInternal = http.stopInternal /\ http'.stopped = http.stopped
      /\ \A n \in Message \ {m} : http'.sent[n] = http.sent[n]
  BY <1>1 DEF HttpTypes, HttpRecord
<1>3. HttpTypes' /\ HttpInv' /\ ~Unsettled' /\ ContractStep
  BY <1>1, <1>2, HttpTaken
<1>4. /\ hub' \in HubRecord /\ hub'.attempt = hub.attempt /\ hub'.state = hub.state
      /\ hub'.delay = hub.delay /\ hub'.timeout = hub.timeout
      /\ hub'.handshake = hub.handshake
      /\ hub'.stopDuringStartError = hub.stopDuringStartError
      /\ \A c \in Call : IF c = m THEN hub'.call[c] = Called(hub.call[c])
                                  ELSE hub'.call[c] = hub.call[c]
  <2>1. CASE m \in Call
    <3>1. hub.call[m] \in {"new", "pending", "streaming", "streamed", "disposed", "ended"}
      BY <2>1 DEF HubRecord
    <3> DEFINE s == Called(hub.call[m])
    <3>2. s \in {"new", "pending", "streaming", "streamed", "disposed", "ended"}
      BY <3>1, CalledIsState
    <3>3. hub' = [hub EXCEPT !.call[m] = s]
      BY <2>1, MessagesAreNamed DEF SendFails
    <3>4. s = Called(hub.call[m])
      OBVIOUS
    <3> HIDE DEF s
    <3> QED BY <2>1, <3>2, <3>3, <3>4 DEF HubRecord
  <2>2. CASE m = "ping"
    <3>1. hub' = [hub EXCEPT !.ping = FALSE]
      BY <2>2 DEF SendFails
    <3>2. m \notin Call
      BY <2>2, MessagesAreNamed
    <3> QED BY <3>1, <3>2 DEF HubRecord
  <2>3. CASE m = "cancel"
    <3>1. hub' = hub
      BY <2>3 DEF SendFails
    <3>2. m \notin Call
      BY <2>3, MessagesAreNamed
    <3> QED BY <3>1, <3>2 DEF HubRecord
  <2> QED BY <1>1, <2>1, <2>2, <2>3, MessagesAreNamed
<1>5. HubStateInv' /\ HandshakeInv'
  BY <1>2, <1>4 DEF HubInv, HubStateInv, HandshakeInv
<1>6. CallInv'
  <2>1. ASSUME NEW c \in Call
        PROVE  /\ hub'.call[c] = "new" => hub.call[c] = "new"
               /\ Waits(c)' => Waits(c) /\ http'.sent[c] = http.sent[c]
    <3>1. hub.call[c] \in {"new", "pending", "streaming", "streamed", "disposed", "ended"}
          /\ c \in Message
      BY MessagesAreNamed DEF HubRecord
    <3>2. CASE c = m
      BY <1>4, <3>1, <3>2, CalledIsState DEF Waits
    <3>3. CASE c # m
      BY <1>2, <1>4, <3>1, <3>3 DEF Waits
    <3> QED BY <3>2, <3>3
  <2> QED BY <1>1, <1>2, <1>3, <2>1, CallsKept DEF HubInv
<1> QED BY <1>3, <1>4, <1>5, <1>6 DEF HubInv

LEMMA SendCancelStep ==
  ASSUME HttpTypes, hub \in HubRecord, HttpInv, HubInv, ~Unsettled,
         NEW c \in Call, SendCancel(c)
  PROVE  /\ HttpTypes' /\ hub' \in HubRecord /\ HttpInv' /\ HubInv' /\ ~Unsettled'
         /\ ContractStep
<1>1. /\ hub.call[c] = "disposed"
      /\ hub' = [hub EXCEPT !.call[c] = "ended", !.ping = TRUE]
      /\ HttpSend(http, "cancel") /\ transport' = transport
  BY DEF SendCancel, MayCancel
<1>2. "cancel" \in Message /\ Call \subseteq Message \ {"cancel"}
  BY MessagesAreNamed
<1>3. HttpTypes' /\ HttpInv' /\ ~Unsettled' /\ ContractStep
  BY <1>1, <1>2, HttpSent DEF HttpTypes
<1>4. /\ http'.state = http.state /\ http'.connectionStarted = http.connectionStarted
      /\ http'.start = http.start
      /\ \A n \in Message \ {"cancel"} : http'.sent[n] = http.sent[n]
      /\ \A q \in DOMAIN queue :
           /\ queue'[q].batch \subseteq queue[q].batch
           /\ queue'[q].buffer \subseteq queue[q].buffer \cup {"cancel"}
  BY <1>1, <1>2, HttpSendFields DEF HttpTypes
<1>5. /\ hub' \in HubRecord /\ hub'.attempt = hub.attempt /\ hub'.state = hub.state
      /\ hub'.delay = hub.delay /\ hub'.timeout = hub.timeout
      /\ hub'.handshake = hub.handshake
      /\ hub'.stopDuringStartError = hub.stopDuringStartError
      /\ \A i \in Call : hub'.call[i] = IF i = c THEN "ended" ELSE hub.call[i]
  BY <1>1 DEF HubRecord
<1>6. HubStateInv' /\ HandshakeInv'
  BY <1>4, <1>5 DEF HubInv, HubStateInv, HandshakeInv
<1>7. CallInv'
  <2>1. \A i \in Call : /\ hub'.call[i] = "new" => hub.call[i] = "new"
                        /\ Waits(i)' => Waits(i) /\ http'.sent[i] = http.sent[i]
    BY <1>2, <1>4, <1>5 DEF Waits
  <2> QED BY <1>3, <1>4, <2>1, CallsKept DEF HubInv
<1> QED BY <1>3, <1>5, <1>6, <1>7 DEF HubInv

LEMMA HubContinuesStep ==
  ASSUME HttpTypes, hub \in HubRecord, HttpInv, HubInv, ~Unsettled, HubContinues
  PROVE  /\ HttpTypes' /\ hub' \in HubRecord /\ HttpInv' /\ HubInv' /\ ~Unsettled'
         /\ ContractStep
BY ConnectionStartsStep, ConnectionFailsStep, HandshakeSentStep, HandshakeFailsStep,
   HandshakeEndsStep, AttemptEndsStep, SendFailsStep, SendCancelStep DEF HubContinues

-----------------------------------------------------------------------------
(* The page, the timers and the server                                     *)

(* startInternal of a hub connection that has nothing below.               *)
LEMMA StartingStep ==
  ASSUME HttpTypes, hub \in HubRecord, HttpInv, HubInv, ~Unsettled,
         http.state = "Disconnected", hub.attempt = "none", MayStart,
         NEW c \in HubRecord, ~c.delay, c.state # "Disconnected", c.state # "Connected",
         c.timeout = hub.timeout, c.call = hub.call,
         NEW caller \in {"start", "reconnect"},
         hub' = StartInternal(c, caller), http' = HttpStart(http),
         transport' = transport, queue' = queue
  PROVE  /\ HttpTypes' /\ hub' \in HubRecord /\ HttpInv' /\ HubInv' /\ ~Unsettled'
         /\ ContractStep
<1>1. http.start = "none" /\ http.stopInternal = "none"
      /\ (hub.timeout => http.connectionStarted)
  BY DEF MayStart, HubInv, HubStateInv, HandshakeInv
<1>2. /\ HttpTypes' /\ HttpInv' /\ ~Unsettled' /\ ContractStep
      /\ http'.start = "await" /\ http'.state = "Connecting"
      /\ http'.connectionStarted = http.connectionStarted /\ http'.sent = http.sent
  BY <1>1, HttpStarts
<1>3. /\ hub' \in HubRecord /\ hub'.attempt = "start" /\ hub'.state = c.state
      /\ hub'.delay = c.delay /\ hub'.timeout = hub.timeout /\ hub'.call = hub.call
      /\ hub'.handshake = "pending"
  BY DEF StartInternal, HubRecord
<1>4. HubStateInv' /\ HandshakeInv'
  BY <1>1, <1>2, <1>3 DEF HubStateInv, HandshakeInv
<1>5. CallInv'
  BY <1>2, <1>3, CallsKept DEF HubInv, Waits
<1> QED BY <1>2, <1>3, <1>4, <1>5 DEF HubInv

LEMMA StartStep ==
  ASSUME HttpTypes, hub \in HubRecord, HttpInv, HubInv, ~Unsettled, Start \/ DelayEnds
  PROVE  /\ HttpTypes' /\ hub' \in HubRecord /\ HttpInv' /\ HubInv' /\ ~Unsettled'
         /\ ContractStep
<1>1. CASE Start
  <2> DEFINE c == [hub EXCEPT !.state = "Connecting"]
  <2>1. /\ hub.state = "Disconnected" /\ hub.attempt = "none" /\ MayStart
        /\ hub' = StartInternal(c, "start") /\ http' = HttpStart(http)
        /\ transport' = transport /\ queue' = queue
    BY <1>1 DEF Start
  <2>2. /\ c \in HubRecord /\ c.delay = hub.delay /\ c.state = "Connecting"
        /\ c.timeout = hub.timeout /\ c.call = hub.call
    BY DEF HubRecord
  <2>3. http.state = "Disconnected" /\ ~hub.delay
    BY <2>1 DEF HubInv, HubStateInv
  <2> HIDE DEF c
  <2> QED BY <2>1, <2>2, <2>3, StartingStep
<1>2. CASE DelayEnds
  <2> DEFINE c == [hub EXCEPT !.delay = FALSE]
  <2>1. /\ hub.delay /\ MayStart
        /\ hub' = StartInternal(c, "reconnect") /\ http' = HttpStart(http)
        /\ transport' = transport /\ queue' = queue
    BY <1>2 DEF DelayEnds
  <2>2. /\ c \in HubRecord /\ ~c.delay /\ c.state = hub.state
        /\ c.timeout = hub.timeout /\ c.call = hub.call
    BY DEF HubRecord
  <2>3. http.state = "Disconnected" /\ hub.state = "Reconnecting" /\ hub.attempt = "none"
    BY <2>1 DEF HubInv, HubStateInv
  <2> HIDE DEF c
  <2> QED BY <2>1, <2>2, <2>3, StartingStep
<1> QED BY <1>1, <1>2

LEMMA StopStep ==
  ASSUME HttpTypes, hub \in HubRecord, HttpInv, HubInv, ~Unsettled, Idle,
         Stop \/ ServerTimeout
  PROVE  /\ HttpTypes' /\ hub' \in HubRecord /\ HttpInv' /\ HubInv' /\ ~Unsettled'
         /\ ContractStep
<1>1. /\ http.start \notin {"resolved", "rejected"} /\ http \in HttpRecord
      /\ transport' = transport /\ queue' = queue /\ http' \in {http, HttpStop(http)}
  BY DEF Idle, HubIdle, Stop, ServerTimeout, HttpTypes
<1>2. HttpTypes' /\ HttpInv' /\ ~Unsettled' /\ ContractStep
  BY <1>1, HttpStops DEF HttpTypes
<1>3. /\ http'.connectionStarted = http.connectionStarted
      /\ http'.start = http.start /\ http'.sent = http.sent
      /\ http.state = "Disconnected" => http'.state = "Disconnected"
      /\ http.state \in {"Disconnected", "Disconnecting"} => http' = http
  BY <1>1, HttpStopFields
<1>4. CASE Stop
  <2>1. hub.state \notin {"Disconnected", "Disconnecting"} /\ hub' = StopInternal(hub)
    BY <1>4 DEF Stop
  <2>2. /\ hub' \in HubRecord
        /\ hub'.attempt = hub.attempt /\ hub'.handshake = hub.handshake
        /\ hub'.call = hub.call
        /\ IF hub.delay
             THEN /\ ~hub'.delay /\ hub'.timeout = hub.timeout
                  /\ hub'.state \in {"Disconnected", "Disconnecting"}
                  /\ hub'.stopDuringStartError = hub.stopDuringStartError
             ELSE /\ ~hub'.delay /\ ~hub'.timeout /\ hub'.state = "Disconnecting"
                  /\ hub'.stopDuringStartError = (hub.attempt # "none")
    BY <2>1, StopInternalFields
  <2>3. HubStateInv'
    BY <1>3, <2>2 DEF HubInv, HubStateInv
  <2>4. HandshakeInv'
    BY <1>3, <2>2 DEF HubInv, HandshakeInv
  <2>5. CallInv'
    BY <1>1, <1>2, <1>3, <2>2, CallsKept DEF HubInv, Waits
  <2> QED BY <1>2, <2>2, <2>3, <2>4, <2>5 DEF HubInv
<1>5. CASE ServerTimeout
  <2>1. hub' = [hub EXCEPT !.timeout = FALSE]
    BY <1>5 DEF ServerTimeout
  <2>2. /\ hub' \in HubRecord /\ hub'.attempt = hub.attempt /\ hub'.state = hub.state
        /\ hub'.delay = hub.delay /\ hub'.handshake = hub.handshake
        /\ hub'.stopDuringStartError = hub.stopDuringStartError
        /\ ~hub'.timeout /\ hub'.call = hub.call
    BY <2>1 DEF HubRecord
  <2>3. HubStateInv' /\ HandshakeInv'
    BY <1>3, <2>2 DEF HubInv, HubStateInv, HandshakeInv
  <2>4. CallInv'
    BY <1>1, <1>2, <1>3, <2>2, CallsKept DEF HubInv, Waits
  <2> QED BY <1>2, <2>2, <2>3, <2>4 DEF HubInv
<1> QED BY <1>4, <1>5

(* A new invocation waits for an answer once it is sent, and is told at    *)
(* once when it cannot be sent.                                            *)
LEMMA InvokeStep ==
  ASSUME HttpTypes, hub \in HubRecord, HttpInv, HubInv, ~Unsettled,
         NEW c \in Call, Invoke(c) \/ Stream(c)
  PROVE  /\ HttpTypes' /\ hub' \in HubRecord /\ HttpInv' /\ HubInv' /\ ~Unsettled'
         /\ ContractStep
<1>1. PICK s \in {"pending", "streaming"} :
        /\ hub.call[c] = "new"
        /\ hub' = [hub EXCEPT !.call[c] = s, !.ping = TRUE]
        /\ HttpSend(http, c) /\ transport' = transport
  BY DEF Invoke, Stream, SendWithProtocol
<1>2. c \in Message /\ Call \subseteq Message
  BY MessagesAreNamed
<1>3. HttpTypes' /\ HttpInv' /\ ~Unsettled' /\ ContractStep
  BY <1>1, <1>2, HttpSent DEF HttpTypes
<1>4. /\ http'.state = http.state /\ http'.connectionStarted = http.connectionStarted
      /\ http'.start = http.start /\ http'.sent[c] \in {"pending", "failed"}
      /\ \A n \in Message \ {c} : http'.sent[n] = http.sent[n]
      /\ \A q \in DOMAIN queue :
           /\ queue'[q].batch \subseteq queue[q].batch
           /\ queue'[q].buffer \subseteq queue[q].buffer \cup {c}
  BY <1>1, <1>2, HttpSendFields DEF HttpTypes
<1>5. /\ hub' \in HubRecord /\ hub'.attempt = hub.attempt /\ hub'.state = hub.state
      /\ hub'.delay = hub.delay /\ hub'.timeout = hub.timeout
      /\ hub'.handshake = hub.handshake
      /\ hub'.stopDuringStartError = hub.stopDuringStartError
      /\ \A i \in Call : hub'.call[i] = IF i = c THEN s ELSE hub.call[i]
  BY <1>1 DEF HubRecord
<1>6. HubStateInv' /\ HandshakeInv'
  BY <1>4, <1>5 DEF HubInv, HubStateInv, HandshakeInv
<1>7. CallInv'
  <2>1. DOMAIN queue' = DOMAIN queue
    BY <1>3 DEF HttpTypes
  <2>2. ASSUME NEW i \in Call
        PROVE  /\ Waits(i)' => http'.connectionStarted \/ http'.sent[i] \in {"pending", "failed"}
               /\ \A q \in DOMAIN queue' :
                    /\ i \in queue'[q].batch /\ Waits(i)' => http'.connectionStarted
                    /\ i \in queue'[q].batch \cup queue'[q].buffer => hub'.call[i] # "new"
    <3>1. CASE i = c
      <4>1. \A q \in DOMAIN queue : c \notin queue'[q].batch
        BY <1>1, <1>4 DEF HubInv, CallInv
      <4> QED BY <1>1, <1>4, <1>5, <2>1, <3>1, <4>1
    <3>2. CASE i # c
      <4>1. http'.sent[i] = http.sent[i] /\ hub'.call[i] = hub.call[i]
        BY <1>2, <1>4, <1>5, <3>2
      <4> QED BY <1>4, <2>1, <3>2, <4>1 DEF HubInv, CallInv, Waits
    <3> QED BY <3>1, <3>2
  <2> QED BY <2>2 DEF CallInv
<1> QED BY <1>3, <1>5, <1>6, <1>7 DEF HubInv

LEMMA DisposeStep ==
  ASSUME HttpTypes, hub \in HubRecord, HttpInv, HubInv, ~Unsettled,
         NEW c \in Call, Dispose(c)
  PROVE  /\ HttpTypes' /\ hub' \in HubRecord /\ HttpInv' /\ HubInv' /\ ~Unsettled'
         /\ ContractStep
<1>1. hub' = [hub EXCEPT !.call[c] = "disposed"] /\ UNCHANGED httpVars /\ http' = http
  BY DEF Dispose, httpVars
<1>2. /\ hub' \in HubRecord /\ hub'.attempt = hub.attempt /\ hub'.state = hub.state
      /\ hub'.delay = hub.delay /\ hub'.timeout = hub.timeout
      /\ hub'.handshake = hub.handshake
      /\ hub'.stopDuringStartError = hub.stopDuringStartError
      /\ \A i \in Call : hub'.call[i] = IF i = c THEN "disposed" ELSE hub.call[i]
  BY <1>1 DEF HubRecord
<1>3. HubStateInv' /\ HandshakeInv'
  BY <1>1, <1>2 DEF HubInv, HubStateInv, HandshakeInv
<1> QED BY <1>1, <1>2, <1>3, HubAlone

LEMMA KeepAliveStep ==
  ASSUME HttpTypes, hub \in HubRecord, HttpInv, HubInv, ~Unsettled, KeepAlive
  PROVE  /\ HttpTypes' /\ hub' \in HubRecord /\ HttpInv' /\ HubInv' /\ ~Unsettled'
         /\ ContractStep
<1>1. CASE hub.state = "Connected"
  <2>1. /\ hub' = [hub EXCEPT !.pings = hub.pings + 1] /\ hub.pings < MaxPings
        /\ HttpSend(http, "ping") /\ transport' = transport
    BY <1>1 DEF KeepAlive
  <2>2. hub.pings + 1 \in 0..MaxPings
    BY <2>1, MessagesAreNamed DEF HubRecord
  <2>3. "ping" \in Message /\ Call \subseteq Message \ {"ping"}
    BY MessagesAreNamed
  <2>4. HttpTypes' /\ HttpInv' /\ ~Unsettled' /\ ContractStep
    BY <2>1, <2>3, HttpSent DEF HttpTypes
  <2>5. /\ http'.state = http.state /\ http'.connectionStarted = http.connectionStarted
        /\ http'.start = http.start
        /\ \A n \in Message \ {"ping"} : http'.sent[n] = http.sent[n]
        /\ \A q \in DOMAIN queue :
             /\ queue'[q].batch \subseteq queue[q].batch
             /\ queue'[q].buffer \subseteq queue[q].buffer \cup {"ping"}
    BY <2>1, <2>3, HttpSendFields DEF HttpTypes
  <2>6. /\ hub' \in HubRecord /\ hub'.attempt = hub.attempt /\ hub'.state = hub.state
        /\ hub'.delay = hub.delay /\ hub'.timeout = hub.timeout
        /\ hub'.handshake = hub.handshake
        /\ hub'.stopDuringStartError = hub.stopDuringStartError /\ hub'.call = hub.call
    BY <2>1, <2>2 DEF HubRecord
  <2>7. HubStateInv' /\ HandshakeInv'
    BY <2>5, <2>6 DEF HubInv, HubStateInv, HandshakeInv
  <2>8. CallInv'
    BY <2>3, <2>4, <2>5, <2>6, CallsKept DEF HubInv, Waits
  <2> QED BY <2>4, <2>6, <2>7, <2>8 DEF HubInv
<1>2. CASE hub.state # "Connected"
  <2>1. hub' = [hub EXCEPT !.ping = FALSE] /\ UNCHANGED httpVars /\ http' = http
    BY <1>2 DEF KeepAlive, httpVars
  <2>2. /\ hub' \in HubRecord /\ hub'.attempt = hub.attempt /\ hub'.state = hub.state
        /\ hub'.delay = hub.delay /\ hub'.timeout = hub.timeout
        /\ hub'.handshake = hub.handshake
        /\ hub'.stopDuringStartError = hub.stopDuringStartError /\ hub'.call = hub.call
    BY <2>1 DEF HubRecord
  <2>3. HubStateInv' /\ HandshakeInv'
    BY <2>1, <2>2 DEF HubInv, HubStateInv, HandshakeInv
  <2> QED BY <2>1, <2>2, <2>3, HubAlone
<1> QED BY <1>1, <1>2

(* What the server sends comes over a transport of a connection that was   *)
(* started, and may take it down.                                          *)
LEMMA ReceiveStep ==
  ASSUME HttpTypes, hub \in HubRecord, HttpInv, HubInv, ~Unsettled, Idle,
         NEW t \in Transport, transport[t].st = "open", http.connectionStarted,
         NEW data \in Seq(ServerText), Receive(t, data)
  PROVE  /\ HttpTypes' /\ hub' \in HubRecord /\ HttpInv' /\ HubInv' /\ ~Unsettled'
         /\ ContractStep
<1> DEFINE done == Incoming(hub, data)
           closes == done.throws /\ transport[t].kind # "WebSockets"
<1>1. /\ http.transport = t /\ http.state \in {"Connected", "Disconnecting"}
      /\ http.startInternal \in {"none", "resolved"} /\ http.stopInternal # "transport"
      /\ ~hub.delay /\ hub.state # "Disconnected" /\ http.start # "resolved"
      /\ http \in HttpRecord /\ transport \in [Transport -> TransportRecord]
  BY DEF HttpInv, TransportInv, HubInv, HubStateInv, HttpTypes, Idle, HubIdle
<1>2. /\ transport' = [transport EXCEPT ![t].answered = TRUE,
                         ![t].st = IF closes THEN "closed" ELSE @]
      /\ http' = IF closes THEN StopConnection(done.http) ELSE done.http
      /\ Closes(done.hub) /\ queue' = queue
  BY DEF Receive
<1>3. /\ Brought(hub, done.hub) /\ done.http \in {http, HttpStop(http)}
      /\ done.throws => done.http = http
  BY <1>1, IncomingBrings
<1> HIDE DEF done
<1>5. CASE closes
  <2>1. http' = StopConnection(http)
    BY <1>2, <1>3, <1>5
  <2>2. /\ http' \in HttpRecord
        /\ http'.transport = Undefined /\ http'.sendQueue = http.sendQueue
        /\ http'.startInternal = http.startInternal /\ http'.start = http.start
        /\ http'.stopInternal = http.stopInternal /\ http'.sent = http.sent
        /\ http'.state = "Disconnected" /\ http'.connectionStarted = FALSE
    <3>1. StopConnection(http) \in HttpRecord /\ ~StopConnection(http).connectionStarted
      BY <1>1, StopConnectionFields
    <3>2. StopConnection(http).connectionStarted = FALSE
      BY <3>1 DEF HttpRecord
    <3> QED BY <1>1, <2>1, <3>2, StopConnectionFields
  <2>3. /\ transport' \in [Transport -> TransportRecord]
        /\ \A u \in Transport : transport'[u].st = "closed"
    <3>1. transport' = [transport EXCEPT ![t] =
                          [transport[t] EXCEPT !.answered = TRUE, !.st = "closed"]]
      BY <1>1, <1>2, <1>5
    <3>2. /\ [transport[t] EXCEPT !.answered = TRUE, !.st = "closed"] \in TransportRecord
          /\ [transport[t] EXCEPT !.answered = TRUE, !.st = "closed"].st = "closed"
      BY <1>1 DEF TransportRecord
    <3>3. \A u \in Transport : u # t => transport[u].st = "closed"
      BY <1>1 DEF HttpInv, TransportInv
    <3> QED BY <1>1, <3>1, <3>2, <3>3
  <2>4. HttpTypes'
    BY <1>2, <2>2, <2>3 DEF HttpTypes
  <2>5. TransportInv'
    <3>1. Undefined \notin Transport
      BY TransportsAreNumbers
    <3> QED BY <2>2, <2>3, <3>1 DEF TransportInv
  <2>6. StartInv'
    BY <1>1, <2>2 DEF HttpInv, StartInv
  <2>7. StopInv' /\ QueueInv'
    BY <1>1, <1>2, <2>2, <2>3 DEF HttpInv, StopInv, QueueInv
  <2>8. ~Unsettled' /\ ContractStep
    BY <1>1, <2>2 DEF Unsettled, ContractStep, Contract!Next, Contract!GoDown
  <2>9. hub' = ConnectionClosed(done.hub)
    BY <1>2, <2>2 DEF Closes
  <2>10. /\ hub' \in HubRecord /\ hub'.attempt = hub.attempt
         /\ hub'.stopDuringStartError = (hub.attempt # "none")
         /\ hub.handshake # "none" => hub'.handshake \notin {"none", "pending"}
         /\ ~hub'.timeout /\ Cancelled(done.hub, hub')
         /\ hub'.delay => done.hub.state = "Connected" /\ hub'.state = "Reconnecting"
         /\ hub'.state \in {hub.state, "Disconnecting", "Disconnected", "Reconnecting"}
         /\ hub'.state = "Connected" => hub.state = "Connected"
    BY <1>1, <1>3, <2>9, ConnectionClosedFields DEF Brought
  <2>11. HubStateInv'
    BY <1>1, <1>3, <2>2, <2>10 DEF HubInv, HubStateInv, Brought
  <2>12. HandshakeInv'
    BY <2>10 DEF HubInv, HandshakeInv
  <2>13. CallInv'
    <3>1. \A c \in Call : done.hub.call[c] \in
            {"new", "pending", "streaming", "streamed", "disposed", "ended"}
      BY <1>3 DEF Brought, HubRecord
    <3>2. \A c \in Call : ~Waits(c)' /\ (hub'.call[c] = "new" => hub.call[c] = "new")
      BY <1>3, <2>10, <3>1, CalledIsState DEF Waits, Cancelled, Brought
    <3> QED BY <1>2, <3>2 DEF HubInv, CallInv
  <2> QED BY <2>4, <2>5, <2>6, <2>7, <2>8, <2>10, <2>11, <2>12, <2>13 DEF HttpInv, HubInv
<1>6. CASE ~closes
  <2>1. http' \in {http, HttpStop(http)}
    BY <1>2, <1>3, <1>6
  <2>2. /\ transport' \in [Transport -> TransportRecord]
        /\ \A u \in Transport : transport'[u].st = transport[u].st
    <3>1. transport' = [transport EXCEPT ![t] =
                          [transport[t] EXCEPT !.answered = TRUE, !.st = transport[t].st]]
      BY <1>1, <1>2, <1>6
    <3>2. /\ [transport[t] EXCEPT !.answered = TRUE, !.st = transport[t].st] \in TransportRecord
          /\ [transport[t] EXCEPT !.answered = TRUE, !.st = transport[t].st].st = transport[t].st
      BY <1>1 DEF TransportRecord
    <3> QED BY <1>1, <3>1, <3>2
  <2>3. HttpTypes' /\ HttpInv' /\ ~Unsettled' /\ ContractStep
    BY <1>1, <1>2, <2>1, <2>2, HttpStops
  <2>4. /\ http'.connectionStarted = http.connectionStarted
        /\ http'.start = http.start /\ http'.sent = http.sent
        /\ http'.state # "Connecting" /\ http'.state # "Disconnected"
        /\ http.state = "Disconnecting" => http'.state = "Disconnecting"
    BY <1>1, <2>1, HttpStopFields
  <2>5. hub' = done.hub
    BY <1>2, <2>4 DEF Closes
  <2>6. HubStateInv'
    BY <1>1, <1>3, <2>4, <2>5 DEF HubInv, HubStateInv, Brought
  <2>7. HandshakeInv'
    BY <1>3, <2>4, <2>5 DEF HubInv, HandshakeInv, Brought
  <2>8. CallInv'
    BY <1>2, <1>3, <2>3, <2>4, <2>5, CallsKept DEF HubInv, Waits, Brought
  <2> QED BY <1>3, <2>3, <2>5, <2>6, <2>7, <2>8 DEF HubInv, Brought
<1> QED BY <1>5, <1>6

LEMMA ServerStep ==
  ASSUME HttpTypes, hub \in HubRecord, HttpInv, HubInv, ~Unsettled, Idle,
         NEW t \in Transport, Answer(t) \/ Send(t)
  PROVE  /\ HttpTypes' /\ hub' \in HubRecord /\ HttpInv' /\ HubInv' /\ ~Unsettled'
         /\ ContractStep
<1>1. transport[t].st = "open"
      /\ (transport[t].answered \/ transport[t].got # {})
  BY DEF Answer, Send
<1>2. http.connectionStarted
  BY <1>1 DEF HttpInv, QueueInv
<1>3. PICK data \in Seq(ServerText) : Receive(t, data)
  <2>1. transport[t].got \cap Call \in SUBSET Call
    OBVIOUS
  <2> QED BY <2>1, DataIsTexts DEF Answer, Send
<1> QED BY <1>1, <1>2, <1>3, ReceiveStep

-----------------------------------------------------------------------------
(* Every step                                                              *)

LEMMA InitInv == HubInit => Inv
<1> SUFFICES ASSUME HubInit PROVE Inv
  OBVIOUS
<1>1. HttpTypes
  <2>1. /\ 0 \in 0..MaxRedirects /\ << >> \in Seq(STRING)
        /\ [m \in Message |-> "none"] \in [Message -> {"none", "pending", "ok", "failed"}]
    BY OffersAreLists
  <2>2. http \in HttpRecord
    BY <2>1 DEF HubInit, HttpInit, HttpRecord
  <2>3. transport \in [Transport -> TransportRecord]
    BY ClosedIsTransport DEF HubInit, HttpInit
  <2>4. Ended \in QueueRecord
    BY DEF Ended, QueueRecord
  <2>5. queue \in [Transport \cup {Undefined} -> QueueRecord]
    BY <2>4 DEF HubInit, HttpInit
  <2> QED BY <2>2, <2>3, <2>5 DEF HttpTypes
<1>2. hub \in HubRecord
  <2>1. /\ 0 \in 0..MaxPings /\ 0 \in 0..Delays
        /\ [c \in Call |-> "new"]
             \in [Call -> {"new", "pending", "streaming", "streamed", "disposed", "ended"}]
    BY MessagesAreNamed
  <2> QED BY <2>1 DEF HubInit, HubRecord
<1>3. /\ http.state = "Disconnected" /\ ~http.connectionStarted /\ http.transport = Undefined
      /\ http.startInternal = "none" /\ http.start = "none" /\ http.stopInternal = "none"
  BY DEF HubInit, HttpInit
<1>4. /\ \A t \in Transport : transport[t].st = "closed"
      /\ \A q \in DOMAIN queue : queue[q].loop = "ended" /\ queue[q].batch = {}
                                 /\ queue[q].buffer = {}
  BY DEF HubInit, HttpInit, Closed, Ended
<1>5. TransportInv
  <2>1. Undefined \notin Transport
    BY TransportsAreNumbers
  <2> QED BY <1>3, <1>4, <2>1 DEF TransportInv
<1>6. StartInv /\ StopInv /\ QueueInv /\ Resolving
  BY <1>3, <1>4 DEF StartInv, StopInv, QueueInv, Resolving, Unsettled
<1>7. HubStateInv /\ HandshakeInv
  BY <1>3 DEF HubInit, HubStateInv, HandshakeInv
<1>8. CallInv
  <2>1. \A c \in Call : hub.call[c] = "new"
    BY DEF HubInit
  <2> QED BY <1>4, <2>1 DEF CallInv, Waits
<1> QED BY <1>1, <1>2, <1>5, <1>6, <1>7, <1>8, TypesAreParts DEF Inv, HttpInv, HubInv

(* Until start() knows that the connection is up, nothing else moves.      *)
LEMMA OnlyTheStartIsDue ==
  ASSUME Inv, Unsettled, Next
  PROVE  StartContinues /\ Closes(hub)
<1>1. /\ http.state = "Connected" /\ ~http.connectionStarted
      /\ http.startInternal = "resolved" /\ http.start = "await"
      /\ \A q \in DOMAIN queue : queue[q].loop # "woken"
      /\ \A c \in Call : ~MayCancel(c)
      /\ \A m \in Message : m # "handshake" => http.sent[m] # "failed"
      /\ hub.attempt = "start"
      /\ http.stopInternal = "none"
  BY DEF Inv, Unsettled, Resolving, HttpInv, StartInv, StopInv, HubInv, HubStateInv, TypeOK,
         HttpRecord
<1>2. ~Idle
  BY <1>1 DEF Idle, HttpIdle
<1>3. ~HubContinues
  BY <1>1 DEF HubContinues, ConnectionStarts, ConnectionFails, HandshakeSent, HandshakeFails,
              HandshakeStopped, HandshakeCompletes, AttemptSucceeds, StartFails,
              ReconnectFails, SendFails, SendCancel
<1> QED BY <1>1, <1>2, <1>3 DEF Next, HttpContinues, SendLoop, StopContinues, QueueStopped,
                                TransportStopped

LEMMA StepInv == Inv /\ [Next]_hubVars => Inv' /\ ContractStep
<1> SUFFICES ASSUME Inv, [Next]_hubVars PROVE Inv' /\ ContractStep
  OBVIOUS
<1>1. HttpTypes /\ hub \in HubRecord /\ HttpInv /\ HubInv
  BY TypesAreParts DEF Inv
<1>2. ASSUME HttpTypes' /\ hub' \in HubRecord /\ HttpInv' /\ HubInv' /\ Resolving'
      PROVE  Inv'
  BY <1>2 DEF Inv, TypeOK, HttpTypes
<1>3. ASSUME HttpTypes' /\ hub' \in HubRecord /\ HttpInv' /\ HubInv' /\ ~Unsettled'
      PROVE  Inv'
  BY <1>2, <1>3 DEF Resolving
<1>4. CASE UNCHANGED hubVars
  <2>1. hub' = hub /\ http' = http /\ transport' = transport /\ queue' = queue
    BY <1>4 DEF hubVars
  <2>2. Inv'
    BY <2>1 DEF Inv, TypeOK, HttpInv, TransportInv, StartInv, StopInv, QueueInv, Resolving,
                Unsettled, MayCancel, HubInv, HubStateInv, HandshakeInv, CallInv, Waits
  <2> QED BY <2>1, <2>2 DEF ContractStep, Contract!vars
<1>5. CASE Next /\ Unsettled
  <2>1. HttpContinues /\ Closes(hub) /\ StartContinues
    BY <1>5, OnlyTheStartIsDue DEF HttpContinues
  <2> QED BY <1>1, <1>3, <2>1, HttpContinuesStep
<1>6. CASE Next /\ ~Unsettled
  <2>1. CASE HttpContinues /\ Closes(hub)
    BY <1>1, <1>3, <1>6, <2>1, HttpContinuesStep
  <2>2. CASE HubContinues
    BY <1>1, <1>3, <1>6, <2>2, HubContinuesStep
  <2>3. CASE Idle /\ NetworkEvent /\ Closes(hub)
    BY <1>1, <1>2, <1>6, <2>3, NetworkStep
  <2>4. CASE Idle /\ PageEvent
    BY <1>1, <1>3, <1>6, <2>4, StartStep, StopStep, InvokeStep, DisposeStep DEF PageEvent
  <2>5. CASE Idle /\ Timer
    BY <1>1, <1>3, <1>6, <2>5, StartStep, StopStep, KeepAliveStep DEF Timer
  <2>6. CASE Idle /\ ServerEvent
    BY <1>1, <1>3, <1>6, <2>6, ServerStep DEF ServerEvent
  <2> QED BY <1>6, <2>1, <2>2, <2>3, <2>4, <2>5, <2>6 DEF Next
<1> QED BY <1>4, <1>5, <1>6

LEMMA InvAlways == Spec => []Inv
<1>1. HubInit => Inv
  BY InitInv
<1>2. Inv /\ [Next]_hubVars => Inv'
  BY StepInv
<1> QED BY <1>1, <1>2, PTL DEF Spec

-----------------------------------------------------------------------------
(* The theorems                                                            *)

(* The records of the connection, its transports, its queues and the hub   *)
(* connection keep their types, and reconnect() never counts an attempt    *)
(* beyond the delays of its policy (getNextRetryDelay, line 2615).         *)
THEOREM TypeCorrect == Spec => []TypeOK
<1>1. Inv => TypeOK
  BY DEF Inv
<1> QED BY <1>1, InvAlways, PTL

(* A hub connection that says it is Disconnected has no connection and no  *)
(* transport below, whatever stopped it and when (startWithState-          *)
(* Transitions, line 1992; HttpConnection.start, line 3467).               *)
THEOREM DisconnectedHasNothingOpen == Spec => []DisconnectedIsDown
<1>1. Inv => DisconnectedIsDown
  <2> SUFFICES ASSUME Inv, hub.state = "Disconnected"
               PROVE  http.state = "Disconnected" /\ \A t \in Transport : transport[t].st = "closed"
    BY DEF DisconnectedIsDown
  <2>1. http.state = "Disconnected" /\ http.transport = Undefined
    BY DEF Inv, HubInv, HubStateInv, HttpInv, StartInv
  <2>2. Undefined \notin Transport
    BY TransportsAreNumbers
  <2> QED BY <2>1, <2>2 DEF Inv, HttpInv, TransportInv
<1> QED BY <1>1, InvAlways, PTL

(* However the connection closes and whatever fails, an invocation that    *)
(* has not ended has a started connection or is still to be sent (invoke,  *)
(* line 2240; stream, line 2154; cancelCallbacksWithError, line 2628).     *)
THEOREM CallsAreNotForgotten == Spec => []NoCallIsForgotten
<1>1. Inv => NoCallIsForgotten
  <2> SUFFICES ASSUME Inv, Idle, NEW c \in Call, hub.call[c] \in {"pending", "streaming"}
               PROVE  http.connectionStarted \/ http.sent[c] = "pending"
    BY DEF NoCallIsForgotten
  <2>1. http.connectionStarted \/ http.sent[c] \in {"pending", "failed"}
    BY DEF Inv, HubInv, CallInv, Waits
  <2>2. http.sent[c] # "failed"
    BY MessagesAreNamed DEF Idle, HubIdle
  <2> QED BY <2>1, <2>2
<1> QED BY <1>1, InvAlways, PTL

(* The timer that waits for the server is armed only while a connection is *)
(* started: it never fires into a later one (resetTimeoutPeriod, line      *)
(* 2453).                                                                  *)
THEOREM TimeoutHasConnection == Spec => []TimeoutWatchesConnection
<1>1. Inv => TimeoutWatchesConnection
  BY DEF Inv, HubInv, HandshakeInv, TimeoutWatchesConnection, Idle, HubIdle
<1> QED BY <1>1, InvAlways, PTL

(* HttpConnection is a connection as HubConnection relies on it: one start *)
(* at a time, settled only when the connection is up or down again, and    *)
(* one onclose for each start that was resolved (the comments at lines     *)
(* 2079 and 2142).  That a start is settled is liveness.                   *)
THEOREM HttpConnectionIsConnection == Spec => Contract!Spec
<1>1. HubInit => Contract!Init
  BY DEF HubInit, HttpInit, Contract!Init
<1>2. Inv /\ [Next]_hubVars => [Contract!Next]_(Contract!vars)
  BY StepInv DEF ContractStep
<1> QED BY <1>1, <1>2, InvAlways, PTL DEF Spec, Contract!Spec

=============================================================================
