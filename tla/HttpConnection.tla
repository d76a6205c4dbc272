--------------------------- MODULE HttpConnection ---------------------------
(***************************************************************************)
(* HttpConnection of wwwroot/js/signalr.js with its transports and its     *)
(* TransportSendQueue: negotiation, the transports tried in turn, sending, *)
(* stop() at any time, and the ways a transport ends.                      *)
(*                                                                         *)
(* JavaScript runs to completion: an event of the network starts only when *)
(* no continuation of a promise is due.  A step below is such a            *)
(* continuation (Continues) or such an event (NetworkEvent); HubConnection *)
(* puts them together.  Continuations that are due at once run in any      *)
(* order: it depends on the Promise that is used, and the file brings      *)
(* es6-promise for browsers that have none.                                *)
(***************************************************************************)
EXTENDS Integers, Sequences, FiniteSets

CONSTANTS
  Transport,     \* transport objects: positive numbers, used again when nothing holds them
  Offers,        \* the lists of transports that negotiation may offer
  MaxRedirects,  \* MAX_REDIRECTS
  Message        \* what is sent

VARIABLES http, transport, queue

httpVars == <<http, transport, queue>>

Undefined == 0      \* no transport
NoQueue == -1       \* no send queue

ASSUME TransportsAreNumbers == Transport \subseteq Nat \ {Undefined}

ASSUME OffersAreLists == Offers \subseteq Seq(STRING) /\ MaxRedirects \in Nat

(* All but the first send by POST.                                         *)
Kind == {"WebSockets", "ServerSentEvents", "LongPolling"}

(* A transport that is closed, or was never used: nothing of it matters.   *)
Closed == [kind |-> "none", st |-> "closed", got |-> {}, answered |-> FALSE]

Ended == [executing |-> TRUE, buffer |-> {}, batch |-> {}, loop |-> "ended"]

IdleQueue == [Ended EXCEPT !.loop = "idle"]

HttpInit ==
  /\ http = [state |-> "Disconnected", connectionStarted |-> FALSE,
             transport |-> Undefined, sendQueue |-> NoQueue,
             startInternal |-> "none", start |-> "none",
             rest |-> << >>, redirects |-> 0, stopInternal |-> "none",
             stopped |-> TRUE, inherentKeepAlive |-> FALSE,
             sent |-> [m \in Message |-> "none"]]
  /\ transport = [t \in Transport |-> Closed]
  /\ queue = [t \in Transport \cup {Undefined} |-> Ended]

-----------------------------------------------------------------------------
(* start                                                                   *)

(* A transport object nothing refers to any more.                          *)
Unused(t) ==
  /\ transport[t].st = "closed" /\ queue[t].loop = "ended"
  /\ t \notin {http.transport, http.sendQueue}

(* HttpConnection.start up to its first await.                             *)
HttpStart(h) ==
  IF h.state # "Disconnected"
    THEN [h EXCEPT !.start = "rejected"]
    ELSE [h EXCEPT !.state = "Connecting", !.startInternal = "negotiate",
                   !.start = "await"]

(* resolveTransportOrError: where a list names transports that the client  *)
(* knows; the others are passed over without a negotiation.                *)
Resolved(offer) == {i \in DOMAIN offer : offer[i] \in Kind}

(* Bounds: a connection is started again only when its last stopInternal   *)
(* has ended (see the README for what the code does before that) and when  *)
(* there are objects for the transports to try.                            *)
MayStart ==
  /\ http.stopInternal = "none"
  /\ \A offer \in Offers :
       Cardinality({t \in Transport : Unused(t)}) >= Cardinality(Resolved(offer))

(* The catch of startInternal.                                             *)
StartInternalFails(h) ==
  [h EXCEPT !.state = "Disconnected", !.transport = Undefined,
            !.startInternal = "rejected", !.rest = << >>, !.redirects = 0]

LongPolls == {t \in Transport : transport[t].kind = "LongPolling"}

(* The last lines of startInternal.                                        *)
StartInternalEnds(h) ==
  [h EXCEPT !.inherentKeepAlive = @ \/ h.transport \in LongPolls,
            !.state = IF @ = "Connecting" THEN "Connected" ELSE @,
            !.startInternal = "resolved", !.rest = << >>, !.redirects = 0]

(* createTransport at the next of the transports in h.rest: it is          *)
(* constructed and set, and connects once there is a negotiation for it.   *)
(* MayStart leaves an object for it.                                       *)
TryTransport(h, objects, pc) ==
  LET next(i) == i \in Resolved(h.rest) /\ \A j \in Resolved(h.rest) : i <= j
      free(t) == Unused(t) /\ \A u \in Transport : Unused(u) => t <= u
  IN \/ /\ Resolved(h.rest) = {}
        /\ http' = StartInternalFails(h) /\ transport' = objects
     \/ \E i \in DOMAIN h.rest, t \in Transport :
          /\ next(i) /\ free(t)
          /\ transport' = [objects EXCEPT
               ![t] = [Closed EXCEPT !.kind = h.rest[i], !.st = "connecting"]]
          /\ http' = [h EXCEPT !.transport = t, !.startInternal = pc,
                               !.rest = SubSeq(@, i + 1, Len(@))]

(* getNegotiationResponse and what startInternal makes of it: a failed     *)
(* request, a stop in the meantime or an error ends the start, another url *)
(* is asked at most MaxRedirects times, or the transports are tried.       *)
Negotiate ==
  /\ http.startInternal = "negotiate"
  /\ \/ http' = StartInternalFails(http) /\ UNCHANGED transport
     \/ /\ http.state = "Connecting" /\ http.redirects < MaxRedirects
        /\ http' = IF http.redirects + 1 = MaxRedirects
                     THEN StartInternalFails(http)
                     ELSE [http EXCEPT !.redirects = @ + 1]
        /\ UNCHANGED transport
     \/ /\ http.state = "Connecting"
        /\ \E offer \in Offers :
             TryTransport([http EXCEPT !.rest = offer], transport, "connect")
  /\ UNCHANGED queue

(* The negotiation createTransport repeats before each further transport:  *)
(* a stop in the meantime does not end it.                                 *)
Renegotiate ==
  /\ http.startInternal = "renegotiate"
  /\ \/ /\ http' = StartInternalFails(http)
        /\ transport' = [transport EXCEPT ![http.transport] = Closed]
     \/ /\ http' = [http EXCEPT !.startInternal = "connect"]
        /\ UNCHANGED transport
  /\ UNCHANGED queue

(* Mutant: the connection stays started.                                   *)
StaysStarted(h) ==
  IF h.state \in {"Disconnected", "Connecting"}
    THEN [h EXCEPT !.transport = Undefined]
    ELSE [h EXCEPT !.transport = Undefined, !.state = "Disconnected",
                   !.stopped = @ \/ h.state = "Disconnecting"]

(* HttpConnection.stopConnection, the onclose of every transport.  The     *)
(* connection's own onclose is called when connectionStarted goes down.    *)
StopConnection(h) ==
  IF h.state \in {"Disconnected", "Connecting"}
    THEN [h EXCEPT !.transport = Undefined]
    ELSE [h EXCEPT !.transport = Undefined, !.state = "Disconnected",
                   !.connectionStarted = FALSE,
                   !.stopped = @ \/ h.state = "Disconnecting"]

(* connect() of the transport that is tried succeeds.                      *)
ConnectSucceeds ==
  /\ http.startInternal = "connect"
  /\ transport' = [transport EXCEPT ![http.transport].st = "open"]
  /\ http' = StartInternalEnds(http)
  /\ UNCHANGED queue

(* The first poll of LongPollingTransport.connect is answered with 204:    *)
(* poll() calls onclose at once, and connect() succeeds all the same.      *)
FirstPollEnds ==
  /\ http.startInternal = "connect" /\ http.transport \in LongPolls
  /\ transport' = [transport EXCEPT ![http.transport] = Closed]
  /\ http' = StartInternalEnds(StopConnection(http))
  /\ UNCHANGED queue

(* connect() is rejected: the next transport, unless stop() was called.    *)
ConnectFails ==
  /\ http.startInternal = "connect"
  /\ LET objects == [transport EXCEPT ![http.transport] = Closed]
     IN IF http.state = "Connecting"
          THEN TryTransport(http, objects, "renegotiate")
          ELSE http' = StartInternalFails(http) /\ transport' = objects
  /\ UNCHANGED queue

(* HttpConnection.start once startInternal has ended.                      *)
StartContinues ==
  /\ \/ /\ http.start = "await" /\ http.startInternal = "rejected"
        /\ http' = [http EXCEPT !.start = "rejected", !.startInternal = "none"]
     \/ /\ http.start = "await" /\ http.startInternal = "resolved"
        /\ http' = [http EXCEPT
             !.startInternal = "none",
             !.start = CASE http.state = "Disconnecting" -> "awaitStop"
                         [] http.state = "Connected" -> "resolved"
                         [] OTHER -> "rejected",
             !.connectionStarted = @ \/ http.state = "Connected"]
     \/ /\ http.start = "awaitStop" /\ http.stopped
        /\ http' = [http EXCEPT !.start = "rejected"]
  /\ UNCHANGED <<transport, queue>>

-----------------------------------------------------------------------------
(* send and TransportSendQueue                                             *)

(* TransportSendQueue.send and bufferData                                  *)
Buffered(q, m) ==
  [q EXCEPT !.buffer = @ \cup {m}, !.loop = IF @ = "idle" THEN "woken" ELSE @]

(* HttpConnection.send: the queue is made for the transport of the moment  *)
(* and kept until stop().                                                  *)
HttpSend(h, m) ==
  IF h.state # "Connected"
    THEN http' = [h EXCEPT !.sent[m] = "failed"] /\ UNCHANGED queue
    ELSE LET q == IF h.sendQueue = NoQueue THEN h.transport ELSE h.sendQueue
             old == IF h.sendQueue = NoQueue THEN IdleQueue ELSE queue[q]
         IN /\ http' = [h EXCEPT !.sent[m] = "pending", !.sendQueue = q]
            /\ queue' = [queue EXCEPT ![q] = Buffered(old, m)]

(* The promises of what was sent are settled; only the handshake waits for *)
(* success.                                                                *)
Settle(h, messages, result) ==
  [h EXCEPT !.sent = [m \in Message |->
     IF m \notin messages THEN @[m]
     ELSE IF result = "ok" /\ m # "handshake" THEN "none" ELSE result]]

(* send() of the transport of a queue is refused when it has none or it    *)
(* is not connected.                                                       *)
CanSend(q) == q # Undefined /\ transport[q].st = "open"

(* sendLoop takes all that is buffered and gives it to its transport: a    *)
(* WebSocket takes it at once, the others POST it.  Once stop() was called *)
(* what is buffered is rejected and the loop ends.                         *)
SendLoop(q) ==
  LET todo == queue[q].buffer
      taken == [queue[q] EXCEPT !.buffer = {}]
  IN /\ queue[q].loop = "woken"
     /\ \/ /\ ~queue[q].executing
           /\ http' = Settle(http, todo, "failed")
           /\ queue' = [queue EXCEPT ![q] = Ended]
           /\ UNCHANGED transport
        \/ /\ queue[q].executing
           /\ ~CanSend(q)
           /\ http' = Settle(http, todo, "failed")
           /\ queue' = [queue EXCEPT ![q] = [taken EXCEPT !.loop = "idle"]]
           /\ UNCHANGED transport
        \/ /\ queue[q].executing
           /\ CanSend(q)
           /\ transport' = [transport EXCEPT ![q].got = @ \cup todo]
           /\ IF transport[q].kind = "WebSockets"
                THEN /\ http' = Settle(http, todo, "ok")
                     /\ queue' = [queue EXCEPT ![q] = [taken EXCEPT !.loop = "idle"]]
                ELSE /\ http' = http
                     /\ queue' = [queue EXCEPT
                          ![q] = [taken EXCEPT !.loop = "sending", !.batch = todo]]

(* The POST of a batch is answered or fails.                               *)
PostReturns(q) ==
  /\ queue[q].loop = "sending"
  /\ \E result \in {"ok", "failed"} : http' = Settle(http, queue[q].batch, result)
  /\ queue' = [queue EXCEPT ![q] =
       [@ EXCEPT !.batch = {},
                 !.loop = IF queue[q].buffer # {} \/ ~queue[q].executing
                            THEN "woken" ELSE "idle"]]
  /\ UNCHANGED transport

-----------------------------------------------------------------------------
(* stop                                                                    *)

(* HttpConnection.stop up to the first await of stopInternal.              *)
HttpStop(h) ==
  IF h.state \in {"Disconnected", "Disconnecting"}
    THEN h
    ELSE [h EXCEPT !.state = "Disconnecting", !.stopped = FALSE,
                   !.stopInternal = "awaitStart"]

IsDeleting == \E t \in Transport : transport[t].st = "deleting"

(* stopInternal stops the transport there is: a socket or an event source  *)
(* closes at once, a long poll when its DELETE has ended.                  *)
StopTransport(h) ==
  LET waits == [h EXCEPT !.stopInternal = "transport"]
  IN CASE h.transport = Undefined ->
            /\ http' = StopConnection([h EXCEPT !.stopInternal = "none"])
            /\ UNCHANGED transport
       [] h.transport \in LongPolls ->
            /\ transport' = [transport EXCEPT ![h.transport].st = "deleting"]
            /\ http' = waits
       [] OTHER ->
            /\ transport' = [transport EXCEPT ![h.transport] = Closed]
            /\ http' = StopConnection(waits)

(* TransportSendQueue.stop                                                 *)
QueueStop(q) ==
  [q EXCEPT !.executing = FALSE, !.loop = IF @ = "idle" THEN "woken" ELSE @]

(* stopInternal once startInternal has ended: first the queue.             *)
StopContinues ==
  /\ http.stopInternal = "awaitStart"
  /\ http.startInternal \in {"none", "resolved", "rejected"}
  /\ IF http.sendQueue = NoQueue
       THEN StopTransport(http) /\ UNCHANGED queue
       ELSE /\ http' = [http EXCEPT !.stopInternal = "queue"]
            /\ queue' = [queue EXCEPT ![http.sendQueue] = QueueStop(@)]
            /\ UNCHANGED transport

QueueStopped ==
  /\ http.stopInternal = "queue" /\ queue[http.sendQueue].loop = "ended"
  /\ StopTransport([http EXCEPT !.sendQueue = NoQueue])
  /\ UNCHANGED queue

(* The last lines of stopInternal.                                         *)
TransportStopped ==
  /\ http.stopInternal = "transport" /\ ~IsDeleting
  /\ http' = [http EXCEPT !.transport = Undefined, !.stopInternal = "none"]
  /\ UNCHANGED <<transport, queue>>

-----------------------------------------------------------------------------
(* What the transports do                                                  *)

(* The socket or the event source closes, or a poll ends with 204 or an    *)
(* error.                                                                  *)
TransportCloses(t) ==
  /\ transport[t].st = "open"
  /\ transport' = [transport EXCEPT ![t] = Closed]
  /\ http' = StopConnection(http)
  /\ UNCHANGED queue

(* The DELETE of a stopped long poll is answered or fails: onclose.        *)
DeleteReturns(t) ==
  /\ transport[t].st = "deleting"
  /\ transport' = [transport EXCEPT ![t] = Closed]
  /\ http' = StopConnection(http)
  /\ UNCHANGED queue

HttpContinues ==
  \/ StartContinues
  \/ \E q \in DOMAIN queue : SendLoop(q)
  \/ StopContinues
  \/ QueueStopped
  \/ TransportStopped

NetworkEvent ==
  \/ Negotiate
  \/ Renegotiate
  \/ ConnectSucceeds
  \/ FirstPollEnds
  \/ ConnectFails
  \/ \E q \in DOMAIN queue : PostReturns(q)
  \/ \E t \in Transport : TransportCloses(t) \/ DeleteReturns(t)

(* No continuation of the connection is due.                               *)
HttpIdle ==
  /\ ~(http.start = "await" /\ http.startInternal \in {"resolved", "rejected"})
  /\ ~(http.start = "awaitStop" /\ http.stopped)
  /\ \A q \in DOMAIN queue : queue[q].loop # "woken"
  /\ CASE http.stopInternal = "awaitStart" ->
            http.startInternal \notin {"none", "resolved", "rejected"}
       [] http.stopInternal = "queue" -> queue[http.sendQueue].loop # "ended"
       [] http.stopInternal = "transport" -> IsDeleting
       [] OTHER -> TRUE
=============================================================================
