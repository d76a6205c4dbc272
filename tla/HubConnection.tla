---------------------------- MODULE HubConnection ---------------------------
(***************************************************************************)
(* HubConnection of wwwroot/js/signalr.js over HttpConnection, as          *)
(* index_.html builds it: start and the handshake, invocations, the two    *)
(* timers, automatic reconnect, stop at any time, and what the server's    *)
(* messages do.                                                            *)
(***************************************************************************)
EXTENDS HttpConnection, HubProtocol

CONSTANTS
  Call,           \* invocations the page may make, of a method or of a stream
  MaxPings,       \* bound: keep-alive pings that are sent
  Delays,         \* how many delays the reconnect policy has, before its null
  HandshakeData,  \* the data a server may begin a connection with
  Data(_)         \* the data it may send later, given the calls it has got

ASSUME MessagesAreNamed ==
  /\ Message = Call \cup {"handshake", "ping", "cancel"}
  /\ Call \cap {"handshake", "ping", "cancel"} = {}
  /\ MaxPings \in Nat /\ Delays \in Nat

(* The texts a server sends, with the invocation that some of them name.   *)
ServerText == [type : STRING] \cup [type : STRING, id : Call]

ASSUME DataIsTexts ==
  /\ HandshakeData \subseteq Seq(ServerText)
  /\ \A got \in SUBSET Call : Data(got) \subseteq Seq(ServerText)

VARIABLE hub

hubVars == <<hub, http, transport, queue>>

HubInit ==
  /\ HttpInit
  /\ hub = [state |-> "Disconnected", connectionStarted |-> FALSE,
            stopDuringStartError |-> FALSE, receivedHandshakeResponse |-> FALSE,
            handshake |-> "none", attempt |-> "none", by |-> "start",
            awaitsStop |-> FALSE, timeout |-> FALSE, ping |-> FALSE, delay |-> FALSE,
            pings |-> 0, retries |-> 0,
            call |-> [c \in Call |-> "new"]]

-----------------------------------------------------------------------------
(* Parts of the handlers                                                   *)

(* completeClose: the page's onclose callbacks are called when this takes  *)
(* connectionStarted down.                                                 *)
CompleteClose(c) ==
  IF c.connectionStarted
    THEN [c EXCEPT !.state = "Disconnected", !.connectionStarted = FALSE]
    ELSE c

(* Mutant: the invocations are not told.                                   *)
LeaveCallbacks(c) == c

(* What the callback of an invocation makes of it when it is given a       *)
(* result or an error: the promise is settled, or the observers of the     *)
(* stream are told.  Without a callback an invocation stays as it is.      *)
Called(state) ==
  CASE state = "pending" -> "ended"
    [] state = "streaming" -> "streamed"
    [] OTHER -> state

CancelCallbacks(c) ==
  [c EXCEPT !.call = [i \in Call |-> Called(@[i])]]

(* Mutant: only one of the timers is cleared.                              *)
CleanupPingTimer(c) == [c EXCEPT !.ping = FALSE]

CleanupTimers(c) == [c EXCEPT !.timeout = FALSE, !.ping = FALSE]

(* Mutant: the answer to the handshake is waited for without a timer.      *)
NoTimeout(c) == c

(* resetTimeoutPeriod, when the connection does not keep itself alive.     *)
ResetTimeout(c) == [c EXCEPT !.timeout = @ \/ ~http.inherentKeepAlive]

(* reconnect up to its first delay.                                        *)
Reconnect(c) ==
  IF Delays = 0
    THEN CompleteClose(c)
    ELSE [c EXCEPT !.state = "Reconnecting", !.retries = 1, !.delay = TRUE]

(* Mutant: a stop that is under way is not completed.                      *)
ClosedWhenConnected(c) ==
  LET told == CleanupTimers(CancelCallbacks(
                [c EXCEPT !.stopDuringStartError = c.attempt # "none",
                          !.handshake = IF @ = "pending" THEN "resolved" ELSE @]))
  IN IF c.state = "Connected" THEN Reconnect(told) ELSE told

(* connectionClosed, the onclose of the connection below.                  *)
ConnectionClosed(c) ==
  LET told == CleanupTimers(CancelCallbacks(
                [c EXCEPT !.stopDuringStartError = c.attempt # "none",
                          !.handshake = IF @ = "pending" THEN "resolved" ELSE @]))
  IN CASE c.state = "Disconnecting" -> CompleteClose(told)
       [] c.state = "Connected" -> Reconnect(told)
       [] OTHER -> told

(* The connection below called onclose in this step, or it did not.        *)
Closes(c) ==
  hub' = IF http.connectionStarted /\ ~http'.connectionStarted
           THEN ConnectionClosed(c) ELSE c

(* stopInternal up to the stop of the connection below.                    *)
StopInternal(c) ==
  IF c.state \in {"Disconnected", "Disconnecting"} THEN c
  ELSE IF c.delay
         THEN CompleteClose([c EXCEPT !.state = "Disconnecting", !.delay = FALSE,
                                      !.retries = 0])
         ELSE CleanupTimers([c EXCEPT !.state = "Disconnecting",
                                      !.stopDuringStartError = c.attempt # "none"])

(* It stops that connection unless it was waiting to reconnect.            *)
StopsBelow(c) == c.state \notin {"Disconnected", "Disconnecting"} /\ ~c.delay

(* startInternal up to its first await.                                    *)
StartInternal(c, caller) ==
  [c EXCEPT !.stopDuringStartError = FALSE, !.receivedHandshakeResponse = FALSE,
            !.handshake = "pending", !.attempt = "start", !.by = caller]

-----------------------------------------------------------------------------
(* Continuations                                                           *)

(* connection.start() is settled: the handshake request is sent, which     *)
(* resets the keep-alive timer, or the attempt has failed.                 *)
ConnectionStarts ==
  /\ hub.attempt = "start" /\ http.start = "resolved"
  /\ hub' = [hub EXCEPT !.attempt = "send", !.ping = TRUE]
  /\ HttpSend([http EXCEPT !.start = "none"], "handshake")
  /\ UNCHANGED transport

ConnectionFails ==
  /\ hub.attempt = "start" /\ http.start = "rejected"
  /\ hub' = [hub EXCEPT !.attempt = "failed"]
  /\ http' = [http EXCEPT !.start = "none"]
  /\ UNCHANGED <<transport, queue>>

HandshakeSent ==
  /\ hub.attempt = "send" /\ http.sent["handshake"] = "ok"
  /\ hub' = ResetTimeout([hub EXCEPT !.attempt = "wait", !.timeout = FALSE, !.ping = TRUE])
  /\ http' = [http EXCEPT !.sent["handshake"] = "none"]
  /\ UNCHANGED <<transport, queue>>

(* Mutant: the connection is left as it is.                                *)
HandshakeFailsAlone ==
  /\ \/ hub.attempt = "send" /\ http.sent["handshake"] = "failed"
     \/ hub.attempt = "wait" /\ hub.handshake = "rejected"
     \/ hub.attempt = "wait" /\ hub.handshake = "resolved" /\ hub.stopDuringStartError
  /\ hub' = CleanupTimers([hub EXCEPT !.attempt = "failed"])
  /\ http' = [http EXCEPT !.sent["handshake"] = "none"]
  /\ UNCHANGED <<transport, queue>>

(* connection.stop() is done: nothing was to stop, or both the stopInternal *)
(* it began and the promise that stopConnection resolves have ended.       *)
StopReturns ==
  \/ http.state = "Disconnected" /\ ~hub.awaitsStop
  \/ http.stopped /\ (hub.awaitsStop => http.stopInternal = "none")

(* The catch of startInternal: the connection below is stopped.            *)
HandshakeFails ==
  /\ \/ hub.attempt = "send" /\ http.sent["handshake"] = "failed"
     \/ hub.attempt = "wait" /\ hub.handshake = "rejected"
     \/ hub.attempt = "wait" /\ hub.handshake = "resolved" /\ hub.stopDuringStartError
  /\ hub' = CleanupTimers([hub EXCEPT
              !.attempt = "stop",
              !.awaitsStop = http.state \notin {"Disconnected", "Disconnecting"}])
  /\ http' = HttpStop([http EXCEPT !.sent["handshake"] = "none"])
  /\ UNCHANGED <<transport, queue>>

HandshakeStopped ==
  /\ hub.attempt = "stop" /\ StopReturns
  /\ hub' = [hub EXCEPT !.attempt = "failed", !.awaitsStop = FALSE]
  /\ UNCHANGED httpVars

HandshakeCompletes ==
  /\ hub.attempt = "wait" /\ hub.handshake = "resolved" /\ ~hub.stopDuringStartError
  /\ hub' = [hub EXCEPT !.attempt = "completed"]
  /\ UNCHANGED httpVars

(* startInternal has ended: what it alone looks at does not matter more.    *)
NoAttempt ==
  [hub EXCEPT !.attempt = "none", !.by = "start",
              !.stopDuringStartError = FALSE, !.handshake = "none"]

(* Mutant: one retry too many.                                             *)
OneMoreRetry == hub.retries <= Delays

(* getNextRetryDelay does not return null.                                 *)
RetriesLeft == hub.retries < Delays

(* startWithStateTransitions and reconnect after startInternal.            *)
AttemptSucceeds ==
  /\ hub.attempt = "completed"
  /\ hub' = [NoAttempt EXCEPT !.state = "Connected", !.retries = 0,
                              !.connectionStarted = @ \/ hub.by = "start"]
  /\ UNCHANGED httpVars

StartFails ==
  /\ hub.attempt = "failed" /\ hub.by = "start"
  /\ hub' = [NoAttempt EXCEPT !.state = "Disconnected"]
  /\ UNCHANGED httpVars

ReconnectFails ==
  /\ hub.attempt = "failed" /\ hub.by = "reconnect"
  /\ hub' = IF hub.state = "Reconnecting" /\ RetriesLeft
              THEN [NoAttempt EXCEPT !.retries = @ + 1, !.delay = TRUE]
              ELSE LET ended == [NoAttempt EXCEPT !.retries = 0]
                   IN IF hub.state = "Reconnecting" THEN CompleteClose(ended) ELSE ended
  /\ UNCHANGED httpVars

(* What was sent could not be sent: an invocation is rejected, a ping      *)
(* stops the keep-alive timer, a cancellation is caught.                   *)
SendFails(m) ==
  /\ m # "handshake" /\ http.sent[m] = "failed"
  /\ http' = [http EXCEPT !.sent[m] = "none"]
  /\ hub' = CASE m = "ping" -> [hub EXCEPT !.ping = FALSE]
              [] m = "cancel" -> hub
              [] OTHER -> [hub EXCEPT !.call[m] = Called(@)]
  /\ UNCHANGED <<transport, queue>>

(* The subscription was disposed of, and the invocation was sent or could  *)
(* not be sent: the server is asked to stop the stream.                    *)
MayCancel(c) == hub.call[c] = "disposed" /\ http.sent[c] = "none"

SendCancel(c) ==
  /\ MayCancel(c)
  /\ hub' = [hub EXCEPT !.call[c] = "ended", !.ping = TRUE]
  /\ HttpSend(http, "cancel")
  /\ UNCHANGED transport

HubContinues ==
  \/ ConnectionStarts \/ ConnectionFails
  \/ HandshakeSent \/ HandshakeFails \/ HandshakeStopped \/ HandshakeCompletes
  \/ AttemptSucceeds \/ StartFails \/ ReconnectFails
  \/ \E m \in Message : SendFails(m)
  \/ \E c \in Call : SendCancel(c)

HubIdle ==
  /\ http.start \notin {"resolved", "rejected"}
  /\ hub.attempt \notin {"completed", "failed"}
  /\ hub.attempt = "send" => http.sent["handshake"] = "pending"
  /\ hub.attempt = "wait" => hub.handshake = "pending"
  /\ hub.attempt = "stop" => ~StopReturns
  /\ \A m \in Message \ {"handshake"} : http.sent[m] # "failed"
  /\ \A c \in Call : ~MayCancel(c)

(* No continuation is due: the next event may come.                        *)
Idle == HttpIdle /\ HubIdle

-----------------------------------------------------------------------------
(* Events: the page, the timers, the server                                *)

(* HubConnection.start; it is refused unless the state is Disconnected.    *)
Start ==
  /\ hub.state = "Disconnected" /\ hub.attempt = "none" /\ MayStart
  /\ hub' = StartInternal([hub EXCEPT !.state = "Connecting"], "start")
  /\ http' = HttpStart(http)
  /\ UNCHANGED <<transport, queue>>

(* HubConnection.stop                                                      *)
Stop ==
  /\ hub.state \notin {"Disconnected", "Disconnecting"}
  /\ hub' = StopInternal(hub)
  /\ http' = IF StopsBelow(hub) THEN HttpStop(http) ELSE http
  /\ UNCHANGED <<transport, queue>>

(* A new invocation gets its callback and is sent, in every state.         *)
SendWithProtocol(c, state) ==
  /\ hub.call[c] = "new"
  /\ hub' = [hub EXCEPT !.call[c] = state, !.ping = TRUE]
  /\ HttpSend(http, c)
  /\ UNCHANGED transport

(* HubConnection.invoke                                                    *)
Invoke(c) == SendWithProtocol(c, "pending")

(* HubConnection.stream, and the page subscribes once.                     *)
Stream(c) == SendWithProtocol(c, "streaming")

(* SubjectSubscription.dispose, by the page and once: the callback is      *)
(* deleted, and what cancels the stream waits until the invocation is sent.*)
Dispose(c) ==
  /\ hub.call[c] \in {"streaming", "streamed"}
  /\ hub' = [hub EXCEPT !.call[c] = "disposed"]
  /\ UNCHANGED httpVars

DelayEnds ==
  /\ hub.delay /\ MayStart
  /\ hub' = StartInternal([hub EXCEPT !.delay = FALSE], "reconnect")
  /\ http' = HttpStart(http)
  /\ UNCHANGED <<transport, queue>>

ServerTimeout ==
  /\ hub.timeout
  /\ hub' = [hub EXCEPT !.timeout = FALSE]
  /\ http' = HttpStop(http)
  /\ UNCHANGED <<transport, queue>>

(* The keep-alive timer: it is set again by what it sends, so not at all   *)
(* when the hub is not connected.                                          *)
KeepAlive ==
  /\ hub.ping
  /\ hub.state = "Connected" => hub.pings < MaxPings
  /\ IF hub.state = "Connected"
       THEN hub' = [hub EXCEPT !.pings = @ + 1] /\ HttpSend(http, "ping")
       ELSE hub' = [hub EXCEPT !.ping = FALSE] /\ UNCHANGED <<http, queue>>
  /\ UNCHANGED transport

(* Both the hub connection and the connection below, when this is stopped  *)
(* from here.                                                              *)
Stopped(both) ==
  [hub |-> StopInternal(both.hub),
   http |-> IF StopsBelow(both.hub) THEN HttpStop(both.http) ELSE both.http]

(* A method of the page is called.  A server that wants its result is not  *)
(* served.                                                                 *)
InvokeClientMethod(message, both) ==
  IF message.type = "InvocationWithId" THEN Stopped(both) ELSE both

(* One message in processIncomingData.  An item of a stream is an error to *)
(* the invocation of a method.                                             *)
Process(message, both) ==
  CASE message.type = "Completion" ->
         [both EXCEPT !.hub.call[message.id] = Called(@)]
    [] message.type = "StreamItem" ->
         [both EXCEPT !.hub.call[message.id] = IF @ = "pending" THEN "ended" ELSE @]
    [] message.type = "CloseAllowingReconnect" -> [both EXCEPT !.http = HttpStop(@)]
    [] message.type = "Close" -> Stopped(both)
    [] message.type = "InvocationWithId" -> InvokeClientMethod(message, both)
    [] OTHER -> both

(* The messages of data in turn.  A separator is none, and what            *)
(* parseMessages leaves out, texts of a type it does not know, does        *)
(* nothing.                                                                *)
ProcessAll(data, both) ==
  LET after[i \in 0..Len(data)] ==
        IF i = 0 THEN both ELSE Process(data[i], after[i - 1])
  IN after[Len(data)]

(* What processIncomingData has parsed, and whether it throws: handling    *)
(* the handshake response first, and nothing when a message is not valid.  *)
Incoming(c, data) ==
  LET rest == IF c.receivedHandshakeResponse THEN data ELSE AfterHandshake(data)
      accepted == c.receivedHandshakeResponse \/ Accepts(data)
      quiet == [c EXCEPT !.timeout = FALSE]
      greeted == IF c.receivedHandshakeResponse THEN quiet
                 ELSE [quiet EXCEPT !.receivedHandshakeResponse = TRUE,
                        !.handshake = IF @ = "pending" THEN "resolved" ELSE @]
  IN IF ~accepted
       THEN [throws |-> TRUE, http |-> http,
             hub |-> [quiet EXCEPT !.handshake = IF @ = "pending" THEN "rejected" ELSE @]]
       ELSE IF ~MessagesParse(rest)
              THEN [throws |-> TRUE, http |-> http, hub |-> greeted]
              ELSE LET done == ProcessAll(rest, [hub |-> greeted, http |-> http])
                   IN [throws |-> FALSE, http |-> done.http, hub |-> ResetTimeout(done.hub)]

(* A message, an event or a poll response comes.  What is thrown is lost   *)
(* in the handler of a socket; an event source or a long poll closes.      *)
Receive(t, data) ==
  LET done == Incoming(hub, data)
      closes == done.throws /\ transport[t].kind # "WebSockets"
  IN /\ transport' = [transport EXCEPT ![t].answered = TRUE,
                                       ![t].st = IF closes THEN "closed" ELSE @]
     /\ http' = IF closes THEN StopConnection(done.http) ELSE done.http
     /\ Closes(done.hub)
     /\ UNCHANGED queue

(* The server answers the handshake request once it has it.                *)
Answer(t) ==
  /\ transport[t].st = "open" /\ ~transport[t].answered /\ "handshake" \in transport[t].got
  /\ \E data \in HandshakeData : Receive(t, data)

Send(t) ==
  /\ transport[t].st = "open" /\ transport[t].answered
  /\ \E data \in Data(transport[t].got \cap Call) : Receive(t, data)

PageEvent ==
  \/ Start \/ Stop
  \/ \E c \in Call : Invoke(c) \/ Stream(c) \/ Dispose(c)

Timer == DelayEnds \/ ServerTimeout \/ KeepAlive

ServerEvent == \E t \in Transport : Answer(t) \/ Send(t)

Next ==
  \/ HttpContinues /\ Closes(hub)
  \/ HubContinues
  \/ Idle /\ NetworkEvent /\ Closes(hub)
  \/ Idle /\ (PageEvent \/ Timer \/ ServerEvent)

Spec == HubInit /\ [][Next]_hubVars

(* The browser runs what is due, ends every request it has begun, with an  *)
(* answer or an error, and lets timers elapse; the one that waits for the  *)
(* server elapses unless the server speaks, which before the handshake is  *)
(* its answer.  Nothing is assumed of the page or of the server.           *)
Fairness ==
  /\ WF_hubVars(HttpContinues /\ Closes(hub))
  /\ WF_hubVars(HubContinues)
  /\ WF_hubVars(Idle /\ Negotiate /\ Closes(hub))
  /\ WF_hubVars(Idle /\ Renegotiate /\ Closes(hub))
  /\ WF_hubVars(Idle /\ (ConnectSucceeds \/ ConnectFails) /\ Closes(hub))
  /\ \A q \in Transport \cup {Undefined} : WF_hubVars(Idle /\ PostReturns(q) /\ Closes(hub))
  /\ \A t \in Transport : WF_hubVars(Idle /\ DeleteReturns(t) /\ Closes(hub))
  /\ WF_hubVars(Idle /\ DelayEnds)
  /\ WF_hubVars(Idle /\ hub.attempt # "none" /\ ServerTimeout)

FairSpec == Spec /\ Fairness

-----------------------------------------------------------------------------
(* Properties                                                              *)

HttpRecord ==
  [state : {"Disconnected", "Connecting", "Connected", "Disconnecting"},
   connectionStarted : BOOLEAN,
   transport : Transport \cup {Undefined},
   sendQueue : Transport \cup {Undefined, NoQueue},
   startInternal : {"none", "negotiate", "connect", "renegotiate", "resolved", "rejected"},
   start : {"none", "await", "awaitStop", "resolved", "rejected"},
   rest : Seq(STRING),
   redirects : 0..MaxRedirects,
   stopInternal : {"none", "awaitStart", "queue", "transport"},
   stopped : BOOLEAN,
   inherentKeepAlive : BOOLEAN,
   sent : [Message -> {"none", "pending", "ok", "failed"}]]

TransportRecord ==
  [kind : Kind \cup {"none"}, st : {"closed", "connecting", "open", "deleting"},
   got : SUBSET Message, answered : BOOLEAN]

QueueRecord ==
  [executing : BOOLEAN, buffer : SUBSET Message, batch : SUBSET Message,
   loop : {"idle", "woken", "sending", "ended"}]

HubRecord ==
  [state : {"Disconnected", "Connecting", "Connected", "Disconnecting", "Reconnecting"},
   connectionStarted : BOOLEAN,
   stopDuringStartError : BOOLEAN,
   receivedHandshakeResponse : BOOLEAN,
   handshake : {"none", "pending", "resolved", "rejected"},
   attempt : {"none", "start", "send", "wait", "stop", "completed", "failed"},
   by : {"start", "reconnect"},
   awaitsStop : BOOLEAN,
   timeout : BOOLEAN, ping : BOOLEAN, delay : BOOLEAN,
   pings : 0..MaxPings, retries : 0..Delays,
   call : [Call -> {"new", "pending", "streaming", "streamed", "disposed", "ended"}]]

(* Every variable has its type; the attempts of reconnect() are counted    *)
(* within the delays the policy gives (getNextRetryDelay, line 2615).      *)
TypeOK ==
  /\ http \in HttpRecord
  /\ transport \in [Transport -> TransportRecord]
  /\ queue \in [Transport \cup {Undefined} -> QueueRecord]
  /\ hub \in HubRecord

(* A hub connection that says it is Disconnected has nothing open below:   *)
(* start() is not refused, and no earlier connection brings messages to    *)
(* the new one (the state of startWithStateTransitions, line 1992, against *)
(* that of HttpConnection.start, line 3467).                               *)
DisconnectedIsDown ==
  Idle /\ hub.state = "Disconnected" =>
    /\ http.state = "Disconnected"
    /\ \A t \in Transport : transport[t].st = "closed"

(* An invocation or a stream that has not ended has a connection that can  *)
(* end it, or is still to be sent: none is forgotten when the connection   *)
(* closes, however it closes (invoke, line 2240; stream, line 2154;        *)
(* cancelCallbacksWithError, line 2628).                                   *)
NoCallIsForgotten ==
  Idle => \A c \in Call :
    hub.call[c] \in {"pending", "streaming"} =>
      http.connectionStarted \/ http.sent[c] = "pending"

(* The server's timeout is armed only while there is a connection: it      *)
(* never fires into a later connection (resetTimeoutPeriod, line 2453).    *)
TimeoutWatchesConnection == Idle /\ hub.timeout => http.connectionStarted

(* HttpConnection is a connection as HubConnection relies on it.           *)
Contract == INSTANCE Connection WITH
  phase <- http.state,
  promise <- IF http.start \in {"await", "awaitStop"} THEN "pending" ELSE http.start,
  open <- http.connectionStarted

(* One start at a time, settled when the connection is up or down again,   *)
(* and one onclose for each start that was resolved (the comments at lines *)
(* 2079 and 2142).                                                         *)
ConnectionContract == Contract!FairSpec

(* Neither start() nor an attempt to reconnect hangs: without a server's   *)
(* answer the timeout ends it (start, line 1988; reconnect, line 2529).  A *)
(* connection that ever was a long poll has no timeout (line 2455).        *)
AttemptsEnd ==
  \A state \in {"Connecting", "Reconnecting"} :
    hub.state = state ~> hub.state # state \/ http.inherentKeepAlive

(* stop() ends in the Disconnected state when there is a connection to     *)
(* stop or a first start under way (stopInternal, line 2118).              *)
StopEnds ==
  hub.state = "Disconnecting"
  /\ (http.connectionStarted \/ (hub.attempt # "none" /\ hub.by = "start"))
    ~> hub.state # "Disconnecting"
=============================================================================
