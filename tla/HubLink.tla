------------------------------- MODULE HubLink -------------------------------
(***************************************************************************)
(* A hub's link to the gateway: the loop of HubManager.StartAsync,         *)
(* ConnectGateway, DisconnectedGateway, ConnectOrDisconnect, the TCP and   *)
(* UDP listeners and the keep-alive threads.                               *)
(*                                                                         *)
(* All of them share the field TCPClientGateway, which every attempt       *)
(* replaces, and the flags TCPListen and UDPListen, without a lock.        *)
(*                                                                         *)
(* The gateway is the environment: it serves, says that it shuts down, or  *)
(* dies without a word, and comes back.                                    *)
(*                                                                         *)
(* GiveUp, InfoTwice, RetryWhenDown and ListenAlways are wrong versions of *)
(* the definitions that follow them, for the properties to notice.         *)
(***************************************************************************)
EXTENDS Naturals, Sequences, FiniteSets

CONSTANTS
  MaxOutages,  \* how often the gateway stops
  MaxToggles,  \* how often ConnectOrDisconnect is called
  LOOP,        \* the task of StartAsync
  USER         \* the caller of ConnectOrDisconnect

ASSUME HubLinkAssumption == MaxOutages \in Nat /\ MaxToggles \in Nat /\ LOOP # USER

Actor == {LOOP, USER}

\* Every success of ConnectGateway makes one TcpClient and one of each thread.
MaxConns == MaxToggles + 2
Conn == 0..MaxConns
Slot == 1..MaxConns

VARIABLES
  serving,     \* the gateway accepts connections
  outages,     \* how often it stopped
  conn,        \* each TcpClient: "new", "open", "dead" (the peer is gone and
               \* the hub has not noticed), "broken", "closed"
  notice,      \* the connections with a ServerShutdown still to be read
  written,     \* what the hub wrote to each connection, but keep-alives
  client,      \* the field TCPClientGateway
  tcpListen,   \* the field TCPListen
  udpListen,   \* the field UDPListen
  tcp,         \* the TCP listeners: "off", "check", "read", "end"
  reading,     \* the connection whose stream a TCP listener reads
  udp,         \* the UDP listeners: "off", "check", "recv", "end"
  alive,       \* the keep-alive threads: "off", "sleep", "end"
  pc,          \* what the loop and the user do next
  closing,     \* what a TCP listener does next in DisconnectedGateway, or "no"
  toggles,     \* how often ConnectOrDisconnect was called
  cancelled,   \* the host stops the hub
  connected    \* GatewayConnectedEvent: the connection it was published for

fields == <<client, tcpListen, udpListen>>
threads == <<tcp, reading, udp, alive, closing>>
env == <<serving, outages, notice>>
vars == <<serving, outages, conn, notice, written, client, tcpListen, udpListen,
          tcp, reading, udp, alive, pc, closing, toggles, cancelled, connected>>

Init ==
  /\ serving \in BOOLEAN
  /\ outages = 0
  /\ conn = [k \in Conn |-> "new"]
  /\ notice = {}
  /\ written = [k \in Conn |-> << >>]
  /\ client = 0
  /\ tcpListen = FALSE
  /\ udpListen = FALSE
  /\ tcp = [i \in Slot |-> "off"]
  /\ reading = [i \in Slot |-> 0]
  /\ udp = [i \in Slot |-> "off"]
  /\ alive = [i \in Slot |-> "off"]
  /\ pc = [a \in Actor |-> IF a = LOOP THEN "connect" ELSE "idle"]
  /\ closing = [i \in Slot |-> "no"]
  /\ toggles = 0
  /\ cancelled = FALSE
  /\ connected = {}

Connected(k) == conn[k] \in {"open", "dead"}
Goto(a, l) == pc' = [pc EXCEPT ![a] = l]

\* A thread that is started takes the next free slot.
Started(f, l) ==
  LET i == CHOOSE n \in Slot : f[n] = "off" /\ \A k \in 1..(n - 1) : f[k] # "off"
  IN [f EXCEPT ![i] = l]

------------------------------------------------------------------------------
(* ConnectGateway, by the loop or by the user.                             *)

\* What follows when it returns: the loop waits and tries again, unless it is
\* connected; the user is done.
GiveUp(a, ok) == IF a = USER THEN "idle" ELSE "linked"
After(a, ok) == IF a = USER THEN "idle" ELSE IF ok THEN "linked" ELSE "delay"

\* A new TcpClient.  One that never connected cannot be told from a new one.
NewClient(a) ==
  /\ pc[a] = "connect"
  /\ client' = IF conn[client] = "new" THEN client ELSE client + 1
  /\ Goto(a, "dial")
  /\ UNCHANGED <<env, conn, written, tcpListen, udpListen, threads, toggles, cancelled, connected>>

\* Connect to the gateway; it throws when the gateway does not serve, and when
\* another caller has connected the same client.
Dial(a) ==
  /\ pc[a] = "dial"
  /\ IF serving /\ conn[client] = "new"
       THEN conn' = [conn EXCEPT ![client] = "open"] /\ Goto(a, "udp")
       ELSE Goto(a, After(a, FALSE)) /\ UNCHANGED conn
  /\ UNCHANGED <<env, written, fields, threads, toggles, cancelled, connected>>

\* UDPListen = true, whose setter starts a listener whatever it was before.
ListenUDP(a) ==
  /\ pc[a] = "udp"
  /\ udpListen' = TRUE
  /\ udp' = Started(udp, "check")
  /\ Goto(a, "tcp")
  /\ UNCHANGED <<env, conn, written, client, tcpListen, tcp, reading, alive, closing,
                 toggles, cancelled, connected>>

\* TCPListen = true, likewise.
ListenTCP(a) ==
  /\ pc[a] = "tcp"
  /\ tcpListen' = TRUE
  /\ tcp' = Started(tcp, "check")
  /\ Goto(a, "info")
  /\ UNCHANGED <<env, conn, written, client, udpListen, reading, udp, alive, closing,
                 toggles, cancelled, connected>>

\* The UDP info, 550 ms, and the TCP info: SendMessageTCP writes to the client
\* of the moment, if it is connected, and logs what goes wrong.
InfoTwice(a) ==
  /\ pc[a] = "info"
  /\ written' = IF conn[client] = "open"
                  THEN [written EXCEPT ![client] = @ \o <<"INFO", "INFO">>] ELSE written
  /\ conn' = IF conn[client] = "dead" THEN [conn EXCEPT ![client] = "broken"] ELSE conn
  /\ Goto(a, "publish")
  /\ UNCHANGED <<env, fields, threads, toggles, cancelled, connected>>
SendInfo(a) ==
  /\ pc[a] = "info"
  /\ written' = IF conn[client] = "open"
                  THEN [written EXCEPT ![client] = Append(@, "INFO")] ELSE written
  /\ conn' = IF conn[client] = "dead" THEN [conn EXCEPT ![client] = "broken"] ELSE conn
  /\ Goto(a, "publish")
  /\ UNCHANGED <<env, fields, threads, toggles, cancelled, connected>>

\* The keep-alive thread, GatewayConnectedEvent, and true is returned.
Publish(a) ==
  /\ pc[a] = "publish"
  /\ alive' = Started(alive, "sleep")
  /\ connected' = connected \cup {client}
  /\ Goto(a, After(a, TRUE))
  /\ UNCHANGED <<env, conn, written, fields, tcp, reading, udp, closing, toggles, cancelled>>

ConnectGateway(a) ==
  NewClient(a) \/ Dial(a) \/ ListenUDP(a) \/ ListenTCP(a) \/ SendInfo(a) \/ Publish(a)

------------------------------------------------------------------------------
(* The loop of StartAsync and the user.                                    *)

\* The delay is over: ConnectGateway again.  Once connected, the loop only
\* waits; a cancellation ends it.
RetryWhenDown ==
  /\ pc[LOOP] \in {"delay", "linked"}
  /\ \/ cancelled /\ Goto(LOOP, "end")
     \/ ~cancelled /\ ~Connected(client) /\ (\E i \in Slot : tcp[i] = "off")
        /\ Goto(LOOP, "connect")
  /\ UNCHANGED <<env, conn, written, fields, threads, toggles, cancelled, connected>>
Retry ==
  /\ pc[LOOP] \in {"delay", "linked"}
  /\ \/ cancelled /\ Goto(LOOP, "end")
     \/ ~cancelled /\ pc[LOOP] = "delay" /\ Goto(LOOP, "connect")
  /\ UNCHANGED <<env, conn, written, fields, threads, toggles, cancelled, connected>>

Cancel ==
  /\ ~cancelled
  /\ cancelled' = TRUE
  /\ UNCHANGED <<env, conn, written, fields, threads, pc, toggles, connected>>

ConnectOrDisconnect ==
  /\ pc[USER] = "idle"
  /\ toggles < MaxToggles
  /\ toggles' = toggles + 1
  /\ Goto(USER, IF Connected(client) THEN "disconnect" ELSE "connect")
  /\ UNCHANGED <<env, conn, written, fields, threads, cancelled, connected>>

\* DisconnectedGateway by the user: Disconnect, UDPListen, TCPListen in turn;
\* Disconnect throws to the user when the client is not connected any more.
UserDisconnects ==
  /\ \/ /\ pc[USER] = "disconnect"
        /\ IF Connected(client)
             THEN conn' = [conn EXCEPT ![client] = "closed"] /\ Goto(USER, "flags")
             ELSE Goto(USER, "idle") /\ UNCHANGED conn
        /\ UNCHANGED <<udpListen, tcpListen>>
     \/ /\ pc[USER] = "flags"
        /\ udpListen' = FALSE /\ tcpListen' = FALSE
        /\ Goto(USER, "idle")
        /\ UNCHANGED conn
  /\ UNCHANGED <<env, written, client, threads, toggles, cancelled, connected>>

------------------------------------------------------------------------------
(* The threads.                                                            *)

\* while (TCPListen): GetStream of the client of the moment, which throws when
\* it is not connected, and the loop turns.
ListenAlways(i) ==
  /\ tcp[i] = "check"
  /\ Connected(client)
  /\ tcp' = [tcp EXCEPT ![i] = "read"] /\ reading' = [reading EXCEPT ![i] = client]
  /\ UNCHANGED <<env, conn, written, fields, udp, alive, pc, closing, toggles, cancelled, connected>>
TcpCheck(i) ==
  /\ tcp[i] = "check"
  /\ \/ ~tcpListen /\ tcp' = [tcp EXCEPT ![i] = "end"] /\ UNCHANGED reading
     \/ /\ tcpListen /\ Connected(client)
        /\ tcp' = [tcp EXCEPT ![i] = "read"] /\ reading' = [reading EXCEPT ![i] = client]
  /\ UNCHANGED <<env, conn, written, fields, udp, alive, pc, closing, toggles, cancelled, connected>>

\* The read returns a shutdown, or throws: the stream is at its end or closed.
TcpRead(i) ==
  /\ tcp[i] = "read"
  /\ closing[i] = "no"
  /\ LET k == reading[i] IN
       \/ /\ k \in notice
          /\ conn[k] \in {"open", "dead"}
          /\ notice' = notice \ {k}
          /\ closing' = [closing EXCEPT ![i] = "disconnect"]
          /\ UNCHANGED tcp
       \/ /\ conn[k] \in {"broken", "closed"} \/ (conn[k] = "dead" /\ k \notin notice)
          /\ tcp' = [tcp EXCEPT ![i] = "check"]
          /\ UNCHANGED <<notice, closing>>
  /\ UNCHANGED <<serving, outages, conn, written, fields, reading, udp, alive, pc,
                 toggles, cancelled, connected>>

\* DisconnectedGateway by the listener, which disconnects the client of the
\* moment; when that throws, the flags stay and the listener logs it.
TcpDisconnects(i) ==
  /\ \/ /\ closing[i] = "disconnect"
        /\ IF Connected(client)
             THEN /\ conn' = [conn EXCEPT ![client] = "closed"]
                  /\ closing' = [closing EXCEPT ![i] = "flags"]
                  /\ UNCHANGED tcp
             ELSE /\ closing' = [closing EXCEPT ![i] = "no"]
                  /\ tcp' = [tcp EXCEPT ![i] = "check"]
                  /\ UNCHANGED conn
        /\ UNCHANGED <<udpListen, tcpListen>>
     \/ /\ closing[i] = "flags"
        /\ udpListen' = FALSE /\ tcpListen' = FALSE
        /\ closing' = [closing EXCEPT ![i] = "no"]
        /\ tcp' = [tcp EXCEPT ![i] = "check"]
        /\ UNCHANGED conn
  /\ UNCHANGED <<env, written, client, reading, udp, alive, pc, toggles, cancelled, connected>>

\* while (UDPListen): Receive blocks until a datagram comes, whatever the flag
\* is by then.
Udp(i) ==
  /\ \/ udp[i] = "check" /\ udp' = [udp EXCEPT ![i] = IF udpListen THEN "recv" ELSE "end"]
     \/ udp[i] = "recv" /\ udp' = [udp EXCEPT ![i] = "check"]
  /\ UNCHANGED <<env, conn, written, fields, tcp, reading, alive, pc, closing, toggles,
                 cancelled, connected>>

\* while (TCPClientGateway.Connected): 5 s later a KeepAlive is written to the
\* client of the moment, which is how a dead peer is noticed.
KeepAlive(i) ==
  /\ alive[i] = "sleep"
  /\ alive' = [alive EXCEPT ![i] = IF Connected(client) THEN "sleep" ELSE "end"]
  /\ conn' = IF conn[client] = "dead" THEN [conn EXCEPT ![client] = "broken"] ELSE conn
  /\ UNCHANGED <<env, written, fields, tcp, reading, udp, pc, closing, toggles, cancelled, connected>>

\* The gateway stops: it announces the shutdown to the hubs whose info it has,
\* unless it crashes; every connection ends.
GatewayStops ==
  /\ serving
  /\ outages < MaxOutages
  /\ outages' = outages + 1
  /\ serving' = FALSE
  /\ \/ notice' = notice \cup {k \in Conn : conn[k] = "open" /\ written[k] # << >>}
     \/ UNCHANGED notice
  /\ conn' = [k \in Conn |-> IF conn[k] = "open" THEN "dead" ELSE conn[k]]
  /\ UNCHANGED <<written, fields, threads, pc, toggles, cancelled, connected>>

GatewayStarts ==
  /\ ~serving
  /\ serving' = TRUE
  /\ UNCHANGED <<outages, notice, conn, written, fields, threads, pc, toggles, cancelled, connected>>

------------------------------------------------------------------------------
Loop == ConnectGateway(LOOP) \/ Retry
User == ConnectGateway(USER) \/ ConnectOrDisconnect \/ UserDisconnects
TcpListener(i) == TcpCheck(i) \/ TcpRead(i) \/ TcpDisconnects(i)

Next ==
  \/ Loop \/ User \/ Cancel
  \/ \E i \in Slot : TcpListener(i) \/ Udp(i) \/ KeepAlive(i)
  \/ GatewayStops \/ GatewayStarts

Spec == Init /\ [][Next]_vars

\* The task and every thread are scheduled again and again.
FairSpec ==
  /\ Spec
  /\ WF_vars(Loop)
  /\ \A i \in Slot : WF_vars(TcpListener(i)) /\ WF_vars(KeepAlive(i))

------------------------------------------------------------------------------
Label == {"connect", "dial", "udp", "tcp", "info", "publish", "linked", "delay", "end",
          "idle", "disconnect", "flags"}

\* At most one thread of each kind is started per success of ConnectGateway,
\* so that there is a slot for each.
TypeOK ==
  /\ serving \in BOOLEAN /\ cancelled \in BOOLEAN
  /\ outages \in 0..MaxOutages /\ toggles \in 0..MaxToggles
  /\ conn \in [Conn -> {"new", "open", "dead", "broken", "closed"}]
  /\ notice \subseteq Conn
  /\ written \in [Conn -> Seq({"INFO"})]
  /\ client \in Conn
  /\ tcpListen \in BOOLEAN /\ udpListen \in BOOLEAN
  /\ tcp \in [Slot -> {"off", "check", "read", "end"}]
  /\ reading \in [Slot -> Conn]
  /\ udp \in [Slot -> {"off", "check", "recv", "end"}]
  /\ alive \in [Slot -> {"off", "sleep", "end"}]
  /\ pc \in [Actor -> Label]
  /\ closing \in [Slot -> {"no", "disconnect", "flags"}]
  /\ connected \subseteq Conn

\* The gateway relies on it: as long as only the loop connects, a hub writes its
\* info once to a connection, also when attempts failed before.
InfoIsSentOnce == toggles = 0 => \A k \in Conn : Len(written[k]) <= 1

\* As long as only the loop connects, no two listeners read one stream, and a
\* connection that is open and was announced has a listener to read it.
OneReaderPerStream ==
  toggles = 0 =>
    /\ \A i, j \in Slot : tcp[i] = "read" /\ tcp[j] = "read" /\ reading[i] = reading[j] => i = j
    /\ \A k \in connected : conn[k] = "open" =>
         \E i \in Slot : tcp[i] = "check" \/ (tcp[i] = "read" /\ reading[i] = k)

\* The hub tries until it is connected: a gateway that comes back for good is
\* connected to.
RetriesUntilConnected ==
  (<>[]serving /\ []~cancelled) => <>(connected # {})

\* A listener that acted on a shutdown notice ends, unless somebody connects
\* again meanwhile: it does not spin on a stream that is gone.
ShutdownEndsListener ==
  \A i \in Slot : closing[i] = "flags" ~> (tcp[i] = "end" \/ (tcpListen /\ closing[i] = "no"))

==============================================================================
