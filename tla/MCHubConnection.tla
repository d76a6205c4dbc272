--------------------------- MODULE MCHubConnection ---------------------------
(* Constants for signalr_hub.cfg: a server that offers nothing, or a       *)
(* WebSocket after a transport the client does not know, or server-sent    *)
(* events and long polling; it answers the handshake, well or not, and     *)
(* sends completions and stream items, the two Close messages, an          *)
(* invocation that wants a result, and data that does not end with a       *)
(* separator.                                                              *)
EXTENDS HubConnection

MCMessage == Call \cup {"handshake", "ping", "cancel"}

MCOffers == {<< >>, <<"ForeverFrame", "WebSockets">>, <<"ServerSentEvents", "LongPolling">>}

MCHandshakeData ==
  {<<Text("Accepted"), RecordSeparator>>,
   <<Text("Refused"), RecordSeparator>>,
   <<Text("Accepted"), RecordSeparator, Text("Ping"), RecordSeparator>>}

MCData(got) ==
  {<<[type |-> type, id |-> c], RecordSeparator>> :
     type \in {"Completion", "StreamItem"}, c \in got}
  \cup {<<Text("InvocationWithId"), RecordSeparator>>,
        <<Text("Close"), RecordSeparator>>,
        <<Text("CloseAllowingReconnect"), RecordSeparator>>,
        <<Text("Ping"), RecordSeparator, Text("Ping")>>}
=============================================================================
