---------------------------- MODULE HubProtocol ----------------------------
(***************************************************************************)
(* What the page's SignalR client reads from the data of a transport:      *)
(* TextMessageFormat, HandshakeProtocol and JsonHubProtocol of             *)
(* wwwroot/js/signalr.js.  Data is the sequence of the JSON texts and      *)
(* record separators that came in one message, event or poll response; a   *)
(* text is a record with the type the protocols look at.                   *)
(***************************************************************************)
EXTENDS Naturals, Sequences, SequencesExt

Text(type) == [type |-> type]

RecordSeparator == Text("RecordSeparator")

(* A handshake response has no type member, only perhaps an error.         *)
HandshakeResponses == {Text("Accepted"), Text("Refused")}

Separators(data) == {i \in 1..Len(data) : data[i] = RecordSeparator}

(* TextMessageFormat.parse: throws unless the data ends with a separator.  *)
IsComplete(data) == data # << >> /\ Last(data) = RecordSeparator

(* HandshakeProtocol.parseHandshakeResponse takes the first text and       *)
(* leaves the rest; it throws when no separator came or the text is not a  *)
(* handshake response.                                                     *)
HandshakeParses(data) ==
  Separators(data) # {} /\ data[1] \in HandshakeResponses

Accepts(data) == HandshakeParses(data) /\ data[1] = Text("Accepted")

AfterHandshake(data) == SubSeq(data, 3, Len(data))

(* JsonHubProtocol.parseMessages reads every text before any is handled    *)
(* and throws at one that is not valid; no data is no messages.            *)
IsValid(text) == text.type \notin {"Invalid", "Accepted", "Refused"}

MessagesParse(data) ==
  data = << >> \/ (IsComplete(data) /\ \A i \in DOMAIN data : IsValid(data[i]))
=============================================================================
