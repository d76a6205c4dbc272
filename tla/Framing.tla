------------------------------- MODULE Framing -------------------------------
(***************************************************************************)
(* How messages travel on one TCP stream: MessageSerializer writes each as *)
(* a version, a header and a body; the thread at the other end reads the   *)
(* three parts again and hands the message to its handler.                 *)
(*                                                                         *)
(* The stream is a sequence of bytes, which TCP delivers in pieces of any  *)
(* length.  BinaryReader waits for the whole version and the whole body,   *)
(* but reader.Read (headerByteSpan) returns what has come: the bytes that  *)
(* are missing stay zero.                                                  *)
(*                                                                         *)
(* The reader is a hub, whose listener logs an exception and reads on, or  *)
(* the gateway, whose thread disconnects a client that it has registered.  *)
(*                                                                         *)
(* KeepClient, HeaderWaits and ReadAll are wrong versions of the           *)
(* definitions that follow them, for the properties to notice.             *)
(***************************************************************************)
EXTENDS Integers, Sequences, SequencesExt, FiniteSets

CONSTANT
  Traffic   \* what is written to each reader: <<command, size of the body>> in turn

\* MessageTypes.
ACK == 0
MSG == 1
INFO == 2
KEEPALIVE == 3
NOTIFY == 4
REQ == 5
BROADCAST == 6
TEST == 999
MessageTypes == {ACK, MSG, INFO, KEEPALIVE, NOTIFY, REQ, BROADCAST, TEST}

\* The messages are few enough for each body byte to have a value of its own,
\* which no version and no header has.
ASSUME FramingAssumption ==
  /\ Traffic \in [{"HUB", "GATEWAY"} -> Seq(MessageTypes \X (1..8))]
  /\ \A to \in DOMAIN Traffic : Len(Traffic[to]) \in 1..23

Version == 1
VersionByteSize == 2
HeaderSize == 8      \* HeaderInfo: an int and a ushort, padded

VARIABLES
  reader,      \* the end that reads, "HUB" or "GATEWAY", for the whole run
  splits,      \* whether TCP may end a piece within a header, likewise
  written,     \* how many messages were written
  stream,      \* the bytes written and not read yet
  arrived,     \* how many of them have arrived
  closed,      \* the writer closed the connection
  pc,          \* what the reader waits for: "version", "header", "body", "end"
  header,      \* the size and the command that were read
  registered,  \* the gateway has the client in its list: it processed an info
  processed    \* the messages handed to a handler, in order

fixed == <<reader, splits>>
vars == <<fixed, written, stream, arrived, closed, pc, header, registered,
          processed>>

\* What the writer at the other end writes, in turn.
Messages == Traffic[reader]

------------------------------------------------------------------------------
(* Serialize.                                                              *)

\* The little-endian bytes of a number below 2^16, and its value again.
Bytes(n) == <<n % 256, n \div 256>>
ToUInt16(b) == b[1] + 256 * b[2]

\* MessagePack: the bytes of the body of message i are letters and digits.
Body(i) == [k \in 1..Messages[i][2] |-> 32 + 8 * i + (k - 1)]

HeaderInfo(i) == Bytes(Messages[i][2]) \o <<0, 0>> \o Bytes(Messages[i][1]) \o <<0, 0>>

Serialize(i) == Bytes(Version) \o HeaderInfo(i) \o Body(i)

\* Build: the commands that have a handler, at either end.
Handled ==
  IF reader = "GATEWAY" THEN {MSG, INFO, KEEPALIVE, REQ, BROADCAST}
  ELSE MessageTypes

------------------------------------------------------------------------------
Init ==
  /\ reader \in {"HUB", "GATEWAY"}
  /\ splits \in BOOLEAN
  /\ written = 0
  /\ stream = << >>
  /\ arrived = 0
  /\ closed = FALSE
  /\ pc = "version"
  /\ header = [size |-> 0, command |-> 0]
  /\ registered = FALSE
  /\ processed = << >>

\* SendTCP, SendMessageTCP: one Write for the whole message.
Write ==
  /\ ~closed /\ pc # "end"
  /\ written < Len(Messages)
  /\ written' = written + 1
  /\ stream' = stream \o Serialize(written + 1)
  /\ UNCHANGED <<fixed, arrived, closed, pc, header, registered, processed>>

\* Whether a piece that ends d bytes before the end of what was written ends
\* within a header.
InHeader(d) ==
  \E i \in 1..written :
    LET after == FoldLeft(LAMBDA n, j : n + Len(Serialize(j)), 0, [j \in 1..(written - i) |-> i + j])
        left == d - after - Messages[i][2]
    IN left \in 1..(HeaderSize - 1)

\* TCP delivers the next piece.
Arrive ==
  \E n \in (arrived + 1)..Len(stream) :
    /\ splits \/ ~InHeader(Len(stream) - n)
    /\ arrived' = n
    /\ UNCHANGED <<fixed, written, stream, closed, pc, header, registered, processed>>

\* The connection ends, in order or because the writer is gone: then some of
\* the bytes under way never come.
Close ==
  /\ ~closed
  /\ closed' = TRUE
  /\ \E n \in arrived..Len(stream) : stream' = SubSeq(stream, 1, n)
  /\ UNCHANGED <<fixed, written, arrived, pc, header, registered, processed>>

AtEnd == closed /\ arrived = Len(stream)

------------------------------------------------------------------------------
(* Deserialize.                                                            *)

\* The first n bytes are taken from the stream.
Took(n) ==
  /\ stream' = SubSeq(stream, n + 1, Len(stream))
  /\ arrived' = arrived - n

\* An exception leaves Deserialize.  The listener of a hub logs it and reads
\* on; the gateway disconnects the client, which does nothing unless the
\* client is registered.
KeepClient == pc' = "version" /\ UNCHANGED registered
Failed ==
  IF reader = "GATEWAY" /\ registered
    THEN pc' = "end" /\ registered' = FALSE
    ELSE pc' = "version" /\ UNCHANGED registered

\* ReadUInt16 takes two bytes, in however many pieces they come.
ReadVersion ==
  /\ pc = "version"
  /\ arrived >= VersionByteSize
  /\ Took(VersionByteSize)
  /\ IF ToUInt16(stream) = Version THEN pc' = "header" /\ UNCHANGED registered ELSE Failed
  /\ UNCHANGED <<fixed, written, closed, header, processed>>

\* Read (headerByteSpan) takes what is there; the upper bytes of a size are
\* zero.  A command without a handler throws before its body is read.
HeaderWaits == arrived >= HeaderSize
HeaderReady == arrived > 0 \/ AtEnd
HeaderRead == IF arrived < HeaderSize THEN arrived ELSE HeaderSize

ReadHeader ==
  /\ pc = "header"
  /\ HeaderReady
  /\ LET n == HeaderRead
         b == [k \in 1..HeaderSize |-> IF k <= n THEN stream[k] ELSE 0]
         command == ToUInt16(SubSeq(b, 5, 6))
     IN /\ Took(n)
        /\ header' = [size |-> ToUInt16(b), command |-> command]
        /\ IF command \in Handled THEN pc' = "body" /\ UNCHANGED registered ELSE Failed
  /\ UNCHANGED <<fixed, written, closed, processed>>

\* MessagePack yields message i from these bytes, as the type of the command.
Deserialized(b, i) == b = Body(i) /\ header.command = Messages[i][1]

\* ReadBytes waits for the whole body, and returns less at the end of the
\* stream; the message is handed to its handler.
ReadAll(n) == arrived
ReadSize(n) == n

ReadBody ==
  /\ pc = "body"
  /\ arrived >= header.size \/ AtEnd
  /\ LET n == IF arrived < header.size THEN arrived ELSE ReadSize(header.size)
         b == SubSeq(stream, 1, n)
     IN /\ Took(n)
        /\ \/ \E i \in DOMAIN Messages :
                /\ Deserialized(b, i)
                /\ processed' = Append(processed, i)
                /\ registered' = (registered \/ header.command = INFO)
                /\ pc' = "version"
           \/ (\A i \in DOMAIN Messages : ~Deserialized(b, i)) /\ Failed /\ UNCHANGED processed
  /\ UNCHANGED <<fixed, written, closed, header>>

\* At its end the stream throws EndOfStreamException.  The thread of the
\* gateway ends with the connection of a registered client; others go on
\* for ever with an exception each turn.
ReadEnd ==
  /\ pc = "version"
  /\ AtEnd /\ arrived < VersionByteSize
  /\ Took(arrived)
  /\ Failed
  /\ UNCHANGED <<fixed, written, closed, header, processed>>

Deserialize == ReadVersion \/ ReadHeader \/ ReadBody \/ ReadEnd

Next == Write \/ Arrive \/ Close \/ Deserialize

Spec == Init /\ [][Next]_vars

\* TCP delivers, the hub writes its messages, and the reading thread runs.
FairSpec == Spec /\ WF_vars(Write) /\ WF_vars(Arrive) /\ WF_vars(Deserialize)

------------------------------------------------------------------------------
\* From the info of a client on, the gateway misses nothing: it processes what
\* the client wrote without a gap, and disconnects it rather than lose one.
NoGapAfterInfo ==
  reader = "GATEWAY" => \A i \in 1..(Len(processed) - 1) :
    (\E k \in 1..i : Messages[processed[k]][1] = INFO) => processed[i + 1] = processed[i] + 1

\* A writer that does not close has all its messages processed, as long as TCP
\* cuts no header.
EveryMessageIsProcessed ==
  (~splits /\ []~closed) => <>(processed = [i \in DOMAIN Messages |-> i])

\* A reader that lost its place never waits for bytes that cannot come: once
\* the connection is closed it gets to the end of the stream, or ends.
EveryByteIsTaken == closed ~> (stream = << >> \/ pc = "end")
==============================================================================
