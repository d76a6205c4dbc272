------------------------------ MODULE HolePunch ------------------------------
(***************************************************************************)
(* How hubs find an endpoint of each other that answers: ConnectToClient   *)
(* and FindReachableEndpoint of HubManager, AckMessageHandler and          *)
(* ReqMessageHandler.                                                      *)
(*                                                                         *)
(* ConnectToClient sends an invitation (Req) through the gateway and       *)
(* starts a thread that probes the peer: an Ack to each of its LAN         *)
(* addresses, then to its external endpoint, several times each.  A hub    *)
(* that gets an Ack answers it; answers are put on the list AckResponces,  *)
(* which the listener and all probes of a hub share without a lock.        *)
(* A hub that gets an invitation probes on its TCP listener's own thread.  *)
(*                                                                         *)
(* Datagrams may be lost, late and reordered.  A private address of a peer *)
(* may be the address of another hub in the prober's own network.          *)
(*                                                                         *)
(* AnyAnswer, OneMoreTry and SameTry are wrong versions of the definitions *)
(* that follow them, for the properties to notice.                         *)
(***************************************************************************)
EXTENDS Naturals, Sequences, FiniteSets, SequencesExt

CONSTANTS
  Hub,        \* the hubs
  Endpoint,   \* addresses with a port
  Lan,        \* Lan[g]: g's LAN endpoints, in the order of InternalAddresses
  Wan,        \* Wan[g]: g's external endpoint, or None
  Reach,      \* Reach[h][e]: the hub that gets what h sends to e, or None
  Calls,      \* Calls[h]: the hubs h calls ConnectToClient for, in order
  LanTries,   \* attempts per LAN endpoint: 3 in the code
  WanTries,   \* attempts at the external endpoint: 99 in the code
  Listed,     \* the hubs whose own info the gateway has sent them
  Unlinked,   \* the hubs that may lose the gateway
  None

\* A hub's threads that probe: its TCP listener, 0, and one per call.
Thread == UNION {{h} \X (0..Len(Calls[h])) : h \in Hub}
HubOf(t) == t[1]
Listener(h) == <<h, 0>>
OnListener(t) == t[2] = 0

ASSUME HolePunchAssumption ==
  /\ Lan \in [Hub -> Seq(Endpoint)]
  /\ Wan \in [Hub -> Endpoint \cup {None}]
  /\ Reach \in [Hub -> [Endpoint -> Hub \cup {None}]]
  /\ Calls \in [Hub -> Seq(Hub)]
  /\ Listed \subseteq Hub /\ Unlinked \subseteq Hub
  /\ LanTries \in Nat \ {0} /\ WanTries \in Nat \ {0}
  /\ None \notin Hub /\ None \notin Endpoint

\* The endpoints FindReachableEndpoint goes through, and how often each.
Candidates(g) ==
  Lan[g] \o (IF Wan[g] = None THEN << >> ELSE <<Wan[g]>>)
Tries(g, i) == IF i <= Len(Lan[g]) THEN LanTries ELSE WanTries

Ask(h, e) == [type |-> "ASK", from |-> h, end |-> e]
Answer(x, h, e) == [type |-> "ANSWER", by |-> x, to |-> h, end |-> e]
Datagram == {Ask(h, e) : h \in Hub, e \in Endpoint}
            \cup {Answer(x, h, e) : x \in Hub, h \in Hub, e \in Endpoint}

ASSUME NoneIsNoDatagram == None \notin Datagram

VARIABLES
  pc,         \* what each probe does next
  target,     \* the hub it looks for: hubInfo.Id
  cand,       \* the endpoint it is at, as an index of Candidates
  try,        \* the attempt at that endpoint
  dirty,      \* AckResponces changed since the probe's enumerator started
  held,       \* the answer the probe took from AckResponces
  responses,  \* AckResponces of each hub, with the endpoint that was asked
  reqs,       \* the hubs whose invitations wait in a hub's TCP stream
  inviter,    \* the hub whose invitation the TCP listener handles
  net,        \* the datagrams in flight
  linked,     \* TCPClientGateway.Connected of each hub
  up,         \* the hub's process runs
  answered,   \* <<x, h, e>>: x answered what h sent to e
  started     \* <<h, g, e>>: h published ConnectionStartedEvent for g at e

probe == <<pc, target, cand, try, dirty, held>>
events == <<answered, started>>
vars == <<pc, target, cand, try, dirty, held, responses, reqs, inviter, net,
          linked, up, answered, started>>

Init ==
  /\ pc = [t \in Thread |-> "idle"]
  /\ target = [t \in Thread |-> HubOf(t)]
  /\ cand = [t \in Thread |-> 1]
  /\ try = [t \in Thread |-> 1]
  /\ dirty = [t \in Thread |-> FALSE]
  /\ held = [t \in Thread |-> None]
  /\ responses = [h \in Hub |-> << >>]
  /\ reqs = [h \in Hub |-> {}]
  /\ inviter = [h \in Hub |-> None]
  /\ net = {}
  /\ linked = [h \in Hub |-> TRUE]
  /\ up = [h \in Hub |-> TRUE]
  /\ answered = {}
  /\ started = {}

------------------------------------------------------------------------------
\* FindReachableEndpoint(g) begins on thread t.
Begin(t, g) ==
  /\ pc' = [pc EXCEPT ![t] = "send"]
  /\ target' = [target EXCEPT ![t] = g]
  /\ cand' = [cand EXCEPT ![t] = 1]
  /\ try' = [try EXCEPT ![t] = 1]
  /\ UNCHANGED <<dirty, held>>

\* It returns: a connect thread ends, the listener goes back to its stream.
Finish(t) ==
  /\ pc' = [pc EXCEPT ![t] = IF OnListener(t) THEN "idle" ELSE "done"]
  /\ held' = [held EXCEPT ![t] = None]
  /\ UNCHANGED <<target, cand, try, dirty>>

Goto(t, l) ==
  /\ pc' = [pc EXCEPT ![t] = l]
  /\ UNCHANGED <<target, cand, try, dirty, held>>

\* AckResponces of hub h changed: every enumeration of it is out of date.
Touch(h, f) == [t \in Thread |-> f[t] \/ (HubOf(t) = h /\ pc[t] = "scan")]

\* Whether an answer is the one the probe of t waits for: RecipientId names
\* the hub that answered.
AnyAnswer(t, a) == TRUE
Matches(t, a) == a.by = target[t]

\* The next attempt, at the same endpoint or the next one.
OneMoreTry(t) ==
  IF try[t] <= Tries(target[t], cand[t])
    THEN try' = [try EXCEPT ![t] = @ + 1] /\ UNCHANGED cand
    ELSE try' = [try EXCEPT ![t] = 1] /\ cand' = [cand EXCEPT ![t] = @ + 1]
SameTry(t) == UNCHANGED <<try, cand>>
NextTry(t) ==
  IF try[t] < Tries(target[t], cand[t])
    THEN try' = [try EXCEPT ![t] = @ + 1] /\ UNCHANGED cand
    ELSE try' = [try EXCEPT ![t] = 1] /\ cand' = [cand EXCEPT ![t] = @ + 1]

------------------------------------------------------------------------------
(* The calls and the invitations.                                          *)

\* ConnectToClient: the Req goes to the gateway, which forwards it, when the
\* hub is connected; the thread starts in any case.
ConnectToClient(t) ==
  LET h == HubOf(t) IN
  /\ up[h]
  /\ ~OnListener(t)
  /\ pc[t] = "idle"
  /\ LET g == Calls[h][t[2]] IN
       /\ reqs' = IF linked[h] THEN [reqs EXCEPT ![g] = @ \cup {h}] ELSE reqs
       /\ Begin(t, g)
  /\ UNCHANGED <<responses, inviter, net, linked, up, events>>

\* ReqMessageHandler: GetConnection(msg.RecipientId) is the invited hub's own
\* record, which the gateway's broadcasts have listed, or null: nothing to do.
ReqHandler(h) ==
  LET t == Listener(h) IN
  /\ up[h]
  /\ pc[t] = "idle"
  /\ \E g \in reqs[h] :
       /\ reqs' = [reqs EXCEPT ![h] = @ \ {g}]
       /\ IF h \in Listed
            THEN inviter' = [inviter EXCEPT ![h] = g] /\ Begin(t, h)
            ELSE UNCHANGED inviter /\ UNCHANGED probe
  /\ UNCHANGED <<responses, net, linked, up, events>>

------------------------------------------------------------------------------
(* FindReachableEndpoint.                                                  *)

\* Send an Ack to the endpoint, unless the gateway is gone: then, and when no
\* endpoint is left, null is returned.
SendAck(t) ==
  LET h == HubOf(t)
      ends == Candidates(target[t]) IN
  /\ up[h]
  /\ pc[t] = "send"
  /\ IF linked[h] /\ cand[t] <= Len(ends)
       THEN net' = net \cup {Ask(h, ends[cand[t]])} /\ Goto(t, "sleep")
       ELSE Finish(t) /\ UNCHANGED net
  /\ UNCHANGED <<responses, reqs, inviter, linked, up, events>>

\* The sleep is over: AckResponces.FirstOrDefault starts to enumerate.
Wake(t) ==
  /\ up[HubOf(t)]
  /\ pc[t] = "sleep"
  /\ pc' = [pc EXCEPT ![t] = "scan"]
  /\ dirty' = [dirty EXCEPT ![t] = FALSE]
  /\ UNCHANGED <<target, cand, try, held, responses, reqs, inviter, net, linked, up, events>>

\* It finds the first answer of the peer, or none: the next attempt.
Scan(t) ==
  LET h == HubOf(t)
      found == {i \in DOMAIN responses[h] : Matches(t, responses[h][i])} IN
  /\ up[h]
  /\ pc[t] = "scan"
  /\ IF found = {}
       THEN /\ NextTry(t)
            /\ pc' = [pc EXCEPT ![t] = "send"]
            /\ UNCHANGED held
       ELSE /\ held' = [held EXCEPT ![t] = responses[h][Min(found)]]
            /\ pc' = [pc EXCEPT ![t] = "take"]
            /\ UNCHANGED <<try, cand>>
  /\ UNCHANGED <<target, dirty, responses, reqs, inviter, net, linked, up, events>>

\* It throws when the list changed under it: the listener logs that and drops
\* the invitation, on a connect thread nothing catches it.
ScanThrows(t) ==
  LET h == HubOf(t) IN
  /\ up[h]
  /\ pc[t] = "scan"
  /\ dirty[t]
  /\ IF OnListener(t)
       THEN Finish(t) /\ UNCHANGED up
       ELSE up' = [up EXCEPT ![h] = FALSE] /\ UNCHANGED probe
  /\ UNCHANGED <<responses, reqs, inviter, net, linked, events>>

\* The answer is removed, if another probe did not, and the endpoint the probe
\* is at by now is the one that is connected to.
Take(t) ==
  LET h == HubOf(t)
      same == {i \in DOMAIN responses[h] : responses[h][i] = held[t]} IN
  /\ up[h]
  /\ pc[t] = "take"
  /\ responses' = IF same = {} THEN responses
                  ELSE [responses EXCEPT ![h] = RemoveAt(@, Min(same))]
  /\ started' = started \cup {<<h, target[t], Candidates(target[t])[cand[t]]>>}
  /\ pc' = [pc EXCEPT ![t] = IF OnListener(t) THEN "idle" ELSE "done"]
  /\ held' = [held EXCEPT ![t] = None]
  /\ dirty' = Touch(h, dirty)
  /\ UNCHANGED <<target, cand, try, reqs, inviter, net, linked, up, answered>>

------------------------------------------------------------------------------
(* AckMessageHandler, on the UDP listener.                                 *)

\* An Ack that asks is answered to where it came from; when the asker is not
\* listed, the handler throws, which is as good as a lost datagram.
AnswerAck(d) ==
  /\ d.type = "ASK"
  /\ LET x == Reach[d.from][d.end] IN
       /\ x # None
       /\ up[x]
       /\ net' = (net \ {d}) \cup {Answer(x, d.from, d.end)}
       /\ answered' = answered \cup {<<x, d.from, d.end>>}
  /\ UNCHANGED <<probe, responses, reqs, inviter, linked, up, started>>

\* An answer is added to AckResponces.  List.Add is not thread-safe: next to a
\* Remove on another thread the answer may be lost.
StoreAnswer(d) ==
  /\ d.type = "ANSWER"
  /\ up[d.to]
  /\ net' = net \ {d}
  /\ dirty' = Touch(d.to, dirty)
  /\ \/ responses' = [responses EXCEPT ![d.to] = Append(@, d)]
     \/ /\ \E t \in Thread : HubOf(t) = d.to /\ pc[t] = "take"
        /\ UNCHANGED responses
  /\ UNCHANGED <<pc, target, cand, try, held, reqs, inviter, linked, up, events>>

\* The connection to the gateway ends.
Unlink(h) ==
  /\ h \in Unlinked
  /\ up[h]
  /\ linked[h]
  /\ linked' = [linked EXCEPT ![h] = FALSE]
  /\ UNCHANGED <<probe, responses, reqs, inviter, net, up, events>>

------------------------------------------------------------------------------
FindReachableEndpoint(t) == SendAck(t) \/ Wake(t) \/ Scan(t) \/ ScanThrows(t) \/ Take(t)

AckHandler == \E d \in net : AnswerAck(d) \/ StoreAnswer(d)

Next ==
  \/ \E t \in Thread : ConnectToClient(t) \/ FindReachableEndpoint(t)
  \/ \E h \in Hub : ReqHandler(h) \/ Unlink(h)
  \/ AckHandler

Spec == Init /\ [][Next]_vars

\* The threads that probe are scheduled again and again.
FairSpec == Spec /\ \A t \in Thread : WF_vars(FindReachableEndpoint(t))

------------------------------------------------------------------------------
Label == {"idle", "send", "sleep", "scan", "take", "done"}

\* A probe never goes past the attempts and the endpoints there are.
TypeOK ==
  /\ pc \in [Thread -> Label]
  /\ target \in [Thread -> Hub]
  /\ cand \in [Thread -> Nat] /\ try \in [Thread -> Nat]
  /\ \A t \in Thread :
       /\ cand[t] \in 1..(Len(Candidates(target[t])) + 1)
       /\ try[t] \in 1..Tries(target[t], cand[t])
       /\ pc[t] \in {"sleep", "scan", "take"} => cand[t] <= Len(Candidates(target[t]))
       /\ pc[t] = "take" <=> held[t] # None
  /\ dirty \in [Thread -> BOOLEAN]
  /\ held \in [Thread -> Datagram \cup {None}]
  /\ responses \in [Hub -> Seq(Datagram)]
  /\ reqs \in [Hub -> SUBSET Hub]
  /\ inviter \in [Hub -> Hub \cup {None}]
  /\ net \subseteq Datagram
  /\ linked \in [Hub -> BOOLEAN]
  /\ up \in [Hub -> BOOLEAN]
  /\ answered \subseteq (Hub \X Hub \X Endpoint)
  /\ started \subseteq (Hub \X Hub \X Endpoint)

\* A hub holds a connection as started only when the very peer answered one of
\* its Acks: not another hub that has the peer's private address, nor another
\* peer whose answer lies on the same list, however late the answers come.
StartedPeerAnswered ==
  \A s \in started : \E e \in Endpoint : <<s[2], s[1], e>> \in answered

\* Every probe ends, so that the listener of an invited hub, which probes on
\* its own thread, reads the stream of the gateway again.
ProbesEnd ==
  \A t \in Thread :
    pc[t] \in {"send", "sleep", "scan", "take"}
      ~> (pc[t] \in {"idle", "done"} \/ ~up[HubOf(t)])

(***************************************************************************)
(* What the documents and messages say and the code does not do.           *)
(***************************************************************************)

\* README.md: "it is the receiver of the invite that does the actual initiation
\* of peer to peer connection": a listener that handles an invitation probes the
\* hub that sent it.
InvitedHubProbesInviter ==
  \A h \in Hub : pc[Listener(h)] \notin {"idle"} => target[Listener(h)] = inviter[h]
==============================================================================
