-------------------------- MODULE HolePunchProofs --------------------------
(***************************************************************************)
(* Theorems about HolePunch, for every set of hubs, every network between  *)
(* them, every number of calls and of attempts.                            *)
(***************************************************************************)
EXTENDS HolePunch, SequenceTheorems, WellFoundedInduction, TLAPS

------------------------------------------------------------------------------
(* The inductive invariant.                                                *)

\* x answered what h sent to e.
Answered(x, h, e) == <<x, h, e>> \in answered

\* An answer exists only because the hub that it names gave it: in the network,
\* on the list of the hub it went to, and in a probe's hands, which took it
\* for its target.
NetInv == \A d \in net : d.type = "ANSWER" => Answered(d.by, d.to, d.end)

ListInv ==
  \A h \in Hub : \A i \in 1..Len(responses[h]) :
    Answered(responses[h][i].by, h, responses[h][i].end)

HeldInv ==
  \A t \in Thread : pc[t] = "take" =>
    held[t].by = target[t] /\ Answered(target[t], HubOf(t), held[t].end)

Inv ==
  /\ TypeOK
  /\ NetInv
  /\ ListInv
  /\ HeldInv
  /\ StartedPeerAnswered

------------------------------------------------------------------------------
(* What the helpers return.                                                *)

\* A thread belongs to a hub, and one that is not the listener has a call.
LEMMA Threads ==
  /\ \A t \in Thread : /\ HubOf(t) \in Hub
                       /\ ~OnListener(t) => Calls[HubOf(t)][t[2]] \in Hub
  /\ \A h \in Hub : Listener(h) \in Thread /\ HubOf(Listener(h)) = h /\ OnListener(Listener(h))
<1>1. ASSUME NEW t \in Thread
      PROVE  HubOf(t) \in Hub /\ (~OnListener(t) => Calls[HubOf(t)][t[2]] \in Hub)
  <2>1. PICK h \in Hub : t \in {h} \X (0..Len(Calls[h]))
    BY DEF Thread
  <2>2. t[1] = h /\ t[2] \in 0..Len(Calls[h]) /\ Calls[h] \in Seq(Hub)
    BY <2>1, HolePunchAssumption
  <2>3. t[2] # 0 => t[2] \in 1..Len(Calls[h])
    BY <2>2
  <2> QED BY <2>2, <2>3, ElementOfSeq DEF HubOf, OnListener
<1>2. ASSUME NEW h \in Hub
      PROVE  Listener(h) \in Thread /\ HubOf(Listener(h)) = h /\ OnListener(Listener(h))
  <2>1. Len(Calls[h]) \in Nat
    BY HolePunchAssumption
  <2>2. <<h, 0>> \in {h} \X (0..Len(Calls[h]))
    BY <2>1
  <2> QED BY <2>2 DEF Listener, Thread, HubOf, OnListener
<1> QED BY <1>1, <1>2

\* The endpoints a probe goes through, and how often each.
LEMMA CandidatesType ==
  ASSUME NEW g \in Hub
  PROVE  /\ Candidates(g) \in Seq(Endpoint)
         /\ \A i \in Nat : Tries(g, i) \in Nat \ {0}
<1>1. Lan[g] \in Seq(Endpoint) /\ (Wan[g] # None => Wan[g] \in Endpoint)
  BY HolePunchAssumption
<1>2. (IF Wan[g] = None THEN << >> ELSE <<Wan[g]>>) \in Seq(Endpoint)
  BY <1>1
<1> QED BY <1>1, <1>2, HolePunchAssumption, ConcatProperties DEF Candidates, Tries

\* Removing one element leaves the others.
LEMMA RemoveAtElements ==
  ASSUME NEW S, NEW s \in Seq(S), NEW i \in 1..Len(s)
  PROVE  /\ RemoveAt(s, i) \in Seq(S)
         /\ \A j \in 1..Len(RemoveAt(s, i)) : \E k \in 1..Len(s) : RemoveAt(s, i)[j] = s[k]
<1> DEFINE T == {s[k] : k \in 1..Len(s)}
<1>1. SubSeq(s, 1, i - 1) \in Seq(T)
  <2>1. \A k \in 1..(i - 1) : s[k] \in T
    OBVIOUS
  <2> QED BY <2>1, SubSeqProperties
<1>2. SubSeq(s, i + 1, Len(s)) \in Seq(T)
  <2>1. \A k \in (i + 1)..Len(s) : s[k] \in T
    OBVIOUS
  <2> QED BY <2>1, SubSeqProperties
<1>3. RemoveAt(s, i) \in Seq(T)
  BY <1>1, <1>2, ConcatProperties DEF RemoveAt
<1>4. T \subseteq S
  BY ElementOfSeq
<1> HIDE DEF T
<1>5. RemoveAt(s, i) \in Seq(S)
  BY <1>3, <1>4
<1>6. \A j \in 1..Len(RemoveAt(s, i)) : RemoveAt(s, i)[j] \in T
  BY <1>3, ElementOfSeq
<1> QED BY <1>5, <1>6 DEF T

\* The labels of a probe.
LEMMA Labels ==
  "idle" \in Label /\ "send" \in Label /\ "sleep" \in Label
  /\ "scan" \in Label /\ "take" \in Label /\ "done" \in Label
BY DEF Label

\* The datagrams and what is in them.
LEMMA Datagrams ==
  /\ \A h \in Hub, e \in Endpoint :
       Ask(h, e) \in Datagram /\ Ask(h, e).type = "ASK"
  /\ \A x \in Hub, h \in Hub, e \in Endpoint :
       LET a == Answer(x, h, e)
       IN a \in Datagram /\ a.type = "ANSWER" /\ a.by = x /\ a.to = h /\ a.end = e
  /\ \A d \in Datagram :
       \/ d.type = "ASK" /\ d.from \in Hub /\ d.end \in Endpoint
       \/ d.type = "ANSWER" /\ d.by \in Hub /\ d.to \in Hub /\ d.end \in Endpoint
<1>1. \A h \in Hub, e \in Endpoint : Ask(h, e) \in Datagram /\ Ask(h, e).type = "ASK"
  BY DEF Datagram, Ask
<1>2. ASSUME NEW x \in Hub, NEW h \in Hub, NEW e \in Endpoint
      PROVE  LET a == Answer(x, h, e)
             IN a \in Datagram /\ a.type = "ANSWER" /\ a.by = x /\ a.to = h /\ a.end = e
  <2>1. Answer(x, h, e) \in Datagram
    BY DEF Datagram
  <2> QED BY <2>1 DEF Answer
<1>3. ASSUME NEW d \in Datagram
      PROVE  \/ d.type = "ASK" /\ d.from \in Hub /\ d.end \in Endpoint
             \/ d.type = "ANSWER" /\ d.by \in Hub /\ d.to \in Hub /\ d.end \in Endpoint
  <2>1. CASE \E h \in Hub, e \in Endpoint : d = Ask(h, e)
    BY <2>1 DEF Ask
  <2>2. CASE \E x \in Hub, h \in Hub, e \in Endpoint : d = Answer(x, h, e)
    BY <2>2 DEF Answer
  <2> QED BY <2>1, <2>2 DEF Datagram
<1> QED BY <1>1, <1>2, <1>3

\* What a probe of FindReachableEndpoint is at.
ProbeOK(t) ==
  /\ cand[t] \in 1..(Len(Candidates(target[t])) + 1)
  /\ try[t] \in 1..Tries(target[t], cand[t])
  /\ pc[t] \in {"sleep", "scan", "take"} => cand[t] <= Len(Candidates(target[t]))
  /\ pc[t] = "take" <=> held[t] # None

LEMMA InvInit == Init => Inv
<1> SUFFICES ASSUME Init PROVE Inv
  OBVIOUS
<1>1. pc \in [Thread -> Label] /\ target \in [Thread -> Hub]
  BY Labels, Threads DEF Init
<1>2. \A t \in Thread : ProbeOK(t)
  <2> SUFFICES ASSUME NEW t \in Thread PROVE ProbeOK(t)
    OBVIOUS
  <2>1. target[t] \in Hub /\ cand[t] = 1 /\ try[t] = 1 /\ pc[t] = "idle" /\ held[t] = None
    BY Threads DEF Init
  <2>2. Len(Candidates(target[t])) \in Nat /\ Tries(target[t], 1) \in Nat \ {0}
    BY <2>1, CandidatesType
  <2> QED BY <2>1, <2>2 DEF ProbeOK
<1>3. TypeOK
  BY <1>1, <1>2 DEF Init, TypeOK, ProbeOK
<1>4. NetInv /\ ListInv /\ HeldInv /\ StartedPeerAnswered
  BY DEF Init, NetInv, ListInv, HeldInv, StartedPeerAnswered
<1> QED BY <1>3, <1>4 DEF Inv

\* Everything but what a probe is at keeps its type by itself.
ProbesOK ==
  /\ pc \in [Thread -> Label]
  /\ target \in [Thread -> Hub]
  /\ cand \in [Thread -> Nat] /\ try \in [Thread -> Nat]
  /\ held \in [Thread -> Datagram \cup {None}]
  /\ \A t \in Thread : ProbeOK(t)

SharedOK ==
  /\ dirty \in [Thread -> BOOLEAN]
  /\ responses \in [Hub -> Seq(Datagram)]
  /\ reqs \in [Hub -> SUBSET Hub]
  /\ inviter \in [Hub -> Hub \cup {None}]
  /\ net \subseteq Datagram
  /\ linked \in [Hub -> BOOLEAN]
  /\ up \in [Hub -> BOOLEAN]
  /\ answered \subseteq (Hub \X Hub \X Endpoint)
  /\ started \subseteq (Hub \X Hub \X Endpoint)

LEMMA TypeParts ==
  /\ TypeOK <=> ProbesOK /\ SharedOK
  /\ TypeOK' <=> ProbesOK' /\ SharedOK'
BY DEF TypeOK, ProbesOK, SharedOK, ProbeOK

------------------------------------------------------------------------------
(* The invariant is inductive.                                             *)

\* A step of thread t leaves the other probes alone.
LEMMA OneProbe ==
  ASSUME ProbesOK, NEW t \in Thread,
         NEW l \in Label, pc' = [pc EXCEPT ![t] = l],
         NEW g \in Hub, target' = [target EXCEPT ![t] = g],
         NEW c \in Nat, cand' = [cand EXCEPT ![t] = c],
         NEW n \in Nat, try' = [try EXCEPT ![t] = n],
         NEW a \in Datagram \cup {None}, held' = [held EXCEPT ![t] = a],
         c \in 1..(Len(Candidates(g)) + 1),
         n \in 1..Tries(g, c),
         l \in {"sleep", "scan", "take"} => c <= Len(Candidates(g)),
         l = "take" <=> a # None
  PROVE  ProbesOK'
<1>1. pc' \in [Thread -> Label] /\ target' \in [Thread -> Hub]
      /\ cand' \in [Thread -> Nat] /\ try' \in [Thread -> Nat]
      /\ held' \in [Thread -> Datagram \cup {None}]
  BY DEF ProbesOK
<1>2. ASSUME NEW u \in Thread PROVE ProbeOK(u)'
  <2>1. CASE u = t
    <3>1. pc'[u] = l /\ target'[u] = g /\ cand'[u] = c /\ try'[u] = n /\ held'[u] = a
      BY <2>1 DEF ProbesOK
    <3> QED BY <3>1 DEF ProbeOK
  <2>2. CASE u # t
    <3>1. /\ pc'[u] = pc[u] /\ target'[u] = target[u] /\ cand'[u] = cand[u]
          /\ try'[u] = try[u] /\ held'[u] = held[u]
      BY <2>2 DEF ProbesOK
    <3> QED BY <3>1 DEF ProbesOK, ProbeOK
  <2> QED BY <2>1, <2>2
<1> QED BY <1>1, <1>2 DEF ProbesOK

LEMMA BeginKeeps ==
  ASSUME ProbesOK, NEW t \in Thread, NEW g \in Hub, pc[t] = "idle", Begin(t, g)
  PROVE  ProbesOK'
<1>1. held[t] = None /\ held' = [held EXCEPT ![t] = None]
  BY DEF ProbesOK, ProbeOK, Begin
<1>2. 1 \in 1..(Len(Candidates(g)) + 1) /\ 1 \in 1..Tries(g, 1)
  BY CandidatesType
<1>3. /\ pc' = [pc EXCEPT ![t] = "send"] /\ target' = [target EXCEPT ![t] = g]
      /\ cand' = [cand EXCEPT ![t] = 1] /\ try' = [try EXCEPT ![t] = 1]
  BY DEF Begin
<1> QED BY <1>1, <1>2, <1>3, Labels, OneProbe

LEMMA FinishKeeps ==
  ASSUME ProbesOK, NEW t \in Thread, Finish(t)
  PROVE  ProbesOK'
<1>1. ProbeOK(t)
  BY DEF ProbesOK
<1>2. PICK l \in {"idle", "done"} : pc' = [pc EXCEPT ![t] = l]
  BY DEF Finish
<1>3. /\ target' = [target EXCEPT ![t] = target[t]]
      /\ cand' = [cand EXCEPT ![t] = cand[t]]
      /\ try' = [try EXCEPT ![t] = try[t]]
      /\ held' = [held EXCEPT ![t] = None]
  BY DEF ProbesOK, Finish
<1>4. target[t] \in Hub /\ cand[t] \in Nat /\ try[t] \in Nat
  BY DEF ProbesOK
<1> QED BY <1>1, <1>2, <1>3, <1>4, Labels, OneProbe DEF ProbeOK

\* From one label to another that asks no more of the probe.
LEMMA GotoKeeps ==
  ASSUME ProbesOK, NEW t \in Thread, NEW l \in Label, pc' = [pc EXCEPT ![t] = l],
         UNCHANGED <<target, cand, try, held>>,
         pc[t] # "take", l # "take",
         l \in {"sleep", "scan"} => cand[t] <= Len(Candidates(target[t]))
  PROVE  ProbesOK'
<1>1. ProbeOK(t) /\ held[t] = None
  BY DEF ProbesOK, ProbeOK
<1>2. /\ target' = [target EXCEPT ![t] = target[t]]
      /\ cand' = [cand EXCEPT ![t] = cand[t]]
      /\ try' = [try EXCEPT ![t] = try[t]]
      /\ held' = [held EXCEPT ![t] = None]
  BY <1>1 DEF ProbesOK
<1>3. target[t] \in Hub /\ cand[t] \in Nat /\ try[t] \in Nat
  BY DEF ProbesOK
<1>4. /\ cand[t] \in 1..(Len(Candidates(target[t])) + 1)
      /\ try[t] \in 1..Tries(target[t], cand[t])
      /\ l \in {"sleep", "scan", "take"} => cand[t] <= Len(Candidates(target[t]))
  BY <1>1 DEF ProbeOK
<1> QED BY <1>2, <1>3, <1>4, OneProbe

\* The least of a set of indices is one of them.
LEMMA MinIsMember ==
  ASSUME NEW S, S \subseteq Nat, S # {}
  PROVE  Min(S) \in S /\ \A s \in S : Min(S) <= s
<1> DEFINE Less == {p \in Nat \X Nat : p[1] < p[2]}
<1>1. IsWellFoundedOn(Less, Nat)
  BY NatLessThanWellFounded DEF OpToRel
<1>2. \A x, y \in Nat : <<y, x>> \notin Less => x <= y
  OBVIOUS
<1> HIDE DEF Less
<1>3. PICK x \in S : \A y \in S : <<y, x>> \notin Less
  BY <1>1, WFMin
<1> QED BY <1>2, <1>3 DEF Min

\* The first answer that matches is one of the list.
LEMMA FoundIsListed ==
  ASSUME SharedOK, NEW h \in Hub, NEW i \in SUBSET (DOMAIN responses[h]), i # {}
  PROVE  /\ Min(i) \in i /\ Min(i) \in 1..Len(responses[h])
         /\ responses[h][Min(i)] \in Datagram
<1>1. responses[h] \in Seq(Datagram)
  BY DEF SharedOK
<1>2. DOMAIN responses[h] = 1..Len(responses[h]) /\ i \subseteq Nat
  BY <1>1
<1>3. Min(i) \in i
  BY <1>2, MinIsMember
<1> QED BY <1>1, <1>2, <1>3, ElementOfSeq

\* The next attempt is one of those there are, or the last endpoint is done.
LEMMA ScanKeeps ==
  ASSUME TypeOK, NEW t \in Thread, Scan(t)
  PROVE  ProbesOK'
<1> DEFINE h == HubOf(t)
           found == {i \in DOMAIN responses[h] : Matches(t, responses[h][i])}
           ends == Len(Candidates(target[t]))
<1>1. ProbesOK /\ SharedOK /\ ProbeOK(t) /\ h \in Hub
  BY TypeParts, Threads DEF ProbesOK
<1>2. /\ target[t] \in Hub /\ cand[t] \in Nat /\ try[t] \in Nat
      /\ target' = [target EXCEPT ![t] = target[t]]
      /\ pc[t] = "scan" /\ held[t] = None
  BY <1>1 DEF ProbesOK, ProbeOK, Scan
<1>3. ends \in Nat /\ \A i \in Nat : Tries(target[t], i) \in Nat \ {0}
  BY <1>2, CandidatesType
<1>4. CASE found = {}
  <2>1. pc' = [pc EXCEPT ![t] = "send"] /\ held' = [held EXCEPT ![t] = None] /\ NextTry(t)
    BY <1>1, <1>2, <1>4 DEF Scan, ProbesOK
  <2>2. CASE try[t] < Tries(target[t], cand[t])
    <3>1. try' = [try EXCEPT ![t] = try[t] + 1] /\ cand' = [cand EXCEPT ![t] = cand[t]]
      BY <1>1, <2>1, <2>2 DEF NextTry, ProbesOK
    <3>2. try[t] + 1 \in 1..Tries(target[t], cand[t]) /\ cand[t] \in 1..(ends + 1)
      BY <1>1, <1>2, <1>3, <2>2 DEF ProbeOK
    <3>3. try[t] + 1 \in Nat /\ "send" \in Label
      BY <1>2, Labels
    <3> QED BY <1>1, <1>2, <2>1, <3>1, <3>2, <3>3, OneProbe
  <2>3. CASE ~(try[t] < Tries(target[t], cand[t]))
    <3>1. try' = [try EXCEPT ![t] = 1] /\ cand' = [cand EXCEPT ![t] = cand[t] + 1]
      BY <2>1, <2>3 DEF NextTry
    <3>2. 1 \in 1..Tries(target[t], cand[t] + 1)
      BY <1>2, <1>3
    <3>3. cand[t] + 1 \in 1..(ends + 1)
      BY <1>1, <1>2, <1>3 DEF ProbeOK
    <3>4. cand[t] + 1 \in Nat /\ "send" \in Label
      BY <1>2, Labels
    <3> QED BY <1>1, <1>2, <2>1, <3>1, <3>2, <3>3, <3>4, OneProbe
  <2> QED BY <2>2, <2>3
<1>5. CASE found # {}
  <2>1. /\ pc' = [pc EXCEPT ![t] = "take"]
        /\ held' = [held EXCEPT ![t] = responses[h][Min(found)]]
        /\ try' = [try EXCEPT ![t] = try[t]] /\ cand' = [cand EXCEPT ![t] = cand[t]]
    BY <1>1, <1>5 DEF Scan, ProbesOK
  <2>2. responses[h][Min(found)] \in Datagram
    BY <1>1, <1>5, FoundIsListed
  <2>3. cand[t] \in 1..(ends + 1) /\ try[t] \in 1..Tries(target[t], cand[t]) /\ cand[t] <= ends
    BY <1>1, <1>2 DEF ProbeOK
  <2> QED BY <1>1, <1>2, <2>1, <2>2, <2>3, Labels, NoneIsNoDatagram, OneProbe
<1> QED BY <1>4, <1>5

\* What a probe that has its answer takes with it.
LEMMA TakeKeeps ==
  ASSUME Inv, NEW t \in Thread, Take(t)
  PROVE  TypeOK'
<1> DEFINE h == HubOf(t)
           same == {i \in DOMAIN responses[h] : responses[h][i] = held[t]}
           ends == Candidates(target[t])
<1>1. ProbesOK /\ SharedOK /\ ProbeOK(t) /\ h \in Hub
  BY TypeParts, Threads DEF Inv, ProbesOK
<1>2. target[t] \in Hub /\ cand[t] \in Nat /\ try[t] \in Nat /\ pc[t] = "take"
  BY <1>1 DEF ProbesOK, Take
<1>3. ProbesOK'
  <2>1. PICK l \in {"idle", "done"} : pc' = [pc EXCEPT ![t] = l]
    BY DEF Take
  <2>2. /\ target' = [target EXCEPT ![t] = target[t]]
        /\ cand' = [cand EXCEPT ![t] = cand[t]]
        /\ try' = [try EXCEPT ![t] = try[t]]
        /\ held' = [held EXCEPT ![t] = None]
    BY <1>1 DEF ProbesOK, Take
  <2>3. /\ cand[t] \in 1..(Len(ends) + 1)
        /\ try[t] \in 1..Tries(target[t], cand[t])
    BY <1>1 DEF ProbeOK
  <2> QED BY <1>1, <1>2, <2>1, <2>2, <2>3, Labels, OneProbe
<1>4. responses' \in [Hub -> Seq(Datagram)]
  <2>1. CASE same = {}
    BY <1>1, <2>1 DEF Take, SharedOK
  <2>2. CASE same # {}
    <3>1. Min(same) \in 1..Len(responses[h])
      BY <1>1, <2>2, FoundIsListed
    <3>2. responses[h] \in Seq(Datagram)
      BY <1>1 DEF SharedOK
    <3>3. RemoveAt(responses[h], Min(same)) \in Seq(Datagram)
      BY <3>1, <3>2, RemoveAtElements
    <3>4. responses' = [responses EXCEPT ![h] = RemoveAt(responses[h], Min(same))]
      BY <2>2 DEF Take
    <3> QED BY <1>1, <3>3, <3>4 DEF SharedOK
  <2> QED BY <2>1, <2>2
<1>5. started' \subseteq (Hub \X Hub \X Endpoint)
  <2>1. ends \in Seq(Endpoint) /\ cand[t] \in 1..Len(ends)
    <3>1. ends \in Seq(Endpoint)
      BY <1>2, CandidatesType
    <3>2. cand[t] \in 1..(Len(ends) + 1) /\ cand[t] <= Len(ends)
      BY <1>1, <1>2 DEF ProbeOK
    <3> QED BY <3>1, <3>2
  <2>2. ends[cand[t]] \in Endpoint
    BY <2>1, ElementOfSeq
  <2>3. started' = started \cup {<<h, target[t], ends[cand[t]]>>}
    BY DEF Take
  <2> QED BY <1>1, <1>2, <2>2, <2>3 DEF SharedOK
<1>6. dirty' \in [Thread -> BOOLEAN]
  BY <1>1 DEF Take, Touch, SharedOK
<1>7. SharedOK'
  BY <1>1, <1>4, <1>5, <1>6 DEF Take, SharedOK
<1> QED BY <1>3, <1>7, TypeParts

LEMMA TypeStep == Inv /\ [Next]_vars => TypeOK'
<1> SUFFICES ASSUME Inv, [Next]_vars PROVE TypeOK'
  OBVIOUS
<1>0. ProbesOK /\ SharedOK
  BY TypeParts DEF Inv
<1>1. ASSUME NEW t \in Thread, ConnectToClient(t) PROVE TypeOK'
  <2>1. /\ HubOf(t) \in Hub /\ Calls[HubOf(t)][t[2]] \in Hub
        /\ pc[t] = "idle" /\ Begin(t, Calls[HubOf(t)][t[2]])
    BY <1>1, Threads DEF ConnectToClient
  <2>2. ProbesOK'
    BY <1>0, <2>1, BeginKeeps
  <2>3. SharedOK'
    BY <1>0, <1>1, <2>1 DEF ConnectToClient, Begin, events, SharedOK
  <2> QED BY <2>2, <2>3, TypeParts
<1>2. ASSUME NEW h \in Hub, ReqHandler(h) PROVE TypeOK'
  <2>1. Listener(h) \in Thread /\ pc[Listener(h)] = "idle"
    BY <1>2, Threads DEF ReqHandler
  <2>2. PICK g \in reqs[h] :
          /\ reqs' = [reqs EXCEPT ![h] = @ \ {g}]
          /\ IF h \in Listed
               THEN inviter' = [inviter EXCEPT ![h] = g] /\ Begin(Listener(h), h)
               ELSE UNCHANGED inviter /\ UNCHANGED probe
    BY <1>2 DEF ReqHandler
  <2>3. UNCHANGED <<responses, net, linked, up, events, dirty>>
    BY <1>2, <2>2 DEF ReqHandler, Begin, probe
  <2>4. SharedOK'
    BY <1>0, <2>2, <2>3 DEF events, SharedOK
  <2>5. ProbesOK'
    <3>1. CASE h \in Listed
      BY <1>0, <2>1, <2>2, <3>1, BeginKeeps
    <3>2. CASE h \notin Listed
      BY <1>0, <2>2, <3>2 DEF probe, ProbesOK, ProbeOK
    <3> QED BY <3>1, <3>2
  <2> QED BY <2>4, <2>5, TypeParts
<1>3. ASSUME NEW t \in Thread, SendAck(t) PROVE TypeOK'
  <2> DEFINE h == HubOf(t)
             ends == Candidates(target[t])
  <2>1. h \in Hub /\ ends \in Seq(Endpoint) /\ cand[t] \in 1..(Len(ends) + 1) /\ pc[t] = "send"
    BY <1>0, <1>3, Threads, CandidatesType DEF ProbesOK, ProbeOK, SendAck
  <2>2. CASE linked[h] /\ cand[t] <= Len(ends)
    <3>1. ends[cand[t]] \in Endpoint
      BY <2>1, <2>2, ElementOfSeq
    <3>2. net' = net \cup {Ask(h, ends[cand[t]])} /\ Goto(t, "sleep")
      BY <1>3, <2>2 DEF SendAck
    <3>3. ProbesOK'
      BY <1>0, <2>1, <2>2, <3>2, Labels, GotoKeeps DEF Goto
    <3>4. SharedOK'
      BY <1>0, <1>3, <2>1, <3>1, <3>2, Datagrams DEF SendAck, Goto, events, SharedOK
    <3> QED BY <3>3, <3>4, TypeParts
  <2>3. CASE ~(linked[h] /\ cand[t] <= Len(ends))
    <3>1. Finish(t) /\ UNCHANGED net
      BY <1>3, <2>3 DEF SendAck
    <3>2. ProbesOK'
      BY <1>0, <3>1, FinishKeeps
    <3>3. SharedOK'
      BY <1>0, <1>3, <3>1 DEF SendAck, Finish, events, SharedOK
    <3> QED BY <3>2, <3>3, TypeParts
  <2> QED BY <2>2, <2>3
<1>4. ASSUME NEW t \in Thread, Wake(t) PROVE TypeOK'
  <2>1. ProbeOK(t) /\ pc[t] = "sleep" /\ pc' = [pc EXCEPT ![t] = "scan"]
    BY <1>0, <1>4 DEF ProbesOK, Wake
  <2>2. ProbesOK'
    BY <1>0, <1>4, <2>1, Labels, GotoKeeps DEF Wake, ProbeOK
  <2>3. SharedOK'
    BY <1>0, <1>4 DEF Wake, events, SharedOK
  <2> QED BY <2>2, <2>3, TypeParts
<1>5. ASSUME NEW t \in Thread, Scan(t) PROVE TypeOK'
  <2>1. SharedOK'
    BY <1>0, <1>5 DEF Scan, events, SharedOK
  <2> QED BY <1>5, <2>1, ScanKeeps, TypeParts DEF Inv
<1>6. ASSUME NEW t \in Thread, ScanThrows(t) PROVE TypeOK'
  <2>1. SharedOK'
    BY <1>0, <1>6 DEF ScanThrows, Finish, probe, events, SharedOK
  <2>2. CASE OnListener(t)
    BY <1>0, <1>6, <2>1, <2>2, FinishKeeps, TypeParts DEF ScanThrows
  <2>3. CASE ~OnListener(t)
    <3>1. ProbesOK'
      BY <1>0, <1>6, <2>3 DEF ScanThrows, probe, ProbesOK, ProbeOK
    <3> QED BY <2>1, <3>1, TypeParts
  <2> QED BY <2>2, <2>3
<1>7. ASSUME NEW t \in Thread, Take(t) PROVE TypeOK'
  BY <1>7, TakeKeeps
<1>8. ASSUME NEW d \in net, AnswerAck(d) PROVE TypeOK'
  <2>1. d \in Datagram /\ d.from \in Hub /\ d.end \in Endpoint
    BY <1>0, <1>8, Datagrams DEF AnswerAck, SharedOK
  <2>2. Reach[d.from][d.end] \in Hub
    BY <1>8, <2>1, HolePunchAssumption DEF AnswerAck
  <2>3. SharedOK'
    BY <1>0, <1>8, <2>1, <2>2, Datagrams DEF AnswerAck, probe, SharedOK
  <2>4. ProbesOK'
    BY <1>0, <1>8 DEF AnswerAck, probe, ProbesOK, ProbeOK
  <2> QED BY <2>3, <2>4, TypeParts
<1>9. ASSUME NEW d \in net, StoreAnswer(d) PROVE TypeOK'
  <2>1. d \in Datagram /\ d.to \in Hub
    BY <1>0, <1>9, Datagrams DEF StoreAnswer, SharedOK
  <2>2. responses' \in [Hub -> Seq(Datagram)]
    <3>1. responses[d.to] \in Seq(Datagram)
      BY <1>0, <2>1 DEF SharedOK
    <3>2. Append(responses[d.to], d) \in Seq(Datagram)
      BY <2>1, <3>1
    <3>3. \/ responses' = [responses EXCEPT ![d.to] = Append(responses[d.to], d)]
          \/ responses' = responses
      BY <1>9 DEF StoreAnswer
    <3> QED BY <1>0, <2>1, <3>2, <3>3 DEF SharedOK
  <2>3. dirty' \in [Thread -> BOOLEAN]
    BY <1>0, <1>9 DEF StoreAnswer, Touch, SharedOK
  <2>4. SharedOK'
    BY <1>0, <1>9, <2>2, <2>3 DEF StoreAnswer, events, SharedOK
  <2>5. ProbesOK'
    BY <1>0, <1>9 DEF StoreAnswer, ProbesOK, ProbeOK
  <2> QED BY <2>4, <2>5, TypeParts
<1>10. ASSUME NEW h \in Hub, Unlink(h) PROVE TypeOK'
  <2>1. ProbesOK' /\ SharedOK'
    BY <1>0, <1>10 DEF Unlink, probe, events, ProbesOK, ProbeOK, SharedOK
  <2> QED BY <2>1, TypeParts
<1>11. CASE UNCHANGED vars
  <2>1. ProbesOK' /\ SharedOK'
    BY <1>0, <1>11 DEF vars, ProbesOK, ProbeOK, SharedOK
  <2> QED BY <2>1, TypeParts
<1> QED
  BY <1>1, <1>2, <1>3, <1>4, <1>5, <1>6, <1>7, <1>8, <1>9, <1>10, <1>11
     DEF Next, FindReachableEndpoint, AckHandler

\* What was answered stays answered; one more answer is remembered with its
\* datagram.
LEMMA AnsweredGrows == Inv /\ [Next]_vars => answered \subseteq answered'
BY DEF Next, FindReachableEndpoint, AckHandler, ConnectToClient, ReqHandler, Unlink, SendAck,
       Wake, Scan, ScanThrows, Take, AnswerAck, StoreAnswer, events, vars

LEMMA NetStep == Inv /\ [Next]_vars => NetInv'
<1> SUFFICES ASSUME Inv, [Next]_vars PROVE NetInv'
  OBVIOUS
<1>0. TypeOK /\ NetInv /\ answered \subseteq answered'
  BY AnsweredGrows DEF Inv
<1>1. ASSUME NEW t \in Thread, SendAck(t) PROVE NetInv'
  <2>1. \A d \in net' : d \in net \/ d.type = "ASK"
    BY <1>1 DEF SendAck, Ask
  <2> QED BY <1>0, <2>1 DEF NetInv, Answered
<1>2. ASSUME NEW d \in net, AnswerAck(d) PROVE NetInv'
  <2> DEFINE x == Reach[d.from][d.end]
             a == Answer(x, d.from, d.end)
  <2>1. net' = (net \ {d}) \cup {a} /\ answered' = answered \cup {<<x, d.from, d.end>>}
    BY <1>2 DEF AnswerAck
  <2>2. a.by = x /\ a.to = d.from /\ a.end = d.end
    BY DEF Answer
  <2>3. ASSUME NEW b \in net', b.type = "ANSWER" PROVE <<b.by, b.to, b.end>> \in answered'
    <3>1. CASE b = a
      BY <2>1, <2>2, <3>1
    <3>2. CASE b \in net
      BY <1>0, <2>3, <3>2 DEF NetInv, Answered
    <3> QED BY <2>1, <3>1, <3>2
  <2> QED BY <2>3 DEF NetInv, Answered
<1>3. CASE net' \subseteq net
  BY <1>0, <1>3 DEF NetInv, Answered
<1> QED
  BY <1>1, <1>2, <1>3
     DEF Next, FindReachableEndpoint, AckHandler, ConnectToClient, ReqHandler, Unlink,
         Wake, Scan, ScanThrows, Take, StoreAnswer, vars

LEMMA ListStep == Inv /\ [Next]_vars => ListInv'
<1> SUFFICES ASSUME Inv, [Next]_vars PROVE ListInv'
  OBVIOUS
<1>0. ProbesOK /\ SharedOK /\ ListInv /\ NetInv /\ answered \subseteq answered'
  BY AnsweredGrows, TypeParts DEF Inv
<1>1. ASSUME NEW t \in Thread, Take(t) PROVE ListInv'
  <2> DEFINE h == HubOf(t)
             same == {i \in DOMAIN responses[h] : responses[h][i] = held[t]}
  <2>1. h \in Hub /\ responses[h] \in Seq(Datagram)
    BY <1>0, Threads DEF SharedOK
  <2>2. CASE same = {}
    BY <1>0, <1>1, <2>2 DEF Take, ListInv, Answered
  <2>3. CASE same # {}
    <3>1. Min(same) \in 1..Len(responses[h])
      BY <1>0, <2>1, <2>3, FoundIsListed
    <3>2. responses' = [responses EXCEPT ![h] = RemoveAt(responses[h], Min(same))]
      BY <1>1, <2>3 DEF Take
    <3>3. \A j \in 1..Len(RemoveAt(responses[h], Min(same))) : \E k \in 1..Len(responses[h]) :
            RemoveAt(responses[h], Min(same))[j] = responses[h][k]
      BY <2>1, <3>1, RemoveAtElements
    <3>4. responses'[h] = RemoveAt(responses[h], Min(same))
          /\ \A g \in Hub \ {h} : responses'[g] = responses[g]
      BY <1>0, <2>1, <3>2 DEF SharedOK
    <3>5. ASSUME NEW g \in Hub, NEW j \in 1..Len(responses'[g])
          PROVE  \E k \in 1..Len(responses[g]) : responses'[g][j] = responses[g][k]
      BY <3>3, <3>4, <3>5
    <3> QED BY <1>0, <3>5 DEF ListInv, Answered
  <2> QED BY <2>2, <2>3
<1>2. ASSUME NEW d \in net, StoreAnswer(d) PROVE ListInv'
  <2>1. d \in Datagram /\ d.to \in Hub /\ d.type = "ANSWER"
    BY <1>0, <1>2, Datagrams DEF StoreAnswer, SharedOK
  <2>2. CASE responses' = responses
    BY <1>0, <2>2 DEF ListInv, Answered
  <2>3. CASE responses' = [responses EXCEPT ![d.to] = Append(responses[d.to], d)]
    <3>1. responses[d.to] \in Seq(Datagram)
      BY <1>0, <2>1 DEF SharedOK
    <3>2. responses'[d.to] = Append(responses[d.to], d)
          /\ \A g \in Hub \ {d.to} : responses'[g] = responses[g]
      BY <1>0, <2>1, <2>3 DEF SharedOK
    <3>3. ASSUME NEW j \in 1..Len(responses'[d.to])
          PROVE  \/ responses'[d.to][j] = d
                 \/ j \in 1..Len(responses[d.to]) /\ responses'[d.to][j] = responses[d.to][j]
      BY <3>1, <3>2
    <3>4. <<d.by, d.to, d.end>> \in answered'
      BY <1>0, <2>1 DEF NetInv, Answered
    <3>5. ASSUME NEW g \in Hub, NEW j \in 1..Len(responses'[g])
          PROVE  <<responses'[g][j].by, g, responses'[g][j].end>> \in answered'
      <4>1. CASE g = d.to
        BY <1>0, <3>3, <3>4, <3>5, <4>1 DEF ListInv, Answered
      <4>2. CASE g # d.to
        BY <1>0, <3>2, <3>5, <4>2 DEF ListInv, Answered
      <4> QED BY <4>1, <4>2
    <3> QED BY <3>5 DEF ListInv, Answered
  <2> QED BY <1>2, <2>2, <2>3 DEF StoreAnswer
<1>3. CASE UNCHANGED responses
  BY <1>0, <1>3 DEF ListInv, Answered
<1> QED
  BY <1>1, <1>2, <1>3
     DEF Next, FindReachableEndpoint, AckHandler, ConnectToClient, ReqHandler, Unlink,
         SendAck, Wake, Scan, ScanThrows, AnswerAck, vars

\* A probe takes an answer only when it names its target, which stays the same
\* until the probe is over.
LEMMA HeldStep == Inv /\ [Next]_vars => HeldInv'
<1> SUFFICES ASSUME Inv, [Next]_vars PROVE HeldInv'
  OBVIOUS
<1>0. ProbesOK /\ SharedOK /\ ListInv /\ HeldInv /\ answered \subseteq answered'
  BY AnsweredGrows, TypeParts DEF Inv
<1>1. ASSUME NEW t \in Thread, Scan(t) PROVE HeldInv'
  <2> DEFINE h == HubOf(t)
             found == {i \in DOMAIN responses[h] : Matches(t, responses[h][i])}
  <2>1. h \in Hub /\ target' = target
    BY <1>1, Threads DEF Scan
  <2>2. CASE found = {}
    <3>1. pc' = [pc EXCEPT ![t] = "send"] /\ held' = held
      BY <1>1, <2>2 DEF Scan
    <3> QED BY <1>0, <2>1, <3>1 DEF ProbesOK, HeldInv, Answered
  <2>3. CASE found # {}
    <3>1. pc' = [pc EXCEPT ![t] = "take"] /\ held' = [held EXCEPT ![t] = responses[h][Min(found)]]
      BY <1>1, <2>3 DEF Scan
    <3>2. Min(found) \in found /\ Min(found) \in 1..Len(responses[h])
      BY <1>0, <2>1, <2>3, FoundIsListed
    <3>3. /\ responses[h][Min(found)].by = target[t]
          /\ <<target[t], h, responses[h][Min(found)].end>> \in answered
      BY <1>0, <2>1, <3>2 DEF Matches, ListInv, Answered
    <3>4. held'[t] = responses[h][Min(found)]
          /\ \A u \in Thread \ {t} : pc'[u] = pc[u] /\ held'[u] = held[u]
      BY <1>0, <3>1 DEF ProbesOK
    <3> QED BY <1>0, <2>1, <3>3, <3>4 DEF HeldInv, Answered
  <2> QED BY <2>2, <2>3
<1>2. ASSUME NEW t \in Thread,
             \A u \in Thread : pc'[u] = "take" =>
               pc[u] = "take" /\ target'[u] = target[u] /\ held'[u] = held[u]
      PROVE  HeldInv'
  BY <1>0, <1>2 DEF HeldInv, Answered
<1>3. ASSUME NEW t \in Thread, ConnectToClient(t) \/ SendAck(t) \/ Wake(t) \/ Take(t) PROVE HeldInv'
  <2>1. PICK l \in Label \ {"take"} : pc' = [pc EXCEPT ![t] = l]
    BY <1>3, Labels DEF ConnectToClient, SendAck, Wake, Take, Begin, Finish, Goto
  <2>2. \A u \in Thread \ {t} : target'[u] = target[u] /\ held'[u] = held[u]
    BY <1>0, <1>3 DEF ConnectToClient, SendAck, Wake, Take, Begin, Finish, Goto, ProbesOK
  <2> QED BY <1>0, <1>2, <2>1, <2>2 DEF ProbesOK
<1>4. ASSUME NEW h \in Hub, ReqHandler(h) PROVE HeldInv'
  <2>1. CASE UNCHANGED probe
    BY <1>0, <2>1 DEF probe, HeldInv, Answered
  <2>2. CASE Begin(Listener(h), h)
    <3>1. Listener(h) \in Thread
      BY Threads
    <3>2. \A u \in Thread : pc'[u] = "take" =>
            pc[u] = "take" /\ target'[u] = target[u] /\ held'[u] = held[u]
      BY <1>0, <2>2, <3>1 DEF Begin, ProbesOK
    <3> QED BY <1>2, <3>1, <3>2
  <2> QED BY <1>4, <2>1, <2>2 DEF ReqHandler
<1>5. ASSUME NEW t \in Thread, ScanThrows(t) PROVE HeldInv'
  <2>1. CASE UNCHANGED probe
    BY <1>0, <2>1 DEF probe, HeldInv, Answered
  <2>2. CASE Finish(t)
    <3>1. \A u \in Thread : pc'[u] = "take" =>
            pc[u] = "take" /\ target'[u] = target[u] /\ held'[u] = held[u]
      BY <1>0, <2>2 DEF Finish, ProbesOK
    <3> QED BY <1>2, <3>1
  <2> QED BY <1>5, <2>1, <2>2 DEF ScanThrows
<1>6. CASE UNCHANGED <<pc, target, held>>
  BY <1>0, <1>6 DEF HeldInv, Answered
<1> QED
  BY <1>1, <1>3, <1>4, <1>5, <1>6
     DEF Next, FindReachableEndpoint, AckHandler, Unlink, AnswerAck, StoreAnswer, probe, vars

LEMMA StartedStep == Inv /\ [Next]_vars => StartedPeerAnswered'
<1> SUFFICES ASSUME Inv, [Next]_vars PROVE StartedPeerAnswered'
  OBVIOUS
<1>0. SharedOK /\ HeldInv /\ StartedPeerAnswered /\ answered \subseteq answered'
  BY AnsweredGrows, TypeParts DEF Inv
<1>1. ASSUME NEW t \in Thread, Take(t) PROVE StartedPeerAnswered'
  <2>1. <<target[t], HubOf(t), held[t].end>> \in answered
    BY <1>0, <1>1 DEF Take, HeldInv, Answered
  <2>2. held[t].end \in Endpoint
    BY <1>0, <2>1 DEF SharedOK
  <2>3. \A s \in started' : s \in started \/ (s[1] = HubOf(t) /\ s[2] = target[t])
    BY <1>1 DEF Take
  <2> QED BY <1>0, <2>1, <2>2, <2>3 DEF StartedPeerAnswered
<1>2. CASE UNCHANGED started
  BY <1>0, <1>2 DEF StartedPeerAnswered
<1> QED
  BY <1>1, <1>2
     DEF Next, FindReachableEndpoint, AckHandler, ConnectToClient, ReqHandler, Unlink, SendAck,
         Wake, Scan, ScanThrows, AnswerAck, StoreAnswer, events, vars

\* The invariant is inductive, so every behaviour has it.
LEMMA InvHolds == Spec => []Inv
<1>1. Inv /\ [Next]_vars => Inv'
  BY TypeStep, NetStep, ListStep, HeldStep, StartedStep DEF Inv
<1> QED BY InvInit, <1>1, PTL DEF Spec

------------------------------------------------------------------------------
\* No probe goes past its attempts or its endpoints, for every number of them.
THEOREM TypeCorrect == Spec => []TypeOK
<1>1. Inv => TypeOK
  BY DEF Inv
<1> QED BY <1>1, InvHolds, PTL

\* A hub connects to a peer only when that very peer answered one of its Acks,
\* whatever network lies between them and however late, lost or reordered the
\* datagrams are.
THEOREM PeerAnswered == Spec => []StartedPeerAnswered
<1>1. Inv => StartedPeerAnswered
  BY DEF Inv
<1> QED BY <1>1, InvHolds, PTL
==============================================================================
