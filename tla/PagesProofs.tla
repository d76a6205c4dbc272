----------------------------- MODULE PagesProofs -----------------------------
(***************************************************************************)
(* Proofs about Pages: the records and tasks keep their types, the         *)
(* requests go to the indexer of the current chain, a page that rests      *)
(* shows its item and the parts of its list, and a page that was left      *)
(* stops one of its loops.                                                 *)
(***************************************************************************)
EXTENDS Pages, FiniteSetsExt, FiniteSetTheorems, SequenceTheorems,
        WellFoundedInduction, TLAPS

(* What the tasks of a page may have still to do.                          *)
LoopTodo == {<<"info", "latest">>, <<"latest">>, <<"info">>}

Todo(kind) ==
  CASE kind = "explorer" -> LoopTodo
    [] kind = "network" -> {<<"status", "peers">>, <<"peers">>}
    [] kind = "ticker" -> {<<"ticker">>}
    [] kind = "blocks" -> {<<"list">>}
    [] kind = "block" -> {<<"block", "last", "list">>, <<"last", "list">>, <<"list">>}
    [] kind = "address" -> {<<"balance", "list">>, <<"list">>}
    [] kind = "transaction" -> {<<"transaction">>}
    [] OTHER -> {}

(* A task of the services: a setup that is asked for, or a search.         *)
ServiceTask(t) ==
  \/ t.todo = <<"setup">> /\ t.of \in Chain
  \/ /\ t.todo \in {<<"blockOfHash", "transactionOfHash">>, <<"transactionOfHash">>}
     /\ t.item \in Item /\ t.of = t.item

(* A task of a page: what is left of a page that was left are its loops.   *)
PageTask(t, pg) ==
  /\ t.todo \in (IF pg.open THEN Todo(pg.kind) ELSE LoopTodo)
  /\ t.item \in Item \cup {Nothing}
  /\ t.of \in (IF Head(t.todo) = "list" THEN Part ELSE Item \cup {Nothing})

TasksFit(tasks, pages, n) ==
  \A i \in TaskId : tasks[i] # Nothing =>
    IF tasks[i].page = Services THEN ServiceTask(tasks[i])
    ELSE tasks[i].page <= n /\ PageTask(tasks[i], pages[tasks[i].page])

PageRecord ==
  [kind : Kind \cup {Nothing}, open : BOOLEAN, item : Item \cup {Nothing},
   error : BOOLEAN, chain : Chain \cup {Nothing}, list : Seq(Part),
   link : Part \cup {Nothing}, timers : [Polled -> Nat], emitted : Nat,
   disturbed : BOOLEAN, busy : BOOLEAN]

ListKind == {"blocks", "block", "address"}

(* Only the page that was opened last may be open, and it is the one the   *)
(* address names; only an explorer page has timers, and a page that was    *)
(* left but those it had; a page that loads for a chain was emitted one    *)
(* when it opened.                                                         *)
PageFits(p, pg, u, n) ==
  /\ p > n => pg = Closed
  /\ pg.open =>
       /\ p = n /\ pg.kind \in Kind /\ u = [kind |-> pg.kind, item |-> u.item]
       /\ IF pg.kind \in ItemKind THEN u.item \in Item ELSE u.item = Nothing
       /\ pg.kind # "explorer" => \A step \in Polled : pg.timers[step] = 0
       /\ pg.kind \notin ListKind => pg.list = << >>
       /\ pg.kind \in DOMAIN OnChain => pg.emitted >= 1

PagesFit(pages, u, n) == \A p \in PageId : PageFits(p, pages[p], u, n)

Includes(todo, step) == \E k \in DOMAIN todo : todo[k] = step

Runs(t, p, step) == t # Nothing /\ t.page = p /\ Includes(t.todo, step)

LoopTasks(tasks, p, step) == {i \in TaskId : Runs(tasks[i], p, step)}

LoopsOf(tasks, pg, p, step) == pg.timers[step] + Cardinality(LoopTasks(tasks, p, step))

(* The loops of a page, against the chains that were emitted to it.        *)
LoopFits(pg, loops) ==
  /\ loops <= pg.emitted
  /\ ~pg.open /\ ~pg.busy => loops = 0 \/ loops < pg.emitted

LoopsFit(tasks, pages) ==
  \A p \in PageId : \A step \in Polled :
    LoopFits(pages[p], LoopsOf(tasks, pages[p], p, step))

(* The link to the part after the n-th.                                    *)
LinkAfter(item, n) == IF n < Parts THEN [item |-> item, n |-> n + 1] ELSE Nothing

(* The item whose list a page shows.                                       *)
ItemOf(pg, u) == IF pg.kind = "block" THEN pg.item ELSE u.item

LinkFits(pg, item) == pg.list # << >> => pg.link = LinkAfter(item, Len(pg.list))

(* What a task is about to do to its page.                                 *)
TaskAdds(t, pg, u) ==
  /\ Head(t.todo) \in {"block", "transaction", "balance"} => t.of = u.item /\ t.item = u.item
  /\ Head(t.todo) # "list" => pg.list = << >>
  /\ Head(t.todo) = "list" =>
       /\ t.of = [item |-> ItemOf(pg, u), n |-> Len(pg.list) + 1]
       /\ IF t.body THEN pg.link = LinkAfter(ItemOf(pg, u), Len(pg.list) + 1)
                    ELSE LinkFits(pg, ItemOf(pg, u))

OwnTasks(tasks, p) == {i \in TaskId : tasks[i] # Nothing /\ tasks[i].page = p}

(* A page that is not asked to load while it is loading.                   *)
Clean(pg) == pg.open /\ ~pg.disturbed /\ pg.emitted <= 1 /\ pg.kind # "explorer"

ShowFits(tasks, p, pg, u) ==
  Clean(pg) =>
    /\ pg.list = [k \in DOMAIN pg.list |-> [item |-> ItemOf(pg, u), n |-> k]]
    /\ \A i, j \in OwnTasks(tasks, p) : i = j
    /\ \A i \in OwnTasks(tasks, p) : TaskAdds(tasks[i], pg, u)
    /\ OwnTasks(tasks, p) = {} => LinkFits(pg, ItemOf(pg, u))
    /\ pg.kind \in {"block", "transaction"} =>
         \/ pg.error \/ pg.item = u.item
         \/ \E i \in OwnTasks(tasks, p) : Head(tasks[i].todo) = pg.kind

ShowsFit(tasks, pages, u) == \A p \in PageId : ShowFits(tasks, p, pages[p], u)

Fits(tasks, pages, u, n) ==
  /\ tasks \in [TaskId -> Task \cup {Nothing}]
  /\ pages \in [PageId -> PageRecord]
  /\ n \in 0..MaxPages
  /\ TasksFit(tasks, pages, n)
  /\ PagesFit(pages, u, n)
  /\ LoopsFit(tasks, pages)
  /\ ShowsFit(tasks, pages, u)

Inv ==
  /\ setup \in [current : Chain, baseUrl : Chain \cup {Nothing}]
  /\ url \in {Nothing} \cup [kind : Kind, item : Item \cup {Nothing}]
  /\ Fits(task, page, url, opened)
-----------------------------------------------------------------------------
(* The pages' lists of requests                                            *)

(* The kinds of pages, and what each asks for.                             *)
LEMMA KindFacts ==
  /\ DOMAIN OnChain = {"explorer", "network", "ticker", "blocks"}
  /\ ItemKind = {"block", "address", "transaction"}
  /\ Kind = {"explorer", "network", "ticker", "blocks", "block", "address", "transaction",
             "other"}
  /\ OnChain["explorer"] = <<"info", "latest">> /\ OnChain["network"] = <<"status", "peers">>
  /\ OnChain["ticker"] = <<"ticker">> /\ OnChain["blocks"] = <<"list">>
  /\ OnParam["block"] = <<"block", "last", "list">>
  /\ OnParam["address"] = <<"balance", "list">>
  /\ OnParam["transaction"] = <<"transaction">>
<1>1. DOMAIN OnChain = {"explorer", "network", "ticker", "blocks"}
  BY DEF OnChain
<1>2. ItemKind = {"block", "address", "transaction"}
  BY DEF ItemKind, OnParam
<1>3. Kind = {"explorer", "network", "ticker", "blocks", "block", "address", "transaction",
              "other"}
  BY <1>1, <1>2 DEF Kind
<1>4. /\ OnChain["explorer"] = <<"info", "latest">>
      /\ OnChain["network"] = <<"status", "peers">>
      /\ OnChain["ticker"] = <<"ticker">> /\ OnChain["blocks"] = <<"list">>
  BY DEF OnChain, ExplorerAsks, NetworkAsks, TickerAsks, BlocksAsks
<1>5. /\ OnParam["block"] = <<"block", "last", "list">>
      /\ OnParam["address"] = <<"balance", "list">>
      /\ OnParam["transaction"] = <<"transaction">>
  BY DEF OnParam, BlockAsks, AddressAsks, TransactionAsks
<1> QED BY <1>1, <1>2, <1>3, <1>4, <1>5

LEMMA OpenFacts ==
  /\ \A kind \in DOMAIN OnChain : OnOpen(kind) = OnChain[kind]
  /\ \A kind \in ItemKind : OnOpen(kind) = OnParam[kind]
  /\ OnOpen("other") = << >>
  BY KindFacts DEF OnOpen

(* What comes first in each list of requests, and what then.               *)
LEMMA TodoFacts ==
  /\ Head(<<"info", "latest">>) = "info" /\ Tail(<<"info", "latest">>) = <<"latest">>
  /\ Head(<<"info">>) = "info" /\ Tail(<<"info">>) = << >>
  /\ Head(<<"latest">>) = "latest" /\ Tail(<<"latest">>) = << >>
  /\ Head(<<"status", "peers">>) = "status" /\ Tail(<<"status", "peers">>) = <<"peers">>
  /\ Head(<<"peers">>) = "peers" /\ Tail(<<"peers">>) = << >>
  /\ Head(<<"ticker">>) = "ticker" /\ Tail(<<"ticker">>) = << >>
  /\ Head(<<"list">>) = "list" /\ Tail(<<"list">>) = << >>
  /\ Head(<<"block", "last", "list">>) = "block"
  /\ Tail(<<"block", "last", "list">>) = <<"last", "list">>
  /\ Head(<<"last", "list">>) = "last" /\ Tail(<<"last", "list">>) = <<"list">>
  /\ Head(<<"balance", "list">>) = "balance" /\ Tail(<<"balance", "list">>) = <<"list">>
  /\ Head(<<"transaction">>) = "transaction" /\ Tail(<<"transaction">>) = << >>
  /\ Head(<<"setup">>) = "setup" /\ Tail(<<"setup">>) = << >>
  /\ Head(<<"blockOfHash", "transactionOfHash">>) = "blockOfHash"
  /\ Tail(<<"blockOfHash", "transactionOfHash">>) = <<"transactionOfHash">>
  /\ Head(<<"transactionOfHash">>) = "transactionOfHash"
  /\ Tail(<<"transactionOfHash">>) = << >>
<1>1. /\ Tail(<<"info", "latest">>) = <<"latest">>
      /\ Tail(<<"status", "peers">>) = <<"peers">>
      /\ Tail(<<"last", "list">>) = <<"list">> /\ Tail(<<"balance", "list">>) = <<"list">>
  OBVIOUS
<1>2. Tail(<<"blockOfHash", "transactionOfHash">>) = <<"transactionOfHash">>
  OBVIOUS
<1>3. Tail(<<"block", "last", "list">>) = <<"last", "list">>
  OBVIOUS
<1>4. \A x : Tail(<<x>>) = << >> /\ Head(<<x>>) = x
  OBVIOUS
<1>5. \A x, y : Head(<<x, y>>) = x
  OBVIOUS
<1>6. Head(<<"block", "last", "list">>) = "block"
  OBVIOUS
<1> QED BY <1>1, <1>2, <1>3, <1>4, <1>5, <1>6

(* Only an explorer page asks for something that it polls.                 *)
LEMMA LoopTodoFacts ==
  /\ \A step \in Polled : Includes(<<"info", "latest">>, step) /\ ~Includes(<<"list">>, step)
  /\ \A step \in Polled :
       (Includes(<<"latest">>, step) <=> step = "latest") /\
       (Includes(<<"info">>, step) <=> step = "info")
  /\ \A kind \in Kind \ {"explorer"} : \A todo \in Todo(kind) : \A step \in Polled :
       ~Includes(todo, step)
  /\ \A todo \in LoopTodo : ToSet(todo) \cap Polled # {}
  /\ \A kind \in Kind \ {"explorer"} : \A todo \in Todo(kind) : ToSet(todo) \cap Polled = {}
<1>1. \A x : \A step : Includes(<<x>>, step) <=> step = x
  <2> SUFFICES ASSUME NEW x, NEW step PROVE Includes(<<x>>, step) <=> step = x
    OBVIOUS
  <2>1. DOMAIN <<x>> = {1} /\ <<x>>[1] = x
    OBVIOUS
  <2> QED BY <2>1 DEF Includes
<1>2. \A x, y : \A step : Includes(<<x, y>>, step) <=> step \in {x, y}
  <2> SUFFICES ASSUME NEW x, NEW y, NEW step
               PROVE  Includes(<<x, y>>, step) <=> step \in {x, y}
    OBVIOUS
  <2>1. DOMAIN <<x, y>> = {1, 2} /\ <<x, y>>[1] = x /\ <<x, y>>[2] = y
    OBVIOUS
  <2> QED BY <2>1 DEF Includes
<1>3. \A step : Includes(<<"block", "last", "list">>, step) <=> step \in {"block", "last", "list"}
  <2>1. /\ DOMAIN <<"block", "last", "list">> = {1, 2, 3}
        /\ <<"block", "last", "list">>[1] = "block" /\ <<"block", "last", "list">>[2] = "last"
        /\ <<"block", "last", "list">>[3] = "list"
    OBVIOUS
  <2> QED BY <2>1 DEF Includes
<1>4. \A kind \in Kind \ {"explorer"} : \A todo \in Todo(kind) : \A step \in Polled :
        ~Includes(todo, step)
  <2> SUFFICES ASSUME NEW kind \in Kind \ {"explorer"}, NEW todo \in Todo(kind), NEW step \in Polled
               PROVE  ~Includes(todo, step)
    OBVIOUS
  <2>1. todo \in {<<"status", "peers">>, <<"peers">>, <<"ticker">>, <<"list">>,
                  <<"block", "last", "list">>, <<"last", "list">>, <<"balance", "list">>,
                  <<"transaction">>}
    BY KindFacts DEF Todo
  <2>2. /\ ~Includes(<<"status", "peers">>, step) /\ ~Includes(<<"last", "list">>, step)
        /\ ~Includes(<<"balance", "list">>, step)
    BY <1>2, Zenon DEF Polled
  <2>3. /\ ~Includes(<<"peers">>, step) /\ ~Includes(<<"ticker">>, step)
        /\ ~Includes(<<"list">>, step) /\ ~Includes(<<"transaction">>, step)
    BY <1>1, Zenon DEF Polled
  <2>4. ~Includes(<<"block", "last", "list">>, step)
    BY <1>3 DEF Polled
  <2> QED BY <2>1, <2>2, <2>3, <2>4
<1>5. \A todo : \A step \in Polled : Includes(todo, step) <=> step \in ToSet(todo)
  BY DEF Includes, ToSet
<1>6. \A todo \in LoopTodo : \E step \in Polled : Includes(todo, step)
  <2>1. /\ Includes(<<"info", "latest">>, "info") /\ Includes(<<"info">>, "info")
        /\ Includes(<<"latest">>, "latest")
    BY <1>1, <1>2, Zenon
  <2> QED BY <2>1 DEF LoopTodo, Polled
<1>7. \A step \in Polled : Includes(<<"info", "latest">>, step) /\ ~Includes(<<"list">>, step)
  <2>1. \A step : ~(step = "list" /\ step \in Polled)
    BY DEF Polled
  <2>2. \A step : Includes(<<"info", "latest">>, step) <=> step \in {"info", "latest"}
    BY <1>2, Zenon
  <2>3. \A step : Includes(<<"list">>, step) <=> step = "list"
    BY <1>1, Zenon
  <2> QED BY <2>1, <2>2, <2>3 DEF Polled
<1>8. \A step \in Polled :
        (Includes(<<"latest">>, step) <=> step = "latest") /\
        (Includes(<<"info">>, step) <=> step = "info")
  BY <1>1, Zenon
<1>9. \A todo \in LoopTodo : ToSet(todo) \cap Polled # {}
  BY <1>5, <1>6
<1>10. \A kind \in Kind \ {"explorer"} : \A todo \in Todo(kind) : ToSet(todo) \cap Polled = {}
  BY <1>4, <1>5
<1> QED BY <1>4, <1>7, <1>8, <1>9, <1>10

(* Polling is the explorer page.                                           *)
LEMMA PollingFacts == Polling = {"explorer"}
<1>1. ToSet(<<"info", "latest">>) \cap Polled # {}
  BY LoopTodoFacts DEF LoopTodo
<1>2. \A kind \in {"network", "ticker", "blocks"} : OnChain[kind] \in Todo(kind)
  BY KindFacts DEF Todo
<1>3. \A kind \in {"network", "ticker", "blocks"} : ToSet(OnChain[kind]) \cap Polled = {}
  BY <1>2, LoopTodoFacts, KindFacts
<1> QED BY <1>1, <1>3, KindFacts DEF Polling

-----------------------------------------------------------------------------
(* Counting the loops                                                      *)

Tasks == [TaskId -> Task \cup {Nothing}]

Weight(t, p, step) == IF Runs(t, p, step) THEN 1 ELSE 0

LEMMA LoopTasksFinite ==
  ASSUME NEW tasks, NEW p, NEW step
  PROVE  /\ IsFiniteSet(LoopTasks(tasks, p, step))
         /\ Cardinality(LoopTasks(tasks, p, step)) \in Nat
         /\ LoopTasks(tasks, p, step) = {} <=> Cardinality(LoopTasks(tasks, p, step)) = 0
<1>1. LoopTasks(tasks, p, step) \subseteq TaskId
  BY DEF LoopTasks
<1>2. IsFiniteSet(LoopTasks(tasks, p, step))
  BY <1>1, PagesAssumption, FS_Subset
<1> QED BY <1>2, FS_CardinalityType, FS_EmptySet

(* A task that takes another's place changes the count by what each of     *)
(* them is.                                                                *)
LEMMA CountReplaced ==
  ASSUME NEW tasks \in Tasks, NEW i \in TaskId, NEW new \in Task \cup {Nothing},
         NEW p, NEW step
  PROVE  /\ Cardinality(LoopTasks([tasks EXCEPT ![i] = new], p, step)) + Weight(tasks[i], p, step)
              = Cardinality(LoopTasks(tasks, p, step)) + Weight(new, p, step)
         /\ Cardinality(LoopTasks([tasks EXCEPT ![i] = new], p, step)) \in Nat
         /\ Cardinality(LoopTasks(tasks, p, step)) \in Nat
<1> DEFINE after == [tasks EXCEPT ![i] = new]
           rest == LoopTasks(tasks, p, step) \ {i}
<1>1. /\ IsFiniteSet(LoopTasks(tasks, p, step)) /\ IsFiniteSet(LoopTasks(after, p, step))
      /\ Cardinality(LoopTasks(tasks, p, step)) \in Nat
      /\ Cardinality(LoopTasks(after, p, step)) \in Nat
  BY LoopTasksFinite
<1>2. after[i] = new /\ \A j \in TaskId : j # i => after[j] = tasks[j]
  BY DEF Tasks
<1>3. LoopTasks(after, p, step) \ {i} = rest
  BY <1>2 DEF LoopTasks
<1>4. i \in LoopTasks(after, p, step) <=> Runs(new, p, step)
  BY <1>2 DEF LoopTasks
<1>5. i \in LoopTasks(tasks, p, step) <=> Runs(tasks[i], p, step)
  BY DEF LoopTasks
<1>6. /\ Cardinality(rest) = Cardinality(LoopTasks(tasks, p, step)) - Weight(tasks[i], p, step)
      /\ Cardinality(rest) = Cardinality(LoopTasks(after, p, step)) - Weight(new, p, step)
  <2> HIDE DEF after
  <2>1. Cardinality(rest) = IF i \in LoopTasks(tasks, p, step)
          THEN Cardinality(LoopTasks(tasks, p, step)) - 1 ELSE Cardinality(LoopTasks(tasks, p, step))
    BY <1>1, FS_RemoveElement
  <2>2. Cardinality(LoopTasks(after, p, step) \ {i}) = IF i \in LoopTasks(after, p, step)
          THEN Cardinality(LoopTasks(after, p, step)) - 1 ELSE Cardinality(LoopTasks(after, p, step))
    BY <1>1, FS_RemoveElement
  <2> QED BY <1>1, <1>3, <1>4, <1>5, <2>1, <2>2 DEF Weight
<1>7. Weight(new, p, step) \in Nat /\ Weight(tasks[i], p, step) \in Nat
  BY DEF Weight
<1> HIDE DEF after
<1>8. Cardinality(LoopTasks(after, p, step)) + Weight(tasks[i], p, step)
        = Cardinality(LoopTasks(tasks, p, step)) + Weight(new, p, step)
  BY <1>1, <1>6, <1>7
<1> QED BY <1>1, <1>8 DEF after

-----------------------------------------------------------------------------
(* A step of one page's tasks                                              *)

(* A task that takes another's place matters only to the pages they belong *)
(* to.                                                                     *)
LEMMA Elsewhere ==
  ASSUME NEW tasks \in Tasks, NEW i \in TaskId, NEW after \in Tasks, NEW q,
         \A j \in TaskId : j # i => after[j] = tasks[j],
         tasks[i] = Nothing \/ tasks[i].page # q, after[i] = Nothing \/ after[i].page # q
  PROVE  /\ OwnTasks(after, q) = OwnTasks(tasks, q)
         /\ \A step : LoopTasks(after, q, step) = LoopTasks(tasks, q, step)
         /\ \A j \in OwnTasks(tasks, q) : after[j] = tasks[j]
<1>1. OwnTasks(after, q) = OwnTasks(tasks, q)
  BY DEF OwnTasks
<1>2. \A step : LoopTasks(after, q, step) = LoopTasks(tasks, q, step)
  BY DEF LoopTasks, Runs
<1>3. \A j \in OwnTasks(tasks, q) : after[j] = tasks[j]
  BY DEF OwnTasks
<1> QED BY <1>1, <1>2, <1>3

(* What a page shows depends on its own tasks.                             *)
LEMMA ShowElsewhere ==
  ASSUME NEW tasks, NEW after, NEW q, NEW pg, NEW u, ShowFits(tasks, q, pg, u),
         OwnTasks(after, q) = OwnTasks(tasks, q),
         \A j \in OwnTasks(tasks, q) : after[j] = tasks[j]
  PROVE  ShowFits(after, q, pg, u)
  BY DEF ShowFits

(* A page that is not open shows nothing.                                  *)
LEMMA ShowClosed ==
  ASSUME NEW tasks, NEW q, NEW pg, NEW u, ~pg.open
  PROVE  ShowFits(tasks, q, pg, u)
  BY DEF ShowFits, Clean

LEMMA TasksType ==
  ASSUME NEW tasks \in Tasks, NEW i \in TaskId, NEW new \in Task \cup {Nothing}
  PROVE  /\ [tasks EXCEPT ![i] = new] \in Tasks
         /\ [tasks EXCEPT ![i] = new][i] = new
         /\ \A j \in TaskId : j # i => [tasks EXCEPT ![i] = new][j] = tasks[j]
  BY DEF Tasks

(* A task of the services comes, goes on or ends.                          *)
LEMMA ServiceStep ==
  ASSUME NEW tasks, NEW pages, NEW u, NEW n, Fits(tasks, pages, u, n),
         NEW i \in TaskId, NEW new \in Task \cup {Nothing},
         tasks[i] = Nothing \/ tasks[i].page = Services,
         new = Nothing \/ (new.page = Services /\ ServiceTask(new))
  PROVE  Fits([tasks EXCEPT ![i] = new], pages, u, n)
<1> DEFINE after == [tasks EXCEPT ![i] = new]
<1>1. tasks \in Tasks /\ after \in Tasks /\ after[i] = new
      /\ \A j \in TaskId : j # i => after[j] = tasks[j]
  BY TasksType DEF Fits, Tasks
<1>2. \A q \in PageId : q # Services
  BY PagesAssumption DEF PageId, Services
<1>3. \A q \in PageId :
        /\ OwnTasks(after, q) = OwnTasks(tasks, q)
        /\ \A step : LoopTasks(after, q, step) = LoopTasks(tasks, q, step)
        /\ \A j \in OwnTasks(tasks, q) : after[j] = tasks[j]
  <2> SUFFICES ASSUME NEW q \in PageId
               PROVE  /\ OwnTasks(after, q) = OwnTasks(tasks, q)
                      /\ \A step : LoopTasks(after, q, step) = LoopTasks(tasks, q, step)
                      /\ \A j \in OwnTasks(tasks, q) : after[j] = tasks[j]
    OBVIOUS
  <2>1. /\ tasks[i] = Nothing \/ tasks[i].page # q
        /\ after[i] = Nothing \/ after[i].page # q
    BY <1>1, <1>2
  <2> HIDE DEF after
  <2> QED BY <1>1, <2>1, Elsewhere
<1> HIDE DEF after
<1>4. TasksFit(after, pages, n)
  BY <1>1 DEF Fits, TasksFit
<1>5. LoopsFit(after, pages)
  BY <1>3 DEF Fits, LoopsFit, LoopsOf
<1>6. ShowsFit(after, pages, u)
  BY <1>3, ShowElsewhere DEF Fits, ShowsFit
<1> QED BY <1>1, <1>4, <1>5, <1>6 DEF Fits, Tasks, after

(* A task of one page comes, goes on or ends, and the page changes with    *)
(* it.  The address may be that of a new item of the page that is open.    *)
LEMMA LocalStep ==
  ASSUME NEW tasks, NEW pages, NEW u, NEW u2, NEW n, Fits(tasks, pages, u, n),
         NEW p \in PageId, NEW pg \in PageRecord,
         NEW i \in TaskId, NEW new \in Task \cup {Nothing},
         tasks[i] = Nothing \/ tasks[i].page \in {p, Services},
         new = Nothing \/ (new.page = p /\ p <= n /\ PageTask(new, pg)),
         pg.open = pages[p].open, pg.kind = pages[p].kind,
         u2 = u \/ pg.open,
         PageFits(p, pg, u2, n),
         \A step \in Polled : LoopFits(pg, LoopsOf([tasks EXCEPT ![i] = new], pg, p, step)),
         ShowFits([tasks EXCEPT ![i] = new], p, pg, u2)
  PROVE  Fits([tasks EXCEPT ![i] = new], [pages EXCEPT ![p] = pg], u2, n)
<1> DEFINE after == [tasks EXCEPT ![i] = new]
           others == [pages EXCEPT ![p] = pg]
<1>1. tasks \in Tasks /\ after \in Tasks /\ after[i] = new
      /\ \A j \in TaskId : j # i => after[j] = tasks[j]
  BY TasksType DEF Fits, Tasks
<1>2. others \in [PageId -> PageRecord] /\ others[p] = pg
      /\ \A q \in PageId : q # p => others[q] = pages[q]
  BY DEF Fits
<1>3. \A q \in PageId : q # Services
  BY PagesAssumption DEF PageId, Services
<1>4. \A q \in PageId : q # p =>
        /\ OwnTasks(after, q) = OwnTasks(tasks, q)
        /\ \A step : LoopTasks(after, q, step) = LoopTasks(tasks, q, step)
        /\ \A j \in OwnTasks(tasks, q) : after[j] = tasks[j]
  <2> SUFFICES ASSUME NEW q \in PageId, q # p
               PROVE  /\ OwnTasks(after, q) = OwnTasks(tasks, q)
                      /\ \A step : LoopTasks(after, q, step) = LoopTasks(tasks, q, step)
                      /\ \A j \in OwnTasks(tasks, q) : after[j] = tasks[j]
    OBVIOUS
  <2>1. /\ tasks[i] = Nothing \/ tasks[i].page # q
        /\ after[i] = Nothing \/ after[i].page # q
    BY <1>1, <1>3
  <2> HIDE DEF after
  <2> QED BY <1>1, <2>1, Elsewhere
<1>5. \A q \in PageId : q # p /\ u2 # u => ~pages[q].open
  BY DEF Fits, PagesFit, PageFits
<1>6. \A step \in Polled : LoopFits(pg, LoopsOf(after, pg, p, step))
  OBVIOUS
<1>7. ShowFits(after, p, pg, u2)
  OBVIOUS
<1> HIDE DEF after, others
<1>8. TasksFit(after, others, n)
  <2> DEFINE Good(t) == IF t.page = Services THEN ServiceTask(t)
                        ELSE t.page <= n /\ PageTask(t, others[t.page])
  <2> SUFFICES ASSUME NEW j \in TaskId, after[j] # Nothing PROVE Good(after[j])
    BY DEF TasksFit
  <2>1. CASE j = i
    BY <1>1, <1>2, <1>3, <2>1
  <2>2. CASE j # i
    <3>1. after[j] = tasks[j] /\ tasks[j] # Nothing
      BY <1>1, <2>2
    <3>2. IF tasks[j].page = Services THEN ServiceTask(tasks[j])
          ELSE tasks[j].page <= n /\ PageTask(tasks[j], pages[tasks[j].page])
      BY <3>1 DEF Fits, TasksFit
    <3>3. tasks[j].page \in PageId \cup {Services}
      BY <1>1, <3>1 DEF Tasks, Task
    <3>4. CASE tasks[j].page = p
      BY <1>2, <1>3, <3>1, <3>2, <3>4 DEF PageTask
    <3>5. CASE tasks[j].page # p /\ tasks[j].page # Services
      BY <1>2, <3>1, <3>2, <3>3, <3>5
    <3>6. CASE tasks[j].page = Services
      BY <3>1, <3>2, <3>6
    <3> QED BY <3>4, <3>5, <3>6
  <2> QED BY <2>1, <2>2
<1>9. PagesFit(others, u2, n)
  <2> SUFFICES ASSUME NEW q \in PageId, q # p PROVE PageFits(q, others[q], u2, n)
    BY <1>2 DEF PagesFit
  <2>1. PageFits(q, pages[q], u, n)
    BY DEF Fits, PagesFit
  <2> QED BY <1>2, <1>5, <2>1 DEF PageFits
<1>10. LoopsFit(after, others)
  <2> SUFFICES ASSUME NEW q \in PageId, NEW step \in Polled
               PROVE  LoopFits(others[q], LoopsOf(after, others[q], q, step))
    BY DEF LoopsFit
  <2>1. CASE q = p
    BY <1>2, <1>6, <2>1
  <2>2. CASE q # p
    BY <1>2, <1>4, <2>2 DEF Fits, LoopsFit, LoopsOf
  <2> QED BY <2>1, <2>2
<1>11. ShowsFit(after, others, u2)
  <2> SUFFICES ASSUME NEW q \in PageId PROVE ShowFits(after, q, others[q], u2)
    BY DEF ShowsFit
  <2>1. CASE q = p
    BY <1>2, <1>7, <2>1
  <2>2. CASE q # p /\ u2 # u
    BY <1>2, <1>5, <2>2, ShowClosed
  <2>3. CASE q # p /\ u2 = u
    <3>1. ShowFits(tasks, q, pages[q], u)
      BY DEF Fits, ShowsFit
    <3> QED BY <1>2, <1>4, <2>3, <3>1, ShowElsewhere
  <2> QED BY <2>1, <2>2, <2>3
<1> QED BY <1>1, <1>2, <1>8, <1>9, <1>10, <1>11 DEF Fits, Tasks, after, others

(* The least of a set of indices is one of them.                           *)
LEMMA MinIsMember ==
  ASSUME NEW S, S \subseteq Nat, S # {}
  PROVE  Min(S) \in S /\ \A s \in S : Min(S) <= s
<1> DEFINE Less == {p \in Nat \X Nat : p[1] < p[2]}
<1>1. IsWellFoundedOn(Less, Nat)
  BY NatLessThanWellFounded DEF OpToRel
<1>2. \A x, y \in Nat : <<y, x>> \notin Less => x <= y
  OBVIOUS
<1> HIDE DEF Less
<1>3. PICK x \in S : \A y \in S : <<y, x>> \notin Less
  BY <1>1, WFMin
<1> QED BY <1>2, <1>3 DEF Min

(* A new task gets a place of its own.                                     *)
LEMMA StartedFacts ==
  ASSUME NEW tasks \in Tasks, Free(tasks) # {}, NEW new \in Task
  PROVE  \E i \in TaskId : tasks[i] = Nothing /\ Started(tasks, new) = [tasks EXCEPT ![i] = new]
<1>1. Free(tasks) \subseteq TaskId /\ \A i \in Free(tasks) : tasks[i] = Nothing
  BY DEF Free
<1>2. Min(Free(tasks)) \in Free(tasks)
  BY <1>1, PagesAssumption, MinIsMember
<1>3. new # Nothing
  BY NothingIsNone
<1> QED BY <1>1, <1>2, <1>3 DEF Started

-----------------------------------------------------------------------------
(* What a step does to the page it is about                                *)

(* The loops of a page stay as many when a timer that is set replaces a    *)
(* task, or a task a timer.                                                *)
LEMMA LoopsKept ==
  ASSUME NEW tasks \in Tasks, NEW i \in TaskId, NEW new \in Task \cup {Nothing},
         NEW p, NEW step \in Polled, NEW pg \in PageRecord, NEW pg2 \in PageRecord,
         LoopFits(pg, LoopsOf(tasks, pg, p, step)),
         pg2.emitted = pg.emitted, pg2.open = pg.open, pg2.busy = pg.busy,
         pg2.timers[step] + Weight(new, p, step) = pg.timers[step] + Weight(tasks[i], p, step)
  PROVE  LoopFits(pg2, LoopsOf([tasks EXCEPT ![i] = new], pg2, p, step))
<1> DEFINE before == Cardinality(LoopTasks(tasks, p, step))
           after == Cardinality(LoopTasks([tasks EXCEPT ![i] = new], p, step))
<1>1. /\ before \in Nat /\ after \in Nat
      /\ after + Weight(tasks[i], p, step) = before + Weight(new, p, step)
  BY CountReplaced
<1>2. pg.timers[step] \in Nat /\ pg2.timers[step] \in Nat
  BY DEF PageRecord
<1>3. Weight(tasks[i], p, step) \in Nat /\ Weight(new, p, step) \in Nat
  BY DEF Weight
<1>4. LoopFits(pg, pg.timers[step] + before)
  BY DEF LoopsOf
<1>5. pg2.timers[step] + after = pg.timers[step] + before
  <2> HIDE DEF before, after
  <2> QED BY <1>1, <1>2, <1>3
<1>6. LoopFits(pg2, pg2.timers[step] + after)
  <2> HIDE DEF before, after
  <2> QED BY <1>4, <1>5 DEF LoopFits
<1> QED BY <1>6 DEF LoopsOf

(* A page is asked to load.                                                *)
LEMMA AskedFacts ==
  ASSUME NEW pg \in PageRecord, NEW tasks, NEW p
  PROVE  /\ Asked(pg, tasks, p) \in PageRecord
         /\ Asked(pg, tasks, p) = [pg EXCEPT !.disturbed = Asked(pg, tasks, p).disturbed]
         /\ ~Asked(pg, tasks, p).disturbed => ~pg.disturbed /\ OwnTasks(tasks, p) = {}
  BY DEF Asked, PageRecord, OwnTasks

(* The first part of a list.                                               *)
LEMMA FirstPartFacts ==
  ASSUME NEW pg \in PageRecord, NEW item \in Item \cup {Nothing}
  PROVE  /\ FirstPart(pg, item) \in Part
         /\ FirstPart(pg, item) = [item |-> IF pg.kind = "block" THEN pg.item ELSE item, n |-> 1]
  BY PagesAssumption DEF FirstPart, Part, PageRecord

(* A task at its next request, unless it ends there.                       *)
LEMMA AtFacts ==
  ASSUME NEW p \in PageId \cup {Services}, NEW pg \in PageRecord, NEW todo \in Seq(Request),
         NEW item \in Item \cup Chain \cup {Nothing},
         setup.baseUrl \in Chain \cup {Nothing},
         todo # << >> /\ Head(todo) = "list" => item \in Item \cup {Nothing}
  PROVE  \/ /\ At(p, pg, todo, item) = Nothing
            /\ todo = << >> \/ Head(todo) \in {"list", "ticker"}
         \/ /\ todo # << >>
            /\ At(p, pg, todo, item) \in Task
            /\ At(p, pg, todo, item) =
                 [page |-> p, todo |-> todo, item |-> item, from |-> setup.baseUrl, body |-> FALSE,
                  of |-> IF Head(todo) = "list" THEN FirstPart(pg, item) ELSE item]
<1>1. CASE todo = << >> \/ Throws(pg, todo) \/ Skips(todo)
  BY <1>1 DEF At, Throws, Skips
<1>2. CASE ~(todo = << >> \/ Throws(pg, todo) \/ Skips(todo))
  <2> DEFINE new == [page |-> p, todo |-> todo, item |-> item, from |-> setup.baseUrl, body |-> FALSE,
                     of |-> IF Head(todo) = "list" THEN FirstPart(pg, item) ELSE item]
  <2>1. At(p, pg, todo, item) = new
    BY <1>2 DEF At
  <2>2. (IF Head(todo) = "list" THEN FirstPart(pg, item) ELSE item)
          \in Item \cup Chain \cup {Nothing} \cup Part
    BY <1>2, FirstPartFacts
  <2>3. new \in Task
    BY <2>2 DEF Task
  <2> QED BY <1>2, <2>1, <2>3
<1> QED BY <1>1, <1>2

(* One that asks for what can always be asked for does not end there.      *)
LEMMA AtStarts ==
  ASSUME NEW p \in PageId \cup {Services}, NEW pg, NEW todo \in Seq(Request),
         NEW item \in Item \cup Chain \cup {Nothing},
         setup.baseUrl \in Chain \cup {Nothing},
         todo # << >>, Head(todo) \notin {"list", "ticker"}
  PROVE  /\ At(p, pg, todo, item) \in Task
         /\ At(p, pg, todo, item) =
              [page |-> p, todo |-> todo, item |-> item, from |-> setup.baseUrl, body |-> FALSE,
               of |-> item]
<1>1. ~Throws(pg, todo) /\ ~Skips(todo)
  BY DEF Throws, Skips
<1>2. At(p, pg, todo, item) =
        [page |-> p, todo |-> todo, item |-> item, from |-> setup.baseUrl, body |-> FALSE,
         of |-> item]
  BY <1>1 DEF At
<1>3. [page |-> p, todo |-> todo, item |-> item, from |-> setup.baseUrl, body |-> FALSE,
       of |-> item] \in Task
  BY DEF Task
<1> QED BY <1>2, <1>3

(* The tasks of a page that had no other.                                  *)
LEMMA OwnFacts ==
  ASSUME NEW tasks \in Tasks, NEW after \in Tasks, NEW i \in TaskId, NEW p,
         \A j \in TaskId : j # i => after[j] = tasks[j],
         OwnTasks(tasks, p) \subseteq {i}, after[i] = Nothing \/ after[i].page = p
  PROVE  OwnTasks(after, p) = IF after[i] = Nothing THEN {} ELSE {i}
  BY DEF OwnTasks

(* A page with one task shows what it should if the task is right.         *)
LEMMA ShowOne ==
  ASSUME NEW tasks, NEW i, NEW p, NEW pg, NEW u, OwnTasks(tasks, p) = {i},
         pg.list = [k \in DOMAIN pg.list |-> [item |-> ItemOf(pg, u), n |-> k]],
         TaskAdds(tasks[i], pg, u),
         pg.kind \in {"block", "transaction"} =>
           pg.error \/ pg.item = u.item \/ Head(tasks[i].todo) = pg.kind
  PROVE  ShowFits(tasks, p, pg, u)
  BY DEF ShowFits

(* Without a task, it has the link to the next part.                       *)
LEMMA ShowNone ==
  ASSUME NEW tasks, NEW p, NEW pg, NEW u, OwnTasks(tasks, p) = {},
         pg.list = [k \in DOMAIN pg.list |-> [item |-> ItemOf(pg, u), n |-> k]],
         LinkFits(pg, ItemOf(pg, u)),
         pg.kind \in {"block", "transaction"} => pg.error \/ pg.item = u.item
  PROVE  ShowFits(tasks, p, pg, u)
  BY DEF ShowFits

(* What is added to a sequence is its last element.                        *)
LEMMA AppendFacts ==
  ASSUME NEW S, NEW s \in Seq(S), NEW x \in S
  PROVE  Append(s, x)[Len(s) + 1] = x
  OBVIOUS

(* The part after one of a list.                                           *)
LEMMA NextPartFacts ==
  ASSUME NEW part \in Part
  PROVE  /\ NextPart(part) \in Part \cup {Nothing}
         /\ NextPart(part) = LinkAfter(part.item, part.n)
  BY PagesAssumption DEF NextPart, Part, LinkAfter

-----------------------------------------------------------------------------
(* Answers                                                                 *)

(* What is known of a task of a page, and of its page.                     *)
LEMMA TaskFacts ==
  ASSUME Inv, NEW i \in TaskId, task[i] # Nothing, task[i].page # Services
  PROVE  LET t == task[i] IN
         /\ t \in Task /\ t.page \in PageId /\ t.page <= opened /\ opened \in 0..MaxPages
         /\ page[t.page] \in PageRecord /\ PageTask(t, page[t.page])
         /\ PageFits(t.page, page[t.page], url, opened)
         /\ \A step \in Polled :
              LoopFits(page[t.page], LoopsOf(task, page[t.page], t.page, step))
         /\ ShowFits(task, t.page, page[t.page], url)
         /\ task \in Tasks /\ page \in [PageId -> PageRecord]
         /\ setup.baseUrl \in Chain \cup {Nothing}
<1>1. task \in Tasks /\ task[i] \in Task
  BY DEF Inv, Fits, Tasks
<1>2. task[i].page \in PageId
  BY <1>1 DEF Task
<1>3. /\ page \in [PageId -> PageRecord] /\ opened \in 0..MaxPages
      /\ setup.baseUrl \in Chain \cup {Nothing}
  BY DEF Inv, Fits
<1>4. task[i].page <= opened /\ PageTask(task[i], page[task[i].page])
  BY DEF Inv, Fits, TasksFit
<1>5. PageFits(task[i].page, page[task[i].page], url, opened)
  BY <1>2 DEF Inv, Fits, PagesFit
<1>6. \A step \in Polled : LoopFits(page[task[i].page], LoopsOf(task, page[task[i].page], task[i].page, step))
  BY <1>2 DEF Inv, Fits, LoopsFit
<1>7. ShowFits(task, task[i].page, page[task[i].page], url)
  BY <1>2 DEF Inv, Fits, ShowsFit
<1> QED BY <1>1, <1>2, <1>3, <1>4, <1>5, <1>6, <1>7

(* The lists of requests of the pages, and of one that was left.           *)
LEMMA PageTodoFacts ==
  ASSUME NEW pg \in PageRecord, NEW t \in Task, PageTask(t, pg),
         pg.open => pg.kind \in Kind
  PROVE  \/ t.todo \in LoopTodo /\ (pg.open => pg.kind = "explorer")
         \/ t.todo \in {<<"status", "peers">>, <<"peers">>} /\ pg.open /\ pg.kind = "network"
         \/ t.todo = <<"ticker">> /\ pg.open /\ pg.kind = "ticker"
         \/ t.todo = <<"list">> /\ pg.open /\ pg.kind \in ListKind
         \/ /\ t.todo \in {<<"block", "last", "list">>, <<"last", "list">>}
            /\ pg.open /\ pg.kind = "block"
         \/ t.todo = <<"balance", "list">> /\ pg.open /\ pg.kind = "address"
         \/ t.todo = <<"transaction">> /\ pg.open /\ pg.kind = "transaction"
<1>1. CASE ~pg.open
  BY <1>1 DEF PageTask
<1>2. CASE pg.open
  <2>1. pg.kind \in {"explorer", "network", "ticker", "blocks", "block", "address", "transaction",
                     "other"}
    BY <1>2, KindFacts
  <2> QED BY <1>2, <2>1 DEF PageTask, Todo, ListKind
<1> QED BY <1>1, <1>2

(* What may be left to do is a sequence of strings.                        *)
LEMMA Tuples ==
  /\ << >> \in Seq(Request) /\ << >> # <<"latest">>
  /\ <<"latest">> \in Seq(Request) /\ <<"list">> \in Seq(Request)
  /\ <<"peers">> \in Seq(Request) /\ <<"last", "list">> \in Seq(Request)
  /\ <<"list">> # <<"latest">> /\ <<"peers">> # <<"latest">>
  /\ <<"last", "list">> # <<"latest">>
<1>1. ASSUME NEW S, NEW x \in S PROVE <<x>> \in Seq(S)
  OBVIOUS
<1>2. ASSUME NEW S, NEW x \in S, NEW y \in S
      PROVE  <<x, y>> \in Seq(S) /\ <<x, y>> # <<"latest">>
  OBVIOUS
<1>3. << >> \in Seq(Request) /\ << >> # <<"latest">>
  OBVIOUS
<1>4. "latest" \in Request /\ "list" \in Request /\ "peers" \in Request /\ "last" \in Request
  BY DEF Request
<1>5. <<"latest">> \in Seq(Request) /\ <<"list">> \in Seq(Request) /\ <<"peers">> \in Seq(Request)
  BY <1>1, <1>4, Zenon
<1>6. <<"last", "list">> \in Seq(Request) /\ <<"last", "list">> # <<"latest">>
  BY <1>2, <1>4, Zenon
<1>7. <<"list">> # <<"latest">> /\ <<"peers">> # <<"latest">>
  OBVIOUS
<1> QED BY <1>3, <1>5, <1>6, <1>7

(* What a task has still to do after a request that is not a list's.       *)
LEMMA TailFacts ==
  ASSUME NEW pg \in PageRecord, NEW t \in Task, PageTask(t, pg),
         pg.open => pg.kind \in Kind, Head(t.todo) # "list"
  PROVE  /\ Tail(t.todo) \in Seq(Request)
         /\ \/ Tail(t.todo) = << >>
            \/ /\ Tail(t.todo) \in (IF pg.open THEN Todo(pg.kind) ELSE LoopTodo)
               /\ \/ Tail(t.todo) = <<"list">> /\ pg.open /\ Head(t.todo) = "last"
                  \/ Tail(t.todo) = <<"list">> /\ pg.open /\ Head(t.todo) = "balance"
                  \/ Tail(t.todo) = <<"last", "list">> /\ pg.open /\ Head(t.todo) = "block"
                  \/ Tail(t.todo) = <<"latest">> /\ Head(t.todo) = "info"
                  \/ Tail(t.todo) = <<"peers">> /\ Head(t.todo) = "status"
         /\ Head(t.todo) \in Polled <=> t.todo \in LoopTodo
         /\ Head(t.todo) \in Polled /\ pg.open => pg.kind = "explorer"
         /\ Head(t.todo) \notin Polled => pg.open
         /\ \A step \in Polled : Includes(t.todo, step) <=>
              step = Head(t.todo) \/ (Tail(t.todo) = <<"latest">> /\ step = "latest")
         /\ Tail(t.todo) = <<"latest">> => Head(t.todo) = "info"
<1>1. CASE t.todo \in LoopTodo /\ (pg.open => pg.kind = "explorer")
  <2>1. (IF pg.open THEN Todo(pg.kind) ELSE LoopTodo) = LoopTodo
    BY <1>1 DEF Todo
  <2>2. CASE t.todo = <<"info", "latest">>
    <3>1. /\ Head(t.todo) = "info" /\ Tail(t.todo) = <<"latest">>
          /\ \A step \in Polled : Includes(t.todo, step)
      BY <2>2, TodoFacts, LoopTodoFacts
    <3>2. <<"latest">> \in LoopTodo /\ <<"latest">> \in Seq(Request)
      BY Tuples DEF LoopTodo
    <3>3. \A step \in Polled : step = "info" \/ step = "latest"
      BY DEF Polled
    <3>4. \A step \in Polled : Includes(t.todo, step) <=>
            step = Head(t.todo) \/ (Tail(t.todo) = <<"latest">> /\ step = "latest")
      BY <3>1, <3>3
    <3>5. Tail(t.todo) \in (IF pg.open THEN Todo(pg.kind) ELSE LoopTodo)
      BY <1>1, <2>1, <3>1, <3>2
    <3>6. Head(t.todo) \in Polled
      BY <3>1 DEF Polled
    <3> QED BY <1>1, <3>1, <3>2, <3>4, <3>5, <3>6
  <2>3. CASE t.todo = <<"latest">>
    BY <1>1, <2>3, TodoFacts, LoopTodoFacts DEF Polled
  <2>4. CASE t.todo = <<"info">>
    BY <1>1, <2>4, TodoFacts, LoopTodoFacts DEF Polled
  <2> QED BY <1>1, <2>2, <2>3, <2>4 DEF LoopTodo
<1>2. ASSUME pg.open, pg.kind \in Kind \ {"explorer"}, t.todo \in Todo(pg.kind),
             Head(t.todo) \notin Polled
      PROVE  /\ \A step \in Polled : ~Includes(t.todo, step)
             /\ t.todo \notin LoopTodo
  <2>1. \A step \in Polled : ~Includes(t.todo, step)
    BY <1>2, LoopTodoFacts
  <2>2. ToSet(t.todo) \cap Polled = {}
    BY <1>2, LoopTodoFacts
  <2> QED BY <2>1, <2>2, LoopTodoFacts
<1>3. CASE t.todo \in {<<"status", "peers">>, <<"peers">>} /\ pg.open /\ pg.kind = "network"
  <2>1. CASE t.todo = <<"status", "peers">>
    <3>1. Head(t.todo) = "status" /\ Tail(t.todo) = <<"peers">>
      BY <2>1, TodoFacts
    <3>2. <<"peers">> \in Todo(pg.kind) /\ t.todo \in Todo(pg.kind) /\ <<"peers">> \in Seq(Request)
      BY <1>3, Tuples DEF Todo
    <3>3. <<"peers">> # <<"latest">>
      OBVIOUS
    <3> QED BY <1>2, <1>3, <3>1, <3>2, <3>3, KindFacts DEF Polled
  <2>2. CASE t.todo = <<"peers">>
    <3>1. Head(t.todo) = "peers" /\ Tail(t.todo) = << >>
      BY <2>2, TodoFacts
    <3>2. t.todo \in Todo(pg.kind)
      BY <1>3 DEF Todo
    <3> QED BY <1>2, <1>3, <3>1, <3>2, KindFacts, Tuples DEF Polled
  <2> QED BY <1>3, <2>1, <2>2
<1>4. CASE t.todo = <<"ticker">> /\ pg.open /\ pg.kind = "ticker"
  <2>1. Head(t.todo) = "ticker" /\ Tail(t.todo) = << >>
    BY <1>4, TodoFacts
  <2>2. t.todo \in Todo(pg.kind)
    BY <1>4 DEF Todo
  <2> QED BY <1>2, <1>4, <2>1, <2>2, KindFacts DEF Polled
<1>5. CASE t.todo = <<"transaction">> /\ pg.open /\ pg.kind = "transaction"
  <2>1. Head(t.todo) = "transaction" /\ Tail(t.todo) = << >>
    BY <1>5, TodoFacts
  <2>2. t.todo \in Todo(pg.kind)
    BY <1>5 DEF Todo
  <2> QED BY <1>2, <1>5, <2>1, <2>2, KindFacts DEF Polled
<1>6. CASE t.todo = <<"list">> /\ pg.open /\ pg.kind \in ListKind
  BY <1>6, TodoFacts
<1>7. CASE /\ t.todo \in {<<"block", "last", "list">>, <<"last", "list">>}
           /\ pg.open /\ pg.kind = "block"
  <2>1. CASE t.todo = <<"block", "last", "list">>
    <3>1. Head(t.todo) = "block" /\ Tail(t.todo) = <<"last", "list">>
      BY <2>1, TodoFacts
    <3>2. <<"last", "list">> \in Todo(pg.kind) /\ t.todo \in Todo(pg.kind) /\ <<"last", "list">> \in Seq(Request)
      BY <1>7, <2>1, Tuples DEF Todo
    <3>3. <<"last", "list">> # <<"latest">>
      OBVIOUS
    <3> QED BY <1>2, <1>7, <3>1, <3>2, <3>3, KindFacts DEF Polled
  <2>2. CASE t.todo = <<"last", "list">>
    <3>1. Head(t.todo) = "last" /\ Tail(t.todo) = <<"list">>
      BY <2>2, TodoFacts
    <3>2. <<"list">> \in Todo(pg.kind) /\ t.todo \in Todo(pg.kind) /\ <<"list">> \in Seq(Request)
      BY <1>7, <2>2, Tuples DEF Todo
    <3>3. <<"list">> # <<"latest">>
      OBVIOUS
    <3> QED BY <1>2, <1>7, <3>1, <3>2, <3>3, KindFacts DEF Polled
  <2> QED BY <1>7, <2>1, <2>2
<1>8. CASE t.todo = <<"balance", "list">> /\ pg.open /\ pg.kind = "address"
  <2>1. Head(t.todo) = "balance" /\ Tail(t.todo) = <<"list">>
    BY <1>8, TodoFacts
  <2>2. <<"list">> \in Todo(pg.kind) /\ t.todo \in Todo(pg.kind) /\ <<"list">> \in Seq(Request)
    BY <1>8, Tuples DEF Todo
  <2>3. <<"list">> # <<"latest">>
    OBVIOUS
  <2> QED BY <1>2, <1>8, <2>1, <2>2, <2>3, KindFacts DEF Polled
<1> QED BY <1>1, <1>3, <1>4, <1>5, <1>6, <1>7, <1>8, PageTodoFacts

(* A function goes on after a request that is not a list's, whether it was *)
(* answered or its failure was caught.                                     *)
LEMMA ContinueFits ==
  ASSUME Inv, NEW i \in TaskId, task[i] # Nothing, task[i].page # Services,
         Head(task[i].todo) # "list", NEW pg \in PageRecord,
         pg.open = page[task[i].page].open, pg.kind = page[task[i].page].kind,
         pg.list = page[task[i].page].list, pg.link = page[task[i].page].link,
         pg.emitted = page[task[i].page].emitted, pg.busy = page[task[i].page].busy,
         pg.disturbed = page[task[i].page].disturbed,
         \A step \in Polled : pg.timers[step] =
           page[task[i].page].timers[step] + (IF step = Head(task[i].todo) THEN 1 ELSE 0),
         Head(task[i].todo) \in {"block", "transaction"} => pg.error \/ pg.item = task[i].of,
         Head(task[i].todo) \notin {"block", "transaction"} =>
           pg.error = page[task[i].page].error /\ pg.item = page[task[i].page].item,
         Continue(i, pg), url' = url, opened' = opened
  PROVE  Fits(task', page', url', opened')
<1> DEFINE t == task[i]
           p == t.page
           old == page[p]
           todo == Tail(t.todo)
           h == Head(t.todo)
           new == At(p, pg, todo, t.item)
           after == [task EXCEPT ![i] = new]
<1>1. /\ t \in Task /\ p \in PageId /\ p <= opened /\ opened \in 0..MaxPages
      /\ old \in PageRecord /\ PageTask(t, old)
      /\ PageFits(p, old, url, opened)
      /\ \A step \in Polled : LoopFits(old, LoopsOf(task, old, p, step))
      /\ ShowFits(task, p, old, url)
      /\ task \in Tasks /\ page \in [PageId -> PageRecord]
      /\ setup.baseUrl \in Chain \cup {Nothing}
  BY TaskFacts
<1>2. old.open => old.kind \in Kind
  BY <1>1 DEF PageFits
<1>3. task' = after /\ page' = [page EXCEPT ![p] = pg]
  BY DEF Continue
<1>4. t.item \in Item \cup {Nothing}
  BY <1>1 DEF PageTask
<1>5. /\ todo \in Seq(Request)
      /\ \/ todo = << >>
         \/ /\ todo \in (IF old.open THEN Todo(old.kind) ELSE LoopTodo)
            /\ \/ todo = <<"list">> /\ old.open /\ h = "last"
               \/ todo = <<"list">> /\ old.open /\ h = "balance"
               \/ todo = <<"last", "list">> /\ old.open /\ h = "block"
               \/ todo = <<"latest">> /\ h = "info"
               \/ todo = <<"peers">> /\ h = "status"
      /\ h \in Polled <=> t.todo \in LoopTodo
      /\ h \in Polled /\ old.open => old.kind = "explorer"
      /\ h \notin Polled => old.open
      /\ \A step \in Polled : Includes(t.todo, step) <=>
           step = h \/ (todo = <<"latest">> /\ step = "latest")
      /\ todo = <<"latest">> => h = "info"
  BY <1>1, <1>2, TailFacts
<1>6. \/ new = Nothing /\ (todo = << >> \/ Head(todo) \in {"list", "ticker"})
      \/ /\ todo # << >> /\ new \in Task
         /\ new = [page |-> p, todo |-> todo, item |-> t.item, from |-> setup.baseUrl,
                   body |-> FALSE,
                   of |-> IF Head(todo) = "list" THEN FirstPart(pg, t.item) ELSE t.item]
  <2>1. p \in PageId \cup {Services} /\ t.item \in Item \cup Chain \cup {Nothing}
    BY <1>1, <1>4
  <2>2. todo # << >> /\ Head(todo) = "list" => t.item \in Item \cup {Nothing}
    BY <1>4
  <2>3. todo \in Seq(Request) /\ setup.baseUrl \in Chain \cup {Nothing}
    BY <1>1, <1>5
  <2> HIDE DEF p, t, todo
  <2> QED BY <2>1, <2>2, <2>3, AtFacts
<1>7. new \in Task \cup {Nothing} /\ (new # Nothing => new \in Task)
  BY <1>6
<1> HIDE DEF new, todo, h
<1>8. new # Nothing => new.page = p /\ PageTask(new, pg)
  <2> SUFFICES ASSUME new # Nothing PROVE new.page = p /\ PageTask(new, pg)
    OBVIOUS
  <2>1. /\ new.page = p /\ new.todo = todo /\ new.item = t.item /\ todo # << >>
        /\ new.of = IF Head(todo) = "list" THEN FirstPart(pg, t.item) ELSE t.item
    BY <1>6
  <2>2. FirstPart(pg, t.item) \in Part
    BY <1>4, FirstPartFacts
  <2> QED BY <1>4, <1>5, <2>1, <2>2 DEF PageTask
<1>9. PageFits(p, pg, url, opened)
  <2>1. ~(p > opened)
    BY <1>1 DEF PageId
  <2>2. ASSUME pg.open, pg.kind # "explorer", NEW step \in Polled PROVE pg.timers[step] = 0
    <3>1. h \notin Polled
      BY <1>5, <2>2
    <3>2. old.timers[step] = 0 /\ step # h
      BY <1>1, <2>2, <3>1 DEF PageFits
    <3> QED BY <3>2 DEF h
  <2> QED BY <1>1, <2>1, <2>2 DEF PageFits
<1>10. ASSUME NEW step \in Polled
       PROVE  LoopFits(pg, LoopsOf(after, pg, p, step))
  <2>1. t # Nothing /\ t.page = p
    OBVIOUS
  <2>2. Weight(task[i], p, step) = IF step = h \/ (todo = <<"latest">> /\ step = "latest") THEN 1 ELSE 0
    BY <1>5, <2>1 DEF Weight, Runs
  <2>3. Weight(new, p, step) = IF todo = <<"latest">> /\ step = "latest" THEN 1 ELSE 0
    <3>1. CASE todo = << >>
      BY <1>6, <3>1, Tuples DEF Weight, Runs
    <3>2. CASE todo = <<"latest">>
      <4>1. new # Nothing /\ new.page = p /\ new.todo = todo
        BY <1>6, <1>7, <3>2, TodoFacts, NothingIsNone, Tuples
      <4> QED BY <3>2, <4>1, LoopTodoFacts DEF Weight, Runs
    <3>3. CASE todo # << >> /\ todo # <<"latest">>
      <4>1. old.open /\ old.kind \in Kind \ {"explorer"} /\ todo \in Todo(old.kind)
        <5>1. h \notin Polled
          BY <1>5, <3>3 DEF Polled
        <5>2. old.open /\ t.todo \notin LoopTodo
          BY <1>5, <5>1
        <5>3. old.kind # "explorer"
          BY <1>1, <5>2 DEF PageTask, Todo
        <5> QED BY <1>2, <1>5, <3>3, <5>2, <5>3
      <4>2. ~Includes(todo, step)
        BY <4>1, LoopTodoFacts
      <4>3. new # Nothing => new.todo = todo
        BY <1>6
      <4> QED BY <3>3, <4>2, <4>3 DEF Weight, Runs
    <3> QED BY <3>1, <3>2, <3>3
  <2>4. pg.timers[step] = old.timers[step] + (IF step = h THEN 1 ELSE 0)
    BY DEF h
  <2>5. step = h => ~(todo = <<"latest">> /\ step = "latest")
    BY <1>5
  <2>6. old.timers[step] \in Nat
    BY <1>1 DEF PageRecord
  <2>7. pg.timers[step] + Weight(new, p, step) = old.timers[step] + Weight(task[i], p, step)
    BY <2>2, <2>3, <2>4, <2>5, <2>6
  <2> HIDE DEF old, p, t
  <2>8. pg.emitted = old.emitted /\ pg.open = old.open /\ pg.busy = old.busy
    BY DEF old, p, t
  <2> QED BY <1>1, <1>7, <2>7, <2>8, LoopsKept
<1>11. ShowFits(after, p, pg, url)
  <2> SUFFICES ASSUME Clean(pg) PROVE ShowFits(after, p, pg, url)
    BY DEF ShowFits
  <2>1. Clean(old) /\ old.open
    BY DEF Clean
  <2>2. i \in OwnTasks(task, p)
    BY DEF OwnTasks
  <2>3. /\ OwnTasks(task, p) = {i} /\ TaskAdds(t, old, url)
        /\ pg.list = [k \in DOMAIN old.list |-> [item |-> ItemOf(old, url), n |-> k]]
        /\ pg.kind \in {"block", "transaction"} =>
             old.error \/ old.item = url.item \/ h = pg.kind
    BY <1>1, <2>1, <2>2 DEF ShowFits, h
  <2>4. pg.list = << >>
    BY <2>3 DEF TaskAdds, h
  <2>5. OwnTasks(after, p) = IF new = Nothing THEN {} ELSE {i}
    <3>1. OwnTasks(task, p) \subseteq {i} /\ (new = Nothing \/ new.page = p)
      BY <1>8, <2>3
    <3>2. task \in Tasks /\ after \in Tasks /\ after[i] = new
          /\ \A j \in TaskId : j # i => after[j] = task[j]
      BY <1>1, <1>7, TasksType
    <3> HIDE DEF t, p, after
    <3> QED BY <3>1, <3>2, OwnFacts
  <2>6. pg.list = [k \in DOMAIN pg.list |-> [item |-> ItemOf(pg, url), n |-> k]]
    BY <2>4
  <2>7. pg.kind \in {"block", "transaction"} => pg.error \/ pg.item = url.item
    <3>1. CASE h \in {"block", "transaction"}
      BY <2>3, <3>1 DEF h, TaskAdds
    <3>2. CASE h \notin {"block", "transaction"}
      BY <2>3, <3>2 DEF h
    <3> QED BY <3>1, <3>2
  <2>8. LinkFits(pg, ItemOf(pg, url))
    BY <2>4 DEF LinkFits
  <2>9. CASE new = Nothing
    BY <2>5, <2>6, <2>7, <2>8, <2>9, ShowNone
  <2>10. CASE new # Nothing
    <3>1. after[i] = new
      BY <1>1, <1>7 DEF Tasks
    <3>2. /\ new.todo = todo /\ new.item = t.item /\ todo # << >> /\ new.body = FALSE
          /\ new.of = IF Head(todo) = "list" THEN FirstPart(pg, t.item) ELSE t.item
      BY <1>6, <2>10
    <3>3. Head(todo) \notin {"block", "transaction", "balance"}
      BY <1>5, <3>2, TodoFacts
    <3>4. ASSUME Head(todo) = "list"
          PROVE  new.of = [item |-> ItemOf(pg, url), n |-> Len(pg.list) + 1]
      <4>1. new.of = [item |-> IF pg.kind = "block" THEN pg.item ELSE t.item, n |-> 1]
        BY <1>4, <3>2, <3>4, FirstPartFacts
      <4>2. todo = <<"list">> /\ (h = "last" \/ h = "balance")
        BY <1>5, <3>2, <3>4, TodoFacts
      <4>3. CASE h = "balance"
        <5>1. t.item = url.item
          BY <2>3, <4>3 DEF TaskAdds, h
        <5> QED BY <2>4, <4>1, <5>1 DEF ItemOf
      <4>4. CASE h = "last"
        <5>1. pg.kind = "block"
          BY <1>1, <1>2, <2>1, <4>4, PageTodoFacts, TodoFacts DEF h, LoopTodo
        <5> QED BY <2>4, <4>1, <5>1 DEF ItemOf
      <4> QED BY <4>2, <4>3, <4>4
    <3>5. TaskAdds(new, pg, url)
      BY <2>4, <2>8, <3>2, <3>3, <3>4 DEF TaskAdds
    <3>6. OwnTasks(after, p) = {i}
      BY <2>5, <2>10
    <3> HIDE DEF after, t, p
    <3> QED BY <2>6, <2>7, <3>1, <3>5, <3>6, ShowOne
  <2> QED BY <2>9, <2>10
<1>12. Fits(task, page, url, opened)
  BY DEF Inv
<1>13. new = Nothing \/ (new.page = p /\ p <= opened /\ PageTask(new, pg))
  BY <1>1, <1>8
<1>14. pg.open = page[p].open /\ pg.kind = page[p].kind /\ t.page \in {p, Services}
  OBVIOUS
<1>15. Fits(after, [page EXCEPT ![p] = pg], url, opened)
  <2> HIDE DEF t, p, old
  <2>1. \A step \in Polled : LoopFits(pg, LoopsOf([task EXCEPT ![i] = new], pg, p, step))
    BY <1>10
  <2>2. ShowFits([task EXCEPT ![i] = new], p, pg, url)
    BY <1>11
  <2>3. task[i] = Nothing \/ task[i].page \in {p, Services}
    BY <1>14 DEF t
  <2> HIDE DEF after
  <2> QED BY <1>1, <1>7, <1>9, <1>12, <1>13, <1>14, <2>1, <2>2, <2>3, LocalStep DEF after
<1> QED BY <1>3, <1>15

(* A request to the indexer is answered.                                   *)
LEMMA AnswerFits ==
  ASSUME Inv, NEW i \in TaskId, Answer(i)
  PROVE  Fits(task', page', url', opened')
<1> DEFINE t == task[i]
           p == t.page
           pg == page[p]
           h == Head(t.todo)
<1>1. /\ t # Nothing /\ p # Services /\ t.from # Nothing /\ url' = url /\ opened' = opened
  BY DEF Answer
<1>2. /\ t \in Task /\ p \in PageId /\ p <= opened /\ opened \in 0..MaxPages
      /\ pg \in PageRecord /\ PageTask(t, pg)
      /\ PageFits(p, pg, url, opened)
      /\ \A step \in Polled : LoopFits(pg, LoopsOf(task, pg, p, step))
      /\ ShowFits(task, p, pg, url)
      /\ task \in Tasks /\ page \in [PageId -> PageRecord]
  BY <1>1, TaskFacts
<1>3. pg.open => pg.kind \in Kind
  BY <1>2 DEF PageFits
<1>4. Fits(task, page, url, opened)
  BY DEF Inv
<1>5. /\ t.from \in Chain /\ t.body \in BOOLEAN
      /\ h # "list" => t.of \in Item \cup {Nothing}
      /\ h = "list" => t.of \in Part
  BY <1>1, <1>2 DEF Task, PageTask
<1>6. CASE h # "list"
  <2> DEFINE new == Answered(pg, h, t)
  <2>1. Continue(i, new)
    BY <1>6 DEF Answer
  <2>2. h \in Polled /\ pg.open => pg.kind = "explorer"
    BY <1>2, <1>3, <1>6, TailFacts
  <2>3. h \notin Polled => pg.open
    BY <1>2, <1>3, <1>6, TailFacts
  <2>4. Polled = {"info", "latest"}
    BY DEF Polled
  <2>5. /\ new \in PageRecord
        /\ new.open = pg.open /\ new.kind = pg.kind /\ new.list = pg.list /\ new.link = pg.link
        /\ new.emitted = pg.emitted /\ new.busy = pg.busy /\ new.disturbed = pg.disturbed
        /\ \A step \in Polled : new.timers[step] = pg.timers[step] + (IF step = h THEN 1 ELSE 0)
        /\ h \in {"block", "transaction"} => new.item = t.of
        /\ h \notin {"block", "transaction"} => new.error = pg.error /\ new.item = pg.item
    <3> DEFINE mid == IF ~pg.open THEN pg
                      ELSE IF h = "latest" THEN [pg EXCEPT !.chain = t.from]
                      ELSE IF h \in {"block", "transaction"} THEN [pg EXCEPT !.item = t.of, !.error = FALSE]
                      ELSE pg
    <3>1. /\ mid \in PageRecord
          /\ mid.open = pg.open /\ mid.kind = pg.kind /\ mid.list = pg.list /\ mid.link = pg.link
          /\ mid.emitted = pg.emitted /\ mid.busy = pg.busy /\ mid.disturbed = pg.disturbed
          /\ mid.timers = pg.timers
          /\ h \notin {"block", "transaction"} => mid.error = pg.error /\ mid.item = pg.item
      <4>1. CASE ~pg.open
        BY <1>2, <4>1
      <4>2. CASE pg.open /\ h = "latest"
        BY <1>2, <1>5, <4>2 DEF PageRecord
      <4>3. CASE pg.open /\ h \in {"block", "transaction"}
        <5>1. t.of \in Item \cup {Nothing}
          BY <1>5, <1>6
        <5> QED BY <1>2, <4>3, <5>1 DEF PageRecord
      <4>4. CASE pg.open /\ h # "latest" /\ h \notin {"block", "transaction"}
        BY <1>2, <4>4
      <4> QED BY <4>1, <4>2, <4>3, <4>4
    <3>2. h \in {"block", "transaction"} => mid.item = t.of
      BY <1>2, <2>3, <2>4 DEF PageRecord
    <3>3. new = Rearm(mid, h, FALSE)
      BY DEF Answered
    <3> HIDE DEF mid, new
    <3>4. CASE h \in Polled
      <4> DEFINE timers == [mid.timers EXCEPT ![h] = @ + 1]
      <4>1. new = [mid EXCEPT !.timers = timers]
        BY <3>3, <3>4 DEF Rearm
      <4>2. mid.timers \in [Polled -> Nat]
        BY <3>1 DEF PageRecord
      <4>3. /\ timers \in [Polled -> Nat]
            /\ \A step \in Polled : timers[step] = mid.timers[step] + (IF step = h THEN 1 ELSE 0)
        BY <3>4, <4>2
      <4> HIDE DEF timers
      <4>4. /\ new \in PageRecord /\ new.timers = timers
            /\ new.open = mid.open /\ new.kind = mid.kind /\ new.list = mid.list
            /\ new.link = mid.link /\ new.emitted = mid.emitted /\ new.busy = mid.busy
            /\ new.disturbed = mid.disturbed /\ new.error = mid.error /\ new.item = mid.item
        BY <3>1, <4>1, <4>3 DEF PageRecord
      <4> QED BY <3>1, <3>2, <4>3, <4>4
    <3>5. CASE h \notin Polled
      <4>1. new = mid
        BY <3>3, <3>5 DEF Rearm
      <4>2. \A step \in Polled : mid.timers[step] \in Nat /\ step # h
        BY <3>1, <3>5 DEF PageRecord
      <4> QED BY <3>1, <3>2, <4>1, <4>2
    <3> QED BY <3>4, <3>5
  <2> HIDE DEF new
  <2> QED BY <1>1, <1>6, <2>1, <2>5, ContinueFits
<1>7. CASE h = "list"
  <2>1. pg.open /\ t.todo = <<"list">> /\ pg.kind \in ListKind
    BY <1>2, <1>3, <1>7, PageTodoFacts, TodoFacts DEF LoopTodo
  <2>2. p = opened /\ pg.kind # "explorer"
    BY <1>2, <2>1 DEF PageFits, ListKind
  <2>3. \A step \in Polled : ~Includes(t.todo, step)
    BY <2>1, LoopTodoFacts
  <2>4. i \in OwnTasks(task, p)
    BY <1>1 DEF OwnTasks
  <2>5. ASSUME Clean(pg)
        PROVE  /\ OwnTasks(task, p) = {i} /\ TaskAdds(t, pg, url)
               /\ pg.list = [k \in DOMAIN pg.list |-> [item |-> ItemOf(pg, url), n |-> k]]
               /\ pg.kind \in {"block", "transaction"} => pg.error \/ pg.item = url.item
    <3>1. /\ OwnTasks(task, p) = {i} /\ TaskAdds(t, pg, url)
          /\ pg.list = [k \in DOMAIN pg.list |-> [item |-> ItemOf(pg, url), n |-> k]]
          /\ pg.kind \in {"block", "transaction"} =>
               pg.error \/ pg.item = url.item \/ h = pg.kind
      BY <1>2, <2>4, <2>5 DEF ShowFits
    <3> QED BY <1>7, <3>1
  <2>6. CASE ~t.body
    <3> DEFINE new == [t EXCEPT !.body = TRUE]
               pg2 == Linked(pg, t.of)
    <3>1. page' = [page EXCEPT ![p] = pg2] /\ task' = [task EXCEPT ![i].body = TRUE]
      BY <1>7, <2>6 DEF Answer
    <3>2. task' = [task EXCEPT ![i] = new]
      BY <3>1
    <3>3. /\ new \in Task /\ new # Nothing /\ new.page = p /\ new.todo = t.todo /\ new.body
          /\ new.of = t.of /\ new.item = t.item
      BY <1>2, NothingIsNone DEF Task
    <3>4. /\ pg2 \in PageRecord
          /\ pg2.link = LinkAfter(t.of.item, t.of.n)
          /\ pg2.open = pg.open /\ pg2.kind = pg.kind /\ pg2.list = pg.list
          /\ pg2.timers = pg.timers /\ pg2.item = pg.item /\ pg2.error = pg.error
          /\ pg2.emitted = pg.emitted /\ pg2.busy = pg.busy /\ pg2.disturbed = pg.disturbed
      BY <1>2, <1>5, <1>7, NextPartFacts DEF Linked, PageRecord
    <3> HIDE DEF new, pg2
    <3>5. PageTask(new, pg2)
      BY <1>2, <3>3, <3>4 DEF PageTask
    <3>6. PageFits(p, pg2, url, opened)
      BY <1>2, <2>1, <2>2, <3>4 DEF PageFits, PageId
    <3>7. ASSUME NEW step \in Polled
          PROVE  LoopFits(pg2, LoopsOf([task EXCEPT ![i] = new], pg2, p, step))
      <4>1. Weight(task[i], p, step) = 0 /\ Weight(new, p, step) = 0
        BY <2>3, <3>3 DEF Weight, Runs
      <4>2. pg2.timers[step] + Weight(new, p, step) = pg.timers[step] + Weight(task[i], p, step)
        BY <3>4, <4>1
      <4>3. pg \in PageRecord /\ LoopFits(pg, LoopsOf(task, pg, p, step)) /\ new \in Task \cup {Nothing}
        BY <1>2, <3>3
      <4> HIDE DEF pg, p, t
      <4> QED BY <1>2, <3>4, <4>2, <4>3, LoopsKept
    <3>8. ShowFits([task EXCEPT ![i] = new], p, pg2, url)
      <4> SUFFICES ASSUME Clean(pg2) PROVE ShowFits([task EXCEPT ![i] = new], p, pg2, url)
        BY DEF ShowFits
      <4>1. Clean(pg)
        BY <3>4 DEF Clean
      <4>2. ItemOf(pg2, url) = ItemOf(pg, url)
        BY <3>4 DEF ItemOf
      <4>3. t.of = [item |-> ItemOf(pg, url), n |-> Len(pg.list) + 1]
        BY <1>7, <2>5, <4>1 DEF TaskAdds
      <4>4. TaskAdds(new, pg2, url)
        BY <1>7, <3>3, <3>4, <4>2, <4>3 DEF TaskAdds
      <4> DEFINE after == [task EXCEPT ![i] = new]
      <4>5. after[i] = new /\ OwnTasks(after, p) = {i}
        <5>1. task \in Tasks /\ after \in Tasks /\ after[i] = new
              /\ \A j \in TaskId : j # i => after[j] = task[j]
          BY <1>2, <3>3, TasksType
        <5>2. OwnTasks(task, p) \subseteq {i} /\ new # Nothing /\ new.page = p
          BY <2>5, <3>3, <4>1
        <5> HIDE DEF t, p, after
        <5> QED BY <5>1, <5>2, OwnFacts
      <4>6. pg2.list = [k \in DOMAIN pg2.list |-> [item |-> ItemOf(pg2, url), n |-> k]]
        BY <2>5, <3>4, <4>1, <4>2
      <4>7. pg2.kind \in {"block", "transaction"} => pg2.error \/ pg2.item = url.item
        BY <2>5, <3>4, <4>1
      <4>8. OwnTasks(after, p) = {i} /\ TaskAdds(after[i], pg2, url)
        BY <4>4, <4>5
      <4> HIDE DEF t, p, after
      <4>9. ShowFits(after, p, pg2, url)
        BY <4>6, <4>7, <4>8, ShowOne
      <4> QED BY <4>9 DEF after
    <3>9. task[i].page \in {p, Services} /\ new \in Task \cup {Nothing}
          /\ (new = Nothing \/ (new.page = p /\ p <= opened /\ PageTask(new, pg2)))
          /\ pg2.open = page[p].open /\ pg2.kind = page[p].kind
      BY <1>2, <3>3, <3>4, <3>5
    <3>10. p \in PageId /\ pg2 \in PageRecord
      BY <1>2, <3>4
    <3> HIDE DEF t, p, pg
    <3>11. Fits([task EXCEPT ![i] = new], [page EXCEPT ![p] = pg2], url, opened)
      BY <1>4, <3>6, <3>7, <3>8, <3>9, <3>10, LocalStep
    <3> QED BY <1>1, <3>1, <3>2, <3>11
  <2>7. CASE t.body
    <3> DEFINE pg2 == Listed(pg, t.of)
    <3>1. Continue(i, pg2)
      BY <1>7, <2>7 DEF Answer
    <3>2. At(p, pg2, Tail(t.todo), t.item) = Nothing
      BY <2>1, TodoFacts DEF At
    <3>3. page' = [page EXCEPT ![p] = pg2] /\ task' = [task EXCEPT ![i] = Nothing]
      BY <3>1, <3>2 DEF Continue
    <3>4. /\ pg2 \in PageRecord
          /\ pg2.list = Append(pg.list, t.of) /\ pg2.link = pg.link
          /\ pg2.open = pg.open /\ pg2.kind = pg.kind
          /\ pg2.timers = pg.timers /\ pg2.item = pg.item /\ pg2.error = pg.error
          /\ pg2.emitted = pg.emitted /\ pg2.busy = pg.busy /\ pg2.disturbed = pg.disturbed
      <4>1. pg.list \in Seq(Part) /\ Append(pg.list, t.of) \in Seq(Part)
        BY <1>2, <1>5, <1>7 DEF PageRecord
      <4>2. pg2 = [pg EXCEPT !.list = Append(pg.list, t.of)]
        BY DEF Listed
      <4> HIDE DEF pg2
      <4> QED BY <1>2, <4>1, <4>2 DEF PageRecord
    <3> HIDE DEF pg2
    <3>6. PageFits(p, pg2, url, opened)
      BY <1>2, <2>1, <2>2, <3>4 DEF PageFits, PageId
    <3>7. ASSUME NEW step \in Polled
          PROVE  LoopFits(pg2, LoopsOf([task EXCEPT ![i] = Nothing], pg2, p, step))
      <4>1. Weight(task[i], p, step) = 0 /\ Weight(Nothing, p, step) = 0
        BY <2>3 DEF Weight, Runs
      <4>2. pg2.timers[step] + Weight(Nothing, p, step) = pg.timers[step] + Weight(task[i], p, step)
        BY <3>4, <4>1
      <4>3. pg \in PageRecord /\ LoopFits(pg, LoopsOf(task, pg, p, step)) /\ Nothing \in Task \cup {Nothing}
        BY <1>2
      <4> HIDE DEF pg, p, t
      <4> QED BY <1>2, <3>4, <4>2, <4>3, LoopsKept
    <3>8. ShowFits([task EXCEPT ![i] = Nothing], p, pg2, url)
      <4> SUFFICES ASSUME Clean(pg2) PROVE ShowFits([task EXCEPT ![i] = Nothing], p, pg2, url)
        BY DEF ShowFits
      <4>1. Clean(pg)
        BY <3>4 DEF Clean
      <4>2. ItemOf(pg2, url) = ItemOf(pg, url)
        BY <3>4 DEF ItemOf
      <4>3. /\ t.of = [item |-> ItemOf(pg, url), n |-> Len(pg.list) + 1]
            /\ pg.link = LinkAfter(ItemOf(pg, url), Len(pg.list) + 1)
        BY <1>7, <2>5, <2>7, <4>1 DEF TaskAdds
      <4>4. /\ pg.list \in Seq(Part) /\ t.of \in Part
            /\ Len(pg2.list) = Len(pg.list) + 1 /\ pg2.list \in Seq(Part)
        BY <1>2, <1>5, <1>7, <3>4 DEF PageRecord
      <4>5. LinkFits(pg2, ItemOf(pg2, url))
        BY <3>4, <4>2, <4>3, <4>4 DEF LinkFits
      <4>6. pg2.list = [k \in DOMAIN pg2.list |-> [item |-> ItemOf(pg2, url), n |-> k]]
        <5>1. \A k \in 1..Len(pg.list) : pg.list[k] = [item |-> ItemOf(pg, url), n |-> k]
          <6>1. pg.list = [k \in DOMAIN pg.list |-> [item |-> ItemOf(pg, url), n |-> k]]
            BY <2>5, <4>1
          <6>2. DOMAIN pg.list = 1..Len(pg.list)
            BY <4>4
          <6> QED BY <6>1, <6>2
        <5>2. \A k \in 1..Len(pg2.list) : pg2.list[k] = [item |-> ItemOf(pg2, url), n |-> k]
          <6> SUFFICES ASSUME NEW k \in 1..Len(pg2.list)
                       PROVE  pg2.list[k] = [item |-> ItemOf(pg2, url), n |-> k]
            OBVIOUS
          <6>1. Len(pg.list) \in Nat
            BY <4>4
          <6>2. CASE k = Len(pg.list) + 1
            <7>1. Append(pg.list, t.of)[Len(pg.list) + 1] = t.of
              <8>1. pg.list \in Seq(Part) /\ t.of \in Part
                BY <4>4
              <8> HIDE DEF pg, t
              <8> QED BY <8>1, AppendFacts, Zenon
            <7>2. pg2.list[k] = t.of
              BY <3>4, <6>2, <7>1
            <7> QED BY <4>2, <4>3, <6>2, <7>2
          <6>3. CASE k # Len(pg.list) + 1
            <7>1. k \in 1..Len(pg.list)
              BY <4>4, <6>1, <6>3
            <7>2. pg2.list[k] = pg.list[k]
              BY <3>4, <4>4, <7>1
            <7> QED BY <4>2, <5>1, <7>1, <7>2
          <6> QED BY <6>2, <6>3
        <5>3. DOMAIN pg2.list = 1..Len(pg2.list) /\ pg2.list = [k \in DOMAIN pg2.list |-> pg2.list[k]]
          BY <4>4
        <5> QED BY <5>2, <5>3
      <4> DEFINE after == [task EXCEPT ![i] = Nothing]
      <4>7. OwnTasks(after, p) = {}
        <5>1. task \in Tasks /\ after \in Tasks /\ after[i] = Nothing
              /\ \A j \in TaskId : j # i => after[j] = task[j]
          BY <1>2, TasksType
        <5>2. OwnTasks(task, p) \subseteq {i}
          BY <2>5, <4>1
        <5> HIDE DEF t, p, after
        <5> QED BY <5>1, <5>2, OwnFacts
      <4>8. pg2.kind \in {"block", "transaction"} => pg2.error \/ pg2.item = url.item
        BY <2>5, <3>4, <4>1
      <4> HIDE DEF t, p
      <4> QED BY <4>5, <4>6, <4>7, <4>8, ShowNone
    <3>9. task[i].page \in {p, Services} /\ Nothing \in Task \cup {Nothing}
          /\ pg2.open = page[p].open /\ pg2.kind = page[p].kind
      BY <1>2, <3>4
    <3> HIDE DEF t, p, pg
    <3> QED BY <1>1, <1>2, <1>4, <3>3, <3>4, <3>6, <3>7, <3>8, <3>9, LocalStep
  <2> QED BY <1>5, <2>6, <2>7
<1> QED BY <1>6, <1>7

(* A request fails.                                                        *)
LEMMA FailFits ==
  ASSUME Inv, NEW i \in TaskId, Fail(i)
  PROVE  Fits(task', page', url', opened')
<1> DEFINE t == task[i]
           p == t.page
           pg == page[p]
           h == Head(t.todo)
<1>1. /\ t # Nothing /\ p # Services /\ url' = url /\ opened' = opened
  BY DEF Fail
<1>2. /\ t \in Task /\ p \in PageId /\ p <= opened /\ opened \in 0..MaxPages
      /\ pg \in PageRecord /\ PageTask(t, pg)
      /\ PageFits(p, pg, url, opened)
      /\ \A step \in Polled : LoopFits(pg, LoopsOf(task, pg, p, step))
      /\ ShowFits(task, p, pg, url)
      /\ task \in Tasks /\ page \in [PageId -> PageRecord]
  BY <1>1, TaskFacts
<1>3. pg.open => pg.kind \in Kind
  BY <1>2 DEF PageFits
<1>4. Fits(task, page, url, opened)
  BY DEF Inv
<1>5. Polled = {"info", "latest"}
  BY DEF Polled
<1>6. CASE h \in Caught
  <2> DEFINE new == Failed(pg, h)
             mid == [pg EXCEPT !.error = @ \/ h \in {"block", "transaction"}]
  <2>1. Continue(i, new) /\ h # "list"
    BY <1>6 DEF Fail, Caught
  <2>2. new = Rearm(mid, h, TRUE)
    BY DEF Failed
  <2>3. /\ mid \in PageRecord
        /\ mid.open = pg.open /\ mid.kind = pg.kind /\ mid.list = pg.list /\ mid.link = pg.link
        /\ mid.emitted = pg.emitted /\ mid.busy = pg.busy /\ mid.disturbed = pg.disturbed
        /\ mid.timers = pg.timers /\ mid.item = pg.item
        /\ h \notin {"block", "transaction"} => mid.error = pg.error
        /\ h \in {"block", "transaction"} => mid.error
    <3>1. (pg.error \/ h \in {"block", "transaction"}) \in BOOLEAN
      OBVIOUS
    <3>2. pg.error \in BOOLEAN
      BY <1>2 DEF PageRecord
    <3>3. h \notin {"block", "transaction"} => (pg.error \/ h \in {"block", "transaction"}) = pg.error
      BY <3>2
    <3> HIDE DEF h
    <3> QED BY <1>2, <3>1, <3>3 DEF PageRecord
  <2> HIDE DEF mid, new
  <2>4. /\ new \in PageRecord
        /\ new.open = pg.open /\ new.kind = pg.kind /\ new.list = pg.list /\ new.link = pg.link
        /\ new.emitted = pg.emitted /\ new.busy = pg.busy /\ new.disturbed = pg.disturbed
        /\ \A step \in Polled : new.timers[step] = pg.timers[step] + (IF step = h THEN 1 ELSE 0)
        /\ h \in {"block", "transaction"} => new.error
        /\ h \notin {"block", "transaction"} => new.error = pg.error /\ new.item = pg.item
    <3>1. CASE h \in Polled
      <4> DEFINE timers == [mid.timers EXCEPT ![h] = @ + 1]
      <4>1. new = [mid EXCEPT !.timers = timers]
        BY <2>2, <3>1 DEF Rearm
      <4>2. mid.timers \in [Polled -> Nat]
        BY <2>3 DEF PageRecord
      <4>3. /\ timers \in [Polled -> Nat]
            /\ \A step \in Polled : timers[step] = mid.timers[step] + (IF step = h THEN 1 ELSE 0)
        BY <3>1, <4>2
      <4> HIDE DEF timers
      <4>4. /\ new \in PageRecord /\ new.timers = timers
            /\ new.open = mid.open /\ new.kind = mid.kind /\ new.list = mid.list
            /\ new.link = mid.link /\ new.emitted = mid.emitted /\ new.busy = mid.busy
            /\ new.disturbed = mid.disturbed /\ new.error = mid.error /\ new.item = mid.item
        BY <2>3, <4>1, <4>3 DEF PageRecord
      <4> QED BY <1>5, <2>3, <3>1, <4>3, <4>4
    <3>2. CASE h \notin Polled
      <4>1. new = mid
        BY <2>2, <3>2 DEF Rearm
      <4>2. \A step \in Polled : mid.timers[step] \in Nat /\ step # h
        BY <2>3, <3>2 DEF PageRecord
      <4> QED BY <2>3, <4>1, <4>2
    <3> QED BY <3>1, <3>2
  <2> QED BY <1>1, <2>1, <2>4, ContinueFits
<1>7. CASE h \notin Caught
  <2> DEFINE pg2 == [pg EXCEPT !.disturbed = @ \/ t.body]
             after == [task EXCEPT ![i] = Nothing]
  <2>1. task' = after /\ page' = [page EXCEPT ![p] = pg2]
    BY <1>2, <1>7 DEF Fail
  <2>2. t.body \in BOOLEAN /\ pg.disturbed \in BOOLEAN
    BY <1>2 DEF Task, PageRecord
  <2>3. /\ pg2 \in PageRecord
        /\ pg2.open = pg.open /\ pg2.kind = pg.kind /\ pg2.list = pg.list /\ pg2.link = pg.link
        /\ pg2.timers = pg.timers /\ pg2.item = pg.item /\ pg2.error = pg.error
        /\ pg2.emitted = pg.emitted /\ pg2.busy = pg.busy
        /\ ~pg2.disturbed => ~pg.disturbed /\ ~t.body
    BY <1>2, <2>2 DEF PageRecord
  <2> HIDE DEF pg2
  <2>4. pg.open /\ pg.kind # "explorer" /\ h \notin {"block", "transaction"}
        /\ \A step \in Polled : ~Includes(t.todo, step)
    <3>1. t.todo \notin LoopTodo
      BY <1>5, <1>7, TodoFacts DEF LoopTodo, Caught
    <3>2. pg.open /\ pg.kind \in Kind \ {"explorer"} /\ t.todo \in Todo(pg.kind)
      BY <1>2, <1>3, <3>1 DEF PageTask, Todo
    <3> QED BY <1>7, <3>2, LoopTodoFacts DEF Caught
  <2>5. PageFits(p, pg2, url, opened)
    <3>1. p = opened /\ ~(p > opened)
      BY <1>2, <2>4 DEF PageFits, PageId
    <3> QED BY <1>2, <2>3, <3>1 DEF PageFits
  <2>6. task \in Tasks /\ after \in Tasks /\ after[i] = Nothing
        /\ \A j \in TaskId : j # i => after[j] = task[j]
    BY <1>2, TasksType
  <2>7. ASSUME NEW step \in Polled PROVE LoopFits(pg2, LoopsOf(after, pg2, p, step))
    <3>1. Weight(task[i], p, step) = 0 /\ Weight(Nothing, p, step) = 0
      BY <2>4 DEF Weight, Runs
    <3>2. pg2.timers[step] + Weight(Nothing, p, step) = pg.timers[step] + Weight(task[i], p, step)
      BY <2>3, <3>1
    <3>3. pg \in PageRecord /\ LoopFits(pg, LoopsOf(task, pg, p, step)) /\ Nothing \in Task \cup {Nothing}
      BY <1>2
    <3> HIDE DEF pg, p, t
    <3> QED BY <1>2, <2>3, <3>2, <3>3, LoopsKept
  <2>8. ShowFits(after, p, pg2, url)
    <3> SUFFICES ASSUME Clean(pg2) PROVE ShowFits(after, p, pg2, url)
      BY DEF ShowFits
    <3>1. Clean(pg) /\ ~t.body
      BY <2>3 DEF Clean
    <3>2. i \in OwnTasks(task, p)
      BY <1>1 DEF OwnTasks
    <3>3. /\ OwnTasks(task, p) = {i} /\ TaskAdds(t, pg, url)
          /\ pg.list = [k \in DOMAIN pg.list |-> [item |-> ItemOf(pg, url), n |-> k]]
          /\ pg.kind \in {"block", "transaction"} =>
               pg.error \/ pg.item = url.item \/ h = pg.kind
      BY <1>2, <3>1, <3>2 DEF ShowFits
    <3>4. ItemOf(pg2, url) = ItemOf(pg, url)
      BY <2>3 DEF ItemOf
    <3>5. LinkFits(pg2, ItemOf(pg2, url))
      BY <2>3, <3>1, <3>3, <3>4 DEF TaskAdds, LinkFits
    <3>6. OwnTasks(after, p) = {}
      <4>1. OwnTasks(task, p) \subseteq {i}
        BY <3>3
      <4> HIDE DEF t, p, after
      <4> QED BY <2>6, <4>1, OwnFacts
    <3>7. pg2.list = [k \in DOMAIN pg2.list |-> [item |-> ItemOf(pg2, url), n |-> k]]
      BY <2>3, <3>3, <3>4
    <3>8. pg2.kind \in {"block", "transaction"} => pg2.error \/ pg2.item = url.item
      BY <2>3, <2>4, <3>3
    <3> HIDE DEF t, p, after
    <3> QED BY <3>5, <3>6, <3>7, <3>8, ShowNone
  <2>9. p \in PageId /\ task[i].page \in {p, Services} /\ Nothing \in Task \cup {Nothing}
        /\ pg2.open = page[p].open /\ pg2.kind = page[p].kind
    BY <1>2, <2>3
  <2> HIDE DEF t, p, pg
  <2>10. Fits(after, [page EXCEPT ![p] = pg2], url, opened)
    BY <1>4, <2>3, <2>5, <2>7, <2>8, <2>9, LocalStep
  <2> QED BY <1>1, <2>1, <2>10
<1> QED BY <1>6, <1>7

-----------------------------------------------------------------------------
(* Tasks that start                                                        *)

(* A page starts a task.                                                   *)
LEMMA StartFits ==
  ASSUME NEW tasks, NEW pages, NEW u, NEW u2, NEW n, Fits(tasks, pages, u, n),
         Free(tasks) # {},
         NEW p \in PageId, p <= n, NEW pg \in PageRecord,
         NEW new \in Task, new.page = p, PageTask(new, pg),
         pg.open = pages[p].open, pg.kind = pages[p].kind,
         u2 = u \/ pg.open,
         PageFits(p, pg, u2, n),
         \A step \in Polled : LoopFits(pg, pg.timers[step]
           + (Cardinality(LoopTasks(tasks, p, step)) + Weight(new, p, step))),
         Clean(pg) =>
           /\ OwnTasks(tasks, p) = {}
           /\ pg.list = [k \in DOMAIN pg.list |-> [item |-> ItemOf(pg, u2), n |-> k]]
           /\ TaskAdds(new, pg, u2)
           /\ pg.kind \in {"block", "transaction"} =>
                pg.error \/ pg.item = u2.item \/ Head(new.todo) = pg.kind
  PROVE  Fits(Started(tasks, new), [pages EXCEPT ![p] = pg], u2, n)
<1>1. tasks \in Tasks
  BY DEF Fits, Tasks
<1>2. PICK i \in TaskId : tasks[i] = Nothing /\ Started(tasks, new) = [tasks EXCEPT ![i] = new]
  BY <1>1, StartedFacts
<1> DEFINE after == [tasks EXCEPT ![i] = new]
<1>3. after \in Tasks /\ after[i] = new /\ new # Nothing
      /\ \A j \in TaskId : j # i => after[j] = tasks[j]
  BY <1>1, TasksType, NothingIsNone
<1>4. ASSUME NEW step \in Polled PROVE LoopFits(pg, LoopsOf(after, pg, p, step))
  <2>1. Weight(tasks[i], p, step) = 0
    BY <1>2 DEF Weight, Runs
  <2>2. /\ Cardinality(LoopTasks(after, p, step)) + Weight(tasks[i], p, step)
             = Cardinality(LoopTasks(tasks, p, step)) + Weight(new, p, step)
        /\ Cardinality(LoopTasks(after, p, step)) \in Nat
    BY <1>1, CountReplaced
  <2>3. Cardinality(LoopTasks(after, p, step)) = Cardinality(LoopTasks(tasks, p, step)) + Weight(new, p, step)
    <3> HIDE DEF after
    <3> QED BY <2>1, <2>2
  <2> QED BY <2>3 DEF LoopsOf
<1>5. ShowFits(after, p, pg, u2)
  <2> SUFFICES ASSUME Clean(pg) PROVE ShowFits(after, p, pg, u2)
    BY DEF ShowFits
  <2> HIDE DEF after
  <2>1. OwnTasks(after, p) = {i}
    <3>1. OwnTasks(tasks, p) \subseteq {i}
      OBVIOUS
    <3> QED BY <1>1, <1>3, <3>1, OwnFacts
  <2>2. TaskAdds(after[i], pg, u2) /\ (pg.kind \in {"block", "transaction"} =>
          pg.error \/ pg.item = u2.item \/ Head(after[i].todo) = pg.kind)
    BY <1>3
  <2> QED BY <2>1, <2>2, ShowOne
<1>6. Fits(after, [pages EXCEPT ![p] = pg], u2, n)
  BY <1>2, <1>4, <1>5, LocalStep
<1> QED BY <1>2, <1>6

(* Nothing of a loop that a page starts is counted yet.                    *)
LEMMA LoopsBefore ==
  ASSUME NEW tasks, NEW pg \in PageRecord, NEW p, NEW step \in Polled,
         LoopFits(pg, LoopsOf(tasks, pg, p, step))
  PROVE  /\ LoopFits(pg, pg.timers[step] + Cardinality(LoopTasks(tasks, p, step)))
         /\ Cardinality(LoopTasks(tasks, p, step)) \in Nat /\ pg.timers[step] \in Nat
         /\ pg.emitted \in Nat
  BY LoopTasksFinite DEF LoopsOf, PageRecord

(* A timer elapses.                                                        *)
LEMMA PollFits ==
  ASSUME Inv, NEW p \in PageId, NEW step \in Polled, Poll(p, step)
  PROVE  Fits(task', page', url', opened')
<1> DEFINE pg == page[p]
           timers == [pg.timers EXCEPT ![step] = @ - 1]
           pg2 == [pg EXCEPT !.timers = timers]
           new == At(p, pg, <<step>>, Nothing)
<1>1. /\ pg.timers[step] > 0 /\ Free(task) # {} /\ url' = url /\ opened' = opened
      /\ page' = [page EXCEPT ![p] = pg2] /\ task' = Started(task, new)
  BY DEF Poll
<1>2. /\ pg \in PageRecord /\ PageFits(p, pg, url, opened) /\ opened \in 0..MaxPages
      /\ \A s \in Polled : LoopFits(pg, LoopsOf(task, pg, p, s))
      /\ setup.baseUrl \in Chain \cup {Nothing}
      /\ Fits(task, page, url, opened)
  BY DEF Inv, Fits, PagesFit, LoopsFit
<1>3. Polled = {"info", "latest"}
  BY DEF Polled
<1>4. pg.timers \in [Polled -> Nat]
  BY <1>2 DEF PageRecord
<1>5. /\ timers \in [Polled -> Nat]
      /\ \A s \in Polled : pg.timers[s] = timers[s] + (IF s = step THEN 1 ELSE 0)
  BY <1>1, <1>4
<1> HIDE DEF timers
<1>6. /\ pg2 \in PageRecord /\ pg2.timers = timers
      /\ pg2.open = pg.open /\ pg2.kind = pg.kind /\ pg2.list = pg.list
      /\ pg2.emitted = pg.emitted /\ pg2.busy = pg.busy
  BY <1>2, <1>5 DEF PageRecord
<1> HIDE DEF pg2
<1>7. p <= opened /\ ~(p > opened)
  <2>1. CASE p > opened
    <3>1. pg.timers[step] = 0
      BY <1>2, <2>1 DEF PageFits, Closed
    <3> QED BY <1>1, <3>1
  <2> QED BY <1>2, <2>1 DEF PageId
<1>8. pg.open => pg.kind = "explorer"
  <2> SUFFICES ASSUME pg.open, pg.kind # "explorer" PROVE FALSE
    OBVIOUS
  <2>1. pg.timers[step] = 0
    BY <1>2 DEF PageFits
  <2> QED BY <1>1, <2>1
<1>9. /\ <<step>> \in LoopTodo /\ Head(<<step>>) = step /\ <<step>> \in Seq(Request)
      /\ <<step>> # << >>
  <2>1. step \in Request
    BY <1>3 DEF Request
  <2>2. <<step>> \in Seq(Request) /\ Head(<<step>>) = step
    BY <2>1
  <2>3. <<step>> \in LoopTodo
    BY <1>3 DEF LoopTodo
  <2> QED BY <2>2, <2>3
<1>10. /\ new \in Task /\ new.page = p /\ new.todo = <<step>> /\ new.item = Nothing
       /\ new.of = Nothing
  <2>1. Head(<<step>>) \notin {"list", "ticker"}
    BY <1>3, <1>9
  <2>2. /\ p \in PageId \cup {Services} /\ Nothing \in Item \cup Chain \cup {Nothing}
        /\ <<step>> # << >> /\ <<step>> \in Seq(Request)
        /\ setup.baseUrl \in Chain \cup {Nothing}
    BY <1>2, <1>9
  <2> DEFINE todo == <<step>>
  <2> HIDE DEF pg, todo
  <2>3. new \in Task /\ new = [page |-> p, todo |-> todo, item |-> Nothing,
          from |-> setup.baseUrl, body |-> FALSE, of |-> Nothing]
    <3>1. todo \in Seq(Request) /\ todo # << >> /\ Head(todo) \notin {"list", "ticker"}
      BY <2>1, <2>2 DEF todo
    <3> HIDE DEF new
    <3> QED BY <2>2, <3>1, AtStarts DEF todo, new
  <2> HIDE DEF new
  <2> QED BY <2>3 DEF todo
<1> HIDE DEF new
<1>11. PageTask(new, pg2)
  <2>1. <<step>> \in (IF pg2.open THEN Todo(pg2.kind) ELSE LoopTodo)
    BY <1>6, <1>8, <1>9 DEF Todo
  <2>2. Head(new.todo) # "list"
    BY <1>3, <1>9, <1>10
  <2> QED BY <1>10, <2>1, <2>2 DEF PageTask
<1>12. PageFits(p, pg2, url, opened)
  BY <1>2, <1>6, <1>7, <1>8 DEF PageFits
<1>13. ASSUME NEW s \in Polled
       PROVE  LoopFits(pg2, pg2.timers[s] + (Cardinality(LoopTasks(task, p, s)) + Weight(new, p, s)))
  <2>1. /\ LoopFits(pg, pg.timers[s] + Cardinality(LoopTasks(task, p, s)))
        /\ Cardinality(LoopTasks(task, p, s)) \in Nat
    <3> HIDE DEF pg
    <3> QED BY <1>2, LoopsBefore
  <2>2. Weight(new, p, s) = IF s = step THEN 1 ELSE 0
    <3>1. Includes(<<step>>, s) <=> s = step
      BY <1>3, LoopTodoFacts
    <3>2. new # Nothing
      BY <1>10, NothingIsNone
    <3> QED BY <1>10, <3>1, <3>2 DEF Weight, Runs
  <2>3. timers[s] \in Nat
    BY <1>5
  <2>4. pg2.timers[s] + (Cardinality(LoopTasks(task, p, s)) + Weight(new, p, s))
          = pg.timers[s] + Cardinality(LoopTasks(task, p, s))
    BY <1>5, <1>6, <2>1, <2>2, <2>3
  <2> QED BY <1>6, <2>1, <2>4 DEF LoopFits
<1>14. ~Clean(pg2)
  BY <1>6, <1>8 DEF Clean
<1>15. pg2.open = page[p].open /\ pg2.kind = page[p].kind
  BY <1>6
<1>16. Fits(Started(task, new), [page EXCEPT ![p] = pg2], url, opened)
  BY <1>1, <1>2, <1>6, <1>7, <1>10, <1>11, <1>12, <1>13, <1>14, <1>15, StartFits
<1> QED BY <1>1, <1>16

(* The user scrolls to the bottom of a list.                               *)
LEMMA ScrollFits ==
  ASSUME Inv, NEW p \in PageId, Scroll(p)
  PROVE  Fits(task', page', url', opened')
<1> DEFINE pg == page[p]
           pg2 == Asked(pg, task, p)
           new == [page |-> p, todo |-> <<"list">>, item |-> pg.link.item, from |-> setup.baseUrl,
                   body |-> FALSE, of |-> pg.link]
<1>1. /\ pg.open /\ pg.list # << >> /\ pg.link # Nothing /\ Free(task) # {}
      /\ url' = url /\ opened' = opened
      /\ page' = [page EXCEPT ![p] = pg2] /\ task' = Started(task, new)
  BY DEF Scroll, IsReachingBottom, Move
<1>2. /\ pg \in PageRecord /\ PageFits(p, pg, url, opened) /\ opened \in 0..MaxPages
      /\ \A s \in Polled : LoopFits(pg, LoopsOf(task, pg, p, s))
      /\ ShowFits(task, p, pg, url)
      /\ setup.baseUrl \in Chain \cup {Nothing}
      /\ Fits(task, page, url, opened)
  BY DEF Inv, Fits, PagesFit, LoopsFit, ShowsFit
<1>3. p = opened /\ p <= opened /\ ~(p > opened) /\ pg.kind \in ListKind
  BY <1>1, <1>2 DEF PageFits, PageId
<1>4. pg.link \in Part /\ pg.link.item \in Item \cup {Nothing}
  <2>1. pg.link \in Part
    BY <1>1, <1>2 DEF PageRecord
  <2> QED BY <2>1 DEF Part
<1>5. /\ pg2 \in PageRecord
      /\ pg2 = [pg EXCEPT !.disturbed = pg2.disturbed]
      /\ ~pg2.disturbed => ~pg.disturbed /\ OwnTasks(task, p) = {}
  <2> HIDE DEF pg
  <2> QED BY <1>2, AskedFacts
<1>6. /\ pg2.open = pg.open /\ pg2.kind = pg.kind /\ pg2.list = pg.list /\ pg2.link = pg.link
      /\ pg2.timers = pg.timers /\ pg2.item = pg.item /\ pg2.error = pg.error
      /\ pg2.emitted = pg.emitted /\ pg2.busy = pg.busy
  <2> HIDE DEF pg2
  <2> QED BY <1>2, <1>5 DEF PageRecord
<1> HIDE DEF pg2
<1>7. new \in Task /\ Head(<<"list">>) = "list"
  BY <1>2, <1>4, Tuples, TodoFacts DEF Task
<1>8. /\ new.page = p /\ new.todo = <<"list">> /\ new.item = pg.link.item /\ new.of = pg.link
      /\ new.body = FALSE
  OBVIOUS
<1> HIDE DEF new
<1>9. PageTask(new, pg2)
  <2>1. <<"list">> \in (IF pg2.open THEN Todo(pg2.kind) ELSE LoopTodo)
    BY <1>1, <1>3, <1>6 DEF Todo, ListKind
  <2> QED BY <1>4, <1>7, <1>8, <2>1 DEF PageTask
<1>10. PageFits(p, pg2, url, opened)
  BY <1>2, <1>3, <1>6 DEF PageFits
<1>11. ASSUME NEW s \in Polled
       PROVE  LoopFits(pg2, pg2.timers[s] + (Cardinality(LoopTasks(task, p, s)) + Weight(new, p, s)))
  <2>1. /\ LoopFits(pg, pg.timers[s] + Cardinality(LoopTasks(task, p, s)))
        /\ Cardinality(LoopTasks(task, p, s)) \in Nat
    <3> HIDE DEF pg
    <3> QED BY <1>2, LoopsBefore
  <2>2. Weight(new, p, s) = 0
    BY <1>8, LoopTodoFacts DEF Weight, Runs
  <2>3. Cardinality(LoopTasks(task, p, s)) + Weight(new, p, s) = Cardinality(LoopTasks(task, p, s))
    BY <2>1, <2>2
  <2> QED BY <1>6, <2>1, <2>3 DEF LoopFits
<1>12. ASSUME Clean(pg2)
       PROVE  /\ OwnTasks(task, p) = {}
              /\ pg2.list = [k \in DOMAIN pg2.list |-> [item |-> ItemOf(pg2, url), n |-> k]]
              /\ TaskAdds(new, pg2, url)
              /\ pg2.kind \in {"block", "transaction"} =>
                   pg2.error \/ pg2.item = url.item \/ Head(new.todo) = pg2.kind
  <2>1. Clean(pg) /\ OwnTasks(task, p) = {}
    BY <1>5, <1>6, <1>12 DEF Clean
  <2>2. /\ pg.list = [k \in DOMAIN pg.list |-> [item |-> ItemOf(pg, url), n |-> k]]
        /\ LinkFits(pg, ItemOf(pg, url))
        /\ pg.kind \in {"block", "transaction"} => pg.error \/ pg.item = url.item
    BY <2>1, <1>2 DEF ShowFits
  <2>3. ItemOf(pg2, url) = ItemOf(pg, url)
    BY <1>6 DEF ItemOf
  <2>4. pg.link = LinkAfter(ItemOf(pg, url), Len(pg.list))
    BY <1>1, <2>2 DEF LinkFits
  <2>5. pg.link = [item |-> ItemOf(pg, url), n |-> Len(pg.list) + 1]
    BY <1>1, <2>4 DEF LinkAfter
  <2>6. TaskAdds(new, pg2, url)
    BY <1>6, <1>7, <1>8, <2>2, <2>3, <2>5 DEF TaskAdds, LinkFits
  <2> QED BY <1>6, <2>1, <2>2, <2>3, <2>6
<1>13. pg2.open = page[p].open /\ pg2.kind = page[p].kind
  BY <1>6
<1>14. Fits(Started(task, new), [page EXCEPT ![p] = pg2], url, opened)
  BY <1>1, <1>2, <1>3, <1>5, <1>7, <1>8, <1>9, <1>10, <1>11, <1>12, <1>13, StartFits
<1> QED BY <1>1, <1>14

(* A chain is emitted.                                                     *)
LEMMA EmitFits ==
  ASSUME NEW tasks, Fits(tasks, page, url, opened), Free(tasks) # {},
         setup'.baseUrl \in Chain \cup {Nothing}, Emit(tasks)
  PROVE  Fits(task', page', url, opened)
<1> DEFINE subscribed == {p \in OpenPages : page[p].kind \in DOMAIN OnChain}
           p == CHOOSE q \in subscribed : TRUE
           pg == page[p]
           asked == Asked(pg, tasks, p)
           pg2 == [asked EXCEPT !.emitted = @ + 1]
           todo == OnChain[pg2.kind]
           new == [page |-> p, todo |-> todo, item |-> Nothing, from |-> setup'.baseUrl,
                   body |-> FALSE, of |-> IF Head(todo) = "list" THEN FirstPart(pg2, Nothing)
                                          ELSE Nothing]
<1>1. CASE subscribed = {}
  BY <1>1 DEF Emit
<1>2. CASE subscribed # {}
  <2>1. page' = [page EXCEPT ![p] = pg2] /\ task' = Started(tasks, new)
    BY <1>2 DEF Emit
  <2>2. p \in PageId /\ pg.open /\ pg.kind \in DOMAIN OnChain
    BY <1>2 DEF OpenPages
  <2> HIDE DEF p
  <2>3. /\ pg \in PageRecord /\ PageFits(p, pg, url, opened) /\ opened \in 0..MaxPages
        /\ \A s \in Polled : LoopFits(pg, LoopsOf(tasks, pg, p, s))
        /\ ShowFits(tasks, p, pg, url)
    BY <2>2 DEF Fits, PagesFit, LoopsFit, ShowsFit
  <2>4. p = opened /\ p <= opened /\ ~(p > opened)
    BY <2>2, <2>3 DEF PageFits, PageId
  <2>5. /\ asked \in PageRecord
        /\ asked = [pg EXCEPT !.disturbed = asked.disturbed]
        /\ ~asked.disturbed => ~pg.disturbed /\ OwnTasks(tasks, p) = {}
    <3> HIDE DEF pg
    <3> QED BY <2>3, AskedFacts
  <2>6. /\ asked.open = pg.open /\ asked.kind = pg.kind /\ asked.list = pg.list
        /\ asked.link = pg.link /\ asked.timers = pg.timers /\ asked.item = pg.item
        /\ asked.error = pg.error /\ asked.emitted = pg.emitted /\ asked.busy = pg.busy
    <3> HIDE DEF asked
    <3> QED BY <2>3, <2>5 DEF PageRecord
  <2> HIDE DEF asked
  <2>7. /\ pg2 \in PageRecord
        /\ pg2.open = pg.open /\ pg2.kind = pg.kind /\ pg2.list = pg.list
        /\ pg2.link = pg.link /\ pg2.timers = pg.timers /\ pg2.item = pg.item
        /\ pg2.error = pg.error /\ pg2.emitted = pg.emitted + 1 /\ pg2.busy = pg.busy
        /\ pg2.disturbed = asked.disturbed /\ pg.emitted \in Nat
    BY <2>5, <2>6 DEF PageRecord
  <2> HIDE DEF pg2
  <2>8. /\ todo \in Seq(Request) /\ todo # << >> /\ todo \in Todo(pg2.kind)
        /\ pg2.kind # "explorer" => pg2.kind \in Kind \ {"explorer"}
        /\ pg2.kind = "explorer" => todo = <<"info", "latest">>
        /\ Head(todo) \notin {"block", "transaction", "balance"}
        /\ Head(todo) = "list" <=> pg2.kind = "blocks"
    <3>1. pg2.kind \in {"explorer", "network", "ticker", "blocks"}
      BY <2>2, <2>7, KindFacts
    <3>2. /\ <<"info", "latest">> \in Seq(Request) /\ <<"status", "peers">> \in Seq(Request)
          /\ <<"ticker">> \in Seq(Request)
      BY DEF Request
    <3>3. CASE pg2.kind = "explorer"
      BY <3>2, <3>3, KindFacts, TodoFacts DEF Todo, LoopTodo
    <3>4. CASE pg2.kind = "network"
      BY <3>2, <3>4, KindFacts, TodoFacts DEF Todo
    <3>5. CASE pg2.kind = "ticker"
      BY <3>2, <3>5, KindFacts, TodoFacts DEF Todo
    <3>6. CASE pg2.kind = "blocks"
      BY <3>6, KindFacts, TodoFacts, Tuples DEF Todo
    <3> QED BY <3>1, <3>3, <3>4, <3>5, <3>6
  <2> HIDE DEF todo
  <2>9. FirstPart(pg2, Nothing) \in Part
        /\ FirstPart(pg2, Nothing) = [item |-> IF pg2.kind = "block" THEN pg2.item ELSE Nothing, n |-> 1]
    BY <2>7, FirstPartFacts
  <2>10. /\ new \in Task /\ new.page = p /\ new.todo = todo /\ new.item = Nothing /\ new.body = FALSE
         /\ new.of = IF Head(todo) = "list" THEN FirstPart(pg2, Nothing) ELSE Nothing
    <3>1. (IF Head(todo) = "list" THEN FirstPart(pg2, Nothing) ELSE Nothing)
            \in Item \cup Chain \cup {Nothing} \cup Part
      BY <2>9
    <3> QED BY <2>2, <2>8, <3>1 DEF Task
  <2> HIDE DEF new
  <2>11. PageTask(new, pg2)
    BY <2>2, <2>7, <2>8, <2>9, <2>10 DEF PageTask
  <2>12. PageFits(p, pg2, url, opened)
    BY <2>3, <2>4, <2>7 DEF PageFits
  <2>13. ASSUME NEW s \in Polled
         PROVE  LoopFits(pg2, pg2.timers[s] + (Cardinality(LoopTasks(tasks, p, s)) + Weight(new, p, s)))
    <3>1. /\ LoopFits(pg, pg.timers[s] + Cardinality(LoopTasks(tasks, p, s)))
          /\ Cardinality(LoopTasks(tasks, p, s)) \in Nat /\ pg.timers[s] \in Nat
          /\ pg.emitted \in Nat
      <4> HIDE DEF pg
      <4> QED BY <2>3, LoopsBefore
    <3>2. Weight(new, p, s) \in {0, 1}
      BY DEF Weight
    <3>3. pg2.open
      BY <2>2, <2>7
    <3> DEFINE count2 == Cardinality(LoopTasks(tasks, p, s))
               weight == Weight(new, p, s)
    <3> HIDE DEF count2, weight
    <3>4. pg2.timers[s] + (count2 + weight) <= pg2.emitted
      <4>1. pg.timers[s] + count2 <= pg.emitted /\ count2 \in Nat
        BY <3>1 DEF LoopFits, count2
      <4>2. weight \in {0, 1}
        BY <3>2 DEF weight
      <4>3. pg.timers[s] + (count2 + weight) <= pg.emitted + 1
        <5>1. pg.timers[s] \in Nat /\ pg.emitted \in Nat
          BY <3>1
        <5> QED BY <4>1, <4>2, <5>1
      <4> QED BY <2>7, <4>3
    <3> QED BY <3>3, <3>4 DEF LoopFits, count2, weight
  <2>14. ASSUME Clean(pg2)
         PROVE  /\ OwnTasks(tasks, p) = {}
                /\ pg2.list = [k \in DOMAIN pg2.list |-> [item |-> ItemOf(pg2, url), n |-> k]]
                /\ TaskAdds(new, pg2, url)
                /\ pg2.kind \in {"block", "transaction"} =>
                     pg2.error \/ pg2.item = url.item \/ Head(new.todo) = pg2.kind
    <3>1. pg.emitted >= 1
      BY <2>2, <2>3 DEF PageFits
    <3> QED BY <2>7, <2>14, <3>1 DEF Clean
  <2>15. pg2.open = page[p].open /\ pg2.kind = page[p].kind
    BY <2>7
  <2>16. Fits(Started(tasks, new), [page EXCEPT ![p] = pg2], url, opened)
    BY <2>2, <2>4, <2>7, <2>10, <2>11, <2>12, <2>13, <2>14, <2>15, StartFits
  <2> QED BY <2>1, <2>16
<1> QED BY <1>1, <1>2


-----------------------------------------------------------------------------
(* The router                                                              *)

(* What an address may name: an item where the route has one.              *)
AddressFits(kind, item) ==
  kind \in Kind /\ IF kind \in ItemKind THEN item \in Item ELSE item = Nothing

(* The address becomes that of another item of the page that is open.      *)
LEMMA GotoSameFits ==
  ASSUME NEW tasks, Fits(tasks, page, url, opened), Free(tasks) # {},
         setup.baseUrl \in Chain \cup {Nothing},
         NEW kind, NEW item, AddressFits(kind, item), url # [kind |-> kind, item |-> item],
         Goto(kind, item, tasks), \E p \in OpenPages : page[p].kind = kind
  PROVE  Fits(task', page', url', opened')
<1> DEFINE p == CHOOSE q \in OpenPages : TRUE
           old == page[p]
           asked == Asked(old, tasks, p)
           pg == Forget(asked)
           todo == OnParam[kind]
           new == At(p, pg, todo, item)
           u == [kind |-> kind, item |-> item]
<1>1. /\ page' = [page EXCEPT ![p] = pg] /\ task' = Started(tasks, new)
      /\ url' = u /\ opened' = opened
  BY DEF Goto
<1>2. p \in PageId /\ old.open
  BY DEF OpenPages
<1>3. /\ opened \in 0..MaxPages /\ \A q \in PageId : PageFits(q, page[q], url, opened)
      /\ old \in PageRecord /\ PageFits(p, old, url, opened)
      /\ \A s \in Polled : LoopFits(old, LoopsOf(tasks, old, p, s))
  BY <1>2 DEF Fits, PagesFit, LoopsFit
<1>4. PICK q \in OpenPages : page[q].kind = kind
  OBVIOUS
<1>5. q \in PageId /\ page[q].open
  BY DEF OpenPages
<1> HIDE DEF p
<1>6. /\ p = opened /\ p <= opened /\ ~(p > opened) /\ q = p
      /\ url = [kind |-> old.kind, item |-> url.item]
      /\ IF old.kind \in ItemKind THEN url.item \in Item ELSE url.item = Nothing
      /\ old.kind # "explorer" => \A s \in Polled : old.timers[s] = 0
  BY <1>2, <1>3, <1>5 DEF PageFits, PageId
<1>7. old.kind = kind /\ kind \in ItemKind /\ item \in Item
  <2>1. old.kind = kind
    BY <1>4, <1>6
  <2>2. kind \notin ItemKind => url = u
    BY <1>6, <2>1 DEF AddressFits
  <2> QED BY <2>1, <2>2 DEF AddressFits
<1>8. kind \in {"block", "address", "transaction"} /\ kind \in Kind
      /\ kind \notin DOMAIN OnChain
  BY <1>7, KindFacts
<1>9. /\ asked \in PageRecord
      /\ asked = [old EXCEPT !.disturbed = asked.disturbed]
      /\ ~asked.disturbed => ~old.disturbed /\ OwnTasks(tasks, p) = {}
  <2> HIDE DEF old
  <2> QED BY <1>3, AskedFacts
<1>10. /\ asked.open = old.open /\ asked.kind = old.kind /\ asked.timers = old.timers
       /\ asked.emitted = old.emitted /\ asked.busy = old.busy
  <2> HIDE DEF asked
  <2> QED BY <1>3, <1>9 DEF PageRecord
<1> HIDE DEF asked
<1>11. /\ pg \in PageRecord /\ pg.list = << >>
       /\ pg.open = old.open /\ pg.kind = old.kind /\ pg.timers = old.timers
       /\ pg.emitted = old.emitted /\ pg.busy = old.busy /\ pg.disturbed = asked.disturbed
  <2>1. << >> \in Seq(Part) /\ pg = [asked EXCEPT !.list = << >>]
    BY DEF Forget
  <2>2. /\ pg \in PageRecord /\ pg.list = << >>
        /\ pg.open = asked.open /\ pg.kind = asked.kind /\ pg.timers = asked.timers
        /\ pg.emitted = asked.emitted /\ pg.busy = asked.busy /\ pg.disturbed = asked.disturbed
    <3> HIDE DEF pg
    <3> QED BY <1>9, <2>1 DEF PageRecord
  <2> QED BY <1>10, <2>2
<1> HIDE DEF pg
<1>12. /\ todo \in Seq(Request) /\ todo # << >> /\ todo \in Todo(kind)
       /\ Head(todo) \in {"block", "transaction", "balance"} /\ Head(todo) \notin {"list", "ticker"}
       /\ kind \in {"block", "transaction"} => Head(todo) = kind
  <2>1. /\ <<"block", "last", "list">> \in Seq(Request) /\ <<"balance", "list">> \in Seq(Request)
        /\ <<"transaction">> \in Seq(Request)
    BY DEF Request
  <2>2. CASE kind = "block"
    BY <2>1, <2>2, KindFacts, TodoFacts DEF Todo
  <2>3. CASE kind = "address"
    BY <2>1, <2>3, KindFacts, TodoFacts DEF Todo
  <2>4. CASE kind = "transaction"
    BY <2>1, <2>4, KindFacts, TodoFacts DEF Todo
  <2> QED BY <1>8, <2>2, <2>3, <2>4
<1> HIDE DEF todo
<1>13. /\ new \in Task /\ new.page = p /\ new.todo = todo /\ new.item = item /\ new.of = item
  <2>1. p \in PageId \cup {Services} /\ item \in Item \cup Chain \cup {Nothing}
    BY <1>2, <1>7
  <2>2. new \in Task /\ new = [page |-> p, todo |-> todo, item |-> item, from |-> setup.baseUrl,
          body |-> FALSE, of |-> item]
    <3>1. todo \in Seq(Request) /\ todo # << >> /\ Head(todo) \notin {"list", "ticker"}
      BY <1>12
    <3> HIDE DEF new, u
    <3> QED BY <2>1, <3>1, AtStarts DEF new
  <2> HIDE DEF new
  <2> QED BY <2>2
<1> HIDE DEF new
<1>14. PageTask(new, pg)
  BY <1>2, <1>7, <1>11, <1>12, <1>13 DEF PageTask
<1>15. PageFits(p, pg, u, opened)
  BY <1>2, <1>6, <1>7, <1>8, <1>11 DEF PageFits
<1>16. ASSUME NEW s \in Polled
       PROVE  LoopFits(pg, pg.timers[s] + (Cardinality(LoopTasks(tasks, p, s)) + Weight(new, p, s)))
  <2>1. /\ LoopFits(old, old.timers[s] + Cardinality(LoopTasks(tasks, p, s)))
        /\ Cardinality(LoopTasks(tasks, p, s)) \in Nat
    <3> HIDE DEF old
    <3> QED BY <1>3, LoopsBefore
  <2>2. Weight(new, p, s) = 0
    BY <1>8, <1>12, <1>13, LoopTodoFacts DEF Weight, Runs
  <2>3. Cardinality(LoopTasks(tasks, p, s)) + Weight(new, p, s) = Cardinality(LoopTasks(tasks, p, s))
    BY <2>1, <2>2
  <2> QED BY <1>11, <2>1, <2>3 DEF LoopFits
<1>17. ASSUME Clean(pg)
       PROVE  /\ OwnTasks(tasks, p) = {}
              /\ pg.list = [k \in DOMAIN pg.list |-> [item |-> ItemOf(pg, u), n |-> k]]
              /\ TaskAdds(new, pg, u)
              /\ pg.kind \in {"block", "transaction"} =>
                   pg.error \/ pg.item = u.item \/ Head(new.todo) = pg.kind
  <2>1. OwnTasks(tasks, p) = {}
    BY <1>9, <1>11, <1>17 DEF Clean
  <2>2. TaskAdds(new, pg, u)
    BY <1>11, <1>12, <1>13 DEF TaskAdds
  <2>3. pg.list = [k \in DOMAIN pg.list |-> [item |-> ItemOf(pg, u), n |-> k]]
    BY <1>11
  <2> QED BY <1>7, <1>11, <1>12, <1>13, <2>1, <2>2, <2>3
<1>18. pg.open = page[p].open /\ pg.kind = page[p].kind /\ pg.open
  BY <1>2, <1>11
<1>19. Fits(Started(tasks, new), [page EXCEPT ![p] = pg], u, opened)
  <2> HIDE DEF u
  <2> QED BY <1>2, <1>6, <1>11, <1>13, <1>14, <1>15, <1>16, <1>17, <1>18, StartFits
<1> QED BY <1>1, <1>19

(* The page that is open is left, and the address that of the page that    *)
(* opens.                                                                  *)
LEMMA LeaveFits ==
  ASSUME NEW tasks, Fits(tasks, page, url, opened), opened < MaxPages,
         \A p \in PageId : TasksOf(p) = OwnTasks(tasks, p),
         NEW u, NEW kind, u = [kind |-> kind, item |-> u.item], AddressFits(kind, u.item),
         NEW new \in PageRecord, new.open, new.kind = kind, new.list = << >>,
         new.timers = Closed.timers, kind \in DOMAIN OnChain => new.emitted = 1,
         kind \in {"block", "transaction"} => new.error
  PROVE  Fits([i \in TaskId |-> IF Forgotten(tasks[i]) THEN Nothing ELSE tasks[i]],
              [p \in PageId |-> CASE p = opened + 1 -> new [] p \in OpenPages -> Left(p)
                                 [] OTHER -> page[p]],
              u, opened + 1)
<1> DEFINE n == opened + 1
           left == [i \in TaskId |-> IF Forgotten(tasks[i]) THEN Nothing ELSE tasks[i]]
           pages == [p \in PageId |-> CASE p = n -> new [] p \in OpenPages -> Left(p) [] OTHER -> page[p]]
<1>1. /\ opened \in 0..MaxPages /\ n \in PageId /\ n \in 0..MaxPages /\ n = opened + 1
      /\ \A p \in PageId : p # Services /\ (p <= opened => p # n) /\ p \in Nat
  BY PagesAssumption DEF Fits, PageId, Services
<1>2. /\ tasks \in Tasks /\ page \in [PageId -> PageRecord]
      /\ TasksFit(tasks, page, opened)
      /\ \A p \in PageId : PageFits(p, page[p], url, opened)
      /\ \A p \in PageId : \A s \in Polled : LoopFits(page[p], LoopsOf(tasks, page[p], p, s))
  BY DEF Fits, Tasks, PagesFit, LoopsFit
<1>3. left \in Tasks
      /\ \A i \in TaskId : left[i] = IF Forgotten(tasks[i]) THEN Nothing ELSE tasks[i]
  BY <1>2 DEF Tasks
<1>4. /\ Closed \in PageRecord /\ ~Closed.open /\ Closed.list = << >> /\ Closed.emitted = 0
      /\ \A s \in Polled : Closed.timers[s] = 0
  <2>1. << >> \in Seq(Part)
    OBVIOUS
  <2> QED BY <2>1 DEF Closed, PageRecord
<1>5. /\ new \in PageRecord /\ new.open /\ new.kind = kind /\ new.list = << >>
      /\ new.timers = Closed.timers /\ (kind \in DOMAIN OnChain => new.emitted = 1)
      /\ (kind \in {"block", "transaction"} => new.error) /\ new.emitted \in Nat
  BY DEF PageRecord
<1>6. ASSUME NEW p \in OpenPages
      PROVE  /\ Left(p) \in PageRecord /\ ~Left(p).open /\ p <= opened /\ p # n /\ p \in PageId
             /\ page[p].kind \in Kind
             /\ page[p].kind # "explorer" => Left(p) = Closed
             /\ page[p].kind = "explorer" =>
                  /\ Left(p).emitted = page[p].emitted
                  /\ Left(p).timers = ClearTimers(page[p].timers)
                  /\ Left(p).busy <=> OwnTasks(tasks, p) # {}
  <2>1. p \in PageId /\ page[p].open /\ page[p] \in PageRecord
    BY <1>2 DEF OpenPages
  <2>2. p = opened /\ page[p].kind \in Kind
    BY <1>2, <2>1 DEF PageFits
  <2>3. CASE page[p].kind # "explorer"
    BY <1>1, <1>4, <2>1, <2>2, <2>3, PollingFacts DEF Left
  <2>4. CASE page[p].kind = "explorer"
    <3>1. Left(p) = [Closed EXCEPT !.timers = ClearTimers(page[p].timers),
                                   !.emitted = page[p].emitted, !.busy = TasksOf(p) # {}]
      BY <2>4, PollingFacts DEF Left
    <3>2. ClearTimers(page[p].timers) \in [Polled -> Nat] /\ page[p].emitted \in Nat
      BY <2>1 DEF PageRecord, ClearTimers
    <3>3. TasksOf(p) = OwnTasks(tasks, p)
      BY <2>1
    <3> HIDE DEF Closed
    <3> DEFINE busy == TasksOf(p) # {}
               timers == ClearTimers(page[p].timers)
               emitted == page[p].emitted
    <3>4. timers \in [Polled -> Nat] /\ emitted \in Nat
      BY <3>2
    <3>5. busy \in BOOLEAN /\ (busy <=> OwnTasks(tasks, p) # {})
      BY <3>3, Zenon
    <3>6. Left(p) = [Closed EXCEPT !.timers = timers, !.emitted = emitted, !.busy = busy]
      BY <3>1
    <3> HIDE DEF busy, timers, emitted
    <3>7. /\ Left(p) \in PageRecord /\ ~Left(p).open /\ Left(p).emitted = emitted
          /\ Left(p).timers = timers /\ Left(p).busy = busy
      BY <1>4, <3>4, <3>5, <3>6 DEF PageRecord
    <3>8. emitted = page[p].emitted /\ timers = ClearTimers(page[p].timers)
      BY DEF emitted, timers
    <3> QED BY <1>1, <2>1, <2>2, <2>4, <3>5, <3>7, <3>8
  <2> QED BY <2>3, <2>4
<1>7. /\ pages \in [PageId -> PageRecord] /\ pages[n] = new
      /\ \A p \in OpenPages : pages[p] = Left(p)
      /\ \A p \in PageId \ OpenPages : p # n => pages[p] = page[p] /\ ~page[p].open
  <2> HIDE DEF n
  <2>1. \A p \in PageId : pages[p] = IF p = n THEN new ELSE IF p \in OpenPages THEN Left(p) ELSE page[p]
    BY <1>6
  <2>2. OpenPages \subseteq PageId /\ \A p \in PageId \ OpenPages : ~page[p].open
    BY DEF OpenPages
  <2>3. \A p \in PageId : pages[p] \in PageRecord
    BY <1>2, <1>5, <1>6, <2>1
  <2>4. \A p \in OpenPages : p # n
    BY <1>6
  <2>5. pages = [p \in PageId |-> pages[p]]
    OBVIOUS
  <2> HIDE DEF pages
  <2> QED BY <1>1, <2>1, <2>2, <2>3, <2>4, <2>5
<1> HIDE DEF left, pages, n
<1>8. \A i \in TaskId : tasks[i] # Nothing /\ tasks[i].page # Services =>
        /\ tasks[i] \in Task /\ tasks[i].page \in PageId /\ tasks[i].page <= opened
        /\ tasks[i].page # n /\ PageTask(tasks[i], page[tasks[i].page])
  <2> SUFFICES ASSUME NEW i \in TaskId, tasks[i] # Nothing, tasks[i].page # Services
               PROVE  /\ tasks[i] \in Task /\ tasks[i].page \in PageId /\ tasks[i].page <= opened
                      /\ tasks[i].page # n /\ PageTask(tasks[i], page[tasks[i].page])
    OBVIOUS
  <2>1. tasks[i] \in Task
    BY <1>2 DEF Tasks
  <2>2. tasks[i].page \in PageId
    BY <2>1 DEF Task
  <2> QED BY <1>1, <1>2, <2>1, <2>2 DEF TasksFit
<1>9. ASSUME NEW i \in TaskId, left[i] # Nothing
      PROVE  left[i] = tasks[i] /\ tasks[i] # Nothing /\ ~Forgotten(tasks[i])
  BY <1>3, <1>9
<1>10. ASSUME NEW i \in TaskId, tasks[i] # Nothing, tasks[i].page \in OpenPages
       PROVE  IF page[tasks[i].page].kind = "explorer"
                THEN tasks[i].todo \in LoopTodo /\ ~Forgotten(tasks[i])
                ELSE Forgotten(tasks[i])
  <2> DEFINE p == tasks[i].page
  <2>1. p \in PageId /\ page[p].open /\ p # Services
    BY <1>1, <1>10 DEF OpenPages
  <2>2. PageTask(tasks[i], page[p]) /\ page[p].kind \in Kind
    BY <1>6, <1>8, <1>10, <2>1
  <2>3. tasks[i].todo \in Todo(page[p].kind)
    BY <2>1, <2>2 DEF PageTask
  <2>4. CASE page[p].kind = "explorer"
    <3>1. tasks[i].todo \in LoopTodo
      BY <2>3, <2>4 DEF Todo
    <3> QED BY <2>4, <3>1, LoopTodoFacts DEF Forgotten
  <2>5. CASE page[p].kind # "explorer"
    <3>1. ToSet(tasks[i].todo) \cap Polled = {}
      BY <2>2, <2>3, <2>5, LoopTodoFacts
    <3> QED BY <1>10, <2>5, <3>1 DEF Forgotten
  <2> QED BY <2>4, <2>5
<1>11. TasksFit(left, pages, n)
  <2> DEFINE Good(t) == IF t.page = Services THEN ServiceTask(t)
                        ELSE t.page <= n /\ PageTask(t, pages[t.page])
  <2> SUFFICES ASSUME NEW i \in TaskId, left[i] # Nothing PROVE Good(left[i])
    BY DEF TasksFit
  <2>1. left[i] = tasks[i] /\ tasks[i] # Nothing /\ ~Forgotten(tasks[i])
    BY <1>9
  <2>2. CASE tasks[i].page = Services
    BY <1>2, <2>1, <2>2 DEF TasksFit
  <2>3. CASE tasks[i].page # Services
    <3> DEFINE p == tasks[i].page
    <3>1. p \in PageId /\ p <= opened /\ p # n /\ PageTask(tasks[i], page[p])
      BY <1>8, <2>1, <2>3
    <3>2. p <= n
      BY <1>1, <3>1 DEF PageId
    <3>3. CASE p \in OpenPages
      <4>1. tasks[i].todo \in LoopTodo
        BY <1>10, <2>1, <3>3
      <4>2. pages[p] = Left(p) /\ ~Left(p).open
        BY <1>6, <1>7, <3>3
      <4> QED BY <2>1, <2>3, <3>1, <3>2, <4>1, <4>2 DEF PageTask
    <3>4. CASE p \notin OpenPages
      BY <1>7, <2>1, <2>3, <3>1, <3>2, <3>4
    <3> QED BY <3>3, <3>4
  <2> QED BY <2>2, <2>3
<1>12. PagesFit(pages, u, n)
  <2> SUFFICES ASSUME NEW p \in PageId PROVE PageFits(p, pages[p], u, n)
    BY DEF PagesFit
  <2>1. CASE p = n
    BY <1>1, <1>4, <1>5, <1>7, <2>1 DEF PageFits, AddressFits
  <2>2. CASE p \in OpenPages
    BY <1>1, <1>6, <1>7, <2>2 DEF PageFits
  <2>3. CASE p # n /\ p \notin OpenPages
    <3>1. pages[p] = page[p] /\ ~page[p].open /\ (p > n => p > opened)
      BY <1>1, <1>7, <2>3
    <3> QED BY <1>2, <3>1 DEF PageFits
  <2> QED BY <2>1, <2>2, <2>3
<1>13. OwnTasks(left, n) = {} /\ \A s \in Polled : LoopTasks(left, n, s) = {}
  <2>1. \A i \in TaskId : left[i] # Nothing => left[i].page # n
    BY <1>1, <1>8, <1>9
  <2> QED BY <2>1 DEF OwnTasks, LoopTasks, Runs
<1>14. LoopsFit(left, pages)
  <2> SUFFICES ASSUME NEW p \in PageId, NEW s \in Polled
               PROVE  LoopFits(pages[p], LoopsOf(left, pages[p], p, s))
    BY DEF LoopsFit
  <2>1. CASE p = n
    <3>1. Cardinality(LoopTasks(left, p, s)) = 0
      BY <1>13, <2>1, FS_EmptySet
    <3>2. LoopsOf(left, pages[p], p, s) = 0
      BY <1>4, <1>5, <1>7, <2>1, <3>1 DEF LoopsOf
    <3> QED BY <1>5, <1>7, <2>1, <3>2 DEF LoopFits
  <2>2. CASE p \in OpenPages /\ page[p].kind # "explorer"
    <3>1. \A i \in TaskId : left[i] # Nothing => left[i].page # p
      BY <1>9, <1>10, <2>2
    <3>2. LoopTasks(left, p, s) = {}
      BY <3>1 DEF LoopTasks, Runs
    <3>3. Cardinality(LoopTasks(left, p, s)) = 0
      BY <3>2, FS_EmptySet
    <3>4. pages[p] = Closed
      BY <1>6, <1>7, <2>2
    <3>5. LoopsOf(left, pages[p], p, s) = 0
      BY <1>4, <3>3, <3>4 DEF LoopsOf
    <3> QED BY <1>4, <3>4, <3>5 DEF LoopFits
  <2>3. CASE p \in OpenPages /\ page[p].kind = "explorer"
    <3>1. \A i \in TaskId : tasks[i] # Nothing /\ tasks[i].page = p => left[i] = tasks[i]
      BY <1>3, <1>10, <2>3
    <3>2. \A i \in TaskId : left[i] # Nothing => left[i] = tasks[i]
      BY <1>9
    <3>3. LoopTasks(left, p, s) = LoopTasks(tasks, p, s)
      BY <3>1, <3>2 DEF LoopTasks, Runs
    <3> DEFINE before == page[p].timers[s]
               after == Left(p).timers[s]
               running == Cardinality(LoopTasks(tasks, p, s))
    <3>4. before \in Nat /\ running \in Nat /\ page[p].emitted \in Nat
          /\ LoopFits(page[p], before + running)
      BY <1>2, LoopTasksFinite DEF LoopsOf, PageRecord
    <3>5. after = IF before > 0 THEN before - 1 ELSE 0
      <4>1. Left(p).timers = ClearTimers(page[p].timers)
        BY <1>6, <2>3
      <4> QED BY <4>1 DEF ClearTimers
    <3>6. ~Left(p).busy => running = 0
      <4>1. ~Left(p).busy => LoopTasks(tasks, p, s) = {}
        BY <1>6, <2>3 DEF OwnTasks, LoopTasks, Runs
      <4> QED BY <4>1, FS_EmptySet
    <3>7. Left(p).emitted = page[p].emitted /\ pages[p] = Left(p)
      BY <1>6, <1>7, <2>3
    <3>8. LoopsOf(left, pages[p], p, s) = after + running
      BY <3>3, <3>7 DEF LoopsOf
    <3> HIDE DEF before, after, running
    <3>9. after + running <= page[p].emitted
          /\ (running = 0 => after + running = 0 \/ after + running < page[p].emitted)
      <4>1. before + running <= page[p].emitted
        BY <3>4 DEF LoopFits
      <4> QED BY <3>4, <3>5, <4>1
    <3> QED BY <3>6, <3>7, <3>8, <3>9 DEF LoopFits
  <2>4. CASE p # n /\ p \notin OpenPages
    <3>1. pages[p] = page[p]
      BY <1>7, <2>4
    <3>2. \A i \in TaskId : tasks[i] # Nothing /\ tasks[i].page = p => left[i] = tasks[i]
      BY <1>3, <2>4 DEF Forgotten
    <3>3. \A i \in TaskId : left[i] # Nothing => left[i] = tasks[i]
      BY <1>9
    <3>4. LoopTasks(left, p, s) = LoopTasks(tasks, p, s)
      BY <3>2, <3>3 DEF LoopTasks, Runs
    <3> QED BY <1>2, <3>1, <3>4 DEF LoopsOf
  <2> QED BY <2>1, <2>2, <2>3, <2>4
<1>15. ShowsFit(left, pages, u)
  <2> SUFFICES ASSUME NEW p \in PageId PROVE ShowFits(left, p, pages[p], u)
    BY DEF ShowsFit
  <2>1. CASE p = n
    <3>1. new.list = [k \in DOMAIN new.list |-> [item |-> ItemOf(new, u), n |-> k]]
          /\ LinkFits(new, ItemOf(new, u))
      BY <1>5 DEF LinkFits
    <3>2. new.kind \in {"block", "transaction"} => new.error \/ new.item = u.item
      BY <1>5
    <3>3. ShowFits(left, n, new, u)
      BY <1>13, <3>1, <3>2, ShowNone
    <3> QED BY <1>7, <2>1, <3>3
  <2>2. CASE p # n
    <3>1. ~pages[p].open
      BY <1>6, <1>7, <2>2
    <3> QED BY <3>1, ShowClosed
  <2> QED BY <2>1, <2>2
<1>16. Fits(left, pages, u, n)
  BY <1>1, <1>3, <1>7, <1>11, <1>12, <1>14, <1>15 DEF Fits, Tasks
<1> QED BY <1>16 DEF left, pages, n

(* What a page has to do when it opens.                                    *)
LEMMA WholeTodoFacts ==
  ASSUME NEW kind \in Kind
  PROVE  LET todo == OnOpen(kind) IN
         \/ todo = << >> /\ kind = "other"
         \/ /\ todo \in Seq(Request) /\ todo # << >> /\ todo \in Todo(kind)
            /\ kind # "explorer" => kind \in Kind \ {"explorer"}
            /\ kind \in {"block", "transaction"} => Head(todo) = kind
            /\ Head(todo) \in {"block", "transaction", "balance"} => kind \in ItemKind
            /\ Head(todo) = "list" => kind = "blocks"
            /\ Head(todo) \in {"list", "ticker"} => kind \notin {"block", "transaction"}
            /\ kind = "explorer" => kind \in DOMAIN OnChain
<1>1. ASSUME NEW x \in Request, NEW y \in Request, NEW z \in Request
      PROVE  /\ <<x>> \in Seq(Request) /\ <<x>> # << >>
             /\ <<x, y>> \in Seq(Request) /\ <<x, y>> # << >>
             /\ <<x, y, z>> \in Seq(Request) /\ <<x, y, z>> # << >>
  OBVIOUS
<1>2. /\ "info" \in Request /\ "latest" \in Request /\ "status" \in Request
      /\ "peers" \in Request /\ "ticker" \in Request /\ "list" \in Request
      /\ "block" \in Request /\ "last" \in Request /\ "balance" \in Request
      /\ "transaction" \in Request
  BY DEF Request
<1> DEFINE todo == OnOpen(kind)
           Good == todo \in Seq(Request) /\ todo # << >> /\ todo \in Todo(kind)
<1>3. CASE kind = "explorer"
  <2>1. todo = <<"info", "latest">>
    BY <1>3, KindFacts, OpenFacts
  <2>2. <<"info", "latest">> \in Todo("explorer")
    BY DEF Todo, LoopTodo
  <2>3. Good
    BY <1>1, <1>2, <1>3, <2>1, <2>2, Zenon
  <2> QED BY <1>3, <2>1, <2>3, KindFacts, TodoFacts
<1>4. CASE kind = "network"
  <2>1. todo = <<"status", "peers">>
    BY <1>4, KindFacts, OpenFacts
  <2>2. <<"status", "peers">> \in Todo("network")
    BY DEF Todo
  <2>3. Good
    BY <1>1, <1>2, <1>4, <2>1, <2>2, Zenon
  <2> QED BY <1>4, <2>1, <2>3, KindFacts, TodoFacts
<1>5. CASE kind = "ticker"
  <2>1. todo = <<"ticker">>
    BY <1>5, KindFacts, OpenFacts
  <2>2. <<"ticker">> \in Todo("ticker")
    BY DEF Todo
  <2>3. Good
    BY <1>1, <1>2, <1>5, <2>1, <2>2, Zenon
  <2> QED BY <1>5, <2>1, <2>3, KindFacts, TodoFacts
<1>6. CASE kind = "blocks"
  <2>1. todo = <<"list">>
    BY <1>6, KindFacts, OpenFacts
  <2>2. <<"list">> \in Todo("blocks")
    BY DEF Todo
  <2>3. Good
    BY <1>1, <1>2, <1>6, <2>1, <2>2, Zenon
  <2> QED BY <1>6, <2>1, <2>3, KindFacts, TodoFacts
<1>7. CASE kind = "block"
  <2>1. todo = <<"block", "last", "list">>
    BY <1>7, KindFacts, OpenFacts
  <2>2. <<"block", "last", "list">> \in Todo("block")
    BY DEF Todo
  <2>3. Good
    BY <1>1, <1>2, <1>7, <2>1, <2>2, Zenon
  <2> QED BY <1>7, <2>1, <2>3, KindFacts, TodoFacts
<1>8. CASE kind = "address"
  <2>1. todo = <<"balance", "list">>
    BY <1>8, KindFacts, OpenFacts
  <2>2. <<"balance", "list">> \in Todo("address")
    BY DEF Todo
  <2>3. Good
    BY <1>1, <1>2, <1>8, <2>1, <2>2, Zenon
  <2> QED BY <1>8, <2>1, <2>3, KindFacts, TodoFacts
<1>9. CASE kind = "transaction"
  <2>1. todo = <<"transaction">>
    BY <1>9, KindFacts, OpenFacts
  <2>2. <<"transaction">> \in Todo("transaction")
    BY DEF Todo
  <2>3. Good
    BY <1>1, <1>2, <1>9, <2>1, <2>2, Zenon
  <2> QED BY <1>9, <2>1, <2>3, KindFacts, TodoFacts
<1>10. CASE kind = "other"
  BY <1>10, OpenFacts
<1> QED BY <1>3, <1>4, <1>5, <1>6, <1>7, <1>8, <1>9, <1>10, KindFacts

(* The router opens a page, which starts to load.                          *)
LEMMA GotoNewFits ==
  ASSUME NEW tasks, Fits(tasks, page, url, opened), Free(tasks) # {},
         setup.baseUrl \in Chain \cup {Nothing},
         \A p \in PageId : TasksOf(p) = OwnTasks(tasks, p),
         NEW kind, NEW item, AddressFits(kind, item),
         Goto(kind, item, tasks), ~ \E p \in OpenPages : page[p].kind = kind
  PROVE  Fits(task', page', url', opened')
<1> DEFINE n == opened + 1
           u == [kind |-> kind, item |-> item]
           emitted == IF kind \in DOMAIN OnChain THEN 1 ELSE 0
           pg == [Closed EXCEPT !.kind = kind, !.open = TRUE, !.emitted = emitted]
           bad == [pg EXCEPT !.error = TRUE]
           left == [i \in TaskId |-> IF Forgotten(tasks[i]) THEN Nothing ELSE tasks[i]]
           With(r) == [p \in PageId |-> CASE p = n -> r [] p \in OpenPages -> Left(p) [] OTHER -> page[p]]
           todo == OnOpen(kind)
           new == At(n, pg, todo, item)
<1>1. /\ opened < MaxPages /\ opened' = n /\ url' = u
      /\ page' = With(pg) /\ task' = Started(left, new)
  BY DEF Goto
<1>2. /\ opened \in 0..MaxPages /\ n \in PageId /\ n \in Nat
  BY <1>1, PagesAssumption DEF Fits, PageId
<1>3. u.kind = kind /\ u.item = item /\ u = [kind |-> kind, item |-> u.item] /\ kind \in Kind
      /\ item \in Item \cup {Nothing}
  BY DEF AddressFits
<1>4. << >> \in Seq(Part) /\ Closed \in PageRecord /\ Closed.list = << >> /\ Closed.error = FALSE
      /\ ~Closed.open /\ (\A s \in Polled : Closed.timers[s] = 0)
  <2>1. << >> \in Seq(Part)
    OBVIOUS
  <2> QED BY <2>1 DEF Closed, PageRecord
<1>5. emitted \in Nat /\ (kind \in DOMAIN OnChain => emitted = 1)
  OBVIOUS
<1> HIDE DEF emitted
<1>6. /\ pg \in PageRecord /\ pg.open = TRUE /\ pg.kind = kind /\ pg.list = << >>
      /\ pg.timers = Closed.timers /\ pg.emitted = emitted
  <2> HIDE DEF Closed
  <2> QED BY <1>3, <1>4, <1>5 DEF PageRecord
<1> HIDE DEF pg
<1>7. /\ bad \in PageRecord /\ bad.open = TRUE /\ bad.kind = kind /\ bad.list = << >>
      /\ bad.timers = Closed.timers /\ bad.emitted = emitted /\ bad.error
  BY <1>6 DEF PageRecord
<1> HIDE DEF bad
<1>8. ASSUME NEW r \in PageRecord, r.open, r.kind = kind, r.list = << >>, r.timers = Closed.timers,
             r.emitted = emitted, kind \in {"block", "transaction"} => r.error
      PROVE  Fits(left, With(r), u, n)
  <2>1. u = [kind |-> kind, item |-> u.item] /\ AddressFits(kind, u.item)
    BY <1>3
  <2> HIDE DEF u
  <2> QED BY <1>1, <1>8, <1>5, <2>1, LeaveFits
<1>9. \A r : With(r)[n] = r /\ (\A r2 : [With(r) EXCEPT ![n] = r2] = With(r2))
  <2> SUFFICES ASSUME NEW r, NEW r2
               PROVE  With(r)[n] = r /\ [With(r) EXCEPT ![n] = r2] = With(r2)
    OBVIOUS
  <2>1. \A p \in OpenPages : p \in PageId /\ p # n
    <3> SUFFICES ASSUME NEW p \in OpenPages PROVE p \in PageId /\ p # n
      OBVIOUS
    <3>1. p \in PageId /\ page[p].open
      BY DEF OpenPages
    <3>2. p = opened
      BY <3>1 DEF Fits, PagesFit, PageFits
    <3> QED BY <1>2, <3>1, <3>2
  <2> HIDE DEF n
  <2>2. \A p \in PageId : With(r)[p] = IF p = n THEN r ELSE IF p \in OpenPages THEN Left(p) ELSE page[p]
    BY <2>1
  <2>3. \A p \in PageId : With(r2)[p] = IF p = n THEN r2 ELSE IF p \in OpenPages THEN Left(p) ELSE page[p]
    BY <2>1
  <2>4. /\ With(r) = [p \in PageId |-> With(r)[p]] /\ With(r2) = [p \in PageId |-> With(r2)[p]]
    OBVIOUS
  <2> HIDE DEF With
  <2> QED BY <1>2, <2>2, <2>3, <2>4
<1>10. tasks \in Tasks /\ left \in Tasks /\ Free(left) # {}
  BY DEF Fits, Tasks, Free
<1> HIDE DEF left, With
<1>11. \/ todo = << >> /\ kind = "other"
       \/ /\ todo \in Seq(Request) /\ todo # << >> /\ todo \in Todo(kind)
          /\ kind # "explorer" => kind \in Kind \ {"explorer"}
          /\ kind \in {"block", "transaction"} => Head(todo) = kind
          /\ Head(todo) \in {"block", "transaction", "balance"} => kind \in ItemKind
          /\ Head(todo) = "list" => kind = "blocks"
          /\ Head(todo) \in {"list", "ticker"} => kind \notin {"block", "transaction"}
          /\ kind = "explorer" => kind \in DOMAIN OnChain
  BY <1>3, WholeTodoFacts
<1> HIDE DEF todo
<1>12. \/ new = Nothing /\ (todo = << >> \/ Head(todo) \in {"list", "ticker"})
       \/ /\ todo # << >> /\ new \in Task
          /\ new = [page |-> n, todo |-> todo, item |-> item, from |-> setup.baseUrl, body |-> FALSE,
                    of |-> IF Head(todo) = "list" THEN FirstPart(pg, item) ELSE item]
  <2>1. n \in PageId \cup {Services} /\ item \in Item \cup Chain \cup {Nothing}
    BY <1>2, <1>3
  <2>2. todo # << >> /\ Head(todo) = "list" => item \in Item \cup {Nothing}
    BY <1>3
  <2>3. todo \in Seq(Request)
    BY <1>11, Tuples
  <2>4. pg \in PageRecord
    BY <1>6
  <2>5. setup.baseUrl \in Chain \cup {Nothing}
    OBVIOUS
  <2> HIDE DEF n, u, new
  <2> QED BY <2>1, <2>2, <2>3, <2>4, <2>5, AtFacts, ZenonT(40) DEF new
<1> HIDE DEF new
<1>13. CASE new = Nothing
  <2>1. kind \notin {"block", "transaction"}
    <3>1. CASE todo = << >>
      BY <1>11, <3>1
    <3>2. CASE todo # << >> /\ Head(todo) \in {"list", "ticker"}
      BY <1>11, <3>2
    <3>3. new \notin Task
      BY <1>13, NothingIsNone
    <3> QED BY <1>12, <3>1, <3>2, <3>3
  <2>2. Started(left, new) = left
    BY <1>13 DEF Started
  <2>3. Fits(left, With(pg), u, n)
    BY <1>8, <1>6, <2>1
  <2> QED BY <1>1, <2>2, <2>3
<1>14. CASE new # Nothing
  <2> DEFINE before == With(bad)
  <2>1. Fits(left, before, u, n) /\ before[n] = bad /\ page' = [before EXCEPT ![n] = pg]
    BY <1>1, <1>8, <1>7, <1>9
  <2>2. /\ new \in Task /\ new.page = n /\ new.todo = todo /\ new.item = item /\ todo # << >>
        /\ new.of = IF Head(todo) = "list" THEN FirstPart(pg, item) ELSE item
    BY <1>12, <1>14
  <2>3. /\ FirstPart(pg, item) \in Part
        /\ FirstPart(pg, item) = [item |-> IF kind = "block" THEN pg.item ELSE item, n |-> 1]
    BY <1>3, <1>6, FirstPartFacts
  <2>4. PageTask(new, pg)
    BY <1>3, <1>6, <1>11, <2>2, <2>3 DEF PageTask
  <2>5. PageFits(n, pg, u, n)
    <3>1. ~(n > n)
      BY <1>2
    <3>2. IF kind \in ItemKind THEN u.item \in Item ELSE u.item = Nothing
      BY <1>3 DEF AddressFits
    <3> QED BY <1>3, <1>4, <1>5, <1>6, <3>1, <3>2 DEF PageFits
  <2>6. OwnTasks(left, n) = {}
    <3>1. \A i \in TaskId : tasks[i] # Nothing => tasks[i].page # n
      <4> SUFFICES ASSUME NEW i \in TaskId, tasks[i] # Nothing PROVE tasks[i].page # n
        OBVIOUS
      <4>1. tasks[i].page = Services \/ tasks[i].page <= opened
        BY DEF Fits, TasksFit
      <4> QED BY <1>2, <4>1 DEF Services, PageId
    <3>2. \A i \in TaskId : left[i] # Nothing => left[i] = tasks[i]
      BY DEF left
    <3> QED BY <3>1, <3>2 DEF OwnTasks
  <2>7. ASSUME NEW s \in Polled
        PROVE  LoopFits(pg, pg.timers[s] + (Cardinality(LoopTasks(left, n, s)) + Weight(new, n, s)))
    <3>1. LoopTasks(left, n, s) = {}
      BY <2>6 DEF LoopTasks, OwnTasks, Runs
    <3>2. Cardinality(LoopTasks(left, n, s)) = 0
      BY <3>1, FS_EmptySet
    <3>3. Weight(new, n, s) \in {0, 1} /\ (kind # "explorer" => Weight(new, n, s) = 0)
      <4>1. kind # "explorer" => ~Includes(todo, s)
        BY <1>11, <2>2, LoopTodoFacts
      <4> QED BY <2>2, <4>1 DEF Weight, Runs
    <3>4. pg.timers[s] = 0
      BY <1>4, <1>6
    <3>5. kind = "explorer" => emitted = 1
      BY <1>5, <1>11, KindFacts
    <3> DEFINE weight == Weight(new, n, s)
    <3> HIDE DEF weight
    <3>6. pg.timers[s] + (Cardinality(LoopTasks(left, n, s)) + weight) = weight
          /\ weight \in {0, 1} /\ weight <= emitted
      <4>1. weight \in {0, 1} /\ (kind # "explorer" => weight = 0)
        BY <3>3 DEF weight
      <4> QED BY <1>5, <3>2, <3>4, <3>5, <4>1
    <3> QED BY <1>6, <3>6 DEF LoopFits, weight
  <2>8. /\ OwnTasks(left, n) = {}
        /\ pg.list = [k \in DOMAIN pg.list |-> [item |-> ItemOf(pg, u), n |-> k]]
        /\ TaskAdds(new, pg, u) \/ ~Clean(pg)
        /\ pg.kind \in {"block", "transaction"} =>
             pg.error \/ pg.item = u.item \/ Head(new.todo) = pg.kind
    <3>1. Head(todo) = "list" => new.of = [item |-> ItemOf(pg, u), n |-> Len(pg.list) + 1]
      <4>1. ASSUME Head(todo) = "list" PROVE new.of = [item |-> item, n |-> 1]
        BY <1>11, <2>2, <2>3, <4>1
      <4>2. Head(todo) = "list" => ItemOf(pg, u) = item
        BY <1>3, <1>6, <1>11, <2>2 DEF ItemOf
      <4> QED BY <1>6, <4>1, <4>2
    <3>2. new.body = FALSE
      BY <1>12, <1>14
    <3>3. TaskAdds(new, pg, u)
      BY <1>3, <1>6, <1>11, <2>2, <3>1, <3>2 DEF TaskAdds, LinkFits
    <3>4. pg.list = [k \in DOMAIN pg.list |-> [item |-> ItemOf(pg, u), n |-> k]]
      BY <1>6
    <3> QED BY <1>6, <1>11, <2>2, <2>6, <3>3, <3>4
  <2> HIDE DEF before, u
  <2>9. Free(left) # {} /\ n <= n /\ pg.open = before[n].open /\ pg.kind = before[n].kind
    <3>1. before[n].open = TRUE /\ before[n].kind = kind
      BY <1>7, <2>1
    <3>2. pg.open = TRUE /\ pg.kind = kind
      BY <1>6
    <3>3. n <= n
      BY <1>2
    <3> QED BY <1>10, <3>1, <3>2, <3>3, Zenon
  <2>10. Fits(Started(left, new), [before EXCEPT ![n] = pg], u, n)
    <3> HIDE DEF n
    <3> QED BY <1>2, <1>6, <2>1, <2>2, <2>4, <2>5, <2>7, <2>8, <2>9, StartFits
  <2> QED BY <1>1, <2>1, <2>10
<1> QED BY <1>13, <1>14

(* Whatever the router is told.                                            *)
LEMMA GotoFits ==
  ASSUME NEW tasks, Fits(tasks, page, url, opened), Free(tasks) # {},
         setup.baseUrl \in Chain \cup {Nothing},
         \A p \in PageId : TasksOf(p) = OwnTasks(tasks, p),
         NEW kind, NEW item, AddressFits(kind, item), url # [kind |-> kind, item |-> item],
         Goto(kind, item, tasks)
  PROVE  /\ Fits(task', page', url', opened')
         /\ url' \in {Nothing} \cup [kind : Kind, item : Item \cup {Nothing}]
<1>1. url' = [kind |-> kind, item |-> item] /\ kind \in Kind /\ item \in Item \cup {Nothing}
  BY DEF Goto, AddressFits
<1>2. CASE \E p \in OpenPages : page[p].kind = kind
  BY <1>1, <1>2, GotoSameFits
<1>3. CASE ~ \E p \in OpenPages : page[p].kind = kind
  BY <1>1, <1>3, GotoNewFits
<1> QED BY <1>1, <1>2, <1>3

-----------------------------------------------------------------------------
(* The services                                                            *)

(* A task that asks for a setup or searches is one of the services.        *)
LEMMA ServiceTaskFacts ==
  ASSUME Inv, NEW i \in TaskId, task[i] # Nothing,
         Head(task[i].todo) \in {"setup", "blockOfHash", "transactionOfHash"}
  PROVE  /\ task[i].page = Services /\ ServiceTask(task[i]) /\ task[i] \in Task
         /\ LET others == [task EXCEPT ![i] = Nothing] IN
            /\ Fits(others, page, url, opened) /\ Free(others) # {}
            /\ \A p \in PageId : TasksOf(p) = OwnTasks(others, p)
<1>1. task \in Tasks /\ task[i] \in Task
  BY DEF Inv, Fits, Tasks
<1>2. task[i].page = Services
  <2> SUFFICES ASSUME task[i].page # Services PROVE FALSE
    OBVIOUS
  <2> DEFINE p == task[i].page
             pg == page[p]
  <2>1. pg \in PageRecord /\ PageTask(task[i], pg) /\ PageFits(p, pg, url, opened)
    BY TaskFacts
  <2>2. pg.open => pg.kind \in Kind
    BY <2>1 DEF PageFits
  <2>3. \/ task[i].todo \in LoopTodo
        \/ task[i].todo \in {<<"status", "peers">>, <<"peers">>}
        \/ task[i].todo \in {<<"ticker">>, <<"list">>, <<"transaction">>, <<"balance", "list">>}
        \/ task[i].todo \in {<<"block", "last", "list">>, <<"last", "list">>}
    <3> HIDE DEF pg
    <3> QED BY <1>1, <2>1, <2>2, PageTodoFacts
  <2>4. Head(task[i].todo) \in {"info", "latest", "status", "peers", "ticker", "list",
                                "transaction", "balance", "block", "last"}
    BY <2>3, TodoFacts DEF LoopTodo
  <2> QED BY <2>4
<1>3. ServiceTask(task[i])
  BY <1>2 DEF Inv, Fits, TasksFit
<1> DEFINE others == [task EXCEPT ![i] = Nothing]
<1>4. Fits(others, page, url, opened)
  BY <1>2, ServiceStep DEF Inv
<1>5. others[i] = Nothing /\ \A j \in TaskId : j # i => others[j] = task[j]
  BY <1>1 DEF Tasks
<1> HIDE DEF others
<1>6. i \in Free(others)
  BY <1>5 DEF Free
<1>7. ASSUME NEW p \in PageId PROVE TasksOf(p) = OwnTasks(others, p)
  <2>1. task[i].page # p
    BY <1>2, PagesAssumption DEF PageId, Services
  <2> QED BY <1>5, <2>1 DEF TasksOf, OwnTasks
<1> QED BY <1>1, <1>2, <1>3, <1>4, <1>6, <1>7 DEF others

(* A task of the services at its next request.                             *)
LEMMA ServiceAt ==
  ASSUME Inv, NEW todo \in Seq(Request), NEW item \in Item \cup Chain,
         \/ todo = <<"setup">> /\ item \in Chain
         \/ /\ todo \in {<<"blockOfHash", "transactionOfHash">>, <<"transactionOfHash">>}
            /\ item \in Item
  PROVE  LET new == At(Services, Closed, todo, item) IN
         new \in Task /\ new.page = Services /\ ServiceTask(new)
<1> DEFINE new == At(Services, Closed, todo, item)
<1>1. Head(todo) \in {"setup", "blockOfHash", "transactionOfHash"} /\ todo # << >>
  <2>1. << >> # <<"setup">> /\ << >> # <<"transactionOfHash">>
        /\ << >> # <<"blockOfHash", "transactionOfHash">>
    OBVIOUS
  <2> QED BY <2>1, TodoFacts
<1>2. Closed \in PageRecord
  <2>1. << >> \in Seq(Part)
    OBVIOUS
  <2> QED BY <2>1 DEF Closed, PageRecord
<1>3. setup.baseUrl \in Chain \cup {Nothing}
  BY DEF Inv
<1>4. \/ new = Nothing /\ (todo = << >> \/ Head(todo) \in {"list", "ticker"})
      \/ /\ todo # << >> /\ new \in Task
         /\ new = [page |-> Services, todo |-> todo, item |-> item, from |-> setup.baseUrl,
                   body |-> FALSE, of |-> IF Head(todo) = "list" THEN FirstPart(Closed, item) ELSE item]
  <2>1. Services \in PageId \cup {Services} /\ item \in Item \cup Chain \cup {Nothing}
    OBVIOUS
  <2>2. todo # << >> /\ Head(todo) = "list" => item \in Item \cup {Nothing}
    BY <1>1
  <2> HIDE DEF new
  <2> QED BY <1>2, <1>3, <2>1, <2>2, AtFacts DEF new
<1> HIDE DEF new
<1>5. new \in Task /\ new.page = Services /\ new.todo = todo /\ new.item = item /\ new.of = item
  BY <1>1, <1>4
<1>6. ServiceTask(new)
  BY <1>5 DEF ServiceTask
<1> QED BY <1>5, <1>6 DEF new

(* The services start a task.                                              *)
LEMMA ServiceStarts ==
  ASSUME Inv, Free(task) # {}, NEW new \in Task, new.page = Services, ServiceTask(new)
  PROVE  Fits(Started(task, new), page, url, opened)
<1>1. task \in Tasks /\ Fits(task, page, url, opened)
  BY DEF Inv, Fits, Tasks
<1>2. PICK i \in TaskId : task[i] = Nothing /\ Started(task, new) = [task EXCEPT ![i] = new]
  BY <1>1, StartedFacts
<1>3. Fits([task EXCEPT ![i] = new], page, url, opened)
  BY <1>1, <1>2, ServiceStep
<1> QED BY <1>2, <1>3

(* The two searches of a hash, and the request for a setup.                *)
LEMMA ServiceTuples ==
  /\ <<"setup">> \in Seq(Request) /\ <<"transactionOfHash">> \in Seq(Request)
  /\ <<"blockOfHash", "transactionOfHash">> \in Seq(Request)
<1>1. "setup" \in Request /\ "blockOfHash" \in Request /\ "transactionOfHash" \in Request
  BY DEF Request
<1>2. ASSUME NEW x \in Request, NEW y \in Request
      PROVE  <<x>> \in Seq(Request) /\ <<x, y>> \in Seq(Request)
  OBVIOUS
<1> QED BY <1>1, <1>2, Zenon

-----------------------------------------------------------------------------
(* The invariant                                                           *)


(* The user follows a link.                                                *)
LEMMA NavigateFits ==
  ASSUME Inv, NEW kind, NEW item, AddressFits(kind, item), Navigate(kind, item)
  PROVE  Inv'
<1>1. Fits(task, page, url, opened) /\ setup.baseUrl \in Chain \cup {Nothing}
  BY DEF Inv
<1>2. /\ Free(task) # {} /\ url # [kind |-> kind, item |-> item] /\ Goto(kind, item, task)
      /\ setup' = setup
  BY DEF Navigate, Move
<1>3. \A p \in PageId : TasksOf(p) = OwnTasks(task, p)
  BY DEF TasksOf, OwnTasks
<1>4. /\ Fits(task', page', url', opened')
      /\ url' \in {Nothing} \cup [kind : Kind, item : Item \cup {Nothing}]
  BY <1>1, <1>2, <1>3, GotoFits
<1> QED BY <1>2, <1>4 DEF Inv

(* The user searches.                                                      *)
LEMMA SearchFits ==
  ASSUME Inv, NEW item \in Item, Search(item)
  PROVE  Inv'
<1>1. Fits(task, page, url, opened) /\ setup.baseUrl \in Chain \cup {Nothing}
  BY DEF Inv
<1>2. Free(task) # {} /\ setup' = setup
  BY DEF Search, Move
<1>3. CASE \E kind \in {"block", "address"} :
             url # [kind |-> kind, item |-> item] /\ Goto(kind, item, task)
  <2>1. PICK kind \in {"block", "address"} :
          url # [kind |-> kind, item |-> item] /\ Goto(kind, item, task)
    BY <1>3
  <2>2. AddressFits(kind, item)
    BY KindFacts DEF AddressFits
  <2>3. \A p \in PageId : TasksOf(p) = OwnTasks(task, p)
    BY DEF TasksOf, OwnTasks
  <2>4. /\ Fits(task', page', url', opened')
        /\ url' \in {Nothing} \cup [kind : Kind, item : Item \cup {Nothing}]
    BY <1>1, <1>2, <2>1, <2>2, <2>3, GotoFits
  <2> QED BY <1>2, <2>4 DEF Inv
<1>4. CASE /\ task' = Started(task, At(Services, Closed, <<"blockOfHash", "transactionOfHash">>, item))
           /\ UNCHANGED <<url, page, opened>>
  <2> DEFINE new == At(Services, Closed, <<"blockOfHash", "transactionOfHash">>, item)
  <2>1. new \in Task /\ new.page = Services /\ ServiceTask(new)
    BY ServiceTuples, ServiceAt
  <2> HIDE DEF new
  <2>2. Fits(Started(task, new), page, url, opened)
    BY <1>2, <2>1, ServiceStarts
  <2>3. task' = Started(task, new)
    BY <1>4 DEF new
  <2> QED BY <1>2, <1>4, <2>2, <2>3 DEF Inv
<1> QED BY <1>3, <1>4 DEF Search

(* The user chooses a chain.                                               *)
LEMMA SetChainFits ==
  ASSUME Inv, NEW chain \in Chain, SetChain(chain)
  PROVE  Inv'
<1>1. Fits(task, page, url, opened) /\ setup.baseUrl \in Chain \cup {Nothing}
  BY DEF Inv
<1>2. Free(task) # {} /\ setup' = setup /\ url' = url /\ opened' = opened
  BY DEF SetChain, Move, Unset
<1>3. CASE chain # Blockcore /\ setup.current = chain
  <2>1. Emit(task)
    BY <1>3 DEF SetChain
  <2>2. setup'.baseUrl \in Chain \cup {Nothing}
    BY <1>1, <1>2
  <2>3. Fits(task', page', url, opened)
    BY <1>1, <1>2, <2>1, <2>2, EmitFits
  <2> QED BY <1>2, <2>3 DEF Inv
<1>4. CASE ~(chain # Blockcore /\ setup.current = chain)
  <2> DEFINE new == At(Services, Closed, <<"setup">>, chain)
  <2>1. new \in Task /\ new.page = Services /\ ServiceTask(new)
    BY ServiceTuples, ServiceAt
  <2>2. task' = Started(task, new) /\ page' = page
    BY <1>4 DEF SetChain
  <2> HIDE DEF new
  <2>3. Fits(Started(task, new), page, url, opened)
    BY <1>2, <2>1, ServiceStarts
  <2> QED BY <1>2, <2>2, <2>3 DEF Inv
<1> QED BY <1>3, <1>4

(* The setup of a chain comes.                                             *)
LEMMA SetupAnsweredFits ==
  ASSUME Inv, NEW i \in TaskId, SetupAnswered(i)
  PROVE  Inv'
<1> DEFINE others == [task EXCEPT ![i] = Nothing]
<1>1. task[i] # Nothing /\ Head(task[i].todo) = "setup" /\ url' = url /\ opened' = opened
  BY DEF SetupAnswered
<1>2. ServiceTask(task[i]) /\ Fits(others, page, url, opened) /\ Free(others) # {}
  BY <1>1, ServiceTaskFacts
<1>3. task[i].of \in Chain
  BY <1>1, <1>2, TodoFacts DEF ServiceTask
<1>4. CASE setup' = Adopted(task[i].of) /\ Emit(others)
  <2>1. /\ setup' \in [current : Chain, baseUrl : Chain \cup {Nothing}]
        /\ setup'.baseUrl \in Chain \cup {Nothing}
    BY <1>3, <1>4 DEF Adopted
  <2> HIDE DEF others
  <2>2. Fits(task', page', url, opened)
    BY <1>2, <1>4, <2>1, EmitFits
  <2> QED BY <1>1, <2>1, <2>2 DEF Inv
<1>5. CASE setup' = setup /\ task' = others /\ UNCHANGED page
  BY <1>1, <1>2, <1>5 DEF Inv
<1> QED BY <1>4, <1>5 DEF SetupAnswered

(* A search has its answer.                                                *)
LEMMA SearchAnsweredFits ==
  ASSUME Inv, NEW i \in TaskId, SearchAnswered(i)
  PROVE  Inv'
<1> DEFINE t == task[i]
           others == [task EXCEPT ![i] = Nothing]
           kind == IF Head(t.todo) = "blockOfHash" THEN "block" ELSE "transaction"
           found == [kind |-> kind, item |-> t.of]
           new == At(Services, Closed, Tail(t.todo), t.item)
<1>1. /\ t # Nothing /\ Head(t.todo) \in {"blockOfHash", "transactionOfHash"} /\ setup' = setup
      /\ \/ url = found /\ task' = others /\ UNCHANGED <<url, page, opened>>
         \/ url # found /\ Goto(kind, t.of, others)
         \/ task' = [task EXCEPT ![i] = new] /\ UNCHANGED <<url, page, opened>>
  BY DEF SearchAnswered
<1>2. /\ t.page = Services /\ ServiceTask(t) /\ Fits(others, page, url, opened)
      /\ Free(others) # {} /\ \A p \in PageId : TasksOf(p) = OwnTasks(others, p)
  BY <1>1, ServiceTaskFacts
<1>3. /\ t.todo \in {<<"blockOfHash", "transactionOfHash">>, <<"transactionOfHash">>}
      /\ t.item \in Item /\ t.of = t.item
  BY <1>1, <1>2, TodoFacts DEF ServiceTask
<1>4. Fits(task, page, url, opened) /\ setup.baseUrl \in Chain \cup {Nothing}
  BY DEF Inv
<1>5. CASE url = found /\ task' = others /\ UNCHANGED <<url, page, opened>>
  BY <1>1, <1>2, <1>5 DEF Inv
<1>6. CASE url # found /\ Goto(kind, t.of, others)
  <2>1. AddressFits(kind, t.of)
    BY <1>3, KindFacts DEF AddressFits
  <2>2. /\ Fits(task', page', url', opened')
        /\ url' \in {Nothing} \cup [kind : Kind, item : Item \cup {Nothing}]
    <3> HIDE DEF others, kind, t
    <3> QED BY <1>2, <1>4, <1>6, <2>1, GotoFits
  <2> QED BY <1>1, <2>2 DEF Inv
<1>7. CASE task' = [task EXCEPT ![i] = new] /\ UNCHANGED <<url, page, opened>>
  <2>1. new = Nothing \/ (new \in Task /\ new.page = Services /\ ServiceTask(new))
    <3>1. CASE t.todo = <<"blockOfHash", "transactionOfHash">>
      <4>1. Tail(t.todo) = <<"transactionOfHash">>
        BY <3>1, TodoFacts
      <4> HIDE DEF t
      <4> QED BY <1>3, <4>1, ServiceTuples, ServiceAt
    <3>2. CASE t.todo = <<"transactionOfHash">>
      <4>1. Tail(t.todo) = << >>
        BY <3>2, TodoFacts
      <4> QED BY <4>1 DEF At
    <3> QED BY <1>3, <3>1, <3>2
  <2> HIDE DEF new
  <2>2. Fits([task EXCEPT ![i] = new], page, url, opened)
    BY <1>2, <1>4, <2>1, ServiceStep
  <2> QED BY <1>1, <1>7, <2>2 DEF Inv
<1> QED BY <1>1, <1>5, <1>6, <1>7

LEMMA InitInv == Init => Inv
<1> SUFFICES ASSUME Init PROVE Inv
  OBVIOUS
<1>1. \A i \in TaskId : task[i] = Nothing
  BY DEF Init
<1>2. /\ Closed \in PageRecord /\ ~Closed.open /\ Closed.emitted = 0
      /\ \A s \in Polled : Closed.timers[s] = 0
  <2>1. << >> \in Seq(Part)
    OBVIOUS
  <2> QED BY <2>1 DEF Closed, PageRecord
<1>3. page \in [PageId -> PageRecord] /\ \A p \in PageId : page[p] = Closed
  BY <1>2 DEF Init
<1>4. TasksFit(task, page, opened)
  BY <1>1 DEF TasksFit
<1>5. PagesFit(page, url, opened)
  BY <1>2, <1>3 DEF PagesFit, PageFits
<1>6. LoopsFit(task, page)
  <2> SUFFICES ASSUME NEW p \in PageId, NEW s \in Polled
               PROVE  LoopFits(page[p], LoopsOf(task, page[p], p, s))
    BY DEF LoopsFit
  <2>1. LoopTasks(task, p, s) = {}
    BY <1>1 DEF LoopTasks, Runs
  <2>2. LoopsOf(task, page[p], p, s) = 0
    BY <1>2, <1>3, <2>1, FS_EmptySet DEF LoopsOf
  <2> QED BY <1>2, <1>3, <2>2 DEF LoopFits
<1>7. ShowsFit(task, page, url)
  BY <1>2, <1>3, ShowClosed DEF ShowsFit
<1>8. task \in [TaskId -> Task \cup {Nothing}] /\ opened \in 0..MaxPages
  BY PagesAssumption DEF Init
<1>9. setup \in [current : Chain, baseUrl : Chain \cup {Nothing}] /\ url = Nothing
  BY PagesAssumption DEF Init
<1> QED BY <1>3, <1>4, <1>5, <1>6, <1>7, <1>8, <1>9 DEF Inv, Fits

LEMMA NextInv == Inv /\ [Next]_vars => Inv'
<1> SUFFICES ASSUME Inv, [Next]_vars PROVE Inv'
  OBVIOUS
<1>1. ASSUME NEW kind \in Kind \ ItemKind, Navigate(kind, Nothing) PROVE Inv'
  BY <1>1, NavigateFits DEF AddressFits
<1>2. ASSUME NEW kind \in ItemKind, NEW item \in Item, Navigate(kind, item) PROVE Inv'
  BY <1>2, NavigateFits DEF AddressFits, Kind
<1>3. ASSUME NEW item \in Item, Search(item) PROVE Inv'
  BY <1>3, SearchFits
<1>4. ASSUME NEW chain \in Chain, SetChain(chain) PROVE Inv'
  BY <1>4, SetChainFits
<1>5. ASSUME NEW i \in TaskId, Answer(i) PROVE Inv'
  <2>1. Fits(task', page', url', opened') /\ setup' = setup /\ url' = url
    BY <1>5, AnswerFits DEF Answer
  <2> QED BY <2>1 DEF Inv
<1>6. ASSUME NEW i \in TaskId, Fail(i) PROVE Inv'
  <2>1. Fits(task', page', url', opened') /\ setup' = setup /\ url' = url
    BY <1>6, FailFits DEF Fail
  <2> QED BY <2>1 DEF Inv
<1>7. ASSUME NEW i \in TaskId, SetupAnswered(i) PROVE Inv'
  BY <1>7, SetupAnsweredFits
<1>8. ASSUME NEW i \in TaskId, SearchAnswered(i) PROVE Inv'
  BY <1>8, SearchAnsweredFits
<1>9. ASSUME NEW p \in PageId, Scroll(p) PROVE Inv'
  <2>1. Fits(task', page', url', opened') /\ setup' = setup /\ url' = url
    BY <1>9, ScrollFits DEF Scroll
  <2> QED BY <2>1 DEF Inv
<1>10. ASSUME NEW p \in PageId, NEW step \in Polled, Poll(p, step) PROVE Inv'
  <2>1. Fits(task', page', url', opened') /\ setup' = setup /\ url' = url
    BY <1>10, PollFits DEF Poll
  <2> QED BY <2>1 DEF Inv
<1>11. CASE UNCHANGED vars
  BY <1>11 DEF vars, Inv
<1> QED BY <1>1, <1>2, <1>3, <1>4, <1>5, <1>6, <1>7, <1>8, <1>9, <1>10, <1>11 DEF Next

LEMMA InvAlways == Spec => []Inv
  BY InitInv, NextInv, PTL DEF Spec

-----------------------------------------------------------------------------
(* What follows                                                            *)

LEMMA LoopsAreLoopsOf ==
  ASSUME NEW p, NEW step
  PROVE  Loops(p, step) = LoopsOf(task, page[p], p, step)
<1>1. {i \in TasksOf(p) : \E k \in DOMAIN task[i].todo : task[i].todo[k] = step}
        = LoopTasks(task, p, step)
  BY DEF TasksOf, LoopTasks, Runs, Includes
<1> QED BY <1>1 DEF Loops, LoopsOf

(* Every variable has its type, one page is open at a time, and a page has *)
(* no more loops than chains were emitted to it, whatever the user does    *)
(* and in whatever order requests are answered or fail and timers elapse   *)
(* (explorer.component.ts, lines 27 and 66; the router).                   *)
THEOREM TypeCorrect == Spec => []TypeOK
<1>1. Inv => TypeOK
  <2> SUFFICES ASSUME Inv PROVE TypeOK
    OBVIOUS
  <2>1. ASSUME NEW p \in PageId
        PROVE  /\ page[p].kind \in Kind \cup {Nothing}
               /\ page[p].list \in Seq(Part) /\ page[p].link \in Part \cup {Nothing}
               /\ \A step \in Polled : Loops(p, step) <= page[p].emitted
    <3>1. page[p] \in PageRecord
      BY DEF Inv, Fits
    <3>2. \A step \in Polled : Loops(p, step) <= page[p].emitted
      BY LoopsAreLoopsOf DEF Inv, Fits, LoopsFit, LoopFits
    <3> QED BY <3>1, <3>2 DEF PageRecord
  <2>2. Cardinality(OpenPages) <= 1
    <3>1. OpenPages \subseteq {opened}
      BY DEF OpenPages, Inv, Fits, PagesFit, PageFits
    <3>2. OpenPages = {} \/ OpenPages = {opened}
      BY <3>1
    <3>3. Cardinality({}) = 0 /\ Cardinality({opened}) = 1
      BY FS_EmptySet, FS_Singleton
    <3> QED BY <3>2, <3>3
  <2> QED BY <2>1, <2>2 DEF TypeOK, Inv, Fits
<1> QED BY <1>1, InvAlways, PTL

(* The requests go to the indexer of the chain that is current, in         *)
(* whatever order the setups of chains are answered (setChain,             *)
(* setup.service.ts line 58; loadSetup, api.service.ts line 73).           *)
THEOREM SetupOfCurrentChain == Spec => []BaseUrlIsOfCurrentChain
<1>1. Init => BaseUrlIsOfCurrentChain
  BY DEF Init, BaseUrlIsOfCurrentChain
<1>2. BaseUrlIsOfCurrentChain /\ [Next]_vars => BaseUrlIsOfCurrentChain'
  <2> SUFFICES ASSUME BaseUrlIsOfCurrentChain, [Next]_vars PROVE BaseUrlIsOfCurrentChain'
    OBVIOUS
  <2>1. ASSUME setup' = setup PROVE BaseUrlIsOfCurrentChain'
    BY <2>1 DEF BaseUrlIsOfCurrentChain
  <2>2. ASSUME NEW chain, setup' = Adopted(chain) PROVE BaseUrlIsOfCurrentChain'
    BY <2>2 DEF BaseUrlIsOfCurrentChain, Adopted
  <2>3. setup' = setup \/ \E chain : setup' = Adopted(chain)
    BY DEF Next, Navigate, Search, SetChain, Unset, Answer, Fail, SetupAnswered, SearchAnswered,
           Scroll, Poll, vars
  <2> QED BY <2>1, <2>2, <2>3
<1> QED BY <1>1, <1>2, PTL DEF Spec

(* A page that was not asked to load while it was loading, and lost no     *)
(* part of its list after the header, shows, once it rests, the item its   *)
(* address names, unless it shows an error, and the parts of that item's   *)
(* list in order, each once (block.component.ts, lines 45 and 133;         *)
(* address.component.ts, lines 45 and 76; blocks.component.ts, line 53).   *)
THEOREM RestingPageShows == Spec => []RestingPageShowsItem
<1>1. Inv => RestingPageShowsItem
  <2> SUFFICES ASSUME Inv, NEW p \in OpenPages, TasksOf(p) = {}, ~page[p].disturbed,
                      page[p].emitted <= 1
               PROVE  /\ page[p].kind \in {"block", "transaction"} =>
                           page[p].error \/ page[p].item = url.item
                      /\ page[p].list = [k \in DOMAIN page[p].list |->
                           [item |-> ItemOf(page[p], url), n |-> k]]
    BY DEF RestingPageShowsItem, ItemOf
  <2>1. p \in PageId /\ page[p].open /\ OwnTasks(task, p) = {}
    BY DEF OpenPages, TasksOf, OwnTasks
  <2>2. ShowFits(task, p, page[p], url) /\ PageFits(p, page[p], url, opened)
    BY <2>1 DEF Inv, Fits, ShowsFit, PagesFit
  <2>3. CASE page[p].kind # "explorer"
    BY <2>1, <2>2, <2>3 DEF ShowFits, Clean
  <2>4. CASE page[p].kind = "explorer"
    <3>1. page[p].list = << >>
      BY <2>1, <2>2, <2>4 DEF PageFits, ListKind
    <3> QED BY <2>4, <3>1
  <2> QED BY <2>3, <2>4
<1> QED BY <1>1, InvAlways, PTL

(* A page that was left while none of its requests was under way has       *)
(* stopped one of its loops of each kind: all of them if no chain was set  *)
(* while it was open (ngOnDestroy, explorer.component.ts line 37).         *)
THEOREM LeftPagesStop == Spec => []LeftPageStops
<1>1. Inv => LeftPageStops
  BY LoopsAreLoopsOf DEF Inv, Fits, LoopsFit, LoopFits, LeftPageStops
<1> QED BY <1>1, InvAlways, PTL
=============================================================================
