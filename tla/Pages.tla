------------------------------- MODULE Pages --------------------------------
(***************************************************************************)
(* The explorer's pages of the web application (ClientApp/src/app): what   *)
(* each asks of the indexer when it opens, when its address or the chain   *)
(* changes, when its timers elapse and when the user scrolls, with answers *)
(* in any order; the router, the search box and SetupService.setChain.     *)
(*                                                                         *)
(* A task is a call of an async function that awaits a request.  What runs *)
(* between two requests is one step, up to the next request it makes.      *)
(***************************************************************************)
EXTENDS Naturals, Sequences, FiniteSets, SequencesExt

CONSTANTS
  Chain,        \* chains that can be chosen
  Blockcore,    \* the chain that is there at first
  Item,         \* blocks, transactions or addresses, as a page's address names them
  Parts,        \* a list has parts 1..Parts, each with a link to the next
  MaxPages,     \* bound: pages that are opened
  TaskId,       \* bound: tasks at one time
  MaxMoves,     \* bound: what the user does
  MaxFailures,  \* bound: requests that fail though the indexer is known
  Nothing       \* undefined or null

ASSUME PagesAssumption ==
  /\ MaxPages \in Nat /\ TaskId \subseteq Nat /\ IsFiniteSet(TaskId)
  /\ Blockcore \in Chain /\ Parts \in Nat \ {0}

PageId == 1..MaxPages

VARIABLES
  setup,  \* SetupService.current and ApiService.baseUrl
  url,    \* the router's address
  page,   \* page components, in the order they are opened
  opened, \* how many were
  task,   \* the tasks
  count   \* what the bounds count

vars == <<setup, url, page, opened, task, count>>

(* What the pages ask for, in order.  A request has the name of what its   *)
(* answer sets.                                                            *)
ExplorerAsks == <<"info", "latest">>
NetworkAsks == <<"status", "peers">>
TickerAsks == <<"ticker">>
BlocksAsks == <<"list">>
BlockAsks == <<"block", "last", "list">>
AddressAsks == <<"balance", "list">>
TransactionAsks == <<"transaction">>

(* These do at every chain that SetupService emits while they are open,    *)
(* the first when they open;                                               *)
OnChain == [explorer |-> ExplorerAsks, network |-> NetworkAsks, ticker |-> TickerAsks,
            blocks |-> BlocksAsks]

(* and these at every address that the router emits, which names an item.  *)
OnParam == [block |-> BlockAsks, address |-> AddressAsks, transaction |-> TransactionAsks]

ItemKind == DOMAIN OnParam

(* The routes, those of the pages that ask the indexer for nothing as one. *)
Kind == DOMAIN OnChain \cup ItemKind \cup {"other"}

(* What a page asks for when it opens.                                     *)
OnOpen(kind) ==
  IF kind \in DOMAIN OnChain THEN OnChain[kind]
  ELSE IF kind \in ItemKind THEN OnParam[kind] ELSE << >>

(* The pages that show the search box.                                     *)
Searchable == {"explorer", "blocks", "block", "transaction", "address"}

(* Requests whose failure is caught in the function that makes them.       *)
Caught == {"info", "latest", "ticker", "block", "transaction"}

(* Functions that set a timer to call themselves again.                    *)
Polled == {"info", "latest"}

(* The pages that call them.                                               *)
Polling == {kind \in DOMAIN OnChain : ToSet(OnChain[kind]) \cap Polled # {}}

(* All that is asked for.                                                  *)
Request ==
  {"info", "latest", "status", "peers", "ticker", "list", "block", "last", "balance",
   "transaction", "setup", "blockOfHash", "transactionOfHash"}

(* No component: the services' own tasks.                                  *)
Services == 0

(* A part of a list, of an item or, on the page of all blocks, of nothing. *)
Part == [item : Item \cup {Nothing}, n : 1..Parts]

(* What a task is: the page it belongs to, what it has still to ask for,   *)
(* the item and the indexer it was called with, whether the header of its  *)
(* answer is there, and what it is asking for.                             *)
Task ==
  [page : PageId \cup {Services}, todo : Seq(Request), item : Item \cup Chain \cup {Nothing},
   from : Chain \cup {Nothing}, body : BOOLEAN,
   of : Item \cup Chain \cup {Nothing} \cup Part]

ASSUME NothingIsNone ==
  Nothing \notin Item \cup Chain \cup Kind \cup Part \cup Task

Closed ==
  [kind |-> Nothing, open |-> FALSE, item |-> Nothing, error |-> FALSE, chain |-> Nothing,
   list |-> << >>, link |-> Nothing,
   timers |-> [f \in Polled |-> 0], emitted |-> 0, disturbed |-> FALSE, busy |-> FALSE]

Free(tasks) == {i \in TaskId : tasks[i] = Nothing}

Init ==
  /\ setup = [current |-> Blockcore, baseUrl |-> Nothing]
  /\ url = Nothing
  /\ page = [p \in PageId |-> Closed]
  /\ task = [i \in TaskId |-> Nothing]
  /\ opened = 0
  /\ count = [moves |-> 0, failures |-> 0]

(* The user does something.                                                *)
Move ==
  /\ count.moves < MaxMoves /\ Free(task) # {}
  /\ count' = [count EXCEPT !.moves = @ + 1]

OpenPages == {p \in PageId : page[p].open}

TasksOf(p) == {i \in TaskId : task[i] # Nothing /\ task[i].page = p}

-----------------------------------------------------------------------------
(* Tasks                                                                   *)

(* The first part of the list of a page: of the block that is shown, of    *)
(* the address it was called with, or of all blocks.                       *)
FirstPart(pg, item) ==
  [item |-> IF pg.kind = "block" THEN pg.item ELSE item, n |-> 1]

(* A list cannot be asked for before the chain's indexer is known, nor     *)
(* that of a block that is not there: the function throws.                 *)
Throws(pg, todo) ==
  Head(todo) = "list"
  /\ (setup.baseUrl = Nothing \/ (pg.kind = "block" /\ pg.item = Nothing))

(* There is nothing to ask for: no ticker is configured.                   *)
Skips(todo) == Head(todo) = "ticker" /\ setup.baseUrl = Nothing

(* The task of page p that has still to do todo, at its next request.      *)
At(p, pg, todo, item) ==
  IF todo = << >> \/ Throws(pg, todo) \/ Skips(todo)
    THEN Nothing
    ELSE [page |-> p, todo |-> todo, item |-> item, from |-> setup.baseUrl, body |-> FALSE,
          of |-> IF Head(todo) = "list" THEN FirstPart(pg, item) ELSE item]

(* A new task among the others.                                            *)
Started(tasks, new) ==
  IF new = Nothing THEN tasks ELSE [tasks EXCEPT ![Min(Free(tasks))] = new]

(* The page is asked to load, maybe while it is loading.                   *)
Asked(pg, tasks, p) ==
  [pg EXCEPT !.disturbed = @ \/ \E i \in TaskId : tasks[i] # Nothing /\ tasks[i].page = p]

-----------------------------------------------------------------------------
(* The router                                                              *)

(* Mutant: what the page showed stays.                                     *)
KeepTransactions(pg) == pg

(* What a page forgets when its address changes.                           *)
Forget(pg) == [pg EXCEPT !.list = << >>]

(* Mutant: one of the timers is not cleared.                               *)
ClearInfoTimer(timers) == [timers EXCEPT !["info"] = IF @ > 0 THEN @ - 1 ELSE 0]

(* ngOnDestroy clears the page's two timers, of each the one that was set  *)
(* last.                                                                   *)
ClearTimers(timers) == [f \in Polled |-> IF timers[f] > 0 THEN timers[f] - 1 ELSE 0]

(* A page that is left unsubscribes.  What it shows is seen by nobody      *)
(* anymore, its timers and the functions that set them remain.             *)
Left(p) ==
  IF page[p].kind \notin Polling THEN Closed
  ELSE [Closed EXCEPT !.timers = ClearTimers(page[p].timers), !.emitted = page[p].emitted,
                      !.busy = TasksOf(p) # {}]

(* A task of the open page that matters to nobody once the page is left.   *)
Forgotten(t) ==
  t # Nothing /\ t.page \in OpenPages /\ ToSet(t.todo) \cap Polled = {}

(* The router's address becomes that of a page: the component stays when   *)
(* the route is the same and gets the new item, otherwise it is destroyed  *)
(* and another constructed.                                                *)
Goto(kind, item, tasks) ==
  /\ url' = [kind |-> kind, item |-> item]
  /\ IF \E p \in OpenPages : page[p].kind = kind
       THEN LET p == CHOOSE q \in OpenPages : TRUE
                pg == Forget(Asked(page[p], tasks, p))
            IN /\ page' = [page EXCEPT ![p] = pg]
               /\ task' = Started(tasks, At(p, pg, OnParam[kind], item))
               /\ UNCHANGED opened
       ELSE /\ opened < MaxPages
            /\ opened' = opened + 1
            /\ LET new == opened + 1
                   pg == [Closed EXCEPT !.kind = kind, !.open = TRUE,
                                        !.emitted = IF kind \in DOMAIN OnChain THEN 1 ELSE 0]
                   left == [i \in TaskId |-> IF Forgotten(tasks[i]) THEN Nothing ELSE tasks[i]]
               IN /\ page' = [p \in PageId |->
                       CASE p = new -> pg [] p \in OpenPages -> Left(p) [] OTHER -> page[p]]
                  /\ task' = Started(left, At(new, pg, OnOpen(kind), item))

(* The user follows a link, or presses a key on the page of a block.       *)
Navigate(kind, item) ==
  /\ Move
  /\ url # [kind |-> kind, item |-> item]
  /\ Goto(kind, item, task)
  /\ UNCHANGED setup

(* SearchComponent.search, for a height or an address, or for a hash: of a *)
(* block, or else of a transaction.                                        *)
Search(item) ==
  /\ Move
  /\ \E p \in OpenPages : page[p].kind \in Searchable
  /\ \/ \E kind \in {"block", "address"} :
          url # [kind |-> kind, item |-> item] /\ Goto(kind, item, task)
     \/ /\ TasksOf(Services) = {}
        /\ task' = Started(task,
                    At(Services, Closed, <<"blockOfHash", "transactionOfHash">>, item))
        /\ UNCHANGED <<url, page, opened>>
  /\ UNCHANGED setup

-----------------------------------------------------------------------------
(* The chain                                                               *)

(* The open page, if it is subscribed, starts to load for the chain.       *)
Emit(tasks) ==
  LET subscribed == {p \in OpenPages : page[p].kind \in DOMAIN OnChain}
  IN IF subscribed = {}
       THEN UNCHANGED page /\ task' = tasks
       ELSE LET p == CHOOSE q \in subscribed : TRUE
                pg == [Asked(page[p], tasks, p) EXCEPT !.emitted = @ + 1]
                todo == OnChain[pg.kind]
            IN /\ page' = [page EXCEPT ![p] = pg]
               /\ task' = Started(tasks,
                    [page |-> p, todo |-> todo, item |-> Nothing, from |-> setup'.baseUrl,
                     body |-> FALSE, of |-> IF Head(todo) = "list"
                                              THEN FirstPart(pg, Nothing) ELSE Nothing])

(* Mutant: the chain is set before its setup is there.                     *)
SetAtOnce(chain) == [setup EXCEPT !.current = chain]

(* setChain before its first await.                                        *)
Unset(chain) == setup

(* SetupService.setChain: emits the chain again when it is the same,       *)
(* otherwise asks for its setup first.  LoadingResolverService is to call  *)
(* it for every address; its call is commented out.                        *)
SetChain(chain) ==
  /\ Move
  /\ IF chain # Blockcore /\ setup.current = chain
       THEN UNCHANGED <<setup, url>> /\ Emit(task)
       ELSE /\ setup' = Unset(chain)
            /\ task' = Started(task, At(Services, Closed, <<"setup">>, chain))
            /\ UNCHANGED <<url, page>>
  /\ UNCHANGED opened

-----------------------------------------------------------------------------
(* Answers                                                                 *)

(* Mutant: the function returns when its request has failed.               *)
RearmWhenAnswered(pg, step, failed) ==
  IF step \in Polled /\ ~failed THEN [pg EXCEPT !.timers[step] = @ + 1] ELSE pg

(* Mutant: a second timer is set.                                          *)
RearmTwice(pg, step, failed) ==
  IF step \in Polled THEN [pg EXCEPT !.timers[step] = @ + 2] ELSE pg

(* The last lines of updateInfo and updateBlocks, reached whether or not   *)
(* the request failed.                                                     *)
Rearm(pg, step, failed) ==
  IF step \in Polled THEN [pg EXCEPT !.timers[step] = @ + 1] ELSE pg

(* The link to the next part.                                              *)
NextPart(part) == IF part.n < Parts THEN [part EXCEPT !.n = @ + 1] ELSE Nothing

(* The page once a step has its answer.                                    *)
Answered(pg, step, t) ==
  Rearm(IF ~pg.open THEN pg
        ELSE IF step = "latest" THEN [pg EXCEPT !.chain = t.from]
        ELSE IF step \in {"block", "transaction"} THEN [pg EXCEPT !.item = t.of, !.error = FALSE]
        ELSE pg, step, FALSE)

(* The page once a request has failed that is caught.                      *)
Failed(pg, step) ==
  Rearm([pg EXCEPT !.error = @ \/ step \in {"block", "transaction"}], step, TRUE)

(* Task i goes on after a step, with its page as it is then.               *)
Continue(i, pg) ==
  LET t == task[i]
  IN /\ page' = [page EXCEPT ![t.page] = pg]
     /\ task' = [task EXCEPT ![i] = At(t.page, pg, Tail(t.todo), t.item)]

(* The header of a part of a list is there: the link is taken from it.     *)
Linked(pg, part) == [pg EXCEPT !.link = NextPart(part)]

(* And the body: the items are added to the list.                          *)
Listed(pg, part) == [pg EXCEPT !.list = Append(@, part)]

(* A request to the indexer is answered.                                   *)
Answer(i) ==
  /\ task[i] # Nothing /\ task[i].page # Services /\ task[i].from # Nothing
  /\ LET t == task[i]
         pg == page[t.page]
         step == Head(t.todo)
     IN CASE step # "list" -> Continue(i, Answered(pg, step, t))
          [] step = "list" /\ ~t.body ->
               /\ page' = [page EXCEPT ![t.page] = Linked(pg, t.of)]
               /\ task' = [task EXCEPT ![i].body = TRUE]
          [] OTHER -> Continue(i, Listed(pg, t.of))
  /\ UNCHANGED <<setup, url, opened, count>>

(* It fails, as it always does while there is no indexer: the function     *)
(* goes on where that is caught, and ends otherwise.  A part of a list     *)
(* that fails after its header is skipped: the page's link is past it.     *)
Fail(i) ==
  /\ task[i] # Nothing /\ task[i].page # Services
  /\ task[i].from # Nothing => count.failures < MaxFailures
  /\ count' = IF task[i].from = Nothing THEN count ELSE [count EXCEPT !.failures = @ + 1]
  /\ LET t == task[i]
         step == Head(t.todo)
     IN IF step \in Caught
          THEN Continue(i, Failed(page[t.page], step))
          ELSE /\ task' = [task EXCEPT ![i] = Nothing]
               /\ page' = [page EXCEPT ![t.page].disturbed = @ \/ t.body]
  /\ UNCHANGED <<setup, url, opened>>

(* setChain once the setup is there; loadSetup has set baseUrl.            *)
Adopted(chain) == [current |-> chain, baseUrl |-> chain]

(* The setup of a chain comes: its indexer and the chain are set and the   *)
(* chain is emitted, or the call fails and nothing changes.                *)
SetupAnswered(i) ==
  /\ task[i] # Nothing /\ Head(task[i].todo) = "setup"
  /\ LET others == [task EXCEPT ![i] = Nothing]
     IN \/ /\ setup' = Adopted(task[i].of)
           /\ Emit(others)
        \/ /\ setup' = setup
           /\ task' = others /\ UNCHANGED page
  /\ UNCHANGED <<url, opened, count>>

(* The search finds a block, or goes on to transactions and finds one or   *)
(* nothing: the router goes there, wherever the user is by then.           *)
SearchAnswered(i) ==
  /\ task[i] # Nothing /\ Head(task[i].todo) \in {"blockOfHash", "transactionOfHash"}
  /\ LET t == task[i]
         others == [task EXCEPT ![i] = Nothing]
         kind == IF Head(t.todo) = "blockOfHash" THEN "block" ELSE "transaction"
         found == [kind |-> kind, item |-> t.of]
     IN \/ /\ t.from # Nothing
           /\ IF url = found THEN task' = others /\ UNCHANGED <<url, page, opened>>
              ELSE Goto(kind, t.of, others)
        \/ /\ task' = [task EXCEPT ![i] = At(Services, Closed, Tail(t.todo), t.item)]
           /\ UNCHANGED <<url, page, opened>>
  /\ UNCHANGED <<setup, count>>

-----------------------------------------------------------------------------
(* Timers and the user on a page                                           *)

(* The 15 seconds of updateInfo or updateBlocks have passed.               *)
Poll(p, step) ==
  /\ page[p].timers[step] > 0 /\ Free(task) # {}
  /\ page' = [page EXCEPT ![p].timers[step] = @ - 1]
  /\ task' = Started(task, At(p, page[p], <<step>>, Nothing))
  /\ UNCHANGED <<setup, url, opened, count>>

(* The list of a page is scrolled to its bottom.                           *)
IsReachingBottom(pg) == pg.open /\ pg.list # << >>

(* onScroll: the part that the link names is asked for.                    *)
Scroll(p) ==
  /\ Move
  /\ IsReachingBottom(page[p]) /\ page[p].link # Nothing
  /\ page' = [page EXCEPT ![p] = Asked(page[p], task, p)]
  /\ task' = Started(task, [page |-> p, todo |-> <<"list">>, item |-> page[p].link.item,
                            from |-> setup.baseUrl, body |-> FALSE, of |-> page[p].link])
  /\ UNCHANGED <<setup, url, opened>>

Next ==
  \/ \E kind \in Kind \ ItemKind : Navigate(kind, Nothing)
  \/ \E kind \in ItemKind, item \in Item : Navigate(kind, item)
  \/ \E item \in Item : Search(item)
  \/ \E chain \in Chain : SetChain(chain)
  \/ \E i \in TaskId : Answer(i) \/ Fail(i) \/ SetupAnswered(i) \/ SearchAnswered(i)
  \/ \E p \in PageId : Scroll(p) \/ \E step \in Polled : Poll(p, step)

Spec == Init /\ [][Next]_vars

(* The browser ends every request, and timers elapse.  Nothing is assumed  *)
(* of the user.                                                            *)
Fairness ==
  /\ \A i \in TaskId :
       WF_vars(Answer(i) \/ Fail(i) \/ SetupAnswered(i) \/ SearchAnswered(i))
  /\ \A p \in PageId, step \in Polled : SF_vars(Poll(p, step))

FairSpec == Spec /\ Fairness

-----------------------------------------------------------------------------
(* Properties                                                              *)

Loops(p, step) ==
  page[p].timers[step] + Cardinality({i \in TasksOf(p) : \E k \in DOMAIN task[i].todo :
                                                            task[i].todo[k] = step})

(* Every variable has its type, one page is open at a time, and a page has *)
(* no more loops of updateInfo and updateBlocks than chains were emitted   *)
(* to it (explorer.component.ts, lines 27 and 66).                         *)
TypeOK ==
  /\ setup \in [current : Chain, baseUrl : Chain \cup {Nothing}]
  /\ url \in {Nothing} \cup [kind : Kind, item : Item \cup {Nothing}]
  /\ \A p \in PageId :
       /\ page[p].kind \in Kind \cup {Nothing}
       /\ page[p].list \in Seq(Part) /\ page[p].link \in Part \cup {Nothing}
       /\ \A step \in Polled : Loops(p, step) <= page[p].emitted
  /\ task \in [TaskId -> Task \cup {Nothing}]
  /\ Cardinality(OpenPages) <= 1

(* The requests go to the indexer of the chain that is current, in         *)
(* whatever order setups are answered (setChain, setup.service.ts line 58; *)
(* loadSetup, api.service.ts line 73).                                     *)
BaseUrlIsOfCurrentChain == setup.baseUrl \in {Nothing, setup.current}

(* A page that was not asked to load while it was loading, and lost no     *)
(* part of its list after the header, shows, once it rests, the item its   *)
(* address names, unless it shows an error, and the parts of that item's   *)
(* list in order, each once, however the user scrolled and went from item  *)
(* to item (block.component.ts, lines 45 and 133; address.component.ts,    *)
(* lines 45 and 76; blocks.component.ts, line 53).                         *)
RestingPageShowsItem ==
  \A p \in OpenPages :
    TasksOf(p) = {} /\ ~page[p].disturbed /\ page[p].emitted <= 1 =>
      LET pg == page[p]
          item == IF pg.kind = "block" THEN pg.item ELSE url.item
      IN /\ pg.kind \in {"block", "transaction"} => pg.error \/ pg.item = url.item
         /\ pg.list = [k \in DOMAIN pg.list |-> [item |-> item, n |-> k]]

(* A page that was left while none of its requests was under way has       *)
(* stopped one of its loops of each kind: all of them if no chain was set  *)
(* while it was open (ngOnDestroy, explorer.component.ts line 37).         *)
LeftPageStops ==
  \A p \in PageId : \A step \in Polled :
    ~page[p].open /\ ~page[p].busy => Loops(p, step) = 0 \/ Loops(p, step) < page[p].emitted

(* An explorer page that stays open comes to show the blocks of the chain  *)
(* that is current, whatever answers were late or failed: the timers go on *)
(* (updateBlocks, explorer.component.ts line 43).                          *)
ExplorerCatchesUp ==
  \A p \in PageId :
    <>[](page[p].open /\ page[p].kind = "explorer") =>
      <>[](setup.baseUrl # Nothing => page[p].chain = setup.current)
=============================================================================
