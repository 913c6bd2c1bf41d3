--------------------------- MODULE CrawlLifecycle ---------------------------
(***************************************************************************)
(* A crawl from its order to its forgetting: order messages redelivered by *)
(* the stream, the registry of crawls, the queue each crawl has on the     *)
(* frontier, the workers that visit pages, the limits they keep to, and    *)
(* the finisher.                                                           *)
(*                                                                         *)
(* The frontier is here only what Frontier is proved to promise: a worker  *)
(* ends or returns a visit only under the visit's latest lease, so a lease *)
(* is the name of the worker that has it.  Delays are left out: a visit    *)
(* returned can be leased again at once.  The URLs stand for the pages of  *)
(* one host.                                                               *)
(*                                                                         *)
(* Each transaction is one action, and so is each call to the network;     *)
(* between two of them a worker may be overtaken, lose its lease, or stop. *)
(***************************************************************************)
EXTENDS Integers, FiniteSets

CONSTANTS
  Crawls,        \* crawl IDs, each minted at most once
  Orders,        \* order IDs
  Messages,      \* messages of the order stream
  OrderIn,       \* [Messages -> Orders \cup {Unreadable}]: the order a message carries
  Unreadable,    \* what a message that carries no readable order carries
  Urls,          \* URLs of one host
  Seeds,         \* the URLs every order seeds its crawl with
  Links,         \* [Urls -> SUBSET Urls]: the admitted URLs a page leads to
  Workers,       \* workers of the page visit consumer
  Nobody,        \* no worker
  NoOrder,       \* no order
  Results,       \* what the fetch of a page may come to: a subset of AllResults
  MaxPages,      \* MaxPagesPerHost of every order, UnlimitedPagesPerHost for none
  DrainBatch,    \* visits dropped at once
  MaxDeferrals,  \* deferrals of one URL
  MaxAttempts,   \* attempts of one URL
  LimitsLapse,   \* whether a crawl may outlive what is kept of its limits
  MaxMishaps      \* bound of the model: failures, restarts and overruns in a behaviour

UnlimitedPagesPerHost == 0

\* "read": a page fetched and read; "unchanged": also one refused or unreadable;
\* "gone": also one oversized, rejected or redirected to an invalid target.
AllResults == {"read", "redirected", "unchanged", "gone", "deferred", "failed"}

ASSUME LifecycleAssumption ==
  /\ OrderIn \in [Messages -> Orders \cup {Unreadable}] /\ Unreadable \notin Orders
  /\ Seeds \subseteq Urls /\ Links \in [Urls -> SUBSET Urls]
  /\ Nobody \notin Workers /\ NoOrder \notin Orders
  /\ Results \subseteq AllResults
  /\ MaxPages \in Nat /\ MaxDeferrals \in Nat /\ MaxAttempts \in Nat
  /\ DrainBatch \in Nat \ {0}
  /\ LimitsLapse \in BOOLEAN /\ MaxMishaps \in Nat

VARIABLES
  intake,      \* [message]: "queued", "started" (its crawl is durable) or "done"
  crawlState,  \* [crawl]: its state, "none" before its start, "forgotten" in the end
  orderOf,     \* [crawl]: the order it runs for
  queueState,  \* [crawl]: "open", "paused" or "draining"
  visit,       \* [crawl][url]: "none", "pending" or "ended"
  leasedBy,    \* [crawl][url]: the worker with the latest lease, or Nobody
  worker,      \* [worker]: its stage and the visit it works on
  hostPages,   \* [crawl]: takenHostPageCount
  used,        \* [crawl][url]: usedAllowances
  recorded,    \* URLs with a page visit record
  fetched,     \* history: [crawl] the URLs whose page was fetched
  led,         \* history: [crawl] the URLs whose visit ended with a page that leads on
  mishaps       \* failures, restarts and overruns so far

queueVars == <<queueState, visit, leasedBy>>
crawlVars == <<crawlState, orderOf>>
limitVars == <<hostPages, used>>
historyVars == <<fetched, led>>
lifecycleVars == <<intake, crawlVars, queueVars, worker, limitVars, recorded, historyVars,
                   mishaps>>

CrawlStates == {"none", "running", "paused", "cancelling", "succeeded", "cancelled",
                "forgotten"}
Unfinished == {"running", "paused", "cancelling"}
Finished == {"succeeded", "cancelled"}
Kept == Unfinished \cup Finished

Stages == {"idle", "leased", "ordered", "held", "fetched", "published", "added",
           "concluding", "returning", "ending"}

NoVisit == [stage |-> "idle", crawl |-> Nobody, url |-> Nobody, result |-> "none"]
NothingUsed == [pageOfHost |-> FALSE, deferrals |-> 0, attempts |-> 0]

TypeOK ==
  /\ intake \in [Messages -> {"queued", "started", "done"}]
  /\ crawlState \in [Crawls -> CrawlStates]
  /\ orderOf \in [Crawls -> Orders \cup {NoOrder}]
  /\ queueState \in [Crawls -> {"open", "paused", "draining"}]
  /\ visit \in [Crawls -> [Urls -> {"none", "pending", "ended"}]]
  /\ leasedBy \in [Crawls -> [Urls -> Workers \cup {Nobody}]]
  /\ worker \in [Workers -> [stage : Stages \ {"idle"}, crawl : Crawls, url : Urls,
                             result : Results \cup {"none"}] \cup {NoVisit}]
  /\ hostPages \in [Crawls -> 0..MaxPages]
  /\ used \in [Crawls -> [Urls -> [pageOfHost : BOOLEAN, deferrals : 0..MaxDeferrals,
                                   attempts : 0..MaxAttempts]]]
  /\ recorded \subseteq Urls
  /\ fetched \in [Crawls -> SUBSET Urls]
  /\ led \in [Crawls -> SUBSET Urls]
  /\ mishaps \in 0..MaxMishaps

Pending(c) == {u \in Urls : visit[c][u] = "pending"}
Ended(c) == {u \in Urls : visit[c][u] = "ended"}

Mishap == mishaps < MaxMishaps /\ mishaps' = mishaps + 1

-----------------------------------------------------------------------------
(* Orders *)

KeptCrawlsOf(o) == {c \in Crawls : orderOf[c] = o /\ crawlState[c] \in Kept}

\* Fault: only crawls that are not finished are looked through.
UnfinishedCrawlsOf(o) == {c \in Crawls : orderOf[c] = o /\ crawlState[c] \in Unfinished}

\* The kept crawl of an order, finished or not, that an order sent again finds.
keptCrawlOfOrder(o) == KeptCrawlsOf(o)

\* The first order of an ID starts a crawl and seeds its queue in one transaction.
StartCrawl(m) ==
  /\ intake[m] = "queued" /\ OrderIn[m] # Unreadable
  /\ intake' = [intake EXCEPT ![m] = "started"]
  /\ IF keptCrawlOfOrder(OrderIn[m]) # {}
     THEN UNCHANGED <<crawlVars, visit>>
     ELSE \E c \in Crawls :
            /\ crawlState[c] = "none"
            /\ crawlState' = [crawlState EXCEPT ![c] = "running"]
            /\ orderOf' = [orderOf EXCEPT ![c] = OrderIn[m]]
            /\ visit' = [visit EXCEPT ![c] =
                           [u \in Urls |-> IF u \in Seeds THEN "pending" ELSE "none"]]
  /\ UNCHANGED <<queueState, leasedBy, worker, limitVars, recorded, historyVars,
                 mishaps>>

\* Fault: a message is acknowledged before its crawl is durable.
TakenIn(m) == intake[m] \in {"queued", "started"}

\* Whether a message may be acknowledged: its crawl is durable.
MayAcknowledge(m) == intake[m] = "started"

\* An order that cannot be read is acknowledged and leaves nothing.
RejectOrder(m) ==
  /\ intake[m] = "queued" /\ OrderIn[m] = Unreadable
  /\ intake' = [intake EXCEPT ![m] = "done"]
  /\ UNCHANGED <<crawlVars, queueVars, worker, limitVars, recorded, historyVars, mishaps>>

Acknowledge(m) ==
  /\ OrderIn[m] # Unreadable
  /\ MayAcknowledge(m)
  /\ intake' = [intake EXCEPT ![m] = "done"]
  /\ UNCHANGED <<crawlVars, queueVars, worker, limitVars, recorded, historyVars, mishaps>>

\* The stream delivers a message again: the crawler stopped before it acknowledged it,
\* or the acknowledgement was lost or came late.
Redeliver(m) ==
  /\ Mishap
  /\ intake[m] \in {"started", "done"}
  /\ intake' = [intake EXCEPT ![m] = "queued"]
  /\ UNCHANGED <<crawlVars, queueVars, worker, limitVars, recorded, historyVars>>

-----------------------------------------------------------------------------
(* The crawl and its queue *)

\* A change of state and what it does to the queue are one transaction.
ChangeState(c, from, next, queue) ==
  /\ crawlState[c] \in from
  /\ crawlState' = [crawlState EXCEPT ![c] = next]
  /\ queueState' = [queueState EXCEPT ![c] = queue]
  /\ UNCHANGED <<intake, orderOf, visit, leasedBy, worker, limitVars, recorded,
                 historyVars, mishaps>>

PauseQueueOf(c) == IF queueState[c] = "open" THEN "paused" ELSE queueState[c]

ResumeQueueOf(c) == IF queueState[c] = "paused" THEN "open" ELSE queueState[c]

\* Fault: only an open queue starts to drain.
DrainOpenQueueOf(c) == IF queueState[c] = "open" THEN "draining" ELSE queueState[c]

\* The queue of a crawl with nothing pending has nothing to drain.
DrainQueueOf(c) ==
  IF queueState[c] = "draining" \/ Pending(c) # {} THEN "draining" ELSE "open"

Pause(c) == ChangeState(c, {"running"}, "paused", PauseQueueOf(c))

Resume(c) == ChangeState(c, {"paused"}, "running", ResumeQueueOf(c))

Cancel(c) == ChangeState(c, {"running", "paused"}, "cancelling", DrainQueueOf(c))

\* A transaction drops a batch, leased visits too, with no mark that they ended.
Drain(c) ==
  /\ queueState[c] = "draining"
  /\ \E dropped \in SUBSET Pending(c) :
       /\ visit' = [visit EXCEPT ![c] =
                      [u \in Urls |-> IF u \in dropped THEN "none" ELSE @[u]]]
       /\ leasedBy' = [leasedBy EXCEPT ![c] =
                         [u \in Urls |-> IF u \in dropped THEN Nobody ELSE @[u]]]
       /\ \/ Cardinality(dropped) = DrainBatch /\ UNCHANGED queueState
          \/ /\ Cardinality(dropped) < DrainBatch /\ dropped = Pending(c)
             /\ queueState' = [queueState EXCEPT ![c] = "open"]
  /\ UNCHANGED <<intake, crawlVars, worker, limitVars, recorded, historyVars, mishaps>>

\* Fault: the finisher asks whether a visit can be leased.
HasNothingToLease(c) == \A u \in Pending(c) : leasedBy[c][u] # Nobody

hasNothingPending(c) == Pending(c) = {}

finishedStateFrom(state) == IF state = "cancelling" THEN "cancelled" ELSE "succeeded"

Finish(c) ==
  /\ crawlState[c] \in Unfinished
  /\ hasNothingPending(c)
  /\ crawlState' = [crawlState EXCEPT ![c] = finishedStateFrom(@)]
  /\ UNCHANGED <<intake, orderOf, queueVars, worker, limitVars, recorded, historyVars,
                 mishaps>>

\* A finished crawl outlived its retention: it goes, and its queue with it.
Forget(c) ==
  /\ crawlState[c] \in Finished
  /\ crawlState' = [crawlState EXCEPT ![c] = "forgotten"]
  /\ queueState' = [queueState EXCEPT ![c] = "open"]
  /\ visit' = [visit EXCEPT ![c] = [u \in Urls |-> "none"]]
  /\ leasedBy' = [leasedBy EXCEPT ![c] = [u \in Urls |-> Nobody]]
  /\ UNCHANGED <<intake, orderOf, worker, limitVars, recorded, historyVars, mishaps>>

\* What is kept of a crawl's limits expires while the crawl goes on.
LapseLimits(c) ==
  /\ LimitsLapse
  /\ crawlState[c] \in Unfinished
  /\ \/ /\ hostPages[c] > 0
        /\ hostPages' = [hostPages EXCEPT ![c] = 0]
        /\ UNCHANGED used
     \/ /\ \E u \in Urls : /\ used[c][u] # NothingUsed
                           /\ used' = [used EXCEPT ![c][u] = NothingUsed]
        /\ UNCHANGED hostPages
  /\ Mishap
  /\ UNCHANGED <<intake, crawlVars, queueVars, worker, recorded, historyVars>>

-----------------------------------------------------------------------------
(* A page visit: one lease, one worker *)

IsLeased(w, c, u) == visit[c][u] = "pending" /\ leasedBy[c][u] = w

At(w, stage) == worker[w].stage = stage
GoesTo(w, stage) == worker' = [worker EXCEPT ![w].stage = stage]

\* A worker without a visit leases one that nobody has a lease of.
Lease(w, c, u) ==
  /\ At(w, "idle")
  /\ queueState[c] = "open"
  /\ visit[c][u] = "pending" /\ leasedBy[c][u] = Nobody
  /\ leasedBy' = [leasedBy EXCEPT ![c][u] = w]
  /\ worker' = [worker EXCEPT ![w] =
                  [stage |-> "leased", crawl |-> c, url |-> u, result |-> "none"]]
  /\ UNCHANGED <<intake, crawlVars, queueState, visit, limitVars, recorded, historyVars,
                 mishaps>>

\* The order of a crawl that is no longer kept is not found.
FindOrder(w) ==
  /\ At(w, "leased")
  /\ GoesTo(w, IF crawlState[worker[w].crawl] \in Kept THEN "ordered" ELSE "returning")
  /\ UNCHANGED <<intake, crawlVars, queueVars, limitVars, recorded, historyVars, mishaps>>

\* Fault: one page more than the limit is taken.
HasRoomForOneMore(c) == hostPages[c] <= MaxPages

HasRoom(c) == hostPages[c] < MaxPages

\* A page of the host is taken once for a visit, however often it is leased.
TakePageOfHost(w) ==
  /\ At(w, "ordered")
  /\ LET c == worker[w].crawl  u == worker[w].url
         free == MaxPages = UnlimitedPagesPerHost \/ used[c][u].pageOfHost
     IN  \/ free /\ GoesTo(w, "held") /\ UNCHANGED limitVars
         \/ /\ ~free /\ HasRoom(c)
            /\ hostPages' = [hostPages EXCEPT ![c] = @ + 1]
            /\ used' = [used EXCEPT ![c][u].pageOfHost = TRUE]
            /\ GoesTo(w, "held")
         \/ ~free /\ ~HasRoom(c) /\ GoesTo(w, "ending") /\ UNCHANGED limitVars
  /\ UNCHANGED <<intake, crawlVars, queueVars, recorded, historyVars, mishaps>>

\* A page visited within the recrawl grace is not due: its visit is dropped.
DropNotDue(w) ==
  /\ At(w, "held")
  /\ worker[w].url \in recorded
  /\ GoesTo(w, "ending")
  /\ UNCHANGED <<intake, crawlVars, queueVars, limitVars, recorded, historyVars, mishaps>>

\* The grace may have passed, or the record may not have been read.
FetchAndRead(w) ==
  /\ At(w, "held")
  /\ \E result \in Results :
       worker' = [worker EXCEPT ![w].stage = "fetched", ![w].result = result]
  /\ fetched' = [fetched EXCEPT ![worker[w].crawl] = @ \cup {worker[w].url}]
  /\ UNCHANGED <<intake, crawlVars, queueVars, limitVars, recorded, led, mishaps>>

\* Only a page that was read is published; one that cannot be is returned.
PublishCrawledPage(w) ==
  /\ At(w, "fetched")
  /\ \/ GoesTo(w, "published") /\ UNCHANGED mishaps
     \/ worker[w].result = "read" /\ Mishap /\ GoesTo(w, "returning")
  /\ UNCHANGED <<intake, crawlVars, queueVars, limitVars, recorded, historyVars>>

LeadsOn(result) == result \in {"read", "redirected"}

nextPageVisitsFrom(w) == IF LeadsOn(worker[w].result) THEN Links[worker[w].url] ELSE {}

\* Fault: a queue takes visits only while it leases them.
TakesNextIfOpen(w) ==
  /\ visit[worker[w].crawl][worker[w].url] = "pending"
  /\ queueState[worker[w].crawl] = "open"

\* A queue takes visits unless it drains, from a visit that is still pending.
TakesNextOf(w) ==
  /\ visit[worker[w].crawl][worker[w].url] = "pending"
  /\ queueState[worker[w].crawl] # "draining"

PutOnFrontier(w) ==
  /\ At(w, "published")
  /\ LET c == worker[w].crawl
         added == IF TakesNextOf(w)
                  THEN {u \in nextPageVisitsFrom(w) : visit[c][u] = "none"} ELSE {}
     IN  visit' = [visit EXCEPT ![c] =
                     [u \in Urls |-> IF u \in added THEN "pending" ELSE @[u]]]
  /\ GoesTo(w, "added")
  /\ UNCHANGED <<intake, crawlVars, queueState, leasedBy, limitVars, recorded, historyVars,
                 mishaps>>

startsRecrawlGrace(result) == result \in {"read", "redirected", "unchanged"}

\* The visit is concluded whether or not its record could be written.
RecordPageVisit(w) ==
  /\ At(w, "added")
  /\ \/ /\ startsRecrawlGrace(worker[w].result)
        /\ recorded' = recorded \cup {worker[w].url}
        /\ UNCHANGED mishaps
     \/ ~startsRecrawlGrace(worker[w].result) /\ UNCHANGED <<recorded, mishaps>>
     \/ startsRecrawlGrace(worker[w].result) /\ Mishap /\ UNCHANGED recorded
  /\ GoesTo(w, "concluding")
  /\ UNCHANGED <<intake, crawlVars, queueVars, limitVars, historyVars>>

\* Storage fails under a worker: the visit is returned.
FailStorage(w) ==
  /\ Mishap
  /\ \/ worker[w].stage \in {"leased", "ordered", "published"}
     \/ At(w, "concluding") /\ worker[w].result \in {"deferred", "failed"}
  /\ GoesTo(w, "returning")
  /\ UNCHANGED <<intake, crawlVars, queueVars, limitVars, recorded, historyVars>>

Complete(w) ==
  /\ At(w, "concluding") /\ worker[w].result \notin {"deferred", "failed"}
  /\ GoesTo(w, "ending")
  /\ UNCHANGED <<intake, crawlVars, queueVars, limitVars, recorded, historyVars, mishaps>>

\* Fault: a deferral is not counted.
withUncountedDeferral(allowances) == allowances

withAnotherDeferral(allowances) == [allowances EXCEPT !.deferrals = @ + 1]

withAnotherAttempt(allowances) == [allowances EXCEPT !.attempts = @ + 1]

\* The allowances used are counted, or the limit is reached and the visit dropped.
TakeAllowance(w, withinLimit, withAnother) ==
  LET c == worker[w].crawl  u == worker[w].url
  IN  /\ IF withinLimit
         THEN used' = [used EXCEPT ![c][u] = withAnother] /\ GoesTo(w, "returning")
         ELSE UNCHANGED used /\ GoesTo(w, "ending")
      /\ UNCHANGED <<intake, crawlVars, queueVars, hostPages, recorded, historyVars,
                     mishaps>>

UsedBy(w) == used[worker[w].crawl][worker[w].url]

MayDefer(allowances) == allowances.deferrals < MaxDeferrals

\* A deferral that is too long is not taken at all.
TakeDeferral(w) ==
  /\ At(w, "concluding") /\ worker[w].result = "deferred"
  /\ \E short \in BOOLEAN :
       TakeAllowance(w, short /\ MayDefer(UsedBy(w)), withAnotherDeferral(UsedBy(w)))

TakeAttempt(w) ==
  /\ At(w, "concluding") /\ worker[w].result = "failed"
  /\ TakeAllowance(w, UsedBy(w).attempts < MaxAttempts, withAnotherAttempt(UsedBy(w)))

\* A visit ends once, under its latest lease; a worker overtaken changes nothing.
EndPageVisit(w) ==
  /\ At(w, "ending")
  /\ LET c == worker[w].crawl  u == worker[w].url
     IN  IF IsLeased(w, c, u)
         THEN /\ visit' = [visit EXCEPT ![c][u] = "ended"]
              /\ leasedBy' = [leasedBy EXCEPT ![c][u] = Nobody]
              /\ led' = IF LeadsOn(worker[w].result)
                        THEN [led EXCEPT ![c] = @ \cup {u}] ELSE led
         ELSE UNCHANGED <<visit, leasedBy, led>>
  /\ worker' = [worker EXCEPT ![w] = NoVisit]
  /\ UNCHANGED <<intake, crawlVars, queueState, limitVars, recorded, fetched, mishaps>>

ReturnPageVisit(w) ==
  /\ At(w, "returning")
  /\ LET c == worker[w].crawl  u == worker[w].url
     IN  leasedBy' = IF IsLeased(w, c, u) THEN [leasedBy EXCEPT ![c][u] = Nobody]
                     ELSE leasedBy
  /\ worker' = [worker EXCEPT ![w] = NoVisit]
  /\ UNCHANGED <<intake, crawlVars, queueState, visit, limitVars, recorded, historyVars,
                 mishaps>>

\* The crawler stops, or the end or return of a visit fails: its lease stands.
LoseVisit(w) ==
  /\ Mishap
  /\ ~At(w, "idle")
  /\ worker' = [worker EXCEPT ![w] = NoVisit]
  /\ UNCHANGED <<intake, crawlVars, queueVars, limitVars, recorded, historyVars>>

WorksOn(w, c, u) == worker[w].crawl = c /\ worker[w].url = u

ExpireLeaseOf(c, u) ==
  /\ visit[c][u] = "pending" /\ leasedBy[c][u] # Nobody
  /\ leasedBy' = [leasedBy EXCEPT ![c][u] = Nobody]
  /\ UNCHANGED <<intake, crawlVars, queueState, visit, worker, limitVars, recorded,
                 historyVars>>

\* A lease whose worker is gone runs out.
ExpireLease(c, u) ==
  ExpireLeaseOf(c, u) /\ ~WorksOn(leasedBy[c][u], c, u) /\ UNCHANGED mishaps

\* A lease runs out under its worker, who goes on.
OverrunLease(c, u) == ExpireLeaseOf(c, u) /\ WorksOn(leasedBy[c][u], c, u) /\ Mishap

-----------------------------------------------------------------------------
(* The specification *)

Init ==
  /\ intake = [m \in Messages |-> "queued"]
  /\ crawlState = [c \in Crawls |-> "none"]
  /\ orderOf = [c \in Crawls |-> NoOrder]
  /\ queueState = [c \in Crawls |-> "open"]
  /\ visit = [c \in Crawls |-> [u \in Urls |-> "none"]]
  /\ leasedBy = [c \in Crawls |-> [u \in Urls |-> Nobody]]
  /\ worker = [w \in Workers |-> NoVisit]
  /\ hostPages = [c \in Crawls |-> 0]
  /\ used = [c \in Crawls |-> [u \in Urls |-> NothingUsed]]
  /\ recorded = {}
  /\ fetched = [c \in Crawls |-> {}]
  /\ led = [c \in Crawls |-> {}]
  /\ mishaps = 0

OrderStep(m) == StartCrawl(m) \/ RejectOrder(m) \/ Acknowledge(m) \/ Redeliver(m)

CrawlStep(c) ==
  Pause(c) \/ Resume(c) \/ Cancel(c) \/ Drain(c) \/ Finish(c) \/ Forget(c) \/ LapseLimits(c)

\* What a worker does with the visit it leased.
VisitStep(w) ==
  \/ FindOrder(w) \/ TakePageOfHost(w) \/ DropNotDue(w) \/ FetchAndRead(w)
  \/ PublishCrawledPage(w) \/ PutOnFrontier(w) \/ RecordPageVisit(w)
  \/ Complete(w) \/ TakeDeferral(w) \/ TakeAttempt(w)
  \/ EndPageVisit(w) \/ ReturnPageVisit(w)

LeaseStep(c, u) ==
  (\E w \in Workers : Lease(w, c, u)) \/ ExpireLease(c, u) \/ OverrunLease(c, u)

Next ==
  \/ \E m \in Messages : OrderStep(m)
  \/ \E c \in Crawls : CrawlStep(c)
  \/ \E w \in Workers : VisitStep(w) \/ FailStorage(w) \/ LoseVisit(w)
  \/ \E c \in Crawls, u \in Urls : LeaseStep(c, u)

Spec == Init /\ [][Next]_lifecycleVars

\* The loops of the crawler go on: the workers, their leasing, the drain, the finisher,
\* and the clock that ends a lease.  Nobody is bound to change a crawl's state.
Fairness ==
  /\ \A w \in Workers : WF_lifecycleVars(VisitStep(w))
  /\ WF_lifecycleVars(\E w \in Workers, c \in Crawls, u \in Urls : Lease(w, c, u))
  /\ \A c \in Crawls : WF_lifecycleVars(Drain(c)) /\ WF_lifecycleVars(Finish(c))
  /\ \A c \in Crawls, u \in Urls : WF_lifecycleVars(ExpireLease(c, u))

FairSpec == Spec /\ Fairness

-----------------------------------------------------------------------------
(* Properties *)

\* However often an order is sent or delivered, at most one crawl of it is kept: Start
\* looks for one among the unfinished and the finished crawls (crawls.go).
OneKeptCrawlPerOrder == \A o \in Orders : Cardinality(KeptCrawlsOf(o)) <= 1

\* An order is acknowledged only once a crawl of it is durable: takeInOrder acknowledges
\* after the transaction that starts the crawl, however deliveries overlap.
AcknowledgedOrdersStarted ==
  \A m \in Messages :
    intake[m] = "done" /\ OrderIn[m] # Unreadable
      => \E c \in Crawls : orderOf[c] = OrderIn[m]

\* The state of the queue follows the state of the crawl, though two components keep
\* them: a paused crawl leases nothing, a cancelling one drains while anything is pending,
\* and one finished or forgotten has nothing left that could be leased.
QueueFollowsCrawl ==
  \A c \in Crawls :
    /\ crawlState[c] \in {"none", "running", "forgotten"} => queueState[c] = "open"
    /\ crawlState[c] = "paused" => queueState[c] = "paused"
    /\ crawlState[c] = "cancelling" => Pending(c) = {} \/ queueState[c] = "draining"
    /\ crawlState[c] \in Finished \cup {"forgotten"} => Pending(c) = {}

\* A crawl fetches no more pages of a host than its order allows, whatever its visits go
\* through: leases lost, taken twice, or returned after the page was taken.
HostPagesBounded ==
  MaxPages # UnlimitedPagesPerHost => \A c \in Crawls : Cardinality(fetched[c]) <= MaxPages

\* Until a crawl is cancelled, its seeds and whatever its completed visits lead to are
\* pending or ended: no crash, overrun or storage failure between reading a page, putting
\* its links on the frontier and ending its visit loses a page.
NothingIsLost ==
  \A c \in Crawls : crawlState[c] \in {"running", "paused", "succeeded"}
    => Seeds \cup UNION {Links[u] : u \in led[c]} \subseteq Pending(c) \cup Ended(c)

Promise == INSTANCE CrawlPromise WITH
             state <- crawlState,
             pending <- [c \in Crawls |-> Pending(c)],
             done <- [c \in Crawls |-> Ended(c)]

\* A crawl keeps what is promised of it: a visit ends once and is never pending again,
\* only a cancelled crawl drops visits, and a crawl finishes with none pending and takes
\* none afterwards.
KeepsItsPromise == Promise!Spec

\* A cancelled crawl gets cancelled: its queue drains even under workers that still visit
\* its pages, and the finisher finds it empty.
CancelledCrawlsEnd ==
  \A c \in Crawls : crawlState[c] = "cancelling" ~> crawlState[c] \in {"cancelled", "forgotten"}

\* A crawl that nobody pauses or cancels succeeds: each of its visits ends, however pages
\* are deferred or fail, since deferrals and attempts are limited and lost leases run out.
RunningCrawlsEnd ==
  \A c \in Crawls : crawlState[c] = "running" ~> crawlState[c] # "running"

=============================================================================
