------------------------ MODULE CrawlLifecycleProofs ------------------------
(***************************************************************************)
(* Proofs about CrawlLifecycle, for any crawls, orders, messages, pages,   *)
(* links, workers, limits and number of mishaps.                           *)
(***************************************************************************)
EXTENDS CrawlLifecycle, TLAPS, FiniteSetTheorems

-----------------------------------------------------------------------------
(* Types *)

CrawlTypes ==
  /\ intake \in [Messages -> {"queued", "started", "done"}]
  /\ crawlState \in [Crawls -> CrawlStates]
  /\ orderOf \in [Crawls -> Orders \cup {NoOrder}]

QueueTypes ==
  /\ queueState \in [Crawls -> {"open", "paused", "draining"}]
  /\ visit \in [Crawls -> [Urls -> {"none", "pending", "ended"}]]
  /\ leasedBy \in [Crawls -> [Urls -> Workers \cup {Nobody}]]

Work == [stage : Stages \ {"idle"}, crawl : Crawls, url : Urls, result : Results \cup {"none"}]

WorkerTypes == worker \in [Workers -> Work \cup {NoVisit}]

LimitTypes ==
  /\ hostPages \in [Crawls -> 0..MaxPages]
  /\ used \in [Crawls -> [Urls -> [pageOfHost : BOOLEAN, deferrals : 0..MaxDeferrals,
                                   attempts : 0..MaxAttempts]]]

HistoryTypes ==
  /\ recorded \subseteq Urls
  /\ fetched \in [Crawls -> SUBSET Urls]
  /\ led \in [Crawls -> SUBSET Urls]

LEMMA TypesInParts ==
  TypeOK <=> /\ CrawlTypes /\ QueueTypes /\ WorkerTypes /\ LimitTypes /\ HistoryTypes
             /\ mishaps \in 0..MaxMishaps
BY DEF TypeOK, CrawlTypes, QueueTypes, WorkerTypes, Work, LimitTypes, HistoryTypes

LEMMA TypesAtFirst == Init => TypeOK
<1> SUFFICES ASSUME Init PROVE TypeOK
  OBVIOUS
<1>1. NothingUsed \in [pageOfHost : BOOLEAN, deferrals : 0..MaxDeferrals, attempts : 0..MaxAttempts]
  BY LifecycleAssumption DEF NothingUsed
<1>2. LimitTypes
  BY <1>1, LifecycleAssumption DEF Init, LimitTypes
<1>3. CrawlTypes /\ QueueTypes /\ WorkerTypes /\ HistoryTypes
  BY DEF Init, CrawlTypes, QueueTypes, WorkerTypes, HistoryTypes, CrawlStates
<1>4. mishaps \in 0..MaxMishaps
  BY LifecycleAssumption DEF Init
<1> QED
  BY <1>2, <1>3, <1>4, TypesInParts

\* A worker that is not idle works on a visit.
LEMMA WorksOnAVisit ==
  ASSUME TypeOK, NEW w \in Workers, worker[w].stage # "idle"
  PROVE  worker[w] \in Work /\ worker[w].crawl \in Crawls /\ worker[w].url \in Urls
BY DEF TypeOK, Work, NoVisit

-----------------------------------------------------------------------------
(* What a step does to the workers *)

\* A worker leases a visit, goes on with it, fetches its page, or is through with it.
TakesUp(w) ==
  \E c \in Crawls, u \in Urls :
    /\ At(w, "idle") /\ visit[c][u] = "pending"
    /\ worker' = [worker EXCEPT ![w] =
                    [stage |-> "leased", crawl |-> c, url |-> u, result |-> "none"]]

\* The stages a worker can come from.
ComesTo(w, s) ==
  /\ s # "leased"
  /\ s = "ordered" => At(w, "leased")
  /\ s = "held" => TakePageOfHost(w)
  /\ s = "added" => PutOnFrontier(w)
  /\ s = "concluding" => At(w, "added")
  /\ s = "ending" => worker[w].stage \in {"ordered", "held", "concluding"}

GoesOn(w) == ~At(w, "idle") /\ \E s \in Stages \ {"idle"} : GoesTo(w, s) /\ ComesTo(w, s)

Fetches(w) ==
  /\ At(w, "held")
  /\ \E result \in Results :
       worker' = [worker EXCEPT ![w].stage = "fetched", ![w].result = result]

IsThrough(w) == ~At(w, "idle") /\ worker' = [worker EXCEPT ![w] = NoVisit]

LEMMA StepsOfWorkers ==
  ASSUME [Next]_lifecycleVars
  PROVE  \/ worker' = worker
         \/ \E w \in Workers : TakesUp(w) \/ GoesOn(w) \/ Fetches(w) \/ IsThrough(w)
<1>1. CASE UNCHANGED lifecycleVars
  BY <1>1 DEF lifecycleVars
<1>2. ASSUME NEW m \in Messages, OrderStep(m) PROVE worker' = worker
  BY <1>2 DEF OrderStep, StartCrawl, RejectOrder, Acknowledge, Redeliver
<1>3. ASSUME NEW c \in Crawls, CrawlStep(c) PROVE worker' = worker
  BY <1>3 DEF CrawlStep, Pause, Resume, Cancel, ChangeState, Drain, Finish, Forget, LapseLimits
<1>4. ASSUME NEW w \in Workers, VisitStep(w) \/ FailStorage(w) \/ LoseVisit(w)
      PROVE  GoesOn(w) \/ Fetches(w) \/ IsThrough(w)
  <2>1. CASE FindOrder(w) \/ DropNotDue(w) \/ PublishCrawledPage(w)
    BY <2>1 DEF FindOrder, DropNotDue, PublishCrawledPage, At, GoesOn, ComesTo, Stages
  <2>6. CASE TakePageOfHost(w)
    <3>1. At(w, "ordered") /\ (GoesTo(w, "held") \/ GoesTo(w, "ending"))
      BY <2>6 DEF TakePageOfHost
    <3> QED
      BY <2>6, <3>1 DEF At, GoesOn, ComesTo, Stages
  <2>7. CASE PutOnFrontier(w)
    <3>1. At(w, "published") /\ GoesTo(w, "added")
      BY <2>7 DEF PutOnFrontier
    <3> QED
      BY <2>7, <3>1 DEF At, GoesOn, ComesTo, Stages
  <2>2. CASE RecordPageVisit(w) \/ Complete(w) \/ FailStorage(w)
    BY <2>2 DEF RecordPageVisit, Complete, FailStorage, At, GoesOn, ComesTo, Stages
  <2>3. CASE TakeDeferral(w) \/ TakeAttempt(w)
    BY <2>3 DEF TakeDeferral, TakeAttempt, TakeAllowance, At, GoesOn, ComesTo, Stages
  <2>4. CASE FetchAndRead(w)
    BY <2>4 DEF FetchAndRead, Fetches
  <2>5. CASE EndPageVisit(w) \/ ReturnPageVisit(w) \/ LoseVisit(w)
    BY <2>5 DEF EndPageVisit, ReturnPageVisit, LoseVisit, At, IsThrough
  <2> QED
    BY <1>4, <2>1, <2>2, <2>3, <2>4, <2>5, <2>6, <2>7 DEF VisitStep
<1>5. ASSUME NEW c \in Crawls, NEW u \in Urls, LeaseStep(c, u)
      PROVE  worker' = worker \/ \E w \in Workers : TakesUp(w)
  BY <1>5 DEF LeaseStep, Lease, ExpireLease, OverrunLease, ExpireLeaseOf, TakesUp
<1> QED
  BY <1>1, <1>2, <1>3, <1>4, <1>5 DEF Next

LEMMA WorkerTypesKept ==
  ASSUME TypeOK, [Next]_lifecycleVars
  PROVE  WorkerTypes'
<1>0. worker \in [Workers -> Work \cup {NoVisit}]
  BY TypesInParts DEF WorkerTypes
<1>1. ASSUME NEW w \in Workers, NEW after \in Work \cup {NoVisit},
             worker' = [worker EXCEPT ![w] = after]
      PROVE  WorkerTypes'
  BY <1>0, <1>1 DEF WorkerTypes
<1>2. ASSUME NEW w \in Workers, TakesUp(w) PROVE WorkerTypes'
  <2>1. PICK c \in Crawls, u \in Urls :
          worker' = [worker EXCEPT ![w] =
                       [stage |-> "leased", crawl |-> c, url |-> u, result |-> "none"]]
    BY <1>2 DEF TakesUp
  <2>2. [stage |-> "leased", crawl |-> c, url |-> u, result |-> "none"] \in Work
    BY DEF Work, Stages
  <2> QED
    BY <1>1, <2>1, <2>2
<1>3. ASSUME NEW w \in Workers, GoesOn(w) PROVE WorkerTypes'
  <2>1. PICK s \in Stages \ {"idle"} : worker' = [worker EXCEPT ![w].stage = s]
    BY <1>3 DEF GoesOn, GoesTo
  <2>2. worker[w] \in Work
    BY <1>3, WorksOnAVisit DEF GoesOn, At
  <2>3. [worker[w] EXCEPT !.stage = s] \in Work
    BY <2>2 DEF Work
  <2>4. worker' = [worker EXCEPT ![w] = [worker[w] EXCEPT !.stage = s]]
    BY <2>1
  <2> QED
    BY <1>1, <2>3, <2>4
<1>4. ASSUME NEW w \in Workers, Fetches(w) PROVE WorkerTypes'
  <2>1. PICK r \in Results :
          worker' = [worker EXCEPT ![w].stage = "fetched", ![w].result = r]
    BY <1>4 DEF Fetches
  <2>2. worker[w] \in Work
    BY <1>4, WorksOnAVisit DEF Fetches, At
  <2>3. [worker[w] EXCEPT !.stage = "fetched", !.result = r] \in Work
    BY <2>2 DEF Work, Stages
  <2>4. worker' = [worker EXCEPT ![w] = [worker[w] EXCEPT !.stage = "fetched", !.result = r]]
    BY <1>0, <2>1
  <2> QED
    BY <1>1, <2>3, <2>4
<1>5. ASSUME NEW w \in Workers, IsThrough(w) PROVE WorkerTypes'
  BY <1>1, <1>5 DEF IsThrough
<1>6. CASE worker' = worker
  BY <1>0, <1>6 DEF WorkerTypes
<1> QED
  BY <1>2, <1>3, <1>4, <1>5, <1>6, StepsOfWorkers

-----------------------------------------------------------------------------
(* What a step does to crawls, their queues and what they are limited by *)

LEMMA StepsOfCrawls ==
  ASSUME [Next]_lifecycleVars
  PROVE  \/ UNCHANGED <<crawlState, orderOf, queueState, visit, led>>
         \/ \E m \in Messages : StartCrawl(m)
         \/ \E c \in Crawls : Pause(c) \/ Resume(c) \/ Cancel(c) \/ Drain(c) \/ Finish(c) \/ Forget(c)
         \/ \E w \in Workers : PutOnFrontier(w) \/ EndPageVisit(w)
<1> DEFINE Still == UNCHANGED <<crawlState, orderOf, queueState, visit, led>>
<1>1. CASE UNCHANGED lifecycleVars
  BY <1>1 DEF lifecycleVars, crawlVars, queueVars, historyVars
<1>2. ASSUME NEW m \in Messages, OrderStep(m), ~StartCrawl(m) PROVE Still
  BY <1>2 DEF OrderStep, RejectOrder, Acknowledge, Redeliver, crawlVars, queueVars, historyVars
<1>3. ASSUME NEW c \in Crawls, LapseLimits(c) PROVE Still
  BY <1>3 DEF LapseLimits, crawlVars, queueVars, historyVars
<1>4. ASSUME NEW w \in Workers, VisitStep(w) \/ FailStorage(w) \/ LoseVisit(w),
             ~PutOnFrontier(w), ~EndPageVisit(w)
      PROVE  Still
  <2>1. CASE FindOrder(w) \/ TakePageOfHost(w) \/ DropNotDue(w) \/ PublishCrawledPage(w)
               \/ RecordPageVisit(w) \/ Complete(w) \/ FailStorage(w) \/ LoseVisit(w)
    BY <2>1 DEF FindOrder, TakePageOfHost, DropNotDue, PublishCrawledPage, RecordPageVisit, Complete,
                FailStorage, LoseVisit, crawlVars, queueVars, historyVars
  <2>2. CASE TakeDeferral(w) \/ TakeAttempt(w) \/ FetchAndRead(w) \/ ReturnPageVisit(w)
    BY <2>2 DEF TakeDeferral, TakeAttempt, TakeAllowance, FetchAndRead, ReturnPageVisit, crawlVars,
                queueVars, historyVars
  <2> QED
    BY <1>4, <2>1, <2>2 DEF VisitStep
<1>5. ASSUME NEW c \in Crawls, NEW u \in Urls, LeaseStep(c, u) PROVE Still
  BY <1>5 DEF LeaseStep, Lease, ExpireLease, OverrunLease, ExpireLeaseOf, crawlVars, historyVars
<1> QED
  BY <1>1, <1>2, <1>3, <1>4, <1>5 DEF Next, CrawlStep

LEMMA CrawlTypesKept ==
  ASSUME TypeOK, [Next]_lifecycleVars
  PROVE  CrawlTypes'
<1>0. CrawlTypes
  BY TypesInParts
<1>1. intake' \in [Messages -> {"queued", "started", "done"}]
  <2>1. \/ intake' = intake
        \/ \E m \in Messages, i \in {"queued", "started", "done"} : intake' = [intake EXCEPT ![m] = i]
    <3>1. CASE UNCHANGED lifecycleVars
      BY <3>1 DEF lifecycleVars
    <3>2. CASE \E m \in Messages : OrderStep(m)
      BY <3>2 DEF OrderStep, StartCrawl, RejectOrder, Acknowledge, Redeliver
    <3>3. CASE \E c \in Crawls : CrawlStep(c)
      BY <3>3 DEF CrawlStep, Pause, Resume, Cancel, ChangeState, Drain, Finish, Forget, LapseLimits
    <3>4. CASE \E w \in Workers : VisitStep(w) \/ FailStorage(w) \/ LoseVisit(w)
      BY <3>4 DEF VisitStep, FailStorage, LoseVisit, FindOrder, TakePageOfHost, DropNotDue,
                  FetchAndRead, PublishCrawledPage, PutOnFrontier, RecordPageVisit, Complete,
                  TakeDeferral, TakeAttempt, TakeAllowance, EndPageVisit, ReturnPageVisit
    <3>5. CASE \E c \in Crawls, u \in Urls : LeaseStep(c, u)
      BY <3>5 DEF LeaseStep, Lease, ExpireLease, OverrunLease, ExpireLeaseOf
    <3> QED
      BY <3>1, <3>2, <3>3, <3>4, <3>5 DEF Next
  <2> QED
    BY <1>0, <2>1 DEF CrawlTypes
<1>2. \/ UNCHANGED <<crawlState, orderOf>>
      \/ \E c \in Crawls, s \in CrawlStates, o \in Orders :
           /\ crawlState' = [crawlState EXCEPT ![c] = s]
           /\ orderOf' \in {orderOf, [orderOf EXCEPT ![c] = o]}
      \/ \E c \in Crawls, s \in CrawlStates :
           crawlState' = [crawlState EXCEPT ![c] = s] /\ orderOf' = orderOf
  <2>1. CASE UNCHANGED <<crawlState, orderOf, queueState, visit, led>>
    BY <2>1
  <2>2. ASSUME NEW m \in Messages, StartCrawl(m)
        PROVE  \/ UNCHANGED <<crawlState, orderOf>>
               \/ \E c \in Crawls, s \in CrawlStates, o \in Orders :
                    /\ crawlState' = [crawlState EXCEPT ![c] = s]
                    /\ orderOf' \in {orderOf, [orderOf EXCEPT ![c] = o]}
    <3>1. OrderIn[m] \in Orders
      BY <2>2, LifecycleAssumption DEF StartCrawl
    <3> QED
      BY <2>2, <3>1 DEF StartCrawl, crawlVars, CrawlStates
  <2>3. ASSUME NEW c \in Crawls, Pause(c) \/ Resume(c) \/ Cancel(c) \/ Finish(c) \/ Forget(c)
        PROVE  \E s \in CrawlStates : crawlState' = [crawlState EXCEPT ![c] = s] /\ orderOf' = orderOf
    BY <2>3 DEF Pause, Resume, Cancel, ChangeState, Finish, finishedStateFrom, Forget, CrawlStates
  <2>4. CASE (\E c \in Crawls : Drain(c)) \/ (\E w \in Workers : PutOnFrontier(w) \/ EndPageVisit(w))
    BY <2>4 DEF Drain, PutOnFrontier, EndPageVisit, crawlVars
  <2> QED
    BY <2>1, <2>2, <2>3, <2>4, StepsOfCrawls
<1>3. crawlState' \in [Crawls -> CrawlStates] /\ orderOf' \in [Crawls -> Orders \cup {NoOrder}]
  BY <1>0, <1>2 DEF CrawlTypes
<1> QED
  BY <1>1, <1>3 DEF CrawlTypes

\* Where a step changes visits: at the visits of one crawl.
LEMMA QueuesKept ==
  ASSUME TypeOK, [Next]_lifecycleVars
  PROVE  /\ queueState' \in [Crawls -> {"open", "paused", "draining"}]
         /\ visit' \in [Crawls -> [Urls -> {"none", "pending", "ended"}]]
         /\ led' \in [Crawls -> SUBSET Urls]
<1> DEFINE Visits == [Urls -> {"none", "pending", "ended"}]
           Queues == {"open", "paused", "draining"}
           Goal == /\ queueState' \in [Crawls -> Queues] /\ visit' \in [Crawls -> Visits]
                   /\ led' \in [Crawls -> SUBSET Urls]
<1>0. /\ queueState \in [Crawls -> Queues] /\ visit \in [Crawls -> Visits]
      /\ led \in [Crawls -> SUBSET Urls]
  BY DEF TypeOK
<1> SUFFICES Goal
  OBVIOUS
<1>a. ASSUME NEW c \in Crawls, NEW q \in Queues, NEW visits \in Visits, NEW s \in SUBSET Urls,
             queueState' \in {queueState, [queueState EXCEPT ![c] = q]},
             visit' \in {visit, [visit EXCEPT ![c] = visits]},
             led' \in {led, [led EXCEPT ![c] = s]}
      PROVE  Goal
  BY <1>0, <1>a
<1> HIDE DEF Goal
<1>1. CASE UNCHANGED <<crawlState, orderOf, queueState, visit, led>>
  BY <1>0, <1>1 DEF Goal
<1>2. ASSUME NEW m \in Messages, StartCrawl(m) PROVE Goal
  <2>1. queueState' = queueState /\ led' = led
    BY <1>2 DEF StartCrawl, historyVars
  <2>2. \/ visit' = visit
        \/ \E c \in Crawls : visit' = [visit EXCEPT ![c] =
                               [u \in Urls |-> IF u \in Seeds THEN "pending" ELSE "none"]]
    BY <1>2 DEF StartCrawl
  <2>3. [u \in Urls |-> IF u \in Seeds THEN "pending" ELSE "none"] \in Visits
    OBVIOUS
  <2> QED
    BY <1>0, <2>1, <2>2, <2>3 DEF Goal
<1>3. ASSUME NEW c \in Crawls, Pause(c) \/ Resume(c) \/ Cancel(c) \/ Finish(c) PROVE Goal
  <2>1. visit' = visit /\ led' = led
    BY <1>3 DEF Pause, Resume, Cancel, ChangeState, Finish, queueVars, historyVars
  <2>2. queueState' = queueState \/ \E q \in Queues : queueState' = [queueState EXCEPT ![c] = q]
    BY <1>0, <1>3 DEF Pause, Resume, Cancel, ChangeState, Finish, queueVars, PauseQueueOf,
                      ResumeQueueOf, DrainQueueOf
  <2> QED
    BY <1>0, <2>1, <2>2 DEF Goal
<1>4. ASSUME NEW c \in Crawls, Drain(c) PROVE Goal
  <2>1. PICK dropped \in SUBSET Pending(c) :
          visit' = [visit EXCEPT ![c] = [u \in Urls |-> IF u \in dropped THEN "none" ELSE @[u]]]
    BY <1>4 DEF Drain
  <2>2. [u \in Urls |-> IF u \in dropped THEN "none" ELSE visit[c][u]] \in Visits
    BY <1>0
  <2>3. visit' = [visit EXCEPT ![c] = [u \in Urls |-> IF u \in dropped THEN "none" ELSE visit[c][u]]]
    BY <2>1
  <2>4. queueState' \in {queueState, [queueState EXCEPT ![c] = "open"]} /\ led' = led
    BY <1>4 DEF Drain, historyVars
  <2> QED
    BY <1>a, <2>2, <2>3, <2>4
<1>5. ASSUME NEW c \in Crawls, Forget(c) PROVE Goal
  <2>1. [u \in Urls |-> "none"] \in Visits
    OBVIOUS
  <2>2. /\ visit' = [visit EXCEPT ![c] = [u \in Urls |-> "none"]] /\ led' = led
        /\ queueState' = [queueState EXCEPT ![c] = "open"]
    BY <1>5 DEF Forget, historyVars
  <2> QED
    BY <1>a, <2>1, <2>2
<1>6. ASSUME NEW w \in Workers, PutOnFrontier(w) PROVE Goal
  <2>1. worker[w].crawl \in Crawls
    BY <1>6, WorksOnAVisit DEF PutOnFrontier, At
  <2>2. PICK added :
          visit' = [visit EXCEPT ![worker[w].crawl] =
                      [u \in Urls |-> IF u \in added THEN "pending" ELSE visit[worker[w].crawl][u]]]
    BY <1>6 DEF PutOnFrontier
  <2>3. [u \in Urls |-> IF u \in added THEN "pending" ELSE visit[worker[w].crawl][u]] \in Visits
    BY <1>0, <2>1
  <2>4. queueState' = queueState /\ led' = led
    BY <1>6 DEF PutOnFrontier, historyVars
  <2> QED
    BY <1>a, <2>1, <2>2, <2>3, <2>4
<1>7. ASSUME NEW w \in Workers, EndPageVisit(w) PROVE Goal
  <2> DEFINE c == worker[w].crawl
             u == worker[w].url
  <2>1. c \in Crawls /\ u \in Urls
    BY <1>7, WorksOnAVisit DEF EndPageVisit, At
  <2>2. /\ queueState' = queueState
        /\ visit' \in {visit, [visit EXCEPT ![c] = [visit[c] EXCEPT ![u] = "ended"]]}
        /\ led' \in {led, [led EXCEPT ![c] = led[c] \cup {u}]}
    BY <1>7 DEF EndPageVisit
  <2>3. [visit[c] EXCEPT ![u] = "ended"] \in Visits /\ led[c] \cup {u} \in SUBSET Urls
    BY <1>0, <2>1
  <2> HIDE DEF c, u
  <2> QED
    BY <1>a, <2>1, <2>2, <2>3
<1> QED
  BY <1>1, <1>2, <1>3, <1>4, <1>5, <1>6, <1>7, StepsOfCrawls

LEMMA LeasesKept ==
  ASSUME TypeOK, [Next]_lifecycleVars
  PROVE  leasedBy' \in [Crawls -> [Urls -> Workers \cup {Nobody}]]
<1> DEFINE Leases == [Urls -> Workers \cup {Nobody}]
<1>0. leasedBy \in [Crawls -> Leases]
  BY DEF TypeOK
<1>a. ASSUME NEW c \in Crawls, NEW leases \in Leases,
             leasedBy' \in {leasedBy, [leasedBy EXCEPT ![c] = leases]}
      PROVE  leasedBy' \in [Crawls -> Leases]
  BY <1>0, <1>a
<1>b. ASSUME NEW c \in Crawls, NEW u \in Urls, NEW v \in Workers \cup {Nobody},
             leasedBy' \in {leasedBy, [leasedBy EXCEPT ![c][u] = v]}
      PROVE  leasedBy' \in [Crawls -> Leases]
  <2>1. leasedBy' \in {leasedBy, [leasedBy EXCEPT ![c] = [leasedBy[c] EXCEPT ![u] = v]]}
    BY <1>b
  <2>2. [leasedBy[c] EXCEPT ![u] = v] \in Leases
    BY <1>0
  <2> QED
    BY <1>a, <2>1, <2>2
<1>1. CASE UNCHANGED lifecycleVars
  BY <1>0, <1>1 DEF lifecycleVars, queueVars
<1>2. ASSUME NEW m \in Messages, OrderStep(m) PROVE leasedBy' = leasedBy
  BY <1>2 DEF OrderStep, StartCrawl, RejectOrder, Acknowledge, Redeliver, queueVars
<1>3. ASSUME NEW c \in Crawls, Pause(c) \/ Resume(c) \/ Cancel(c) \/ Finish(c) \/ LapseLimits(c)
      PROVE  leasedBy' = leasedBy
  BY <1>3 DEF Pause, Resume, Cancel, ChangeState, Finish, LapseLimits, queueVars
<1>4. ASSUME NEW c \in Crawls, Drain(c) PROVE leasedBy' \in [Crawls -> Leases]
  <2>1. PICK dropped \in SUBSET Pending(c) :
          leasedBy' = [leasedBy EXCEPT ![c] = [u \in Urls |-> IF u \in dropped THEN Nobody ELSE @[u]]]
    BY <1>4 DEF Drain
  <2>2. [u \in Urls |-> IF u \in dropped THEN Nobody ELSE leasedBy[c][u]] \in Leases
    BY <1>0
  <2>3. leasedBy' = [leasedBy EXCEPT ![c] =
                       [u \in Urls |-> IF u \in dropped THEN Nobody ELSE leasedBy[c][u]]]
    BY <2>1
  <2> QED
    BY <1>a, <2>2, <2>3
<1>5. ASSUME NEW c \in Crawls, Forget(c) PROVE leasedBy' \in [Crawls -> Leases]
  <2>1. [u \in Urls |-> Nobody] \in Leases
    OBVIOUS
  <2> QED
    BY <1>5, <1>a, <2>1 DEF Forget
<1>6. ASSUME NEW w \in Workers, EndPageVisit(w) \/ ReturnPageVisit(w)
      PROVE  leasedBy' \in [Crawls -> Leases]
  <2>1. worker[w].crawl \in Crawls /\ worker[w].url \in Urls
    BY <1>6, WorksOnAVisit DEF EndPageVisit, ReturnPageVisit, At
  <2>2. leasedBy' \in {leasedBy, [leasedBy EXCEPT ![worker[w].crawl][worker[w].url] = Nobody]}
    BY <1>6 DEF EndPageVisit, ReturnPageVisit
  <2> QED
    BY <1>b, <2>1, <2>2
<1>7. ASSUME NEW w \in Workers, VisitStep(w) \/ FailStorage(w) \/ LoseVisit(w),
             ~EndPageVisit(w), ~ReturnPageVisit(w)
      PROVE  leasedBy' = leasedBy
  BY <1>7 DEF VisitStep, FailStorage, LoseVisit, FindOrder, TakePageOfHost, DropNotDue, FetchAndRead,
              PublishCrawledPage, PutOnFrontier, RecordPageVisit, Complete, TakeDeferral, TakeAttempt,
              TakeAllowance, queueVars
<1>8. ASSUME NEW c \in Crawls, NEW u \in Urls, LeaseStep(c, u)
      PROVE  leasedBy' \in [Crawls -> Leases]
  <2>1. \E v \in Workers \cup {Nobody} : leasedBy' = [leasedBy EXCEPT ![c][u] = v]
    BY <1>8 DEF LeaseStep, Lease, ExpireLease, OverrunLease, ExpireLeaseOf
  <2> QED
    BY <1>b, <2>1
<1> QED
  BY <1>0, <1>1, <1>2, <1>3, <1>4, <1>5, <1>6, <1>7, <1>8 DEF Next, CrawlStep

LEMMA LimitTypesKept ==
  ASSUME TypeOK, [Next]_lifecycleVars
  PROVE  LimitTypes'
<1> DEFINE Used == [pageOfHost : BOOLEAN, deferrals : 0..MaxDeferrals, attempts : 0..MaxAttempts]
<1>0. /\ hostPages \in [Crawls -> 0..MaxPages] /\ used \in [Crawls -> [Urls -> Used]]
      /\ MaxPages \in Nat /\ MaxDeferrals \in Nat /\ MaxAttempts \in Nat
  BY LifecycleAssumption DEF TypeOK
<1>a. ASSUME NEW c \in Crawls, NEW u \in Urls, NEW allowances \in Used, NEW n \in 0..MaxPages,
             used' \in {used, [used EXCEPT ![c][u] = allowances]},
             hostPages' \in {hostPages, [hostPages EXCEPT ![c] = n]}
      PROVE  LimitTypes'
  <2>1. used' \in {used, [used EXCEPT ![c] = [used[c] EXCEPT ![u] = allowances]]}
    BY <1>a
  <2>2. [used[c] EXCEPT ![u] = allowances] \in [Urls -> Used]
    BY <1>0
  <2>3. used' \in [Crawls -> [Urls -> Used]]
    BY <1>0, <2>1, <2>2
  <2>4. hostPages' \in [Crawls -> 0..MaxPages]
    BY <1>0, <1>a
  <2> QED
    BY <2>3, <2>4 DEF LimitTypes
<1>1. ASSUME UNCHANGED limitVars PROVE LimitTypes'
  BY <1>0, <1>1 DEF limitVars, LimitTypes
<1>2. ASSUME NEW c \in Crawls, LapseLimits(c) PROVE LimitTypes'
  <2>1. NothingUsed \in Used
    BY <1>0 DEF NothingUsed
  <2>2. CASE hostPages' = [hostPages EXCEPT ![c] = 0] /\ used' = used
    BY <1>0, <2>2 DEF LimitTypes
  <2>3. CASE hostPages' = hostPages /\ \E u \in Urls : used' = [used EXCEPT ![c][u] = NothingUsed]
    BY <1>0, <1>a, <2>1, <2>3
  <2> QED
    BY <1>2, <2>2, <2>3 DEF LapseLimits
<1>3. ASSUME NEW w \in Workers, TakePageOfHost(w) PROVE LimitTypes'
  <2> DEFINE c == worker[w].crawl
             u == worker[w].url
  <2>1. c \in Crawls /\ u \in Urls
    BY <1>3, WorksOnAVisit DEF TakePageOfHost, At
  <2>2. \/ UNCHANGED limitVars
        \/ /\ HasRoom(c) /\ hostPages' = [hostPages EXCEPT ![c] = @ + 1]
           /\ used' = [used EXCEPT ![c][u].pageOfHost = TRUE]
    BY <1>3 DEF TakePageOfHost
  <2>3. HasRoom(c) => hostPages[c] + 1 \in 0..MaxPages
    BY <1>0, <2>1 DEF HasRoom
  <2>4. [used[c][u] EXCEPT !.pageOfHost = TRUE] \in Used
    <3>1. used[c][u] \in Used
      BY <1>0, <2>1
    <3> QED
      BY <3>1
  <2>5. CASE UNCHANGED limitVars
    BY <1>1, <2>5
  <2>6. CASE /\ HasRoom(c) /\ hostPages' = [hostPages EXCEPT ![c] = @ + 1]
             /\ used' = [used EXCEPT ![c][u].pageOfHost = TRUE]
    <3>1. /\ used' = [used EXCEPT ![c][u] = [used[c][u] EXCEPT !.pageOfHost = TRUE]]
          /\ hostPages' = [hostPages EXCEPT ![c] = hostPages[c] + 1]
      BY <2>6
    <3> HIDE DEF c, u
    <3> QED
      BY <1>a, <2>1, <2>3, <2>4, <2>6, <3>1
  <2> QED
    BY <2>2, <2>5, <2>6
<1>4. ASSUME NEW w \in Workers, TakeDeferral(w) \/ TakeAttempt(w) PROVE LimitTypes'
  <2> DEFINE c == worker[w].crawl
             u == worker[w].url
  <2>1. c \in Crawls /\ u \in Urls
    BY <1>4, WorksOnAVisit DEF TakeDeferral, TakeAttempt, At
  <2>2. used[c][u] \in Used
    BY <1>0, <2>1
  <2>3. hostPages' = hostPages
    BY <1>4 DEF TakeDeferral, TakeAttempt, TakeAllowance
  <2>4. CASE TakeDeferral(w)
    <3>1. \/ used' = used
          \/ /\ MayDefer(used[c][u])
             /\ used' = [used EXCEPT ![c][u] = withAnotherDeferral(used[c][u])]
      BY <2>4 DEF TakeDeferral, TakeAllowance, UsedBy
    <3>2. MayDefer(used[c][u]) => withAnotherDeferral(used[c][u]) \in Used
      BY <1>0, <2>2 DEF MayDefer, withAnotherDeferral
    <3>3. CASE used' = used
      BY <1>1, <2>3, <3>3 DEF limitVars
    <3> HIDE DEF c, u
    <3>4. 0 \in 0..MaxPages
      BY <1>0
    <3> QED
      BY <1>a, <2>1, <2>3, <3>1, <3>2, <3>3, <3>4
  <2>5. CASE TakeAttempt(w)
    <3>1. \/ used' = used
          \/ /\ used[c][u].attempts < MaxAttempts
             /\ used' = [used EXCEPT ![c][u] = withAnotherAttempt(used[c][u])]
      BY <2>5 DEF TakeAttempt, TakeAllowance, UsedBy
    <3>2. used[c][u].attempts < MaxAttempts => withAnotherAttempt(used[c][u]) \in Used
      BY <1>0, <2>2 DEF withAnotherAttempt
    <3>3. CASE used' = used
      BY <1>1, <2>3, <3>3 DEF limitVars
    <3> HIDE DEF c, u
    <3>4. 0 \in 0..MaxPages
      BY <1>0
    <3> QED
      BY <1>a, <2>1, <2>3, <3>1, <3>2, <3>3, <3>4
  <2> QED
    BY <1>4, <2>4, <2>5
<1>5. CASE UNCHANGED lifecycleVars
  BY <1>1, <1>5 DEF lifecycleVars
<1>6. ASSUME NEW m \in Messages, OrderStep(m) PROVE UNCHANGED limitVars
  BY <1>6 DEF OrderStep, StartCrawl, RejectOrder, Acknowledge, Redeliver
<1>7. ASSUME NEW c \in Crawls, CrawlStep(c), ~LapseLimits(c) PROVE UNCHANGED limitVars
  BY <1>7 DEF CrawlStep, Pause, Resume, Cancel, ChangeState, Drain, Finish, Forget
<1>8. ASSUME NEW w \in Workers, VisitStep(w) \/ FailStorage(w) \/ LoseVisit(w),
             ~TakePageOfHost(w), ~TakeDeferral(w), ~TakeAttempt(w)
      PROVE  UNCHANGED limitVars
  BY <1>8 DEF VisitStep, FailStorage, LoseVisit, FindOrder, DropNotDue, FetchAndRead,
              PublishCrawledPage, PutOnFrontier, RecordPageVisit, Complete, EndPageVisit,
              ReturnPageVisit
<1>9. ASSUME NEW c \in Crawls, NEW u \in Urls, LeaseStep(c, u) PROVE UNCHANGED limitVars
  BY <1>9 DEF LeaseStep, Lease, ExpireLease, OverrunLease, ExpireLeaseOf
<1> QED
  BY <1>1, <1>2, <1>3, <1>4, <1>5, <1>6, <1>7, <1>8, <1>9 DEF Next

LEMMA StepsOfHistory ==
  ASSUME [Next]_lifecycleVars
  PROVE  \/ recorded' = recorded /\ fetched' = fetched
         \/ \E w \in Workers : FetchAndRead(w) \/ RecordPageVisit(w)
<1>1. CASE \E m \in Messages : OrderStep(m)
  BY <1>1 DEF OrderStep, StartCrawl, RejectOrder, Acknowledge, Redeliver, historyVars
<1>2. CASE \E c \in Crawls : CrawlStep(c)
  BY <1>2 DEF CrawlStep, Pause, Resume, Cancel, ChangeState, Drain, Finish, Forget, LapseLimits,
              historyVars
<1>3. ASSUME NEW w \in Workers, VisitStep(w) \/ FailStorage(w) \/ LoseVisit(w), ~FetchAndRead(w),
             ~RecordPageVisit(w)
      PROVE  recorded' = recorded /\ fetched' = fetched
  BY <1>3 DEF VisitStep, FailStorage, LoseVisit, FindOrder, TakePageOfHost, DropNotDue,
              PublishCrawledPage, PutOnFrontier, Complete, TakeDeferral,
              TakeAttempt, TakeAllowance, EndPageVisit, ReturnPageVisit, historyVars
<1>4. CASE \E c \in Crawls, u \in Urls : LeaseStep(c, u)
  BY <1>4 DEF LeaseStep, Lease, ExpireLease, OverrunLease, ExpireLeaseOf, historyVars
<1>5. CASE UNCHANGED lifecycleVars
  BY <1>5 DEF lifecycleVars, historyVars
<1> QED
  BY <1>1, <1>2, <1>3, <1>4, <1>5 DEF Next

LEMMA HistoryTypesKept ==
  ASSUME TypeOK, [Next]_lifecycleVars
  PROVE  recorded' \subseteq Urls /\ fetched' \in [Crawls -> SUBSET Urls] /\ mishaps' \in 0..MaxMishaps
<1>0. recorded \subseteq Urls /\ fetched \in [Crawls -> SUBSET Urls] /\ mishaps \in 0..MaxMishaps
      /\ MaxMishaps \in Nat
  BY LifecycleAssumption DEF TypeOK
<1>1. mishaps' = mishaps \/ Mishap
  <2>1. CASE \E m \in Messages : OrderStep(m)
    BY <2>1 DEF OrderStep, StartCrawl, RejectOrder, Acknowledge, Redeliver
  <2>2. CASE \E c \in Crawls : CrawlStep(c)
    BY <2>2 DEF CrawlStep, Pause, Resume, Cancel, ChangeState, Drain, Finish, Forget, LapseLimits
  <2>3. CASE \E w \in Workers : VisitStep(w) \/ FailStorage(w) \/ LoseVisit(w)
    BY <2>3 DEF VisitStep, FailStorage, LoseVisit, FindOrder, TakePageOfHost, DropNotDue, FetchAndRead,
                PublishCrawledPage, PutOnFrontier, RecordPageVisit, Complete, TakeDeferral,
                TakeAttempt, TakeAllowance, EndPageVisit, ReturnPageVisit
  <2>4. CASE \E c \in Crawls, u \in Urls : LeaseStep(c, u)
    BY <2>4 DEF LeaseStep, Lease, ExpireLease, OverrunLease
  <2>5. CASE UNCHANGED lifecycleVars
    BY <2>5 DEF lifecycleVars
  <2> QED
    BY <2>1, <2>2, <2>3, <2>4, <2>5 DEF Next
<1>2. (recorded' = recorded /\ fetched' = fetched)
        \/ \E w \in Workers : FetchAndRead(w) \/ RecordPageVisit(w)
  BY StepsOfHistory
<1>3. ASSUME NEW w \in Workers, FetchAndRead(w) \/ RecordPageVisit(w)
      PROVE  recorded' \subseteq Urls /\ fetched' \in [Crawls -> SUBSET Urls]
  <2>1. worker[w].crawl \in Crawls /\ worker[w].url \in Urls
    BY <1>3, WorksOnAVisit DEF FetchAndRead, RecordPageVisit, At
  <2>2. recorded' \in {recorded, recorded \cup {worker[w].url}}
    BY <1>3 DEF FetchAndRead, RecordPageVisit
  <2>3. fetched' \in {fetched, [fetched EXCEPT ![worker[w].crawl] = @ \cup {worker[w].url}]}
    BY <1>3 DEF FetchAndRead, RecordPageVisit, historyVars
  <2> QED
    BY <1>0, <2>1, <2>2, <2>3
<1>4. mishaps' \in 0..MaxMishaps
  BY <1>0, <1>1 DEF Mishap
<1> QED
  BY <1>0, <1>2, <1>3, <1>4

\* Every variable has its type, and limits are never passed.
THEOREM TypeCorrect == Spec => []TypeOK
<1>1. TypeOK /\ [Next]_lifecycleVars => TypeOK'
  <2> SUFFICES ASSUME TypeOK, [Next]_lifecycleVars PROVE TypeOK'
    OBVIOUS
  <2>1. CrawlTypes' /\ WorkerTypes' /\ LimitTypes'
    BY CrawlTypesKept, WorkerTypesKept, LimitTypesKept
  <2>2. QueueTypes' /\ HistoryTypes' /\ mishaps' \in 0..MaxMishaps
    BY QueuesKept, LeasesKept, HistoryTypesKept DEF QueueTypes, HistoryTypes
  <2> QED
    BY <2>1, <2>2
    DEF TypeOK, CrawlTypes, QueueTypes, WorkerTypes, Work, LimitTypes, HistoryTypes
<1> QED
  BY <1>1, TypesAtFirst, PTL DEF Spec

-----------------------------------------------------------------------------
(* The queue follows the crawl *)

FollowsItsCrawl(c) ==
  /\ crawlState[c] \in {"none", "running", "forgotten"} => queueState[c] = "open"
  /\ crawlState[c] = "paused" => queueState[c] = "paused"
  /\ crawlState[c] = "cancelling" => Pending(c) = {} \/ queueState[c] = "draining"
  /\ crawlState[c] \in Finished \cup {"forgotten"} => Pending(c) = {}

LEMMA FollowsByCrawl == QueueFollowsCrawl <=> \A c \in Crawls : FollowsItsCrawl(c)
BY DEF QueueFollowsCrawl, FollowsItsCrawl

LEMMA OthersFollow ==
  ASSUME NEW c \in Crawls, FollowsItsCrawl(c), crawlState'[c] = crawlState[c],
         queueState'[c] = queueState[c], visit'[c] = visit[c]
  PROVE  FollowsItsCrawl(c)'
BY DEF FollowsItsCrawl, Pending

\* The effects of the steps on the visits of a crawl.
LEMMA StartsWithSeeds ==
  ASSUME TypeOK, NEW m \in Messages, StartCrawl(m), crawlState' # crawlState
  PROVE  \E c \in Crawls :
           /\ crawlState[c] = "none" /\ orderOf' = [orderOf EXCEPT ![c] = OrderIn[m]]
           /\ crawlState' = [crawlState EXCEPT ![c] = "running"]
           /\ visit' = [visit EXCEPT ![c] = [u \in Urls |-> IF u \in Seeds THEN "pending" ELSE "none"]]
           /\ KeptCrawlsOf(OrderIn[m]) = {}
BY DEF StartCrawl, crawlVars, keptCrawlOfOrder

LEMMA PutsOnFrontier ==
  ASSUME TypeOK, NEW w \in Workers, PutOnFrontier(w)
  PROVE  LET c == worker[w].crawl
         IN  /\ c \in Crawls /\ worker[w].url \in Urls
             /\ \A d \in Crawls : d # c => visit'[d] = visit[d]
             /\ \A u \in Urls :
                  visit'[c][u] = IF TakesNextOf(w) /\ u \in nextPageVisitsFrom(w) /\ visit[c][u] = "none"
                                 THEN "pending" ELSE visit[c][u]
             /\ UNCHANGED <<crawlState, orderOf, queueState, led>>
<1> DEFINE c == worker[w].crawl
<1>1. c \in Crawls /\ worker[w].url \in Urls
  BY WorksOnAVisit DEF PutOnFrontier, At
<1>2. visit' = [visit EXCEPT ![c] =
                  [u \in Urls |-> IF u \in (IF TakesNextOf(w)
                                            THEN {v \in nextPageVisitsFrom(w) : visit[c][v] = "none"}
                                            ELSE {})
                                  THEN "pending" ELSE visit[c][u]]]
  BY DEF PutOnFrontier
<1>3. visit \in [Crawls -> [Urls -> {"none", "pending", "ended"}]]
  BY DEF TypeOK
<1>4. UNCHANGED <<crawlState, orderOf, queueState, led>>
  BY DEF PutOnFrontier, crawlVars, historyVars
<1> QED
  BY <1>1, <1>2, <1>3, <1>4

LEMMA EndsAVisit ==
  ASSUME TypeOK, NEW w \in Workers, EndPageVisit(w)
  PROVE  LET c == worker[w].crawl
             u == worker[w].url
         IN  /\ c \in Crawls /\ u \in Urls
             /\ UNCHANGED <<crawlState, orderOf, queueState>>
             /\ \/ ~IsLeased(w, c, u) /\ visit' = visit /\ led' = led
                \/ /\ IsLeased(w, c, u)
                   /\ visit' = [visit EXCEPT ![c] = [visit[c] EXCEPT ![u] = "ended"]]
                   /\ led' = IF LeadsOn(worker[w].result) THEN [led EXCEPT ![c] = led[c] \cup {u}]
                             ELSE led
<1>1. worker[w].crawl \in Crawls /\ worker[w].url \in Urls
  BY WorksOnAVisit DEF EndPageVisit, At
<1> QED
  BY <1>1 DEF EndPageVisit, crawlVars

LEMMA DropsVisits ==
  ASSUME TypeOK, NEW c \in Crawls, Drain(c)
  PROVE  /\ queueState[c] = "draining" /\ crawlState' = crawlState /\ orderOf' = orderOf /\ led' = led
         /\ \A d \in Crawls : d # c => visit'[d] = visit[d] /\ queueState'[d] = queueState[d]
         /\ Pending(c)' \subseteq Pending(c) /\ Ended(c)' = Ended(c)
         /\ queueState'[c] = "draining" \/ (queueState'[c] = "open" /\ Pending(c)' = {})
<1>1. visit \in [Crawls -> [Urls -> {"none", "pending", "ended"}]]
      /\ queueState \in [Crawls -> {"open", "paused", "draining"}]
  BY DEF TypeOK
<1>2. PICK dropped \in SUBSET Pending(c) :
        /\ visit' = [visit EXCEPT ![c] = [u \in Urls |-> IF u \in dropped THEN "none" ELSE @[u]]]
        /\ \/ UNCHANGED queueState
           \/ dropped = Pending(c) /\ queueState' = [queueState EXCEPT ![c] = "open"]
  BY DEF Drain
<1>3. \A u \in Urls : visit'[c][u] = IF u \in dropped THEN "none" ELSE visit[c][u]
  BY <1>1, <1>2
<1>4. \A d \in Crawls : d # c => visit'[d] = visit[d] /\ queueState'[d] = queueState[d]
  BY <1>1, <1>2
<1>5. Pending(c)' = Pending(c) \ dropped /\ Ended(c)' = Ended(c)
  BY <1>3 DEF Pending, Ended
<1>6. queueState[c] = "draining" /\ crawlState' = crawlState /\ orderOf' = orderOf /\ led' = led
  BY DEF Drain, crawlVars, historyVars
<1> QED
  BY <1>1, <1>2, <1>4, <1>5, <1>6

LEMMA ForgetsVisits ==
  ASSUME TypeOK, NEW c \in Crawls, Forget(c)
  PROVE  /\ crawlState[c] \in Finished /\ crawlState' = [crawlState EXCEPT ![c] = "forgotten"]
         /\ orderOf' = orderOf /\ led' = led
         /\ queueState' = [queueState EXCEPT ![c] = "open"]
         /\ \A d \in Crawls : d # c => visit'[d] = visit[d]
         /\ Pending(c)' = {} /\ Ended(c)' = {}
<1>1. visit' = [visit EXCEPT ![c] = [u \in Urls |-> "none"]]
  BY DEF Forget
<1>2. \A u \in Urls : visit'[c][u] = "none"
  BY <1>1 DEF TypeOK
<1>3. \A d \in Crawls : d # c => visit'[d] = visit[d]
  BY <1>1 DEF TypeOK
<1> QED
  BY <1>2, <1>3 DEF Forget, Pending, Ended, historyVars

LEMMA FollowingKept == TypeOK /\ QueueFollowsCrawl /\ [Next]_lifecycleVars => QueueFollowsCrawl'
<1> SUFFICES ASSUME TypeOK, QueueFollowsCrawl, [Next]_lifecycleVars,
                    NEW d \in Crawls
             PROVE  FollowsItsCrawl(d)'
  <2>1. QueueFollowsCrawl' <=> \A c \in Crawls : FollowsItsCrawl(c)'
    BY DEF QueueFollowsCrawl, FollowsItsCrawl
  <2> QED
    BY <2>1
<1>0. /\ FollowsItsCrawl(d) /\ crawlState \in [Crawls -> CrawlStates]
      /\ queueState \in [Crawls -> {"open", "paused", "draining"}]
      /\ visit \in [Crawls -> [Urls -> {"none", "pending", "ended"}]]
  BY FollowsByCrawl DEF TypeOK
<1>1. CASE UNCHANGED <<crawlState, orderOf, queueState, visit, led>>
  BY <1>0, <1>1, OthersFollow
<1>2. ASSUME NEW m \in Messages, StartCrawl(m) PROVE FollowsItsCrawl(d)'
  <2>1. queueState' = queueState
    BY <1>2 DEF StartCrawl
  <2>2. CASE crawlState' = crawlState
    <3>1. visit' = visit
      BY <1>0, <1>2, <2>2 DEF StartCrawl, CrawlStates
    <3> QED
      BY <1>0, <2>1, <2>2, <3>1, OthersFollow
  <2>3. CASE crawlState' # crawlState
    <3>1. PICK c \in Crawls :
            /\ crawlState[c] = "none" /\ crawlState' = [crawlState EXCEPT ![c] = "running"]
            /\ visit' = [visit EXCEPT ![c] =
                           [u \in Urls |-> IF u \in Seeds THEN "pending" ELSE "none"]]
      BY <1>2, <2>3, StartsWithSeeds
    <3>2. CASE d = c
      BY <1>0, <2>1, <3>1, <3>2 DEF FollowsItsCrawl, Finished
    <3>3. CASE d # c
      BY <1>0, <2>1, <3>1, <3>3, OthersFollow
    <3> QED
      BY <3>2, <3>3
  <2> QED
    BY <2>2, <2>3
<1>3. ASSUME NEW c \in Crawls, Pause(c) \/ Resume(c) \/ Cancel(c) PROVE FollowsItsCrawl(d)'
  <2>1. visit' = visit
    BY <1>3 DEF Pause, Resume, Cancel, ChangeState
  <2>2. CASE d # c
    BY <1>0, <1>3, <2>1, <2>2, OthersFollow DEF Pause, Resume, Cancel, ChangeState
  <2>3. CASE d = c
    BY <1>0, <1>3, <2>1, <2>3
    DEF Pause, Resume, Cancel, ChangeState, PauseQueueOf, ResumeQueueOf, DrainQueueOf,
        FollowsItsCrawl, Finished, Pending
  <2> QED
    BY <2>2, <2>3
<1>4. ASSUME NEW c \in Crawls, Drain(c) PROVE FollowsItsCrawl(d)'
  BY <1>0, <1>4, DropsVisits, OthersFollow DEF FollowsItsCrawl, Finished
<1>5. ASSUME NEW c \in Crawls, Finish(c) PROVE FollowsItsCrawl(d)'
  <2>1. UNCHANGED <<queueState, visit>> /\ Pending(c) = {}
    BY <1>5 DEF Finish, queueVars, hasNothingPending
  <2>2. crawlState' = [crawlState EXCEPT ![c] = finishedStateFrom(crawlState[c])]
    BY <1>5 DEF Finish
  <2>3. CASE d # c
    BY <1>0, <2>1, <2>2, <2>3, OthersFollow
  <2>4. CASE d = c
    <3>1. crawlState'[d] \in Finished
      BY <1>0, <2>2, <2>4 DEF finishedStateFrom, Finished
    <3> QED
      BY <2>1, <2>4, <3>1 DEF FollowsItsCrawl, Finished, Pending
  <2> QED
    BY <2>3, <2>4
<1>6. ASSUME NEW c \in Crawls, Forget(c) PROVE FollowsItsCrawl(d)'
  <2>1. CASE d # c
    BY <1>0, <1>6, <2>1, ForgetsVisits, OthersFollow
  <2>2. CASE d = c
    <3>1. crawlState'[d] = "forgotten" /\ queueState'[d] = "open" /\ Pending(d)' = {}
      BY <1>0, <1>6, <2>2, ForgetsVisits
    <3> QED
      BY <3>1 DEF FollowsItsCrawl, Finished
  <2> QED
    BY <2>1, <2>2
<1>7. ASSUME NEW w \in Workers, PutOnFrontier(w) PROVE FollowsItsCrawl(d)'
  <2> DEFINE c == worker[w].crawl
  <2>1. /\ c \in Crawls /\ UNCHANGED <<crawlState, queueState>> /\ worker[w].url \in Urls
        /\ \A e \in Crawls : e # c => visit'[e] = visit[e]
        /\ \A u \in Urls : ~TakesNextOf(w) => visit'[c][u] = visit[c][u]
    BY <1>7, PutsOnFrontier
  <2>2. CASE d # c
    BY <1>0, <2>1, <2>2, OthersFollow
  <2>3. CASE d = c /\ ~TakesNextOf(w)
    <3>1. Pending(d)' = Pending(d)
      BY <2>1, <2>3 DEF Pending
    <3> QED
      BY <1>0, <2>1, <3>1 DEF FollowsItsCrawl
  <2>4. CASE d = c /\ TakesNextOf(w)
    <3>1. Pending(d) # {} /\ queueState[d] # "draining"
      BY <2>1, <2>4 DEF TakesNextOf, Pending
    <3> QED
      BY <1>0, <2>1, <3>1 DEF FollowsItsCrawl
  <2> QED
    BY <2>2, <2>3, <2>4
<1>8. ASSUME NEW w \in Workers, EndPageVisit(w) PROVE FollowsItsCrawl(d)'
  <2>1. UNCHANGED <<crawlState, queueState>> /\ Pending(d)' \subseteq Pending(d)
    <3> DEFINE c == worker[w].crawl
               v == worker[w].url
    <3>1. /\ c \in Crawls /\ v \in Urls /\ UNCHANGED <<crawlState, queueState>>
          /\ visit' \in {visit, [visit EXCEPT ![c] = [visit[c] EXCEPT ![v] = "ended"]]}
      BY <1>8, EndsAVisit
    <3>2. \A u \in Urls : visit'[d][u] = visit[d][u] \/ visit'[d][u] = "ended"
      BY <1>0, <3>1
    <3> QED
      BY <3>1, <3>2 DEF Pending
  <2> QED
    BY <1>0, <2>1 DEF FollowsItsCrawl
<1> QED
  BY <1>1, <1>2, <1>3, <1>4, <1>5, <1>6, <1>7, <1>8, StepsOfCrawls

\* A paused crawl leases nothing, a cancelling one drains, a finished one has nothing left,
\* whatever workers put on its queue while its state changes.
THEOREM QueuesFollow == Spec => []QueueFollowsCrawl
<1>1. Init => QueueFollowsCrawl
  BY DEF Init, QueueFollowsCrawl, Finished, Pending
<1> QED
  BY <1>1, FollowingKept, TypeCorrect, PTL DEF Spec

-----------------------------------------------------------------------------
(* Crawls that are not started yet *)

IsFresh(c) ==
  /\ orderOf[c] = NoOrder /\ led[c] = {}
  /\ Pending(c) = {} /\ Ended(c) = {}
  /\ \A w \in Workers : ~At(w, "idle") => worker[w].crawl # c

FreshInv == \A c \in Crawls : crawlState[c] = "none" => IsFresh(c)

LEMMA NeverFreshAgain ==
  ASSUME TypeOK, [Next]_lifecycleVars, NEW c \in Crawls, crawlState'[c] = "none"
  PROVE  crawlState[c] = "none"
<1>0. crawlState \in [Crawls -> CrawlStates]
  BY DEF TypeOK
<1>1. CASE UNCHANGED <<crawlState, orderOf, queueState, visit, led>>
  BY <1>1
<1>2. CASE \E m \in Messages : StartCrawl(m)
  BY <1>0, <1>2 DEF StartCrawl, crawlVars
<1>3. CASE \E d \in Crawls : Pause(d) \/ Resume(d) \/ Cancel(d) \/ Finish(d) \/ Forget(d)
  BY <1>0, <1>3 DEF Pause, Resume, Cancel, ChangeState, Finish, finishedStateFrom, Forget
<1>4. CASE \/ \E d \in Crawls : Drain(d)
           \/ \E w \in Workers : PutOnFrontier(w) \/ EndPageVisit(w)
  BY <1>4 DEF Drain, PutOnFrontier, EndPageVisit, crawlVars
<1> QED
  BY <1>1, <1>2, <1>3, <1>4, StepsOfCrawls

\* A worker takes up a visit of a started crawl, and goes on with it.
LEMMA WorkersOfFresh ==
  ASSUME TypeOK, [Next]_lifecycleVars, NEW c \in Crawls, IsFresh(c)
  PROVE  \A w \in Workers : ~At(w, "idle")' => worker'[w].crawl # c
<1>0. worker \in [Workers -> Work \cup {NoVisit}]
  BY TypesInParts DEF WorkerTypes
<1>1. \A w \in Workers : ~At(w, "idle") => worker[w].crawl # c
  BY DEF IsFresh
<1>2. ASSUME NEW w \in Workers, TakesUp(w)
      PROVE  \A v \in Workers : ~At(v, "idle")' => worker'[v].crawl # c
  <2>1. PICK d \in Crawls, u \in Urls :
          /\ visit[d][u] = "pending"
          /\ worker' = [worker EXCEPT ![w] =
                          [stage |-> "leased", crawl |-> d, url |-> u, result |-> "none"]]
    BY <1>2 DEF TakesUp
  <2>2. d # c
    BY <2>1 DEF IsFresh, Pending
  <2> QED
    BY <1>0, <1>1, <2>1, <2>2 DEF At
<1>3. ASSUME NEW w \in Workers, GoesOn(w) \/ Fetches(w)
      PROVE  \A v \in Workers : ~At(v, "idle")' => worker'[v].crawl # c
  <2>1. ~At(w, "idle") /\ worker[w] \in Work
    BY <1>3, WorksOnAVisit DEF GoesOn, Fetches, At
  <2>2. worker'[w].crawl = worker[w].crawl /\ \A v \in Workers : v # w => worker'[v] = worker[v]
    BY <1>0, <1>3, <2>1 DEF GoesOn, GoesTo, Fetches, Work
  <2> QED
    BY <1>1, <2>1, <2>2 DEF At
<1>4. ASSUME NEW w \in Workers, IsThrough(w)
      PROVE  \A v \in Workers : ~At(v, "idle")' => worker'[v].crawl # c
  BY <1>0, <1>1, <1>4 DEF IsThrough, At, NoVisit
<1>5. CASE worker' = worker
  BY <1>1, <1>5 DEF At
<1> QED
  BY <1>2, <1>3, <1>4, <1>5, StepsOfWorkers

LEMMA FreshKept == TypeOK /\ FreshInv /\ [Next]_lifecycleVars => FreshInv'
<1> SUFFICES ASSUME TypeOK, FreshInv, [Next]_lifecycleVars, NEW c \in Crawls, crawlState'[c] = "none"
             PROVE  IsFresh(c)'
  BY DEF FreshInv
<1>0. /\ IsFresh(c) /\ crawlState[c] = "none"
      /\ crawlState \in [Crawls -> CrawlStates] /\ orderOf \in [Crawls -> Orders \cup {NoOrder}]
      /\ visit \in [Crawls -> [Urls -> {"none", "pending", "ended"}]]
      /\ led \in [Crawls -> SUBSET Urls]
  BY NeverFreshAgain DEF FreshInv, TypeOK
<1>1. \A w \in Workers : ~At(w, "idle")' => worker'[w].crawl # c
  BY <1>0, WorkersOfFresh
<1> DEFINE Goal == /\ orderOf'[c] = NoOrder /\ led'[c] = {}
                   /\ Pending(c)' = {} /\ Ended(c)' = {}
<1>a. ASSUME orderOf'[c] = orderOf[c], led'[c] = led[c], visit'[c] = visit[c] PROVE Goal
  BY <1>0, <1>a DEF IsFresh, Pending, Ended
<1>2. CASE UNCHANGED <<crawlState, orderOf, queueState, visit, led>>
  BY <1>1, <1>2, <1>a DEF IsFresh
<1>3. ASSUME NEW m \in Messages, StartCrawl(m) PROVE Goal
  <2>1. led' = led
    BY <1>3 DEF StartCrawl, historyVars
  <2>2. \/ UNCHANGED <<orderOf, visit>>
        \/ \E d \in Crawls :
             /\ crawlState' = [crawlState EXCEPT ![d] = "running"]
             /\ orderOf' = [orderOf EXCEPT ![d] = OrderIn[m]]
             /\ visit' = [visit EXCEPT ![d] =
                            [u \in Urls |-> IF u \in Seeds THEN "pending" ELSE "none"]]
    BY <1>3 DEF StartCrawl, crawlVars
  <2>3. orderOf'[c] = orderOf[c] /\ visit'[c] = visit[c]
    BY <1>0, <2>2
  <2> QED
    BY <1>a, <2>1, <2>3
<1>4. ASSUME NEW d \in Crawls, Pause(d) \/ Resume(d) \/ Cancel(d) \/ Finish(d) PROVE Goal
  BY <1>4, <1>a DEF Pause, Resume, Cancel, ChangeState, Finish, queueVars, historyVars
<1>5. ASSUME NEW d \in Crawls, Drain(d) PROVE Goal
  <2>1. CASE d # c
    BY <1>5, <1>a, <2>1, DropsVisits
  <2>2. CASE d = c
    BY <1>0, <1>5, <2>2, DropsVisits DEF IsFresh
  <2> QED
    BY <2>1, <2>2
<1>6. ASSUME NEW d \in Crawls, Forget(d) PROVE Goal
  <2>1. d # c
    BY <1>0, <1>6 DEF Forget, Finished
  <2> QED
    BY <1>6, <1>a, <2>1, ForgetsVisits
<1>7. ASSUME NEW w \in Workers, PutOnFrontier(w) \/ EndPageVisit(w) PROVE Goal
  <2>1. worker[w].crawl # c
    BY <1>0, <1>7 DEF PutOnFrontier, EndPageVisit, IsFresh, At
  <2>2. /\ orderOf' = orderOf
        /\ \A d \in Crawls : d # worker[w].crawl => visit'[d] = visit[d] /\ led'[d] = led[d]
    <3>1. CASE PutOnFrontier(w)
      BY <3>1, PutsOnFrontier
    <3>2. CASE EndPageVisit(w)
      BY <1>0, <3>2, EndsAVisit
    <3> QED
      BY <1>7, <3>1, <3>2
  <2> QED
    BY <1>a, <2>1, <2>2
<1> HIDE DEF Goal
<1>8. Goal
  BY <1>a, <1>2, <1>3, <1>4, <1>5, <1>6, <1>7, StepsOfCrawls
<1> QED
  BY <1>1, <1>8 DEF Goal, IsFresh

LEMMA FreshHold == Spec => []FreshInv
<1>1. Init => FreshInv
  BY DEF Init, FreshInv, IsFresh, Pending, Ended, At, NoVisit
<1> QED
  BY <1>1, FreshKept, TypeCorrect, PTL DEF Spec

-----------------------------------------------------------------------------
(* The implementation of CrawlPromise *)

PendingVisits == [c \in Crawls |-> Pending(c)]
EndedVisits == [c \in Crawls |-> Ended(c)]

PromiseKept == Promise!Next \/ UNCHANGED Promise!promiseVars

LEMMA PromisedAtFirst == Init => Promise!Init
BY DEF Init, Promise!Init, Pending, Ended

\* A step that changes the visits of one crawl.
LEMMA VisitsOfOne ==
  ASSUME NEW c \in Crawls, \A d \in Crawls : d # c => visit'[d] = visit[d]
  PROVE  /\ PendingVisits' = [PendingVisits EXCEPT ![c] = Pending(c)']
         /\ EndedVisits' = [EndedVisits EXCEPT ![c] = Ended(c)']
<1>1. \A d \in Crawls : d # c => Pending(d)' = Pending(d) /\ Ended(d)' = Ended(d)
  BY DEF Pending, Ended
<1> QED
  BY <1>1 DEF PendingVisits, EndedVisits

LEMMA VisitsStandStill ==
  ASSUME visit' = visit
  PROVE  PendingVisits' = PendingVisits /\ EndedVisits' = EndedVisits
BY DEF PendingVisits, EndedVisits, Pending, Ended

LEMMA PromiseStandsStill ==
  ASSUME crawlState' = crawlState, PendingVisits' = PendingVisits, EndedVisits' = EndedVisits
  PROVE  PromiseKept
BY DEF PromiseKept, Promise!promiseVars, PendingVisits, EndedVisits

LEMMA StartIsPromised ==
  ASSUME TypeOK, FreshInv, NEW m \in Messages, StartCrawl(m)
  PROVE  PromiseKept
<1>0. visit \in [Crawls -> [Urls -> {"none", "pending", "ended"}]]
      /\ crawlState \in [Crawls -> CrawlStates]
  BY DEF TypeOK
<1>1. CASE crawlState' = crawlState
  <2>1. visit' = visit
    BY <1>0, <1>1 DEF StartCrawl, CrawlStates
  <2> QED
    BY <1>1, <2>1, VisitsStandStill, PromiseStandsStill
<1>2. CASE crawlState' # crawlState
  <2>1. PICK c \in Crawls :
          /\ crawlState[c] = "none" /\ crawlState' = [crawlState EXCEPT ![c] = "running"]
          /\ visit' = [visit EXCEPT ![c] =
                         [u \in Urls |-> IF u \in Seeds THEN "pending" ELSE "none"]]
    BY <1>2, StartsWithSeeds
  <2>2. Ended(c)' = Ended(c)
    <3>1. \A u \in Urls : visit'[c][u] # "ended"
      BY <1>0, <2>1
    <3> QED
      BY <2>1, <3>1 DEF FreshInv, IsFresh, Ended
  <2>3. /\ PendingVisits' = [PendingVisits EXCEPT ![c] = Pending(c)']
        /\ EndedVisits' = [EndedVisits EXCEPT ![c] = Ended(c)']
    BY <1>0, <2>1, VisitsOfOne
  <2>4. EndedVisits' = EndedVisits /\ Pending(c)' \in SUBSET Urls
    BY <2>2, <2>3 DEF EndedVisits, Pending
  <2>5. Promise!Start(c)
    BY <2>1, <2>3, <2>4 DEF Promise!Start, Promise!To, PendingVisits, EndedVisits
  <2> QED
    BY <2>5 DEF PromiseKept, Promise!Next
<1> QED
  BY <1>1, <1>2

LEMMA ChangesArePromised ==
  ASSUME TypeOK, NEW c \in Crawls, Pause(c) \/ Resume(c) \/ Cancel(c)
  PROVE  PromiseKept
<1>1. PendingVisits' = PendingVisits /\ EndedVisits' = EndedVisits
  BY VisitsStandStill DEF Pause, Resume, Cancel, ChangeState
<1>2. Promise!ChangeState(c)
  BY <1>1 DEF Pause, Resume, Cancel, ChangeState, Promise!ChangeState, Promise!To,
              PendingVisits, EndedVisits
<1> QED
  BY <1>2 DEF PromiseKept, Promise!Next

LEMMA FinishIsPromised ==
  ASSUME TypeOK, NEW c \in Crawls, Finish(c)
  PROVE  PromiseKept
<1>1. PendingVisits' = PendingVisits /\ EndedVisits' = EndedVisits
  BY VisitsStandStill DEF Finish, queueVars
<1>2. PendingVisits[c] = {}
  BY DEF Finish, hasNothingPending, PendingVisits
<1>3. Promise!Finish(c)
  BY <1>1, <1>2 DEF Finish, finishedStateFrom, Unfinished, Promise!Finish, Promise!To,
                    PendingVisits, EndedVisits
<1> QED
  BY <1>3 DEF PromiseKept, Promise!Next

LEMMA ForgettingIsPromised ==
  ASSUME TypeOK, QueueFollowsCrawl, NEW c \in Crawls, Forget(c)
  PROVE  PromiseKept
<1>1. /\ crawlState[c] \in Finished /\ crawlState' = [crawlState EXCEPT ![c] = "forgotten"]
      /\ Pending(c)' = {} /\ Ended(c)' = {}
      /\ PendingVisits' = [PendingVisits EXCEPT ![c] = Pending(c)']
      /\ EndedVisits' = [EndedVisits EXCEPT ![c] = Ended(c)']
  BY ForgetsVisits, VisitsOfOne
<1>2. PendingVisits' = PendingVisits
  BY <1>1 DEF QueueFollowsCrawl, PendingVisits
<1>3. Promise!Forget(c)
  BY <1>1, <1>2 DEF Finished, Promise!Forget, Promise!To, PendingVisits, EndedVisits
<1> QED
  BY <1>3 DEF PromiseKept, Promise!Next

\* A queue drains only while its crawl is cancelling, or has nothing pending.
LEMMA DroppingIsPromised ==
  ASSUME TypeOK, QueueFollowsCrawl, NEW c \in Crawls, Drain(c)
  PROVE  PromiseKept
<1>1. /\ queueState[c] = "draining" /\ crawlState' = crawlState
      /\ Pending(c)' \subseteq Pending(c) /\ Ended(c)' = Ended(c)
      /\ PendingVisits' = [PendingVisits EXCEPT ![c] = Pending(c)']
      /\ EndedVisits' = [EndedVisits EXCEPT ![c] = Ended(c)']
  BY DropsVisits, VisitsOfOne
<1>2. EndedVisits' = EndedVisits /\ PendingVisits[c] = Pending(c)
  BY <1>1 DEF EndedVisits, PendingVisits
<1>3. CASE crawlState[c] = "cancelling"
  <2>1. Promise!DropVisits(c)
    BY <1>1, <1>2, <1>3 DEF Promise!DropVisits, PendingVisits, EndedVisits
  <2> QED
    BY <2>1 DEF PromiseKept, Promise!Next
<1>4. CASE crawlState[c] # "cancelling"
  <2>1. Pending(c) = {}
    BY <1>1, <1>4 DEF QueueFollowsCrawl, TypeOK, CrawlStates, Finished
  <2>2. PendingVisits' = PendingVisits
    BY <1>1, <2>1 DEF PendingVisits
  <2> QED
    BY <1>1, <1>2, <2>2, PromiseStandsStill
<1> QED
  BY <1>3, <1>4

\* Nothing is put on the queue of a crawl that is cancelling or finished.
LEMMA LeadingOnIsPromised ==
  ASSUME TypeOK, QueueFollowsCrawl, FreshInv, NEW w \in Workers, PutOnFrontier(w)
  PROVE  PromiseKept
<1>0. worker[w].crawl \in Crawls
  BY PutsOnFrontier
<1> SUFFICES ASSUME NEW c \in Crawls, worker[w].crawl = c PROVE PromiseKept
  BY <1>0
<1> DEFINE next == {u \in nextPageVisitsFrom(w) : visit[c][u] = "none"} \cap Urls
<1>1. /\ worker[w].url \in Urls /\ crawlState' = crawlState
      /\ \A d \in Crawls : d # c => visit'[d] = visit[d]
      /\ \A u \in Urls :
           visit'[c][u] = IF TakesNextOf(w) /\ u \in nextPageVisitsFrom(w) /\ visit[c][u] = "none"
                          THEN "pending" ELSE visit[c][u]
  BY PutsOnFrontier
<1>2. /\ PendingVisits' = [PendingVisits EXCEPT ![c] = Pending(c)']
      /\ EndedVisits' = [EndedVisits EXCEPT ![c] = Ended(c)']
      /\ PendingVisits[c] = Pending(c) /\ EndedVisits[c] = Ended(c)
  BY <1>1, VisitsOfOne DEF PendingVisits, EndedVisits
<1>3. Ended(c)' = Ended(c)
  BY <1>1 DEF Ended
<1>4. EndedVisits' = EndedVisits
  BY <1>2, <1>3 DEF EndedVisits
<1>5. CASE ~TakesNextOf(w)
  <2>1. Pending(c)' = Pending(c)
    BY <1>1, <1>5 DEF Pending
  <2>2. PendingVisits' = PendingVisits
    BY <1>2, <2>1 DEF PendingVisits
  <2> QED
    BY <1>1, <1>4, <2>2, PromiseStandsStill
<1>6. CASE TakesNextOf(w)
  <2>1. Pending(c)' = Pending(c) \cup next
    BY <1>1, <1>6 DEF Pending
  <2>2. next \in SUBSET (Urls \ Ended(c))
    BY DEF Ended
  <2>3. Pending(c) # {} /\ queueState[c] # "draining"
    BY <1>1, <1>6 DEF TakesNextOf, Pending
  <2>4. crawlState[c] \in {"running", "paused"}
    BY <2>3 DEF QueueFollowsCrawl, FreshInv, IsFresh, TypeOK, CrawlStates, Finished
  <2> HIDE DEF next
  <2>5. PendingVisits' = [PendingVisits EXCEPT ![c] = PendingVisits[c] \cup next]
    BY <1>2, <2>1
  <2>6. Promise!LeadOn(c)
    BY <1>1, <1>2, <1>4, <2>2, <2>3, <2>4, <2>5 DEF Promise!LeadOn, PendingVisits, EndedVisits
  <2> QED
    BY <2>6 DEF PromiseKept, Promise!Next
<1> QED
  BY <1>5, <1>6

\* A visit that ends is pending, whatever became of its worker's lease.
LEMMA EndIsPromised ==
  ASSUME TypeOK, NEW w \in Workers, EndPageVisit(w)
  PROVE  PromiseKept
<1>0. worker[w].crawl \in Crawls /\ worker[w].url \in Urls
  BY EndsAVisit
<1> SUFFICES ASSUME NEW c \in Crawls, NEW u \in Urls, worker[w].crawl = c, worker[w].url = u
             PROVE  PromiseKept
  BY <1>0
<1>1. crawlState' = crawlState
  BY EndsAVisit
<1>2. CASE visit' = visit
  BY <1>1, <1>2, VisitsStandStill, PromiseStandsStill
<1>3. CASE visit' # visit
  <2>1. visit[c][u] = "pending" /\ visit' = [visit EXCEPT ![c] = [visit[c] EXCEPT ![u] = "ended"]]
    BY <1>3, EndsAVisit DEF IsLeased
  <2>2. visit \in [Crawls -> [Urls -> {"none", "pending", "ended"}]]
    BY DEF TypeOK
  <2>3. /\ \A d \in Crawls : d # c => visit'[d] = visit[d]
        /\ visit'[c] = [visit[c] EXCEPT ![u] = "ended"] /\ visit[c] \in [Urls -> {"none", "pending", "ended"}]
    BY <2>1, <2>2
  <2>4. \A v \in Urls : visit'[c][v] = IF v = u THEN "ended" ELSE visit[c][v]
    BY <2>3
  <2>5. Pending(c)' = Pending(c) \ {u} /\ Ended(c)' = Ended(c) \cup {u}
    BY <2>4 DEF Pending, Ended
  <2>6. /\ PendingVisits' = [PendingVisits EXCEPT ![c] = PendingVisits[c] \ {u}]
        /\ EndedVisits' = [EndedVisits EXCEPT ![c] = EndedVisits[c] \cup {u}]
        /\ PendingVisits[c] = Pending(c) /\ EndedVisits[c] = Ended(c)
    BY <2>3, <2>5, VisitsOfOne DEF PendingVisits, EndedVisits
  <2>7. u \in PendingVisits[c]
    BY <2>1, <2>6 DEF Pending
  <2>8. Promise!EndVisit(c, u)
    BY <1>1, <2>6, <2>7 DEF Promise!EndVisit, PendingVisits, EndedVisits
  <2> QED
    BY <2>8 DEF PromiseKept, Promise!Next
<1> QED
  BY <1>2, <1>3

LEMMA StepsArePromised ==
  TypeOK /\ QueueFollowsCrawl /\ FreshInv /\ [Next]_lifecycleVars => [Promise!Next]_(Promise!promiseVars)
<1> SUFFICES ASSUME TypeOK, QueueFollowsCrawl, FreshInv, [Next]_lifecycleVars
             PROVE  PromiseKept
  BY DEF PromiseKept
<1>1. CASE UNCHANGED <<crawlState, orderOf, queueState, visit, led>>
  BY <1>1, VisitsStandStill, PromiseStandsStill
<1> QED
  BY <1>1, StepsOfCrawls, StartIsPromised, ChangesArePromised, FinishIsPromised, ForgettingIsPromised,
     DroppingIsPromised, LeadingOnIsPromised, EndIsPromised

\* The crawler keeps what CrawlPromise says of a crawl, however workers, lost leases and
\* changes of its state interleave: a visit ends once, only a cancelled crawl drops visits,
\* and a crawl finishes with none pending.
THEOREM KeepsPromise == Spec => KeepsItsPromise
BY PromisedAtFirst, StepsArePromised, TypeCorrect, QueuesFollow, FreshHold, PTL
DEF Spec, KeepsItsPromise, Promise!Spec

-----------------------------------------------------------------------------
(* Orders and the crawls they start *)

\* Of two kept crawls of one order, one would have been found by the start of the other.
DistinctOrders ==
  \A c, d \in Crawls : c # d /\ crawlState[c] \in Kept /\ crawlState[d] \in Kept => orderOf[c] # orderOf[d]

LEMMA KeptOnlyFromStart ==
  ASSUME TypeOK, [Next]_lifecycleVars
  PROVE  \/ \E m \in Messages : StartCrawl(m) /\ crawlState' # crawlState
         \/ orderOf' = orderOf /\ \A c \in Crawls : crawlState'[c] \in Kept => crawlState[c] \in Kept
<1>0. crawlState \in [Crawls -> CrawlStates]
  BY DEF TypeOK
<1>1. CASE UNCHANGED <<crawlState, orderOf, queueState, visit, led>>
  BY <1>1
<1>2. ASSUME NEW m \in Messages, StartCrawl(m), crawlState' = crawlState
      PROVE  orderOf' = orderOf
  BY <1>0, <1>2 DEF StartCrawl, crawlVars, CrawlStates
<1>3. ASSUME NEW d \in Crawls, Pause(d) \/ Resume(d) \/ Cancel(d) \/ Finish(d) \/ Forget(d)
      PROVE  orderOf' = orderOf /\ \A c \in Crawls : crawlState'[c] \in Kept => crawlState[c] \in Kept
  BY <1>0, <1>3 DEF Pause, Resume, Cancel, ChangeState, Finish, finishedStateFrom, Forget, Kept,
                    Unfinished, Finished
<1>4. CASE \/ \E d \in Crawls : Drain(d)
           \/ \E w \in Workers : PutOnFrontier(w) \/ EndPageVisit(w)
  BY <1>4 DEF Drain, PutOnFrontier, EndPageVisit, crawlVars
<1> QED
  BY <1>1, <1>2, <1>3, <1>4, StepsOfCrawls

LEMMA DistinctOrdersKept == TypeOK /\ DistinctOrders /\ [Next]_lifecycleVars => DistinctOrders'
<1> SUFFICES ASSUME TypeOK, DistinctOrders, [Next]_lifecycleVars
             PROVE  DistinctOrders'
  OBVIOUS
<1>1. ASSUME NEW m \in Messages, StartCrawl(m), crawlState' # crawlState
      PROVE  DistinctOrders'
  <2>1. PICK e \in Crawls :
          /\ crawlState' = [crawlState EXCEPT ![e] = "running"]
          /\ orderOf' = [orderOf EXCEPT ![e] = OrderIn[m]]
          /\ KeptCrawlsOf(OrderIn[m]) = {}
    BY <1>1, StartsWithSeeds
  <2>2. \A d \in Crawls : d # e /\ crawlState[d] \in Kept => orderOf[d] # OrderIn[m]
    BY <2>1 DEF KeptCrawlsOf
  <2>3. /\ orderOf'[e] = OrderIn[m]
        /\ \A d \in Crawls : d # e => orderOf'[d] = orderOf[d] /\ crawlState'[d] = crawlState[d]
    BY <2>1 DEF TypeOK
  <2> QED
    BY <2>2, <2>3 DEF DistinctOrders
<1>2. CASE orderOf' = orderOf /\ \A c \in Crawls : crawlState'[c] \in Kept => crawlState[c] \in Kept
  BY <1>2 DEF DistinctOrders
<1> QED
  BY <1>1, <1>2, KeptOnlyFromStart

LEMMA OneOfDistinct == DistinctOrders => OneKeptCrawlPerOrder
<1> SUFFICES ASSUME DistinctOrders, NEW o \in Orders
             PROVE  Cardinality(KeptCrawlsOf(o)) <= 1
  BY DEF OneKeptCrawlPerOrder
<1>1. CASE KeptCrawlsOf(o) = {}
  BY <1>1, FS_EmptySet
<1>2. ASSUME NEW c \in KeptCrawlsOf(o) PROVE Cardinality(KeptCrawlsOf(o)) <= 1
  <2>1. KeptCrawlsOf(o) = {c}
    BY <1>2 DEF DistinctOrders, KeptCrawlsOf
  <2>2. Cardinality({c}) = 1
    BY FS_Singleton
  <2> QED
    BY <2>1, <2>2
<1> QED
  BY <1>1, <1>2

\* However often an order is sent, redelivered or overtaken, at most one crawl of it is
\* kept: the start looks for one among the unfinished and the finished crawls.
THEOREM OneCrawlPerOrder == Spec => []OneKeptCrawlPerOrder
<1>1. Init => DistinctOrders
  BY DEF Init, DistinctOrders, Kept, Unfinished, Finished
<1> QED
  BY <1>1, DistinctOrdersKept, OneOfDistinct, TypeCorrect, PTL DEF Spec

\* A message whose crawl is durable, acknowledged or not.
StartedInv ==
  \A m \in Messages :
    intake[m] \in {"started", "done"} /\ OrderIn[m] # Unreadable
      => \E c \in Crawls : orderOf[c] = OrderIn[m]

LEMMA StepsOfMessages ==
  ASSUME TypeOK, [Next]_lifecycleVars, NEW m \in Messages, intake'[m] \in {"started", "done"}
  PROVE  intake[m] \in {"started", "done"} \/ OrderIn[m] = Unreadable \/ StartCrawl(m)
<1>0. intake \in [Messages -> {"queued", "started", "done"}]
  BY DEF TypeOK
<1>1. CASE UNCHANGED lifecycleVars
  BY <1>1 DEF lifecycleVars
<1>2. ASSUME NEW n \in Messages, OrderStep(n)
      PROVE  intake[m] \in {"started", "done"} \/ OrderIn[m] = Unreadable \/ StartCrawl(m)
  BY <1>0, <1>2 DEF OrderStep, StartCrawl, RejectOrder, Acknowledge, MayAcknowledge, Redeliver
<1>3. CASE \E c \in Crawls : CrawlStep(c)
  BY <1>3 DEF CrawlStep, Pause, Resume, Cancel, ChangeState, Drain, Finish, Forget, LapseLimits
<1>4. CASE \E w \in Workers : VisitStep(w) \/ FailStorage(w) \/ LoseVisit(w)
  BY <1>4 DEF VisitStep, FailStorage, LoseVisit, FindOrder, TakePageOfHost, DropNotDue,
              FetchAndRead, PublishCrawledPage, PutOnFrontier, RecordPageVisit, Complete,
              TakeDeferral, TakeAttempt, TakeAllowance, EndPageVisit, ReturnPageVisit
<1>5. CASE \E c \in Crawls, u \in Urls : LeaseStep(c, u)
  BY <1>5 DEF LeaseStep, Lease, ExpireLease, OverrunLease, ExpireLeaseOf
<1> QED
  BY <1>1, <1>2, <1>3, <1>4, <1>5 DEF Next

\* A crawl stays the crawl of its order.
LEMMA OrdersStay ==
  ASSUME TypeOK, FreshInv, [Next]_lifecycleVars, NEW c \in Crawls, orderOf[c] \in Orders
  PROVE  orderOf'[c] = orderOf[c]
<1>1. ASSUME NEW m \in Messages, StartCrawl(m), crawlState' # crawlState
      PROVE  orderOf'[c] = orderOf[c]
  <2>1. PICK d \in Crawls : crawlState[d] = "none" /\ orderOf' = [orderOf EXCEPT ![d] = OrderIn[m]]
    BY <1>1, StartsWithSeeds
  <2>2. d # c
    BY <2>1, LifecycleAssumption DEF FreshInv, IsFresh
  <2> QED
    BY <2>1, <2>2 DEF TypeOK
<1> QED
  BY <1>1, KeptOnlyFromStart

LEMMA StartedKept == TypeOK /\ FreshInv /\ StartedInv /\ [Next]_lifecycleVars => StartedInv'
<1> SUFFICES ASSUME TypeOK, FreshInv, StartedInv, [Next]_lifecycleVars, NEW m \in Messages,
                    intake'[m] \in {"started", "done"}, OrderIn[m] # Unreadable
             PROVE  \E c \in Crawls : orderOf'[c] = OrderIn[m]
  BY DEF StartedInv
<1>0. OrderIn[m] \in Orders
  BY LifecycleAssumption
<1>1. CASE intake[m] \in {"started", "done"}
  BY <1>0, <1>1, OrdersStay DEF StartedInv
<1>2. CASE StartCrawl(m)
  <2>1. CASE crawlState' = crawlState
    <3>1. KeptCrawlsOf(OrderIn[m]) # {}
      BY <1>2, <2>1 DEF StartCrawl, keptCrawlOfOrder, TypeOK, CrawlStates
    <3> QED
      BY <1>0, <3>1, OrdersStay DEF KeptCrawlsOf
  <2>2. CASE crawlState' # crawlState
    BY <1>2, <2>2, StartsWithSeeds DEF TypeOK
  <2> QED
    BY <2>1, <2>2
<1> QED
  BY <1>1, <1>2, StepsOfMessages

\* An order that can be read is acknowledged only once a crawl of it is durable, however
\* deliveries of it overlap.
THEOREM AcknowledgedAreStarted == Spec => []AcknowledgedOrdersStarted
<1>1. Init => StartedInv
  BY DEF Init, StartedInv
<1>2. StartedInv => AcknowledgedOrdersStarted
  BY DEF StartedInv, AcknowledgedOrdersStarted
<1> QED
  BY <1>1, <1>2, StartedKept, TypeCorrect, FreshHold, PTL DEF Spec

-----------------------------------------------------------------------------
(* Nothing a crawl comes to is lost *)

\* The crawls that keep what they came to.
Live == {"running", "paused", "succeeded"}

Reaches(c, urls) == \A u \in urls : visit[c][u] # "none"

\* A crawl keeps its seeds and what its completed visits led to.
HasAll(c) ==
  crawlState[c] \in Live => Reaches(c, Seeds) /\ \A u \in led[c] : Reaches(c, Links[u])

\* A worker's visit is never unknown to its crawl; a page has a result from its fetch on,
\* and before a worker may end a visit its links are on the frontier.
Follows(w) ==
  LET c == worker[w].crawl
      u == worker[w].url
  IN  ~At(w, "idle") /\ crawlState[c] \in Live
        => /\ visit[c][u] # "none"
           /\ worker[w].stage \in {"leased", "ordered", "held"} => worker[w].result = "none"
           /\ /\ worker[w].stage \in {"added", "concluding", "ending"} /\ LeadsOn(worker[w].result)
              /\ visit[c][u] = "pending"
              => Reaches(c, Links[u])

KeepsAll == (\A c \in Crawls : HasAll(c)) /\ \A w \in Workers : Follows(w)

\* A live crawl was live before, unless it was just started, and forgets no visit.
LEMMA LiveStays ==
  ASSUME TypeOK, QueueFollowsCrawl, [Next]_lifecycleVars, NEW c \in Crawls,
         crawlState'[c] \in Live, crawlState[c] # "none"
  PROVE  /\ crawlState[c] \in Live
         /\ \A u \in Urls : visit[c][u] # "none" => visit'[c][u] # "none"
         /\ \A u \in Urls : visit[c][u] = "ended" => visit'[c][u] = "ended"
<1>0. /\ crawlState \in [Crawls -> CrawlStates]
      /\ visit \in [Crawls -> [Urls -> {"none", "pending", "ended"}]]
  BY DEF TypeOK
<1> DEFINE Stays == /\ \A u \in Urls : visit[c][u] # "none" => visit'[c][u] # "none"
                    /\ \A u \in Urls : visit[c][u] = "ended" => visit'[c][u] = "ended"
           Goal == crawlState[c] \in Live /\ Stays
<1> SUFFICES Goal
  OBVIOUS
<1>1. CASE UNCHANGED <<crawlState, orderOf, queueState, visit, led>>
  BY <1>1
<1>2. ASSUME NEW m \in Messages, StartCrawl(m) PROVE Goal
  <2>1. \/ crawlState' = crawlState /\ visit' = visit
        \/ \E d \in Crawls :
             /\ crawlState[d] = "none" /\ crawlState' = [crawlState EXCEPT ![d] = "running"]
             /\ visit' = [visit EXCEPT ![d] =
                            [u \in Urls |-> IF u \in Seeds THEN "pending" ELSE "none"]]
    BY <1>2 DEF StartCrawl, crawlVars
  <2> QED
    BY <1>0, <2>1
<1>3. ASSUME NEW d \in Crawls, Pause(d) \/ Resume(d) \/ Cancel(d) \/ Finish(d) PROVE Goal
  <2>1. visit' = visit
    BY <1>3 DEF Pause, Resume, Cancel, ChangeState, Finish, queueVars
  <2>2. crawlState[c] \in Live
    BY <1>0, <1>3 DEF Pause, Resume, Cancel, ChangeState, Finish, finishedStateFrom, Unfinished, Live
  <2> QED
    BY <2>1, <2>2
<1>4. ASSUME NEW d \in Crawls, Drain(d) PROVE Goal
  <2>1. crawlState' = crawlState
    BY <1>4, DropsVisits
  <2>2. CASE d # c
    BY <1>4, <2>1, <2>2, DropsVisits
  <2>3. CASE d = c
    <3>1. Pending(c) = {} /\ Pending(c)' \subseteq Pending(c) /\ Ended(c)' = Ended(c)
      BY <1>4, <2>1, <2>3, DropsVisits DEF QueueFollowsCrawl, Live, Finished
    <3>2. \A u \in Urls : visit[c][u] # "none" => visit[c][u] = "ended"
      BY <1>0, <3>1 DEF Pending
    <3>3. \A u \in Urls : visit[c][u] = "ended" => visit'[c][u] = "ended"
      BY <3>1 DEF Ended
    <3> QED
      BY <2>1, <3>2, <3>3
  <2> QED
    BY <2>2, <2>3
<1>5. ASSUME NEW d \in Crawls, Forget(d) PROVE Goal
  <2>1. d # c
    BY <1>0, <1>5, ForgetsVisits DEF Live
  <2> QED
    BY <1>0, <1>5, <2>1, ForgetsVisits
<1>6. ASSUME NEW w \in Workers, PutOnFrontier(w) PROVE Goal
  BY <1>6, PutsOnFrontier
<1>7. ASSUME NEW w \in Workers, EndPageVisit(w) PROVE Goal
  <2>1. crawlState' = crawlState
    BY <1>7, EndsAVisit
  <2>2. Stays
    <3>1. PICK d \in Crawls, v \in Urls :
            visit' \in {visit, [visit EXCEPT ![d] = [visit[d] EXCEPT ![v] = "ended"]]}
      BY <1>7, EndsAVisit
    <3>2. \A u \in Urls : visit'[c][u] = visit[c][u] \/ visit'[c][u] = "ended"
      BY <1>0, <3>1
    <3> QED
      BY <3>2
  <2> QED
    BY <2>1, <2>2
<1> HIDE DEF Goal
<1> QED
  BY <1>1, <1>2, <1>3, <1>4, <1>5, <1>6, <1>7, StepsOfCrawls

\* What a worker at work follows from: its crawl and its visit before the step.
LEMMA ReachesStill ==
  ASSUME TypeOK, QueueFollowsCrawl, FreshInv, [Next]_lifecycleVars, NEW c \in Crawls,
         crawlState'[c] \in Live, crawlState[c] # "none", NEW urls \in SUBSET Urls, Reaches(c, urls)
  PROVE  Reaches(c, urls)'
BY LiveStays DEF Reaches

LEMMA FollowsStill ==
  ASSUME TypeOK, QueueFollowsCrawl, FreshInv, [Next]_lifecycleVars, NEW w \in Workers, Follows(w),
         worker'[w] = worker[w]
  PROVE  Follows(w)'
<1>1. CASE At(w, "idle")
  BY <1>1 DEF Follows, At
<1>2. CASE ~At(w, "idle") /\ crawlState'[worker[w].crawl] \in Live
  <2>1. worker[w].crawl \in Crawls /\ worker[w].url \in Urls
    BY <1>2, WorksOnAVisit DEF At
  <2> SUFFICES ASSUME NEW c \in Crawls, NEW u \in Urls, worker[w].crawl = c, worker[w].url = u
               PROVE  Follows(w)'
    BY <2>1
  <2>2. crawlState[c] # "none"
    BY <1>2 DEF FreshInv, IsFresh
  <2>3. /\ crawlState[c] \in Live
        /\ visit[c][u] # "none" => visit'[c][u] # "none"
        /\ visit[c][u] = "ended" => visit'[c][u] = "ended"
    BY <1>2, <2>2, LiveStays
  <2>4. Reaches(c, Links[u]) => Reaches(c, Links[u])'
    BY <1>2, <2>2, LifecycleAssumption, ReachesStill
  <2>5. visit[c][u] # "none" /\ visit'[c][u] = "pending" => visit[c][u] = "pending"
    BY <2>3 DEF TypeOK
  <2> QED
    BY <1>2, <2>3, <2>4, <2>5 DEF Follows, At
<1>3. CASE crawlState'[worker[w].crawl] \notin Live
  BY <1>3 DEF Follows
<1> QED
  BY <1>1, <1>2, <1>3

LEMMA TakesUpFollows ==
  ASSUME TypeOK, QueueFollowsCrawl, FreshInv, [Next]_lifecycleVars, NEW w \in Workers, TakesUp(w)
  PROVE  Follows(w)'
<1>1. PICK c \in Crawls, u \in Urls :
        /\ visit[c][u] = "pending"
        /\ worker' = [worker EXCEPT ![w] =
                        [stage |-> "leased", crawl |-> c, url |-> u, result |-> "none"]]
  BY DEF TakesUp
<1>2. worker'[w] = [stage |-> "leased", crawl |-> c, url |-> u, result |-> "none"]
  BY <1>1 DEF TypeOK
<1>3. crawlState[c] # "none"
  BY <1>1 DEF FreshInv, IsFresh, Pending
<1>4. crawlState'[c] \in Live => visit'[c][u] # "none"
  BY <1>1, <1>3, LiveStays
<1> QED
  BY <1>2, <1>4 DEF Follows

\* The links of a page that leads on are put on the frontier while its visit is pending.
LEMMA AddedFollows ==
  ASSUME TypeOK, QueueFollowsCrawl, NEW w \in Workers, PutOnFrontier(w),
         NEW c \in Crawls, NEW u \in Urls, worker[w].crawl = c, worker[w].url = u,
         crawlState[c] \in Live, LeadsOn(worker[w].result), visit'[c][u] = "pending", visit[c][u] # "none"
  PROVE  Reaches(c, Links[u])'
<1>1. \A v \in Urls :
        visit'[c][v] = IF TakesNextOf(w) /\ v \in nextPageVisitsFrom(w) /\ visit[c][v] = "none"
                       THEN "pending" ELSE visit[c][v]
  BY PutsOnFrontier
<1>2. visit[c][u] = "pending"
  BY <1>1
<1>3. queueState[c] # "draining"
  BY <1>2 DEF QueueFollowsCrawl, Live, Finished, Pending
<1>4. TakesNextOf(w)
  BY <1>2, <1>3 DEF TakesNextOf
<1>5. nextPageVisitsFrom(w) = Links[u] /\ Links[u] \subseteq Urls
  BY LifecycleAssumption DEF nextPageVisitsFrom
<1> QED
  BY <1>1, <1>4, <1>5 DEF Reaches

LEMMA GoesOnFollows ==
  ASSUME TypeOK, QueueFollowsCrawl, FreshInv, [Next]_lifecycleVars, NEW w \in Workers, Follows(w),
         GoesOn(w) \/ Fetches(w)
  PROVE  Follows(w)'
<1>0. /\ ~At(w, "idle") /\ worker[w].crawl \in Crawls /\ worker[w].url \in Urls /\ worker[w] \in Work
      /\ worker \in [Workers -> Work \cup {NoVisit}]
  BY WorksOnAVisit, TypesInParts DEF GoesOn, Fetches, At, WorkerTypes
<1> SUFFICES ASSUME NEW c \in Crawls, NEW u \in Urls, worker[w].crawl = c, worker[w].url = u,
                    crawlState'[c] \in Live
             PROVE  Follows(w)'
  <2>1. worker'[w].crawl = worker[w].crawl /\ worker'[w].url = worker[w].url
    BY <1>0 DEF GoesOn, GoesTo, Fetches, Work
  <2> QED
    BY <1>0, <2>1 DEF Follows
<1>1. crawlState[c] # "none"
  BY <1>0 DEF FreshInv, IsFresh
<1>2. /\ crawlState[c] \in Live
      /\ visit[c][u] # "none" => visit'[c][u] # "none"
      /\ visit[c][u] = "ended" => visit'[c][u] = "ended"
  BY <1>1, LiveStays
<1>3. Reaches(c, Links[u]) => Reaches(c, Links[u])'
  BY <1>1, LifecycleAssumption, ReachesStill
<1>4. /\ visit[c][u] # "none" /\ visit'[c][u] # "none"
      /\ visit'[c][u] = "pending" => visit[c][u] = "pending"
      /\ worker[w].stage \in {"leased", "ordered", "held"} => worker[w].result = "none"
      /\ /\ worker[w].stage \in {"added", "concluding", "ending"} /\ LeadsOn(worker[w].result)
         /\ visit[c][u] = "pending"
         => Reaches(c, Links[u])
  BY <1>0, <1>2 DEF Follows, TypeOK
<1>5. CASE Fetches(w)
  <2>1. PICK r \in Results : worker' = [worker EXCEPT ![w].stage = "fetched", ![w].result = r]
    BY <1>5 DEF Fetches
  <2>2. worker'[w] = [worker[w] EXCEPT !.stage = "fetched", !.result = r]
    BY <1>0, <2>1
  <2>3. worker'[w].stage = "fetched" /\ worker'[w].crawl = c /\ worker'[w].url = u
    BY <1>0, <2>2 DEF Work
  <2> QED
    BY <1>4, <2>3 DEF Follows
<1>6. CASE GoesOn(w)
  <2>1. PICK s \in Stages \ {"idle"} : GoesTo(w, s) /\ ComesTo(w, s)
    BY <1>6 DEF GoesOn
  <2>2. /\ worker'[w].stage = s /\ worker'[w].crawl = c /\ worker'[w].url = u
        /\ worker'[w].result = worker[w].result
    BY <1>0, <2>1 DEF GoesTo, Work
  <2>3. s \in {"leased", "ordered", "held"} => worker[w].result = "none"
    <3>1. s = "held" => At(w, "ordered")
      BY <2>1 DEF ComesTo, TakePageOfHost
    <3> QED
      BY <1>4, <2>1, <3>1 DEF ComesTo, At
  <2>4. s \in {"added", "concluding", "ending"} /\ LeadsOn(worker[w].result) /\ visit'[c][u] = "pending"
          => Reaches(c, Links[u])'
    <3>1. CASE s = "added"
      <4>1. PutOnFrontier(w)
        BY <2>1, <3>1 DEF ComesTo
      <4> QED
        BY <1>2, <1>4, <4>1, AddedFollows
    <3>2. CASE s = "concluding"
      BY <1>3, <1>4, <2>1, <3>2 DEF ComesTo, At
    <3>3. CASE s = "ending"
      BY <1>3, <1>4, <2>1, <3>3 DEF ComesTo, LeadsOn
    <3> QED
      BY <3>1, <3>2, <3>3
  <2> QED
    BY <1>4, <2>2, <2>3, <2>4 DEF Follows
<1> QED
  BY <1>5, <1>6

LEMMA FollowsKept ==
  ASSUME TypeOK, QueueFollowsCrawl, FreshInv, [Next]_lifecycleVars, NEW w \in Workers, Follows(w)
  PROVE  Follows(w)'
<1>1. CASE worker'[w] = worker[w]
  BY <1>1, FollowsStill
<1>2. CASE TakesUp(w)
  BY <1>2, TakesUpFollows
<1>3. CASE GoesOn(w) \/ Fetches(w)
  BY <1>3, GoesOnFollows
<1>4. CASE IsThrough(w)
  BY <1>4 DEF IsThrough, Follows, At, NoVisit, TypeOK
<1>5. ASSUME NEW v \in Workers, v # w, TakesUp(v) \/ GoesOn(v) \/ Fetches(v) \/ IsThrough(v)
      PROVE  worker'[w] = worker[w]
  BY <1>5 DEF TakesUp, GoesOn, GoesTo, Fetches, IsThrough, TypeOK
<1> QED
  BY <1>1, <1>2, <1>3, <1>4, <1>5, StepsOfWorkers

LEMMA HasAllKept ==
  ASSUME TypeOK, QueueFollowsCrawl, FreshInv, KeepsAll, [Next]_lifecycleVars, NEW c \in Crawls
  PROVE  HasAll(c)'
<1> SUFFICES ASSUME crawlState'[c] \in Live
             PROVE  Reaches(c, Seeds)' /\ \A u \in led'[c] : Reaches(c, Links[u])'
  BY DEF HasAll, Reaches
<1>1. CASE crawlState[c] = "none"
  <2>1. PICK m \in Messages : StartCrawl(m) /\ crawlState' # crawlState
    <3>1. crawlState[c] \notin Kept /\ crawlState'[c] \in Kept
      BY <1>1 DEF Live, Kept, Unfinished, Finished
    <3> QED
      BY <3>1, KeptOnlyFromStart
  <2>2. PICK d \in Crawls :
          /\ crawlState' = [crawlState EXCEPT ![d] = "running"]
          /\ visit' = [visit EXCEPT ![d] =
                         [u \in Urls |-> IF u \in Seeds THEN "pending" ELSE "none"]]
    BY <2>1, StartsWithSeeds
  <2>3. d = c
    BY <1>1, <2>2 DEF TypeOK, Live
  <2>4. \A u \in Seeds : visit'[c][u] = "pending"
    BY <2>2, <2>3, LifecycleAssumption DEF TypeOK
  <2>5. led'[c] = {}
    BY <1>1, <2>1 DEF StartCrawl, historyVars, FreshInv, IsFresh
  <2> QED
    BY <2>4, <2>5 DEF Reaches
<1>2. CASE crawlState[c] # "none"
  <2>1. /\ Reaches(c, Seeds)
        /\ \A u \in led[c] : Reaches(c, Links[u]) /\ Links[u] \subseteq Urls
    BY <1>2, LiveStays, LifecycleAssumption DEF KeepsAll, HasAll, TypeOK
  <2>2. Reaches(c, Seeds)' /\ \A u \in led[c] : Reaches(c, Links[u])'
    BY <1>2, <2>1, ReachesStill, LifecycleAssumption
  <2>3. CASE led'[c] = led[c]
    BY <2>2, <2>3
  <2>4. ASSUME NEW w \in Workers, EndPageVisit(w), led'[c] # led[c]
        PROVE  \A u \in led'[c] : Reaches(c, Links[u])'
    <3>1. PICK u \in Urls :
            /\ worker[w].crawl = c /\ worker[w].url = u /\ IsLeased(w, c, u)
            /\ LeadsOn(worker[w].result) /\ led'[c] = led[c] \cup {u}
      <4>1. led \in [Crawls -> SUBSET Urls]
        BY DEF TypeOK
      <4>2. PICK d \in Crawls, u \in Urls :
              /\ worker[w].crawl = d /\ worker[w].url = u /\ IsLeased(w, d, u)
              /\ LeadsOn(worker[w].result) /\ led' = [led EXCEPT ![d] = led[d] \cup {u}]
        BY <2>4, EndsAVisit
      <4>3. d = c
        BY <2>4, <4>1, <4>2
      <4> QED
        BY <4>1, <4>2, <4>3
    <3>2. Reaches(c, Links[u])
      BY <1>2, <2>4, <3>1, LiveStays DEF EndPageVisit, At, IsLeased, KeepsAll, Follows
    <3>3. Reaches(c, Links[u])'
      BY <1>2, <3>1, <3>2, ReachesStill, LifecycleAssumption
    <3> QED
      BY <2>2, <3>1, <3>3
  <2>5. CASE \E w \in Workers : PutOnFrontier(w)
    BY <2>2, <2>5, PutsOnFrontier
  <2>6. CASE \E m \in Messages : StartCrawl(m)
    BY <2>2, <2>6 DEF StartCrawl, historyVars
  <2>7. CASE \E d \in Crawls : Pause(d) \/ Resume(d) \/ Cancel(d) \/ Drain(d) \/ Finish(d) \/ Forget(d)
    BY <2>2, <2>7 DEF Pause, Resume, Cancel, ChangeState, Drain, Finish, Forget, historyVars
  <2> QED
    BY <2>2, <2>3, <2>4, <2>5, <2>6, <2>7, StepsOfCrawls
<1> QED
  BY <1>1, <1>2

LEMMA AllIsKept ==
  TypeOK /\ QueueFollowsCrawl /\ FreshInv /\ KeepsAll /\ [Next]_lifecycleVars => KeepsAll'
<1> SUFFICES ASSUME TypeOK, QueueFollowsCrawl, FreshInv, KeepsAll, [Next]_lifecycleVars
             PROVE  KeepsAll'
  OBVIOUS
<1>1. \A c \in Crawls : HasAll(c)'
  BY HasAllKept
<1>2. \A w \in Workers : Follows(w)'
  BY FollowsKept DEF KeepsAll
<1> QED
  BY <1>1, <1>2 DEF KeepsAll

LEMMA AllIsThere == TypeOK /\ KeepsAll => NothingIsLost
<1> SUFFICES ASSUME TypeOK, KeepsAll, NEW c \in Crawls, crawlState[c] \in Live,
                    NEW v \in Seeds \cup UNION {Links[u] : u \in led[c]}
             PROVE  v \in Pending(c) \cup Ended(c)
  BY DEF NothingIsLost, Live
<1>1. v \in Urls /\ visit[c][v] # "none"
  BY LifecycleAssumption DEF KeepsAll, HasAll, Reaches, TypeOK
<1> QED
  BY <1>1 DEF Pending, Ended, TypeOK

\* Until a crawl is cancelled, its seeds and what its completed visits led to are pending or
\* ended, though the links of a page, its record and the end of its visit are transactions
\* of their own between which a worker stops, is overtaken, or loses its lease.
THEOREM NothingLost == Spec => []NothingIsLost
<1>1. Init => KeepsAll
  BY DEF Init, KeepsAll, HasAll, Follows, Live, At, NoVisit
<1> QED
  BY <1>1, AllIsKept, AllIsThere, TypeCorrect, QueuesFollow, FreshHold, PTL DEF Spec

-----------------------------------------------------------------------------
(* The pages a crawl takes of a host, while what is kept of its limits does not lapse *)

\* The URLs a page of the host was taken for.
Took(c) == {u \in Urls : used[c][u].pageOfHost = TRUE}

TookInv ==
  /\ \A c \in Crawls : IsFiniteSet(Took(c)) /\ Cardinality(Took(c)) = hostPages[c]
  /\ MaxPages # UnlimitedPagesPerHost
       => /\ \A c \in Crawls : fetched[c] \subseteq Took(c)
          /\ \A w \in Workers : At(w, "held") => worker[w].url \in Took(worker[w].crawl)

TakesFor(w, c, u) ==
  /\ worker[w].crawl = c /\ worker[w].url = u
  /\ used[c][u].pageOfHost = FALSE
  /\ hostPages' = [hostPages EXCEPT ![c] = hostPages[c] + 1]
  /\ used' = [used EXCEPT ![c] = [used[c] EXCEPT ![u] = [used[c][u] EXCEPT !.pageOfHost = TRUE]]]

LEMMA TakingAPage ==
  ASSUME TypeOK, NEW w \in Workers, TakePageOfHost(w)
  PROVE  UNCHANGED limitVars \/ \E c \in Crawls, u \in Urls : TakesFor(w, c, u)
<1>1. worker[w].crawl \in Crawls /\ worker[w].url \in Urls
  BY WorksOnAVisit DEF TakePageOfHost, At
<1> SUFFICES ASSUME NEW c \in Crawls, NEW u \in Urls, worker[w].crawl = c, worker[w].url = u
             PROVE  UNCHANGED limitVars \/ TakesFor(w, c, u)
  BY <1>1
<1>2. used[c][u].pageOfHost \in BOOLEAN
  BY DEF TypeOK
<1>3. \/ UNCHANGED limitVars
      \/ /\ ~used[c][u].pageOfHost
         /\ hostPages' = [hostPages EXCEPT ![c] = hostPages[c] + 1]
         /\ used' = [used EXCEPT ![c] = [used[c] EXCEPT ![u] = [used[c][u] EXCEPT !.pageOfHost = TRUE]]]
  BY DEF TakePageOfHost
<1> QED
  BY <1>2, <1>3 DEF TakesFor

\* Deferrals and attempts are counted apart from the pages taken.
LEMMA AllowancesTakeNoPage ==
  ASSUME TypeOK, NEW w \in Workers, TakeDeferral(w) \/ TakeAttempt(w)
  PROVE  hostPages' = hostPages /\ \A c \in Crawls : Took(c)' = Took(c)
<1>0. worker[w].crawl \in Crawls /\ worker[w].url \in Urls
  BY WorksOnAVisit DEF TakeDeferral, TakeAttempt, At
<1> SUFFICES ASSUME NEW c \in Crawls, NEW u \in Urls, worker[w].crawl = c, worker[w].url = u
             PROVE  hostPages' = hostPages /\ \A d \in Crawls : Took(d)' = Took(d)
  BY <1>0
<1> DEFINE Used == [pageOfHost : BOOLEAN, deferrals : 0..MaxDeferrals, attempts : 0..MaxAttempts]
<1>1. used \in [Crawls -> [Urls -> Used]]
  BY DEF TypeOK
<1>2. /\ hostPages' = hostPages
      /\ \/ used' = used
         \/ used' = [used EXCEPT ![c][u] = withAnotherDeferral(used[c][u])]
         \/ used' = [used EXCEPT ![c][u] = withAnotherAttempt(used[c][u])]
  BY DEF TakeDeferral, TakeAttempt, TakeAllowance, UsedBy
<1>3. PICK after : after.pageOfHost = used[c][u].pageOfHost
                   /\ used' \in {used, [used EXCEPT ![c] = [used[c] EXCEPT ![u] = after]]}
  <2>1. /\ used[c][u] \in Used
        /\ withAnotherDeferral(used[c][u]).pageOfHost = used[c][u].pageOfHost
        /\ withAnotherAttempt(used[c][u]).pageOfHost = used[c][u].pageOfHost
    BY <1>1 DEF withAnotherDeferral, withAnotherAttempt
  <2> QED
    BY <1>2, <2>1
<1>4. \A d \in Crawls, v \in Urls : used'[d][v].pageOfHost = used[d][v].pageOfHost
  BY <1>1, <1>3
<1> QED
  BY <1>2, <1>4 DEF Took

LEMMA StepsOfTaking ==
  ASSUME TypeOK, ~LimitsLapse, [Next]_lifecycleVars
  PROVE  \/ hostPages' = hostPages /\ \A c \in Crawls : Took(c)' = Took(c)
         \/ \E w \in Workers, c \in Crawls, u \in Urls : TakesFor(w, c, u)
<1>1. ASSUME UNCHANGED limitVars
      PROVE  hostPages' = hostPages /\ \A c \in Crawls : Took(c)' = Took(c)
  BY <1>1 DEF limitVars, Took
<1>2. CASE UNCHANGED lifecycleVars
  BY <1>1, <1>2 DEF lifecycleVars
<1>3. ASSUME NEW m \in Messages, OrderStep(m) PROVE UNCHANGED limitVars
  BY <1>3 DEF OrderStep, StartCrawl, RejectOrder, Acknowledge, Redeliver
<1>4. ASSUME NEW c \in Crawls, CrawlStep(c) PROVE UNCHANGED limitVars
  BY <1>4 DEF CrawlStep, Pause, Resume, Cancel, ChangeState, Drain, Finish, Forget, LapseLimits
<1>5. ASSUME NEW w \in Workers, VisitStep(w) \/ FailStorage(w) \/ LoseVisit(w),
             ~TakePageOfHost(w), ~TakeDeferral(w), ~TakeAttempt(w)
      PROVE  UNCHANGED limitVars
  BY <1>5 DEF VisitStep, FailStorage, LoseVisit, FindOrder, DropNotDue, FetchAndRead,
              PublishCrawledPage, PutOnFrontier, RecordPageVisit, Complete, EndPageVisit,
              ReturnPageVisit
<1>6. ASSUME NEW c \in Crawls, NEW u \in Urls, LeaseStep(c, u) PROVE UNCHANGED limitVars
  BY <1>6 DEF LeaseStep, Lease, ExpireLease, OverrunLease, ExpireLeaseOf
<1> QED
  BY <1>1, <1>2, <1>3, <1>4, <1>5, <1>6, TakingAPage, AllowancesTakeNoPage DEF Next

LEMMA TakenPagesCounted ==
  ASSUME TypeOK, NEW w \in Workers, NEW c \in Crawls, NEW u \in Urls, TakesFor(w, c, u)
  PROVE  /\ Took(c)' = Took(c) \cup {u} /\ u \notin Took(c) /\ hostPages'[c] = hostPages[c] + 1
         /\ \A d \in Crawls : d # c => Took(d)' = Took(d) /\ hostPages'[d] = hostPages[d]
<1>1. used \in [Crawls -> [Urls -> [pageOfHost : BOOLEAN, deferrals : 0..MaxDeferrals,
                                    attempts : 0..MaxAttempts]]]
      /\ hostPages \in [Crawls -> 0..MaxPages]
  BY DEF TypeOK
<1>2. used[c][u] \in [pageOfHost : BOOLEAN, deferrals : 0..MaxDeferrals, attempts : 0..MaxAttempts]
  BY <1>1
<1>3. /\ \A d \in Crawls : d # c => used'[d] = used[d]
      /\ \A v \in Urls : v # u => used'[c][v] = used[c][v]
      /\ used'[c][u].pageOfHost = TRUE
  BY <1>1, <1>2 DEF TakesFor
<1>4. hostPages'[c] = hostPages[c] + 1 /\ \A d \in Crawls : d # c => hostPages'[d] = hostPages[d]
  BY <1>1 DEF TakesFor
<1>5. u \notin Took(c)
  BY DEF TakesFor, Took
<1> QED
  BY <1>3, <1>4, <1>5 DEF Took

\* Pages taken stay taken.
LEMMA TookGrows ==
  ASSUME TypeOK, ~LimitsLapse, [Next]_lifecycleVars, NEW c \in Crawls
  PROVE  Took(c) \subseteq Took(c)'
BY StepsOfTaking, TakenPagesCounted

LEMMA HeldHaveTaken ==
  ASSUME TypeOK, TookInv, ~LimitsLapse, MaxPages # UnlimitedPagesPerHost, [Next]_lifecycleVars,
         NEW w \in Workers, At(w, "held")'
  PROVE  \E c \in Crawls, u \in Urls : u \in Took(c)' /\ worker'[w].crawl = c /\ worker'[w].url = u
<1>0. worker \in [Workers -> Work \cup {NoVisit}]
  BY TypesInParts DEF WorkerTypes
<1>1. CASE worker'[w] = worker[w]
  <2>1. At(w, "held") /\ worker[w].crawl \in Crawls /\ worker[w].url \in Urls
    BY <1>1, WorksOnAVisit DEF At
  <2>2. PICK c \in Crawls, u \in Urls : worker[w].crawl = c /\ worker[w].url = u
    BY <2>1
  <2>3. u \in Took(c)
    BY <2>1, <2>2 DEF TookInv
  <2>4. u \in Took(c)'
    BY <2>3, TookGrows
  <2> QED
    BY <1>1, <2>2, <2>4
<1>2. ASSUME worker'[w] # worker[w] PROVE GoesOn(w)
  <2>1. \E v \in Workers : TakesUp(v) \/ GoesOn(v) \/ Fetches(v) \/ IsThrough(v)
    BY <1>2, StepsOfWorkers
  <2>2. ASSUME NEW v \in Workers, v # w PROVE ~(TakesUp(v) \/ GoesOn(v) \/ Fetches(v) \/ IsThrough(v))
    BY <1>0, <1>2, <2>2 DEF TakesUp, GoesOn, GoesTo, Fetches, IsThrough
  <2>3. ~TakesUp(w) /\ ~IsThrough(w)
    BY <1>0 DEF TakesUp, IsThrough, NoVisit, At
  <2>4. ASSUME Fetches(w) PROVE FALSE
    <3>1. PICK r \in Results : worker' = [worker EXCEPT ![w].stage = "fetched", ![w].result = r]
      BY <2>4 DEF Fetches
    <3>2. worker[w] \in Work
      BY <2>4, WorksOnAVisit DEF Fetches, At
    <3>3. worker'[w] = [worker[w] EXCEPT !.stage = "fetched", !.result = r]
      BY <1>0, <3>1
    <3> QED
      BY <3>2, <3>3 DEF At, Work
  <2> QED
    BY <2>1, <2>2, <2>3, <2>4
<1>3. CASE worker'[w] # worker[w]
  <2>1. ~At(w, "idle") /\ worker[w] \in Work /\ worker[w].crawl \in Crawls /\ worker[w].url \in Urls
    BY <1>2, <1>3, WorksOnAVisit DEF GoesOn, At
  <2>2. PICK s \in Stages \ {"idle"} : GoesTo(w, s) /\ ComesTo(w, s)
    BY <1>2, <1>3 DEF GoesOn
  <2>3. /\ worker'[w].stage = s /\ worker'[w].crawl = worker[w].crawl
        /\ worker'[w].url = worker[w].url
    BY <1>0, <2>1, <2>2 DEF GoesTo, Work
  <2>4. TakePageOfHost(w)
    BY <2>2, <2>3 DEF ComesTo, At
  <2>5. PICK c \in Crawls, u \in Urls : worker[w].crawl = c /\ worker[w].url = u
    BY <2>1
  <2>6. CASE UNCHANGED limitVars
    <3>1. ~GoesTo(w, "ending")
      BY <1>0, <2>1, <2>3 DEF GoesTo, Work, At
    <3>2. used[c][u].pageOfHost \/ hostPages' = [hostPages EXCEPT ![c] = hostPages[c] + 1]
      BY <2>4, <2>5, <3>1 DEF TakePageOfHost
    <3>3. u \in Took(c)
      BY <2>6, <3>2 DEF Took, TypeOK, limitVars
    <3>4. u \in Took(c)'
      BY <3>3, TookGrows
    <3> QED
      BY <2>3, <2>5, <3>4
  <2>7. CASE TakesFor(w, c, u)
    BY <2>3, <2>5, <2>7, TakenPagesCounted
  <2>8. UNCHANGED limitVars \/ TakesFor(w, c, u)
    BY <2>4, <2>5, TakingAPage DEF TakesFor
  <2> QED
    BY <2>6, <2>7, <2>8
<1> QED
  BY <1>1, <1>3

LEMMA FetchedAreTaken ==
  ASSUME TypeOK, TookInv, ~LimitsLapse, MaxPages # UnlimitedPagesPerHost, [Next]_lifecycleVars,
         NEW c \in Crawls
  PROVE  fetched'[c] \subseteq Took(c)'
<1>0. fetched[c] \subseteq Took(c)'
  BY TookGrows DEF TookInv
<1>1. CASE fetched' = fetched
  BY <1>0, <1>1
<1>2. ASSUME NEW w \in Workers, FetchAndRead(w) PROVE fetched'[c] \subseteq Took(c)'
  <2>1. PICK d \in Crawls, u \in Urls : worker[w].crawl = d /\ worker[w].url = u
    BY <1>2, WorksOnAVisit DEF FetchAndRead, At
  <2>2. u \in Took(d)'
    BY <1>2, <2>1, TookGrows DEF FetchAndRead, TookInv
  <2>3. fetched' = [fetched EXCEPT ![d] = fetched[d] \cup {u}] /\ fetched \in [Crawls -> SUBSET Urls]
    BY <1>2, <2>1 DEF FetchAndRead, TypeOK
  <2> QED
    BY <1>0, <2>2, <2>3
<1>3. ASSUME NEW w \in Workers, RecordPageVisit(w) PROVE fetched' = fetched
  BY <1>3 DEF RecordPageVisit, historyVars
<1> QED
  BY <1>1, <1>2, <1>3, StepsOfHistory

LEMMA TookKept == ~LimitsLapse /\ TypeOK /\ TookInv /\ [Next]_lifecycleVars => TookInv'
<1> SUFFICES ASSUME ~LimitsLapse, TypeOK, TookInv, [Next]_lifecycleVars
             PROVE  TookInv'
  OBVIOUS
<1>1. ASSUME NEW c \in Crawls PROVE IsFiniteSet(Took(c)') /\ Cardinality(Took(c)') = hostPages'[c]
  <2>1. IsFiniteSet(Took(c)) /\ Cardinality(Took(c)) = hostPages[c]
    BY DEF TookInv
  <2>2. CASE Took(c)' = Took(c) /\ hostPages'[c] = hostPages[c]
    BY <2>1, <2>2
  <2>3. ASSUME NEW u \in Urls, Took(c)' = Took(c) \cup {u}, u \notin Took(c),
               hostPages'[c] = hostPages[c] + 1
        PROVE  IsFiniteSet(Took(c)') /\ Cardinality(Took(c)') = hostPages'[c]
    BY <2>1, <2>3, FS_AddElement
  <2> QED
    BY <2>2, <2>3, StepsOfTaking, TakenPagesCounted
<1>2. ASSUME MaxPages # UnlimitedPagesPerHost, NEW w \in Workers, At(w, "held")'
      PROVE  worker'[w].url \in Took(worker[w].crawl)'
  BY <1>2, HeldHaveTaken
<1>3. MaxPages # UnlimitedPagesPerHost => \A c \in Crawls : fetched'[c] \subseteq Took(c)'
  BY FetchedAreTaken
<1> QED
  BY <1>1, <1>2, <1>3 DEF TookInv

LEMMA TakenAreBounded == TypeOK /\ TookInv => HostPagesBounded
<1> SUFFICES ASSUME TypeOK, TookInv, MaxPages # UnlimitedPagesPerHost, NEW c \in Crawls
             PROVE  Cardinality(fetched[c]) <= MaxPages
  BY DEF HostPagesBounded
<1>1. /\ IsFiniteSet(Took(c)) /\ Cardinality(Took(c)) = hostPages[c] /\ fetched[c] \subseteq Took(c)
      /\ hostPages[c] \in 0..MaxPages
  BY DEF TookInv, TypeOK
<1>2. /\ Cardinality(fetched[c]) <= Cardinality(Took(c)) /\ IsFiniteSet(fetched[c])
  BY <1>1, FS_Subset
<1>3. Cardinality(fetched[c]) \in Nat
  BY <1>2, FS_CardinalityType
<1> QED
  BY <1>1, <1>2, <1>3, LifecycleAssumption

\* A crawl fetches no more pages of a host than its order allows, whatever its visits go
\* through, as long as what is kept of its limits does not expire before it ends.
THEOREM HostPagesAreBounded == ~LimitsLapse => (Spec => []HostPagesBounded)
<1> SUFFICES ASSUME ~LimitsLapse PROVE Spec => []HostPagesBounded
  OBVIOUS
<1>1. Init => TookInv
  <2> SUFFICES ASSUME Init PROVE TookInv
    OBVIOUS
  <2>1. \A c \in Crawls : Took(c) = {} /\ hostPages[c] = 0 /\ fetched[c] = {}
    BY DEF Init, Took, NothingUsed
  <2>2. \A w \in Workers : ~At(w, "held")
    BY DEF Init, At, NoVisit
  <2> QED
    BY <2>1, <2>2, FS_EmptySet DEF TookInv
<1>2. TypeOK /\ TookInv /\ [Next]_lifecycleVars => TookInv'
  BY TookKept
<1> QED
  BY <1>1, <1>2, TakenAreBounded, TypeCorrect, PTL DEF Spec
=============================================================================
