# A verification of the my-yacy-node services

This directory holds TLA+ specifications of the parts of the repository whose
correctness rests on the order in which transactions, network calls and loops
happen, the TLC configurations that check them on small instances, and proofs of
the main theorems that the TLA+ proof system (tlapm) checks.

`PROJECT.json` names every component, every run with its properties, the lines of
code each definition stands for, a mutated definition that breaks each property, the
hazards of the code and the theorems.

Paths below are relative to the repository (`src/`); `crawl/` stands for
`services/yacycrawler/internal/crawl/`, `pebblevault/` for
`libraries/vaultengines/pebblevault/`, `rwidistribution/` for
`services/yacynode/internal/rwidistribution/`, `wordpartitionasks/` for
`services/yacydhtsearch/internal/wordpartitionasks/`.

## Inventory

The repository is a set of Go services around YaCy, a peer-to-peer search engine.
They exchange work through NATS streams and HTTP, and keep their state in vaults
(`libraries/vault`), key-value stores with transactions of one process.

### yacycrawler: takes crawl orders, visits pages, publishes what it read

| component | state | operations | what makes it correct |
|---|---|---|---|
| Frontier (`crawl/frontier`) | per crawl: pending visits with the second each is due, marks of ended visits, one head, the state of the queue; one pause for all | AddSeeds, AddNextOf, PauseQueueOf, ResumeQueueOf, DrainQueueOf, ForgetQueueOf, Pause, Resume, Lease, End, Return, DrainQueues | a due visit is found; a visit has one worker while its lease lasts; a worker whose lease was outdated changes nothing; drains leave nothing; ended visits stay ended |
| Crawls (`crawl/crawls`, `crawl/orderintake`, `crawl/crawlfinishing`) | unfinished crawls, finished crawls (expiring), index by order | Start, Pause, Resume, Cancel, Finish, forgetting | one crawl per order however often it is delivered; the queue follows the crawl; a crawl finishes empty and stays so |
| Page visits (`crawl/pagevisitintake`, `crawl/pagevisit`, `crawl/pagevisitrecords`) | the record of the last visit of a page (expiring); what a worker holds in memory | payPageVisit: order, page of the host, recrawl grace, fetch, publish, links, record, allowance, end or return | no step lost or repeated loses a page |
| Limits (`crawl/pagevisitlimits`, `crawl/pagevisitallowance`) | pages taken of each host, allowances used per URL (expiring) | TakePageOfHost, TakeDeferral, TakeAttempt | a crawl keeps to its order's limits and ends |
| Progress, HTTP API, reading of pages | counters; none; none | | reports, translation, parsing |

Interaction: an order starts a crawl and seeds its queue in one transaction. The
intake of page visits leases visits to a fixed number of workers. A worker's steps are
transactions of their own with network calls in between; a lease that runs out hands
its visit to another worker while the first still works. The finisher and the drain
are loops; both look, and act in a later transaction.

### libraries: the vault and its engines

| component | state | operations | what makes it correct |
|---|---|---|---|
| Pebble engine (`pebblevault/`) | the database, write slots, the commit turn, a history of commits | Update: optimistic run, conflict, exclusive run, unsynced commit, sync; View | writes are serializable although runs overlap and read the live database; one that returned survives a crash; every write ends |
| Bolt and memory engines | the database; a lock | Update, View | one writer at a time |
| Vault (`libraries/vault`) | collections, change indexes, projections, expiry | Put, Delete, expiry passes, acknowledgements | a record put again is not expired; a change made while its predecessor is handled is not acknowledged |
| serviceruntime | workers, budgets, poison halts | pull intake, group shutdown | no item handed to two workers; everything stops |
| protocol, text and page libraries | none | | pure functions |

### yacynode: the peer

| component | state | operations | what makes it correct |
|---|---|---|---|
| Distribution of postings (`rwidistribution`) | schedule of word partitions, undelivered postings, arcs and workers, eligibility of peers | admit, schedule, offer, send, record, hand off | a holder holds what counts as delivered; nothing is deleted that was not offered and accepted; what is undelivered gets delivered |
| Admission of a remote index (`remoteindexadmission`, `remoteindexingress`, `rwiescrow`, `pageadmission`) | postings held until metadata of their page arrives | admit, hold, release, expire | postings and metadata of a page are admitted together |
| Postings, eviction, metadata (`rwipostings`, `eviction`, `urlmeta`, `urlpostingpurge`) | postings by word and by URL, amounts | put, purge, evict | the indexes agree |
| Arc walk (`rwidistribution/distributionloop`) | arcs of the ring with a position, a drain, held back or in a batch; workers; one wake channel; sends in flight and pauses of peers | pick an arc, schedule its admissions, read what is due, send, record, settle, wait, signal | no part of the ring in two batches; a drained arc has nothing due; no worker sleeps while something is due |
| Peers (`peerroster`, `peeradmission`, `bootstrap`) | reachable and known peers | confirm, lose, expire | roster bounded; distribution sees changes |
| Search, messages, identity, HTTP | | | requests over the state above |

### yacydhtsearch and the others

`wordpartitionasks` asks the peers of each word partition of a query: a run, one
goroutine per word partition, a set of peers chosen in the run that all share, hedge
timers and the deadline of the search. Correct when no peer is asked twice, each word
partition settles once and as it says, and the run ends though peers never answer. `peerpresence` and `presenceaccrual` judge which peers are
there. `pagescrape`, `corpustext`, `corpusmarkdown`, `pagerwi`, `webarchivescrape`,
`crawlscrapebridge` and `visitcrawl` are stages that take messages of one stream and
publish to another, at least once. `spamproxy`, `renderproxy`, `crawlconsole`,
`searchpage`, `webresearchmcp` and `yacyrealmbridge` relay requests.

### What is hard

* Concurrency of transactions: state read in one and used in the next (the lease loop,
  the drain, the finisher), workers overtaken by another after their lease ran out.
* Rounding: dues are whole seconds, the clock is not, and a lease has no identity but
  the second it runs until.
* Crash and redelivery between any two steps of a visit or of the intake of an order.
* Optimistic writes that read a moving database, commits applied before they are known,
  and durability established after visibility.
* A ring that changes under the batches of the arcs it had, and workers that sleep on a
  signal they must not miss.
* What is read at the start of a round, asked of the roster later and recorded after the
  network: holders of postings they never got.
* Goroutines that choose from shared peers while hedges, answers and a deadline come in any
  order.
* Work that must go on: heads that never fall behind, drains, deferred pages, conflicting
  writes, admissions, undelivered postings, asks nobody answers.

The list under "hazards" in `PROJECT.json` gives each at its line.

## The modules

    CrawlPromise   <-- implements --  CrawlLifecycle  (assumes what Frontier guarantees)
    VisitQueue     <-- implements --  Frontier
    SerialStore    <-- implements --  PebbleVault     (gives the transactions the others take as atomic)
    ArcWalk             decides when a word partition is taken up
    PostingDistribution says what becomes of it then
    WordPartitionAsks   stands alone

`FrontierProofs`, `CrawlLifecycleProofs`, `PebbleVaultProofs`, `ArcWalkProofs`,
`PostingDistributionProofs` and `WordPartitionAsksProofs` each extend the module they are named
after and hold its theorems. `VisitQueueProofs` goes on from `FrontierProofs` to the refinement,
`ArcWalkTypeProofs` from `ArcWalkProofs` to the types and the wake-ups. The three arrows marked "implements" are
theorems too.
`MC*.tla` and the `.cfg` files instantiate them for TLC.

### Frontier and VisitQueue

`Frontier` models `crawl/frontier` whole. Each vault transaction is one action named after its
method. Kept apart from the transactions is what the code does before one: reading the
clock and the first due head (`FirstHeadDue`, then `LeaseDueVisitsOf`), and choosing a
draining queue (`PickDrainingQueue`, then `DrainBatchOf`).

* `due[c][u]` is the ledger: pending at the second, or not. `ended` is its marks.
* `head`, `queueState`, `paused` are the collections of those names. A position is a
  pair of a second and a URL hash, compared as keys are.
* Time is in ticks. `Unix` cuts and `SecondsAtOrAfter` rounds up as the code does. A
  read of the clock made before its transaction may lag by `ReadLag`.
* `looked`, `picked` and `held` are what goroutines hold; `Restart` loses them.
* `latest` and `seeded` are history. `seeded` also says that no crawl ID is minted twice.
* A queue without a stored state is "open", as `stateOf` returns it.
* The code aligns a head from the last leased position on, the model from the former
  head: everything between the two was leased in that step and moved behind.
* A restart and a pause count against `MaxInterruptions`, ticks against `MaxClock`. They
  bound the instance only; the theorems hold for every value.
* The counts of pending visits by host are left out: they are only reported.

`VisitQueue` is what the crawler may rely on: visits are leased earliest first and none is
passed over, no more than there are workers without one, and only while nothing is paused; a
lease keeps its visit for its length; the latest lease of a visit ends or returns it, others
do nothing; a visit is gone only when it ended or its queue was drained or forgotten. It has no
heads, no lookups, no picked queue and no seconds: `from` is the tick a visit may be
leased from, a lease is told by the time it was given, and where the code rounds, time may be up
to a second late (`Grain`) but never early. The mapping turns due seconds into ticks (`DueFrom`)
and drops the second a lease runs until (`GivenAt`), which the code tells it by.

### CrawlLifecycle and CrawlPromise

`CrawlLifecycle` composes order intake, crawls, queues, page visits, limits and the
finisher. Of the frontier it takes what `Frontier` is proved to promise: only the latest
lease of a visit changes it. So a lease is the name of the worker that has it, a head is
left out, and a delay is a visit that may be leased again at once. The URLs are of one
host. Whether a recrawl grace has passed, and whether a deferral is short, are choices.

A worker goes through the stages of `payPageVisit` and `VisitPage`:
leased, ordered, held, fetched, published, added, concluding, then ending or returning.
Between any two it may lose its lease to another (`OverrunLease`) or stop (`LoseVisit`,
which also stands for a failed End or Return, after which the lease has to run out).
`FailStorage` and the failing branches of `PublishCrawledPage` and `RecordPageVisit` are
the error paths. `MaxMishaps` bounds all of these together with redeliveries.

`Finish` looks and acts in one action: the code asks first in a view and asks again in
the transaction that finishes, and only the second answer counts. `Drain` picks and
drains in one action here; `Frontier` has them apart.

`CrawlPromise` is what a user of a crawl may rely on: visits end once, only a
cancelled crawl drops visits, a crawl finishes empty and takes nothing afterwards.

### PebbleVault and SerialStore

`PebbleVault` models the writes of the engine: slots, optimistic runs on the live
database, the commit turn, the check against the history, the exclusive run, the commit,
its record in the history, the sync, and crashes that keep any prefix of the commits that
holds all synced ones.

A state of the database gives each key the number of the state its value is from, so
values need no domain and a stale read shows. Records are read and written whole and are
part of a footprint; amounts are changed blind, by merges, and are not. `seen` is what a
run read, `changes` what it wrote, `Scan` a range visited as it is when the scan starts.

The code ends a transaction in the history just after it gave the commit turn back;
the model does both in one step. In between the code only remembers more.

Views are left out: they read a snapshot and change nothing. Tallies, compression
surveys and capacity are left out.

`SerialStore` commits writes one after the other, each reading the latest state only.

### ArcWalk

Models `rwidistribution/distributionloop` with the parts of `wordpartitionschedule` and
`peereligibility` it steps through, and what `peerroster` tells it. A worker goes round: read
the reachable peers (`ReadReachablePeers`: all of them count for the least amount, the ring
is made of those that accept a remote index), leave out the excluded ones (`ArcsAmong`), follow
the ring that is left (`FollowRing` keeps the state of arcs whose ends stay and remembers those
that a batch still works on), pick the first open arc after the one picked last, schedule
its admissions in two transactions as the code does (`ReadAdmissions`,
`ScheduleAdmissions`), read due entries, and send them, or settle the end of the arc as
drained, held back or open, or wait.

* The critical sections of `arcWalk.guard` are single actions, as are transactions and
  calls to peers. `arcs` is the list of arcs; an arc the ring left is one with `left` in
  its worker, for nothing else refers to it.
* `wake[w]` says whether the channel that worker w took at the start of its round is closed;
  `WakeWorkers` closes it for all who hold it. `WaitsUntil` keeps the alarm.
* A word partition is a position on the ring. `due` is the schedule, with `Forever` for no
  entry; `admitted` and `unsignalled` are the admissions that are not scheduled and not
  signalled yet, for the signal is given after the commit.
* Which due entries must wait for a recipient, what a transfer budget leaves out, and how a
  send ends are choices; `PostingDistribution` is about what decides them.
* An offer not accepted pauses the peer and, after enough in a row, excludes it
  (`RecordUnacceptedOffer`); one accepted forgives it (`OfferAccepted`). Both are comparisons
  with the clock. The end of a pause sets an alarm; the end of an exclusion sets none and
  signals nobody, so a ring may lack a peer whose exclusion is over.
* The roster changes in four ways. A contact that answered or failed is signalled
  (`ConfirmReachable`, `ConfirmUnreachable`, then `SignalReachablePeers`); a peer evicted for
  its moved addresses and a newer seed by gossip are not (`EvictMoved`, `KeepGossipSeed`). The
  capacity of the roster is left out. The history variable `unnoticed` has the peers that
  changed without a signal since the workers were woken last; no action reads it.
* Whether an arc is open and when its alarm is due are read from the clock one after the other
  (`PauseOf` asks for the time anew). So a pause may end in between and set no alarm
  (`EndingPauses`; the worker's `missed` remembers it). Drains are compared with one time.
* A batch is recorded and its arc let go in
  one step: nobody looks between. The limit of sends of a peer is a constant `SendLimit`,
  where the code derives it from measured load. Peers have distinct positions. A read that
  finds nothing because it begins at the edge of a span is left out.
* An admission is signalled to every arc that holds its word partition, where the code signals
  the first one it finds. There is only one: arcs of one ring are apart (`ArcsAreApart`).

### PostingDistribution

One word partition from admission to hand-off: `wordpartitionschedule`,
`undeliveredpostings`, `wordpartitionoffer`, `wordpartitionhandoff`, and `commitBatch`.
The worker's stages are its transactions and calls: read the ring, schedule admissions,
make an offer, send it to each recipient, commit. `MakeOffer` is one snapshot; `Commit` is
one transaction: the entry, the acknowledgements of the change index, the hand-off.

* `version[u]` counts the writes of a posting that change it. An acknowledgement leaves a
  posting undelivered when it changed since the offer (`change_index.go`, Acknowledge).
* `contact[p]` is what the roster knows: accepting and refusing peers are reachable, a
  recent one is not but was lately. Nothing is assumed of what a peer stores: `held` is
  what it accepted, which is all this node can know.
* Due times are times to go, so time needs no bound. Retry delays double from
  `FirstRetryDelay` to `RefreshInterval`.
* Peers compare by distance clockwise; the whole ring and the redundancy are as in
  `responsiblePeersFor`. URL metadata sent along with postings is part of the transfer that
  is accepted or not.

### WordPartitionAsks

Models `wordpartitionasks` and the inquiry that drives it (`documentasks/inquiry.go`). The
inquiry sends asks, reads settled ones and closes the asks. The run adds the word partitions
that are new, chooses their first replicas from `chosen`, which all of a run share, and
starts a goroutine for each. A goroutine waits for an outcome of a call, a hedge that falls
due or the deadline; it asks the next replica, counts covering answers, and settles by
coverage, for want of a replica, or by the deadline.

* `call[wp][p]` goes from first or none to open, to its outcome, to ended. An outcome stays
  in its channel until the goroutine takes it. `hedged` are the calls whose timers run.
* Channels between inquiry and run are unbuffered, so a send and its receipt are one step.
  A search over the replicas left is one step: peers passed over stay chosen.
* A hedge may be heard of at any time after its call began. The look at the deadline after
  an event is part of the event's step.
* Documents, ranking and what a covering answer holds are left out: an outcome is failed,
  empty without a search, or covers.

## The runs

| run | question | bounds |
|---|---|---|
| frontier | do leases, heads, drains and pauses keep to each other in every order of transactions, do they make a `VisitQueue` (an ended visit never comes back), is a due visit leased, does every drain end? | one queue, two visits, two workers, half-second ticks up to tick 5, a lease of three ticks (it ends off a second's edge half the time), a clock read one tick late, two restarts or pauses |
| crawl | do the steps of a visit lose nothing and keep `CrawlPromise`? | one crawl, three linked pages of which two may be fetched, two workers, two mishaps |
| crawl_orders | one crawl per order, acknowledged when durable? | one order in two messages and an unreadable one, two crawl IDs, two mishaps, limits that lapse |
| crawl_liveness | do crawls and cancellations end? | two pages, two workers, one mishap, read or deferred |
| crawl_limits_lapse | does the page limit hold when limits expire under a crawl? It does not | one page of the host, one lapse |
| vault | does the engine implement a serial, durable store? | two writes, two records scanned together, one amount, one crash |
| vault_liveness | does every write end? | three writes on one record, two slots, alone after one conflict |
| arc_walk | do arcs that change under their batches stay apart, is a drained arc one with nothing due, is everybody asleep only while each word partition is watched over? | two peers, two word partitions, two workers, two ticks, one admission, reads of one entry; one mishap of any kind: a contact, a failed contact, a move or gossip of one peer, an offer not accepted (it excludes the peer for one tick), a failure of the vault, or a restart |
| arc_walk_liveness | is every admission scheduled, is what is due read? | one arc, one word partition, two workers, three ticks, one admission, a fixed roster, one mishap: an offer not accepted (it only pauses the peer), a failure of the vault or a restart |
| posting_distribution | do holders hold what counts as delivered, does a hand-off delete only what is held and was offered, is what is undelivered never put off and in the end delivered? | three peers, one of which may refuse, this node between them, redundancy 2, two postings of two versions, two admissions, one change of a peer, one exclusion, one mishap |
| handoff_short | does a hand-off delete only what enough peers hold, whatever the roster says? It does not | the same peers, three admissions, two changes of a peer, no mishap |
| word_partition_asks | is no peer asked twice, does none wait for nobody, does each settle as it says, does the run end? | two word partitions that share three replicas, two replicas cover one, asks sent at once, twice or in turn |

Why these are enough. Two queues only meet in the choice of the earliest head and
of the draining queue; every safety property of the frontier is about one queue, and is
proved for any number. That one busy queue does not starve another is not checked. Two
visits are the fewest in which a batch drains a part, and a head skips one of them. In
five ticks a lease of three runs out, the visit is leased again, and the first worker
comes late, whatever the rounding. Two workers suffice for one to overtake the other; two
mishaps for a crash after an overrun. Two writes conflict in every way that one pair of
runs can, and a third makes one wait on two. `DrainedAtOnce` and `DrainBatch` are 1
instead of the 100 of the code, so that full batches happen. Two workers of the arc walk
are the fewest that can hold overlapping arcs, and one change of a ring of two peers splits
an arc or joins two. With one mishap the run has everybody asleep while a peer is excluded, after
its exclusion ended, and after a change of the roster nobody was told of; several mishaps
together are proved, not checked. That an alarm misses the end of a pause is met in
`arc_walk_liveness`. Three peers with redundancy 2 give a responsible peer, one that stands
in for it and one farther than this node. With three replicas shared by two word partitions
of which each needs two, somebody is left without.

`CHECK_DEADLOCK FALSE` stands in each but `word_partition_asks`: a crawler whose crawls are
over, a clock at its bound and a vault whose writes have returned have nothing left to do.
A search that is over is an action of its own (`Finished`), and any other stop a deadlock.

Symmetry of workers or writes is used only in runs without liveness.

Fairness. The lease loop, the drain, the finisher and each worker are goroutines
that run for the life of the service and wait on nothing but their next item, so
each is weakly fair. Pausing, resuming and cancelling are requests and are not fair. In
`Frontier`, `Visits` as a whole is weakly fair, for a worker is bound to give its lease
up in some way: every path of payPageVisit ends or returns it. In `CrawlLifecycle` a lost
lease runs out (`ExpireLease`), which is the clock. In `PebbleVault` a write proceeds:
its closure is code that ends, and reads and changes are not fair. A channel
serves its waiters in order, but finitely many writes need no such assumption. In `ArcWalk` each worker is a goroutine of the
node's life, whose sends time out (`SendEnds` is part of its steps), and what is signalled
after a commit is signalled by the code that committed. In `PostingDistribution` the worker
takes a due word partition up, as `arc_walk_liveness` shows of the walk; peers answer or do
not. In `WordPartitionAsks` the run, the goroutines and the reading inquiry step, and the
deadline passes, for Search gives every query a budget (`networksearch/network.go`).
Replicas, hedges and the closing of the asks are not fair.

### Findings

`page_visit_limits.go:1-4` says of `crawl/pagevisitlimits` that a page of a host is admitted
only while the crawl's limit leaves room for it. What was taken is kept in expiring
collections (`page_visit_limits_vault.go:31`) for seven days
(`services/yacycrawler/assembly/service_config.go`), also while the crawl goes on or is
paused. `crawl_limits_lapse` shows a crawl that fetches two pages of a host with a limit
of one: it takes a page, the counter expires, it takes another. The runs of the
other properties that rest on limits set `LimitsLapse` to FALSE: they speak of crawls
that end within the retention of their limits.

`rwidistribution/README.md:65` says "This node deletes a posting only after enough responsible
peers hold it." In
`handoff_short` both closer peers accept a posting, which changes while it is sent. One of
them is lost when the next round reads the ring, and found again when the round asks the
roster whether that holder is kept. It stays a holder. The ring that was read makes only the
other one responsible, so the changed posting goes to that one alone and counts as
delivered. A second posting then goes to both, nothing is undelivered any more, both count
at the hand-off, and the node deletes the changed posting too, which the first peer never
got.
`DeletesWhatSteadyPeersHold` states the promise for a roster that does not change, where it
holds, with partial sends, exclusions, failures of the vault and evictions.

### Observations without a run

* A reachable holder that starts to refuse a remote index stays a kept holder
  (`word_partition_offers.go`, isKept asks for reachability only), so the peer that should stand
  in for it is not among the missing holders and the postings wait.
  `UndeliveredIsDelivered` leaves that case out by name.
* An arc held back because the recipients of all it has due are paused or busy, while its own
  window is free, sets no alarm. A completed batch, or an admission to the arc, takes it up
  again. `DueIsRead` leaves held-back arcs out by name.
* `distributionloop/loop.go:4-5` says "A new posting or a roster change wakes the workers". A
  contact that answered or failed does. The end of an exclusion (`eligibility.go:134`, a comparison
  with the clock), the eviction of a moved peer and a newer seed by gossip do not, and the
  alarm of a waiting worker knows drains and pauses only (`arc_walk.go`, alarmAt). So all workers
  may sleep over a ring that lacks a peer whose exclusion is over (`doc/configuration.md:80` of
  yacynode: one hour by default), until an admission, a contact or
  an alarm starts a round. `NobodySleepsOnWork` leaves these cases out by name (`unnoticed`,
  and the ended exclusions of `AreRecipients`).
* A pause that ends between the look at an arc and the look for its alarm sets no alarm, for
  `PauseOf` reads the clock again. `IsPauseMissed` and `NoPauseIsMissed` name the case.
* `doc/configuration.md:95` of yacydhtsearch says that replicas "must send documents" to cover a
  partition. The code also counts one that searched and has none (`word_partition.go`,
  coversThePartition), as the comment of the package says. The model follows the code.

## The proofs

`FrontierProofs` proves every safety property of the frontier for any sets of crawls and
URL hashes that are finite sets of numbers, any resolution of the clock, any lease that is
not zero, and any concurrency, batch and lag (`FrontierAssumption`).

1. `UnixBounds`, `UnixMonotone`, `RoundedUp`: what the roundings keep of the order of
   ticks. `LeastOf`, `EarliestPosition`, `AlignedHeadIsEarliest`: a queue's earliest position
   exists, and an aligned head is it.
2. `TypeCorrect`: types, one step per action.
3. `HeadsCorrect`: `HeadsCoverPending` is inductive with the types. `Covers` states it of one
   queue, so each action shows it only of the queue it changes.
4. `EndedCorrect`, `LeasingStopsWhilePaused`, `EmptyQueuesGainNothing` follow from the types
   and the heads.
5. `DrainingLeavesNothing` needs `DrainInv`: only a seeded queue drains, and a queue picked
   for draining still drains or is empty, because picking and draining are two steps.
6. `LeasesAreKept` and `LatestLeaseCounts` need `LeaseInv`. The property alone is not
   inductive: it says nothing of the due seconds by which leases are told apart. `LeaseInv`
   adds that a lease runs until its length rounded up, that a lease that is not the latest
   ended no later than the second the latest began in, and that the latest lease still
   carries its visit's due second. So a second older lease never equals the due second of a
   visit leased again, which is why the second suffices as an identity.

`VisitQueueProofs` proves that the frontier implements `VisitQueue` (`QueueImplemented`), under
the same assumption. Each action maps to one of the queue or to a stutter; a lookup, a pick and
a lookup that came to nothing stutter. The steps that need the invariants:

1. A lease takes the earliest visits of all, though the code only looks from the head on:
   `EarliestOfAll`, by `HeadsCoverPending`. It takes no more than there are workers
   (`AmountGiven`) and at a time that is past, by `HandsInv`: leases are finitely many and a lookup
   is not from the future.
2. A lease that is let go of counts in the queue exactly if the ledger has its second:
   `LeasedCounts`, by `LeaseInv`; and two leases at hand are never mapped to one (`GivenApart`).
3. A drain drops visits of a queue that still drains or has none, by `DrainInv`.

`LeasingStopsWhilePaused` and `EndedCorrect` state on their own what the runs check as part of
`VisitQueue`: whatever a lookup found, nothing is leased from a queue that is paused or draining by
then, and a visit that ended is not pending again.

`CrawlLifecycleProofs` proves every safety property of the crawls for any sets of crawls,
URLs, links, orders, messages and workers (`LifecycleAssumption`).

1. `TypeCorrect`. `StepsOfCrawls`, `StepsOfWorkers`, `StepsOfHistory` and `StepsOfMessages` say
   once what any step makes of each part of the state; the later proofs use them instead of
   the actions.
2. `QueuesFollow`: `QueueFollowsCrawl` is inductive with the types.
3. `KeepsPromise`: every step is a step of `CrawlPromise` or leaves what it shows alone. It
   needs `FreshInv`, that a crawl nobody started has no visits, marks, leases or results, for a
   start shows as the first state of the promise.
4. `OneCrawlPerOrder`: kept crawls have distinct orders, which a start sees to because it looks
   for a kept crawl of its order in its own transaction. `AcknowledgedAreStarted`: an
   intake past the start has a crawl of its order, which no crawl ever loses.
5. `NothingLost` needs `KeepsAll`. That every visit led to is pending or ended says nothing of the
   visit a worker is about to end. `Follows` adds what a worker knows at each of its stages:
   its visit is there, and before it may end it the links of its page are on the frontier.
6. `HostPagesAreBounded` holds of crawls whose limits do not lapse (`~LimitsLapse`; the run
   `crawl_limits_lapse` shows why). `TookInv` counts the allowances of a page of the host: as
   many as the counter says, one for every page fetched, and one for every visit a worker is
   about to fetch.

`PebbleVaultProofs` proves every safety property of the engine for any writes, keys, scans and
amounts (`VaultAssumption`).

1. `TypeCorrect` with `TurnInv`: one write has the commit turn, and it is the one that checks,
   records or runs alone.
2. `ReturnedStay` needs `PlaceInv`: where the commit of a write stands in the order of
   commits, for each stage it can be in.
3. `StaleReadsNoticed`: what a running write read is current, or was changed by a commit in the
   history that is later than the write began, or by the one being recorded. It is inductive
   with `AloneInv`, that a write which runs alone began after the last commit. The history
   forgets only what no running write can conflict with (`HistoryIsKept`, from `OldestBegin`
   and `EndedTransactions`).
4. `BlindChangesAreFree`: amounts, changed by merges, are in no footprint, so a write that only
   changes amounts never runs again for a conflict. No run checks it.
5. `WritesAreSerial`: a commit maps to the commit of `SerialStore`, for by 3 a write that passed
   the check read the latest state (`FinishesWithWhatIs`); a crash maps to a crash that
   keeps what was synced; every other step stutters.
6. `NobodyGetsStuck` is the safety side of `WritesEnd`, for any amount of writes and slots: slots
   and the commit turn make no circle. The turn is held by a write that has a slot and waits
   for nothing (`TurnGoesOn`), so slots that are all taken have among them one that can go on.
   `CanGoOn` says by the stages and the turn when a write waits for no other, for the prover has
   no ENABLED. No run checks it.

`ArcWalkProofs` and `ArcWalkTypeProofs` prove the safety properties and the types of the walk for any peers, word partitions,
positions and finite, non-empty set of workers (`nodeconfiguration/distribution.go` takes only a
positive amount), and any amount of changes of the roster, offers not accepted, failures and restarts
(`WalkAssumption`).

1. `ArcsAreApart`: two arcs of one ring share no position. An arc begins at the predecessor of
   its peer, which exists because clockwise distances are numbers (`PredecessorIsClosest`).
   `SharersOverlap`: arcs that hold a common position overlap in the sense of the code.
2. `NoPartTwice`: batches do not overlap. A pick takes an arc that is open, so it is in no
   batch and overlaps none that the ring left; other arcs of the ring are apart from it. It needs
   `BatchInv`: a batch whose arc the ring still has is marked at that arc, so a new ring finds
   each batch either among its arcs or among those that left.
3. `DrainedHaveNothing` needs `DrainInv`, of five parts. `LocalInv`: a worker writes in its own
   arc only. `DrainsApart`: no batch works in a drained arc, not even one of an arc that left.
   `EarliestInv`: the due time found at the end of an arc is still the earliest when the
   end is settled, for no other worker writes there. `SignalsInv`: as long as nothing was
   signalled since the pick, what is admitted and not scheduled has not been signalled either.
   `DrainsInv`, the property: in a drained arc nothing is due before its time, but
   for admissions whose signal is still to come, which reopens it. The last but one is
   why comparing the amount of signals under the guard is enough for an admission
   between the last read and the end.
4. `WalkTypesHold`: the counters are what they count. An arc that is marked has one owner
   (`OwnersInv`, and no two for batches are apart); the sends of a peer are the workers that send to it
   (`SendsInv`), so they are bounded by the workers; a worker schedules only what was admitted,
   for nobody else schedules in its arc (`AdmittedInv`). That no arc is signalled more often than
   there were admissions is not to be seen of any variable, for a signal forgets whose it was:
   `SignalledInv` says that some assignment of admissions to word partitions, with a set of those
   signalled, explains the counters.
5. `NoWakeUpIsLost` is the safety side of `AdmissionsAreScheduled` and `DueIsRead`. When
   every worker sleeps, the property says what each word partition waits for; it needs all of
   the above and three invariants more. `HeldBackInv`: what is held back has no admission but those
   whose signal is still to come. `RingInv`: unless news of the roster is on its way, the walk
   follows the peers that accept and are not excluded (`AreRecipients`), or some worker looks
   again before it waits (`LooksAgain`). Two exceptions are named: peers that are `unnoticed`,
   and peers whose exclusion ended. Steps that wake nobody leave what changes of a peer unnoticed
   (`Quietly`), so they disturb nothing (`QuietlyTheSame`); a worker that took the signal
   earlier is woken with those that wait, for it holds the same channel.
   `SleepInv`: when all sleep, each arc is held back or watched (`IsWatched`), by an alarm no later
   than the end of its drain or of a pause in its window, or somebody missed the end of such a
   pause. The last worker to fall asleep sees to it (`LastOneWatches`): no batch is left, so
   what closes an arc is a drain or a pause, and its alarm is the least of those
   (`AlarmsAreLeast`). Afterwards a signal that reopens an arc wakes all, and the clock ends no
   drain or pause that is watched before it ends somebody's sleep.
   Every position is in an arc (`RingIsCovered`).

`PostingDistributionProofs` proves every safety property of the distribution for any peers and
distances and any postings, versions, mishaps and changes (`DistributionAssumption`).

1. `TypeCorrect`. `FewPeersAreFirst`: peers that are fewer than required are all responsible,
   by the closest peer that would not be. `AmongIsResponsible`: a peer not farther than
   the farthest responsible one is responsible itself.
2. `NothingNewDeleted` needs `OfferInv`: a posting that counts as delivered has the version the
   offer has, so one that changed after the offer is undelivered when the hand-off looks.
3. `HoldersHold` and `DeletesWhatIsHeld` need `AnswerInv`, that an accepted posting is held in the
   version of the offer, and `SteadyInv`, that under a steady roster kept holders are
   responsible and a peer which is no holder yet is offered everything. With a redundancy of 1
   there may be no responsible peer at all, when this node is the closest. `CloserInv` covers it:
   holders are then closer than this node, so wherever there is a kept holder, a closer peer is
   the one that is responsible (`OneIsResponsible`).
4. `TakenUp` is the safety side of `UndeliveredIsDelivered`: what is undelivered is admitted afresh,
   due or in retry. `TakenUpInv` adds what it rests on: a word partition in retry is due before its delay
   has run out, and as long as nothing is admitted an offer has all that is undelivered, as it
   is. So a round recorded at redundancy, which is put off until the refresh, leaves nothing
   undelivered but what was admitted meanwhile, and the admission is scheduled next.

`WordPartitionAsksProofs` proves every safety property of the asks for any word partitions,
replicas and amounts (`AsksAssumption`).

1. `StepsOfOne`: what any step makes of one word partition: it idles, chooses, starts, hears
   of a hedge or an outcome, gets late, or a call of it ends. All that follows is by this list.
2. `AskedOnce` needs `ChosenInv`: whoever is asked or was passed over is chosen, and the run
   chooses for one word partition at a time.
3. `WaitingAwaitsACall` needs `AmountInv`: while a goroutine asks, as many peers as must cover its
   word partition did or may still do so, or nobody is left to ask, and somebody is
   outstanding. It counts calls stage by stage from the first replicas on.
4. `SettlingIsHonest` follows from 2 and the steps. `TypeCorrect` needs `UnsettledInv` and
   `UnreadInv`: the counter of the run is the number of word partitions that ask or whose end
   is not taken yet, and no ask is settled twice.
5. `EndedRunsWereRead` is the safety side of `RunsEnd`: a run does not end before the inquiry has read
   all it sent. `PendingInv`: a word partition that is pending is in the batch, being asked or among
   those to read. A run that was closed takes no batch any more, and an ask sent twice in one batch is
   skipped before the first of the two is started, so none is skipped that was already read.
   With nothing to ask, to settle or to read, nothing is pending. No run checks it by itself.

Only model-checked: what must eventually happen (`DueVisitsAreLeased`, `DrainsEnd`,
`RunningCrawlsEnd`, `CancelledCrawlsEnd`, `WritesEnd`, `AdmissionsAreScheduled`, `DueIsRead`,
`UndeliveredIsDelivered`, `RunsEnd`), for the prover does not treat fairness. Every invariant and
action property the passing runs check is a theorem. What a recursive definition computes is not in question: the modules have none.

## The plan

Done, each with its proofs: 1. `Frontier`; 2. `CrawlPromise`, `CrawlLifecycle`;
3. `SerialStore`, `PebbleVault`; 4. `ArcWalk`; 5. `PostingDistribution`;
6. `WordPartitionAsks`.

Next, in this order:

7. `ExpiringCollection`: expiry passes against late puts (`libraries/vault`), and change
   indexes with their acknowledgement, which `PostingDistribution` takes as they are.
8. `RemoteIndexAdmission`: postings held for the metadata of their page.
9. `PullIntake`: busy workers, budgets, poison halts.

Each gets a run for safety and, where it loops, one for liveness, on two or three actors.
Theorems to come: the safety of those modules.

## Not modelled

Parsing, fetching and canonical URLs, ranking, formatting and metrics: input, output and
pure functions. Distributions, third-party wrappers, tools and the Python plugin:
packaging. Proxies and consoles: relays without state. Progress counts of a crawl: shown,
never decided by. The components under "The plan" are listed in `PROJECT.json` as not
modelled until their modules are there.
