------------------------------ MODULE Frontier ------------------------------
(***************************************************************************)
(* The frontier of the crawler (yacycrawler/internal/crawl/frontier): the  *)
(* pending page visits of each crawl in a queue, each due at a second, the *)
(* mark of every visit that ended, and at most one head per queue that     *)
(* tells the lease where the queue's due visits begin.                     *)
(*                                                                         *)
(* Every operation that the code runs inside one vault transaction is one  *)
(* action.  What the code does outside a transaction is kept apart: the    *)
(* read of the clock and of the first due head before a lease, and the     *)
(* choice of a draining queue before a batch of it is drained.             *)
(*                                                                         *)
(* Time passes in ticks, TicksPerSecond of them a second.  The clock has   *)
(* ticks; what the frontier stores is rounded to seconds as the code does. *)
(***************************************************************************)
EXTENDS Integers, FiniteSets

CONSTANTS
  Crawls,             \* crawl IDs: numbers, for they order equal heads
  UrlHashes,          \* URL hashes: numbers, for they order equal dues
  TicksPerSecond,     \* the sub-second resolution of the clock
  Lease,              \* how long a visit is leased, in ticks
  Delays,             \* the delays a visit is returned with, in ticks
  FetchConcurrency,   \* visits held by workers at once
  DrainedAtOnce,      \* pageVisitsDrainedAtOnce
  PickedAmong,        \* drainingQueuesPickedAmong
  ReadLag,            \* how far a read of the clock lags its transaction
  MaxClock,           \* bound of the model: the last tick
  MaxInterruptions    \* bound of the model: restarts and pauses in a behaviour

ASSUME FrontierAssumption ==
  /\ Crawls \subseteq Nat /\ IsFiniteSet(Crawls)
  /\ UrlHashes \subseteq Nat /\ IsFiniteSet(UrlHashes)
  /\ TicksPerSecond \in Nat \ {0}
  /\ Lease \in Nat \ {0}
  /\ Delays \subseteq Nat
  /\ FetchConcurrency \in Nat \ {0}
  /\ DrainedAtOnce \in Nat \ {0}
  /\ PickedAmong \in Nat \ {0}
  /\ ReadLag \in Nat
  /\ MaxClock \in Nat
  /\ MaxInterruptions \in Nat

VARIABLES
  due,         \* [crawl][hash]: the second a pending visit is due, or NotPending
  ended,       \* [crawl]: hashes of the visits that ended
  head,        \* [crawl]: position the queue's due visits begin at, or NoHead
  queueState,  \* [crawl]: "open", "paused" or "draining"
  paused,      \* the pause of every page visit
  clock,       \* the tick it is
  looked,      \* what the lease loop read before its transaction
  picked,      \* the draining queue picked before a batch is drained
  held,        \* leases in the hands of workers
  interruptions,  \* how many restarts and pauses there were
  seeded,      \* crawls whose seeds were added; crawlid.New repeats no ID
  latest       \* history: [crawl][hash] the tick of the visit's latest lease

processVars == <<looked, picked, held>>   \* what a restart loses
frontierVars == <<due, ended, head, queueState, paused, clock, looked, picked,
                  held, seeded, latest, interruptions>>

NotPending == -1
NeverLeased == -1
NoCrawl == -1
NoHead == <<-1, -1>>
NoLook == [crawl |-> NoCrawl, now |-> 0]
ZeroHash == 0

LeaseRecords == [crawl : Crawls, url : UrlHashes, at : Nat, until : Nat]

TypeOK ==
  /\ due \in [Crawls -> [UrlHashes -> Nat \cup {NotPending}]]
  /\ ended \in [Crawls -> SUBSET UrlHashes]
  /\ head \in [Crawls -> (Nat \X Nat) \cup {NoHead}]
  /\ queueState \in [Crawls -> {"open", "paused", "draining"}]
  /\ paused \in BOOLEAN
  /\ clock \in Nat
  /\ looked \in [crawl : Crawls, now : Nat] \cup {NoLook}
  /\ picked \in Crawls \cup {NoCrawl}
  /\ held \in SUBSET LeaseRecords
  /\ interruptions \in Nat
  /\ seeded \in SUBSET Crawls
  /\ latest \in [Crawls -> [UrlHashes -> Nat \cup {NeverLeased}]]

-----------------------------------------------------------------------------
(* Time *)

\* time.Unix: the second a tick lies in.
Unix(t) == t \div TicksPerSecond

\* Fault: the fraction of a second is cut off.
SecondsAtOrBefore(t) == t \div TicksPerSecond

\* The first second that does not begin before the tick.
SecondsAtOrAfter(t) == (t + TicksPerSecond - 1) \div TicksPerSecond

\* What a read of the clock before, or early in, a transaction may have said.
ReadTimes == {t \in 0..clock : clock - t <= ReadLag}

-----------------------------------------------------------------------------
(* Positions and the ledger *)

IsBefore(p, q) == p[1] < q[1] \/ (p[1] = q[1] /\ p[2] < q[2])

PendingIn(dues) == {u \in UrlHashes : dues[u] # NotPending}

Pending(c) == PendingIn(due[c])

\* The positions of a queue that do not come before one of them.
PositionsFrom(dues, from) ==
  {p \in {<<dues[u], u>> : u \in PendingIn(dues)} : ~IsBefore(p, from)}

\* Fault: the head of a queue with nothing pending stays at the earliest position.
KeptHead(dues, from) ==
  LET positions == PositionsFrom(dues, from)
  IN  IF positions = {} THEN <<NotPending, ZeroHash>>
      ELSE CHOOSE p \in positions : \A q \in positions : ~IsBefore(q, p)

\* Where the head of a queue moves when it is aligned from a position on.
AlignedHead(dues, from) ==
  LET positions == PositionsFrom(dues, from)
  IN  IF positions = {} THEN NoHead
      ELSE CHOOSE p \in positions : \A q \in positions : ~IsBefore(q, p)

MovedEarlierTo(h, position) ==
  IF h = NoHead \/ IsBefore(position, h) THEN position ELSE h

\* Fault: a returned visit leaves the head where it is.
StandingHead(h, position) == h

MovedEarlierIfPresent(h, position) ==
  IF h # NoHead /\ IsBefore(position, h) THEN position ELSE h

\* Fault: a draining queue takes page visits.
TakesInAnyState(state) == state \in {"open", "paused", "draining"}

TakesPageVisits(state) == state # "draining"

\* A visit pending or ended before is not added again.
AddableTo(c, visits) == {u \in visits : u \notin Pending(c) /\ u \notin ended[c]}

AddToQueueOf(c, visits, t) ==
  LET added == IF TakesPageVisits(queueState[c]) THEN AddableTo(c, visits) ELSE {}
  IN  /\ due' = [due EXCEPT ![c] =
                   [u \in UrlHashes |-> IF u \in added THEN Unix(t) ELSE @[u]]]
      /\ head' = IF added = {} \/ queueState[c] = "paused" THEN head
                 ELSE [head EXCEPT ![c] = MovedEarlierTo(@, <<Unix(t), ZeroHash>>)]

-----------------------------------------------------------------------------
(* Adding page visits *)

\* Seeds enter the queue of a crawl in the transaction that starts it.
AddSeeds(c, visits, t) ==
  /\ c \notin seeded
  /\ seeded' = seeded \cup {c}
  /\ AddToQueueOf(c, visits, t)
  /\ UNCHANGED <<ended, queueState, paused, clock, processVars, latest, interruptions>>

\* Fault: a visit no longer pending adds what it leads to.
LeadsOn(l) == l.url \in UrlHashes

\* A visit leads on only while it is pending, under whatever lease.
MayLeadOn(l) == l.url \in Pending(l.crawl)

AddNextOf(l, visits, t) ==
  /\ l \in held
  /\ MayLeadOn(l)
  /\ AddToQueueOf(l.crawl, visits, t)
  /\ UNCHANGED <<ended, queueState, paused, clock, processVars, seeded, latest,
                 interruptions>>

-----------------------------------------------------------------------------
(* The state of a queue *)

Interrupt == interruptions < MaxInterruptions /\ interruptions' = interruptions + 1

PauseQueueOf(c) ==
  /\ Interrupt
  /\ queueState[c] = "open"
  /\ queueState' = [queueState EXCEPT ![c] = "paused"]
  /\ head' = [head EXCEPT ![c] = NoHead]
  /\ UNCHANGED <<due, ended, paused, clock, processVars, seeded, latest>>

ResumeQueueOf(c) ==
  /\ queueState[c] = "paused"
  /\ queueState' = [queueState EXCEPT ![c] = "open"]
  /\ head' = [head EXCEPT ![c] = AlignedHead(due[c], <<NotPending, ZeroHash>>)]
  /\ UNCHANGED <<due, ended, paused, clock, processVars, seeded, latest,
                 interruptions>>

\* A queue with nothing pending has nothing to drain and is left open.
DrainQueueOf(c) ==
  /\ queueState[c] # "draining"
  /\ queueState' = [queueState EXCEPT ![c] =
                      IF Pending(c) = {} THEN "open" ELSE "draining"]
  /\ head' = [head EXCEPT ![c] = NoHead]
  /\ UNCHANGED <<due, ended, paused, clock, processVars, seeded, latest,
                 interruptions>>

ForgetQueueOf(c) ==
  /\ due' = [due EXCEPT ![c] = [u \in UrlHashes |-> NotPending]]
  /\ ended' = [ended EXCEPT ![c] = {}]
  /\ head' = [head EXCEPT ![c] = NoHead]
  /\ queueState' = [queueState EXCEPT ![c] = "open"]
  /\ UNCHANGED <<paused, clock, processVars, seeded, latest, interruptions>>

\* The pause of every page visit.
SetPause(on) ==
  /\ paused' = on
  /\ UNCHANGED <<due, ended, head, queueState, clock, processVars, seeded, latest>>

Pause == ~paused /\ Interrupt /\ SetPause(TRUE)

Resume == paused /\ SetPause(FALSE) /\ UNCHANGED interruptions

-----------------------------------------------------------------------------
(* Leasing *)

\* Fault: a head due this very second is not seen.
HeadsDueBefore(t) == {c \in Crawls : head[c] # NoHead /\ head[c][1] < Unix(t)}

HeadsDueBy(t) == {c \in Crawls : head[c] # NoHead /\ head[c][1] <= Unix(t)}

FreeWorkers == FetchConcurrency - Cardinality(held)

\* The lease loop reads the clock and, in a transaction of its own, the first
\* head due by then; the crawl's ID settles equal dues.
FirstHeadDue ==
  /\ looked = NoLook
  /\ FreeWorkers > 0
  /\ ~paused
  /\ \E c \in HeadsDueBy(clock) :
       /\ \A d \in HeadsDueBy(clock) :
            head[c][1] < head[d][1] \/ (head[c][1] = head[d][1] /\ c <= d)
       /\ looked' = [crawl |-> c, now |-> clock]
  /\ UNCHANGED <<due, ended, head, queueState, paused, clock, picked, held, seeded,
                 latest, interruptions>>

\* The visits of a queue at or after its head that are due by a tick.
DueVisitsOf(c, t) ==
  {u \in Pending(c) : ~IsBefore(<<due[c][u], u>>, head[c]) /\ due[c][u] <= Unix(t)}

\* Fault: visits are leased in the order of their hashes.
IsFirstByHash(chosen, visits, c, amount) ==
  /\ chosen \subseteq visits
  /\ \/ chosen = visits /\ Cardinality(visits) <= amount
     \/ Cardinality(chosen) = amount
  /\ \A u \in chosen, v \in visits \ chosen : u < v

\* The earliest of the visits, as many as asked for or as there are.
IsEarliest(chosen, visits, c, amount) ==
  /\ chosen \subseteq visits
  /\ \/ chosen = visits /\ Cardinality(visits) <= amount
     \/ Cardinality(chosen) = amount
  /\ \A u \in chosen, v \in visits \ chosen :
       IsBefore(<<due[c][u], u>>, <<due[c][v], v>>)

LeaseOf(c, u, t) ==
  [crawl |-> c, url |-> u, at |-> t, until |-> SecondsAtOrAfter(t + Lease)]

\* Leases up to the asked amount of the queue looked at, if it is still headed.
\* The code aligns the head from the last leased position; all from the former
\* head up to there has just moved past the clock, so that is the same head.
LeaseVisits(chosen) ==
  LET c == looked.crawl
      t == looked.now
      dues == [u \in UrlHashes |->
                 IF u \in chosen THEN SecondsAtOrAfter(t + Lease) ELSE due[c][u]]
  IN  /\ due' = [due EXCEPT ![c] = dues]
      /\ head' = [head EXCEPT ![c] = AlignedHead(dues, head[c])]
      /\ held' = held \cup {LeaseOf(c, u, t) : u \in chosen}
      /\ latest' = [latest EXCEPT ![c] =
                      [u \in UrlHashes |-> IF u \in chosen THEN t ELSE @[u]]]

LeaseDueVisitsOf ==
  LET c == looked.crawl
  IN  /\ looked # NoLook
      /\ looked' = NoLook
      /\ IF paused \/ head[c] = NoHead
         THEN UNCHANGED <<due, head, held, latest>>
         ELSE \E amount \in 1..FreeWorkers :
                \E chosen \in SUBSET DueVisitsOf(c, looked.now) :
                  /\ IsEarliest(chosen, DueVisitsOf(c, looked.now), c, amount)
                  /\ LeaseVisits(chosen)
      /\ UNCHANGED <<ended, queueState, paused, clock, picked, seeded, interruptions>>

\* Fault: any pending visit counts as leased by the worker that asks.
IsPending(l) == l.url \in Pending(l.crawl)

\* A lease is outdated once its visit is due at another second than it gave.
IsLeased(l) == due[l.crawl][l.url] = l.until

\* Ends the visit of a lease, unless the lease is outdated.
End(l) ==
  /\ l \in held
  /\ held' = held \ {l}
  /\ IF IsLeased(l)
     THEN /\ due' = [due EXCEPT ![l.crawl][l.url] = NotPending]
          /\ ended' = [ended EXCEPT ![l.crawl] = @ \cup {l.url}]
     ELSE UNCHANGED <<due, ended>>
  /\ UNCHANGED <<head, queueState, paused, clock, looked, picked, seeded, latest,
                 interruptions>>

\* Returns the visit of a lease after a delay counted from a read of the clock,
\* unless the lease is outdated.  A delay may be zero (Retry-After: 0), but the
\* fetch in between took time.
ReturnAfter(l, delay, t) ==
  LET dueAgain == SecondsAtOrAfter(t + delay)
  IN  /\ l \in held
      /\ t >= l.at /\ t + delay > l.at
      /\ held' = held \ {l}
      /\ IF IsLeased(l)
         THEN /\ due' = [due EXCEPT ![l.crawl][l.url] = dueAgain]
              /\ head' = [head EXCEPT ![l.crawl] =
                            MovedEarlierIfPresent(@, <<dueAgain, ZeroHash>>)]
         ELSE UNCHANGED <<due, head>>
      /\ UNCHANGED <<ended, queueState, paused, clock, looked, picked, seeded,
                     latest, interruptions>>

\* A worker gives a lease up: its End or Return failed, and neither is retried.
LoseLease(l) ==
  /\ l \in held
  /\ held' = held \ {l}
  /\ UNCHANGED <<due, ended, head, queueState, paused, clock, looked, picked,
                 seeded, latest, interruptions>>

-----------------------------------------------------------------------------
(* Draining *)

DrainingQueues == {c \in Crawls : queueState[c] = "draining"}

\* One of the first draining queues, at random.
PickDrainingQueue ==
  /\ picked = NoCrawl
  /\ \E c \in DrainingQueues :
       /\ Cardinality({d \in DrainingQueues : d < c}) < PickedAmong
       /\ picked' = c
  /\ UNCHANGED <<due, ended, head, queueState, paused, clock, looked, held, seeded,
                 latest, interruptions>>

\* The order of a scan that begins after a hash and wraps around to it.
IsScannedBefore(start, u, v) ==
  IF (u > start) = (v > start) THEN u < v ELSE u > start

\* Fault: a drain of the last visits leaves the queue draining.
StillDraining(amount) == amount <= DrainedAtOnce

\* A full batch may have left visits behind.
MayHoldMore(amount) == amount = DrainedAtOnce

\* Drops the next visits after a random hash, with no mark that they ended, and
\* opens the queue again when it held fewer than a full batch.
DrainBatchOf(start) ==
  LET c == picked
  IN  /\ picked # NoCrawl
      /\ picked' = NoCrawl
      /\ \E drained \in SUBSET Pending(c) :
           /\ \/ drained = Pending(c) /\ Cardinality(drained) <= DrainedAtOnce
              \/ Cardinality(drained) = DrainedAtOnce
           /\ \A u \in drained, v \in Pending(c) \ drained : IsScannedBefore(start, u, v)
           /\ due' = [due EXCEPT ![c] =
                        [u \in UrlHashes |-> IF u \in drained THEN NotPending ELSE @[u]]]
           /\ queueState' = IF MayHoldMore(Cardinality(drained)) THEN queueState
                            ELSE [queueState EXCEPT ![c] = "open"]
      /\ UNCHANGED <<ended, head, paused, clock, looked, held, seeded, latest,
                     interruptions>>

-----------------------------------------------------------------------------
(* The process and its clock *)

\* Every collection survives a restart; what workers and loops hold does not.
Restart ==
  /\ Interrupt
  /\ looked' = NoLook
  /\ picked' = NoCrawl
  /\ held' = {}
  /\ UNCHANGED <<due, ended, head, queueState, paused, clock, seeded, latest>>

Tick ==
  /\ clock < MaxClock
  /\ clock' = clock + 1
  /\ UNCHANGED <<due, ended, head, queueState, paused, processVars, seeded, latest,
                 interruptions>>

Init ==
  /\ due = [c \in Crawls |-> [u \in UrlHashes |-> NotPending]]
  /\ ended = [c \in Crawls |-> {}]
  /\ head = [c \in Crawls |-> NoHead]
  /\ queueState = [c \in Crawls |-> "open"]
  /\ paused = FALSE
  /\ clock = 0
  /\ looked = NoLook
  /\ picked = NoCrawl
  /\ held = {}
  /\ interruptions = 0
  /\ seeded = {}
  /\ latest = [c \in Crawls |-> [u \in UrlHashes |-> NeverLeased]]

\* What the rest of the crawler asks of the frontier, in any order.
Requests ==
  \/ \E c \in Crawls, visits \in SUBSET UrlHashes, t \in ReadTimes : AddSeeds(c, visits, t)
  \/ \E l \in held, visits \in SUBSET UrlHashes, t \in ReadTimes : AddNextOf(l, visits, t)
  \/ \E c \in Crawls : PauseQueueOf(c)
  \/ \E c \in Crawls : ResumeQueueOf(c)
  \/ \E c \in Crawls : DrainQueueOf(c)
  \/ \E c \in seeded : ForgetQueueOf(c)
  \/ Pause
  \/ Resume

Visits ==
  \/ \E l \in held : End(l)
  \/ \E l \in held, delay \in Delays, t \in ReadTimes : ReturnAfter(l, delay, t)
  \/ \E l \in held : LoseLease(l)

Drains ==
  \/ PickDrainingQueue
  \/ \E start \in UrlHashes \cup {ZeroHash} : DrainBatchOf(start)

Next ==
  \/ Requests
  \/ FirstHeadDue
  \/ LeaseDueVisitsOf
  \/ Visits
  \/ Drains
  \/ Restart
  \/ Tick

Spec == Init /\ [][Next]_frontierVars

\* The lease loop, the drain loop and the workers are goroutines that run for
\* as long as the service does, each in a loop with no wait on another.
Fairness ==
  /\ WF_frontierVars(FirstHeadDue)
  /\ WF_frontierVars(LeaseDueVisitsOf)
  /\ WF_frontierVars(PickDrainingQueue)
  /\ WF_frontierVars(\E start \in UrlHashes \cup {ZeroHash} : DrainBatchOf(start))
  /\ WF_frontierVars(Visits)

FairSpec == Spec /\ Fairness

-----------------------------------------------------------------------------
(* Properties *)

\* The head of an open queue is at or before every pending visit, so that no
\* visit is stranded behind the position leasing starts from; a queue that is
\* paused or draining has no head (page_visit_leases.go, crawl_heads.go).
HeadsCoverPending ==
  \A c \in Crawls :
    IF queueState[c] = "open"
    THEN \A u \in Pending(c) : head[c] # NoHead /\ ~IsBefore(<<due[c][u], u>>, head[c])
    ELSE head[c] = NoHead

\* A visit that ended is not pending again, whatever seeds or links name it and
\* whichever late worker adds them (pageVisitLedger.add, endLeased).
EndedNotPending == \A c \in Crawls : ended[c] \cap Pending(c) = {}

\* Only the latest lease of a visit ends or returns it: a worker that outlived its
\* lease finds it outdated, though a lease is told apart by nothing but the second
\* it runs until (leasedVisitOf).
OnlyLatestLeaseCounts ==
  [][\A l \in held \ held' :
       due'[l.crawl][l.url] # due[l.crawl][l.url] => l.at = latest[l.crawl][l.url]]_frontierVars

\* While a worker holds a lease, its visit is leased to no other worker before
\* the lease has run its full length: rounding to seconds cuts no lease short
\* (secondsAtOrAfter, leaseDueVisitsOf).
LeasesRunTheirLength ==
  \A l \in held :
    LET again == latest[l.crawl][l.url]
    IN  again # l.at => again >= l.at + Lease

\* No visit is leased from a queue paused or draining, nor under the pause of
\* every page visit, though the head was looked up before the transaction.
NoLeaseWhilePaused ==
  [][\A l \in held' \ held : ~paused /\ queueState[l.crawl] = "open"]_frontierVars

\* Once the queue of a seeded crawl is empty it stays empty: a worker late with
\* what its visit led to adds nothing (AddNextOf), and a finished crawl is done.
EmptyQueuesStayEmpty ==
  [][\A c \in seeded : Pending(c) = {} => Pending(c)' = {}]_frontierVars

\* A draining queue gains no visit, and leaves the draining state only empty,
\* however many batches that takes and whatever is added meanwhile
\* (takesPageVisits, drainBatchOf).
DrainsLeaveNothing ==
  [][\A c \in DrainingQueues :
       /\ Pending(c)' \subseteq Pending(c)
       /\ queueState'[c] # "draining" => Pending(c)' = {}]_frontierVars

\* A visit due in an open queue does not stay so for good: some worker leases it
\* unless its queue is closed or everything is paused first.
DueVisitsAreLeased ==
  \A c \in Crawls, u \in UrlHashes :
    LET waits == /\ u \in Pending(c) /\ due[c][u] <= Unix(clock)
                 /\ queueState[c] = "open" /\ ~paused
    IN  waits ~> ~waits

\* Every drain comes to its end.
DrainsEnd ==
  \A c \in Crawls : queueState[c] = "draining" ~> queueState[c] # "draining"

-----------------------------------------------------------------------------
(* The frontier implements VisitQueue *)

\* The tick a visit is due from.
DueFrom(c, u) == IF due[c][u] = NotPending THEN NotPending ELSE TicksPerSecond * due[c][u]

\* A lease without the second it runs until, by which the code tells it.
GivenAt(l) == [crawl |-> l.crawl, url |-> l.url, at |-> l.at]

Queue == INSTANCE VisitQueue WITH
  Urls <- UrlHashes,
  Workers <- FetchConcurrency,
  Grain <- TicksPerSecond,
  from <- [c \in Crawls |-> [u \in UrlHashes |-> DueFrom(c, u)]],
  state <- queueState,
  leases <- {GivenAt(l) : l \in held},
  now <- clock

\* To the crawler the frontier is a queue that leases the visits due in order,
\* each to one worker at a time, and loses none: what it does by heads that are
\* moved ahead, by lookups before a transaction, by leases told by a second and by
\* drains in batches (frontier.go) is not seen.
IsVisitQueue == Queue!Spec
=============================================================================
