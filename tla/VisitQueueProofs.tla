-------------------------- MODULE VisitQueueProofs --------------------------
(***************************************************************************)
(* The frontier implements VisitQueue, for any crawls, URLs, lease, delays *)
(* and number of workers: every step of Frontier is a step of VisitQueue   *)
(* under the mapping of Queue, or changes nothing a client of it sees.     *)
(***************************************************************************)
EXTENDS FrontierProofs, FiniteSetTheorems

From == [c \in Crawls |-> [u \in UrlHashes |-> DueFrom(c, u)]]

Given == {GivenAt(l) : l \in held}

AsPromised == Queue!Next \/ UNCHANGED Queue!queueVars

\* What a step must leave to be a stutter, or a step of a few variables.
LEMMA StandsStill ==
  ASSUME UNCHANGED <<due, ended, queueState, paused, held, latest, seeded, clock>>
  PROVE  AsPromised
BY DEF AsPromised, Queue!queueVars, DueFrom

-----------------------------------------------------------------------------
(* Times *)

\* A due second as a tick is less than a second off the tick it was rounded from.
LEMMA TicksOfSeconds ==
  ASSUME NEW t \in Nat
  PROVE  /\ TicksPerSecond * Unix(t) \in (t - TicksPerSecond + 1)..t
         /\ TicksPerSecond * SecondsAtOrAfter(t) \in t..(t + TicksPerSecond - 1)
<1>1. ASSUME NEW s \in Nat
      PROVE  TicksPerSecond * Unix(s) \in (s - TicksPerSecond + 1)..s
  <2>1. /\ Unix(s) \in Nat /\ TicksPerSecond * Unix(s) <= s
        /\ s < TicksPerSecond * Unix(s) + TicksPerSecond
    BY UnixBounds
  <2>2. TicksPerSecond * Unix(s) \in Int /\ TicksPerSecond \in Int
    BY <2>1, FrontierAssumption
  <2> QED
    BY <2>1, <2>2
<1> DEFINE r == t + TicksPerSecond - 1
<1>2. r \in Nat /\ TicksPerSecond \in Nat
  BY FrontierAssumption
<1>3. SecondsAtOrAfter(t) = Unix(r)
  BY DEF SecondsAtOrAfter, Unix
<1>4. TicksPerSecond * Unix(r) \in (r - TicksPerSecond + 1)..r
  BY <1>1, <1>2
<1>5. r - TicksPerSecond + 1 = t /\ r = t + TicksPerSecond - 1
  BY <1>2
<1> HIDE DEF r
<1> QED
  BY <1>1, <1>3, <1>4, <1>5

\* The order of due seconds is the order of their ticks.
LEMMA TicksInOrder ==
  ASSUME NEW a \in Nat, NEW b \in Nat, a <= b
  PROVE  /\ TicksPerSecond * a \in Nat /\ TicksPerSecond * b \in Nat
         /\ TicksPerSecond * a <= TicksPerSecond * b
<1>1. TicksPerSecond * a \in Nat /\ TicksPerSecond * b \in Nat
  BY FrontierAssumption
<1>2. CASE a = b
  BY <1>1, <1>2
<1>3. CASE a < b
  BY <1>1, <1>3, ScaledOrder, FrontierAssumption
<1> QED
  BY <1>1, <1>2, <1>3

LEMMA DueFromType ==
  ASSUME TypeOK, NEW c \in Crawls, NEW u \in UrlHashes
  PROVE  /\ due[c][u] = NotPending => DueFrom(c, u) = NotPending
         /\ due[c][u] # NotPending =>
              /\ due[c][u] \in Nat /\ DueFrom(c, u) = TicksPerSecond * due[c][u]
              /\ DueFrom(c, u) \in Nat
         /\ u \in Pending(c) <=> DueFrom(c, u) # NotPending
<1>1. due[c][u] \in Nat \cup {NotPending}
  BY DEF TypeOK
<1>2. ASSUME due[c][u] \in Nat
      PROVE  TicksPerSecond * due[c][u] \in Nat
  BY <1>2, FrontierAssumption
<1> QED
  BY <1>1, <1>2 DEF DueFrom, NotPending, Pending, PendingIn

LEMMA SamePending ==
  ASSUME TypeOK, NEW c \in Crawls
  PROVE  Queue!Pending(c) = Pending(c)
<1>1. \A u \in UrlHashes : u \in Queue!Pending(c) <=> DueFrom(c, u) # NotPending
  BY DEF Queue!Pending, Queue!NotPending, NotPending
<1> QED
  BY <1>1, DueFromType DEF Queue!Pending, Pending, PendingIn

LEMMA SameAmount ==
  ASSUME NEW S
  PROVE  Queue!Cardinality(S) = Cardinality(S)
BY DEF Queue!Cardinality, Cardinality

\* A change of when visits may be leased, visit by visit.
LEMMA LeasableFromIs ==
  ASSUME NEW c \in Crawls, NEW visits, NEW time,
         \A d \in Crawls, u \in UrlHashes :
           DueFrom(d, u)' = IF d = c /\ u \in visits THEN time ELSE DueFrom(d, u)
  PROVE  Queue!LeasableFrom(c, visits, time)
<1>1. [From EXCEPT ![c] = [u \in UrlHashes |-> IF u \in visits THEN time ELSE @[u]]]
        = [d \in Crawls |-> [u \in UrlHashes |->
             IF d = c /\ u \in visits THEN time ELSE DueFrom(d, u)]]
  BY DEF From
<1>2. From' = [d \in Crawls |-> [u \in UrlHashes |-> DueFrom(d, u)']]
  BY DEF From
<1> QED
  BY <1>1, <1>2 DEF Queue!LeasableFrom, From

-----------------------------------------------------------------------------
(* Leases without the second they run until *)

\* Two leases in the hands of workers are not taken for one another.
LEMMA GivenApart ==
  ASSUME TypeOK, LeaseInv, NEW l \in held, NEW k \in held, GivenAt(l) = GivenAt(k)
  PROVE  l = k
<1>1. l.crawl = k.crawl /\ l.url = k.url /\ l.at = k.at
  BY DEF GivenAt
<1>2. l.until = k.until
  BY <1>1, LeaseInvParts DEF Told
<1>3. l \in LeaseRecords /\ k \in LeaseRecords
  BY DEF TypeOK
<1> QED
  BY <1>1, <1>2, <1>3 DEF LeaseRecords

LEMMA GivenWithout ==
  ASSUME TypeOK, LeaseInv, NEW l \in held, held' = held \ {l}
  PROVE  /\ GivenAt(l) \in Given
         /\ Given' = Given \ {GivenAt(l)}
<1>1. \A k \in held : GivenAt(k) = GivenAt(l) <=> k = l
  BY GivenApart
<1> QED
  BY <1>1 DEF Given

LEMMA GivenFields ==
  ASSUME NEW l
  PROVE  GivenAt(l).crawl = l.crawl /\ GivenAt(l).url = l.url /\ GivenAt(l).at = l.at
BY DEF GivenAt

\* A lease the code takes for the latest counts, and it takes no other for it.
LEMMA LeasedCounts ==
  ASSUME TypeOK, LeaseInv, NEW l \in held
  PROVE  IsLeased(l) <=> Queue!Counts(GivenAt(l))
<1>1. l.crawl \in Crawls /\ l.url \in UrlHashes
  BY LeaseType
<1>2. Queue!Counts(GivenAt(l)) <=>
        l.url \in Pending(l.crawl) /\ l.at = latest[l.crawl][l.url]
  BY <1>1, SamePending, GivenFields DEF Queue!Counts
<1>3. IsLeased(l) => l.url \in Pending(l.crawl) /\ l.at = latest[l.crawl][l.url]
  BY LeasedIsLatest
<1>4. l.url \in Pending(l.crawl) /\ l.at = latest[l.crawl][l.url] => IsLeased(l)
  BY LeaseInvParts DEF Told, IsLeased
<1> QED
  BY <1>2, <1>3, <1>4

\* What the proofs about heads and leases leave out: how many leases there are,
\* and that no lookup is from a time to come.
HandsInv ==
  /\ IsFiniteSet(held)
  /\ looked # NoLook => looked.now <= clock

LEMMA HandsStep ==
  TypeOK /\ HandsInv /\ [Next]_frontierVars => HandsInv'
<1> SUFFICES ASSUME TypeOK, HandsInv, [Next]_frontierVars
             PROVE  HandsInv'
  OBVIOUS
<1> USE DEF HandsInv, processVars
<1>1. ASSUME held' \subseteq held, looked' \in {looked, NoLook}, clock' \in {clock, clock + 1}
      PROVE  HandsInv'
  <2>1. IsFiniteSet(held')
    BY <1>1, FS_Subset
  <2>2. looked' # NoLook => looked'.now <= clock'
    BY <1>1, LookedType DEF TypeOK
  <2> QED
    BY <2>1, <2>2
<1>2. CASE Requests
  BY <1>1, <1>2
     DEF Requests, AddSeeds, AddNextOf, PauseQueueOf, ResumeQueueOf, DrainQueueOf,
         ForgetQueueOf, Pause, Resume, SetPause
<1>3. CASE FirstHeadDue
  <2>1. \E c \in Crawls : looked' = [crawl |-> c, now |-> clock]
    BY <1>3 DEF FirstHeadDue, HeadsDueBy
  <2>2. looked'.now = clock /\ UNCHANGED <<held, clock>>
    BY <1>3, <2>1 DEF FirstHeadDue
  <2> QED
    BY <2>2 DEF TypeOK
<1>4. CASE LeaseDueVisitsOf
  <2>1. looked' = NoLook /\ UNCHANGED clock
    BY <1>4 DEF LeaseDueVisitsOf
  <2>2. \/ held' = held
        \/ \E chosen \in SUBSET DueVisitsOf(looked.crawl, looked.now) :
             held' = held \cup {LeaseOf(looked.crawl, u, looked.now) : u \in chosen}
    BY <1>4 DEF LeaseDueVisitsOf, LeaseVisits
  <2>3. ASSUME NEW chosen \in SUBSET DueVisitsOf(looked.crawl, looked.now)
        PROVE  IsFiniteSet({LeaseOf(looked.crawl, u, looked.now) : u \in chosen})
    <3> DEFINE T == {LeaseOf(looked.crawl, u, looked.now) : u \in chosen}
               f == [u \in chosen |-> LeaseOf(looked.crawl, u, looked.now)]
    <3>1. chosen \in SUBSET UrlHashes
      BY DEF DueVisitsOf, Pending, PendingIn
    <3>2. IsFiniteSet(chosen)
      BY <3>1, FS_Subset, FrontierAssumption
    <3>3. f \in Surjection(chosen, T)
      BY DEF Surjection
    <3> HIDE DEF T, f
    <3>4. IsFiniteSet(T)
      BY <3>2, <3>3, FS_Surjection
    <3> QED
      BY <3>4 DEF T
  <2>4. IsFiniteSet(held')
    BY <2>2, <2>3, FS_Union
  <2> QED
    BY <2>1, <2>4
<1>5. CASE Visits
  BY <1>1, <1>5 DEF Visits, End, ReturnAfter, LoseLease
<1>6. CASE Drains
  BY <1>1, <1>6 DEF Drains, PickDrainingQueue, DrainBatchOf
<1>7. CASE Restart \/ Tick \/ UNCHANGED frontierVars
  BY <1>1, <1>7 DEF Restart, Tick, frontierVars
<1> QED
  BY <1>2, <1>3, <1>4, <1>5, <1>6, <1>7 DEF Next

\* Leases told without their ends are no more than the leases.
LEMMA AmountGiven ==
  ASSUME IsFiniteSet(held)
  PROVE  /\ Cardinality(held) \in Nat /\ Cardinality(Given) \in Nat
         /\ Cardinality(Given) <= Cardinality(held)
<1> DEFINE f == [l \in held |-> GivenAt(l)]
<1>1. f \in Surjection(held, Given)
  BY DEF Surjection, Given
<1>2. IsFiniteSet(Given) /\ Cardinality(Given) <= Cardinality(held)
  BY <1>1, FS_Surjection
<1> QED
  BY <1>2, FS_CardinalityType

-----------------------------------------------------------------------------
(* Every step, as a step of VisitQueue *)

\* What is added to a queue was neither pending nor ended, and may be leased from
\* the second it was found in.
LEMMA AddingIsPromised ==
  ASSUME TypeOK, NEW c \in Crawls, NEW visits \in SUBSET UrlHashes, NEW t \in ReadTimes,
         AddToQueueOf(c, visits, t)
  PROVE  Queue!Add(c) \/ From' = From
<1> DEFINE added == IF TakesPageVisits(queueState[c]) THEN AddableTo(c, visits) ELSE {}
           time == TicksPerSecond * Unix(t)
<1>1. t \in 0..clock /\ t \in Nat /\ Unix(t) \in Nat
  BY ReadTimesType, UnixBounds DEF ReadTimes
<1>2. \A d \in Crawls, u \in UrlHashes :
        due'[d][u] = IF d = c /\ u \in added THEN Unix(t) ELSE due[d][u]
  BY DEF AddToQueueOf, TypeOK
<1>3. added \in SUBSET UrlHashes /\ \A u \in added : u \notin Pending(c) /\ u \notin ended[c]
  BY DEF AddableTo
<1>4. \A d \in Crawls, u \in UrlHashes :
        DueFrom(d, u)' = IF d = c /\ u \in added THEN time ELSE DueFrom(d, u)
  BY <1>1, <1>2 DEF DueFrom, NotPending
<1>5. CASE queueState[c] = "draining"
  <2>1. added = {}
    BY <1>5 DEF TakesPageVisits
  <2>2. \A d \in Crawls, u \in UrlHashes : DueFrom(d, u)' = DueFrom(d, u)
    BY <1>4, <2>1
  <2> QED
    BY <2>2 DEF From
<1>6. CASE queueState[c] # "draining"
  <2> HIDE DEF added
  <2>1. added \in SUBSET (UrlHashes \ (Queue!Pending(c) \cup ended[c]))
    BY <1>3, SamePending
  <2>2. time \in (t - TicksPerSecond + 1)..t
    BY <1>1, TicksOfSeconds
  <2> HIDE DEF time
  <2>3. Queue!LeasableFrom(c, added, time)
    BY <1>4, LeasableFromIs
  <2> QED
    BY <1>1, <1>6, <2>1, <2>2, <2>3 DEF Queue!Add
<1> QED
  BY <1>5, <1>6

LEMMA SeedingIsPromised ==
  ASSUME TypeOK, NEW c \in Crawls, NEW visits \in SUBSET UrlHashes, NEW t \in ReadTimes,
         AddSeeds(c, visits, t)
  PROVE  AsPromised
<1>1. Queue!Add(c) \/ From' = From
  BY AddingIsPromised DEF AddSeeds
<1>2. /\ c \notin seeded /\ seeded' = seeded \cup {c}
      /\ UNCHANGED <<ended, queueState, paused, held, latest, clock>>
  BY DEF AddSeeds, processVars
<1>3. Queue!Seed(c)
  BY <1>1, <1>2 DEF Queue!Seed, From
<1> QED
  BY <1>3 DEF AsPromised, Queue!Next

LEMMA LeadingOnIsPromised ==
  ASSUME TypeOK, LeaseInv, NEW l \in held, NEW visits \in SUBSET UrlHashes,
         NEW t \in ReadTimes, AddNextOf(l, visits, t)
  PROVE  AsPromised
<1>1. l.crawl \in Crawls
  BY LeaseType
<1>2. UNCHANGED <<ended, queueState, paused, held, latest, seeded, clock>>
  BY DEF AddNextOf, processVars
<1>3. CASE Queue!Add(l.crawl)
  <2>1. GivenAt(l).url \in Queue!Pending(GivenAt(l).crawl)
    BY <1>1, SamePending, GivenFields DEF AddNextOf, MayLeadOn
  <2>2. Queue!LeadOn(GivenAt(l))
    BY <1>2, <1>3, <2>1, GivenFields DEF Queue!LeadOn
  <2> QED
    BY <2>2 DEF AsPromised, Queue!Next
<1>4. CASE From' = From
  BY <1>2, <1>4 DEF AsPromised, Queue!queueVars, From
<1> QED
  BY <1>1, <1>3, <1>4, AddingIsPromised DEF AddNextOf

LEMMA StatesArePromised ==
  ASSUME TypeOK, NEW c \in Crawls, PauseQueueOf(c) \/ ResumeQueueOf(c) \/ DrainQueueOf(c)
  PROVE  AsPromised
<1>1. UNCHANGED <<due, ended, paused, held, latest, seeded, clock>>
  BY DEF PauseQueueOf, ResumeQueueOf, DrainQueueOf, processVars
<1>2. Queue!Pending(c) = Pending(c)
  BY SamePending
<1>3. \E next \in {"open", "paused", "draining"} :
        /\ queueState[c] = "draining" => next = "draining"
        /\ next = "draining" => Queue!Pending(c) # {}
        /\ queueState' = [queueState EXCEPT ![c] = next]
  BY <1>2 DEF PauseQueueOf, ResumeQueueOf, DrainQueueOf
<1>4. Queue!ChangeState(c)
  BY <1>1, <1>3 DEF Queue!ChangeState, DueFrom
<1> QED
  BY <1>4 DEF AsPromised, Queue!Next

LEMMA ForgettingIsPromised ==
  ASSUME TypeOK, NEW c \in seeded, ForgetQueueOf(c)
  PROVE  AsPromised
<1>1. c \in Crawls /\ UNCHANGED <<paused, held, latest, seeded, clock>>
  BY DEF TypeOK, ForgetQueueOf, processVars
<1>2. \A d \in Crawls, u \in UrlHashes :
        due'[d][u] = IF d = c THEN NotPending ELSE due[d][u]
  BY DEF ForgetQueueOf, TypeOK
<1>3. \A d \in Crawls, u \in UrlHashes :
        DueFrom(d, u)' = IF d = c /\ u \in UrlHashes THEN Queue!NotPending ELSE DueFrom(d, u)
  BY <1>2 DEF DueFrom, NotPending, Queue!NotPending
<1>4. Queue!LeasableFrom(c, UrlHashes, Queue!NotPending)
  BY <1>1, <1>3, LeasableFromIs
<1>5. Queue!Forget(c)
  BY <1>1, <1>4 DEF ForgetQueueOf, Queue!Forget
<1> QED
  BY <1>1, <1>5 DEF AsPromised, Queue!Next

LEMMA PausingIsPromised ==
  ASSUME TypeOK, Pause \/ Resume
  PROVE  AsPromised
<1>1. UNCHANGED <<due, ended, queueState, held, latest, seeded, clock>>
  BY DEF Pause, Resume, SetPause, processVars
<1>2. paused' = ~paused
  <2>1. CASE ~paused /\ paused' = TRUE
    BY <2>1
  <2>2. CASE paused /\ paused' = FALSE
    BY <2>2
  <2> QED
    BY <2>1, <2>2, Zenon DEF Pause, Resume, SetPause
<1>3. Queue!PauseOrResume
  BY <1>1, <1>2 DEF Queue!PauseOrResume, DueFrom
<1> QED
  BY <1>3 DEF AsPromised, Queue!Next

LEMMA RestartIsPromised ==
  ASSUME Restart
  PROVE  AsPromised
<1>1. held' = {} /\ UNCHANGED <<due, ended, queueState, paused, latest, seeded, clock>>
  BY DEF Restart
<1>2. Queue!Restart
  BY <1>1 DEF Queue!Restart, DueFrom
<1> QED
  BY <1>2 DEF AsPromised, Queue!Next

LEMMA TickIsPromised ==
  ASSUME TypeOK, Tick
  PROVE  AsPromised
<1>1. clock' > clock
      /\ UNCHANGED <<due, ended, queueState, paused, held, latest, seeded>>
  BY DEF Tick, TypeOK, processVars
<1>2. Queue!Pass
  BY <1>1 DEF Queue!Pass, DueFrom
<1> QED
  BY <1>2 DEF AsPromised, Queue!Next

LEMMA LosingIsPromised ==
  ASSUME TypeOK, LeaseInv, NEW l \in held, held' = held \ {l},
         UNCHANGED <<due, ended, queueState, paused, latest, seeded, clock>>
  PROVE  AsPromised
<1>1. GivenAt(l) \in Given /\ Given' = Given \ {GivenAt(l)}
  BY GivenWithout
<1>2. Queue!GiveUp(GivenAt(l))
  BY <1>1 DEF Queue!GiveUp, Queue!LetGo, DueFrom, Given
<1> QED
  BY <1>1, <1>2 DEF AsPromised, Queue!Next, Given

\* Only the visit of a lease that counts ends, and it ends for good.
LEMMA EndingIsPromised ==
  ASSUME TypeOK, LeaseInv, NEW l \in held, End(l)
  PROVE  AsPromised
<1>1. held' = held \ {l}
      /\ UNCHANGED <<queueState, paused, latest, seeded, clock>>
  BY DEF End
<1>2. CASE ~IsLeased(l)
  BY <1>1, <1>2, LosingIsPromised DEF End
<1>3. CASE IsLeased(l)
  <2>1. l.crawl \in Crawls /\ l.url \in UrlHashes
    BY LeaseType
  <2>2. \A d \in Crawls, u \in UrlHashes :
          due'[d][u] = IF d = l.crawl /\ u = l.url THEN NotPending ELSE due[d][u]
    <3>1. due' = [due EXCEPT ![l.crawl][l.url] = NotPending]
      BY <1>3 DEF End
    <3>2. \A d \in Crawls : due[d] \in [UrlHashes -> Nat \cup {NotPending}]
      BY DEF TypeOK
    <3>3. \A d \in Crawls : d # l.crawl => due'[d] = due[d]
      BY <3>1 DEF TypeOK
    <3>4. due'[l.crawl] = [due[l.crawl] EXCEPT ![l.url] = NotPending]
      BY <2>1, <3>1 DEF TypeOK
    <3> QED
      BY <2>1, <3>2, <3>3, <3>4
  <2>3. \A d \in Crawls, u \in UrlHashes :
          DueFrom(d, u)' = IF d = l.crawl /\ u \in {l.url} THEN Queue!NotPending
                           ELSE DueFrom(d, u)
    BY <2>2 DEF DueFrom, NotPending, Queue!NotPending
  <2>4. Queue!LeasableFrom(l.crawl, {l.url}, Queue!NotPending)
    BY <2>1, <2>3, LeasableFromIs
  <2>5. GivenAt(l) \in Given /\ Given' = Given \ {GivenAt(l)} /\ Queue!Counts(GivenAt(l))
    BY <1>1, <1>3, GivenWithout, LeasedCounts
  <2>6. ended' = [ended EXCEPT ![l.crawl] = @ \cup {l.url}]
    BY <1>3 DEF End
  <2>7. Queue!EndVisit(GivenAt(l))
    BY <1>1, <2>4, <2>5, <2>6, GivenFields DEF Queue!EndVisit, Queue!LetGo, Given
  <2> QED
    BY <2>5, <2>7 DEF AsPromised, Queue!Next, Given
<1> QED
  BY <1>2, <1>3

\* A visit returned waits no less than its delay and less than a second more.
LEMMA ReturningIsPromised ==
  ASSUME TypeOK, LeaseInv, NEW l \in held, NEW delay \in Delays, NEW t \in ReadTimes,
         ReturnAfter(l, delay, t)
  PROVE  AsPromised
<1>1. /\ held' = held \ {l} /\ t + delay > l.at /\ t >= l.at
      /\ UNCHANGED <<ended, queueState, paused, latest, seeded, clock>>
  BY DEF ReturnAfter
<1>2. CASE ~IsLeased(l)
  BY <1>1, <1>2, LosingIsPromised DEF ReturnAfter
<1>3. CASE IsLeased(l)
  <2> DEFINE again == SecondsAtOrAfter(t + delay)
  <2>1. l.crawl \in Crawls /\ l.url \in UrlHashes /\ l.at \in Nat
    BY LeaseType
  <2>2. t \in Nat /\ t <= clock /\ delay \in Nat /\ clock \in Nat
    BY ReadTimesType, FrontierAssumption DEF ReadTimes, TypeOK
  <2>3. t + delay \in Nat /\ t \in l.at..clock
    BY <1>1, <2>1, <2>2
  <2>4. again \in Nat /\ TicksPerSecond * again \in (t + delay)..(t + delay + TicksPerSecond - 1)
    BY <2>3, RoundedUp, TicksOfSeconds
  <2>5. due' = [due EXCEPT ![l.crawl][l.url] = again]
    BY <1>3 DEF ReturnAfter
  <2> HIDE DEF again
  <2>6. \A d \in Crawls, u \in UrlHashes :
          due'[d][u] = IF d = l.crawl /\ u = l.url THEN again ELSE due[d][u]
    <3>1. \A d \in Crawls : due[d] \in [UrlHashes -> Nat \cup {NotPending}]
      BY DEF TypeOK
    <3>2. \A d \in Crawls : d # l.crawl => due'[d] = due[d]
      BY <2>5 DEF TypeOK
    <3>3. due'[l.crawl] = [due[l.crawl] EXCEPT ![l.url] = again]
      BY <2>1, <2>5 DEF TypeOK
    <3> QED
      BY <2>1, <3>1, <3>2, <3>3
  <2> DEFINE time == TicksPerSecond * again
  <2>7. \A d \in Crawls, u \in UrlHashes :
          DueFrom(d, u)' = IF d = l.crawl /\ u \in {l.url} THEN time ELSE DueFrom(d, u)
    BY <2>4, <2>6 DEF DueFrom, NotPending
  <2>8. time \in (t + delay)..(t + delay + TicksPerSecond - 1)
    BY <2>4
  <2> HIDE DEF time
  <2>9. Queue!LeasableFrom(l.crawl, {l.url}, time)
    BY <2>1, <2>7, LeasableFromIs
  <2>10. GivenAt(l) \in Given /\ Given' = Given \ {GivenAt(l)} /\ Queue!Counts(GivenAt(l))
    BY <1>1, <1>3, GivenWithout, LeasedCounts
  <2>11. Queue!ReturnVisit(GivenAt(l))
    BY <1>1, <2>3, <2>8, <2>9, <2>10, GivenFields
       DEF Queue!ReturnVisit, Queue!LetGo, Given
  <2> QED
    BY <2>10, <2>11 DEF AsPromised, Queue!Next, Given
<1> QED
  BY <1>2, <1>3

\* A batch drops visits of a queue that drains, and opens it only when it is empty.
LEMMA DrainingIsPromised ==
  ASSUME TypeOK, DrainInv, NEW start, DrainBatchOf(start)
  PROVE  AsPromised
<1>1. PICK drained \in SUBSET Pending(picked) :
        /\ drained = Pending(picked) \/ Cardinality(drained) = DrainedAtOnce
        /\ due' = [due EXCEPT ![picked] =
                     [u \in UrlHashes |-> IF u \in drained THEN NotPending ELSE @[u]]]
        /\ queueState' = IF MayHoldMore(Cardinality(drained)) THEN queueState
                         ELSE [queueState EXCEPT ![picked] = "open"]
  BY DEF DrainBatchOf
<1>2. picked \in Crawls /\ UNCHANGED <<ended, paused, held, latest, seeded, clock>>
  BY DEF DrainBatchOf, TypeOK
<1>3. queueState[picked] = "draining" \/ Pending(picked) = {}
  BY <1>2 DEF DrainInv, DrainingQueues
<1>4. \A d \in Crawls, u \in UrlHashes :
        due'[d][u] = IF d = picked /\ u \in drained THEN NotPending ELSE due[d][u]
  BY <1>1, <1>2 DEF TypeOK
<1>5. \A d \in Crawls, u \in UrlHashes :
        DueFrom(d, u)' = IF d = picked /\ u \in drained THEN Queue!NotPending
                         ELSE DueFrom(d, u)
  BY <1>4 DEF DueFrom, NotPending, Queue!NotPending
<1>6. Queue!LeasableFrom(picked, drained, Queue!NotPending)
  BY <1>2, <1>5, LeasableFromIs
<1>7. \/ UNCHANGED queueState
      \/ drained = Pending(picked) /\ queueState' = [queueState EXCEPT ![picked] = "open"]
  BY <1>1 DEF MayHoldMore
<1>8. Queue!DropVisits(picked)
  BY <1>1, <1>2, <1>3, <1>6, <1>7, SamePending DEF Queue!DropVisits
<1> QED
  BY <1>2, <1>8 DEF AsPromised, Queue!Next

\* The visits due that a head leads to are the earliest pending of the whole queue.
LEMMA EarliestOfAll ==
  ASSUME TypeOK, HeadsCoverPending, NEW c \in Crawls, NEW t \in Nat, head[c] # NoHead,
         NEW chosen, NEW amount, IsEarliest(chosen, DueVisitsOf(c, t), c, amount)
  PROVE  /\ queueState[c] = "open" /\ chosen \subseteq Pending(c)
         /\ \A u \in chosen : due[c][u] \in Nat /\ due[c][u] <= Unix(t)
         /\ \A u \in chosen, v \in Pending(c) \ chosen :
              due[c][v] \in Nat /\ due[c][u] <= due[c][v]
<1>1. Covers(queueState[c], due[c], head[c]) /\ queueState[c] = "open"
  BY CoversPerQueue DEF Covers
<1>2. chosen \subseteq DueVisitsOf(c, t)
  BY DEF IsEarliest
<1>3. \A u \in Pending(c) : due[c][u] \in Nat
  BY DEF TypeOK, Pending, PendingIn
<1>4. \A u \in chosen : u \in Pending(c) /\ due[c][u] \in Nat /\ due[c][u] <= Unix(t)
  BY <1>2, <1>3 DEF DueVisitsOf
<1>5. ASSUME NEW u \in chosen, NEW v \in Pending(c) \ chosen
      PROVE  due[c][u] <= due[c][v]
  <2>1. CASE v \in DueVisitsOf(c, t)
    <3>1. IsBefore(<<due[c][u], u>>, <<due[c][v], v>>)
      BY <2>1 DEF IsEarliest
    <3> QED
      BY <1>3, <1>4, <3>1 DEF IsBefore
  <2>2. CASE v \notin DueVisitsOf(c, t)
    <3>1. ~IsBefore(<<due[c][v], v>>, head[c])
      BY <1>1 DEF Covers, Pending
    <3>2. ~(due[c][v] <= Unix(t))
      BY <2>2, <3>1 DEF DueVisitsOf
    <3>3. Unix(t) \in Nat
      BY UnixBounds
    <3> QED
      BY <1>3, <1>4, <3>2, <3>3
  <2> QED
    BY <2>1, <2>2
<1> QED
  BY <1>1, <1>3, <1>4, <1>5

\* Of what a head leads to as many are leased as there are workers without a visit,
\* and none that is pending was to be leased before them.
LEMMA LeasingIsPromised ==
  ASSUME TypeOK, HeadsCoverPending, HandsInv, LeaseDueVisitsOf
  PROVE  AsPromised
<1> DEFINE c == looked.crawl
           t == looked.now
<1>1. looked # NoLook /\ UNCHANGED <<ended, queueState, paused, seeded, clock>>
  BY DEF LeaseDueVisitsOf
<1>2. c \in Crawls /\ t \in Nat /\ clock \in Nat /\ t \in 0..clock
  BY <1>1, LookedType DEF HandsInv, TypeOK
<1>3. CASE UNCHANGED <<due, head, held, latest>>
  BY <1>1, <1>3, StandsStill
<1>4. ASSUME NEW amount \in 1..FreeWorkers, NEW chosen \in SUBSET DueVisitsOf(c, t),
             ~paused, head[c] # NoHead,
             IsEarliest(chosen, DueVisitsOf(c, t), c, amount), LeaseVisits(chosen)
      PROVE  AsPromised
  <2> DEFINE time == TicksPerSecond * SecondsAtOrAfter(t + Lease)
  <2>1. /\ queueState[c] = "open" /\ chosen \in SUBSET Pending(c)
        /\ \A u \in chosen : due[c][u] \in Nat /\ due[c][u] <= Unix(t)
        /\ \A u \in chosen, v \in Pending(c) \ chosen :
             due[c][v] \in Nat /\ due[c][u] <= due[c][v]
    BY <1>2, <1>4, EarliestOfAll
  <2>2. chosen \subseteq UrlHashes
    BY <2>1 DEF Pending, PendingIn
  <2>3. Queue!Cardinality(chosen) <= FetchConcurrency - Queue!Cardinality(Given)
    <3>1. Cardinality(held) \in Nat /\ Cardinality(Given) \in Nat
          /\ Cardinality(Given) <= Cardinality(held)
      BY AmountGiven DEF HandsInv
    <3>2. Cardinality(chosen) \in Nat
      BY <2>2, FS_Subset, FS_CardinalityType, FrontierAssumption
    <3>3. Cardinality(chosen) <= amount
      BY <1>4, <3>2 DEF IsEarliest
    <3>4. amount <= FetchConcurrency - Cardinality(held)
      BY <1>4 DEF FreeWorkers
    <3> QED
      BY <3>1, <3>2, <3>3, <3>4, SameAmount, FrontierAssumption
  <2>4. \A u \in UrlHashes : due[c][u] \in Nat => DueFrom(c, u) = TicksPerSecond * due[c][u]
    BY <1>2, DueFromType DEF NotPending
  <2>5. ASSUME NEW u \in chosen
        PROVE  DueFrom(c, u) <= t
    <3>1. /\ DueFrom(c, u) = TicksPerSecond * due[c][u]
          /\ TicksPerSecond * due[c][u] <= TicksPerSecond * Unix(t)
          /\ TicksPerSecond * due[c][u] \in Nat
          /\ TicksPerSecond * Unix(t) \in Nat /\ TicksPerSecond * Unix(t) <= t
      BY <1>2, <2>1, <2>2, <2>4, TicksInOrder, UnixBounds
    <3> QED
      BY <1>2, <3>1
  <2>6. ASSUME NEW u \in chosen, NEW v \in Pending(c) \ chosen
        PROVE  DueFrom(c, u) <= DueFrom(c, v)
    <3>1. v \in UrlHashes /\ u \in UrlHashes
      BY <2>2 DEF Pending, PendingIn
    <3> QED
      BY <2>1, <2>4, <3>1, TicksInOrder
  <2>7. time \in (t + Lease)..(t + Lease + TicksPerSecond - 1)
    BY <1>2, TicksOfSeconds, FrontierAssumption
  <2>8. \A d \in Crawls, u \in UrlHashes :
          DueFrom(d, u)' = IF d = c /\ u \in chosen THEN time ELSE DueFrom(d, u)
    <3>1. \A d \in Crawls, u \in UrlHashes :
            due'[d][u] = IF d = c /\ u \in chosen THEN SecondsAtOrAfter(t + Lease)
                         ELSE due[d][u]
      BY <1>1, <1>4, WhatLeasingChanges DEF SameVisit
    <3>2. SecondsAtOrAfter(t + Lease) # NotPending
      BY <1>1, LeaseTime DEF NotPending
    <3> QED
      BY <3>1, <3>2 DEF DueFrom
  <2> HIDE DEF time
  <2>9. Queue!LeasableFrom(c, chosen, time)
    BY <1>2, <2>8, LeasableFromIs
  <2>10. Given' = Given \cup {[crawl |-> c, url |-> u, at |-> t] : u \in chosen}
    <3>1. held' = held \cup {LeaseOf(c, u, t) : u \in chosen}
      BY <1>4 DEF LeaseVisits
    <3>2. \A u : GivenAt(LeaseOf(c, u, t)) = [crawl |-> c, url |-> u, at |-> t]
      BY DEF GivenAt, LeaseOf
    <3>3. {GivenAt(l) : l \in held'} = Given \cup {GivenAt(LeaseOf(c, u, t)) : u \in chosen}
      BY <3>1 DEF Given
    <3> QED
      BY <3>2, <3>3 DEF Given
  <2>11. latest' = [latest EXCEPT ![c] = [u \in UrlHashes |-> IF u \in chosen THEN t ELSE @[u]]]
    BY <1>4 DEF LeaseVisits
  <2>12. Queue!Pending(c) = Pending(c)
    BY <1>2, SamePending
  <2>13. \A u \in chosen : From[c][u] <= t
    BY <1>2, <2>2, <2>5 DEF From
  <2>14. \A u \in chosen, v \in Pending(c) \ chosen : From[c][u] <= From[c][v]
    BY <1>2, <2>2, <2>6 DEF From, Pending, PendingIn
  <2> HIDE DEF c, t
  <2>15. Queue!LeaseVisits(c)
    BY <1>1, <1>2, <1>4, <2>1, <2>3, <2>7, <2>9, <2>10, <2>11, <2>12, <2>13, <2>14
       DEF Queue!LeaseVisits, From, Given
  <2> QED
    BY <1>2, <2>15 DEF AsPromised, Queue!Next
<1> QED
  BY <1>3, <1>4 DEF LeaseDueVisitsOf

LEMMA EveryStepIsPromised ==
  TypeOK /\ HeadsCoverPending /\ DrainInv /\ LeaseInv /\ HandsInv /\ [Next]_frontierVars
    => [Queue!Next]_Queue!queueVars
<1> SUFFICES ASSUME TypeOK, HeadsCoverPending, DrainInv, LeaseInv, HandsInv,
                    [Next]_frontierVars
             PROVE  AsPromised
  BY DEF AsPromised
<1>1. CASE Requests
  BY <1>1, SeedingIsPromised, LeadingOnIsPromised, StatesArePromised, ForgettingIsPromised,
     PausingIsPromised DEF Requests
<1>2. CASE FirstHeadDue
  BY <1>2, StandsStill DEF FirstHeadDue
<1>3. CASE LeaseDueVisitsOf
  BY <1>3, LeasingIsPromised
<1>4. CASE Visits
  <2>1. ASSUME NEW l \in held, LoseLease(l)
        PROVE  AsPromised
    BY <2>1, LosingIsPromised DEF LoseLease
  <2> QED
    BY <1>4, <2>1, EndingIsPromised, ReturningIsPromised DEF Visits
<1>5. CASE Drains
  BY <1>5, StandsStill, DrainingIsPromised DEF Drains, PickDrainingQueue
<1>6. CASE Restart \/ Tick
  BY <1>6, RestartIsPromised, TickIsPromised
<1>7. CASE UNCHANGED frontierVars
  BY <1>7, StandsStill DEF frontierVars, processVars
<1> QED
  BY <1>1, <1>2, <1>3, <1>4, <1>5, <1>6, <1>7 DEF Next

\* The frontier implements VisitQueue: with its heads, its lookups before a
\* transaction, its leases told by a second and its drains in batches, it leases the
\* visits due in order and to one worker at a time, for any crawls, URLs, lease and
\* workers, and however its steps interleave and restarts interrupt them.
THEOREM QueueImplemented == Spec => IsVisitQueue
<1>1. Init => Queue!Init
  BY DEF Init, Queue!Init, DueFrom, NotPending, Queue!NotPending, NeverLeased,
         Queue!NeverLeased
<1>2. Init => DrainInv /\ LeaseInv /\ HandsInv
  BY FrontierAssumption, FS_EmptySet
     DEF Init, DrainInv, LeaseInv, HandsInv, DrainingQueues, Pending, PendingIn, NoCrawl
<1> QED
  BY <1>1, <1>2, TypeInit, TypeStep, HeadsCorrect, DrainInvStep, LeaseInvStep, HandsStep,
     EveryStepIsPromised, PTL DEF Spec, IsVisitQueue, Queue!Spec

=============================================================================
