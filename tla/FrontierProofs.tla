--------------------------- MODULE FrontierProofs ---------------------------
(***************************************************************************)
(* Proofs about Frontier, for any crawls, URLs, lease, delays and number   *)
(* of workers.                                                             *)
(***************************************************************************)
EXTENDS Frontier, TLAPS, WellFoundedInduction

-----------------------------------------------------------------------------
(* Seconds *)

LEMMA UnixBounds ==
  ASSUME NEW t \in Nat
  PROVE  /\ Unix(t) \in Nat
         /\ TicksPerSecond * Unix(t) <= t
         /\ t < TicksPerSecond * Unix(t) + TicksPerSecond
<1>1. /\ Unix(t) \in Nat
      /\ TicksPerSecond * Unix(t) <= t
      /\ t < TicksPerSecond * (Unix(t) + 1)
  BY FrontierAssumption DEF Unix
<1>2. TicksPerSecond * (Unix(t) + 1) = TicksPerSecond * Unix(t) + TicksPerSecond
  BY <1>1, FrontierAssumption
<1> QED
  BY <1>1, <1>2

LEMMA ScaledOrder ==
  ASSUME NEW a \in Nat, NEW b \in Nat, a < b
  PROVE  TicksPerSecond * a + TicksPerSecond <= TicksPerSecond * b
<1>1. TicksPerSecond * (a + 1) <= TicksPerSecond * b
  <2>1. b - a - 1 \in Nat /\ TicksPerSecond \in Nat
    BY FrontierAssumption
  <2>2. TicksPerSecond * (b - a - 1) \in Nat
    BY <2>1
  <2>3. TicksPerSecond * b = TicksPerSecond * (a + 1) + TicksPerSecond * (b - a - 1)
    BY <2>1
  <2> QED
    BY <2>1, <2>2, <2>3
<1>2. TicksPerSecond * (a + 1) = TicksPerSecond * a + TicksPerSecond
  BY FrontierAssumption
<1> QED
  BY <1>1, <1>2

\* A later tick does not lie in an earlier second.
LEMMA UnixMonotone ==
  ASSUME NEW s \in Nat, NEW t \in Nat, s <= t
  PROVE  Unix(s) <= Unix(t)
<1> SUFFICES ASSUME Unix(t) < Unix(s) PROVE FALSE
  BY UnixBounds
<1>1. TicksPerSecond * Unix(t) + TicksPerSecond <= TicksPerSecond * Unix(s)
  BY UnixBounds, ScaledOrder
<1>2. t < s
  BY <1>1, UnixBounds, FrontierAssumption
<1> QED
  BY <1>2

LEMMA LaterSecondIsLater ==
  ASSUME NEW s \in Nat, NEW t \in Nat, Unix(s) < Unix(t)
  PROVE  s < t
BY UnixMonotone, UnixBounds

\* A visit leased or returned for at least a tick is due in a later second.
LEMMA RoundedUp ==
  ASSUME NEW t \in Nat
  PROVE  /\ SecondsAtOrAfter(t) \in Nat
         /\ Unix(t) <= SecondsAtOrAfter(t)
         /\ \A s \in Nat : s < t => Unix(s) < SecondsAtOrAfter(t)
         /\ \A s \in Nat : SecondsAtOrAfter(t) <= Unix(s) => t <= s
<1> DEFINE r == t + TicksPerSecond - 1
<1>1. r \in Nat /\ t <= r
  BY FrontierAssumption
<1>2. SecondsAtOrAfter(t) = Unix(r)
  BY DEF SecondsAtOrAfter, Unix
<1>3. Unix(r) \in Nat /\ Unix(t) <= Unix(r)
  BY <1>1, UnixBounds, UnixMonotone
<1>4. ASSUME NEW s \in Nat, s < t
      PROVE  Unix(s) < Unix(r)
  <2> SUFFICES ASSUME Unix(r) <= Unix(s) PROVE FALSE
    BY <1>3, UnixBounds
  <2>1. Unix(s) <= Unix(r)
    BY <1>1, <1>4, UnixMonotone
  <2>2. Unix(r) = Unix(s)
    BY <1>3, <2>1, UnixBounds
  <2>3. /\ TicksPerSecond * Unix(s) <= s
        /\ r < TicksPerSecond * Unix(s) + TicksPerSecond
        /\ TicksPerSecond * Unix(s) \in Int
    BY <1>1, <2>2, UnixBounds, FrontierAssumption
  <2>4. r >= s + TicksPerSecond
    BY <1>4, FrontierAssumption
  <2> QED
    BY <2>3, <2>4, <1>1, FrontierAssumption
<1>5. ASSUME NEW s \in Nat, Unix(r) <= Unix(s)
      PROVE  t <= s
  BY <1>3, <1>4, <1>5, UnixBounds
<1> HIDE DEF r
<1> QED
  BY <1>2, <1>3, <1>4, <1>5

-----------------------------------------------------------------------------
(* Heads *)

Less == {ss \in Nat \X Nat : ss[1] < ss[2]}

LEMMA LeastOf ==
  ASSUME NEW S, S \subseteq Nat, S # {}
  PROVE  \E m \in S : \A n \in S : m <= n
<1>1. IsWellFoundedOn(Less, Nat)
  BY NatLessThanWellFounded DEF OpToRel, Less
<1>2. PICK m \in S : \A n \in S : ~(<<n, m>> \in Less)
  BY <1>1, WFMin, Zenon
<1>3. ASSUME NEW n \in S
      PROVE  m <= n
  <2>1. m \in Nat /\ n \in Nat /\ ~(<<n, m>> \in Less)
    BY <1>2
  <2>2. <<n, m>> \in Nat \X Nat
    BY <2>1
  <2>3. ~(n < m)
    <3> DEFINE ss == <<n, m>>
    <3>1. ~(ss[1] < ss[2])
      BY <2>1, <2>2 DEF Less
    <3> QED
      BY <3>1
  <2> QED
    BY <2>1, <2>3
<1> QED
  BY <1>3

DueOf == [UrlHashes -> Nat \cup {NotPending}]

Positions == (Nat \cup {NotPending}) \X Nat

LEMMA PositionsAreNumbers ==
  ASSUME NEW dues \in DueOf, NEW from \in Positions
  PROVE  PositionsFrom(dues, from) \subseteq Nat \X Nat
BY FrontierAssumption DEF PositionsFrom, PendingIn, DueOf, NotPending, Positions

\* The least due settles the order of positions, and then the least hash.
LEMMA EarliestPosition ==
  ASSUME NEW S, S \subseteq Nat \X Nat, S # {}
  PROVE  \E p \in S : \A q \in S : ~IsBefore(q, p)
<1> DEFINE Seconds == {p[1] : p \in S}
<1>1. Seconds \subseteq Nat /\ Seconds # {}
  OBVIOUS
<1>2. PICK m \in Seconds : \A n \in Seconds : m <= n
  BY <1>1, LeastOf, Zenon
<1> DEFINE Hashes == {p[2] : p \in {q \in S : q[1] = m}}
<1>3. Hashes \subseteq Nat /\ Hashes # {}
  BY <1>2
<1>4. PICK h \in Hashes : \A g \in Hashes : h <= g
  BY <1>3, LeastOf, Zenon
<1>5. PICK p \in S : p[1] = m /\ p[2] = h
  BY <1>4
<1>6. ASSUME NEW q \in S
      PROVE  ~IsBefore(q, p)
  <2>1. m <= q[1] /\ m \in Nat /\ q[1] \in Nat /\ q[2] \in Nat /\ h \in Nat
    BY <1>1, <1>2, <1>3, <1>4
  <2>2. q[1] = m => h <= q[2]
    BY <1>4
  <2> QED
    BY <1>5, <2>1, <2>2 DEF IsBefore
<1> QED
  BY <1>6

\* An aligned head is at or before every position it was aligned over.
LEMMA AlignedHeadIsEarliest ==
  ASSUME NEW dues \in DueOf, NEW from \in Positions
  PROVE  /\ AlignedHead(dues, from) \in (Nat \X Nat) \cup {NoHead}
         /\ \A p \in PositionsFrom(dues, from) :
              /\ AlignedHead(dues, from) # NoHead
              /\ ~IsBefore(p, AlignedHead(dues, from))
<1> DEFINE S == PositionsFrom(dues, from)
<1>1. S \subseteq Nat \X Nat
  BY PositionsAreNumbers
<1>2. CASE S = {}
  BY <1>2 DEF AlignedHead
<1>3. CASE S # {}
  <2> DEFINE h == CHOOSE p \in S : \A q \in S : ~IsBefore(q, p)
  <2>1. h \in S /\ \A q \in S : ~IsBefore(q, h)
    BY <1>1, <1>3, EarliestPosition, Zenon
  <2>2. AlignedHead(dues, from) = h
    BY <1>3 DEF AlignedHead
  <2>3. h \in Nat \X Nat /\ h # NoHead
    BY <1>1, <2>1 DEF NoHead
  <2> HIDE DEF h
  <2> QED
    BY <2>1, <2>2, <2>3
<1> QED
  BY <1>2, <1>3

LEMMA MovedHeadType ==
  ASSUME NEW h \in (Nat \X Nat) \cup {NoHead}, NEW s \in Nat
  PROVE  /\ MovedEarlierTo(h, <<s, ZeroHash>>) \in Nat \X Nat
         /\ MovedEarlierIfPresent(h, <<s, ZeroHash>>) \in (Nat \X Nat) \cup {NoHead}
BY DEF MovedEarlierTo, MovedEarlierIfPresent, ZeroHash

-----------------------------------------------------------------------------
(* Type correctness *)

LEMMA ReadTimesType ==
  ASSUME TypeOK
  PROVE  ReadTimes \subseteq Nat
BY DEF TypeOK, ReadTimes

LEMMA AddToQueueType ==
  ASSUME TypeOK, NEW c \in Crawls, NEW visits \in SUBSET UrlHashes, NEW t \in Nat,
         AddToQueueOf(c, visits, t)
  PROVE  /\ due' \in [Crawls -> DueOf]
         /\ head' \in [Crawls -> (Nat \X Nat) \cup {NoHead}]
<1>1. Unix(t) \in Nat
  BY UnixBounds
<1>2. due' \in [Crawls -> DueOf]
  BY <1>1 DEF AddToQueueOf, TypeOK, DueOf
<1>3. MovedEarlierTo(head[c], <<Unix(t), ZeroHash>>) \in Nat \X Nat
  BY <1>1, MovedHeadType DEF TypeOK
<1>4. head' \in [Crawls -> (Nat \X Nat) \cup {NoHead}]
  BY <1>3 DEF AddToQueueOf, TypeOK
<1> QED
  BY <1>2, <1>4

\* The dues of the queue a lease loop leases the chosen visits of.
LeasedDues(chosen) ==
  [u \in UrlHashes |->
     IF u \in chosen THEN SecondsAtOrAfter(looked.now + Lease) ELSE due[looked.crawl][u]]

LEMMA LookedType ==
  ASSUME TypeOK, looked # NoLook
  PROVE  looked.crawl \in Crawls /\ looked.now \in Nat
BY DEF TypeOK

LEMMA LeaseTime ==
  ASSUME TypeOK, looked # NoLook
  PROVE  /\ SecondsAtOrAfter(looked.now + Lease) \in Nat
         /\ Unix(looked.now) \in Nat
         /\ Unix(looked.now) < SecondsAtOrAfter(looked.now + Lease)
<1>1. looked.now \in Nat /\ looked.now + Lease \in Nat /\ looked.now < looked.now + Lease
  BY LookedType, FrontierAssumption
<1> QED
  BY <1>1, RoundedUp, UnixBounds

LEMMA LeasedDuesType ==
  ASSUME TypeOK, looked # NoLook, NEW chosen \in SUBSET UrlHashes
  PROVE  LeasedDues(chosen) \in DueOf
BY LookedType, LeaseTime DEF LeasedDues, DueOf, TypeOK

LEMMA Updated ==
  ASSUME NEW f \in [Crawls -> DueOf], NEW c \in Crawls, NEW u \in UrlHashes,
         NEW v \in Nat \cup {NotPending}
  PROVE  [f EXCEPT ![c][u] = v] \in [Crawls -> DueOf]
BY DEF DueOf

LEMMA TypeInit == Init => TypeOK
<1> SUFFICES ASSUME Init PROVE TypeOK
  OBVIOUS
<1>1. due \in [Crawls -> [UrlHashes -> Nat \cup {NotPending}]]
  BY DEF Init
<1>2. latest \in [Crawls -> [UrlHashes -> Nat \cup {NeverLeased}]]
  BY DEF Init
<1>3. paused \in BOOLEAN
  BY Zenon DEF Init
<1> QED
  BY <1>1, <1>2, <1>3 DEF Init, TypeOK

LEMMA TypeStep == TypeOK /\ [Next]_frontierVars => TypeOK'
<1> SUFFICES ASSUME TypeOK, [Next]_frontierVars PROVE TypeOK'
  OBVIOUS
<1> USE DEF TypeOK, processVars
<1>1. ASSUME NEW c \in Crawls, NEW visits \in SUBSET UrlHashes, NEW t \in ReadTimes,
             AddSeeds(c, visits, t)
      PROVE  TypeOK'
  <2>1. due' \in [Crawls -> DueOf] /\ head' \in [Crawls -> (Nat \X Nat) \cup {NoHead}]
    BY <1>1, AddToQueueType, ReadTimesType DEF AddSeeds
  <2> QED
    BY <1>1, <2>1 DEF AddSeeds, DueOf
<1>2. ASSUME NEW l \in held, NEW visits \in SUBSET UrlHashes, NEW t \in ReadTimes,
             AddNextOf(l, visits, t)
      PROVE  TypeOK'
  <2>1. l.crawl \in Crawls
    BY DEF LeaseRecords
  <2>2. due' \in [Crawls -> DueOf] /\ head' \in [Crawls -> (Nat \X Nat) \cup {NoHead}]
    BY <1>2, <2>1, AddToQueueType, ReadTimesType DEF AddNextOf
  <2> QED
    BY <1>2, <2>2 DEF AddNextOf, DueOf
<1>3. ASSUME NEW c \in Crawls, PauseQueueOf(c)
      PROVE  TypeOK'
  BY <1>3 DEF PauseQueueOf, Interrupt
<1>4. ASSUME NEW c \in Crawls, ResumeQueueOf(c)
      PROVE  TypeOK'
  <2>1. AlignedHead(due[c], <<NotPending, ZeroHash>>) \in (Nat \X Nat) \cup {NoHead}
    BY AlignedHeadIsEarliest DEF DueOf, Positions, ZeroHash
  <2> QED
    BY <1>4, <2>1 DEF ResumeQueueOf
<1>5. ASSUME NEW c \in Crawls, DrainQueueOf(c)
      PROVE  TypeOK'
  BY <1>5 DEF DrainQueueOf
<1>6. ASSUME NEW c \in Crawls, ForgetQueueOf(c)
      PROVE  TypeOK'
  BY <1>6 DEF ForgetQueueOf
<1>7. ASSUME NEW on \in BOOLEAN, SetPause(on),
             UNCHANGED interruptions \/ interruptions' = interruptions + 1
      PROVE  TypeOK'
  <2>1. paused' \in BOOLEAN
    BY <1>7, Zenon DEF SetPause
  <2> QED
    BY <1>7, <2>1 DEF SetPause
<1>8. ASSUME FirstHeadDue
      PROVE  TypeOK'
  <2>1. \E c \in Crawls : looked' = [crawl |-> c, now |-> clock]
    BY <1>8 DEF FirstHeadDue, HeadsDueBy
  <2>2. looked' \in [crawl : Crawls, now : Nat]
    BY <2>1
  <2> QED
    BY <1>8, <2>2 DEF FirstHeadDue
<1>9. ASSUME LeaseDueVisitsOf
      PROVE  TypeOK'
  <2> DEFINE c == looked.crawl
  <2>1. CASE UNCHANGED <<due, head, held, latest>>
    BY <1>9, <2>1 DEF LeaseDueVisitsOf
  <2>2. ASSUME NEW chosen \in SUBSET DueVisitsOf(c, looked.now), LeaseVisits(chosen),
               head[c] # NoHead
        PROVE  TypeOK'
    <3>1. c \in Crawls /\ looked.now \in Nat
      BY <1>9, LookedType DEF LeaseDueVisitsOf
    <3>2. chosen \subseteq UrlHashes
      BY <2>2 DEF DueVisitsOf, Pending, PendingIn
    <3>3. LeasedDues(chosen) \in DueOf /\ SecondsAtOrAfter(looked.now + Lease) \in Nat
      BY <1>9, <3>2, LeasedDuesType, LeaseTime DEF LeaseDueVisitsOf
    <3>4. due' \in [Crawls -> DueOf]
      BY <2>2, <3>1, <3>3 DEF LeaseVisits, LeasedDues, DueOf
    <3>5. AlignedHead(LeasedDues(chosen), head[c]) \in (Nat \X Nat) \cup {NoHead}
      BY <2>2, <3>1, <3>3, AlignedHeadIsEarliest DEF Positions
    <3>6. head' \in [Crawls -> (Nat \X Nat) \cup {NoHead}]
      BY <2>2, <3>1, <3>5 DEF LeaseVisits, LeasedDues
    <3>7. held' \in SUBSET LeaseRecords
      BY <2>2, <3>1, <3>2, <3>3 DEF LeaseVisits, LeaseOf, LeaseRecords
    <3>8. latest' \in [Crawls -> [UrlHashes -> Nat \cup {NeverLeased}]]
      BY <2>2, <3>1 DEF LeaseVisits
    <3> QED
      BY <1>9, <3>4, <3>6, <3>7, <3>8 DEF LeaseDueVisitsOf, DueOf
  <2> QED
    BY <1>9, <2>1, <2>2 DEF LeaseDueVisitsOf
<1>10. ASSUME NEW l \in held, End(l)
       PROVE  TypeOK'
  <2>1. l.crawl \in Crawls /\ l.url \in UrlHashes
    BY DEF LeaseRecords
  <2>2. due' = due \/ due' = [due EXCEPT ![l.crawl][l.url] = NotPending]
    BY <1>10 DEF End
  <2>3. due' \in [Crawls -> [UrlHashes -> Nat \cup {NotPending}]]
    <3>1. due \in [Crawls -> DueOf]
      BY DEF DueOf
    <3>2. [due EXCEPT ![l.crawl][l.url] = NotPending] \in [Crawls -> DueOf]
      BY <2>1, <3>1, Updated
    <3> QED
      BY <2>2, <3>2 DEF DueOf
  <2>4. ended' = ended \/ ended' = [ended EXCEPT ![l.crawl] = @ \cup {l.url}]
    BY <1>10 DEF End
  <2>5. ended' \in [Crawls -> SUBSET UrlHashes]
    BY <2>1, <2>4
  <2>6. held' \in SUBSET LeaseRecords
    BY <1>10 DEF End
  <2>7. UNCHANGED <<head, queueState, paused, clock, looked, picked, seeded, latest,
                    interruptions>>
    BY <1>10 DEF End
  <2> QED
    BY <2>3, <2>5, <2>6, <2>7
<1>11. ASSUME NEW l \in held, NEW delay \in Delays, NEW t \in ReadTimes,
              ReturnAfter(l, delay, t)
       PROVE  TypeOK'
  <2>1. l.crawl \in Crawls /\ l.url \in UrlHashes
    BY DEF LeaseRecords
  <2>2. t + delay \in Nat
    BY ReadTimesType, FrontierAssumption
  <2>3. SecondsAtOrAfter(t + delay) \in Nat
    BY <2>2, RoundedUp
  <2>4. MovedEarlierIfPresent(head[l.crawl], <<SecondsAtOrAfter(t + delay), ZeroHash>>)
          \in (Nat \X Nat) \cup {NoHead}
    BY <2>1, <2>3, MovedHeadType
  <2>5. \/ UNCHANGED <<due, head>>
        \/ /\ due' = [due EXCEPT ![l.crawl][l.url] = SecondsAtOrAfter(t + delay)]
           /\ head' = [head EXCEPT ![l.crawl] =
                MovedEarlierIfPresent(@, <<SecondsAtOrAfter(t + delay), ZeroHash>>)]
    BY <1>11 DEF ReturnAfter
  <2>6. due' \in [Crawls -> [UrlHashes -> Nat \cup {NotPending}]]
    <3>1. due \in [Crawls -> DueOf]
      BY DEF DueOf
    <3>2. [due EXCEPT ![l.crawl][l.url] = SecondsAtOrAfter(t + delay)] \in [Crawls -> DueOf]
      BY <2>1, <2>3, <3>1, Updated
    <3> QED
      BY <2>5, <3>2 DEF DueOf
  <2>7. head' \in [Crawls -> (Nat \X Nat) \cup {NoHead}]
    BY <2>1, <2>4, <2>5
  <2>8. held' \in SUBSET LeaseRecords
    BY <1>11 DEF ReturnAfter
  <2>9. UNCHANGED <<ended, queueState, paused, clock, looked, picked, seeded, latest,
                    interruptions>>
    BY <1>11 DEF ReturnAfter
  <2> QED
    BY <2>6, <2>7, <2>8, <2>9
<1>12. ASSUME NEW l \in held, LoseLease(l)
       PROVE  TypeOK'
  BY <1>12 DEF LoseLease
<1>13. ASSUME PickDrainingQueue
       PROVE  TypeOK'
  BY <1>13 DEF PickDrainingQueue, DrainingQueues
<1>14. ASSUME NEW start \in UrlHashes \cup {ZeroHash}, DrainBatchOf(start)
       PROVE  TypeOK'
  BY <1>14 DEF DrainBatchOf
<1>15. ASSUME Restart
       PROVE  TypeOK'
  BY <1>15 DEF Restart, Interrupt
<1>16. ASSUME Tick
       PROVE  TypeOK'
  BY <1>16 DEF Tick
<1>17. CASE UNCHANGED frontierVars
  BY <1>17 DEF frontierVars
<1> QED
  BY <1>1, <1>2, <1>3, <1>4, <1>5, <1>6, <1>7, <1>8, <1>9, <1>10, <1>11, <1>12, <1>13,
     <1>14, <1>15, <1>16, <1>17
     DEF Next, Requests, Visits, Drains, Pause, Resume, Interrupt

\* Every variable of the frontier keeps its type: a due second is never negative,
\* a lease runs until a second there is, a head is a position or absent.
THEOREM TypeCorrect == Spec => []TypeOK
BY TypeInit, TypeStep, PTL DEF Spec

-----------------------------------------------------------------------------
(* Heads cover what is pending *)

Covers(state, dues, h) ==
  IF state = "open"
  THEN \A u \in PendingIn(dues) : h # NoHead /\ ~IsBefore(<<dues[u], u>>, h)
  ELSE h = NoHead

Heads == (Nat \X Nat) \cup {NoHead}

LEMMA CoversPerQueue ==
  HeadsCoverPending <=> \A c \in Crawls : Covers(queueState[c], due[c], head[c])
BY DEF HeadsCoverPending, Covers, Pending

\* A queue keeps its head covering when nothing of it changes.
LEMMA UnchangedCovers ==
  ASSUME HeadsCoverPending, UNCHANGED <<due, head, queueState>>
  PROVE  HeadsCoverPending'
BY DEF HeadsCoverPending, Pending, PendingIn

LEMMA PendingType ==
  ASSUME NEW dues \in DueOf, NEW u \in PendingIn(dues)
  PROVE  u \in UrlHashes /\ u \in Nat /\ dues[u] \in Nat
BY FrontierAssumption DEF PendingIn, DueOf

\* A head moved earlier covers what it covered and all that is due from then on.
LEMMA EarlierCovers ==
  ASSUME NEW dues \in DueOf, NEW dues2 \in DueOf, NEW s \in Nat, NEW h \in Heads,
         Covers("open", dues, h),
         \A u \in PendingIn(dues2) : dues2[u] = s \/ (u \in PendingIn(dues) /\ dues2[u] = dues[u])
  PROVE  Covers("open", dues2, MovedEarlierTo(h, <<s, ZeroHash>>))
<1> DEFINE g == MovedEarlierTo(h, <<s, ZeroHash>>)
<1>1. g \in Nat \X Nat
  BY MovedHeadType DEF Heads
<1>2. g # NoHead
  BY <1>1 DEF NoHead
<1>3. ASSUME NEW u \in PendingIn(dues2)
      PROVE  ~IsBefore(<<dues2[u], u>>, g)
  <2>1. u \in Nat /\ dues2[u] \in Nat
    BY PendingType
  <2>2. CASE dues2[u] = s
    BY <2>1, <2>2 DEF MovedEarlierTo, IsBefore, ZeroHash, Heads
  <2>3. CASE u \in PendingIn(dues) /\ dues2[u] = dues[u]
    <3>1. h # NoHead /\ ~IsBefore(<<dues[u], u>>, h)
      BY <2>3 DEF Covers
    <3>2. h \in Nat \X Nat
      BY <3>1 DEF Heads
    <3>3. h[1] \in Nat /\ h[2] \in Nat
      BY <3>2
    <3> QED
      BY <2>1, <2>3, <3>1, <3>3 DEF MovedEarlierTo, IsBefore, ZeroHash
  <2> QED
    BY <2>2, <2>3
<1>4. \A u \in PendingIn(dues2) : g # NoHead /\ ~IsBefore(<<dues2[u], u>>, g)
  BY <1>2, <1>3
<1> QED
  BY <1>4, Zenon DEF Covers

LEMMA AddToQueueCovers ==
  ASSUME TypeOK, HeadsCoverPending, NEW c \in Crawls, NEW visits \in SUBSET UrlHashes,
         NEW t \in Nat, AddToQueueOf(c, visits, t), UNCHANGED queueState
  PROVE  HeadsCoverPending'
<1> SUFFICES ASSUME NEW d \in Crawls
             PROVE  Covers(queueState[d], due'[d], head'[d])
  BY DEF HeadsCoverPending, Covers, Pending
<1> DEFINE added == IF TakesPageVisits(queueState[c]) THEN AddableTo(c, visits) ELSE {}
<1>1. Covers(queueState[d], due[d], head[d])
  BY CoversPerQueue
<1>2. CASE d # c
  <2>1. due'[d] = due[d] /\ head'[d] = head[d]
    BY <1>2 DEF AddToQueueOf, TypeOK
  <2> QED
    BY <1>1, <2>1
<1>3. CASE d = c /\ added = {}
  <2>1. head'[d] = head[d]
    BY <1>3 DEF AddToQueueOf
  <2>2. due'[d] = [u \in UrlHashes |-> due[d][u]]
    BY <1>3 DEF AddToQueueOf, TypeOK
  <2>3. due'[d] = due[d]
    BY <2>2 DEF TypeOK
  <2> QED
    BY <1>1, <2>1, <2>3
<1>4. CASE d = c /\ added # {} /\ queueState[c] = "paused"
  <2>1. head'[d] = head[d]
    BY <1>4 DEF AddToQueueOf
  <2> QED
    BY <1>1, <1>4, <2>1 DEF Covers
<1>5. CASE d = c /\ added # {} /\ queueState[c] # "paused"
  <2>1. queueState[c] = "open"
    BY <1>5 DEF TakesPageVisits, TypeOK
  <2>2. head'[c] = MovedEarlierTo(head[c], <<Unix(t), ZeroHash>>)
    BY <1>5 DEF AddToQueueOf, TypeOK
  <2>3. due'[c] = [u \in UrlHashes |-> IF u \in added THEN Unix(t) ELSE due[c][u]]
    BY DEF AddToQueueOf, TypeOK
  <2>4. Unix(t) \in Nat /\ due[c] \in DueOf /\ head[c] \in Heads
    BY UnixBounds DEF TypeOK, DueOf, Heads
  <2> HIDE DEF added
  <2>5. due'[c] \in DueOf
    BY <2>3, <2>4 DEF DueOf
  <2>6. \A u \in PendingIn(due'[c]) :
          due'[c][u] = Unix(t) \/ (u \in PendingIn(due[c]) /\ due'[c][u] = due[c][u])
    BY <2>3 DEF PendingIn
  <2> QED
    BY <1>1, <1>5, <2>1, <2>2, <2>4, <2>5, <2>6, EarlierCovers
<1> QED
  BY <1>2, <1>3, <1>4, <1>5

\* Leasing moves the chosen visits no earlier, and the head to the first of all.
LEMMA LeaseCovers ==
  ASSUME TypeOK, HeadsCoverPending, looked # NoLook, head[looked.crawl] # NoHead,
         NEW chosen \in SUBSET DueVisitsOf(looked.crawl, looked.now),
         LeaseVisits(chosen), UNCHANGED queueState
  PROVE  HeadsCoverPending'
<1> DEFINE c == looked.crawl
           dues == LeasedDues(chosen)
<1>1. c \in Crawls /\ chosen \subseteq UrlHashes
  BY LookedType DEF DueVisitsOf, Pending, PendingIn
<1>2. dues \in DueOf /\ due[c] \in DueOf /\ head[c] \in Nat \X Nat
  BY <1>1, LeasedDuesType DEF TypeOK, DueOf
<1>3. due' = [due EXCEPT ![c] = dues] /\ head' = [head EXCEPT ![c] = AlignedHead(dues, head[c])]
  BY DEF LeaseVisits, LeasedDues
<1>4. Covers(queueState[c], due[c], head[c]) /\ queueState[c] = "open"
  BY <1>1, CoversPerQueue DEF Covers
<1>5. ASSUME NEW u \in PendingIn(dues)
      PROVE  <<dues[u], u>> \in PositionsFrom(dues, head[c])
  <2>1. u \in PendingIn(due[c]) /\ due[c][u] <= dues[u]
    <3>1. CASE u \in chosen
      <4>1. u \in PendingIn(due[c]) /\ due[c][u] <= Unix(looked.now)
        BY <3>1 DEF DueVisitsOf, Pending
      <4>2. dues[u] = SecondsAtOrAfter(looked.now + Lease)
        BY <1>1, <3>1 DEF LeasedDues
      <4>3. due[c][u] \in Nat
        BY <1>2, <4>1, PendingType
      <4> QED
        BY <4>1, <4>2, <4>3, LeaseTime
    <3>2. CASE u \notin chosen
      <4>1. u \in UrlHashes /\ dues[u] \in Nat
        BY <1>2, PendingType
      <4>2. dues[u] = due[c][u]
        BY <3>2, <4>1 DEF LeasedDues
      <4> QED
        BY <4>1, <4>2 DEF PendingIn, NotPending
    <3> QED
      BY <3>1, <3>2
  <2>2. ~IsBefore(<<due[c][u], u>>, head[c])
    BY <1>4, <2>1 DEF Covers
  <2>3. u \in Nat /\ dues[u] \in Nat /\ due[c][u] \in Nat /\ head[c][1] \in Nat /\ head[c][2] \in Nat
    BY <1>2, <2>1, PendingType
  <2>4. ~IsBefore(<<dues[u], u>>, head[c])
    BY <2>1, <2>2, <2>3 DEF IsBefore
  <2> QED
    BY <2>4 DEF PositionsFrom
<1>6. Covers("open", dues, AlignedHead(dues, head[c]))
  BY <1>2, <1>5, AlignedHeadIsEarliest DEF Covers, Positions
<1> HIDE DEF dues
<1>7. ASSUME NEW d \in Crawls
      PROVE  Covers(queueState'[d], due'[d], head'[d])
  <2>1. CASE d = c
    BY <1>3, <1>4, <1>6, <2>1 DEF TypeOK
  <2>2. CASE d # c
    BY <1>3, <2>2, CoversPerQueue DEF TypeOK
  <2> QED
    BY <2>1, <2>2
<1> QED
  BY <1>7 DEF HeadsCoverPending, Covers, Pending

\* A visit made not pending leaves every other as it was.
LEMMA NotPendingUpdate ==
  ASSUME TypeOK, NEW d \in Crawls, NEW v \in UrlHashes,
         due' = due \/ due' = [due EXCEPT ![d][v] = NotPending]
  PROVE  \A c \in Crawls, u \in UrlHashes :
           \/ due'[c][u] = due[c][u]
           \/ c = d /\ u = v /\ due'[c][u] = NotPending
<1>1. CASE due' = due
  BY <1>1
<1>2. CASE due' = [due EXCEPT ![d][v] = NotPending]
  <2>1. \A c \in Crawls : due[c] \in [UrlHashes -> Nat \cup {NotPending}]
    BY DEF TypeOK
  <2>2. \A c \in Crawls : c # d => due'[c] = due[c]
    BY <1>2 DEF TypeOK
  <2>3. due'[d] = [due[d] EXCEPT ![v] = NotPending]
    BY <1>2 DEF TypeOK
  <2> QED
    BY <2>1, <2>2, <2>3
<1> QED
  BY <1>1, <1>2

LEMMA HeadsStep ==
  TypeOK /\ TypeOK' /\ HeadsCoverPending /\ [Next]_frontierVars => HeadsCoverPending'
<1> SUFFICES ASSUME TypeOK, TypeOK', HeadsCoverPending, [Next]_frontierVars
             PROVE  HeadsCoverPending'
  OBVIOUS
<1> USE DEF processVars
<1>1. ASSUME NEW c \in Crawls, NEW visits \in SUBSET UrlHashes, NEW t \in ReadTimes,
             AddSeeds(c, visits, t)
      PROVE  HeadsCoverPending'
  BY <1>1, AddToQueueCovers, ReadTimesType DEF AddSeeds
<1>2. ASSUME NEW l \in held, NEW visits \in SUBSET UrlHashes, NEW t \in ReadTimes,
             AddNextOf(l, visits, t)
      PROVE  HeadsCoverPending'
  <2>1. l.crawl \in Crawls
    BY DEF TypeOK, LeaseRecords
  <2> QED
    BY <1>2, <2>1, AddToQueueCovers, ReadTimesType DEF AddNextOf
<1>3. ASSUME NEW c \in Crawls, PauseQueueOf(c)
      PROVE  HeadsCoverPending'
  BY <1>3 DEF PauseQueueOf, TypeOK, HeadsCoverPending, Pending, PendingIn
<1>4. ASSUME NEW c \in Crawls, ResumeQueueOf(c)
      PROVE  HeadsCoverPending'
  <2> DEFINE first == <<NotPending, ZeroHash>>
  <2>1. due[c] \in DueOf /\ first \in Positions
    BY DEF TypeOK, DueOf, Positions, ZeroHash
  <2>2. ASSUME NEW u \in PendingIn(due[c])
        PROVE  <<due[c][u], u>> \in PositionsFrom(due[c], first)
    <3>1. u \in Nat /\ due[c][u] \in Nat
      BY <2>1, PendingType
    <3> QED
      BY <3>1 DEF PositionsFrom, IsBefore, NotPending, ZeroHash
  <2>3. Covers("open", due[c], AlignedHead(due[c], first))
    BY <2>1, <2>2, AlignedHeadIsEarliest DEF Covers
  <2>4. ASSUME NEW d \in Crawls
        PROVE  Covers(queueState'[d], due'[d], head'[d])
    <3>1. CASE d = c
      BY <1>4, <2>3, <3>1 DEF ResumeQueueOf, TypeOK
    <3>2. CASE d # c
      <4>1. queueState'[d] = queueState[d] /\ due'[d] = due[d] /\ head'[d] = head[d]
        BY <1>4, <3>2 DEF ResumeQueueOf, TypeOK
      <4> QED
        BY <4>1, CoversPerQueue
    <3> QED
      BY <3>1, <3>2
  <2> QED
    BY <2>4 DEF HeadsCoverPending, Covers, Pending
<1>5. ASSUME NEW c \in Crawls, DrainQueueOf(c)
      PROVE  HeadsCoverPending'
  BY <1>5 DEF DrainQueueOf, TypeOK, HeadsCoverPending, Pending, PendingIn
<1>6. ASSUME NEW c \in Crawls, ForgetQueueOf(c)
      PROVE  HeadsCoverPending'
  BY <1>6 DEF ForgetQueueOf, TypeOK, HeadsCoverPending, Pending, PendingIn
<1>7. ASSUME LeaseDueVisitsOf
      PROVE  HeadsCoverPending'
  <2>1. looked # NoLook /\ UNCHANGED queueState
    BY <1>7 DEF LeaseDueVisitsOf
  <2>2. CASE UNCHANGED <<due, head, held, latest>>
    BY <2>1, <2>2, UnchangedCovers
  <2>3. ASSUME NEW chosen \in SUBSET DueVisitsOf(looked.crawl, looked.now),
               LeaseVisits(chosen), head[looked.crawl] # NoHead
        PROVE  HeadsCoverPending'
    BY <2>1, <2>3, LeaseCovers
  <2> QED
    BY <1>7, <2>2, <2>3 DEF LeaseDueVisitsOf
<1>8. ASSUME NEW l \in held, End(l)
      PROVE  HeadsCoverPending'
  <2>1. l.crawl \in Crawls /\ l.url \in UrlHashes
    BY DEF TypeOK, LeaseRecords
  <2>2. due' = due \/ due' = [due EXCEPT ![l.crawl][l.url] = NotPending]
    BY <1>8 DEF End
  <2>3. UNCHANGED <<head, queueState>>
    BY <1>8 DEF End
  <2>4. \A c \in Crawls : \A u \in PendingIn(due'[c]) :
          u \in PendingIn(due[c]) /\ due'[c][u] = due[c][u]
    BY <2>1, <2>2, NotPendingUpdate DEF PendingIn
  <2> QED
    BY <2>3, <2>4 DEF HeadsCoverPending, Pending
<1>9. ASSUME NEW l \in held, NEW delay \in Delays, NEW t \in ReadTimes,
             ReturnAfter(l, delay, t)
      PROVE  HeadsCoverPending'
  <2> DEFINE c == l.crawl
             dueAgain == SecondsAtOrAfter(t + delay)
  <2>1. l.crawl \in Crawls /\ l.url \in UrlHashes /\ l.until \in Nat
    BY DEF TypeOK, LeaseRecords
  <2>2. dueAgain \in Nat
    <3>1. t + delay \in Nat
      BY ReadTimesType, FrontierAssumption
    <3> QED
      BY <3>1, RoundedUp
  <2>3. CASE ~IsLeased(l)
    <3>1. UNCHANGED <<due, head, queueState>>
      BY <1>9, <2>3 DEF ReturnAfter
    <3> QED
      BY <3>1, UnchangedCovers
  <2>4. CASE IsLeased(l)
    <3>1. /\ due' = [due EXCEPT ![c][l.url] = dueAgain]
          /\ head' = [head EXCEPT ![c] = MovedEarlierIfPresent(@, <<dueAgain, ZeroHash>>)]
          /\ UNCHANGED queueState
      BY <1>9, <2>4 DEF ReturnAfter
    <3>2. l.url \in PendingIn(due[c])
      BY <2>1, <2>4 DEF IsLeased, PendingIn, NotPending
    <3> HIDE DEF dueAgain
    <3>3. ASSUME NEW d \in Crawls, d # c
          PROVE  Covers(queueState'[d], due'[d], head'[d])
      <4>1. queueState'[d] = queueState[d] /\ due'[d] = due[d] /\ head'[d] = head[d]
        BY <3>1, <3>3 DEF TypeOK
      <4> QED
        BY <4>1, CoversPerQueue
    <3>4. Covers(queueState'[c], due'[c], head'[c])
      <4>1. head'[c] = MovedEarlierIfPresent(head[c], <<dueAgain, ZeroHash>>)
        BY <2>1, <3>1 DEF TypeOK
      <4>2. Covers(queueState[c], due[c], head[c])
        BY <2>1, CoversPerQueue
      <4>3. CASE queueState[c] # "open"
        BY <3>1, <4>1, <4>2, <4>3 DEF Covers, MovedEarlierIfPresent
      <4>4. CASE queueState[c] = "open"
        <5>1. head[c] # NoHead
          BY <3>2, <4>2, <4>4 DEF Covers
        <5>2. head'[c] = MovedEarlierTo(head[c], <<dueAgain, ZeroHash>>)
          BY <4>1, <5>1 DEF MovedEarlierIfPresent, MovedEarlierTo
        <5>3. due[c] \in DueOf /\ due'[c] \in DueOf /\ head[c] \in Heads
          BY <2>1 DEF TypeOK, DueOf, Heads
        <5>4. \A u \in PendingIn(due'[c]) :
                due'[c][u] = dueAgain \/ (u \in PendingIn(due[c]) /\ due'[c][u] = due[c][u])
          BY <2>1, <3>1 DEF TypeOK, PendingIn
        <5> QED
          BY <2>2, <3>1, <4>2, <4>4, <5>2, <5>3, <5>4, EarlierCovers
      <4> QED
        BY <4>3, <4>4
    <3> QED
      BY <3>3, <3>4 DEF HeadsCoverPending, Covers, Pending
  <2> QED
    BY <2>3, <2>4
<1>10. ASSUME NEW start \in UrlHashes \cup {ZeroHash}, DrainBatchOf(start)
       PROVE  HeadsCoverPending'
  <2>1. PICK drained \in SUBSET Pending(picked) :
          /\ drained = Pending(picked) \/ Cardinality(drained) = DrainedAtOnce
          /\ due' = [due EXCEPT ![picked] =
                       [u \in UrlHashes |-> IF u \in drained THEN NotPending ELSE @[u]]]
          /\ queueState' = IF MayHoldMore(Cardinality(drained)) THEN queueState
                           ELSE [queueState EXCEPT ![picked] = "open"]
    BY <1>10 DEF DrainBatchOf
  <2>2. picked \in Crawls /\ head' = head
    BY <1>10 DEF DrainBatchOf, TypeOK
  <2>3. \A c \in Crawls : \A u \in PendingIn(due'[c]) :
          u \in PendingIn(due[c]) /\ due'[c][u] = due[c][u]
    BY <2>1, <2>2 DEF TypeOK, PendingIn
  <2>4. \A c \in Crawls : queueState'[c] = queueState[c] \/ PendingIn(due'[c]) = {}
    BY <2>1, <2>2 DEF TypeOK, MayHoldMore, Pending, PendingIn
  <2>5. \A c \in Crawls : queueState'[c] # "open" => queueState[c] # "open"
    BY <2>1, <2>2 DEF TypeOK
  <2> QED
    BY <2>2, <2>3, <2>4, <2>5 DEF HeadsCoverPending, Pending
<1>11. ASSUME UNCHANGED <<due, head, queueState>>
       PROVE  HeadsCoverPending'
  BY <1>11, UnchangedCovers
<1>12. CASE Pause \/ Resume \/ FirstHeadDue \/ PickDrainingQueue \/ Restart \/ Tick
  BY <1>11, <1>12 DEF Pause, Resume, SetPause, FirstHeadDue, PickDrainingQueue, Restart, Tick
<1>13. ASSUME NEW l \in held, LoseLease(l)
       PROVE  HeadsCoverPending'
  BY <1>11, <1>13 DEF LoseLease
<1>14. CASE UNCHANGED frontierVars
  BY <1>11, <1>14 DEF frontierVars
<1> QED
  BY <1>1, <1>2, <1>3, <1>4, <1>5, <1>6, <1>7, <1>8, <1>9, <1>10, <1>12, <1>13, <1>14
     DEF Next, Requests, Visits, Drains, TypeOK

\* No pending visit of an open queue is stranded behind the head that leasing
\* starts from, and a paused or draining queue has no head to lease from.
THEOREM HeadsCorrect == Spec => []HeadsCoverPending
<1>1. Init => HeadsCoverPending
  BY DEF Init, HeadsCoverPending, Pending, PendingIn
<1> QED
  BY <1>1, TypeInit, TypeStep, HeadsStep, PTL DEF Spec

-----------------------------------------------------------------------------
(* What each operation changes of the pending visits *)

SameVisit(c, u) == due'[c][u] = due[c][u]

LEMMA WhatAddingChanges ==
  ASSUME TypeOK, NEW c \in Crawls, NEW visits \in SUBSET UrlHashes, NEW t \in Nat,
         AddToQueueOf(c, visits, t)
  PROVE  \A d \in Crawls, u \in UrlHashes :
           \/ SameVisit(d, u)
           \/ /\ d = c /\ TakesPageVisits(queueState[c])
              /\ u \notin Pending(c) /\ u \notin ended[c]
BY DEF AddToQueueOf, AddableTo, TypeOK, SameVisit

LEMMA WhatLeasingChanges ==
  ASSUME TypeOK, looked # NoLook,
         NEW chosen \in SUBSET DueVisitsOf(looked.crawl, looked.now), LeaseVisits(chosen)
  PROVE  /\ \A d \in Crawls, u \in UrlHashes :
              \/ SameVisit(d, u) /\ latest'[d][u] = latest[d][u] /\ (d = looked.crawl => u \notin chosen)
              \/ /\ d = looked.crawl /\ u \in chosen
                 /\ u \in Pending(d) /\ due[d][u] <= Unix(looked.now)
                 /\ due'[d][u] = SecondsAtOrAfter(looked.now + Lease)
                 /\ latest'[d][u] = looked.now
         /\ held' = held \cup {LeaseOf(looked.crawl, u, looked.now) : u \in chosen}
<1> DEFINE c == looked.crawl
<1>1. c \in Crawls
  BY LookedType
<1>2. due' = [due EXCEPT ![c] = LeasedDues(chosen)]
  BY DEF LeaseVisits, LeasedDues
<1>3. \A d \in Crawls : d # c => due'[d] = due[d] /\ latest'[d] = latest[d]
  BY <1>2 DEF LeaseVisits, TypeOK
<1>4. due'[c] = LeasedDues(chosen)
  BY <1>1, <1>2 DEF TypeOK
<1>5. latest'[c] = [u \in UrlHashes |-> IF u \in chosen THEN looked.now ELSE latest[c][u]]
  BY <1>1 DEF LeaseVisits, TypeOK
<1>6. \A u \in chosen : u \in Pending(c) /\ due[c][u] <= Unix(looked.now)
  BY DEF DueVisitsOf
<1>7. held' = held \cup {LeaseOf(c, u, looked.now) : u \in chosen}
  BY DEF LeaseVisits
<1> QED
  BY <1>3, <1>4, <1>5, <1>6, <1>7 DEF LeasedDues, SameVisit

LEMMA WhatReturningChanges ==
  ASSUME TypeOK, NEW l \in held, NEW delay, NEW t, ReturnAfter(l, delay, t)
  PROVE  \A d \in Crawls, u \in UrlHashes :
           \/ SameVisit(d, u)
           \/ /\ d = l.crawl /\ u = l.url /\ IsLeased(l) /\ u \in Pending(d)
              /\ due'[d][u] = SecondsAtOrAfter(t + delay)
<1>1. l.crawl \in Crawls /\ l.url \in UrlHashes /\ l.until \in Nat
  BY DEF TypeOK, LeaseRecords
<1>2. CASE ~IsLeased(l)
  BY <1>2 DEF ReturnAfter, SameVisit
<1>3. CASE IsLeased(l)
  <2> DEFINE again == SecondsAtOrAfter(t + delay)
  <2>1. due' = [due EXCEPT ![l.crawl][l.url] = again]
    BY <1>3 DEF ReturnAfter
  <2>2. l.url \in Pending(l.crawl)
    BY <1>1, <1>3 DEF IsLeased, Pending, PendingIn, NotPending
  <2>3. \A d \in Crawls : d # l.crawl => due'[d] = due[d]
    BY <2>1 DEF TypeOK
  <2> HIDE DEF again
  <2>4. due'[l.crawl] = [due[l.crawl] EXCEPT ![l.url] = again]
    BY <1>1, <2>1 DEF TypeOK
  <2>5. due[l.crawl] \in [UrlHashes -> Nat \cup {NotPending}]
    BY <1>1 DEF TypeOK
  <2>6. \A u \in UrlHashes : due'[l.crawl][u] = IF u = l.url THEN again ELSE due[l.crawl][u]
    BY <2>4, <2>5
  <2> QED
    BY <1>3, <2>2, <2>3, <2>6 DEF SameVisit, again
<1> QED
  BY <1>2, <1>3

LEMMA WhatEndingChanges ==
  ASSUME TypeOK, NEW l \in held, End(l)
  PROVE  \A d \in Crawls, u \in UrlHashes :
           \/ SameVisit(d, u) /\ (u \in ended'[d] <=> u \in ended[d])
           \/ /\ d = l.crawl /\ u = l.url /\ IsLeased(l)
              /\ due'[d][u] = NotPending /\ u \in ended'[d]
<1>1. l.crawl \in Crawls /\ l.url \in UrlHashes
  BY DEF TypeOK, LeaseRecords
<1>2. CASE ~IsLeased(l)
  BY <1>2 DEF End, SameVisit
<1>3. CASE IsLeased(l)
  <2>1. /\ due' = [due EXCEPT ![l.crawl][l.url] = NotPending]
        /\ ended' = [ended EXCEPT ![l.crawl] = @ \cup {l.url}]
    BY <1>3 DEF End
  <2>2. \A c \in Crawls, u \in UrlHashes :
          due'[c][u] = due[c][u] \/ (c = l.crawl /\ u = l.url /\ due'[c][u] = NotPending)
    BY <1>1, <2>1, NotPendingUpdate
  <2>3. due'[l.crawl] = [due[l.crawl] EXCEPT ![l.url] = NotPending]
    BY <1>1, <2>1 DEF TypeOK
  <2>4. due'[l.crawl][l.url] = NotPending
    BY <1>1, <2>3 DEF TypeOK
  <2>5. ended'[l.crawl] = ended[l.crawl] \cup {l.url}
    BY <1>1, <2>1 DEF TypeOK
  <2>6. \A c \in Crawls : c # l.crawl => ended'[c] = ended[c]
    BY <1>1, <2>1 DEF TypeOK
  <2>7. ASSUME NEW d \in Crawls, NEW u \in UrlHashes, ~(d = l.crawl /\ u = l.url)
        PROVE  SameVisit(d, u) /\ (u \in ended'[d] <=> u \in ended[d])
    BY <2>2, <2>5, <2>6, <2>7 DEF SameVisit
  <2> QED
    BY <1>3, <2>4, <2>5, <2>7
<1> QED
  BY <1>2, <1>3

LEMMA WhatDrainingChanges ==
  ASSUME TypeOK, NEW start, DrainBatchOf(start)
  PROVE  /\ \A d \in Crawls, u \in UrlHashes :
              SameVisit(d, u) \/ (d = picked /\ due'[d][u] = NotPending)
         /\ \A d \in Crawls :
              \/ queueState'[d] = queueState[d]
              \/ d = picked /\ queueState'[d] = "open" /\ Pending(d)' = {}
<1>1. PICK drained \in SUBSET Pending(picked) :
        /\ drained = Pending(picked) \/ Cardinality(drained) = DrainedAtOnce
        /\ due' = [due EXCEPT ![picked] =
                     [u \in UrlHashes |-> IF u \in drained THEN NotPending ELSE @[u]]]
        /\ queueState' = IF MayHoldMore(Cardinality(drained)) THEN queueState
                         ELSE [queueState EXCEPT ![picked] = "open"]
  BY DEF DrainBatchOf
<1>2. picked \in Crawls
  BY DEF DrainBatchOf, TypeOK
<1>3. due'[picked] = [u \in UrlHashes |-> IF u \in drained THEN NotPending ELSE due[picked][u]]
  BY <1>1, <1>2 DEF TypeOK
<1>4. \A d \in Crawls : d # picked => due'[d] = due[d]
  BY <1>1 DEF TypeOK
<1>5. \A u \in UrlHashes :
        /\ u \in drained => due'[picked][u] = NotPending
        /\ u \notin drained => due'[picked][u] = due[picked][u]
  BY <1>3
<1>6. drained = Pending(picked) => PendingIn(due'[picked]) = {}
  BY <1>5 DEF Pending, PendingIn
<1>7. \A d \in Crawls : \/ queueState'[d] = queueState[d]
                        \/ d = picked /\ queueState'[d] = "open" /\ drained = Pending(picked)
  BY <1>1, <1>2 DEF TypeOK, MayHoldMore
<1>8. \A d \in Crawls, u \in UrlHashes : SameVisit(d, u) \/ (d = picked /\ due'[d][u] = NotPending)
  BY <1>4, <1>5 DEF SameVisit
<1> QED
  BY <1>6, <1>7, <1>8 DEF Pending

-----------------------------------------------------------------------------
(* The kinds of steps, by what they do to pending visits and leases *)

Adds(c, visits, t) ==
  /\ AddToQueueOf(c, visits, t)
  /\ \/ c \notin seeded /\ seeded' = seeded \cup {c}
     \/ Pending(c) # {} /\ seeded' = seeded
  /\ UNCHANGED <<ended, queueState, held, latest, picked>>

Leases(chosen) ==
  /\ looked # NoLook /\ head[looked.crawl] # NoHead /\ ~paused
  /\ chosen \subseteq DueVisitsOf(looked.crawl, looked.now)
  /\ LeaseVisits(chosen)
  /\ UNCHANGED <<ended, queueState, seeded, picked>>

LeavesVisits ==
  /\ held' \subseteq held
  /\ \A c \in DrainingQueues : queueState'[c] = "draining"
  /\ \A c \in Crawls : queueState'[c] = "draining" => c \in DrainingQueues \/ Pending(c) # {}
  /\ picked' \in DrainingQueues \cup {picked, NoCrawl}
  /\ UNCHANGED <<due, ended, seeded, latest>>

LEMMA StepKinds ==
  ASSUME TypeOK, [Next]_frontierVars
  PROVE  \/ \E c \in Crawls, visits \in SUBSET UrlHashes, t \in Nat : Adds(c, visits, t)
         \/ \E chosen \in SUBSET UrlHashes : Leases(chosen)
         \/ \E l \in held : End(l)
         \/ \E l \in held, delay \in Nat, t \in Nat : ReturnAfter(l, delay, t)
         \/ \E start \in Nat : DrainBatchOf(start)
         \/ \E c \in seeded : ForgetQueueOf(c)
         \/ LeavesVisits
<1> USE DEF processVars
<1>1. ASSUME NEW c \in Crawls, NEW visits \in SUBSET UrlHashes, NEW t \in ReadTimes,
             AddSeeds(c, visits, t)
      PROVE  Adds(c, visits, t) /\ t \in Nat
  BY <1>1, ReadTimesType DEF AddSeeds, Adds
<1>2. ASSUME NEW l \in held, NEW visits \in SUBSET UrlHashes, NEW t \in ReadTimes,
             AddNextOf(l, visits, t)
      PROVE  Adds(l.crawl, visits, t) /\ t \in Nat /\ l.crawl \in Crawls
  <2>1. l.crawl \in Crawls /\ t \in Nat
    BY ReadTimesType DEF TypeOK, LeaseRecords
  <2>2. Pending(l.crawl) # {}
    BY <1>2 DEF AddNextOf, MayLeadOn
  <2> QED
    BY <1>2, <2>1, <2>2 DEF AddNextOf, Adds
<1>3. ASSUME NEW c \in Crawls, PauseQueueOf(c) \/ ResumeQueueOf(c) \/ DrainQueueOf(c)
      PROVE  LeavesVisits
  <2>1. \A d \in DrainingQueues : queueState'[d] = "draining"
    BY <1>3 DEF PauseQueueOf, ResumeQueueOf, DrainQueueOf, DrainingQueues, TypeOK
  <2>2. \A d \in Crawls : queueState'[d] = "draining" => d \in DrainingQueues \/ Pending(d) # {}
    BY <1>3 DEF PauseQueueOf, ResumeQueueOf, DrainQueueOf, DrainingQueues, TypeOK
  <2> QED
    BY <1>3, <2>1, <2>2 DEF PauseQueueOf, ResumeQueueOf, DrainQueueOf, LeavesVisits
<1>4. ASSUME UNCHANGED <<due, ended, seeded, latest, queueState>>, held' \subseteq held,
             picked' \in DrainingQueues \cup {picked, NoCrawl}
      PROVE  LeavesVisits
  BY <1>4 DEF LeavesVisits, DrainingQueues
<1>5. ASSUME Pause \/ Resume \/ FirstHeadDue \/ PickDrainingQueue \/ Restart \/ Tick
      PROVE  LeavesVisits
  <2>1. CASE Pause \/ Resume
    BY <1>4, <2>1 DEF Pause, Resume, SetPause
  <2>2. CASE FirstHeadDue
    BY <1>4, <2>2 DEF FirstHeadDue
  <2>3. CASE PickDrainingQueue
    BY <1>4, <2>3 DEF PickDrainingQueue
  <2>4. CASE Restart
    BY <1>4, <2>4 DEF Restart
  <2>5. CASE Tick
    BY <1>4, <2>5 DEF Tick
  <2> QED
    BY <1>5, <2>1, <2>2, <2>3, <2>4, <2>5
<1>6. ASSUME NEW l \in held, LoseLease(l)
      PROVE  LeavesVisits
  BY <1>4, <1>6 DEF LoseLease
<1>7. ASSUME LeaseDueVisitsOf
      PROVE  LeavesVisits \/ \E chosen \in SUBSET UrlHashes : Leases(chosen)
  <2>1. CASE UNCHANGED <<due, head, held, latest>>
    BY <1>4, <1>7, <2>1 DEF LeaseDueVisitsOf
  <2>2. ASSUME NEW chosen \in SUBSET DueVisitsOf(looked.crawl, looked.now),
               LeaseVisits(chosen), head[looked.crawl] # NoHead, ~paused
        PROVE  \E S \in SUBSET UrlHashes : Leases(S)
    <3>1. chosen \in SUBSET UrlHashes
      BY DEF DueVisitsOf, Pending, PendingIn
    <3>2. Leases(chosen)
      BY <1>7, <2>2 DEF LeaseDueVisitsOf, Leases
    <3> QED
      BY <3>1, <3>2
  <2> QED
    BY <1>7, <2>1, <2>2 DEF LeaseDueVisitsOf
<1>8. CASE UNCHANGED frontierVars
  BY <1>4, <1>8 DEF frontierVars
<1>9. ReadTimes \subseteq Nat /\ Delays \subseteq Nat /\ UrlHashes \cup {ZeroHash} \subseteq Nat
  BY ReadTimesType, FrontierAssumption DEF ZeroHash
<1>10. CASE Requests
  BY <1>1, <1>2, <1>3, <1>5, <1>10 DEF Requests
<1>11. CASE Visits
  BY <1>6, <1>9, <1>11 DEF Visits
<1>12. CASE Drains
  BY <1>5, <1>9, <1>12 DEF Drains
<1> QED
  BY <1>5, <1>7, <1>8, <1>10, <1>11, <1>12 DEF Next

-----------------------------------------------------------------------------
(* Ended visits *)

LEMMA EndedStep ==
  TypeOK /\ EndedNotPending /\ [Next]_frontierVars => EndedNotPending'
<1> SUFFICES ASSUME TypeOK, EndedNotPending, [Next]_frontierVars,
                    NEW d \in Crawls, NEW u \in UrlHashes,
                    u \in ended'[d], due'[d][u] # NotPending
             PROVE  FALSE
  BY DEF EndedNotPending, Pending, PendingIn
<1>1. u \in ended[d] => due[d][u] = NotPending
  BY DEF EndedNotPending, Pending, PendingIn
<1>2. ASSUME NEW c \in Crawls, NEW visits \in SUBSET UrlHashes, NEW t \in Nat,
             Adds(c, visits, t)
      PROVE  FALSE
  BY <1>1, <1>2, WhatAddingChanges DEF Adds, SameVisit
<1>3. ASSUME NEW chosen \in SUBSET UrlHashes, Leases(chosen)
      PROVE  FALSE
  <2>1. u \in ended[d]
    BY <1>3 DEF Leases
  <2>2. SameVisit(d, u) \/ u \in Pending(d)
    BY <1>3, WhatLeasingChanges DEF Leases
  <2> QED
    BY <1>1, <2>1, <2>2 DEF SameVisit, Pending, PendingIn
<1>4. ASSUME NEW l \in held, End(l)
      PROVE  FALSE
  BY <1>1, <1>4, WhatEndingChanges DEF SameVisit
<1>5. ASSUME NEW l \in held, NEW delay \in Nat, NEW t \in Nat, ReturnAfter(l, delay, t)
      PROVE  FALSE
  <2>1. u \in ended[d]
    BY <1>5 DEF ReturnAfter
  <2>2. SameVisit(d, u) \/ u \in Pending(d)
    BY <1>5, WhatReturningChanges
  <2> QED
    BY <1>1, <2>1, <2>2 DEF SameVisit, Pending, PendingIn
<1>6. ASSUME NEW start \in Nat, DrainBatchOf(start)
      PROVE  FALSE
  <2>1. u \in ended[d]
    BY <1>6 DEF DrainBatchOf
  <2>2. SameVisit(d, u) \/ due'[d][u] = NotPending
    BY <1>6, WhatDrainingChanges
  <2> QED
    BY <1>1, <2>1, <2>2 DEF SameVisit
<1>7. ASSUME NEW c \in seeded, ForgetQueueOf(c)
      PROVE  FALSE
  <2>1. due' = [due EXCEPT ![c] = [v \in UrlHashes |-> NotPending]]
        /\ ended' = [ended EXCEPT ![c] = {}]
    BY <1>7 DEF ForgetQueueOf
  <2>2. CASE d = c
    BY <2>1, <2>2 DEF TypeOK
  <2>3. CASE d # c
    BY <1>1, <2>1, <2>3 DEF TypeOK
  <2> QED
    BY <2>2, <2>3
<1>8. CASE LeavesVisits
  BY <1>1, <1>8 DEF LeavesVisits
<1> QED
  BY <1>2, <1>3, <1>4, <1>5, <1>6, <1>7, <1>8, StepKinds

\* A visit that ended is never pending again, so no page is visited twice in a crawl
\* and none is counted as both ended and pending.
THEOREM EndedCorrect == Spec => []EndedNotPending
<1>1. Init => EndedNotPending
  BY DEF Init, EndedNotPending
<1> QED
  BY <1>1, TypeInit, TypeStep, EndedStep, PTL DEF Spec

-----------------------------------------------------------------------------
(* What a step never does to a queue *)

\* A lease is given only from an open queue and only while visits are not paused.
THEOREM LeasingStopsWhilePaused == Spec => NoLeaseWhilePaused
<1> DEFINE Given == \A l \in held' \ held : ~paused /\ queueState[l.crawl] = "open"
<1>1. ASSUME TypeOK, HeadsCoverPending, [Next]_frontierVars
      PROVE  Given
  <2>1. ASSUME NEW chosen \in SUBSET UrlHashes, Leases(chosen)
        PROVE  Given
    <3>1. looked.crawl \in Crawls /\ queueState[looked.crawl] = "open" /\ ~paused
      BY <1>1, <2>1, LookedType, CoversPerQueue DEF Leases, Covers
    <3>2. held' = held \cup {LeaseOf(looked.crawl, u, looked.now) : u \in chosen}
      BY <2>1 DEF Leases, LeaseVisits
    <3>3. \A l \in held' \ held : l.crawl = looked.crawl
      BY <3>2 DEF LeaseOf
    <3> QED
      BY <3>1, <3>3
  <2>2. ASSUME held' \subseteq held
        PROVE  Given
    BY <2>2
  <2> HIDE DEF Given
  <2> QED
    BY <1>1, <2>1, <2>2, StepKinds
       DEF Adds, End, ReturnAfter, DrainBatchOf, ForgetQueueOf, LeavesVisits, processVars
<1>2. TypeOK /\ HeadsCoverPending /\ [Next]_frontierVars => [Given]_frontierVars
  BY <1>1
<1>3. Spec => []TypeOK /\ []HeadsCoverPending
  BY TypeCorrect, HeadsCorrect
<1> QED
  BY <1>2, <1>3, PTL DEF Spec, NoLeaseWhilePaused

EmptyStays == \A c \in seeded : Pending(c) = {} => Pending(c)' = {}

LEMMA EmptyStep ==
  ASSUME TypeOK, [Next]_frontierVars
  PROVE  EmptyStays
<1> SUFFICES ASSUME NEW d \in seeded, Pending(d) = {}, NEW u \in UrlHashes
             PROVE  due'[d][u] = NotPending
  BY DEF EmptyStays, Pending, PendingIn
<1>1. d \in Crawls /\ due[d][u] = NotPending /\ u \notin Pending(d)
  BY DEF TypeOK, Pending, PendingIn
<1>2. SameVisit(d, u) => due'[d][u] = NotPending
  BY <1>1 DEF SameVisit
<1>3. ASSUME NEW c \in Crawls, NEW visits \in SUBSET UrlHashes, NEW t \in Nat,
             Adds(c, visits, t)
      PROVE  due'[d][u] = NotPending
  <2>1. d # c
    BY <1>3 DEF Adds
  <2> QED
    BY <1>1, <1>2, <1>3, <2>1, WhatAddingChanges DEF Adds
<1>4. ASSUME NEW chosen \in SUBSET UrlHashes, Leases(chosen)
      PROVE  due'[d][u] = NotPending
  BY <1>1, <1>2, <1>4, WhatLeasingChanges DEF Leases
<1>5. ASSUME NEW l \in held, End(l)
      PROVE  due'[d][u] = NotPending
  BY <1>1, <1>2, <1>5, WhatEndingChanges
<1>6. ASSUME NEW l \in held, NEW delay \in Nat, NEW t \in Nat, ReturnAfter(l, delay, t)
      PROVE  due'[d][u] = NotPending
  BY <1>1, <1>2, <1>6, WhatReturningChanges
<1>7. ASSUME NEW start \in Nat, DrainBatchOf(start)
      PROVE  due'[d][u] = NotPending
  BY <1>1, <1>2, <1>7, WhatDrainingChanges
<1>8. ASSUME NEW c \in seeded, ForgetQueueOf(c)
      PROVE  due'[d][u] = NotPending
  <2>1. due' = [due EXCEPT ![c] = [v \in UrlHashes |-> NotPending]]
    BY <1>8 DEF ForgetQueueOf
  <2> QED
    BY <1>1, <2>1 DEF TypeOK
<1>9. CASE LeavesVisits
  BY <1>1, <1>9 DEF LeavesVisits
<1> QED
  BY <1>3, <1>4, <1>5, <1>6, <1>7, <1>8, <1>9, StepKinds

\* The queue of a seeded crawl that became empty never fills again.
THEOREM EmptyQueuesGainNothing == Spec => EmptyQueuesStayEmpty
<1>1. TypeOK /\ [Next]_frontierVars => [EmptyStays]_frontierVars
  BY EmptyStep
<1> QED
  BY <1>1, TypeCorrect, PTL DEF Spec, EmptyQueuesStayEmpty, EmptyStays

DrainsLeave ==
  \A c \in DrainingQueues :
    /\ Pending(c)' \subseteq Pending(c)
    /\ queueState'[c] # "draining" => Pending(c)' = {}

LEMMA DrainsStep ==
  ASSUME TypeOK, HeadsCoverPending, [Next]_frontierVars
  PROVE  DrainsLeave
<1> SUFFICES ASSUME NEW d \in Crawls, queueState[d] = "draining"
             PROVE  /\ \A u \in Pending(d)' : u \in Pending(d)
                    /\ queueState'[d] # "draining" => Pending(d)' = {}
  BY DEF DrainsLeave, DrainingQueues
<1> DEFINE Goal == /\ \A u \in Pending(d)' : u \in Pending(d)
                   /\ queueState'[d] # "draining" => Pending(d)' = {}
<1>1. head[d] = NoHead
  BY CoversPerQueue DEF Covers
<1>2. ASSUME \A u \in UrlHashes : SameVisit(d, u) \/ due'[d][u] = NotPending \/ u \in Pending(d),
             queueState'[d] = queueState[d]
      PROVE  Goal
  BY <1>2 DEF SameVisit, Pending, PendingIn
<1>3. ASSUME NEW c \in Crawls, NEW visits \in SUBSET UrlHashes, NEW t \in Nat,
             Adds(c, visits, t)
      PROVE  Goal
  <2>1. \A u \in UrlHashes : SameVisit(d, u)
    BY <1>3, WhatAddingChanges DEF Adds, TakesPageVisits
  <2> QED
    BY <1>2, <1>3, <2>1 DEF Adds
<1>4. ASSUME NEW chosen \in SUBSET UrlHashes, Leases(chosen)
      PROVE  Goal
  <2>1. \A u \in UrlHashes : SameVisit(d, u) \/ u \in Pending(d)
    BY <1>4, WhatLeasingChanges DEF Leases
  <2> QED
    BY <1>2, <1>4, <2>1 DEF Leases
<1>5. ASSUME NEW l \in held, End(l)
      PROVE  Goal
  <2>1. \A u \in UrlHashes : SameVisit(d, u) \/ due'[d][u] = NotPending
    BY <1>5, WhatEndingChanges
  <2> QED
    BY <1>2, <1>5, <2>1 DEF End
<1>6. ASSUME NEW l \in held, NEW delay \in Nat, NEW t \in Nat, ReturnAfter(l, delay, t)
      PROVE  Goal
  <2>1. \A u \in UrlHashes : SameVisit(d, u) \/ u \in Pending(d)
    BY <1>6, WhatReturningChanges
  <2> QED
    BY <1>2, <1>6, <2>1 DEF ReturnAfter
<1>7. ASSUME NEW start \in Nat, DrainBatchOf(start)
      PROVE  Goal
  <2>1. \A u \in UrlHashes : SameVisit(d, u) \/ due'[d][u] = NotPending
    BY <1>7, WhatDrainingChanges
  <2>2. queueState'[d] = queueState[d] \/ Pending(d)' = {}
    BY <1>7, WhatDrainingChanges
  <2> QED
    BY <2>1, <2>2 DEF SameVisit, Pending, PendingIn
<1>8. ASSUME NEW c \in seeded, ForgetQueueOf(c)
      PROVE  Goal
  <2>1. due' = [due EXCEPT ![c] = [v \in UrlHashes |-> NotPending]]
        /\ queueState' = [queueState EXCEPT ![c] = "open"]
    BY <1>8 DEF ForgetQueueOf
  <2>2. CASE d = c
    <3>1. \A u \in UrlHashes : due'[d][u] = NotPending
      BY <2>1, <2>2 DEF TypeOK
    <3> QED
      BY <3>1 DEF Pending, PendingIn
  <2>3. CASE d # c
    BY <1>2, <2>1, <2>3 DEF TypeOK, SameVisit
  <2> QED
    BY <2>2, <2>3
<1>9. CASE LeavesVisits
  BY <1>2, <1>9 DEF LeavesVisits, DrainingQueues, SameVisit
<1> QED
  BY <1>3, <1>4, <1>5, <1>6, <1>7, <1>8, <1>9, StepKinds

\* A draining queue gains nothing and stops draining only once it is empty.
THEOREM DrainingLeavesNothing == Spec => DrainsLeaveNothing
<1>1. TypeOK /\ HeadsCoverPending /\ [Next]_frontierVars => [DrainsLeave]_frontierVars
  BY DrainsStep
<1> QED
  BY <1>1, TypeCorrect, HeadsCorrect, PTL DEF Spec, DrainsLeaveNothing, DrainsLeave

\* Only the queue of a seeded crawl drains, and a queue picked for draining still
\* drains or has nothing left to drain.
DrainInv ==
  /\ \A c \in Crawls \ seeded : Pending(c) = {} /\ c \notin DrainingQueues
  /\ picked \in Crawls =>
       /\ picked \in seeded
       /\ picked \in DrainingQueues \/ Pending(picked) = {}

LEMMA DrainInvStep ==
  TypeOK /\ TypeOK' /\ HeadsCoverPending /\ DrainInv /\ [Next]_frontierVars => DrainInv'
<1> SUFFICES ASSUME TypeOK, TypeOK', HeadsCoverPending, DrainInv, [Next]_frontierVars
             PROVE  DrainInv'
  OBVIOUS
<1>1. /\ seeded \subseteq seeded'
      /\ \A c \in Crawls \ seeded' : Pending(c)' = {} /\ c \notin DrainingQueues'
      /\ picked' \in DrainingQueues \cup {picked, NoCrawl}
  <2> DEFINE Goal == /\ seeded \subseteq seeded'
                     /\ \A c \in Crawls \ seeded' : Pending(c)' = {} /\ c \notin DrainingQueues'
                     /\ picked' \in DrainingQueues \cup {picked, NoCrawl}
  <2>1. ASSUME seeded \subseteq seeded', picked' \in DrainingQueues \cup {picked, NoCrawl},
               \A c \in Crawls \ seeded' : queueState'[c] = "draining" =>
                 c \in DrainingQueues \/ Pending(c) # {},
               \A c \in Crawls \ seeded' : \A u \in UrlHashes :
                 SameVisit(c, u) \/ due'[c][u] = NotPending \/ u \in Pending(c)
        PROVE  Goal
    <3> SUFFICES ASSUME NEW c \in Crawls \ seeded'
                 PROVE  Pending(c)' = {} /\ c \notin DrainingQueues'
      BY <2>1
    <3>1. Pending(c) = {} /\ c \notin DrainingQueues
      BY <2>1 DEF DrainInv
    <3>2. Pending(c)' = {}
      BY <2>1, <3>1 DEF SameVisit, Pending, PendingIn
    <3>3. queueState'[c] # "draining"
      BY <2>1, <3>1
    <3> QED
      BY <3>2, <3>3 DEF DrainingQueues
  <2>2. ASSUME NEW c \in Crawls, NEW visits \in SUBSET UrlHashes, NEW t \in Nat,
               Adds(c, visits, t)
        PROVE  Goal
    <3>1. c \in seeded' /\ seeded \subseteq seeded'
      BY <2>2 DEF Adds, DrainInv
    <3>2. \A d \in Crawls \ seeded' : \A u \in UrlHashes : SameVisit(d, u)
      BY <2>2, <3>1, WhatAddingChanges DEF Adds
    <3> QED
      BY <2>1, <2>2, <3>1, <3>2 DEF Adds, DrainingQueues
  <2>3. ASSUME NEW chosen \in SUBSET UrlHashes, Leases(chosen)
        PROVE  Goal
    <3>1. \A d \in Crawls, u \in UrlHashes : SameVisit(d, u) \/ u \in Pending(d)
      BY <2>3, WhatLeasingChanges DEF Leases
    <3> QED
      BY <2>1, <2>3, <3>1 DEF Leases, DrainingQueues
  <2>4. ASSUME NEW l \in held, End(l)
        PROVE  Goal
    <3>1. \A d \in Crawls, u \in UrlHashes : SameVisit(d, u) \/ due'[d][u] = NotPending
      BY <2>4, WhatEndingChanges
    <3> QED
      BY <2>1, <2>4, <3>1 DEF End, DrainingQueues
  <2>5. ASSUME NEW l \in held, NEW delay \in Nat, NEW t \in Nat, ReturnAfter(l, delay, t)
        PROVE  Goal
    <3>1. \A d \in Crawls, u \in UrlHashes : SameVisit(d, u) \/ u \in Pending(d)
      BY <2>5, WhatReturningChanges
    <3> QED
      BY <2>1, <2>5, <3>1 DEF ReturnAfter, DrainingQueues
  <2>6. ASSUME NEW start \in Nat, DrainBatchOf(start)
        PROVE  Goal
    <3>1. \A d \in Crawls, u \in UrlHashes : SameVisit(d, u) \/ due'[d][u] = NotPending
      BY <2>6, WhatDrainingChanges
    <3>2. \A d \in Crawls : queueState'[d] = "draining" => d \in DrainingQueues
      BY <2>6, WhatDrainingChanges DEF DrainingQueues
    <3>3. seeded' = seeded /\ picked' = NoCrawl
      BY <2>6 DEF DrainBatchOf
    <3> QED
      BY <2>1, <3>1, <3>2, <3>3
  <2>7. ASSUME NEW c \in seeded, ForgetQueueOf(c)
        PROVE  Goal
    <3>1. /\ due' = [due EXCEPT ![c] = [v \in UrlHashes |-> NotPending]]
          /\ queueState' = [queueState EXCEPT ![c] = "open"]
          /\ seeded' = seeded /\ picked' = picked
      BY <2>7 DEF ForgetQueueOf, processVars
    <3>2. \A d \in Crawls \ seeded' : due'[d] = due[d] /\ queueState'[d] = queueState[d]
      BY <3>1 DEF TypeOK
    <3> QED
      BY <2>1, <3>1, <3>2 DEF SameVisit, DrainingQueues
  <2>8. CASE LeavesVisits
    <3>1. \A d \in Crawls \ seeded' : \A u \in UrlHashes : SameVisit(d, u)
      BY <2>8 DEF LeavesVisits, SameVisit
    <3> QED
      BY <2>1, <2>8, <3>1 DEF LeavesVisits
  <2> QED
    BY <2>2, <2>3, <2>4, <2>5, <2>6, <2>7, <2>8, StepKinds
<1>2. ASSUME NEW c \in Crawls, c = picked'
      PROVE  c \in seeded' /\ (c \in DrainingQueues' \/ Pending(c)' = {})
  <2>1. c \in seeded /\ (c \in DrainingQueues \/ Pending(c) = {})
    BY <1>1, <1>2, FrontierAssumption DEF DrainInv, NoCrawl
  <2>2. CASE Pending(c) = {}
    BY <1>1, <2>1, <2>2, EmptyStep DEF EmptyStays
  <2>3. CASE c \in DrainingQueues
    BY <1>1, <2>1, <2>3, DrainsStep DEF DrainsLeave, DrainingQueues
  <2> QED
    BY <2>1, <2>2, <2>3, <1>1
<1>3. picked' \in Crawls =>
        /\ picked' \in seeded'
        /\ picked' \in DrainingQueues' \/ PendingIn(due'[picked']) = {}
  BY <1>2 DEF Pending
<1> QED
  BY <1>1, <1>3 DEF DrainInv, Pending

-----------------------------------------------------------------------------
(* Leases *)

\* What tells the latest lease of a visit from every other one.  A crawl not seeded
\* has no trace.  A visit leased once is due after its latest lease, or it ended, or
\* its queue adds nothing any more.  An older lease ran out before the latest began,
\* and the latest still tells when its visit is due.
LeaseInv ==
  /\ \A c \in Crawls : c \notin seeded =>
       \A u \in UrlHashes : due[c][u] = NotPending /\ latest[c][u] = NeverLeased
  /\ \A c \in Crawls, u \in UrlHashes :
       latest[c][u] # NeverLeased =>
         \/ u \in Pending(c) /\ Unix(latest[c][u]) < due[c][u]
         \/ u \notin Pending(c) /\ u \in ended[c]
         \/ u \notin Pending(c) /\ (queueState[c] = "draining" \/ Pending(c) = {})
  /\ \A l \in held :
       /\ l.until = SecondsAtOrAfter(l.at + Lease)
       /\ l.at <= latest[l.crawl][l.url]
       /\ \/ l.at = latest[l.crawl][l.url]
          \/ l.until <= Unix(latest[l.crawl][l.url])
       /\ (l.at = latest[l.crawl][l.url] /\ l.url \in Pending(l.crawl)) =>
            due[l.crawl][l.url] = l.until

LEMMA LeaseType ==
  ASSUME TypeOK, LeaseInv, NEW l \in held
  PROVE  /\ l.crawl \in Crawls /\ l.url \in UrlHashes /\ l.at \in Nat /\ l.until \in Nat
         /\ l.at + Lease \in Nat
         /\ latest[l.crawl][l.url] \in Nat
         /\ Unix(latest[l.crawl][l.url]) \in Nat
<1>1. l.crawl \in Crawls /\ l.url \in UrlHashes /\ l.at \in Nat /\ l.until \in Nat
  BY DEF TypeOK, LeaseRecords
<1>2. latest[l.crawl][l.url] \in Nat \cup {NeverLeased} /\ l.at <= latest[l.crawl][l.url]
  BY <1>1 DEF TypeOK, LeaseInv
<1>3. latest[l.crawl][l.url] \in Nat
  BY <1>1, <1>2 DEF NeverLeased
<1> QED
  BY <1>1, <1>3, UnixBounds, FrontierAssumption

\* The lease a worker still holds on a visit due when it says is the latest.
LEMMA LeasedIsLatest ==
  ASSUME TypeOK, LeaseInv, NEW l \in held, IsLeased(l)
  PROVE  l.at = latest[l.crawl][l.url] /\ l.url \in Pending(l.crawl)
<1>1. /\ l.crawl \in Crawls /\ l.url \in UrlHashes /\ l.until \in Nat
      /\ latest[l.crawl][l.url] \in Nat /\ Unix(latest[l.crawl][l.url]) \in Nat
  BY LeaseType
<1>2. l.url \in Pending(l.crawl)
  BY <1>1 DEF IsLeased, Pending, PendingIn, NotPending
<1>3. Unix(latest[l.crawl][l.url]) < l.until
  BY <1>1, <1>2 DEF LeaseInv, IsLeased, NeverLeased
<1> QED
  BY <1>1, <1>2, <1>3 DEF LeaseInv

\* LeaseInv by its parts: of a crawl, of a visit and of a lease.
Untouched(c) ==
  c \notin seeded => \A u \in UrlHashes : due[c][u] = NotPending /\ latest[c][u] = NeverLeased

Traced(c, u) ==
  latest[c][u] # NeverLeased =>
    \/ u \in Pending(c) /\ Unix(latest[c][u]) < due[c][u]
    \/ u \notin Pending(c) /\ u \in ended[c]
    \/ u \notin Pending(c) /\ (queueState[c] = "draining" \/ Pending(c) = {})

Told(l) ==
  /\ l.until = SecondsAtOrAfter(l.at + Lease)
  /\ l.at <= latest[l.crawl][l.url]
  /\ \/ l.at = latest[l.crawl][l.url]
     \/ l.until <= Unix(latest[l.crawl][l.url])
  /\ (l.at = latest[l.crawl][l.url] /\ l.url \in Pending(l.crawl)) =>
       due[l.crawl][l.url] = l.until

LEMMA LeaseInvParts ==
  LeaseInv <=> /\ \A c \in Crawls : Untouched(c)
               /\ \A c \in Crawls, u \in UrlHashes : Traced(c, u)
               /\ \A l \in held : Told(l)
BY DEF LeaseInv, Untouched, Traced, Told

\* A lease stays told while its visit keeps its latest lease and is due as before
\* or is not pending.
LEMMA StaysTold ==
  ASSUME NEW l, l.crawl \in Crawls, l.url \in UrlHashes, Told(l),
         latest'[l.crawl][l.url] = latest[l.crawl][l.url],
         SameVisit(l.crawl, l.url) \/ due'[l.crawl][l.url] = NotPending
  PROVE  Told(l)'
BY DEF Told, SameVisit, Pending, PendingIn, Unix, SecondsAtOrAfter

\* Adding meets no lease and no trace: what it adds was never leased.
LEMMA AddingKeepsLeaseInv ==
  ASSUME TypeOK, TypeOK', LeaseInv, NEW c \in Crawls, NEW visits \in SUBSET UrlHashes,
         NEW t \in Nat, Adds(c, visits, t)
  PROVE  LeaseInv'
<1>1. ASSUME NEW d \in Crawls, NEW u \in UrlHashes, ~SameVisit(d, u)
      PROVE  d = c /\ latest[d][u] = NeverLeased
  <2>1. /\ d = c /\ queueState[c] # "draining"
        /\ u \notin Pending(c) /\ u \notin ended[c]
    BY <1>1, WhatAddingChanges DEF Adds, TakesPageVisits
  <2>2. Untouched(c) /\ Traced(c, u)
    BY LeaseInvParts
  <2> QED
    BY <2>1, <2>2 DEF Untouched, Traced, Adds
<1>2. UNCHANGED <<ended, queueState, held, latest>>
  BY DEF Adds
<1>3. ASSUME NEW d \in Crawls
      PROVE  Untouched(d)'
  <2>1. d \notin seeded' => d \notin seeded
    BY DEF Adds
  <2>2. c \in seeded'
    <3>1. c \notin seeded => Pending(c) = {}
      BY LeaseInvParts DEF Untouched, Pending, PendingIn
    <3> QED
      BY <3>1 DEF Adds
  <2>3. d # c => \A u \in UrlHashes : due'[d][u] = due[d][u]
    BY <1>1 DEF SameVisit
  <2> QED
    BY <1>2, <2>1, <2>2, <2>3, LeaseInvParts DEF Untouched
<1>4. ASSUME NEW d \in Crawls, NEW u \in UrlHashes, latest'[d][u] # NeverLeased
      PROVE  Traced(d, u)'
  <2>1. SameVisit(d, u) /\ latest[d][u] # NeverLeased
    BY <1>1, <1>2, <1>4
  <2>2. Traced(d, u) /\ Untouched(d)
    BY LeaseInvParts
  <2>3. u \in Pending(d)' <=> u \in Pending(d)
    BY <2>1 DEF SameVisit, Pending, PendingIn
  <2>4. Pending(d) = {} => Pending(d)' = {}
    <3> SUFFICES ASSUME Pending(d) = {} PROVE Pending(d)' = {}
      OBVIOUS
    <3>1. d # c
      BY <2>1, <2>2 DEF Adds, Untouched
    <3>2. \A v \in UrlHashes : SameVisit(d, v)
      BY <1>1, <3>1
    <3> QED
      BY <3>2 DEF SameVisit, Pending, PendingIn
  <2>5. \/ u \in Pending(d)' /\ Unix(latest'[d][u]) < due'[d][u]
        \/ u \notin Pending(d)' /\ u \in ended'[d]
        \/ u \notin Pending(d)' /\ (queueState'[d] = "draining" \/ Pending(d)' = {})
    BY <1>2, <2>1, <2>2, <2>3, <2>4 DEF Traced, SameVisit
  <2> QED
    BY <2>5 DEF Traced, Unix
<1>5. ASSUME NEW l \in held
      PROVE  Told(l)'
  <2>1. Told(l) /\ l.crawl \in Crawls /\ l.url \in UrlHashes /\ latest[l.crawl][l.url] \in Nat
    BY LeaseType, LeaseInvParts
  <2>2. latest[l.crawl][l.url] # NeverLeased
    BY <2>1 DEF NeverLeased
  <2>3. SameVisit(l.crawl, l.url)
    BY <1>1, <2>1, <2>2
  <2> QED
    BY <1>2, <2>1, <2>3, StaysTold
<1>6. \A d \in Crawls, u \in UrlHashes : Traced(d, u)'
  BY <1>4 DEF Traced
<1>7. \A l \in held' : Told(l)'
  BY <1>2, <1>5
<1> QED
  BY <1>3, <1>6, <1>7 DEF LeaseInv, Untouched, Traced, Told

\* A visit is leased again only in a second after its latest lease, and no sooner
\* than that lease ran out.
LEMMA LeasingKeepsLeaseInv ==
  ASSUME TypeOK, TypeOK', LeaseInv, NEW chosen \in SUBSET UrlHashes, Leases(chosen)
  PROVE  LeaseInv'
<1>1. SUFFICES ASSUME NEW c \in Crawls, NEW now \in Nat, c = looked.crawl, now = looked.now
               PROVE  LeaseInv'
  BY LookedType DEF Leases
<1>2. UNCHANGED <<ended, queueState, seeded>> /\ chosen \in SUBSET DueVisitsOf(c, now)
  BY <1>1 DEF Leases
<1>3. \A d \in Crawls, u \in UrlHashes :
        \/ SameVisit(d, u) /\ latest'[d][u] = latest[d][u] /\ (d = c => u \notin chosen)
        \/ /\ d = c /\ u \in chosen /\ u \in Pending(d) /\ due[d][u] <= Unix(now)
           /\ due'[d][u] = SecondsAtOrAfter(now + Lease) /\ latest'[d][u] = now
  BY <1>1, <1>2, WhatLeasingChanges DEF Leases
<1>4. held' = held \cup {LeaseOf(c, u, now) : u \in chosen}
  BY <1>1, <1>2, WhatLeasingChanges DEF Leases
<1>5. /\ SecondsAtOrAfter(now + Lease) \in Nat /\ Unix(now) \in Nat
      /\ Unix(now) < SecondsAtOrAfter(now + Lease)
  BY <1>1, LeaseTime DEF Leases
<1>6. \A d \in Crawls, u \in UrlHashes : u \in Pending(d)' <=> u \in Pending(d)
  BY <1>3, <1>5 DEF SameVisit, Pending, PendingIn, NotPending
<1>7. ASSUME NEW d \in Crawls
      PROVE  Untouched(d)'
  BY <1>2, <1>3, LeaseInvParts DEF Untouched, SameVisit, Pending, PendingIn
<1>8. ASSUME NEW d \in Crawls, NEW u \in UrlHashes, latest'[d][u] # NeverLeased
      PROVE  \/ u \in Pending(d)' /\ Unix(latest'[d][u]) < due'[d][u]
             \/ u \notin Pending(d)' /\ u \in ended'[d]
             \/ u \notin Pending(d)' /\ (queueState'[d] = "draining" \/ Pending(d)' = {})
  <2>1. CASE d = c /\ u \in chosen
    BY <1>3, <1>5, <1>6, <2>1
  <2>2. CASE SameVisit(d, u) /\ latest'[d][u] = latest[d][u]
    <3>1. Traced(d, u)
      BY LeaseInvParts
    <3>2. Pending(d) = {} => Pending(d)' = {}
      BY <1>6 DEF Pending, PendingIn
    <3> QED
      BY <1>2, <1>6, <1>8, <2>2, <3>1, <3>2 DEF Traced, SameVisit
  <2> QED
    BY <1>3, <2>1, <2>2
<1>9. ASSUME NEW l \in held
      PROVE  Told(l)'
  <2>1. /\ Told(l) /\ l.crawl \in Crawls /\ l.url \in UrlHashes /\ l.at \in Nat
        /\ l.until \in Nat /\ latest[l.crawl][l.url] \in Nat
        /\ Unix(latest[l.crawl][l.url]) \in Nat
    BY LeaseType, LeaseInvParts
  <2>2. CASE SameVisit(l.crawl, l.url) /\ latest'[l.crawl][l.url] = latest[l.crawl][l.url]
    BY <2>1, <2>2, StaysTold
  <2>3. CASE l.crawl = c /\ l.url \in chosen
    <3>1. /\ l.url \in Pending(c) /\ due[c][l.url] <= Unix(now) /\ latest'[c][l.url] = now
      BY <1>3, <2>1, <2>3
    <3>2. Unix(latest[c][l.url]) < due[c][l.url]
      BY <2>1, <2>3, <3>1, LeaseInvParts DEF Traced, NeverLeased
    <3>3. due[c][l.url] \in Nat
      BY <2>1, <2>3, <3>1 DEF TypeOK, Pending, PendingIn
    <3>4. Unix(latest[c][l.url]) < Unix(now)
      BY <1>5, <2>1, <2>3, <3>1, <3>2, <3>3
    <3>5. latest[c][l.url] < now
      BY <1>1, <2>1, <2>3, <3>4, LaterSecondIsLater
    <3>6. l.until <= Unix(now)
      BY <1>5, <2>1, <2>3, <3>1, <3>3, <3>4 DEF Told
    <3>7. l.at < now
      BY <1>1, <2>1, <2>3, <3>5 DEF Told
    <3> QED
      BY <1>1, <2>1, <2>3, <3>1, <3>6, <3>7 DEF Told, Unix, SecondsAtOrAfter
  <2> QED
    BY <1>3, <2>1, <2>2, <2>3
<1>10. ASSUME NEW u \in chosen
       PROVE  Told(LeaseOf(c, u, now))'
  <2>1. u \in UrlHashes /\ latest'[c][u] = now /\ due'[c][u] = SecondsAtOrAfter(now + Lease)
    BY <1>1, <1>3
  <2> DEFINE l == LeaseOf(c, u, now)
  <2>2. l.crawl = c /\ l.url = u /\ l.at = now /\ l.until = SecondsAtOrAfter(now + Lease)
    BY DEF LeaseOf
  <2> HIDE DEF l
  <2>3. Told(l)'
    BY <1>1, <2>1, <2>2 DEF Told, SecondsAtOrAfter
  <2> QED
    BY <2>3 DEF l
<1>11. \A l \in held' : Told(l)'
  BY <1>4, <1>9, <1>10
<1> QED
  BY <1>7, <1>8, <1>11 DEF LeaseInv, Untouched, Traced, Told

\* Steps that give no lease keep the latest of every visit; what is left to show is
\* that a visit they change keeps its trace and the leases on it.
LEMMA NoLeaseKeepsLeaseInv ==
  ASSUME TypeOK, LeaseInv, UNCHANGED <<latest, seeded>>, held' \subseteq held,
         \A d \in Crawls, u \in UrlHashes :
           \/ SameVisit(d, u)
           \/ due'[d][u] = NotPending
           \/ /\ u \in Pending(d) /\ due'[d][u] \in Nat
              /\ Unix(latest[d][u]) < due'[d][u]
              /\ \A l \in held' : ~(l.crawl = d /\ l.url = u /\ l.at = latest[d][u]),
         \A d \in Crawls, u \in UrlHashes :
           u \in Pending(d) \/ u \in ended[d] =>
             u \in Pending(d)' \/ u \in ended'[d]
               \/ queueState'[d] = "draining" \/ Pending(d)' = {},
         \A d \in DrainingQueues : queueState'[d] = "draining" \/ Pending(d)' = {}
  PROVE  LeaseInv'
<1>1. \A d \in Crawls, u \in UrlHashes : u \in Pending(d)' => u \in Pending(d)
  BY DEF SameVisit, Pending, PendingIn
<1>2. ASSUME NEW d \in Crawls
      PROVE  Untouched(d)'
  BY LeaseInvParts DEF Untouched, SameVisit, Pending, PendingIn
<1>3. ASSUME NEW d \in Crawls, NEW u \in UrlHashes, latest'[d][u] # NeverLeased
      PROVE  \/ u \in Pending(d)' /\ Unix(latest'[d][u]) < due'[d][u]
             \/ u \notin Pending(d)' /\ u \in ended'[d]
             \/ u \notin Pending(d)' /\ (queueState'[d] = "draining" \/ Pending(d)' = {})
  <2>1. Traced(d, u) /\ latest[d][u] # NeverLeased
    BY <1>3, LeaseInvParts
  <2>2. CASE u \in Pending(d)'
    <3>1. u \in Pending(d) /\ Unix(latest[d][u]) < due[d][u]
      BY <1>1, <2>1, <2>2 DEF Traced
    <3>2. due'[d][u] # NotPending
      BY <2>2 DEF Pending, PendingIn
    <3> QED
      BY <2>2, <3>1, <3>2 DEF SameVisit
  <2>3. CASE u \notin Pending(d)'
    <3>1. queueState[d] = "draining" \/ Pending(d) = {} \/ u \in Pending(d) \/ u \in ended[d]
      BY <2>1 DEF Traced
    <3>2. Pending(d) = {} => Pending(d)' = {}
      BY <1>1 DEF Pending, PendingIn
    <3>3. queueState[d] = "draining" => queueState'[d] = "draining" \/ Pending(d)' = {}
      BY DEF DrainingQueues
    <3> QED
      BY <2>3, <3>1, <3>2, <3>3
  <2> QED
    BY <2>2, <2>3
<1>4. ASSUME NEW l \in held'
      PROVE  Told(l)'
  <2>1. Told(l) /\ l.crawl \in Crawls /\ l.url \in UrlHashes
    BY LeaseType, LeaseInvParts
  <2>2. CASE SameVisit(l.crawl, l.url) \/ due'[l.crawl][l.url] = NotPending
    BY <2>1, <2>2, StaysTold
  <2>3. CASE l.at # latest[l.crawl][l.url]
    BY <2>1, <2>3 DEF Told, Unix, SecondsAtOrAfter
  <2> QED
    BY <2>1, <2>2, <2>3
<1> QED
  BY <1>2, <1>3, <1>4 DEF LeaseInv, Untouched, Traced, Told

LEMMA LeaseInvStep ==
  TypeOK /\ TypeOK' /\ DrainInv /\ LeaseInv /\ [Next]_frontierVars => LeaseInv'
<1> SUFFICES ASSUME TypeOK, TypeOK', DrainInv, LeaseInv, [Next]_frontierVars
             PROVE  LeaseInv'
  OBVIOUS
<1>1. ASSUME NEW l \in held, End(l)
      PROVE  LeaseInv'
  <2>1. UNCHANGED <<latest, seeded, queueState>> /\ held' \subseteq held
    BY <1>1 DEF End
  <2>2. \A d \in Crawls, u \in UrlHashes : SameVisit(d, u) \/ due'[d][u] = NotPending
    BY <1>1, WhatEndingChanges
  <2>3. \A d \in Crawls, u \in UrlHashes :
          u \in Pending(d) \/ u \in ended[d] => u \in Pending(d)' \/ u \in ended'[d]
    BY <1>1, WhatEndingChanges DEF SameVisit, Pending, PendingIn
  <2>4. \A d \in DrainingQueues : queueState'[d] = "draining"
    BY <2>1 DEF DrainingQueues
  <2> QED
    BY <2>1, <2>2, <2>3, <2>4, NoLeaseKeepsLeaseInv
<1>2. ASSUME NEW l \in held, NEW delay \in Nat, NEW t \in Nat, ReturnAfter(l, delay, t)
      PROVE  LeaseInv'
  <2>1. UNCHANGED <<latest, seeded, queueState, ended>> /\ held' = held \ {l}
        /\ t + delay > l.at
    BY <1>2 DEF ReturnAfter
  <2>2. t + delay \in Nat /\ l.at \in Nat
    BY LeaseType
  <2>3. SecondsAtOrAfter(t + delay) \in Nat /\ Unix(l.at) < SecondsAtOrAfter(t + delay)
    BY <2>1, <2>2, RoundedUp
  <2>4. ASSUME IsLeased(l), NEW k \in held', k.crawl = l.crawl, k.url = l.url,
               k.at = latest[l.crawl][l.url]
        PROVE  FALSE
    <3>1. k \in held /\ k # l
      BY <2>1
    <3>2. k.at = l.at /\ Told(k) /\ Told(l)
      BY <2>4, <3>1, LeasedIsLatest, LeaseInvParts
    <3>3. k.until = l.until
      BY <3>2 DEF Told
    <3>4. k \in LeaseRecords /\ l \in LeaseRecords
      BY <3>1 DEF TypeOK
    <3> QED
      BY <2>4, <3>1, <3>2, <3>3, <3>4 DEF LeaseRecords
  <2>5. \A d \in Crawls, u \in UrlHashes :
          \/ SameVisit(d, u)
          \/ /\ u \in Pending(d) /\ due'[d][u] \in Nat
             /\ Unix(latest[d][u]) < due'[d][u]
             /\ \A k \in held' : ~(k.crawl = d /\ k.url = u /\ k.at = latest[d][u])
    BY <1>2, <2>3, <2>4, LeasedIsLatest, WhatReturningChanges
  <2>6. \A d \in Crawls, u \in UrlHashes : u \in Pending(d) => u \in Pending(d)'
    BY <2>5 DEF SameVisit, Pending, PendingIn, NotPending
  <2>7. \A d \in DrainingQueues : queueState'[d] = "draining"
    BY <2>1 DEF DrainingQueues
  <2> QED
    BY <2>1, <2>5, <2>6, <2>7, NoLeaseKeepsLeaseInv
<1>3. ASSUME NEW start \in Nat, DrainBatchOf(start)
      PROVE  LeaseInv'
  <2>1. UNCHANGED <<latest, seeded, ended, held>>
    BY <1>3 DEF DrainBatchOf
  <2>2. \A d \in Crawls, u \in UrlHashes : SameVisit(d, u) \/ (d = picked /\ due'[d][u] = NotPending)
    BY <1>3, WhatDrainingChanges
  <2>3. \A d \in Crawls :
          queueState'[d] = queueState[d] \/ Pending(d)' = {}
    BY <1>3, WhatDrainingChanges
  <2>4. picked \in Crawls /\ (queueState[picked] = "draining" \/ Pending(picked) = {})
    BY <1>3 DEF DrainBatchOf, DrainInv, DrainingQueues, TypeOK
  <2>5. ASSUME NEW d \in Crawls, NEW u \in UrlHashes, u \in Pending(d) \/ u \in ended[d]
        PROVE  \/ u \in Pending(d)' \/ u \in ended'[d]
               \/ queueState'[d] = "draining" \/ Pending(d)' = {}
    <3>1. d # picked => SameVisit(d, u)
      BY <2>2
    <3>2. CASE u \in Pending(d) /\ d = picked
      BY <2>3, <2>4, <3>2
    <3>3. CASE u \in Pending(d) /\ d # picked
      BY <3>1, <3>3 DEF SameVisit, Pending, PendingIn
    <3> QED
      BY <2>1, <2>5, <3>2, <3>3
  <2>6. \A d \in DrainingQueues : queueState'[d] = "draining" \/ Pending(d)' = {}
    BY <2>3 DEF DrainingQueues
  <2> QED
    BY <2>1, <2>2, <2>5, <2>6, NoLeaseKeepsLeaseInv
<1>4. ASSUME NEW c \in seeded, ForgetQueueOf(c)
      PROVE  LeaseInv'
  <2>1. /\ due' = [due EXCEPT ![c] = [v \in UrlHashes |-> NotPending]]
        /\ ended' = [ended EXCEPT ![c] = {}]
        /\ queueState' = [queueState EXCEPT ![c] = "open"]
        /\ UNCHANGED <<latest, seeded, held>>
    BY <1>4 DEF ForgetQueueOf, processVars
  <2>2. c \in Crawls /\ \A u \in UrlHashes : due'[c][u] = NotPending
    BY <2>1 DEF TypeOK
  <2>3. \A d \in Crawls \ {c} :
          due'[d] = due[d] /\ ended'[d] = ended[d] /\ queueState'[d] = queueState[d]
    BY <2>1 DEF TypeOK
  <2>4. Pending(c)' = {}
    BY <2>2 DEF Pending, PendingIn
  <2>5. \A d \in Crawls, u \in UrlHashes : SameVisit(d, u) \/ due'[d][u] = NotPending
    BY <2>2, <2>3 DEF SameVisit
  <2>6. \A d \in Crawls, u \in UrlHashes :
          u \in Pending(d) \/ u \in ended[d] =>
            u \in Pending(d)' \/ u \in ended'[d] \/ Pending(d)' = {}
    BY <2>3, <2>4 DEF Pending, PendingIn
  <2>7. \A d \in DrainingQueues : queueState'[d] = "draining" \/ Pending(d)' = {}
    BY <2>3, <2>4 DEF DrainingQueues
  <2> QED
    BY <2>1, <2>5, <2>6, <2>7, NoLeaseKeepsLeaseInv
<1>5. CASE LeavesVisits
  <2>1. /\ \A d \in Crawls, u \in UrlHashes : SameVisit(d, u)
        /\ UNCHANGED <<due, latest, seeded, ended>> /\ held' \subseteq held
        /\ \A d \in DrainingQueues : queueState'[d] = "draining"
    BY <1>5 DEF LeavesVisits, SameVisit
  <2>2. \A d \in Crawls : Pending(d)' = Pending(d) /\ ended'[d] = ended[d]
    BY <2>1 DEF Pending, PendingIn
  <2> QED
    BY <2>1, <2>2, NoLeaseKeepsLeaseInv
<1> QED
  BY <1>1, <1>2, <1>3, <1>4, <1>5, AddingKeepsLeaseInv, LeasingKeepsLeaseInv, StepKinds

\* Every lease tells apart, by seconds alone, whether it is the latest of its visit.
THEOREM LeaseInvariant == Spec => []LeaseInv
<1>1. Init => DrainInv /\ LeaseInv
  BY FrontierAssumption
     DEF Init, DrainInv, LeaseInv, DrainingQueues, Pending, PendingIn, NoCrawl
<1> QED
  BY <1>1, TypeInit, TypeStep, HeadsCorrect, DrainInvStep, LeaseInvStep, PTL DEF Spec

\* A worker's lease runs its full length before its visit is leased again, for any
\* lease length and any fraction of a second the clock read.
THEOREM LeasesAreKept == Spec => []LeasesRunTheirLength
<1>1. TypeOK /\ LeaseInv => LeasesRunTheirLength
  <2> SUFFICES ASSUME TypeOK, LeaseInv, NEW l \in held, latest[l.crawl][l.url] # l.at
               PROVE  latest[l.crawl][l.url] >= l.at + Lease
    BY DEF LeasesRunTheirLength
  <2>1. SecondsAtOrAfter(l.at + Lease) <= Unix(latest[l.crawl][l.url])
    BY DEF LeaseInv
  <2> QED
    BY <2>1, LeaseType, RoundedUp
<1> QED
  BY <1>1, TypeCorrect, LeaseInvariant, PTL

\* A worker that outlived its lease neither ends nor returns the visit another worker
\* holds by now, though leases are told apart by seconds alone.
THEOREM LatestLeaseCounts == Spec => OnlyLatestLeaseCounts
<1> DEFINE Counts == \A l \in held \ held' :
             due'[l.crawl][l.url] # due[l.crawl][l.url] => l.at = latest[l.crawl][l.url]
<1>1. ASSUME TypeOK, LeaseInv, [Next]_frontierVars
      PROVE  Counts
  <2> SUFFICES ASSUME NEW k \in held, k \notin held', ~SameVisit(k.crawl, k.url)
               PROVE  k.at = latest[k.crawl][k.url]
    BY DEF SameVisit
  <2>1. k.crawl \in Crawls /\ k.url \in UrlHashes
    BY <1>1 DEF TypeOK, LeaseRecords
  <2>2. ASSUME NEW l \in held, End(l)
        PROVE  k = l /\ IsLeased(l)
    BY <1>1, <2>1, <2>2, WhatEndingChanges DEF End
  <2>3. ASSUME NEW l \in held, NEW delay \in Nat, NEW t \in Nat, ReturnAfter(l, delay, t)
        PROVE  k = l /\ IsLeased(l)
    BY <1>1, <2>1, <2>3, WhatReturningChanges DEF ReturnAfter
  <2>4. ASSUME NEW chosen \in SUBSET UrlHashes, Leases(chosen)
        PROVE  FALSE
    BY <2>4 DEF Leases, LeaseVisits
  <2>5. ~LeavesVisits
    BY <2>1 DEF LeavesVisits, SameVisit
  <2> QED
    BY <1>1, <2>2, <2>3, <2>4, <2>5, StepKinds, LeasedIsLatest
       DEF Adds, DrainBatchOf, ForgetQueueOf, processVars
<1>2. TypeOK /\ LeaseInv /\ [Next]_frontierVars => [Counts]_frontierVars
  BY <1>1
<1> QED
  BY <1>2, TypeCorrect, LeaseInvariant, PTL DEF Spec, OnlyLatestLeaseCounts

=============================================================================
