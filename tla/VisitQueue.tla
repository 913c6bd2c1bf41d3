----------------------------- MODULE VisitQueue -----------------------------
(***************************************************************************)
(* What the frontier promises of the page visits of the crawls, apart from *)
(* how it finds the next one due: that visits are leased earliest first    *)
(* and none is passed over, that a lease keeps its visit from every other  *)
(* worker for its length, that the latest lease of a visit is the one that *)
(* ends or returns it, and that a visit is gone only when it ended or its  *)
(* queue was drained or forgotten.  There are no heads, no lookups ahead   *)
(* of a transaction and no seconds here: a worker's lease is told by the   *)
(* time it was given.                                                      *)
(***************************************************************************)
EXTENDS Integers, FiniteSets

CONSTANTS
  Crawls, Urls,
  Lease,     \* how long a visit is leased
  Delays,    \* the delays a visit is returned with
  Workers,   \* visits held by workers at once
  Grain      \* how much time the rounding of a time may add, and one more

VARIABLES
  from,      \* [crawl][url]: when a pending visit may be leased, or NotPending
  ended,     \* [crawl]: the URLs whose visit ended
  state,     \* [crawl]: "open", "paused" or "draining"
  paused,    \* nothing at all is leased
  leases,    \* [crawl, url, at]: the leases in the hands of workers
  latest,    \* [crawl][url]: when the visit was leased last, or NeverLeased
  seeded,    \* the crawls whose seeds were added
  now        \* the time it is

queueVars == <<from, ended, state, paused, leases, latest, seeded, now>>

NotPending == -1
NeverLeased == -1

Pending(c) == {u \in Urls : from[c][u] # NotPending}

Init ==
  /\ from = [c \in Crawls |-> [u \in Urls |-> NotPending]]
  /\ ended = [c \in Crawls |-> {}]
  /\ state = [c \in Crawls |-> "open"]
  /\ paused = FALSE
  /\ leases = {}
  /\ latest = [c \in Crawls |-> [u \in Urls |-> NeverLeased]]
  /\ seeded = {}
  /\ now = 0

\* Some visits of a crawl may be leased from another time on.
LeasableFrom(c, visits, time) ==
  from' = [from EXCEPT ![c] = [u \in Urls |-> IF u \in visits THEN time ELSE @[u]]]

-----------------------------------------------------------------------------
\* A visit pending or ended is not added, and nothing is to a draining queue.
Add(c) ==
  /\ state[c] # "draining"
  /\ \E visits \in SUBSET (Urls \ (Pending(c) \cup ended[c])), t \in 0..now :
       \E time \in (t - Grain + 1)..t : LeasableFrom(c, visits, time)

Seed(c) ==
  /\ c \notin seeded
  /\ seeded' = seeded \cup {c}
  /\ Add(c) \/ UNCHANGED from
  /\ UNCHANGED <<ended, state, paused, leases, latest, now>>

\* A visit leads to others only while it is pending.
LeadOn(l) ==
  /\ l.url \in Pending(l.crawl)
  /\ Add(l.crawl)
  /\ UNCHANGED <<ended, state, paused, leases, latest, seeded, now>>

\* Workers without a visit get the earliest of a queue, by a time it was before.
LeaseVisits(c) ==
  /\ ~paused /\ state[c] = "open"
  /\ \E chosen \in SUBSET Pending(c), t \in 0..now :
       /\ Cardinality(chosen) <= Workers - Cardinality(leases)
       /\ \A u \in chosen : from[c][u] <= t
       /\ \A u \in chosen, v \in Pending(c) \ chosen : from[c][u] <= from[c][v]
       /\ \E time \in (t + Lease)..(t + Lease + Grain - 1) : LeasableFrom(c, chosen, time)
       /\ leases' = leases \cup {[crawl |-> c, url |-> u, at |-> t] : u \in chosen}
       /\ latest' = [latest EXCEPT ![c] =
                       [u \in Urls |-> IF u \in chosen THEN t ELSE @[u]]]
  /\ UNCHANGED <<ended, state, paused, seeded, now>>

\* Whether the visit of a lease is pending and was not leased again.
Counts(l) == l.url \in Pending(l.crawl) /\ l.at = latest[l.crawl][l.url]

LetGo(l) == leases' = leases \ {l}

EndVisit(l) ==
  /\ LetGo(l) /\ Counts(l)
  /\ LeasableFrom(l.crawl, {l.url}, NotPending)
  /\ ended' = [ended EXCEPT ![l.crawl] = @ \cup {l.url}]
  /\ UNCHANGED <<state, paused, latest, seeded, now>>

\* A returned visit waits for its delay, and was leased before that has passed.
ReturnVisit(l) ==
  /\ LetGo(l) /\ Counts(l)
  /\ \E delay \in Delays, t \in l.at..now :
       /\ t + delay > l.at
       /\ \E time \in (t + delay)..(t + delay + Grain - 1) :
            LeasableFrom(l.crawl, {l.url}, time)
  /\ UNCHANGED <<ended, state, paused, latest, seeded, now>>

\* A worker gives a lease up, or comes too late with it.
GiveUp(l) ==
  /\ LetGo(l)
  /\ UNCHANGED <<from, ended, state, paused, latest, seeded, now>>

-----------------------------------------------------------------------------
ChangeState(c) ==
  /\ \E next \in {"open", "paused", "draining"} :
       /\ state[c] = "draining" => next = "draining"
       /\ next = "draining" => Pending(c) # {}
       /\ state' = [state EXCEPT ![c] = next]
  /\ UNCHANGED <<from, ended, paused, leases, latest, seeded, now>>

\* Only a draining queue drops visits, and it opens only when it has none left.
DropVisits(c) ==
  /\ state[c] = "draining" \/ Pending(c) = {}
  /\ \E dropped \in SUBSET Pending(c) :
       /\ LeasableFrom(c, dropped, NotPending)
       /\ \/ UNCHANGED state
          \/ dropped = Pending(c) /\ state' = [state EXCEPT ![c] = "open"]
  /\ UNCHANGED <<ended, paused, leases, latest, seeded, now>>

Forget(c) ==
  /\ c \in seeded
  /\ LeasableFrom(c, Urls, NotPending)
  /\ ended' = [ended EXCEPT ![c] = {}]
  /\ state' = [state EXCEPT ![c] = "open"]
  /\ UNCHANGED <<paused, leases, latest, seeded, now>>

PauseOrResume ==
  /\ paused' = ~paused
  /\ UNCHANGED <<from, ended, state, leases, latest, seeded, now>>

\* Workers start anew; every visit stays as it was.
Restart ==
  /\ leases' = {}
  /\ UNCHANGED <<from, ended, state, paused, latest, seeded, now>>

Pass ==
  /\ now' > now
  /\ UNCHANGED <<from, ended, state, paused, leases, latest, seeded>>

Next ==
  \/ Pass
  \/ PauseOrResume
  \/ Restart
  \/ \E l \in leases : GiveUp(l) \/ EndVisit(l) \/ ReturnVisit(l)
  \/ \E c \in Crawls : ChangeState(c) \/ DropVisits(c) \/ Forget(c)
  \/ \E c \in Crawls : Seed(c) \/ LeaseVisits(c)
  \/ \E l \in leases : LeadOn(l)

Spec == Init /\ [][Next]_queueVars
=============================================================================
