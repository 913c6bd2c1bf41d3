------------------------------ MODULE ArcWalk ------------------------------
(***************************************************************************)
(* The loop that sends postings walks the ring of peers by arc: workers    *)
(* pick arcs, read what is due in them, send it, and wait for a wake       *)
(* signal or an alarm.  Admissions come in beside it, peers come, go,      *)
(* decline and are busy.                                                   *)
(*                                                                         *)
(* A word partition is its position on the ring.  Which of the due word    *)
(* partitions of an arc must wait for a recipient is a choice, and so is   *)
(* how each send ends: PostingDistribution is about those.                 *)
(***************************************************************************)
EXTENDS Integers, FiniteSets, FiniteSetsExt

CONSTANTS
  Peers,            \* peers the node knows
  PeerAt,           \* [Peers -> Positions]: where a peer is on the ring
  RingSize,         \* amount of positions
  WordPartitions,   \* positions of the word partitions
  Redundancy,       \* peers in the window of an arc
  Workers,
  MinReachablePeers,
  EntriesPerRead,   \* due word partitions read at once
  SendLimit,        \* sends in flight at which a peer is busy
  Pause,            \* how long a peer that declines is paused
  UnacceptedOffersBeforeExclusion,
  ExclusionDuration,
  RefreshInterval,
  RetryDelay,
  MaxClock,         \* bounds of the model: the last tick,
  MaxAdmissions,    \* admissions,
  MovingPeers,      \* peers whose entry in the roster changes,
  MaxMishaps        \* changes of the roster, offers not accepted, failures of the vault
                    \* and restarts, all together

Positions == 0 .. RingSize - 1

ASSUME WalkAssumption ==
  /\ RingSize \in Nat \ {0} /\ PeerAt \in [Peers -> Positions]
  /\ \A p, q \in Peers : PeerAt[p] = PeerAt[q] => p = q
  /\ WordPartitions \subseteq Positions
  /\ {Redundancy, EntriesPerRead, SendLimit, Pause, UnacceptedOffersBeforeExclusion,
      ExclusionDuration, RefreshInterval, RetryDelay, MaxClock} \subseteq Nat \ {0}
  /\ {MinReachablePeers, MaxAdmissions, MaxMishaps} \subseteq Nat
  /\ MovingPeers \subseteq Peers /\ IsFiniteSet(Peers) /\ IsFiniteSet(Workers) /\ Workers # {}

VARIABLES
  clock,
  reachable,    \* the roster's reachable peers
  accepting,    \* those whose seed accepts a remote index
  rosterNews,   \* whether a signal of the roster is on its way
  pausedUntil,  \* [peer]: when its pause ends
  unaccepted,   \* [peer]: offers not accepted in a row, counted up to the limit
  excludedUntil,\* [peer]: when its exclusion ends, 0 without one since it accepted
  sends,        \* [peer]: amountOfSendsInFlight
  admitted,     \* [word partition]: admissions not scheduled yet
  unsignalled,  \* [word partition]: admissions committed and not signalled yet
  due,          \* [word partition]: dueAt of its entry, Forever without an entry
  retrying,     \* word partitions whose entry has a retry delay
  ring,         \* peers the walk follows
  arcs,         \* [arc of the ring]: its state
  lastPicked,
  worker,       \* [worker]: its stage and what it holds
  wake,         \* [worker]: whether the wake channel it holds is closed
  unnoticed,    \* history: peers whose entry in the roster or whose exclusion changed
                \* without a signal since the workers were woken last
  admissions, mishaps   \* so far

scheduleVars == <<admitted, unsignalled, due, retrying>>
rosterVars == <<reachable, accepting, rosterNews>>
eligibilityVars == <<pausedUntil, unaccepted, excludedUntil, sends>>
peerVars == <<rosterVars, eligibilityVars>>
walkVars == <<ring, arcs, lastPicked>>
wakeVars == <<wake, unnoticed>>
bounds == <<admissions, mishaps>>
vars == <<clock, scheduleVars, peerVars, walkVars, worker, wakeVars, bounds>>

\* Later than every time an alarm could be set to.
Forever == MaxClock + RefreshInterval + RetryDelay + Pause + 1
Times == 0 .. Forever

-----------------------------------------------------------------------------
(* The ring *)

\* Steps clockwise from one position to another, a whole turn to itself.
Clockwise(from, to) == IF to > from THEN to - from ELSE to - from + RingSize

NoArc == [after |-> RingSize, through |-> RingSize - 1]

\* Each peer ends the arc that begins after its predecessor.
ArcsOf(peers) ==
  {[after |-> PeerAt[CHOOSE q \in peers : \A r \in peers :
                       Clockwise(PeerAt[q], PeerAt[p]) <= Clockwise(PeerAt[r], PeerAt[p])],
    through |-> PeerAt[p]] : p \in peers}

Holds(arc, position) ==
  Clockwise(arc.after, position) <= Clockwise(arc.after, arc.through)

Overlaps(arc, other) == Holds(arc, other.through) \/ Holds(other, arc.through)

PartitionsOf(arc) == {p \in WordPartitions : Holds(arc, p)}

\* The peers of an arc's window: the first ones clockwise from its end.
WindowOf(arc, peers) ==
  {p \in peers : Cardinality({q \in peers :
       (PeerAt[q] - arc.through) % RingSize < (PeerAt[p] - arc.through) % RingSize})
     < Redundancy}

-----------------------------------------------------------------------------
(* States of arcs and workers *)

NewArc == [inBatch |-> FALSE, heldBack |-> FALSE, drainedUntil |-> 0, position |-> 0,
           signals |-> 0]

\* What a worker of a stage holds of a batch: its peers, its arc and the ring that arc is
\* of (or the ring to follow), whether the ring left that arc, the position it reads from
\* and the one it was picked with, the signals of the arc when it was picked, admissions
\* and due times read, the last chunk read, its offers, the peers it still sends to, its
\* alarm and the peers whose pause ended while it looked for one.
Empty == [stage |-> "listening", peers |-> {}, arc |-> NoArc, ring |-> {}, left |-> FALSE,
          at |-> 0, from |-> 0, signals |-> 0, seen |-> [p \in WordPartitions |-> 0],
          dueBy |-> {}, earliest |-> 0, read |-> {}, offers |-> {}, sending |-> {},
          alarm |-> Forever, missed |-> {}]

At(w, stage) == worker[w].stage = stage
BatchStages == {"picked", "scheduling", "searching", "ended", "settling", "offering",
                "sending"}
Stages == BatchStages \cup {"listening", "ready", "following", "picking", "waiting",
                           "sleeping"}
InBatch(w) == worker[w].stage \in BatchStages
LeftArcs == {worker[w].arc : w \in {v \in Workers : InBatch(v) /\ worker[v].left}}

IsPaused(peer) == clock < pausedUntil[peer]
IsExcluded(peer) == clock < excludedUntil[peer]
IsBusy(peer) == sends[peer] >= SendLimit
IsDrained(arc) == clock < arcs[arc].drainedUntil
IsFree(window) == \A p \in window : ~IsPaused(p) /\ ~IsBusy(p)

\* Fault: an arc in a batch may be picked again.
IsOpenThoughInBatch(arc) ==
  /\ ~arcs[arc].heldBack /\ ~IsDrained(arc) /\ IsFree(WindowOf(arc, ring))
  /\ \A left \in LeftArcs : ~Overlaps(left, arc)

\* Fault: batches of arcs the ring left are forgotten.
IsOpenOverLeftArcs(arc) ==
  /\ ~arcs[arc].inBatch /\ ~arcs[arc].heldBack /\ ~IsDrained(arc)
  /\ IsFree(WindowOf(arc, ring))

IsOpen(arc) ==
  /\ ~arcs[arc].inBatch /\ ~arcs[arc].heldBack /\ ~IsDrained(arc)
  /\ IsFree(WindowOf(arc, ring))
  /\ \A left \in LeftArcs : ~Overlaps(left, arc)

Init ==
  /\ clock = 1
  /\ reachable = Peers /\ accepting = Peers /\ rosterNews = FALSE
  /\ pausedUntil = [p \in Peers |-> 0] /\ unaccepted = [p \in Peers |-> 0]
  /\ excludedUntil = [p \in Peers |-> 0] /\ sends = [p \in Peers |-> 0]
  /\ admitted = [p \in WordPartitions |-> 0] /\ unsignalled = [p \in WordPartitions |-> 0]
  /\ due = [p \in WordPartitions |-> Forever] /\ retrying = {}
  /\ ring = {} /\ arcs = [a \in {} |-> NewArc] /\ lastPicked = NoArc
  /\ worker = [w \in Workers |-> Empty] /\ wake = [w \in Workers |-> FALSE]
  /\ unnoticed = {}
  /\ admissions = 0 /\ mishaps = 0

-----------------------------------------------------------------------------
(* Steps of a worker.  Each is one critical section of the walk, one transaction, one
   read of the roster, or one call to a peer. *)

Goes(w, stage) == worker' = [worker EXCEPT ![w].stage = stage]
GoesEmpty(w, stage) == worker' = [worker EXCEPT ![w] = [Empty EXCEPT !.stage = stage]]

\* The next round of a worker begins with the wake signal as it is then.
BeginsRound(w) ==
  GoesEmpty(w, "listening") /\ wake' = [wake EXCEPT ![w] = FALSE] /\ UNCHANGED unnoticed

WaitsUntil(w, alarm, missed) ==
  worker' = [worker EXCEPT ![w] = [Empty EXCEPT !.stage = "waiting", !.alarm = alarm,
                                                !.missed = missed]]

\* A change of the arc a worker works on; nobody sees an arc the ring left.
ArcOf(w) == arcs[worker[w].arc]
ChangedArc(w, changed) ==
  IF worker[w].left THEN arcs ELSE [arcs EXCEPT ![worker[w].arc] = changed]

\* Fault: only the workers that wait already are woken.
Waiting == {w \in Workers : At(w, "waiting")}

\* The workers that may still come to wait on the signal they took.
Listening == {w \in Workers : worker[w].stage \notin {"offering", "sending", "sleeping"}}
WakeWorkers == wake' = [w \in Workers |-> w \in Listening] /\ unnoticed' = {}

\* Peers that refuse a remote index, or are excluded, count as reachable all the same.
HasEnoughPeers == ~(Cardinality(reachable) < MinReachablePeers)

ReadReachablePeers(w) ==
  /\ At(w, "listening")
  /\ IF HasEnoughPeers
       THEN worker' = [worker EXCEPT ![w].stage = "ready", ![w].peers = accepting]
       ELSE WaitsUntil(w, Forever, {})
  /\ UNCHANGED <<clock, scheduleVars, peerVars, walkVars, wakeVars, bounds>>

\* Who is excluded is read at once for the ring to follow, and anew for offers.
ArcsAmong(w) ==
  /\ At(w, "ready")
  /\ worker' = [worker EXCEPT ![w].stage = "following",
                              ![w].ring = {p \in worker[w].peers : ~IsExcluded(p)}]
  /\ UNCHANGED <<clock, scheduleVars, peerVars, walkVars, wakeVars, bounds>>

\* An arc with the ends it had keeps its state; an arc in a batch that is left out is
\* remembered until the batch ends.
FollowRing(w) ==
  LET seedArcs == ArcsOf(worker[w].ring)
      leaves(v) == InBatch(v) /\ ~worker[v].left /\ worker[v].arc \notin seedArcs
      stays(v) == InBatch(v) /\ ~worker[v].left /\ worker[v].arc \in seedArcs
  IN
  /\ At(w, "following")
  /\ ring' = worker[w].ring
  /\ arcs' = [a \in seedArcs |-> IF a \in DOMAIN arcs THEN arcs[a] ELSE NewArc]
  /\ lastPicked' = IF lastPicked \in seedArcs THEN lastPicked ELSE NoArc
  /\ worker' = [v \in Workers |->
       IF v = w THEN [worker[v] EXCEPT !.stage = "picking", !.ring = {}]
       ELSE IF leaves(v) THEN [worker[v] EXCEPT !.left = TRUE]
       ELSE IF stays(v) THEN [worker[v] EXCEPT !.ring = worker[w].ring]
       ELSE worker[v]]
  /\ UNCHANGED <<clock, scheduleVars, peerVars, wakeVars, bounds>>

\* The open arc that comes first after the one picked last.
PickOpenArc(w) ==
  /\ At(w, "picking")
  /\ \E a \in {b \in DOMAIN arcs : IsOpen(b)} :
       /\ \A b \in DOMAIN arcs : IsOpen(b) =>
            Clockwise(lastPicked.through, a.through)
              <= Clockwise(lastPicked.through, b.through)
       /\ arcs' = [arcs EXCEPT ![a].inBatch = TRUE]
       /\ lastPicked' = a
       /\ worker' = [worker EXCEPT ![w].stage = "picked", ![w].arc = a, ![w].ring = ring,
            ![w].left = FALSE, ![w].at = arcs[a].position, ![w].from = arcs[a].position,
            ![w].signals = arcs[a].signals]
  /\ UNCHANGED <<clock, scheduleVars, peerVars, ring, wakeVars, bounds>>

\* Whether a pause is over is read anew for the alarm, later than for the openness of arcs.
EndingPauses == {p \in Peers : pausedUntil[p] = clock + 1}

\* Fault: the end of a drain sets no alarm.
PauseTimesOnly(ended) ==
  UNION {{pausedUntil[p] : p \in {q \in WindowOf(a, ring) \ ended : IsPaused(q)}} :
           a \in {b \in DOMAIN arcs : ~arcs[b].inBatch /\ ~arcs[b].heldBack}}

\* When some arc may open without a signal: its drain ends, or a pause in its window.
AlarmTimes(ended) ==
  LET waiting == {a \in DOMAIN arcs : ~arcs[a].inBatch /\ ~arcs[a].heldBack
                                        /\ arcs[a].drainedUntil < Forever}
      pausedIn(a) == {q \in WindowOf(a, ring) \ ended : IsPaused(q)}
  IN {arcs[a].drainedUntil : a \in {b \in waiting : IsDrained(b) /\ pausedIn(b) = {}
                                     /\ \A q \in WindowOf(b, ring) : ~IsBusy(q)}}
     \cup UNION {{pausedUntil[p] : p \in pausedIn(a)} : a \in waiting}

FindNoOpenArc(w) ==
  /\ At(w, "picking")
  /\ \A a \in DOMAIN arcs : ~IsOpen(a)
  /\ \E ended \in SUBSET EndingPauses :
       WaitsUntil(w, Min(AlarmTimes(ended) \cup {Forever}), ended)
  /\ UNCHANGED <<clock, scheduleVars, peerVars, walkVars, wakeVars, bounds>>

\* A word partition in retry keeps its due time, one that is due is not made due again.
ReadAdmissions(w) ==
  LET seen == [p \in WordPartitions |-> IF Holds(worker[w].arc, p) THEN admitted[p] ELSE 0]
      isAny == \E p \in WordPartitions : seen[p] > 0
  IN
  /\ At(w, "picked")
  /\ worker' = [worker EXCEPT ![w].stage = IF isAny THEN "scheduling" ELSE "searching",
       ![w].seen = seen,
       ![w].dueBy = {p \in WordPartitions : seen[p] > 0
                       /\ (due[p] = Forever \/ (p \notin retrying /\ due[p] > clock))}]
  /\ UNCHANGED <<clock, scheduleVars, peerVars, walkVars, wakeVars, bounds>>

MarkScheduled(amount, seen) == [p \in WordPartitions |-> amount[p] - seen[p]]

ScheduleAdmissions(w) ==
  /\ At(w, "scheduling")
  /\ due' = [p \in WordPartitions |-> IF p \in worker[w].dueBy THEN clock ELSE due[p]]
  /\ admitted' = MarkScheduled(admitted, worker[w].seen)
  /\ worker' = [worker EXCEPT ![w].stage = "searching", ![w].dueBy = {},
                              ![w].seen = Empty.seen]
  /\ UNCHANGED <<clock, unsignalled, retrying, peerVars, walkVars, wakeVars, bounds>>

WindowIsFree(w) == IsFree(WindowOf(worker[w].arc, worker[w].ring))

PutBack(w) ==
  /\ At(w, "searching") /\ ~WindowIsFree(w)
  /\ arcs' = ChangedArc(w, [ArcOf(w) EXCEPT !.inBatch = FALSE])
  /\ worker' = [worker EXCEPT ![w] = [Empty EXCEPT !.stage = "picking",
                                                   !.peers = worker[w].peers]]
  /\ UNCHANGED <<clock, scheduleVars, peerVars, ring, lastPicked, wakeVars, bounds>>

FreePeers(w) ==
  {p \in worker[w].peers : ~IsExcluded(p) /\ ~IsPaused(p) /\ ~IsBusy(p)}

\* One read of due entries from the worker's position, the offers made of it, and the
\* position the arc is moved to.  Entries whose recipients must be waited for give no
\* offer; a spent budget leaves out the entries after the last one kept.
ReadDueEntries(w) ==
  LET arc == worker[w].arc
      offset(p) == Clockwise(arc.after, p)
      ahead == {p \in PartitionsOf(arc) : due[p] <= clock /\ offset(p) > worker[w].at}
      entries == {p \in ahead : Cardinality({q \in ahead : offset(q) < offset(p)})
                                  < EntriesPerRead}
      reachedEnd == entries = ahead
      lastOf(S) == Max({offset(p) : p \in S})
  IN
  /\ At(w, "searching") /\ WindowIsFree(w)
  /\ \E offers \in SUBSET entries, isBudgetSpent \in BOOLEAN, recipients \in SUBSET FreePeers(w) :
       LET position == IF isBudgetSpent THEN lastOf(offers)
                       ELSE IF reachedEnd THEN 0 ELSE lastOf(entries)
       IN
       /\ (offers = {}) = (recipients = {})
       /\ isBudgetSpent => offers # {} /\ lastOf(offers) < lastOf(entries)
       /\ arcs' = ChangedArc(w, [ArcOf(w) EXCEPT !.position = position])
       /\ worker' = [worker EXCEPT ![w] =
            IF offers # {}
              THEN [Empty EXCEPT !.stage = "offering", !.arc = arc, !.ring = worker[w].ring,
                      !.left = worker[w].left, !.read = entries, !.offers = offers,
                      !.sending = recipients]
              ELSE [@ EXCEPT !.stage = IF reachedEnd THEN "ended" ELSE "searching",
                      !.at = position, !.read = entries]]
  /\ UNCHANGED <<clock, scheduleVars, peerVars, ring, lastPicked, wakeVars, bounds>>

ReadEarliestDue(w) ==
  /\ At(w, "ended")
  /\ worker' = [worker EXCEPT ![w].stage = "settling", ![w].read = {}, ![w].at = 0,
       ![w].earliest = Min({due[p] : p \in PartitionsOf(worker[w].arc)} \cup {Forever})]
  /\ UNCHANGED <<clock, scheduleVars, peerVars, walkVars, wakeVars, bounds>>

\* Fault: an admission signalled since the arc was picked is forgotten.
SettledBlindly(a, w) ==
  LET released == [a EXCEPT !.inBatch = FALSE, !.position = 0] IN
  IF worker[w].earliest > clock THEN [released EXCEPT !.drainedUntil = worker[w].earliest]
  ELSE IF worker[w].from = 0 THEN [released EXCEPT !.heldBack = TRUE]
  ELSE released

\* An arc read to its end is drained until its next due time, or until a signal.  One
\* that had something due from its beginning on, all of which must wait, is held back.
\* An admission signalled since the arc was picked keeps it open.
SettledArc(a, w) ==
  LET released == [a EXCEPT !.inBatch = FALSE, !.position = 0] IN
  IF a.signals # worker[w].signals THEN released
  ELSE IF worker[w].earliest > clock
    THEN [released EXCEPT !.drainedUntil = worker[w].earliest]
  ELSE IF worker[w].from = 0 THEN [released EXCEPT !.heldBack = TRUE]
  ELSE released

SettleReadEnd(w) ==
  /\ At(w, "settling")
  /\ arcs' = ChangedArc(w, SettledArc(ArcOf(w), w))
  /\ worker' = [worker EXCEPT ![w] = [Empty EXCEPT !.stage = "picking",
                                                   !.peers = worker[w].peers]]
  /\ WakeWorkers
  /\ UNCHANGED <<clock, scheduleVars, peerVars, ring, lastPicked, bounds>>

Send(w) ==
  /\ At(w, "offering")
  /\ Goes(w, "sending")
  /\ sends' = [p \in Peers |-> sends[p] + IF p \in worker[w].sending THEN 1 ELSE 0]
  /\ UNCHANGED <<clock, scheduleVars, rosterVars, pausedUntil, unaccepted, excludedUntil,
                 walkVars, wakeVars, bounds>>

\* What is held against the peer is forgotten.
OfferAccepted(p) ==
  /\ pausedUntil' = [pausedUntil EXCEPT ![p] = 0]
  /\ unaccepted' = [unaccepted EXCEPT ![p] = 0]
  /\ excludedUntil' = [excludedUntil EXCEPT ![p] = 0]
  /\ unnoticed' = IF excludedUntil[p] = 0 THEN unnoticed ELSE unnoticed \cup {p}

\* Too many in a row exclude the peer, unless it is excluded already.  The count stays, so
\* the first one after the exclusion excludes it again.
RecordUnacceptedOffer(p) ==
  LET limit == UnacceptedOffersBeforeExclusion
      inARow == IF unaccepted[p] < limit THEN unaccepted[p] + 1 ELSE limit
      wasExcluded == inARow = limit /\ ~IsExcluded(p)
  IN
  /\ pausedUntil' = [pausedUntil EXCEPT ![p] = clock + Pause]
  /\ unaccepted' = [unaccepted EXCEPT ![p] = inARow]
  /\ excludedUntil' =
       [excludedUntil EXCEPT ![p] = IF wasExcluded THEN clock + ExclusionDuration ELSE @]
  /\ unnoticed' = IF wasExcluded THEN unnoticed \cup {p} ELSE unnoticed

SendEnds(w, p) ==
  /\ At(w, "sending") /\ p \in worker[w].sending
  /\ worker' = [worker EXCEPT ![w].sending = @ \ {p}]
  /\ sends' = [sends EXCEPT ![p] = @ - 1]
  /\ \/ OfferAccepted(p) /\ UNCHANGED mishaps
     \/ /\ mishaps < MaxMishaps /\ clock + Pause <= MaxClock
        /\ RecordUnacceptedOffer(p) /\ mishaps' = mishaps + 1
  /\ UNCHANGED <<clock, scheduleVars, rosterVars, walkVars, wake, admissions>>

DueAfter(w, short, handedOff, wait) ==
  [p \in WordPartitions |->
     IF p \notin worker[w].offers THEN due[p]
     ELSE IF p \in handedOff THEN Forever
     ELSE clock + IF p \in short THEN RetryDelay ELSE wait]

\* The batch is written down: some word partitions end short of redundancy and are
\* retried, some are handed off and forgotten, the others are due again within the
\* refresh interval.  Then its arc is let go.  Until then nobody looks at what it wrote.
CompleteBatch(w) ==
  LET ofCompleted == ChangedArc(w, [ArcOf(w) EXCEPT !.inBatch = FALSE]) IN
  /\ At(w, "sending") /\ worker[w].sending = {}
  /\ \E short \in SUBSET worker[w].offers :
     \E handedOff \in SUBSET (worker[w].offers \ short), wait \in 1 .. RefreshInterval :
       /\ due' = DueAfter(w, short, handedOff, wait)
       /\ retrying' = (retrying \ worker[w].offers) \cup short
  /\ arcs' = [a \in DOMAIN arcs |-> [ofCompleted[a] EXCEPT !.heldBack = FALSE]]
  /\ GoesEmpty(w, "listening")
  /\ WakeWorkers
  /\ UNCHANGED <<clock, admitted, unsignalled, peerVars, ring, lastPicked, bounds>>

\* The vault fails a read or the writing of a batch: its arc is let go at once, and the
\* worker sleeps.
Abandon(w) ==
  /\ mishaps < MaxMishaps /\ mishaps' = mishaps + 1
  /\ \/ worker[w].stage \in {"picked", "scheduling", "searching", "ended"}
     \/ At(w, "sending") /\ worker[w].sending = {}
  /\ arcs' = ChangedArc(w, [ArcOf(w) EXCEPT !.inBatch = FALSE, !.position = 0])
  /\ GoesEmpty(w, "sleeping")
  /\ UNCHANGED <<clock, scheduleVars, peerVars, ring, lastPicked, wakeVars, admissions>>

EndSleep(w) ==
  /\ At(w, "sleeping") /\ BeginsRound(w)
  /\ UNCHANGED <<clock, scheduleVars, peerVars, walkVars, bounds>>

EndWait(w) ==
  /\ At(w, "waiting") /\ (wake[w] \/ worker[w].alarm <= clock)
  /\ BeginsRound(w)
  /\ UNCHANGED <<clock, scheduleVars, peerVars, walkVars, bounds>>

-----------------------------------------------------------------------------
(* What happens beside the workers *)

\* A posting is admitted: counted in its transaction, signalled after the commit.
Admit(p) ==
  /\ admissions < MaxAdmissions /\ admissions' = admissions + 1
  /\ admitted' = [admitted EXCEPT ![p] = @ + 1]
  /\ unsignalled' = [unsignalled EXCEPT ![p] = @ + 1]
  /\ UNCHANGED <<clock, due, retrying, peerVars, walkVars, worker, wakeVars, mishaps>>

\* Fault: the workers sleep on when an arc is drained no more.
WakesForHeldBack(holding) == \E a \in holding : arcs[a].heldBack

MustWake(holding) == \E a \in holding : arcs[a].heldBack \/ IsDrained(a)

SignalAdmission(p) ==
  LET reopened(a) == [a EXCEPT !.signals = @ + 1, !.drainedUntil = 0, !.heldBack = FALSE]
      holding == {a \in DOMAIN arcs : Holds(a, p)}
  IN
  /\ unsignalled[p] > 0
  /\ unsignalled' = [unsignalled EXCEPT ![p] = @ - 1]
  /\ arcs' = [a \in DOMAIN arcs |-> IF a \in holding THEN reopened(arcs[a]) ELSE arcs[a]]
  /\ IF MustWake(holding) THEN WakeWorkers ELSE UNCHANGED wakeVars
  /\ UNCHANGED <<clock, admitted, due, retrying, peerVars, ring, lastPicked, worker, bounds>>

\* A contact answered: its seed is kept, and says whether the peer accepts.
ConfirmReachable(p) ==
  /\ reachable' = reachable \cup {p}
  /\ accepting' \in {accepting \cup {p}, accepting \ {p}}
  /\ rosterNews' = TRUE /\ UNCHANGED unnoticed

\* A contact failed.
ConfirmUnreachable(p) ==
  /\ reachable' = reachable \ {p} /\ accepting' = accepting \ {p}
  /\ rosterNews' = TRUE /\ UNCHANGED unnoticed

\* A peer whose stored addresses changed is evicted; nobody is told.
EvictMoved(p) ==
  /\ p \in reachable
  /\ reachable' = reachable \ {p} /\ accepting' = accepting \ {p}
  /\ unnoticed' = unnoticed \cup {p} /\ UNCHANGED rosterNews

\* A newer seed came by gossip, which may accept or refuse otherwise; nobody is told.
KeepGossipSeed(p) ==
  /\ p \in reachable
  /\ accepting' = IF p \in accepting THEN accepting \ {p} ELSE accepting \cup {p}
  /\ unnoticed' = unnoticed \cup {p} /\ UNCHANGED <<reachable, rosterNews>>

ChangeRoster(p) ==
  /\ mishaps < MaxMishaps /\ mishaps' = mishaps + 1
  /\ ConfirmReachable(p) \/ ConfirmUnreachable(p) \/ EvictMoved(p) \/ KeepGossipSeed(p)
  /\ UNCHANGED <<clock, scheduleVars, eligibilityVars, walkVars, worker, wake, admissions>>

\* A confirmed contact and a failed one wake the workers.
SignalReachablePeers ==
  /\ rosterNews /\ rosterNews' = FALSE
  /\ WakeWorkers
  /\ UNCHANGED <<clock, scheduleVars, reachable, accepting, eligibilityVars, walkVars, worker,
                 bounds>>

Tick ==
  /\ clock < MaxClock /\ clock' = clock + 1
  /\ UNCHANGED <<scheduleVars, peerVars, walkVars, worker, wakeVars, bounds>>

\* The vault stays; the walk, the workers and what is known of peers begin anew.
Restart ==
  /\ mishaps < MaxMishaps /\ mishaps' = mishaps + 1
  /\ unsignalled' = [p \in WordPartitions |-> 0]
  /\ reachable' = {} /\ accepting' = {} /\ rosterNews' = FALSE
  /\ pausedUntil' = [p \in Peers |-> 0] /\ unaccepted' = [p \in Peers |-> 0]
  /\ excludedUntil' = [p \in Peers |-> 0] /\ sends' = [p \in Peers |-> 0]
  /\ ring' = {} /\ arcs' = [a \in {} |-> NewArc] /\ lastPicked' = NoArc
  /\ worker' = [w \in Workers |-> Empty] /\ wake' = [w \in Workers |-> FALSE]
  /\ unnoticed' = {}
  /\ UNCHANGED <<clock, admitted, due, retrying, admissions>>

WorkerStep(w) ==
  \/ ReadReachablePeers(w) \/ ArcsAmong(w) \/ FollowRing(w)
  \/ PickOpenArc(w) \/ FindNoOpenArc(w) \/ ReadAdmissions(w) \/ ScheduleAdmissions(w)
  \/ PutBack(w) \/ ReadDueEntries(w) \/ ReadEarliestDue(w) \/ SettleReadEnd(w)
  \/ Send(w) \/ CompleteBatch(w) \/ Abandon(w) \/ EndSleep(w) \/ EndWait(w)
  \/ \E p \in Peers : SendEnds(w, p)

Next ==
  \/ \E w \in Workers : WorkerStep(w)
  \/ \E p \in WordPartitions : Admit(p) \/ SignalAdmission(p)
  \/ \E p \in MovingPeers : ChangeRoster(p)
  \/ SignalReachablePeers \/ Tick \/ Restart

Spec == Init /\ [][Next]_vars

\* Workers run for the life of the node; sends time out; what is signalled after a commit
\* is signalled; the clock goes on.
FairSpec ==
  /\ Spec
  /\ \A w \in Workers : WF_vars(WorkerStep(w))
  /\ \A p \in WordPartitions : WF_vars(SignalAdmission(p))
  /\ WF_vars(SignalReachablePeers) /\ WF_vars(Tick)

-----------------------------------------------------------------------------
(* Properties *)

\* Every variable has its type; an arc in a batch is the arc of exactly one worker
\* (isInBatch in arcWalk is a flag without an owner).
TypeOK ==
  /\ clock \in 1 .. MaxClock /\ rosterNews \in BOOLEAN
  /\ accepting \subseteq reachable /\ reachable \subseteq Peers /\ unnoticed \subseteq Peers
  /\ pausedUntil \in [Peers -> 0 .. MaxClock] /\ sends \in [Peers -> 0 .. Cardinality(Workers)]
  /\ unaccepted \in [Peers -> 0 .. UnacceptedOffersBeforeExclusion]
  /\ excludedUntil \in [Peers -> 0 .. MaxClock + ExclusionDuration]
  /\ admitted \in [WordPartitions -> 0 .. MaxAdmissions]
  /\ unsignalled \in [WordPartitions -> 0 .. MaxAdmissions]
  /\ due \in [WordPartitions -> Times] /\ retrying \subseteq WordPartitions
  /\ ring \subseteq Peers /\ DOMAIN arcs = ArcsOf(ring)
  /\ lastPicked \in DOMAIN arcs \cup {NoArc}
  /\ \A a \in DOMAIN arcs :
       /\ arcs[a] \in [inBatch : BOOLEAN, heldBack : BOOLEAN, drainedUntil : Times,
                       position : 0 .. RingSize, signals : 0 .. MaxAdmissions]
       /\ Cardinality({w \in Workers : InBatch(w) /\ ~worker[w].left /\ worker[w].arc = a})
            = IF arcs[a].inBatch THEN 1 ELSE 0
  /\ \A w \in Workers : worker[w].stage \in Stages /\ wake[w] \in BOOLEAN

\* No part of the ring is in two batches at the same time, also when the peers change
\* under the batches (rwidistribution/README.md; leftArcs of arcWalk).
NoPartInTwoBatches ==
  \A v, w \in Workers : v # w /\ InBatch(v) /\ InBatch(w)
    => ~Overlaps(worker[v].arc, worker[w].arc)

\* An arc that is drained has nothing the walk should look at before the drain ends: no
\* word partition due earlier, and no admission but those whose signal is still to come
\* (settleReadEnd against signalAdmission).
DrainedArcsHaveNothing ==
  \A a \in DOMAIN arcs : IsDrained(a) /\ ~arcs[a].inBatch =>
    \A p \in PartitionsOf(a) :
      /\ due[p] >= arcs[a].drainedUntil
      /\ admitted[p] <= unsignalled[p]

\* A worker that does nothing before a signal or its alarm.
IsAsleep(w) == At(w, "waiting") /\ ~wake[w] /\ clock < worker[w].alarm

IsPauseWatched(arc) ==
  \E q \in WindowOf(arc, ring), w \in Workers :
    IsPaused(q) /\ worker[w].alarm <= pausedUntil[q]

\* A pause in the window ended while a worker looked for its alarm.
IsPauseMissed(arc) == \E w \in Workers : worker[w].missed \cap WindowOf(arc, ring) # {}

\* The peers are those that accept and are not excluded, but for what nobody was woken for:
\* an exclusion that ended, and what is still unnoticed.
AreRecipients(peers) ==
  \A p \in Peers \ unnoticed :
    /\ p \in peers => p \in accepting /\ ~IsExcluded(p)
    /\ p \in accepting /\ excludedUntil[p] = 0 => p \in peers

\* While every worker sleeps, no wake-up was lost: the walk is over the ring of the peers
\* that accept and are not excluded, each word partition is in an arc of that ring, and if
\* the arc does not wait for a peer whose pause somebody has an alarm for, its admissions
\* are scheduled but for those whose signal is still to come, and what will be due has an
\* alarm or is held back ("no worker polls", loop.go; nextAlarm and wakeWorkers of arcWalk).
\* What the code has no signal for is named: see unnoticed, IsPauseMissed, AreRecipients.
NobodySleepsOnWork ==
  (\A w \in Workers : IsAsleep(w)) /\ HasEnoughPeers /\ ~rosterNews =>
    /\ AreRecipients(ring)
    /\ ring # {} => \A p \in WordPartitions : \E a \in DOMAIN arcs :
         /\ Holds(a, p)
         /\ \/ IsPauseWatched(a) \/ IsPauseMissed(a)
            \/ /\ admitted[p] <= unsignalled[p]
               /\ \/ arcs[a].heldBack \/ due[p] = Forever
                  \/ \E w \in Workers : worker[w].alarm <= due[p]

\* Some peer accepts and was not excluded since it accepted an offer last.
CanSend == HasEnoughPeers /\ \E p \in accepting : excludedUntil[p] = 0

\* No pause ended while a worker that still waits looked for its alarm.
NoPauseIsMissed == \A w \in Workers : worker[w].missed = {}

\* An admission is scheduled in the end, unless the node runs out of peers or an alarm
\* missed the end of a pause: no wake-up is lost between reading an arc, settling its end
\* and waiting.
AdmissionsAreScheduled ==
  \A p \in WordPartitions :
    admitted[p] > 0 ~> (admitted[p] = 0 \/ ~CanSend \/ ~NoPauseIsMissed)

\* A word partition that is due is read from its arc in the end, unless the arc is held
\* back, the node runs out of peers or an alarm missed the end of a pause: drains end by
\* themselves, by alarms.
DueIsRead ==
  \A p \in WordPartitions : due[p] <= clock ~>
    \/ due[p] > clock \/ ~CanSend \/ ~NoPauseIsMissed
    \/ \E w \in Workers : p \in worker[w].read
    \/ \E a \in DOMAIN arcs : Holds(a, p) /\ arcs[a].heldBack
=============================================================================
