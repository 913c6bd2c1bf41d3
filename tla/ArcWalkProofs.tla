--------------------------- MODULE ArcWalkProofs ---------------------------
(***************************************************************************)
(* Proofs about ArcWalk, for any ring, peers, word partitions, workers,    *)
(* limits and bounds.                                                      *)
(***************************************************************************)
EXTENDS ArcWalk, TLAPS, WellFoundedInduction

-----------------------------------------------------------------------------
(* Arcs of a ring *)

IsArc(arc) == arc.after \in Positions /\ arc.through \in Positions

LEMMA RingIsThere ==
  /\ RingSize \in Nat \ {0} /\ Positions = 0 .. RingSize - 1
  /\ \A p \in Peers : PeerAt[p] \in Positions
BY WalkAssumption DEF Positions

LEMMA ClockwiseType ==
  ASSUME NEW from \in Positions, NEW to \in Positions
  PROVE  Clockwise(from, to) \in 1 .. RingSize
BY RingIsThere DEF Clockwise

\* An arc holds its own end.
LEMMA OverlapsItself ==
  ASSUME NEW arc, IsArc(arc)
  PROVE  Overlaps(arc, arc)
<1>1. Clockwise(arc.after, arc.through) \in 1 .. RingSize
  BY ClockwiseType DEF IsArc
<1> QED
  BY <1>1, RingIsThere DEF Overlaps, Holds

LEMMA OverlapsBothWays ==
  ASSUME NEW arc, NEW other
  PROVE  Overlaps(arc, other) <=> Overlaps(other, arc)
BY DEF Overlaps

\* Arcs that share a position overlap: the end of one of them comes first.
LEMMA SharersOverlap ==
  ASSUME NEW arc, NEW other, IsArc(arc), IsArc(other), NEW p \in Positions,
         Holds(arc, p), Holds(other, p)
  PROVE  Overlaps(arc, other)
<1> SUFFICES ASSUME NEW a \in Positions, NEW b \in Positions,
                    NEW c \in Positions, NEW d \in Positions,
                    Clockwise(a, p) <= Clockwise(a, b), Clockwise(c, p) <= Clockwise(c, d)
             PROVE  Clockwise(a, d) <= Clockwise(a, b) \/ Clockwise(c, b) <= Clockwise(c, d)
  BY DEF Overlaps, Holds, IsArc
<1> QED
  BY RingIsThere DEF Clockwise

Predecessor(peers, p) ==
  CHOOSE q \in peers : \A r \in peers :
    Clockwise(PeerAt[q], PeerAt[p]) <= Clockwise(PeerAt[r], PeerAt[p])

LEMMA PredecessorIsClosest ==
  ASSUME NEW peers \in SUBSET Peers, NEW p \in peers
  PROVE  /\ Predecessor(peers, p) \in peers
         /\ \A r \in peers : Clockwise(PeerAt[Predecessor(peers, p)], PeerAt[p])
                               <= Clockwise(PeerAt[r], PeerAt[p])
<1> DEFINE Steps == {Clockwise(PeerAt[q], PeerAt[p]) : q \in peers}
<1>1. Steps \subseteq Nat /\ Steps # {}
  <2>1. \A q \in peers : Clockwise(PeerAt[q], PeerAt[p]) \in Nat
    <3> TAKE q \in peers
    <3>1. PeerAt[q] \in Positions /\ PeerAt[p] \in Positions
      BY RingIsThere
    <3>2. Clockwise(PeerAt[q], PeerAt[p]) \in 1 .. RingSize
      BY <3>1, ClockwiseType
    <3> QED
      BY <3>2, RingIsThere
  <2> QED
    BY <2>1
<1>2. PICK n \in Steps : \A m \in Steps : ~(<<m, n>> \in OpToRel(<, Nat))
  BY <1>1, NatLessThanWellFounded, WFMin
<1>3. \A m \in Steps : n <= m
  <2> TAKE m \in Steps
  <2>1. m \in Nat /\ n \in Nat /\ ~(m < n)
    BY <1>1, <1>2 DEF OpToRel
  <2> HIDE DEF Steps
  <2> QED
    BY <2>1
<1>4. PICK q \in peers : Clockwise(PeerAt[q], PeerAt[p]) = n
  OBVIOUS
<1>5. \A r \in peers : Clockwise(PeerAt[q], PeerAt[p]) <= Clockwise(PeerAt[r], PeerAt[p])
  BY <1>3, <1>4
<1> QED
  BY <1>5 DEF Predecessor

LEMMA ArcsOfPeers ==
  ASSUME NEW peers \in SUBSET Peers
  PROVE  ArcsOf(peers) =
           {[after |-> PeerAt[Predecessor(peers, p)], through |-> PeerAt[p]] : p \in peers}
BY DEF ArcsOf, Predecessor

LEMMA ArcsAreArcs ==
  ASSUME NEW peers \in SUBSET Peers, NEW arc \in ArcsOf(peers)
  PROVE  IsArc(arc)
BY ArcsOfPeers, PredecessorIsClosest, RingIsThere DEF IsArc

\* Two arcs of one ring do not overlap: no peer lies within the arc of another.
LEMMA ArcsAreApart ==
  ASSUME NEW peers \in SUBSET Peers, NEW arc \in ArcsOf(peers),
         NEW other \in ArcsOf(peers), arc # other
  PROVE  ~Overlaps(arc, other)
<1>1. ASSUME NEW p \in peers, NEW q \in peers, p # q
      PROVE  Clockwise(PeerAt[Predecessor(peers, p)], PeerAt[q])
               > Clockwise(PeerAt[Predecessor(peers, p)], PeerAt[p])
  <2>1. /\ PeerAt[p] \in Positions /\ PeerAt[q] \in Positions /\ PeerAt[p] # PeerAt[q]
        /\ PeerAt[Predecessor(peers, p)] \in Positions
        /\ Clockwise(PeerAt[Predecessor(peers, p)], PeerAt[p]) <= Clockwise(PeerAt[q], PeerAt[p])
    BY <1>1, PredecessorIsClosest, RingIsThere, WalkAssumption
  <2>2. ASSUME NEW a \in Positions, NEW b \in Positions, NEW c \in Positions, b # c,
               Clockwise(a, b) <= Clockwise(c, b)
        PROVE  Clockwise(a, c) > Clockwise(a, b)
    BY <2>2, RingIsThere DEF Clockwise
  <2> QED
    BY <2>1, <2>2
<1>2. PICK p \in peers, q \in peers :
        /\ arc = [after |-> PeerAt[Predecessor(peers, p)], through |-> PeerAt[p]]
        /\ other = [after |-> PeerAt[Predecessor(peers, q)], through |-> PeerAt[q]]
  BY ArcsOfPeers
<1>3. p # q
  BY <1>2
<1>4. /\ PeerAt[p] \in Positions /\ PeerAt[q] \in Positions
      /\ PeerAt[Predecessor(peers, p)] \in Positions /\ PeerAt[Predecessor(peers, q)] \in Positions
  BY PredecessorIsClosest, RingIsThere
<1>5. /\ Clockwise(arc.after, other.through) > Clockwise(arc.after, arc.through)
      /\ Clockwise(other.after, arc.through) > Clockwise(other.after, other.through)
  BY <1>1, <1>2, <1>3
<1>6. \A a, b \in Positions : Clockwise(a, b) \in Int
  BY ClockwiseType
<1>7. arc.after \in Positions /\ other.after \in Positions /\ arc.through \in Positions
      /\ other.through \in Positions
  BY <1>2, <1>4
<1> QED
  BY <1>5, <1>6, <1>7 DEF Overlaps, Holds

-----------------------------------------------------------------------------
(* Types *)

IsWorker(r) ==
  /\ DOMAIN r = DOMAIN Empty
  /\ r.peers \in SUBSET Peers /\ r.ring \in SUBSET Peers /\ r.seen \in [WordPartitions -> Int]
  /\ r.earliest \in Nat /\ r.signals \in Nat

WorkerTypes == DOMAIN worker = Workers /\ \A w \in Workers : IsWorker(worker[w])

ArcTypes ==
  /\ ring \in SUBSET Peers
  /\ DOMAIN arcs = ArcsOf(ring)
  /\ \A a \in ArcsOf(ring) : /\ DOMAIN arcs[a] = DOMAIN NewArc
                             /\ arcs[a].drainedUntil \in Nat /\ arcs[a].signals \in Nat

ScheduleTypes ==
  /\ clock \in Nat /\ accepting \in SUBSET Peers
  /\ admitted \in [WordPartitions -> Int] /\ unsignalled \in [WordPartitions -> Nat]
  /\ due \in [WordPartitions -> Nat]

Types == WorkerTypes /\ ArcTypes /\ ScheduleTypes

LEMMA NumbersOfTheWalk ==
  /\ RetryDelay \in Nat /\ RefreshInterval \in Nat /\ Pause \in Nat /\ MaxClock \in Nat
  /\ Forever \in Nat /\ Forever > MaxClock
BY WalkAssumption DEF Forever

LEMMA Fields ==
  /\ DOMAIN Empty = {"stage", "peers", "arc", "ring", "left", "at", "from", "signals", "seen",
                     "dueBy", "earliest", "read", "offers", "sending", "alarm", "missed"}
  /\ DOMAIN NewArc = {"inBatch", "heldBack", "drainedUntil", "position", "signals"}
BY DEF Empty, NewArc

LEMMA EmptyIsTyped ==
  /\ Empty.peers = {} /\ Empty.ring = {} /\ Empty.seen \in [WordPartitions -> Int]
  /\ Empty.earliest = 0 /\ Empty.signals = 0 /\ Empty.stage = "listening"
BY DEF Empty

LEMMA TypesAtFirst == Init => Types
BY EmptyIsTyped, NumbersOfTheWalk
DEF Init, Types, WorkerTypes, IsWorker, ArcTypes, ScheduleTypes, ArcsOf

-----------------------------------------------------------------------------
(* What a step of a worker makes of its record *)

Becomes(w, r) ==
  /\ DOMAIN worker' = Workers /\ worker'[w] = r
  /\ \A v \in Workers \ {w} : worker'[v] = worker[v]

SeenBy(w) == [p \in WordPartitions |-> IF Holds(worker[w].arc, p) THEN admitted[p] ELSE 0]

DueBySeen(w) == {p \in WordPartitions : SeenBy(w)[p] > 0
                   /\ (due[p] = Forever \/ (p \notin retrying /\ due[p] > clock))}

EarliestDue(w) == Min({due[p] : p \in PartitionsOf(worker[w].arc)} \cup {Forever})

Waits(w) ==
  \E t, missed :
    Becomes(w, [Empty EXCEPT !.stage = "waiting", !.alarm = t, !.missed = missed])
Follows(w) ==
  \E peers \in SUBSET worker[w].peers :
    Becomes(w, [worker[w] EXCEPT !.stage = "following", !.ring = peers])
Begins(w, stage) == Becomes(w, [Empty EXCEPT !.stage = stage])
GoesPicking(w) == Becomes(w, [Empty EXCEPT !.stage = "picking", !.peers = worker[w].peers])

LEMMA RecordsBetweenBatches ==
  ASSUME WorkerTypes, NEW w \in Workers
  PROVE  /\ ReadReachablePeers(w) =>
              Waits(w) \/ Becomes(w, [worker[w] EXCEPT !.stage = "ready", !.peers = accepting])
         /\ ArcsAmong(w) => Follows(w)
         /\ FindNoOpenArc(w) => Waits(w)
         /\ EndSleep(w) \/ EndWait(w) => Begins(w, "listening")
         /\ PutBack(w) \/ SettleReadEnd(w) => GoesPicking(w)
         /\ CompleteBatch(w) => Begins(w, "listening")
         /\ Abandon(w) => Begins(w, "sleeping")
<1>1. ReadReachablePeers(w) =>
        Waits(w) \/ Becomes(w, [worker[w] EXCEPT !.stage = "ready", !.peers = accepting])
  BY DEF ReadReachablePeers, WaitsUntil, Becomes, WorkerTypes, Waits
<1>2. FindNoOpenArc(w) => Waits(w)
  BY DEF FindNoOpenArc, WaitsUntil, Becomes, WorkerTypes, Waits
<1>8. ArcsAmong(w) => Follows(w)
  <2>1. {p \in worker[w].peers : ~IsExcluded(p)} \in SUBSET worker[w].peers
    OBVIOUS
  <2>2. ArcsAmong(w) => Becomes(w, [worker[w] EXCEPT !.stage = "following",
                                      !.ring = {p \in worker[w].peers : ~IsExcluded(p)}])
    BY DEF ArcsAmong, Becomes, WorkerTypes
  <2> QED
    BY <2>1, <2>2 DEF Follows
<1>3. EndSleep(w) \/ EndWait(w) => Begins(w, "listening")
  BY DEF EndSleep, EndWait, BeginsRound, GoesEmpty, Becomes, WorkerTypes, Begins
<1>4. PutBack(w) => GoesPicking(w)
  BY DEF PutBack, Becomes, WorkerTypes, GoesPicking
<1>5. SettleReadEnd(w) => GoesPicking(w)
  BY DEF SettleReadEnd, Becomes, WorkerTypes, GoesPicking
<1>6. CompleteBatch(w) => Begins(w, "listening")
  BY DEF CompleteBatch, GoesEmpty, Becomes, WorkerTypes, Begins
<1>7. Abandon(w) => Begins(w, "sleeping")
  BY DEF Abandon, GoesEmpty, Becomes, WorkerTypes, Begins
<1> QED
  BY <1>1, <1>2, <1>3, <1>4, <1>5, <1>6, <1>7, <1>8

Picks(w, a) ==
  Becomes(w, [worker[w] EXCEPT !.stage = "picked", !.arc = a, !.ring = ring, !.left = FALSE,
                !.at = arcs[a].position, !.from = arcs[a].position,
                !.signals = arcs[a].signals])

Reads(w) ==
  \/ \E entries \in SUBSET PartitionsOf(worker[w].arc) :
       \E offers \in SUBSET entries : \E recipients :
         Becomes(w, [Empty EXCEPT !.stage = "offering", !.arc = worker[w].arc,
           !.ring = worker[w].ring, !.left = worker[w].left, !.read = entries,
           !.offers = offers, !.sending = recipients])
  \/ \E stage \in {"ended", "searching"} : \E position, entries :
       Becomes(w, [worker[w] EXCEPT !.stage = stage, !.at = position, !.read = entries])

LEMMA RecordsInBatch ==
  ASSUME WorkerTypes, NEW w \in Workers
  PROVE  /\ ReadAdmissions(w) =>
              \/ Becomes(w, [worker[w] EXCEPT !.stage = "scheduling", !.seen = SeenBy(w),
                                              !.dueBy = DueBySeen(w)])
              \/ /\ \A p \in WordPartitions : ~(SeenBy(w)[p] > 0)
                 /\ Becomes(w, [worker[w] EXCEPT !.stage = "searching", !.seen = SeenBy(w),
                                                 !.dueBy = DueBySeen(w)])
         /\ ScheduleAdmissions(w) =>
              Becomes(w, [worker[w] EXCEPT !.stage = "searching", !.dueBy = {},
                                           !.seen = Empty.seen])
         /\ ReadDueEntries(w) => Reads(w)
         /\ ReadEarliestDue(w) =>
              Becomes(w, [worker[w] EXCEPT !.stage = "settling", !.read = {}, !.at = 0,
                                           !.earliest = EarliestDue(w)])
         /\ Send(w) => Becomes(w, [worker[w] EXCEPT !.stage = "sending"])
         /\ \A p \in Peers : SendEnds(w, p) =>
              Becomes(w, [worker[w] EXCEPT !.sending = worker[w].sending \ {p}])
<1>2. ReadAdmissions(w) =>
              \/ Becomes(w, [worker[w] EXCEPT !.stage = "scheduling", !.seen = SeenBy(w),
                                              !.dueBy = DueBySeen(w)])
              \/ /\ \A p \in WordPartitions : ~(SeenBy(w)[p] > 0)
                 /\ Becomes(w, [worker[w] EXCEPT !.stage = "searching", !.seen = SeenBy(w),
                                                 !.dueBy = DueBySeen(w)])
  <2> SUFFICES ASSUME ReadAdmissions(w)
               PROVE  LET isAny == \E p \in WordPartitions : SeenBy(w)[p] > 0 IN
                      Becomes(w, [worker[w] EXCEPT
                        !.stage = IF isAny THEN "scheduling" ELSE "searching",
                        !.seen = SeenBy(w), !.dueBy = DueBySeen(w)])
    OBVIOUS
  <2> QED
    BY DEF ReadAdmissions, Becomes, WorkerTypes, SeenBy, DueBySeen
<1>3. ScheduleAdmissions(w) =>
              Becomes(w, [worker[w] EXCEPT !.stage = "searching", !.dueBy = {},
                                           !.seen = Empty.seen])
  BY DEF ScheduleAdmissions, Becomes, WorkerTypes
<1>4. ReadDueEntries(w) => Reads(w)
  <2> SUFFICES ASSUME ReadDueEntries(w) PROVE Reads(w)
    OBVIOUS
  <2> DEFINE arc == worker[w].arc
             offset(p) == Clockwise(arc.after, p)
             ahead == {p \in PartitionsOf(arc) : due[p] <= clock /\ offset(p) > worker[w].at}
             entries == {p \in ahead : Cardinality({q \in ahead : offset(q) < offset(p)})
                                         < EntriesPerRead}
             reachedEnd == entries = ahead
  <2>1. PICK offers, recipients, position :
          /\ offers \in SUBSET entries
          /\ worker' = [worker EXCEPT ![w] =
               IF offers # {}
                 THEN [Empty EXCEPT !.stage = "offering", !.arc = arc, !.ring = worker[w].ring,
                         !.left = worker[w].left, !.read = entries, !.offers = offers,
                         !.sending = recipients]
                 ELSE [worker[w] EXCEPT !.stage = IF reachedEnd THEN "ended" ELSE "searching",
                         !.at = position, !.read = entries]]
    BY Zenon DEF ReadDueEntries
  <2>2. entries \in SUBSET PartitionsOf(arc)
    OBVIOUS
  <2> HIDE DEF entries, reachedEnd
  <2>3. CASE offers # {}
    BY <2>1, <2>2, <2>3 DEF Becomes, WorkerTypes, Reads
  <2>4. CASE offers = {}
    <3>1. Becomes(w, [worker[w] EXCEPT !.stage = IF reachedEnd THEN "ended" ELSE "searching",
                        !.at = position, !.read = entries])
      BY <2>1, <2>4 DEF Becomes, WorkerTypes
    <3> QED
      BY <3>1 DEF Reads
  <2> QED
    BY <2>3, <2>4
<1>5. ReadEarliestDue(w) =>
              Becomes(w, [worker[w] EXCEPT !.stage = "settling", !.read = {}, !.at = 0,
                                           !.earliest = EarliestDue(w)])
  BY DEF ReadEarliestDue, Becomes, WorkerTypes, EarliestDue
<1>6. Send(w) => Becomes(w, [worker[w] EXCEPT !.stage = "sending"])
  BY DEF Send, Goes, Becomes, WorkerTypes
<1>7. \A p \in Peers : SendEnds(w, p) =>
              Becomes(w, [worker[w] EXCEPT !.sending = worker[w].sending \ {p}])
  BY DEF SendEnds, Becomes, WorkerTypes
<1> QED
  BY <1>2, <1>3, <1>4, <1>5, <1>6, <1>7

-----------------------------------------------------------------------------
(* What a step makes of the arcs *)

Owns(w, a) == ~worker[w].left /\ a = worker[w].arc

SameButBatch(a) ==
  /\ DOMAIN arcs'[a] = DOMAIN NewArc
  /\ arcs'[a].drainedUntil = arcs[a].drainedUntil /\ arcs'[a].signals = arcs[a].signals

SameArc(a) == SameButBatch(a) /\ arcs'[a].inBatch = arcs[a].inBatch

KeepsArcs == DOMAIN arcs' = DOMAIN arcs /\ \A a \in DOMAIN arcs : SameArc(a)

\* A worker lets its arc go.
Releases(w) ==
  /\ DOMAIN arcs' = DOMAIN arcs
  /\ \A a \in DOMAIN arcs :
       IF Owns(w, a) THEN SameButBatch(a) /\ arcs'[a].inBatch = FALSE ELSE SameArc(a)

\* A worker lets its arc go at the end of its reads.
Settles(w) ==
  /\ DOMAIN arcs' = DOMAIN arcs
  /\ \A a \in DOMAIN arcs :
       IF Owns(w, a)
         THEN /\ DOMAIN arcs'[a] = DOMAIN NewArc
              /\ arcs'[a].signals = arcs[a].signals /\ arcs'[a].inBatch = FALSE
              /\ \/ arcs'[a].drainedUntil = arcs[a].drainedUntil
                 \/ /\ arcs'[a].drainedUntil = worker[w].earliest
                    /\ arcs[a].signals = worker[w].signals
         ELSE SameArc(a)

LEMMA ArcsOfSteps ==
  ASSUME ArcTypes, NEW w \in Workers
  PROVE  /\ PutBack(w) \/ CompleteBatch(w) \/ Abandon(w) => Releases(w)
         /\ ReadDueEntries(w) => KeepsArcs
         /\ SettleReadEnd(w) => Settles(w)
<1>1. PutBack(w) => Releases(w)
  <2> SUFFICES ASSUME PutBack(w) PROVE Releases(w)
    OBVIOUS
  <2>1. arcs' = IF worker[w].left THEN arcs
                ELSE [arcs EXCEPT ![worker[w].arc] = [@ EXCEPT !.inBatch = FALSE]]
    BY DEF PutBack, ChangedArc, ArcOf
  <2> QED
    BY <2>1, Fields DEF Releases, Owns, SameArc, SameButBatch, ArcTypes
<1>2. Abandon(w) => Releases(w)
  <2> SUFFICES ASSUME Abandon(w) PROVE Releases(w)
    OBVIOUS
  <2>1. arcs' = IF worker[w].left THEN arcs
                ELSE [arcs EXCEPT ![worker[w].arc] = [@ EXCEPT !.inBatch = FALSE,
                                                               !.position = 0]]
    BY DEF Abandon, ChangedArc, ArcOf
  <2> QED
    BY <2>1, Fields DEF Releases, Owns, SameArc, SameButBatch, ArcTypes
<1>3. CompleteBatch(w) => Releases(w)
  BY Fields DEF CompleteBatch, ChangedArc, ArcOf, Releases, Owns, SameArc, SameButBatch, ArcTypes
<1>4. ReadDueEntries(w) => KeepsArcs
  <2> SUFFICES ASSUME ReadDueEntries(w) PROVE KeepsArcs
    OBVIOUS
  <2>1. PICK position :
          arcs' = IF worker[w].left THEN arcs
                  ELSE [arcs EXCEPT ![worker[w].arc] = [@ EXCEPT !.position = position]]
    BY DEF ReadDueEntries, ChangedArc, ArcOf
  <2> QED
    BY <2>1, Fields DEF KeepsArcs, SameArc, SameButBatch, ArcTypes
<1>5. SettleReadEnd(w) => Settles(w)
  <2> SUFFICES ASSUME SettleReadEnd(w) PROVE Settles(w)
    OBVIOUS
  <2>1. arcs' = IF worker[w].left THEN arcs
                ELSE [arcs EXCEPT ![worker[w].arc] = SettledArc(@, w)]
    BY DEF SettleReadEnd, ChangedArc, ArcOf
  <2> QED
    BY <2>1, Fields DEF Settles, Owns, SameArc, SameButBatch, ArcTypes, SettledArc
<1> QED
  BY <1>1, <1>2, <1>3, <1>4, <1>5

LEMMA ArcsOfPick ==
  ASSUME WorkerTypes, ArcTypes, NEW w \in Workers, PickOpenArc(w)
  PROVE  \E a \in DOMAIN arcs :
           /\ IsOpen(a) /\ Picks(w, a)
           /\ ring' = ring /\ DOMAIN arcs' = DOMAIN arcs
           /\ SameButBatch(a) /\ arcs'[a].inBatch = TRUE
           /\ \A b \in DOMAIN arcs \ {a} : SameArc(b)
<1>1. PICK a \in {b \in DOMAIN arcs : IsOpen(b)} :
        /\ arcs' = [arcs EXCEPT ![a].inBatch = TRUE]
        /\ worker' = [worker EXCEPT ![w].stage = "picked", ![w].arc = a, ![w].ring = ring,
             ![w].left = FALSE, ![w].at = arcs[a].position, ![w].from = arcs[a].position,
             ![w].signals = arcs[a].signals]
  BY Zenon DEF PickOpenArc
<1>2. ring' = ring
  BY DEF PickOpenArc
<1>3. Picks(w, a)
  BY <1>1 DEF Picks, Becomes, WorkerTypes
<1>4. /\ DOMAIN arcs' = DOMAIN arcs
      /\ SameButBatch(a) /\ arcs'[a].inBatch = TRUE
      /\ \A b \in DOMAIN arcs \ {a} : SameArc(b)
  BY <1>1, Fields DEF SameArc, SameButBatch, ArcTypes
<1> QED
  BY <1>1, <1>2, <1>3, <1>4

\* Whoever signals counts the signal at the arcs that hold the word partition.
LEMMA ArcsOfSignal ==
  ASSUME ArcTypes, NEW p \in WordPartitions, SignalAdmission(p)
  PROVE  /\ DOMAIN arcs' = DOMAIN arcs
         /\ \A a \in DOMAIN arcs :
              IF Holds(a, p)
                THEN /\ DOMAIN arcs'[a] = DOMAIN NewArc
                     /\ arcs'[a].inBatch = arcs[a].inBatch
                     /\ arcs'[a].signals = arcs[a].signals + 1 /\ arcs'[a].drainedUntil = 0
                ELSE SameArc(a)
BY Fields DEF SignalAdmission, SameArc, SameButBatch, ArcTypes

\* A new ring: a batch whose arc the ring leaves is marked as left.
LEMMA RingOfWorker ==
  ASSUME WorkerTypes, NEW w \in Workers, FollowRing(w)
  PROVE  /\ ring' = worker[w].ring /\ DOMAIN arcs' = ArcsOf(ring')
         /\ \A a \in DOMAIN arcs' : arcs'[a] = IF a \in DOMAIN arcs THEN arcs[a] ELSE NewArc
         /\ DOMAIN worker' = Workers
         /\ worker'[w] = [worker[w] EXCEPT !.stage = "picking", !.ring = {}]
         /\ \A v \in Workers \ {w} :
              \/ /\ InBatch(v) /\ ~worker[v].left /\ worker[v].arc \notin DOMAIN arcs'
                 /\ worker'[v] = [worker[v] EXCEPT !.left = TRUE]
              \/ /\ InBatch(v) /\ ~worker[v].left /\ worker[v].arc \in DOMAIN arcs'
                 /\ worker'[v] = [worker[v] EXCEPT !.ring = ring']
              \/ /\ ~InBatch(v) \/ worker[v].left
                 /\ worker'[v] = worker[v]
BY DEF FollowRing, WorkerTypes

-----------------------------------------------------------------------------
(* Types are kept *)

LEMMA LeastOfNumbers ==
  ASSUME NEW S \in SUBSET Nat, S # {}
  PROVE  Min(S) \in S /\ \A m \in S : Min(S) <= m
<1>1. PICK n \in S : \A m \in S : ~(<<m, n>> \in OpToRel(<, Nat))
  BY NatLessThanWellFounded, WFMin
<1>2. \A m \in S : n <= m
  <2> TAKE m \in S
  <2>1. m \in Nat /\ n \in Nat /\ ~(m < n)
    BY <1>1 DEF OpToRel
  <2> QED
    BY <2>1
<1> QED
  BY <1>2 DEF Min

LEMMA EarliestDueIsLeast ==
  ASSUME ScheduleTypes, NEW w \in Workers
  PROVE  /\ EarliestDue(w) \in Nat
         /\ \A p \in PartitionsOf(worker[w].arc) : EarliestDue(w) <= due[p]
<1> DEFINE Dues == {due[p] : p \in PartitionsOf(worker[w].arc)} \cup {Forever}
<1>1. Dues \in SUBSET Nat /\ Dues # {}
  BY NumbersOfTheWalk DEF ScheduleTypes, PartitionsOf
<1>2. Min(Dues) \in Dues /\ \A m \in Dues : Min(Dues) <= m
  BY <1>1, LeastOfNumbers
<1>3. EarliestDue(w) = Min(Dues)
  BY DEF EarliestDue
<1> HIDE DEF Dues
<1>4. EarliestDue(w) \in Nat
  BY <1>1, <1>2, <1>3
<1> QED
  BY <1>2, <1>3, <1>4 DEF Dues

LEMMA BecomesTyped ==
  ASSUME WorkerTypes, NEW w \in Workers, NEW r, IsWorker(r), Becomes(w, r)
  PROVE  WorkerTypes'
BY DEF WorkerTypes, IsWorker, Becomes

LEMMA EmptyWithStage ==
  ASSUME NEW stage, NEW alarm, NEW missed, NEW peers \in SUBSET Peers
  PROVE  /\ IsWorker([Empty EXCEPT !.stage = stage])
         /\ IsWorker([Empty EXCEPT !.stage = stage, !.alarm = alarm, !.missed = missed])
         /\ IsWorker([Empty EXCEPT !.stage = stage, !.peers = peers])
BY EmptyIsTyped, Fields DEF IsWorker

LEMMA WorkersKeepTypes ==
  ASSUME Types, NEW w \in Workers, WorkerStep(w)
  PROVE  WorkerTypes'
<1>0. WorkerTypes /\ ArcTypes /\ ScheduleTypes /\ IsWorker(worker[w])
  BY DEF Types, WorkerTypes
<1>1. ASSUME NEW stage, Begins(w, stage) \/ Waits(w) \/ GoesPicking(w) PROVE WorkerTypes'
  <2>1. worker[w].peers \in SUBSET Peers
    BY <1>0 DEF IsWorker
  <2> QED
    BY <1>0, <1>1, <2>1, BecomesTyped, EmptyWithStage DEF Begins, Waits, GoesPicking
<1>2. CASE FindNoOpenArc(w) \/ EndSleep(w) \/ EndWait(w) \/ PutBack(w) \/ SettleReadEnd(w)
             \/ CompleteBatch(w) \/ Abandon(w)
  BY <1>0, <1>1, <1>2, RecordsBetweenBatches
<1>3. CASE ReadReachablePeers(w)
  <2>1. IsWorker([worker[w] EXCEPT !.stage = "ready", !.peers = accepting])
    BY <1>0, Fields DEF IsWorker, ScheduleTypes
  <2> QED
    BY <1>0, <1>1, <1>3, <2>1, BecomesTyped, RecordsBetweenBatches
<1>12. CASE ArcsAmong(w)
  <2>1. PICK peers \in SUBSET worker[w].peers :
          Becomes(w, [worker[w] EXCEPT !.stage = "following", !.ring = peers])
    BY <1>0, <1>12, RecordsBetweenBatches DEF Follows
  <2>2. IsWorker([worker[w] EXCEPT !.stage = "following", !.ring = peers])
    BY <1>0, Fields DEF IsWorker
  <2> QED
    BY <1>0, <2>1, <2>2, BecomesTyped
<1>4. CASE FollowRing(w)
  <2>0. ring' \in SUBSET Peers
    BY <1>0, <1>4, RingOfWorker DEF IsWorker
  <2>1. /\ IsWorker([worker[w] EXCEPT !.stage = "picking", !.ring = {}])
        /\ \A v \in Workers : IsWorker([worker[v] EXCEPT !.left = TRUE])
        /\ \A v \in Workers : IsWorker([worker[v] EXCEPT !.ring = ring'])
    BY <1>0, <2>0, Fields DEF IsWorker, WorkerTypes
  <2>2. DOMAIN worker' = Workers /\ \A v \in Workers : IsWorker(worker'[v])
    <3>1. /\ DOMAIN worker' = Workers
          /\ worker'[w] = [worker[w] EXCEPT !.stage = "picking", !.ring = {}]
          /\ \A v \in Workers \ {w} :
               \/ worker'[v] = [worker[v] EXCEPT !.left = TRUE]
               \/ worker'[v] = [worker[v] EXCEPT !.ring = ring']
               \/ worker'[v] = worker[v]
      BY <1>0, <1>4, RingOfWorker
    <3>2. \A v \in Workers : IsWorker(worker[v])
      BY <1>0 DEF WorkerTypes
    <3> QED
      BY <2>1, <3>1, <3>2
  <2> QED
    BY <2>2 DEF WorkerTypes, IsWorker
<1>5. CASE PickOpenArc(w)
  <2>1. PICK a \in DOMAIN arcs : Picks(w, a)
    BY <1>0, <1>5, ArcsOfPick
  <2>2. arcs[a].signals \in Nat
    BY <1>0 DEF ArcTypes
  <2>3. IsWorker([worker[w] EXCEPT !.stage = "picked", !.arc = a, !.ring = ring, !.left = FALSE,
                !.at = arcs[a].position, !.from = arcs[a].position,
                !.signals = arcs[a].signals])
    BY <1>0, <2>2, Fields DEF IsWorker, ArcTypes
  <2> QED
    BY <1>0, <2>1, <2>3, BecomesTyped DEF Picks
<1>6. CASE ReadAdmissions(w)
  <2>1. SeenBy(w) \in [WordPartitions -> Int]
    BY <1>0 DEF SeenBy, ScheduleTypes
  <2>2. ASSUME NEW stage
        PROVE  IsWorker([worker[w] EXCEPT !.stage = stage, !.seen = SeenBy(w),
                                          !.dueBy = DueBySeen(w)])
    BY <1>0, <2>1, Fields DEF IsWorker
  <2> QED
    BY <1>0, <1>6, <2>2, BecomesTyped, RecordsInBatch
<1>7. CASE ScheduleAdmissions(w)
  <2>1. IsWorker([worker[w] EXCEPT !.stage = "searching", !.dueBy = {}, !.seen = Empty.seen])
    BY <1>0, Fields, EmptyIsTyped DEF IsWorker
  <2> QED
    BY <1>0, <1>7, <2>1, BecomesTyped, RecordsInBatch
<1>8. CASE ReadDueEntries(w)
  <2>1. ASSUME NEW stage, NEW position, NEW entries
        PROVE  IsWorker([worker[w] EXCEPT !.stage = stage, !.at = position, !.read = entries])
    BY <1>0, Fields DEF IsWorker
  <2>2. ASSUME NEW entries, NEW offers, NEW recipients
        PROVE  IsWorker([Empty EXCEPT !.stage = "offering", !.arc = worker[w].arc,
           !.ring = worker[w].ring, !.left = worker[w].left, !.read = entries,
           !.offers = offers, !.sending = recipients])
    BY <1>0, EmptyIsTyped, Fields DEF IsWorker
  <2>3. PICK r : Becomes(w, r) /\ IsWorker(r)
    <3>1. Reads(w)
      BY <1>0, <1>8, RecordsInBatch
    <3>2. CASE \E entries \in SUBSET PartitionsOf(worker[w].arc) :
                 \E offers \in SUBSET entries : \E recipients :
                   Becomes(w, [Empty EXCEPT !.stage = "offering", !.arc = worker[w].arc,
                     !.ring = worker[w].ring, !.left = worker[w].left, !.read = entries,
                     !.offers = offers, !.sending = recipients])
      BY <2>2, <3>2
    <3>3. CASE \E stage \in {"ended", "searching"} : \E position, entries :
                 Becomes(w, [worker[w] EXCEPT !.stage = stage, !.at = position,
                                              !.read = entries])
      BY <2>1, <3>3
    <3> QED
      BY <3>1, <3>2, <3>3 DEF Reads
  <2> QED
    BY <1>0, <2>3, BecomesTyped
<1>9. CASE ReadEarliestDue(w)
  <2>1. EarliestDue(w) \in Nat
    BY <1>0, EarliestDueIsLeast
  <2>2. IsWorker([worker[w] EXCEPT !.stage = "settling", !.read = {}, !.at = 0,
                                   !.earliest = EarliestDue(w)])
    BY <1>0, <2>1, Fields DEF IsWorker
  <2> QED
    BY <1>0, <1>9, <2>2, BecomesTyped, RecordsInBatch
<1>10. CASE Send(w)
  <2>1. IsWorker([worker[w] EXCEPT !.stage = "sending"])
    BY <1>0, Fields DEF IsWorker
  <2> QED
    BY <1>0, <1>10, <2>1, BecomesTyped, RecordsInBatch
<1>11. CASE \E p \in Peers : SendEnds(w, p)
  <2>1. PICK p \in Peers : SendEnds(w, p)
    BY <1>11
  <2>2. IsWorker([worker[w] EXCEPT !.sending = worker[w].sending \ {p}])
    BY <1>0, Fields DEF IsWorker
  <2> QED
    BY <1>0, <2>1, <2>2, BecomesTyped, RecordsInBatch
<1> QED
  BY <1>2, <1>3, <1>4, <1>5, <1>6, <1>7, <1>8, <1>9, <1>10, <1>11, <1>12 DEF WorkerStep

LEMMA ArcsKeepTypes ==
  ASSUME Types, [Next]_vars
  PROVE  ArcTypes'
<1>0. WorkerTypes /\ ArcTypes /\ ScheduleTypes
  BY DEF Types
<1>1. CASE UNCHANGED <<ring, arcs>>
  BY <1>0, <1>1 DEF ArcTypes
<1>2. CASE ring' = ring /\ KeepsArcs
  BY <1>0, <1>2 DEF ArcTypes, KeepsArcs, SameArc, SameButBatch
<1>3. ASSUME NEW w \in Workers, WorkerStep(w) PROVE ArcTypes'
  <2>1. CASE PutBack(w) \/ CompleteBatch(w) \/ Abandon(w)
    <3>1. Releases(w) /\ ring' = ring
      BY <1>0, <2>1, ArcsOfSteps DEF PutBack, CompleteBatch, Abandon
    <3> QED
      BY <1>0, <3>1 DEF ArcTypes, Releases, SameArc, SameButBatch
  <2>2. CASE SettleReadEnd(w)
    <3>1. Settles(w) /\ ring' = ring
      BY <1>0, <2>2, ArcsOfSteps DEF SettleReadEnd
    <3>2. worker[w].earliest \in Nat
      BY <1>0 DEF WorkerTypes, IsWorker
    <3> QED
      BY <1>0, <3>1, <3>2 DEF ArcTypes, Settles, SameArc, SameButBatch
  <2>3. CASE ReadDueEntries(w)
    BY <1>0, <1>2, <2>3, ArcsOfSteps DEF ReadDueEntries
  <2>4. CASE PickOpenArc(w)
    <3>1. PICK a \in DOMAIN arcs :
            /\ ring' = ring /\ DOMAIN arcs' = DOMAIN arcs /\ SameButBatch(a)
            /\ \A b \in DOMAIN arcs \ {a} : SameArc(b)
      BY <1>0, <2>4, ArcsOfPick
    <3> QED
      BY <1>0, <3>1 DEF ArcTypes, SameArc, SameButBatch
  <2>5. CASE FollowRing(w)
    <3>1. /\ ring' = worker[w].ring /\ DOMAIN arcs' = ArcsOf(ring')
          /\ \A a \in DOMAIN arcs' : arcs'[a] = IF a \in DOMAIN arcs THEN arcs[a] ELSE NewArc
      BY <1>0, <2>5, RingOfWorker
    <3>2. worker[w].ring \in SUBSET Peers
      BY <1>0 DEF WorkerTypes, IsWorker
    <3>3. NewArc.drainedUntil \in Nat /\ NewArc.signals \in Nat
      BY DEF NewArc
    <3>4. ring' \in SUBSET Peers
      BY <3>1, <3>2
    <3>5. ASSUME NEW a \in ArcsOf(ring')
          PROVE  /\ DOMAIN arcs'[a] = DOMAIN NewArc
                 /\ arcs'[a].drainedUntil \in Nat /\ arcs'[a].signals \in Nat
      BY <1>0, <3>1, <3>3 DEF ArcTypes
    <3> QED
      BY <3>1, <3>4, <3>5 DEF ArcTypes
  <2>6. CASE ReadReachablePeers(w) \/ ArcsAmong(w) \/ FindNoOpenArc(w) \/ ReadAdmissions(w)
               \/ ScheduleAdmissions(w) \/ ReadEarliestDue(w) \/ Send(w) \/ EndSleep(w)
               \/ EndWait(w) \/ \E p \in Peers : SendEnds(w, p)
    BY <1>1, <2>6 DEF ReadReachablePeers, ArcsAmong, FindNoOpenArc, ReadAdmissions,
      ScheduleAdmissions, ReadEarliestDue, Send, EndSleep, EndWait, SendEnds, walkVars
  <2> QED
    BY <1>3, <2>1, <2>2, <2>3, <2>4, <2>5, <2>6 DEF WorkerStep
<1>4. ASSUME NEW p \in WordPartitions, SignalAdmission(p) PROVE ArcTypes'
  <2>1. ring' = ring
    BY <1>4 DEF SignalAdmission
  <2> QED
    BY <1>0, <1>4, <2>1, ArcsOfSignal DEF ArcTypes, SameArc, SameButBatch
<1>5. CASE Restart
  <2>1. ring' = {} /\ arcs' = [a \in {} |-> NewArc]
    BY <1>5 DEF Restart
  <2> QED
    BY <2>1 DEF ArcTypes, ArcsOf
<1>6. CASE (\E p \in WordPartitions : Admit(p)) \/ (\E p \in MovingPeers : ChangeRoster(p))
             \/ SignalReachablePeers \/ Tick \/ UNCHANGED vars
  BY <1>1, <1>6 DEF Admit, ChangeRoster, SignalReachablePeers, Tick, vars, walkVars
<1> QED
  BY <1>3, <1>4, <1>5, <1>6 DEF Next

LEMMA CompletedBatch ==
  ASSUME NEW w \in Workers, CompleteBatch(w)
  PROVE  \E short \in SUBSET worker[w].offers :
           \E handedOff \in SUBSET (worker[w].offers \ short), wait \in 1 .. RefreshInterval :
             due' = DueAfter(w, short, handedOff, wait)
BY DEF CompleteBatch

LEMMA SchedulesKeepTypes ==
  ASSUME Types, [Next]_vars
  PROVE  ScheduleTypes'
<1>0. WorkerTypes /\ ArcTypes /\ ScheduleTypes
  BY DEF Types
<1>1. CASE UNCHANGED <<clock, accepting, admitted, unsignalled, due>>
  BY <1>0, <1>1 DEF ScheduleTypes
<1>2. ASSUME NEW w \in Workers, WorkerStep(w) PROVE ScheduleTypes'
  <2>1. CASE ScheduleAdmissions(w)
    <3>1. worker[w].seen \in [WordPartitions -> Int]
      BY <1>0 DEF WorkerTypes, IsWorker
    <3> QED
      BY <1>0, <2>1, <3>1 DEF ScheduleTypes, ScheduleAdmissions, MarkScheduled, peerVars, rosterVars
  <2>2. CASE CompleteBatch(w)
    <3>1. PICK short, handedOff, wait :
            wait \in 1 .. RefreshInterval /\ due' = DueAfter(w, short, handedOff, wait)
      BY <2>2, CompletedBatch
    <3>2. due' \in [WordPartitions -> Nat]
      <4>1. \A p \in WordPartitions : due[p] \in Nat /\ clock \in Nat
        BY <1>0 DEF ScheduleTypes
      <4>2. wait \in Nat /\ clock + wait \in Nat /\ clock + RetryDelay \in Nat /\ Forever \in Nat
        BY <1>0, <3>1, NumbersOfTheWalk DEF ScheduleTypes
      <4> QED
        BY <3>1, <4>1, <4>2 DEF DueAfter
    <3> QED
      BY <1>0, <2>2, <3>2 DEF ScheduleTypes, CompleteBatch, peerVars, rosterVars
  <2>3. CASE ~ScheduleAdmissions(w) /\ ~CompleteBatch(w)
    BY <1>1, <1>2, <2>3
    DEF WorkerStep, ReadReachablePeers, ArcsAmong, FollowRing, PickOpenArc, FindNoOpenArc,
        ReadAdmissions, PutBack, ReadDueEntries, ReadEarliestDue, SettleReadEnd, Send, Abandon,
        EndSleep, EndWait, SendEnds, scheduleVars, peerVars, rosterVars
  <2> QED
    BY <2>1, <2>2, <2>3
<1>3. ASSUME NEW p \in WordPartitions, Admit(p) \/ SignalAdmission(p) PROVE ScheduleTypes'
  <2>0. \/ /\ admitted' = [admitted EXCEPT ![p] = @ + 1]
           /\ unsignalled' = [unsignalled EXCEPT ![p] = @ + 1]
        \/ /\ UNCHANGED admitted /\ unsignalled[p] > 0
           /\ unsignalled' = [unsignalled EXCEPT ![p] = @ - 1]
    BY <1>3, Zenon DEF Admit, SignalAdmission
  <2>1. admitted' \in [WordPartitions -> Int]
    BY <1>0, <2>0 DEF ScheduleTypes
  <2>2. unsignalled' \in [WordPartitions -> Nat]
    BY <1>0, <2>0 DEF ScheduleTypes
  <2> QED
    BY <1>0, <1>3, <2>1, <2>2 DEF ScheduleTypes, Admit, SignalAdmission, peerVars, rosterVars
<1>4. ASSUME NEW p \in MovingPeers, ChangeRoster(p) PROVE ScheduleTypes'
  <2>1. accepting' \in SUBSET Peers
    BY <1>0, <1>4, WalkAssumption
    DEF ScheduleTypes, ChangeRoster, ConfirmReachable, ConfirmUnreachable, EvictMoved,
        KeepGossipSeed
  <2> QED
    BY <1>0, <1>4, <2>1 DEF ScheduleTypes, ChangeRoster, scheduleVars
<1>5. CASE Restart \/ Tick
  BY <1>0, <1>5 DEF ScheduleTypes, Restart, Tick, scheduleVars, peerVars, rosterVars
<1>6. CASE SignalReachablePeers \/ UNCHANGED vars
  BY <1>1, <1>6 DEF SignalReachablePeers, vars, scheduleVars, peerVars, rosterVars
<1> QED
  BY <1>2, <1>3, <1>4, <1>5, <1>6 DEF Next

LEMMA TypesAreKept == Types /\ [Next]_vars => Types'
<1> SUFFICES ASSUME Types, [Next]_vars PROVE Types'
  OBVIOUS
<1>0. WorkerTypes
  BY DEF Types
<1>5. WorkerTypes'
  <2>1. ASSUME NEW w \in Workers, WorkerStep(w) PROVE WorkerTypes'
    BY <2>1, WorkersKeepTypes
  <2>2. CASE Restart
    <3>1. worker' = [w \in Workers |-> Empty]
      BY <2>2 DEF Restart
    <3>2. IsWorker(Empty)
      BY EmptyIsTyped DEF IsWorker
    <3> QED
      BY <3>1, <3>2 DEF WorkerTypes
  <2>3. CASE UNCHANGED worker
    BY <1>0, <2>3 DEF WorkerTypes
  <2>4. (\E w \in Workers : WorkerStep(w)) \/ Restart \/ UNCHANGED worker
    BY DEF Next, Admit, SignalAdmission, ChangeRoster, SignalReachablePeers, Tick, vars
  <2> QED
    BY <2>1, <2>2, <2>3, <2>4
<1> QED
  BY <1>5, ArcsKeepTypes, SchedulesKeepTypes DEF Types

LEMMA TypesHold == Spec => []Types
<1> QED
  BY TypesAtFirst, TypesAreKept, PTL DEF Spec

-----------------------------------------------------------------------------
(* No part of the ring is in two batches *)

\* Every batch is of an arc, and one the ring has not left is marked at its arc.
BatchInv ==
  \A w \in Workers : InBatch(w) =>
    /\ IsArc(worker[w].arc)
    /\ ~worker[w].left => worker[w].arc \in DOMAIN arcs /\ arcs[worker[w].arc].inBatch

\* A worker works on its batch or ends it, and only its own arc is let go.
WorksOn(w) ==
  \E r :
    /\ Becomes(w, r)
    /\ r.stage \in BatchStages =>
         InBatch(w) /\ r.arc = worker[w].arc /\ r.left = worker[w].left
    /\ DOMAIN arcs' = DOMAIN arcs
    /\ \A a \in DOMAIN arcs :
         \/ arcs'[a].inBatch = arcs[a].inBatch
         \/ Owns(w, a) /\ InBatch(w) /\ r.stage \notin BatchStages

LEMMA StepsBetweenBatches ==
  ASSUME Types, NEW w \in Workers,
         \/ ReadReachablePeers(w) \/ ArcsAmong(w) \/ FindNoOpenArc(w)
         \/ EndSleep(w) \/ EndWait(w)
  PROVE  WorksOn(w)
<1>0. WorkerTypes /\ IsWorker(worker[w]) /\ UNCHANGED arcs
  BY DEF Types, WorkerTypes, ReadReachablePeers, ArcsAmong, FindNoOpenArc, EndSleep, EndWait,
         walkVars
<1>1. PICK r : Becomes(w, r) /\ r.stage \notin BatchStages
  <2>1. /\ [Empty EXCEPT !.stage = "listening"].stage = "listening"
        /\ [worker[w] EXCEPT !.stage = "ready", !.peers = accepting].stage = "ready"
    BY <1>0, Fields DEF IsWorker
  <2>2. {"waiting", "listening", "ready", "following"} \cap BatchStages = {}
    BY DEF BatchStages
  <2>3. CASE Waits(w)
    <3>1. PICK t, missed :
            Becomes(w, [Empty EXCEPT !.stage = "waiting", !.alarm = t, !.missed = missed])
      BY <2>3, Zenon DEF Waits
    <3> DEFINE waiting == [Empty EXCEPT !.stage = "waiting", !.alarm = t, !.missed = missed]
    <3>2. waiting.stage = "waiting"
      BY Fields
    <3>3. Becomes(w, waiting)
      BY <3>1
    <3> HIDE DEF waiting
    <3> QED
      BY <2>2, <3>2, <3>3
  <2>4. CASE Begins(w, "listening")
    BY <2>1, <2>2, <2>4 DEF Begins
  <2>5. CASE Follows(w)
    <3>1. PICK peers : Becomes(w, [worker[w] EXCEPT !.stage = "following", !.ring = peers])
      BY <2>5 DEF Follows
    <3>2. [worker[w] EXCEPT !.stage = "following", !.ring = peers].stage = "following"
      BY <1>0, Fields DEF IsWorker
    <3> QED
      BY <2>2, <3>1, <3>2
  <2>6. CASE Becomes(w, [worker[w] EXCEPT !.stage = "ready", !.peers = accepting])
    BY <2>1, <2>2, <2>6
  <2> QED
    BY <1>0, <2>3, <2>4, <2>5, <2>6, RecordsBetweenBatches
<1> QED
  BY <1>0, <1>1 DEF WorksOn

LEMMA StepsThatEndBatches ==
  ASSUME Types, NEW w \in Workers,
         PutBack(w) \/ SettleReadEnd(w) \/ CompleteBatch(w) \/ Abandon(w)
  PROVE  WorksOn(w) /\ InBatch(w)
<1>0. WorkerTypes /\ ArcTypes
  BY DEF Types
<1>1. InBatch(w)
  BY DEF PutBack, SettleReadEnd, CompleteBatch, Abandon, InBatch, At, BatchStages
<1>2. PICK r : Becomes(w, r) /\ r.stage \notin BatchStages
  <2>1. /\ [Empty EXCEPT !.stage = "picking", !.peers = worker[w].peers].stage = "picking"
        /\ [Empty EXCEPT !.stage = "listening"].stage = "listening"
        /\ [Empty EXCEPT !.stage = "sleeping"].stage = "sleeping"
    BY Fields
  <2>2. {"picking", "listening", "sleeping"} \cap BatchStages = {}
    BY DEF BatchStages
  <2>3. GoesPicking(w) \/ Begins(w, "listening") \/ Begins(w, "sleeping")
    BY <1>0, RecordsBetweenBatches
  <2> QED
    BY <2>1, <2>2, <2>3 DEF GoesPicking, Begins
<1>3. Releases(w) \/ Settles(w)
  BY <1>0, ArcsOfSteps
<1>4. /\ DOMAIN arcs' = DOMAIN arcs
      /\ \A a \in DOMAIN arcs : arcs'[a].inBatch = arcs[a].inBatch \/ Owns(w, a)
  BY <1>3 DEF Releases, Settles, SameArc
<1> QED
  BY <1>1, <1>2, <1>4 DEF WorksOn

LEMMA StepsInBatch ==
  ASSUME Types, NEW w \in Workers,
         ReadAdmissions(w) \/ ScheduleAdmissions(w) \/ ReadDueEntries(w) \/ ReadEarliestDue(w)
           \/ Send(w) \/ \E p \in Peers : SendEnds(w, p)
  PROVE  WorksOn(w) /\ InBatch(w)
<1>0. WorkerTypes /\ ArcTypes /\ IsWorker(worker[w])
  BY DEF Types, WorkerTypes
<1>1. InBatch(w)
  BY DEF ReadAdmissions, ScheduleAdmissions, ReadDueEntries, ReadEarliestDue, Send, SendEnds,
         InBatch, At, BatchStages
<1>2. PICK r : Becomes(w, r) /\ r.arc = worker[w].arc /\ r.left = worker[w].left
  <2>1. CASE ReadAdmissions(w)
    <3>1. ASSUME NEW stage
          PROVE  LET r == [worker[w] EXCEPT !.stage = stage, !.seen = SeenBy(w),
                                            !.dueBy = DueBySeen(w)]
                 IN r.arc = worker[w].arc /\ r.left = worker[w].left
      BY <1>0, Fields DEF IsWorker
    <3> QED
      BY <1>0, <2>1, <3>1, RecordsInBatch
  <2>2. CASE ScheduleAdmissions(w)
    <3> DEFINE r == [worker[w] EXCEPT !.stage = "searching", !.dueBy = {}, !.seen = Empty.seen]
    <3>1. r.arc = worker[w].arc /\ r.left = worker[w].left
      BY <1>0, Fields DEF IsWorker
    <3>2. Becomes(w, r)
      BY <1>0, <2>2, RecordsInBatch
    <3> QED
      BY <3>1, <3>2
  <2>3. CASE ReadDueEntries(w)
    <3>1. Reads(w)
      BY <1>0, <2>3, RecordsInBatch
    <3>2. ASSUME NEW entries, NEW offers, NEW recipients,
                 Becomes(w, [Empty EXCEPT !.stage = "offering", !.arc = worker[w].arc,
                     !.ring = worker[w].ring, !.left = worker[w].left, !.read = entries,
                     !.offers = offers, !.sending = recipients])
          PROVE  \E r : Becomes(w, r) /\ r.arc = worker[w].arc /\ r.left = worker[w].left
      <4> DEFINE r == [Empty EXCEPT !.stage = "offering", !.arc = worker[w].arc,
                     !.ring = worker[w].ring, !.left = worker[w].left, !.read = entries,
                     !.offers = offers, !.sending = recipients]
      <4>1. r.arc = worker[w].arc /\ r.left = worker[w].left
        BY Fields
      <4> QED
        BY <3>2, <4>1
    <3>3. ASSUME NEW stage, NEW position, NEW entries,
                 Becomes(w, [worker[w] EXCEPT !.stage = stage, !.at = position, !.read = entries])
          PROVE  \E r : Becomes(w, r) /\ r.arc = worker[w].arc /\ r.left = worker[w].left
      <4> DEFINE r == [worker[w] EXCEPT !.stage = stage, !.at = position, !.read = entries]
      <4>1. r.arc = worker[w].arc /\ r.left = worker[w].left
        BY <1>0, Fields DEF IsWorker
      <4> QED
        BY <3>3, <4>1
    <3> QED
      BY <3>1, <3>2, <3>3, Zenon DEF Reads
  <2>4. CASE ReadEarliestDue(w)
    <3> DEFINE r == [worker[w] EXCEPT !.stage = "settling", !.read = {}, !.at = 0,
                                      !.earliest = EarliestDue(w)]
    <3>1. r.arc = worker[w].arc /\ r.left = worker[w].left
      BY <1>0, Fields DEF IsWorker
    <3>2. Becomes(w, r)
      BY <1>0, <2>4, RecordsInBatch
    <3> QED
      BY <3>1, <3>2
  <2>5. CASE Send(w)
    <3> DEFINE r == [worker[w] EXCEPT !.stage = "sending"]
    <3>1. r.arc = worker[w].arc /\ r.left = worker[w].left
      BY <1>0, Fields DEF IsWorker
    <3>2. Becomes(w, r)
      BY <1>0, <2>5, RecordsInBatch
    <3> QED
      BY <3>1, <3>2
  <2>6. ASSUME NEW p \in Peers, SendEnds(w, p)
        PROVE  \E r : Becomes(w, r) /\ r.arc = worker[w].arc /\ r.left = worker[w].left
    <3> DEFINE r == [worker[w] EXCEPT !.sending = worker[w].sending \ {p}]
    <3>1. r.arc = worker[w].arc /\ r.left = worker[w].left
      BY <1>0, Fields DEF IsWorker
    <3>2. Becomes(w, r)
      BY <1>0, <2>6, RecordsInBatch
    <3> QED
      BY <3>1, <3>2
  <2> QED
    BY <2>1, <2>2, <2>3, <2>4, <2>5, <2>6
<1>3. UNCHANGED arcs \/ KeepsArcs
  BY <1>0, ArcsOfSteps
  DEF ReadAdmissions, ScheduleAdmissions, ReadEarliestDue, Send, SendEnds, walkVars
<1>4. DOMAIN arcs' = DOMAIN arcs /\ \A a \in DOMAIN arcs : arcs'[a].inBatch = arcs[a].inBatch
  BY <1>3 DEF KeepsArcs, SameArc
<1> QED
  BY <1>1, <1>2, <1>4 DEF WorksOn

LEMMA OnlyRingAndPicksMoveBatches ==
  ASSUME Types, NEW w \in Workers, WorkerStep(w)
  PROVE  WorksOn(w) \/ FollowRing(w) \/ PickOpenArc(w)
BY StepsBetweenBatches, StepsThatEndBatches, StepsInBatch DEF WorkerStep

BatchesAreApart == BatchInv /\ NoPartInTwoBatches

LEMMA WorkKeepsBatchesApart ==
  ASSUME Types, BatchesAreApart, NEW w \in Workers, WorksOn(w)
  PROVE  BatchesAreApart'
<1>1. PICK r :
        /\ Becomes(w, r)
        /\ r.stage \in BatchStages =>
             InBatch(w) /\ r.arc = worker[w].arc /\ r.left = worker[w].left
        /\ DOMAIN arcs' = DOMAIN arcs
        /\ \A a \in DOMAIN arcs :
             \/ arcs'[a].inBatch = arcs[a].inBatch
             \/ Owns(w, a) /\ InBatch(w) /\ r.stage \notin BatchStages
  BY DEF WorksOn
<1>2. \A v \in Workers : InBatch(v)' =>
        InBatch(v) /\ worker'[v].arc = worker[v].arc /\ worker'[v].left = worker[v].left
  BY <1>1 DEF Becomes, InBatch
<1>3. NoPartInTwoBatches'
  BY <1>2 DEF NoPartInTwoBatches, BatchesAreApart
<1>4. ASSUME NEW v \in Workers, InBatch(v)'
      PROVE  /\ IsArc(worker[v].arc)
             /\ ~worker[v].left => /\ worker[v].arc \in DOMAIN arcs'
                                   /\ arcs'[worker[v].arc].inBatch
  <2>1. /\ IsArc(worker[v].arc)
        /\ ~worker[v].left => worker[v].arc \in DOMAIN arcs /\ arcs[worker[v].arc].inBatch
    BY <1>2, <1>4 DEF BatchesAreApart, BatchInv
  <2>2. ASSUME ~worker[v].left, Owns(w, worker[v].arc), InBatch(w), r.stage \notin BatchStages
        PROVE  FALSE
    <3>1. v # w
      BY <1>1, <1>4, <2>2 DEF Becomes, InBatch
    <3>2. ~Overlaps(worker[v].arc, worker[w].arc) /\ worker[v].arc = worker[w].arc
      BY <1>2, <1>4, <2>2, <3>1 DEF BatchesAreApart, NoPartInTwoBatches, Owns
    <3> QED
      BY <2>1, <3>2, OverlapsItself
  <2> QED
    BY <1>1, <2>1, <2>2
<1>5. BatchInv'
  BY <1>2, <1>4 DEF BatchInv
<1> QED
  BY <1>3, <1>5 DEF BatchesAreApart

LEMMA RingKeepsBatchesApart ==
  ASSUME Types, BatchesAreApart, NEW w \in Workers, FollowRing(w)
  PROVE  BatchesAreApart'
<1>0. WorkerTypes /\ ~InBatch(w) /\ \A v \in Workers : IsWorker(worker[v])
  BY DEF Types, WorkerTypes, FollowRing, At, InBatch, BatchStages
<1>1. /\ \A a \in DOMAIN arcs' : arcs'[a] = IF a \in DOMAIN arcs THEN arcs[a] ELSE NewArc
      /\ worker'[w].stage = "picking"
  <2>1. /\ \A a \in DOMAIN arcs' : arcs'[a] = IF a \in DOMAIN arcs THEN arcs[a] ELSE NewArc
        /\ worker'[w] = [worker[w] EXCEPT !.stage = "picking", !.ring = {}]
    BY <1>0, RingOfWorker
  <2> QED
    BY <1>0, <2>1, Fields DEF IsWorker
<1>2. ASSUME NEW v \in Workers \ {w}
      PROVE  /\ worker'[v].stage = worker[v].stage /\ worker'[v].arc = worker[v].arc
             /\ InBatch(v) /\ ~worker'[v].left =>
                  ~worker[v].left /\ worker[v].arc \in DOMAIN arcs'
  <2>0. DOMAIN worker[v] = DOMAIN Empty
    BY <1>0 DEF IsWorker
  <2>1. CASE /\ InBatch(v) /\ ~worker[v].left /\ worker[v].arc \notin DOMAIN arcs'
             /\ worker'[v] = [worker[v] EXCEPT !.left = TRUE]
    BY <2>0, <2>1, Fields
  <2>2. CASE /\ InBatch(v) /\ ~worker[v].left /\ worker[v].arc \in DOMAIN arcs'
             /\ worker'[v] = [worker[v] EXCEPT !.ring = ring']
    BY <2>0, <2>2, Fields
  <2>3. CASE (~InBatch(v) \/ worker[v].left) /\ worker'[v] = worker[v]
    BY <2>3
  <2> QED
    BY <1>0, <2>1, <2>2, <2>3, RingOfWorker
<1>3. \A v \in Workers : InBatch(v)' => v # w /\ InBatch(v)
  BY <1>1, <1>2 DEF InBatch, BatchStages
<1>4. NoPartInTwoBatches'
  BY <1>2, <1>3 DEF NoPartInTwoBatches, BatchesAreApart
<1>5. BatchInv'
  BY <1>1, <1>2, <1>3 DEF BatchInv, BatchesAreApart
<1> QED
  BY <1>4, <1>5 DEF BatchesAreApart

\* An open arc is not in a batch, so it is apart from those that are, which are other arcs
\* of the ring, and from those the ring left.
LEMMA PicksKeepBatchesApart ==
  ASSUME Types, BatchesAreApart, NEW w \in Workers, PickOpenArc(w)
  PROVE  BatchesAreApart'
<1>0. WorkerTypes /\ ArcTypes /\ ~InBatch(w) /\ IsWorker(worker[w])
  BY DEF Types, WorkerTypes, PickOpenArc, At, InBatch, BatchStages
<1>1. PICK a \in DOMAIN arcs :
        /\ IsOpen(a) /\ Picks(w, a)
        /\ ring' = ring /\ DOMAIN arcs' = DOMAIN arcs
        /\ SameButBatch(a) /\ arcs'[a].inBatch = TRUE
        /\ \A b \in DOMAIN arcs \ {a} : SameArc(b)
  BY <1>0, ArcsOfPick
<1>2. worker'[w].arc = a /\ ~worker'[w].left
  BY <1>0, <1>1, Fields DEF Picks, Becomes, IsWorker
<1>3. \A v \in Workers \ {w} : worker'[v] = worker[v]
  BY <1>1 DEF Picks, Becomes
<1>4. IsArc(a)
  BY <1>0, ArcsAreArcs DEF ArcTypes
<1>5. ASSUME NEW v \in Workers \ {w}, InBatch(v)
      PROVE  ~Overlaps(worker[v].arc, a) /\ ~Overlaps(a, worker[v].arc)
  <2>1. CASE worker[v].left
    <3>1. worker[v].arc \in LeftArcs
      BY <1>5, <2>1 DEF LeftArcs
    <3> QED
      BY <1>1, <3>1, OverlapsBothWays DEF IsOpen
  <2>2. CASE ~worker[v].left
    <3>1. worker[v].arc \in DOMAIN arcs /\ arcs[worker[v].arc].inBatch
      BY <1>5, <2>2 DEF BatchesAreApart, BatchInv
    <3>2. worker[v].arc # a
      BY <1>1, <3>1 DEF IsOpen
    <3> QED
      BY <1>0, <1>1, <3>1, <3>2, ArcsAreApart DEF ArcTypes
  <2> QED
    BY <2>1, <2>2
<1>6. NoPartInTwoBatches'
  <2> SUFFICES ASSUME NEW v \in Workers, NEW u \in Workers, v # u, InBatch(v)', InBatch(u)'
               PROVE  ~Overlaps(worker'[v].arc, worker'[u].arc)
    BY DEF NoPartInTwoBatches
  <2>1. CASE v # w /\ u # w
    BY <1>3, <2>1 DEF BatchesAreApart, NoPartInTwoBatches, InBatch
  <2>2. CASE v = w
    BY <1>2, <1>3, <1>5, <2>2 DEF InBatch
  <2>3. CASE u = w
    BY <1>2, <1>3, <1>5, <2>3 DEF InBatch
  <2> QED
    BY <2>1, <2>2, <2>3
<1>7. BatchInv'
  <2> SUFFICES ASSUME NEW v \in Workers, InBatch(v)'
               PROVE  /\ IsArc(worker'[v].arc)
                      /\ ~worker'[v].left => worker'[v].arc \in DOMAIN arcs'
                                             /\ arcs'[worker'[v].arc].inBatch
    BY DEF BatchInv
  <2>1. CASE v = w
    BY <1>1, <1>2, <1>4, <2>1
  <2>2. CASE v # w
    BY <1>1, <1>3, <2>2 DEF BatchesAreApart, BatchInv, InBatch, SameArc
  <2> QED
    BY <2>1, <2>2
<1> QED
  BY <1>6, <1>7 DEF BatchesAreApart

LEMMA BatchesStayApart == Types /\ BatchesAreApart /\ [Next]_vars => BatchesAreApart'
<1> SUFFICES ASSUME Types, BatchesAreApart, [Next]_vars PROVE BatchesAreApart'
  OBVIOUS
<1>0. ArcTypes
  BY DEF Types
<1>1. ASSUME NEW w \in Workers, WorkerStep(w) PROVE BatchesAreApart'
  BY <1>1, OnlyRingAndPicksMoveBatches, WorkKeepsBatchesApart, RingKeepsBatchesApart,
     PicksKeepBatchesApart
<1>2. CASE /\ UNCHANGED worker /\ DOMAIN arcs' = DOMAIN arcs
           /\ \A a \in DOMAIN arcs : arcs'[a].inBatch = arcs[a].inBatch
  BY <1>2 DEF BatchesAreApart, BatchInv, NoPartInTwoBatches, InBatch
<1>3. ASSUME NEW p \in WordPartitions, SignalAdmission(p) PROVE BatchesAreApart'
  BY <1>0, <1>2, <1>3, ArcsOfSignal DEF SignalAdmission, SameArc
<1>4. CASE Restart
  <2>1. \A w \in Workers : worker'[w].stage = "listening"
    BY <1>4, EmptyIsTyped DEF Restart
  <2> QED
    BY <2>1 DEF BatchesAreApart, BatchInv, NoPartInTwoBatches, InBatch, BatchStages
<1>5. CASE (\E p \in WordPartitions : Admit(p)) \/ (\E p \in MovingPeers : ChangeRoster(p))
             \/ SignalReachablePeers \/ Tick \/ UNCHANGED vars
  BY <1>2, <1>5 DEF Admit, ChangeRoster, SignalReachablePeers, Tick, vars, walkVars
<1> QED
  BY <1>1, <1>3, <1>4, <1>5 DEF Next

LEMMA BatchesApartAtFirst == Init => BatchesAreApart
BY EmptyIsTyped DEF Init, BatchesAreApart, BatchInv, NoPartInTwoBatches, InBatch, BatchStages

\* No part of the ring is in two batches at the same time, however often peers come and go
\* while batches are under way (arcWalk and leftArcs).
THEOREM NoPartTwice == Spec => []NoPartInTwoBatches
<1>1. Spec => []BatchesAreApart
  BY BatchesApartAtFirst, BatchesStayApart, TypesHold, PTL DEF Spec
<1>2. BatchesAreApart => NoPartInTwoBatches
  BY DEF BatchesAreApart
<1> QED
  BY <1>1, <1>2, PTL

-----------------------------------------------------------------------------
(* Drained arcs have nothing *)

\* What a worker is about to write lies in its arc.
IsLocal(r) ==
  /\ r.stage = "scheduling" => /\ \A p \in WordPartitions : ~Holds(r.arc, p) => r.seen[p] = 0
                               /\ r.dueBy \in SUBSET PartitionsOf(r.arc)
  /\ r.stage \in {"offering", "sending"} => r.offers \in SUBSET PartitionsOf(r.arc)

LocalInv == \A w \in Workers : IsLocal(worker[w])

\* No batch works in a drained arc, not even one of an arc the ring left.
DrainsApart ==
  \A w \in Workers, a \in DOMAIN arcs :
    InBatch(w) /\ IsDrained(a) => ~Overlaps(worker[w].arc, a)

DrainsInv ==
  \A a \in DOMAIN arcs : IsDrained(a) => \A p \in PartitionsOf(a) :
    due[p] >= arcs[a].drainedUntil /\ admitted[p] <= unsignalled[p]

\* The due time an arc will be drained until is still the earliest of the arc.
EarliestInv ==
  \A w \in Workers : At(w, "settling") =>
    \A p \in PartitionsOf(worker[w].arc) : worker[w].earliest <= due[p]

\* As long as no admission was signalled since the arc was picked, those that are not
\* scheduled, but for the ones the worker has read, have not been signalled either.
SignalsOf(w) ==
  /\ worker[w].signals <= ArcOf(w).signals
  /\ worker[w].signals = ArcOf(w).signals => \A p \in PartitionsOf(worker[w].arc) :
       /\ At(w, "scheduling") => admitted[p] - worker[w].seen[p] <= unsignalled[p]
       /\ worker[w].stage \in {"searching", "ended", "settling"} => admitted[p] <= unsignalled[p]

SignalsInv == \A w \in Workers : InBatch(w) /\ ~worker[w].left => SignalsOf(w)

DrainInv == LocalInv /\ DrainsApart /\ DrainsInv /\ EarliestInv /\ SignalsInv

SameBatch(w) == worker'[w].arc = worker[w].arc /\ worker'[w].left = worker[w].left
SamePick(w) == SameBatch(w) /\ worker'[w].signals = worker[w].signals

LEMMA FieldsInBatch ==
  ASSUME Types, NEW w \in Workers
  PROVE  /\ ReadAdmissions(w) =>
              /\ SamePick(w)
              /\ \/ /\ worker'[w].stage = "scheduling" /\ worker'[w].seen = SeenBy(w)
                    /\ worker'[w].dueBy = DueBySeen(w)
                 \/ /\ worker'[w].stage = "searching"
                    /\ \A p \in WordPartitions : ~(SeenBy(w)[p] > 0)
         /\ ScheduleAdmissions(w) => SamePick(w) /\ worker'[w].stage = "searching"
         /\ ReadDueEntries(w) =>
              \/ SamePick(w) /\ worker'[w].stage \in {"searching", "ended"}
              \/ /\ SameBatch(w) /\ worker'[w].signals = 0 /\ worker'[w].stage = "offering"
                 /\ worker'[w].offers \in SUBSET PartitionsOf(worker[w].arc)
         /\ ReadEarliestDue(w) => /\ SamePick(w) /\ worker'[w].stage = "settling"
                                  /\ worker'[w].earliest = EarliestDue(w)
         /\ Send(w) => /\ SamePick(w) /\ worker'[w].stage = "sending"
                       /\ worker'[w].offers = worker[w].offers
         /\ (\E p \in Peers : SendEnds(w, p)) =>
              /\ SamePick(w) /\ worker'[w].stage = worker[w].stage
              /\ worker'[w].offers = worker[w].offers
<1>0. WorkerTypes /\ DOMAIN worker[w] = DOMAIN Empty
  BY DEF Types, WorkerTypes, IsWorker
<1>1. ReadAdmissions(w) =>
              /\ SamePick(w)
              /\ \/ /\ worker'[w].stage = "scheduling" /\ worker'[w].seen = SeenBy(w)
                    /\ worker'[w].dueBy = DueBySeen(w)
                 \/ /\ worker'[w].stage = "searching"
                    /\ \A p \in WordPartitions : ~(SeenBy(w)[p] > 0)
  <2> SUFFICES ASSUME ReadAdmissions(w)
               PROVE  /\ SamePick(w)
                      /\ \/ /\ worker'[w].stage = "scheduling" /\ worker'[w].seen = SeenBy(w)
                            /\ worker'[w].dueBy = DueBySeen(w)
                         \/ /\ worker'[w].stage = "searching"
                            /\ \A p \in WordPartitions : ~(SeenBy(w)[p] > 0)
    OBVIOUS
  <2>1. PICK stage :
          /\ worker'[w] = [worker[w] EXCEPT !.stage = stage, !.seen = SeenBy(w),
                                            !.dueBy = DueBySeen(w)]
          /\ \/ stage = "scheduling"
             \/ stage = "searching" /\ \A p \in WordPartitions : ~(SeenBy(w)[p] > 0)
    BY <1>0, RecordsInBatch DEF Becomes
  <2> QED
    BY <1>0, <2>1, Fields DEF SamePick, SameBatch
<1>2. ScheduleAdmissions(w) => SamePick(w) /\ worker'[w].stage = "searching"
  <2>1. ScheduleAdmissions(w) =>
          worker'[w] = [worker[w] EXCEPT !.stage = "searching", !.dueBy = {}, !.seen = Empty.seen]
    BY <1>0, RecordsInBatch DEF Becomes
  <2> QED
    BY <1>0, <2>1, Fields DEF SamePick, SameBatch
<1>3. ReadDueEntries(w) =>
              \/ SamePick(w) /\ worker'[w].stage \in {"searching", "ended"}
              \/ /\ SameBatch(w) /\ worker'[w].signals = 0 /\ worker'[w].stage = "offering"
                 /\ worker'[w].offers \in SUBSET PartitionsOf(worker[w].arc)
  <2> SUFFICES ASSUME Reads(w)
               PROVE  \/ SamePick(w) /\ worker'[w].stage \in {"searching", "ended"}
                      \/ /\ SameBatch(w) /\ worker'[w].signals = 0
                         /\ worker'[w].stage = "offering"
                         /\ worker'[w].offers \in SUBSET PartitionsOf(worker[w].arc)
    BY <1>0, RecordsInBatch
  <2>1. ASSUME NEW entries \in SUBSET PartitionsOf(worker[w].arc), NEW recipients,
               NEW offers \in SUBSET entries,
               worker'[w] = [Empty EXCEPT !.stage = "offering", !.arc = worker[w].arc,
                     !.ring = worker[w].ring, !.left = worker[w].left, !.read = entries,
                     !.offers = offers, !.sending = recipients]
        PROVE  /\ SameBatch(w) /\ worker'[w].signals = 0 /\ worker'[w].stage = "offering"
               /\ worker'[w].offers \in SUBSET PartitionsOf(worker[w].arc)
    BY <2>1, Fields, EmptyIsTyped DEF SameBatch
  <2>2. ASSUME NEW stage \in {"ended", "searching"}, NEW position, NEW entries,
               worker'[w] = [worker[w] EXCEPT !.stage = stage, !.at = position, !.read = entries]
        PROVE  SamePick(w) /\ worker'[w].stage \in {"searching", "ended"}
    BY <1>0, <2>2, Fields DEF SamePick, SameBatch
  <2> QED
    BY <2>1, <2>2 DEF Reads, Becomes
<1>4. ReadEarliestDue(w) => /\ SamePick(w) /\ worker'[w].stage = "settling"
                            /\ worker'[w].earliest = EarliestDue(w)
  <2>1. ReadEarliestDue(w) =>
          worker'[w] = [worker[w] EXCEPT !.stage = "settling", !.read = {}, !.at = 0,
                                         !.earliest = EarliestDue(w)]
    BY <1>0, RecordsInBatch DEF Becomes
  <2> QED
    BY <1>0, <2>1, Fields DEF SamePick, SameBatch
<1>5. Send(w) => /\ SamePick(w) /\ worker'[w].stage = "sending"
                 /\ worker'[w].offers = worker[w].offers
  <2>1. Send(w) => worker'[w] = [worker[w] EXCEPT !.stage = "sending"]
    BY <1>0, RecordsInBatch DEF Becomes
  <2> QED
    BY <1>0, <2>1, Fields DEF SamePick, SameBatch
<1>6. (\E p \in Peers : SendEnds(w, p)) =>
              /\ SamePick(w) /\ worker'[w].stage = worker[w].stage
              /\ worker'[w].offers = worker[w].offers
  <2>1. (\E p \in Peers : SendEnds(w, p)) =>
          \E p \in Peers : worker'[w] = [worker[w] EXCEPT !.sending = worker[w].sending \ {p}]
    BY <1>0, RecordsInBatch DEF Becomes
  <2> QED
    BY <1>0, <2>1, Fields DEF SamePick, SameBatch
<1> QED
  BY <1>1, <1>2, <1>3, <1>4, <1>5, <1>6

Idle == {"waiting", "listening", "sleeping", "picking", "ready", "following"}

LEMMA FieldsBetweenBatches ==
  ASSUME Types, NEW w \in Workers
  PROVE  /\ ReadReachablePeers(w) \/ ArcsAmong(w) \/ FindNoOpenArc(w) \/ EndSleep(w)
              \/ EndWait(w) \/ PutBack(w) \/ SettleReadEnd(w) \/ CompleteBatch(w)
              \/ Abandon(w) \/ FollowRing(w)
            => worker'[w].stage \in Idle
<1>0. WorkerTypes /\ DOMAIN worker[w] = DOMAIN Empty
  BY DEF Types, WorkerTypes, IsWorker
<1>1. /\ [worker[w] EXCEPT !.stage = "ready", !.peers = accepting].stage = "ready"
      /\ [Empty EXCEPT !.stage = "picking", !.peers = worker[w].peers].stage = "picking"
      /\ [Empty EXCEPT !.stage = "listening"].stage = "listening"
      /\ [Empty EXCEPT !.stage = "sleeping"].stage = "sleeping"
      /\ [worker[w] EXCEPT !.stage = "picking", !.ring = {}].stage = "picking"
  BY <1>0, Fields
<1>2. CASE ReadReachablePeers(w)
  <2>1. \/ \E t, missed :
             worker'[w] = [Empty EXCEPT !.stage = "waiting", !.alarm = t, !.missed = missed]
        \/ worker'[w] = [worker[w] EXCEPT !.stage = "ready", !.peers = accepting]
    <3>1. Waits(w) \/ Becomes(w, [worker[w] EXCEPT !.stage = "ready", !.peers = accepting])
      BY <1>0, <1>2, RecordsBetweenBatches
    <3> QED
      BY <3>1 DEF Waits, Becomes
  <2>2. worker'[w].stage = "waiting" \/ worker'[w].stage = "ready"
    BY <1>0, <2>1, Fields
  <2> QED
    BY <2>2 DEF Idle
<1>3. CASE FindNoOpenArc(w)
  <2>0. Waits(w)
    BY <1>0, <1>3, RecordsBetweenBatches
  <2>1. PICK t, missed :
          worker'[w] = [Empty EXCEPT !.stage = "waiting", !.alarm = t, !.missed = missed]
    BY <2>0, Zenon DEF Waits, Becomes
  <2>2. worker'[w].stage = "waiting"
    BY <2>1, Fields
  <2> QED
    BY <2>2 DEF Idle
<1>4. CASE EndSleep(w) \/ EndWait(w) \/ CompleteBatch(w) \/ Abandon(w)
  BY <1>0, <1>1, <1>4, RecordsBetweenBatches DEF Begins, Becomes, Idle
<1>5. CASE PutBack(w) \/ SettleReadEnd(w)
  BY <1>0, <1>1, <1>5, RecordsBetweenBatches DEF GoesPicking, Becomes, Idle
<1>6. CASE FollowRing(w)
  BY <1>0, <1>1, <1>6, RingOfWorker DEF Idle
<1>7. CASE ArcsAmong(w)
  <2>0. Follows(w)
    BY <1>0, <1>7, RecordsBetweenBatches
  <2>1. PICK peers : worker'[w] = [worker[w] EXCEPT !.stage = "following", !.ring = peers]
    BY <2>0, Zenon DEF Follows, Becomes
  <2>2. worker'[w].stage = "following"
    BY <1>0, <2>1, Fields
  <2> QED
    BY <2>2 DEF Idle
<1> QED
  BY <1>2, <1>3, <1>4, <1>5, <1>6, <1>7

\* A worker writes due times and admissions of its own arc alone.
LEMMA WorkIsLocal ==
  ASSUME Types, LocalInv, NEW w \in Workers, WorkerStep(w)
  PROVE  /\ clock' = clock /\ unsignalled' = unsignalled
         /\ \A p \in WordPartitions :
              \/ due'[p] = due[p] /\ admitted'[p] = admitted[p]
              \/ InBatch(w) /\ p \in PartitionsOf(worker[w].arc)
<1>0. ScheduleTypes /\ WorkerTypes /\ IsLocal(worker[w]) /\ IsWorker(worker[w])
  BY DEF Types, LocalInv, WorkerTypes
<1>1. CASE ScheduleAdmissions(w)
  <2>1. InBatch(w) /\ worker[w].stage = "scheduling"
    BY <1>1 DEF ScheduleAdmissions, At, InBatch, BatchStages
  <2>2. ASSUME NEW p \in WordPartitions, p \notin PartitionsOf(worker[w].arc)
        PROVE  due'[p] = due[p] /\ admitted'[p] = admitted[p]
    <3>1. p \notin worker[w].dueBy /\ worker[w].seen[p] = 0
      BY <1>0, <2>1, <2>2 DEF IsLocal, PartitionsOf
    <3>2. admitted[p] \in Int
      BY <1>0 DEF ScheduleTypes
    <3> QED
      BY <1>1, <3>1, <3>2 DEF ScheduleAdmissions, MarkScheduled
  <2> QED
    BY <1>1, <2>1, <2>2 DEF ScheduleAdmissions
<1>2. CASE CompleteBatch(w)
  <2>1. InBatch(w) /\ worker[w].stage = "sending"
    BY <1>2 DEF CompleteBatch, At, InBatch, BatchStages
  <2>2. \E short, handedOff, wait : due' = DueAfter(w, short, handedOff, wait)
    BY <1>2, CompletedBatch
  <2>3. ASSUME NEW p \in WordPartitions, p \notin PartitionsOf(worker[w].arc)
        PROVE  due'[p] = due[p]
    <3>1. p \notin worker[w].offers
      BY <1>0, <2>1, <2>3 DEF IsLocal
    <3> QED
      BY <2>2, <3>1 DEF DueAfter
  <2>4. clock' = clock /\ unsignalled' = unsignalled /\ admitted' = admitted
    BY <1>2 DEF CompleteBatch
  <2> QED
    BY <2>1, <2>3, <2>4
<1>3. CASE ~ScheduleAdmissions(w) /\ ~CompleteBatch(w)
  <2>1. UNCHANGED <<clock, unsignalled, due, admitted>>
    BY <1>3
    DEF WorkerStep, ReadReachablePeers, ArcsAmong, FollowRing, PickOpenArc, FindNoOpenArc,
        ReadAdmissions, PutBack, ReadDueEntries, ReadEarliestDue, SettleReadEnd, Send, Abandon,
        EndSleep, EndWait, SendEnds, scheduleVars, peerVars, rosterVars
  <2> QED
    BY <2>1
<1> QED
  BY <1>1, <1>2, <1>3

SameWork(v) ==
  /\ worker'[v].stage = worker[v].stage /\ worker'[v].arc = worker[v].arc
  /\ worker'[v].signals = worker[v].signals /\ worker'[v].seen = worker[v].seen
  /\ worker'[v].dueBy = worker[v].dueBy /\ worker'[v].offers = worker[v].offers
  /\ worker'[v].earliest = worker[v].earliest

LEMMA OthersWorkOn ==
  ASSUME Types, NEW w \in Workers, WorkerStep(w), NEW v \in Workers \ {w}
  PROVE  /\ SameWork(v)
         /\ InBatch(v) /\ ~worker'[v].left =>
              ~worker[v].left /\ (FollowRing(w) => worker[v].arc \in DOMAIN arcs')
<1>0. WorkerTypes /\ ArcTypes /\ DOMAIN worker[v] = DOMAIN Empty
  BY DEF Types, WorkerTypes, IsWorker
<1>1. CASE FollowRing(w)
  <2>1. CASE /\ InBatch(v) /\ ~worker[v].left /\ worker[v].arc \notin DOMAIN arcs'
             /\ worker'[v] = [worker[v] EXCEPT !.left = TRUE]
    BY <1>0, <2>1, Fields DEF SameWork
  <2>2. CASE /\ InBatch(v) /\ ~worker[v].left /\ worker[v].arc \in DOMAIN arcs'
             /\ worker'[v] = [worker[v] EXCEPT !.ring = ring']
    BY <1>0, <2>2, Fields DEF SameWork
  <2>3. CASE (~InBatch(v) \/ worker[v].left) /\ worker'[v] = worker[v]
    BY <2>3 DEF SameWork
  <2> QED
    BY <1>0, <1>1, <2>1, <2>2, <2>3, RingOfWorker
<1>2. CASE ~FollowRing(w)
  <2>1. WorksOn(w) \/ PickOpenArc(w)
    BY <1>2, OnlyRingAndPicksMoveBatches
  <2>2. worker'[v] = worker[v]
    BY <1>0, <2>1, ArcsOfPick DEF WorksOn, Picks, Becomes
  <2> QED
    BY <1>2, <2>2 DEF SameWork
<1> QED
  BY <1>1, <1>2

\* Only the end of reading an arc drains it.
LEMMA DrainsAreSettled ==
  ASSUME Types, NEW w \in Workers, WorkerStep(w), NEW a \in DOMAIN arcs', IsDrained(a)'
  PROVE  /\ a \in DOMAIN arcs
         /\ \/ IsDrained(a) /\ arcs'[a].drainedUntil = arcs[a].drainedUntil
            \/ /\ SettleReadEnd(w) /\ Owns(w, a)
               /\ arcs'[a].drainedUntil = worker[w].earliest
               /\ arcs[a].signals = worker[w].signals
<1>0. WorkerTypes /\ ArcTypes /\ ScheduleTypes
  BY DEF Types
<1>1. clock' = clock
  BY DEF WorkerStep, ReadReachablePeers, ArcsAmong, FollowRing, PickOpenArc, FindNoOpenArc,
         ReadAdmissions, ScheduleAdmissions, PutBack, ReadDueEntries, ReadEarliestDue,
         SettleReadEnd, Send, CompleteBatch, Abandon, EndSleep, EndWait, SendEnds
<1>2. CASE UNCHANGED arcs
  BY <1>1, <1>2 DEF IsDrained
<1>3. CASE KeepsArcs \/ Releases(w)
  BY <1>1, <1>3 DEF IsDrained, KeepsArcs, Releases, SameArc, SameButBatch
<1>4. CASE SettleReadEnd(w)
  <2>1. Settles(w)
    BY <1>0, <1>4, ArcsOfSteps
  <2> QED
    BY <1>1, <1>4, <2>1 DEF IsDrained, Settles, SameArc, SameButBatch
<1>5. CASE PickOpenArc(w)
  <2>1. PICK b \in DOMAIN arcs : /\ DOMAIN arcs' = DOMAIN arcs /\ SameButBatch(b)
                                 /\ \A c \in DOMAIN arcs \ {b} : SameArc(c)
    BY <1>0, <1>5, ArcsOfPick
  <2> QED
    BY <1>1, <2>1 DEF IsDrained, SameArc, SameButBatch
<1>6. CASE FollowRing(w)
  <2>1. arcs'[a] = IF a \in DOMAIN arcs THEN arcs[a] ELSE NewArc
    BY <1>0, <1>6, RingOfWorker
  <2>2. NewArc.drainedUntil = 0 /\ ~(clock < 0)
    BY <1>0 DEF NewArc, ScheduleTypes
  <2>3. clock < arcs'[a].drainedUntil
    BY <1>1 DEF IsDrained
  <2>4. a \in DOMAIN arcs
    BY <2>1, <2>2, <2>3
  <2> QED
    BY <2>1, <2>3, <2>4 DEF IsDrained
<1>7. \/ UNCHANGED arcs \/ KeepsArcs \/ Releases(w) \/ SettleReadEnd(w) \/ PickOpenArc(w)
      \/ FollowRing(w)
  BY <1>0, ArcsOfSteps
  DEF WorkerStep, ReadReachablePeers, ArcsAmong, FindNoOpenArc, ReadAdmissions, ScheduleAdmissions,
      ReadEarliestDue, Send, EndSleep, EndWait, SendEnds, walkVars
<1> QED
  BY <1>2, <1>3, <1>4, <1>5, <1>6, <1>7

\* Signals are counted by those who signal alone.
LEMMA SignalsAreCounted ==
  ASSUME Types, NEW w \in Workers, WorkerStep(w), NEW a \in DOMAIN arcs', a \in DOMAIN arcs
  PROVE  arcs'[a].signals = arcs[a].signals
<1>0. WorkerTypes /\ ArcTypes
  BY DEF Types
<1>1. CASE UNCHANGED arcs
  BY <1>1
<1>2. CASE KeepsArcs \/ Releases(w) \/ Settles(w)
  BY <1>2 DEF KeepsArcs, Releases, Settles, SameArc, SameButBatch
<1>3. CASE PickOpenArc(w)
  BY <1>0, <1>3, ArcsOfPick DEF SameArc, SameButBatch
<1>4. CASE FollowRing(w)
  BY <1>0, <1>4, RingOfWorker
<1>5. \/ UNCHANGED arcs \/ KeepsArcs \/ Releases(w) \/ Settles(w) \/ PickOpenArc(w)
      \/ FollowRing(w)
  BY <1>0, ArcsOfSteps
  DEF WorkerStep, ReadReachablePeers, ArcsAmong, FindNoOpenArc, ReadAdmissions, ScheduleAdmissions,
      ReadEarliestDue, Send, EndSleep, EndWait, SendEnds, walkVars
<1> QED
  BY <1>1, <1>2, <1>3, <1>4, <1>5

LEMMA SharedPartition ==
  ASSUME NEW arc, NEW other, IsArc(arc), IsArc(other), NEW p \in PartitionsOf(arc),
         p \in PartitionsOf(other)
  PROVE  Overlaps(arc, other)
<1>1. p \in Positions /\ Holds(arc, p) /\ Holds(other, p)
  BY WalkAssumption DEF PartitionsOf
<1> QED
  BY <1>1, SharersOverlap

\* Another worker leaves alone what a batch looks at.
LEMMA OthersLeaveBatches ==
  ASSUME Types, BatchesAreApart, LocalInv, NEW w \in Workers, WorkerStep(w),
         NEW v \in Workers \ {w}, InBatch(v), NEW p \in PartitionsOf(worker[v].arc)
  PROVE  due'[p] = due[p] /\ admitted'[p] = admitted[p] /\ unsignalled'[p] = unsignalled[p]
<1>1. p \in WordPartitions
  BY DEF PartitionsOf
<1>2. ASSUME InBatch(w), p \in PartitionsOf(worker[w].arc) PROVE FALSE
  <2>1. IsArc(worker[v].arc) /\ IsArc(worker[w].arc)
        /\ ~Overlaps(worker[v].arc, worker[w].arc)
    BY <1>2 DEF BatchesAreApart, BatchInv, NoPartInTwoBatches
  <2> QED
    BY <1>2, <2>1, SharedPartition
<1> QED
  BY <1>1, <1>2, WorkIsLocal

LEMMA WorkKeepsLocal ==
  ASSUME Types, LocalInv, NEW w \in Workers, WorkerStep(w)
  PROVE  LocalInv'
<1>1. ASSUME NEW v \in Workers \ {w} PROVE IsLocal(worker'[v])
  BY <1>1, OthersWorkOn DEF LocalInv, IsLocal, SameWork
<1>2. IsLocal(worker'[w])
  <2>0. IsLocal(worker[w])
    BY DEF LocalInv
  <2>1. CASE worker'[w].stage \notin {"scheduling", "offering", "sending"}
    BY <2>1 DEF IsLocal
  <2>2. CASE ReadAdmissions(w)
    <3>1. CASE worker'[w].stage = "scheduling" /\ worker'[w].seen = SeenBy(w)
               /\ worker'[w].dueBy = DueBySeen(w) /\ worker'[w].arc = worker[w].arc
      <4>1. \A p \in WordPartitions : ~Holds(worker[w].arc, p) => SeenBy(w)[p] = 0
        BY DEF SeenBy
      <4>2. DueBySeen(w) \in SUBSET PartitionsOf(worker[w].arc)
        BY <4>1 DEF DueBySeen, PartitionsOf
      <4> QED
        BY <3>1, <4>1, <4>2 DEF IsLocal
    <3>2. CASE worker'[w].stage = "searching"
      BY <3>2 DEF IsLocal
    <3> QED
      BY <2>2, <3>1, <3>2, FieldsInBatch DEF SamePick, SameBatch
  <2>3. CASE ReadDueEntries(w)
    <3>1. CASE worker'[w].stage \in {"searching", "ended"}
      BY <3>1 DEF IsLocal
    <3>2. CASE /\ worker'[w].stage = "offering" /\ worker'[w].arc = worker[w].arc
               /\ worker'[w].offers \in SUBSET PartitionsOf(worker[w].arc)
      BY <3>2 DEF IsLocal
    <3> QED
      BY <2>3, <3>1, <3>2, FieldsInBatch DEF SamePick, SameBatch
  <2>4. CASE Send(w) \/ \E p \in Peers : SendEnds(w, p)
    <3>1. /\ worker[w].stage \in {"offering", "sending"} /\ worker'[w].stage = "sending"
          /\ worker'[w].arc = worker[w].arc /\ worker'[w].offers = worker[w].offers
      BY <2>4, FieldsInBatch DEF Send, SendEnds, At, SamePick, SameBatch
    <3> QED
      BY <2>0, <3>1 DEF IsLocal
  <2>5. CASE PickOpenArc(w)
    <3>1. worker'[w].stage = "picked"
      <4>1. PICK a : Picks(w, a)
        BY <2>5, ArcsOfPick DEF Types
      <4>2. DOMAIN worker[w] = DOMAIN Empty
        BY DEF Types, WorkerTypes, IsWorker
      <4> QED
        BY <4>1, <4>2, Fields DEF Picks, Becomes
    <3> QED
      BY <2>1, <3>1
  <2>6. CASE ScheduleAdmissions(w) \/ ReadEarliestDue(w)
    BY <2>1, <2>6, FieldsInBatch
  <2>7. CASE worker'[w].stage \in Idle
    BY <2>1, <2>7 DEF Idle
  <2> QED
    BY <2>2, <2>3, <2>4, <2>5, <2>6, <2>7, FieldsBetweenBatches DEF WorkerStep
<1> QED
  BY <1>1, <1>2 DEF LocalInv, IsLocal

LEMMA WorkKeepsDrainsApart ==
  ASSUME Types, BatchesAreApart, DrainInv, NEW w \in Workers, WorkerStep(w)
  PROVE  DrainsApart'
<1>0. WorkerTypes /\ ArcTypes /\ DrainsApart
  BY DEF Types, DrainInv
<1> SUFFICES ASSUME NEW v \in Workers, NEW a \in DOMAIN arcs', InBatch(v)', IsDrained(a)'
             PROVE  ~Overlaps(worker'[v].arc, a)
  BY DEF DrainsApart
<1>1. /\ a \in DOMAIN arcs
      /\ \/ IsDrained(a)
         \/ SettleReadEnd(w) /\ Owns(w, a)
  BY DrainsAreSettled
<1>2. CASE v # w
  <2>1. worker'[v].arc = worker[v].arc /\ InBatch(v)
    BY <1>2, OthersWorkOn DEF SameWork, InBatch
  <2>2. CASE SettleReadEnd(w) /\ Owns(w, a)
    <3>1. InBatch(w) /\ a = worker[w].arc
      BY <2>2, StepsThatEndBatches DEF Owns
    <3> QED
      BY <1>2, <2>1, <3>1 DEF BatchesAreApart, NoPartInTwoBatches
  <2>3. CASE IsDrained(a)
    BY <1>0, <1>1, <2>1, <2>3 DEF DrainsApart
  <2> QED
    BY <1>1, <2>2, <2>3
<1>3. CASE v = w /\ PickOpenArc(w)
  <2>1. PICK b \in DOMAIN arcs : IsOpen(b) /\ Picks(w, b)
    BY <1>0, <1>3, ArcsOfPick
  <2>2. worker'[w].arc = b
    BY <1>0, <2>1, Fields DEF Picks, Becomes, WorkerTypes, IsWorker
  <2>3. a # b /\ IsDrained(a)
    BY <1>1, <1>3, <2>1 DEF IsOpen, SettleReadEnd, PickOpenArc, At
  <2> QED
    BY <1>0, <1>1, <1>3, <2>2, <2>3, ArcsAreApart DEF ArcTypes
<1>4. CASE v = w /\ ~PickOpenArc(w)
  <2>1. worker'[w].stage \notin Idle
    BY <1>4 DEF InBatch, BatchStages, Idle
  <2>2. WorksOn(w) /\ ~SettleReadEnd(w)
    BY <1>4, <2>1, OnlyRingAndPicksMoveBatches, FieldsBetweenBatches
  <2>3. InBatch(w) /\ worker'[w].arc = worker[w].arc
    BY <1>4, <2>2 DEF WorksOn, Becomes, InBatch
  <2> QED
    BY <1>0, <1>1, <1>4, <2>2, <2>3 DEF DrainsApart
<1> QED
  BY <1>2, <1>3, <1>4

LEMMA WorkKeepsDrains ==
  ASSUME Types, BatchesAreApart, DrainInv, NEW w \in Workers, WorkerStep(w)
  PROVE  DrainsInv'
<1>0. WorkerTypes /\ ArcTypes /\ DrainsApart /\ DrainsInv /\ LocalInv /\ EarliestInv /\ SignalsInv
  BY DEF Types, DrainInv
<1> SUFFICES ASSUME NEW a \in DOMAIN arcs', IsDrained(a)', NEW p \in PartitionsOf(a)
             PROVE  due'[p] >= arcs'[a].drainedUntil /\ admitted'[p] <= unsignalled'[p]
  BY DEF DrainsInv
<1>1. /\ a \in DOMAIN arcs
      /\ \/ IsDrained(a) /\ arcs'[a].drainedUntil = arcs[a].drainedUntil
         \/ /\ SettleReadEnd(w) /\ Owns(w, a)
            /\ arcs'[a].drainedUntil = worker[w].earliest
            /\ arcs[a].signals = worker[w].signals
  BY DrainsAreSettled
<1>2. CASE IsDrained(a) /\ arcs'[a].drainedUntil = arcs[a].drainedUntil
  <2>1. p \in WordPartitions
    BY DEF PartitionsOf
  <2>2. ASSUME InBatch(w), p \in PartitionsOf(worker[w].arc) PROVE FALSE
    <3>1. IsArc(worker[w].arc) /\ IsArc(a) /\ ~Overlaps(worker[w].arc, a)
      BY <1>0, <1>1, <1>2, <2>2, ArcsAreArcs DEF BatchesAreApart, BatchInv, DrainsApart, ArcTypes
    <3> QED
      BY <2>2, <3>1, SharedPartition
  <2>3. due'[p] = due[p] /\ admitted'[p] = admitted[p] /\ unsignalled'[p] = unsignalled[p]
    BY <1>0, <2>1, <2>2, WorkIsLocal
  <2> QED
    BY <1>0, <1>1, <1>2, <2>3 DEF DrainsInv
<1>3. CASE /\ SettleReadEnd(w) /\ Owns(w, a)
           /\ arcs'[a].drainedUntil = worker[w].earliest
           /\ arcs[a].signals = worker[w].signals
  <2>1. /\ At(w, "settling") /\ InBatch(w) /\ ~worker[w].left /\ a = worker[w].arc
        /\ due' = due /\ admitted' = admitted /\ unsignalled' = unsignalled
    BY <1>3 DEF SettleReadEnd, Owns, InBatch, At, BatchStages, scheduleVars
  <2>2. worker[w].earliest <= due[p] /\ admitted[p] <= unsignalled[p]
    BY <1>0, <1>3, <2>1 DEF EarliestInv, SignalsInv, SignalsOf, ArcOf, At
  <2>3. worker[w].earliest \in Nat /\ due[p] \in Nat
    BY <1>0 DEF WorkerTypes, IsWorker, Types, ScheduleTypes, PartitionsOf
  <2> QED
    BY <1>3, <2>1, <2>2, <2>3
<1> QED
  BY <1>1, <1>2, <1>3

LEMMA WorkKeepsEarliest ==
  ASSUME Types, BatchesAreApart, DrainInv, NEW w \in Workers, WorkerStep(w)
  PROVE  EarliestInv'
<1>0. LocalInv /\ EarliestInv /\ ScheduleTypes
  BY DEF DrainInv, Types
<1> SUFFICES ASSUME NEW v \in Workers, worker'[v].stage = "settling",
                    NEW p \in PartitionsOf(worker'[v].arc)
             PROVE  worker'[v].earliest <= due'[p]
  BY DEF EarliestInv, At
<1>1. CASE v # w
  <2>1. /\ worker'[v].arc = worker[v].arc /\ worker'[v].earliest = worker[v].earliest
        /\ worker[v].stage = "settling"
    BY <1>1, OthersWorkOn DEF SameWork
  <2>2. due'[p] = due[p]
    BY <1>0, <1>1, <2>1, OthersLeaveBatches DEF InBatch, BatchStages
  <2> QED
    BY <1>0, <2>1, <2>2 DEF EarliestInv, At
<1>2. CASE v = w /\ ReadEarliestDue(w)
  <2>1. /\ worker'[w].arc = worker[w].arc /\ worker'[w].earliest = EarliestDue(w)
        /\ due' = due
    BY <1>2, FieldsInBatch DEF SamePick, SameBatch, ReadEarliestDue, scheduleVars
  <2> QED
    BY <1>0, <1>2, <2>1, EarliestDueIsLeast
<1>3. CASE v = w /\ ~ReadEarliestDue(w)
  <2>1. worker'[w].stage = "settling" /\ "settling" \notin Idle
    BY <1>3 DEF Idle
  <2>2. ~PickOpenArc(w)
    <3> SUFFICES ASSUME PickOpenArc(w) PROVE FALSE
      OBVIOUS
    <3>1. PICK a : Picks(w, a)
      BY ArcsOfPick DEF Types
    <3>2. DOMAIN worker[w] = DOMAIN Empty
      BY DEF Types, WorkerTypes, IsWorker
    <3>3. worker'[w].stage = "picked"
      BY <3>1, <3>2, Fields DEF Picks, Becomes
    <3> QED
      BY <2>1, <3>3
  <2>3. ~ReadAdmissions(w) /\ ~ScheduleAdmissions(w) /\ ~ReadDueEntries(w) /\ ~Send(w)
    BY <2>1, FieldsInBatch
  <2>4. ~\E q \in Peers : SendEnds(w, q)
    BY <2>1, FieldsInBatch DEF SendEnds, At
  <2> QED
    BY <1>3, <2>1, <2>2, <2>3, <2>4, FieldsBetweenBatches DEF WorkerStep
<1> QED
  BY <1>1, <1>2, <1>3

LEMMA WorkKeepsSignals ==
  ASSUME Types, BatchesAreApart, DrainInv, NEW w \in Workers, WorkerStep(w)
  PROVE  SignalsInv'
<1>0. LocalInv /\ SignalsInv /\ ScheduleTypes /\ WorkerTypes /\ ArcTypes
  BY DEF DrainInv, Types
<1>1. ASSUME NEW v \in Workers \ {w}, InBatch(v)', ~worker'[v].left
      PROVE  SignalsOf(v)'
  <2>1. SameWork(v) /\ InBatch(v) /\ ~worker[v].left
        /\ (FollowRing(w) => worker[v].arc \in DOMAIN arcs')
    BY <1>1, OthersWorkOn DEF SameWork, InBatch
  <2>2. worker[v].arc \in DOMAIN arcs
    BY <2>1 DEF BatchesAreApart, BatchInv
  <2>3. worker[v].arc \in DOMAIN arcs'
    <3>1. CASE FollowRing(w)
      BY <2>1, <3>1
    <3>2. CASE WorksOn(w)
      BY <2>2, <3>2 DEF WorksOn
    <3>3. CASE PickOpenArc(w)
      BY <1>0, <2>2, <3>3, ArcsOfPick
    <3> QED
      BY <3>1, <3>2, <3>3, OnlyRingAndPicksMoveBatches
  <2>4. arcs'[worker[v].arc].signals = arcs[worker[v].arc].signals
    BY <2>2, <2>3, SignalsAreCounted
  <2>5. \A p \in PartitionsOf(worker[v].arc) :
          admitted'[p] = admitted[p] /\ unsignalled'[p] = unsignalled[p]
    BY <1>0, <1>1, <2>1, OthersLeaveBatches
  <2>6. SignalsOf(v)
    BY <1>0, <2>1 DEF SignalsInv
  <2> QED
    BY <2>1, <2>4, <2>5, <2>6 DEF SignalsOf, ArcOf, At, SameWork
<1>2. ASSUME InBatch(w)', ~worker'[w].left
      PROVE  SignalsOf(w)'
  <2>0. worker'[w].stage \notin Idle
    BY <1>2 DEF InBatch, BatchStages, Idle
  <2>1. CASE PickOpenArc(w)
    <3>1. PICK a \in DOMAIN arcs : Picks(w, a) /\ SameButBatch(a)
      BY <1>0, <2>1, ArcsOfPick
    <3>2. worker'[w].arc = a /\ worker'[w].signals = arcs[a].signals /\ worker'[w].stage = "picked"
      BY <1>0, <3>1, Fields DEF Picks, Becomes, WorkerTypes, IsWorker
    <3>3. arcs[a].signals \in Nat /\ arcs'[a].signals = arcs[a].signals
      BY <1>0, <3>1 DEF ArcTypes, SameButBatch
    <3> QED
      BY <3>2, <3>3 DEF SignalsOf, ArcOf, At
  <2>2. CASE ~PickOpenArc(w)
    <3>1. WorksOn(w)
      BY <2>0, <2>2, OnlyRingAndPicksMoveBatches, FieldsBetweenBatches
    <3>2. InBatch(w) /\ worker'[w].arc = worker[w].arc /\ ~worker[w].left
          /\ DOMAIN arcs' = DOMAIN arcs
      BY <1>2, <3>1 DEF WorksOn, Becomes, InBatch
    <3>3. worker[w].arc \in DOMAIN arcs
      BY <3>2 DEF BatchesAreApart, BatchInv
    <3>4. arcs'[worker[w].arc].signals = arcs[worker[w].arc].signals
          /\ arcs[worker[w].arc].signals \in Nat
      BY <1>0, <3>2, <3>3, SignalsAreCounted DEF ArcTypes
    <3>5. SignalsOf(w)
      BY <1>0, <3>2 DEF SignalsInv
    <3>6. \A p \in PartitionsOf(worker[w].arc) :
            p \in WordPartitions /\ admitted[p] \in Int /\ unsignalled[p] \in Nat
      BY <1>0 DEF ScheduleTypes, PartitionsOf
    <3>7. CASE ReadAdmissions(w)
      <4>1. UNCHANGED <<admitted, unsignalled>> /\ SamePick(w)
        BY <3>7, FieldsInBatch DEF ReadAdmissions, scheduleVars
      <4>2. \A p \in PartitionsOf(worker[w].arc) : SeenBy(w)[p] = admitted[p]
        BY DEF SeenBy, PartitionsOf
      <4>3. CASE worker'[w].stage = "scheduling" /\ worker'[w].seen = SeenBy(w)
        BY <3>2, <3>4, <3>5, <3>6, <4>1, <4>2, <4>3 DEF SignalsOf, ArcOf, At, SamePick
      <4>4. CASE worker'[w].stage = "searching" /\ \A p \in WordPartitions : ~(SeenBy(w)[p] > 0)
        BY <3>2, <3>4, <3>5, <3>6, <4>1, <4>2, <4>4 DEF SignalsOf, ArcOf, At, SamePick
      <4> QED
        BY <3>7, <4>3, <4>4, FieldsInBatch
    <3>8. CASE ScheduleAdmissions(w)
      <4>1. /\ unsignalled' = unsignalled /\ SamePick(w) /\ worker'[w].stage = "searching"
            /\ worker[w].stage = "scheduling"
            /\ \A p \in WordPartitions : admitted'[p] = admitted[p] - worker[w].seen[p]
        BY <3>8, FieldsInBatch DEF ScheduleAdmissions, At, MarkScheduled
      <4> QED
        BY <3>2, <3>4, <3>5, <3>6, <4>1 DEF SignalsOf, ArcOf, At, SamePick
    <3>9. CASE ReadDueEntries(w)
      <4>1. UNCHANGED <<admitted, unsignalled>> /\ worker[w].stage = "searching"
        BY <3>9 DEF ReadDueEntries, scheduleVars, At
      <4>2. CASE SamePick(w) /\ worker'[w].stage \in {"searching", "ended"}
        BY <3>2, <3>4, <3>5, <4>1, <4>2 DEF SignalsOf, ArcOf, At, SamePick
      <4>3. CASE worker'[w].signals = 0 /\ worker'[w].stage = "offering"
        BY <3>2, <3>4, <4>3 DEF SignalsOf, ArcOf, At
      <4> QED
        BY <3>9, <4>2, <4>3, FieldsInBatch
    <3>10. CASE ReadEarliestDue(w)
      <4>1. /\ UNCHANGED <<admitted, unsignalled>> /\ worker[w].stage = "ended"
            /\ SamePick(w) /\ worker'[w].stage = "settling"
        BY <3>10, FieldsInBatch DEF ReadEarliestDue, scheduleVars, At
      <4> QED
        BY <3>2, <3>4, <3>5, <4>1 DEF SignalsOf, ArcOf, At, SamePick
    <3>11. CASE Send(w) \/ \E p \in Peers : SendEnds(w, p)
      <4>1. SamePick(w) /\ worker'[w].stage = "sending"
        BY <3>11, FieldsInBatch DEF SendEnds, At
      <4> QED
        BY <3>2, <3>4, <3>5, <4>1 DEF SignalsOf, ArcOf, At, SamePick
    <3> QED
      BY <2>0, <2>2, <3>7, <3>8, <3>9, <3>10, <3>11, FieldsBetweenBatches DEF WorkerStep
  <2> QED
    BY <2>1, <2>2
<1> QED
  BY <1>1, <1>2 DEF SignalsInv

\* What happens beside the workers.
LEMMA AdmissionsKeepDrains ==
  ASSUME Types, BatchesAreApart, DrainInv, NEW p \in WordPartitions, Admit(p) \/ SignalAdmission(p)
  PROVE  DrainInv'
<1>0. LocalInv /\ DrainsApart /\ DrainsInv /\ EarliestInv /\ SignalsInv /\ ScheduleTypes /\ ArcTypes
  BY DEF DrainInv, Types
<1>1. UNCHANGED <<worker, clock, due>>
  BY DEF Admit, SignalAdmission
<1>2. /\ DOMAIN arcs' = DOMAIN arcs
      /\ \A a \in DOMAIN arcs :
           \/ SameArc(a) /\ (SignalAdmission(p) => p \notin PartitionsOf(a))
           \/ /\ arcs'[a].signals = arcs[a].signals + 1 /\ arcs'[a].drainedUntil = 0
              /\ SignalAdmission(p)
           \/ Admit(p) /\ arcs'[a] = arcs[a]
  BY <1>0, ArcsOfSignal DEF Admit, walkVars, PartitionsOf
<1>3. \/ /\ Admit(p) /\ \A q \in WordPartitions :
              \/ admitted'[q] = admitted[q] /\ unsignalled'[q] = unsignalled[q]
              \/ admitted'[q] = admitted[q] + 1 /\ unsignalled'[q] = unsignalled[q] + 1
      \/ /\ SignalAdmission(p) /\ admitted' = admitted
         /\ \A q \in WordPartitions \ {p} : unsignalled'[q] = unsignalled[q]
  BY <1>0 DEF Admit, SignalAdmission, ScheduleTypes
<1>4. ASSUME NEW a \in DOMAIN arcs, IsDrained(a)'
      PROVE  /\ IsDrained(a) /\ arcs'[a].drainedUntil = arcs[a].drainedUntil
             /\ SignalAdmission(p) => p \notin PartitionsOf(a)
  <2>1. clock < arcs'[a].drainedUntil /\ ~(clock < 0)
    BY <1>0, <1>1, <1>4 DEF IsDrained, ScheduleTypes
  <2>2. ~(Admit(p) /\ SignalAdmission(p))
    <3>1. Admit(p) => admitted'[p] = admitted[p] + 1
      BY <1>0 DEF Admit, ScheduleTypes
    <3>2. SignalAdmission(p) => admitted' = admitted
      BY DEF SignalAdmission
    <3>3. admitted[p] \in Int
      BY <1>0 DEF ScheduleTypes
    <3> QED
      BY <3>1, <3>2, <3>3
  <2> QED
    BY <1>2, <2>1, <2>2 DEF IsDrained, SameArc, SameButBatch
<1>5. LocalInv' /\ EarliestInv'
  BY <1>0, <1>1 DEF LocalInv, EarliestInv, At
<1>6. DrainsApart'
  BY <1>0, <1>1, <1>2, <1>4 DEF DrainsApart, InBatch
<1>7. DrainsInv'
  <2> SUFFICES ASSUME NEW a \in DOMAIN arcs, IsDrained(a)', NEW q \in PartitionsOf(a)
               PROVE  due'[q] >= arcs'[a].drainedUntil /\ admitted'[q] <= unsignalled'[q]
    BY <1>2 DEF DrainsInv
  <2>1. q \in WordPartitions /\ admitted[q] \in Int /\ unsignalled[q] \in Nat
    BY <1>0 DEF PartitionsOf, ScheduleTypes
  <2>2. due[q] >= arcs[a].drainedUntil /\ admitted[q] <= unsignalled[q]
    BY <1>0, <1>4 DEF DrainsInv
  <2> QED
    BY <1>1, <1>3, <1>4, <2>1, <2>2
<1>8. SignalsInv'
  <2> SUFFICES ASSUME NEW w \in Workers, InBatch(w), ~worker[w].left PROVE SignalsOf(w)'
    BY <1>1 DEF SignalsInv, InBatch
  <2>1. SignalsOf(w) /\ worker[w].arc \in DOMAIN arcs
    BY <1>0 DEF SignalsInv, BatchesAreApart, BatchInv
  <2>2. arcs[worker[w].arc].signals \in Nat /\ worker[w].signals \in Nat
    BY <1>0, <2>1 DEF ArcTypes, Types, WorkerTypes, IsWorker
  <2>3. \A q \in PartitionsOf(worker[w].arc) :
          q \in WordPartitions /\ admitted[q] \in Int /\ unsignalled[q] \in Nat
          /\ worker[w].seen[q] \in Int
    BY <1>0 DEF PartitionsOf, ScheduleTypes, Types, WorkerTypes, IsWorker
  <2>4. CASE arcs'[worker[w].arc].signals = arcs[worker[w].arc].signals + 1
    BY <1>1, <2>1, <2>2, <2>4 DEF SignalsOf, ArcOf
  <2>5. CASE /\ arcs'[worker[w].arc].signals = arcs[worker[w].arc].signals
             /\ Admit(p) \/ p \notin PartitionsOf(worker[w].arc)
    <3>1. ASSUME NEW q \in PartitionsOf(worker[w].arc)
          PROVE  \/ admitted'[q] = admitted[q] /\ unsignalled'[q] = unsignalled[q]
                 \/ admitted'[q] = admitted[q] + 1 /\ unsignalled'[q] = unsignalled[q] + 1
      BY <1>0, <1>3, <2>3, <2>5 DEF Admit, SignalAdmission, ScheduleTypes
    <3> QED
      BY <1>1, <2>1, <2>3, <2>5, <3>1 DEF SignalsOf, ArcOf, At
  <2> QED
    BY <1>2, <2>1, <2>4, <2>5 DEF SameArc, SameButBatch
<1> QED
  BY <1>5, <1>6, <1>7, <1>8 DEF DrainInv

LEMMA DrainsStay == Types /\ BatchesAreApart /\ DrainInv /\ [Next]_vars => DrainInv'
<1> SUFFICES ASSUME Types, BatchesAreApart, DrainInv, [Next]_vars PROVE DrainInv'
  OBVIOUS
<1>0. LocalInv /\ DrainsApart /\ DrainsInv /\ EarliestInv /\ SignalsInv /\ ScheduleTypes /\ ArcTypes
  BY DEF DrainInv, Types
<1>1. ASSUME NEW w \in Workers, WorkerStep(w) PROVE DrainInv'
  BY <1>0, <1>1, WorkKeepsLocal, WorkKeepsDrainsApart, WorkKeepsDrains, WorkKeepsEarliest,
     WorkKeepsSignals DEF DrainInv
<1>2. CASE Restart
  <2>1. arcs' = [a \in {} |-> NewArc] /\ \A w \in Workers : worker'[w].stage = "listening"
    BY <1>2, EmptyIsTyped DEF Restart
  <2> QED
    BY <2>1 DEF DrainInv, LocalInv, IsLocal, DrainsApart, DrainsInv, EarliestInv, SignalsInv,
                InBatch, At, BatchStages
<1>3. CASE Tick
  <2>1. clock' = clock + 1 /\ UNCHANGED <<scheduleVars, arcs, worker>>
    BY <1>3 DEF Tick, walkVars
  <2>2. \A a \in DOMAIN arcs : IsDrained(a)' => IsDrained(a)
    <3> TAKE a \in DOMAIN arcs
    <3>1. arcs[a].drainedUntil \in Nat /\ clock \in Nat
      BY <1>0 DEF ArcTypes, ScheduleTypes
    <3> QED
      BY <2>1, <3>1 DEF IsDrained
  <2> QED
    <3>1. LocalInv' /\ EarliestInv'
      BY <1>0, <2>1 DEF LocalInv, EarliestInv, At, scheduleVars
    <3>2. DrainsApart'
      BY <1>0, <2>1, <2>2 DEF DrainsApart, InBatch
    <3>3. DrainsInv'
      BY <1>0, <2>1, <2>2 DEF DrainsInv, scheduleVars
    <3>4. SignalsInv'
      BY <1>0, <2>1 DEF SignalsInv, SignalsOf, ArcOf, At, InBatch, scheduleVars
    <3> QED
      BY <3>1, <3>2, <3>3, <3>4 DEF DrainInv
<1>4. CASE UNCHANGED <<clock, scheduleVars, arcs, worker>>
  BY <1>0, <1>4 DEF DrainInv, LocalInv, DrainsApart, DrainsInv, EarliestInv, SignalsInv,
              InBatch, At, SignalsOf, ArcOf, scheduleVars, IsDrained
<1>5. CASE (\E p \in MovingPeers : ChangeRoster(p)) \/ SignalReachablePeers \/ UNCHANGED vars
  BY <1>4, <1>5 DEF ChangeRoster, SignalReachablePeers, vars, walkVars
<1> QED
  BY <1>1, <1>2, <1>3, <1>5, AdmissionsKeepDrains DEF Next

LEMMA DrainsAtFirst == Init => DrainInv
<1> SUFFICES ASSUME Init PROVE DrainInv
  OBVIOUS
<1>1. arcs = [a \in {} |-> NewArc] /\ \A w \in Workers : worker[w].stage = "listening"
  BY EmptyIsTyped DEF Init
<1> QED
  BY <1>1 DEF DrainInv, LocalInv, IsLocal, DrainsApart, DrainsInv, EarliestInv, SignalsInv,
                InBatch, At, BatchStages

\* An arc that is drained has no word partition that falls due before the drain ends and no
\* admission whose signal is not still to come (settleReadEnd against signalAdmission).
THEOREM DrainedHaveNothing == Spec => []DrainedArcsHaveNothing
<1>1. Spec => [](BatchesAreApart /\ DrainInv)
  BY BatchesApartAtFirst, BatchesStayApart, DrainsAtFirst, DrainsStay, TypesHold, PTL DEF Spec
<1>2. DrainInv => DrainedArcsHaveNothing
  BY DEF DrainInv, DrainsInv, DrainedArcsHaveNothing
<1> QED
  BY <1>1, <1>2, PTL
=============================================================================
