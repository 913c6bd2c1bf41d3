------------------------- MODULE ArcWalkTypeProofs -------------------------
(***************************************************************************)
(* Proof of the type invariant of ArcWalk: what is bounded there, by the   *)
(* clock, the workers and the admissions, needs the batches to be apart.   *)
(* And from the types, that the workers lose no wake-up.                   *)
(***************************************************************************)
EXTENDS ArcWalkProofs, FiniteSetTheorems

-----------------------------------------------------------------------------
(* Stages and flags *)

FlagsInv ==
  /\ clock \in 1 .. MaxClock /\ rosterNews \in BOOLEAN
  /\ pausedUntil \in [Peers -> 0 .. MaxClock] /\ wake \in [Workers -> BOOLEAN]
  /\ \A w \in Workers : worker[w].stage \in Stages

LEMMA StagesAre ==
  /\ Stages = {"picked", "scheduling", "searching", "ended", "settling", "offering", "sending",
               "listening", "ready", "following", "picking", "waiting", "sleeping"}
  /\ Idle = {"waiting", "listening", "sleeping", "picking", "ready", "following"}
BY DEF Stages, BatchStages, Idle

\* The stage each step of a worker begins and ends in.
LEMMA StagesOfSteps ==
  ASSUME Types, NEW w \in Workers, WorkerStep(w)
  PROVE  \/ worker'[w].stage \in Idle
         \/ PickOpenArc(w) /\ worker'[w].stage = "picked"
         \/ ReadAdmissions(w) /\ worker'[w].stage \in {"scheduling", "searching"}
         \/ ScheduleAdmissions(w) /\ worker'[w].stage = "searching"
         \/ ReadDueEntries(w) /\ worker'[w].stage \in {"searching", "ended", "offering"}
         \/ ReadEarliestDue(w) /\ worker'[w].stage = "settling"
         \/ Send(w) /\ worker'[w].stage = "sending"
         \/ (\E p \in Peers : SendEnds(w, p)) /\ worker'[w].stage = "sending"
<1>1. CASE PickOpenArc(w)
  <2>1. PICK a : Picks(w, a)
    BY <1>1, ArcsOfPick DEF Types
  <2>2. DOMAIN worker[w] = DOMAIN Empty
    BY DEF Types, WorkerTypes, IsWorker
  <2>3. worker'[w].stage = "picked"
    BY <2>1, <2>2, Fields DEF Picks, Becomes
  <2> QED
    BY <1>1, <2>3
<1>2. CASE ReadAdmissions(w)
  BY <1>2, FieldsInBatch
<1>3. CASE ScheduleAdmissions(w)
  BY <1>3, FieldsInBatch
<1>4. CASE ReadDueEntries(w)
  BY <1>4, FieldsInBatch
<1>5. CASE ReadEarliestDue(w)
  BY <1>5, FieldsInBatch
<1>6. CASE Send(w)
  BY <1>6, FieldsInBatch
<1>7. CASE \E p \in Peers : SendEnds(w, p)
  <2>1. worker'[w].stage = worker[w].stage
    BY <1>7, FieldsInBatch
  <2>2. worker[w].stage = "sending"
    BY <1>7 DEF SendEnds, At
  <2> QED
    BY <1>7, <2>1, <2>2
<1> QED
  BY <1>1, <1>2, <1>3, <1>4, <1>5, <1>6, <1>7, FieldsBetweenBatches DEF WorkerStep

LEMMA StagesAreKept ==
  ASSUME Types, FlagsInv, NEW w \in Workers, WorkerStep(w), NEW v \in Workers
  PROVE  worker'[v].stage \in Stages
<1>1. CASE v = w
  <2>1. worker'[w].stage \in Idle \cup {"picked", "scheduling", "searching", "ended", "offering",
                                        "settling", "sending"}
    BY StagesOfSteps
  <2> QED
    BY <1>1, <2>1, StagesAre
<1>2. CASE v # w
  BY <1>2, OthersWorkOn DEF SameWork, FlagsInv
<1> QED
  BY <1>1, <1>2

LEMMA WakesAreFlags ==
  ASSUME WakeWorkers
  PROVE  wake' \in [Workers -> BOOLEAN]
<1>1. \A w \in Workers : (w \in Listening) \in BOOLEAN
  OBVIOUS
<1> QED
  BY <1>1, Zenon DEF WakeWorkers

\* What wakes, pauses and counts of sends a step of a worker changes.
LEMMA WakesOfSteps ==
  ASSUME wake \in [Workers -> BOOLEAN], NEW w \in Workers, WorkerStep(w)
  PROVE  wake' \in [Workers -> BOOLEAN]
<1>1. CASE EndSleep(w) \/ EndWait(w)
  <2>1. wake' = [wake EXCEPT ![w] = FALSE]
    BY <1>1 DEF EndSleep, EndWait, BeginsRound
  <2> QED
    BY <2>1
<1>2. CASE SettleReadEnd(w) \/ CompleteBatch(w)
  BY <1>2, WakesAreFlags DEF SettleReadEnd, CompleteBatch
<1>3. CASE ~(EndSleep(w) \/ EndWait(w) \/ SettleReadEnd(w) \/ CompleteBatch(w))
  <2>1. UNCHANGED wake
    BY <1>3 DEF wakeVars, WorkerStep, ReadReachablePeers, ArcsAmong, FollowRing, PickOpenArc,
      FindNoOpenArc,
      ReadAdmissions, ScheduleAdmissions, PutBack, ReadDueEntries, ReadEarliestDue, Send,
      Abandon, SendEnds
  <2> QED
    BY <2>1
<1> QED
  BY <1>1, <1>2, <1>3

LEMMA PausesOfSteps ==
  ASSUME pausedUntil \in [Peers -> 0 .. MaxClock], clock \in 1 .. MaxClock,
         NEW w \in Workers, WorkerStep(w)
  PROVE  pausedUntil' \in [Peers -> 0 .. MaxClock]
<1>1. ASSUME NEW p \in Peers, SendEnds(w, p) PROVE pausedUntil' \in [Peers -> 0 .. MaxClock]
  <2>1. \/ pausedUntil' = [pausedUntil EXCEPT ![p] = 0]
        \/ clock + Pause <= MaxClock /\ pausedUntil' = [pausedUntil EXCEPT ![p] = clock + Pause]
    BY <1>1 DEF SendEnds, OfferAccepted, RecordUnacceptedOffer
  <2>2. 0 \in 0 .. MaxClock /\ (clock + Pause <= MaxClock => clock + Pause \in 0 .. MaxClock)
    BY NumbersOfTheWalk
  <2> QED
    BY <2>1, <2>2
<1>2. CASE ~\E p \in Peers : SendEnds(w, p)
  <2>1. UNCHANGED pausedUntil
    BY <1>2 DEF WorkerStep, ReadReachablePeers, ArcsAmong, FollowRing, PickOpenArc, FindNoOpenArc,
      ReadAdmissions, ScheduleAdmissions, PutBack, ReadDueEntries, ReadEarliestDue,
      SettleReadEnd, Send, CompleteBatch, Abandon, EndSleep, EndWait, peerVars, rosterVars,
      eligibilityVars
  <2> QED
    BY <2>1
<1> QED
  BY <1>1, <1>2

LEMMA FlagsAreKept ==
  ASSUME Types, FlagsInv, [Next]_vars
  PROVE  FlagsInv'
<1>1. ASSUME NEW w \in Workers, WorkerStep(w) PROVE FlagsInv'
  <2>1. UNCHANGED <<clock, rosterNews>>
    BY <1>1 DEF WorkerStep, ReadReachablePeers, ArcsAmong, FollowRing, PickOpenArc, FindNoOpenArc,
      ReadAdmissions, ScheduleAdmissions, PutBack, ReadDueEntries, ReadEarliestDue,
      SettleReadEnd, Send, CompleteBatch, Abandon, EndSleep, EndWait, SendEnds, peerVars,
      rosterVars, eligibilityVars
  <2>2. \A v \in Workers : worker'[v].stage \in Stages
    BY <1>1, StagesAreKept
  <2>3. pausedUntil' \in [Peers -> 0 .. MaxClock] /\ wake' \in [Workers -> BOOLEAN]
    BY <1>1, PausesOfSteps, WakesOfSteps DEF FlagsInv
  <2> QED
    BY <2>1, <2>2, <2>3 DEF FlagsInv
<1>2. ASSUME NEW p \in WordPartitions, Admit(p) \/ SignalAdmission(p) PROVE FlagsInv'
  <2>1. UNCHANGED <<clock, rosterNews, pausedUntil, worker>>
    BY <1>2 DEF Admit, SignalAdmission, peerVars, rosterVars, eligibilityVars
  <2>2. wake' = wake \/ WakeWorkers
    BY <1>2 DEF Admit, SignalAdmission, wakeVars
  <2>3. wake' \in [Workers -> BOOLEAN]
    BY <2>2, WakesAreFlags DEF FlagsInv
  <2> QED
    BY <2>1, <2>3 DEF FlagsInv
<1>3. CASE SignalReachablePeers \/ \E p \in MovingPeers : ChangeRoster(p)
  <2>1. UNCHANGED <<clock, pausedUntil, worker>> /\ rosterNews' \in BOOLEAN
    BY <1>3 DEF SignalReachablePeers, ChangeRoster, ConfirmReachable, ConfirmUnreachable,
      EvictMoved, KeepGossipSeed, eligibilityVars, FlagsInv
  <2>2. wake' = wake \/ WakeWorkers
    BY <1>3 DEF SignalReachablePeers, ChangeRoster
  <2>3. wake' \in [Workers -> BOOLEAN]
    BY <2>2, WakesAreFlags DEF FlagsInv
  <2> QED
    BY <2>1, <2>3 DEF FlagsInv
<1>4. CASE Tick
  <2>1. UNCHANGED <<rosterNews, pausedUntil, worker, wake>> /\ clock' = clock + 1
        /\ clock < MaxClock
    BY <1>4 DEF Tick, wakeVars, peerVars, rosterVars, eligibilityVars
  <2>2. clock' \in 1 .. MaxClock
    BY <2>1, NumbersOfTheWalk DEF FlagsInv
  <2> QED
    BY <2>1, <2>2 DEF FlagsInv
<1>5. CASE Restart
  <2>1. /\ UNCHANGED clock /\ rosterNews' = FALSE /\ pausedUntil' = [p \in Peers |-> 0]
        /\ wake' = [w \in Workers |-> FALSE] /\ worker' = [w \in Workers |-> Empty]
    BY <1>5 DEF Restart
  <2>2. Empty.stage \in Stages /\ 0 \in 0 .. MaxClock
    BY EmptyIsTyped, StagesAre, NumbersOfTheWalk
  <2> QED
    BY <2>1, <2>2 DEF FlagsInv
<1>6. CASE UNCHANGED vars
  BY <1>6 DEF FlagsInv, vars, wakeVars, peerVars, rosterVars, eligibilityVars
<1> QED
  BY <1>1, <1>2, <1>3, <1>4, <1>5, <1>6 DEF Next

LEMMA FlagsAtFirst == Init => FlagsInv
<1> SUFFICES ASSUME Init PROVE FlagsInv
  OBVIOUS
<1>1. Empty.stage \in Stages /\ 0 \in 0 .. MaxClock /\ 1 \in 1 .. MaxClock
  BY EmptyIsTyped, StagesAre, NumbersOfTheWalk, WalkAssumption
<1> QED
  BY <1>1 DEF Init, FlagsInv

-----------------------------------------------------------------------------
(* What is known of peers *)

PeersInv ==
  /\ accepting \subseteq reachable /\ reachable \subseteq Peers /\ unnoticed \subseteq Peers
  /\ unaccepted \in [Peers -> 0 .. UnacceptedOffersBeforeExclusion]
  /\ excludedUntil \in [Peers -> 0 .. MaxClock + ExclusionDuration]

LEMMA LimitsOfExclusion ==
  /\ 0 \in 0 .. UnacceptedOffersBeforeExclusion /\ 0 \in 0 .. MaxClock + ExclusionDuration
  /\ \A n \in 0 .. UnacceptedOffersBeforeExclusion :
       (IF n < UnacceptedOffersBeforeExclusion THEN n + 1 ELSE UnacceptedOffersBeforeExclusion)
         \in 0 .. UnacceptedOffersBeforeExclusion
  /\ \A t \in 1 .. MaxClock : t + ExclusionDuration \in 0 .. MaxClock + ExclusionDuration
BY WalkAssumption

LEMMA OffersKeepPeers ==
  ASSUME FlagsInv, PeersInv, NEW w \in Workers, NEW p \in Peers, SendEnds(w, p)
  PROVE  PeersInv'
<1>1. clock \in 1 .. MaxClock /\ UNCHANGED <<reachable, accepting>>
  BY DEF FlagsInv, SendEnds, rosterVars
<1>2. CASE OfferAccepted(p)
  <2>1. /\ unaccepted' = [unaccepted EXCEPT ![p] = 0]
        /\ excludedUntil' = [excludedUntil EXCEPT ![p] = 0]
        /\ unnoticed' \subseteq unnoticed \cup {p}
    BY <1>2 DEF OfferAccepted
  <2> QED
    BY <1>1, <2>1, LimitsOfExclusion DEF PeersInv
<1>3. CASE RecordUnacceptedOffer(p)
  <2>1. PICK n \in 0 .. UnacceptedOffersBeforeExclusion :
          unaccepted' = [unaccepted EXCEPT ![p] = n]
    <3>1. unaccepted[p] \in 0 .. UnacceptedOffersBeforeExclusion
      BY DEF PeersInv
    <3> QED
      BY <1>3, <3>1, LimitsOfExclusion DEF RecordUnacceptedOffer
  <2>2. /\ \/ excludedUntil' = [excludedUntil EXCEPT ![p] = clock + ExclusionDuration]
           \/ excludedUntil' = [excludedUntil EXCEPT ![p] = @]
        /\ unnoticed' \subseteq unnoticed \cup {p}
    BY <1>3 DEF RecordUnacceptedOffer
  <2>3. clock + ExclusionDuration \in 0 .. MaxClock + ExclusionDuration
    BY <1>1, LimitsOfExclusion
  <2> QED
    BY <1>1, <2>1, <2>2, <2>3 DEF PeersInv
<1> QED
  BY <1>2, <1>3 DEF SendEnds

\* Workers change what is known of a peer by offers to it alone.
LEMMA PeersOfSteps ==
  ASSUME NEW w \in Workers, WorkerStep(w), ~\E p \in Peers : SendEnds(w, p)
  PROVE  /\ UNCHANGED <<clock, rosterVars, unaccepted, excludedUntil>>
         /\ UNCHANGED unnoticed \/ WakeWorkers
<1>1. UNCHANGED <<clock, rosterVars, unaccepted, excludedUntil>>
  BY DEF WorkerStep, ReadReachablePeers, ArcsAmong, FollowRing, PickOpenArc, FindNoOpenArc,
    ReadAdmissions, ScheduleAdmissions, PutBack, ReadDueEntries, ReadEarliestDue,
    SettleReadEnd, Send, CompleteBatch, Abandon, EndSleep, EndWait, peerVars, eligibilityVars
<1>2. UNCHANGED unnoticed \/ WakeWorkers
  BY DEF WorkerStep, ReadReachablePeers, ArcsAmong, FollowRing, PickOpenArc, FindNoOpenArc,
    ReadAdmissions, ScheduleAdmissions, PutBack, ReadDueEntries, ReadEarliestDue,
    SettleReadEnd, Send, CompleteBatch, Abandon, EndSleep, EndWait, BeginsRound, wakeVars
<1> QED
  BY <1>1, <1>2

LEMMA PeersAreKept ==
  ASSUME FlagsInv, PeersInv, [Next]_vars
  PROVE  PeersInv'
<1>1. CASE /\ UNCHANGED <<rosterVars, unaccepted, excludedUntil>>
           /\ UNCHANGED unnoticed \/ WakeWorkers
  BY <1>1 DEF PeersInv, rosterVars, WakeWorkers
<1>2. ASSUME NEW w \in Workers, WorkerStep(w) PROVE PeersInv'
  BY <1>1, <1>2, PeersOfSteps, OffersKeepPeers
<1>3. ASSUME NEW p \in MovingPeers, ChangeRoster(p) PROVE PeersInv'
  <2>1. p \in Peers /\ UNCHANGED <<unaccepted, excludedUntil>>
    BY <1>3, WalkAssumption DEF ChangeRoster, eligibilityVars
  <2>2. /\ accepting' \subseteq reachable' /\ reachable' \subseteq Peers
        /\ unnoticed' \subseteq Peers
    BY <1>3, <2>1
    DEF ChangeRoster, ConfirmReachable, ConfirmUnreachable, EvictMoved, KeepGossipSeed, PeersInv
  <2> QED
    BY <2>1, <2>2 DEF PeersInv
<1>4. CASE SignalReachablePeers
  BY <1>4 DEF SignalReachablePeers, eligibilityVars, WakeWorkers, PeersInv
<1>5. CASE (\E p \in WordPartitions : Admit(p) \/ SignalAdmission(p)) \/ Tick \/ UNCHANGED vars
  BY <1>1, <1>5 DEF Admit, SignalAdmission, Tick, vars, peerVars, eligibilityVars, wakeVars
<1>6. CASE Restart
  <2>1. /\ reachable' = {} /\ accepting' = {} /\ unnoticed' = {}
        /\ unaccepted' = [p \in Peers |-> 0] /\ excludedUntil' = [p \in Peers |-> 0]
    BY <1>6 DEF Restart
  <2> QED
    BY <2>1, LimitsOfExclusion DEF PeersInv
<1> QED
  BY <1>2, <1>3, <1>4, <1>5, <1>6 DEF Next

LEMMA PeersAtFirst == Init => PeersInv
BY LimitsOfExclusion DEF Init, PeersInv

-----------------------------------------------------------------------------
(* Arcs in a batch have an owner *)

OwnersInv ==
  \A a \in DOMAIN arcs : arcs[a].inBatch => \E w \in Workers : InBatch(w) /\ Owns(w, a)

LEMMA IdleIsNotInBatch ==
  ASSUME NEW w \in Workers
  PROVE  /\ worker[w].stage \in Idle => ~InBatch(w)
         /\ worker'[w].stage \in Idle => ~InBatch(w)'
BY DEF Idle, InBatch, BatchStages

LEMMA StepsThatLetGo ==
  ASSUME Types, OwnersInv, NEW w \in Workers,
         PutBack(w) \/ SettleReadEnd(w) \/ CompleteBatch(w) \/ Abandon(w)
  PROVE  OwnersInv'
<1>0. ArcTypes /\ WorksOn(w)
  BY StepsThatEndBatches DEF Types
<1>1. Releases(w) \/ Settles(w)
  BY <1>0, ArcsOfSteps
<1>2. /\ DOMAIN arcs' = DOMAIN arcs
      /\ \A a \in DOMAIN arcs :
           IF Owns(w, a) THEN arcs'[a].inBatch = FALSE ELSE arcs'[a].inBatch = arcs[a].inBatch
  BY <1>1 DEF Releases, Settles, SameArc
<1>3. \A v \in Workers \ {w} : worker'[v] = worker[v]
  BY <1>0 DEF WorksOn, Becomes
<1> SUFFICES ASSUME NEW a \in DOMAIN arcs, arcs'[a].inBatch
             PROVE  \E v \in Workers : InBatch(v)' /\ Owns(v, a)'
  BY <1>2 DEF OwnersInv
<1>4. ~Owns(w, a) /\ arcs[a].inBatch
  BY <1>2
<1>5. PICK v \in Workers : InBatch(v) /\ Owns(v, a)
  BY <1>4 DEF OwnersInv
<1>6. v # w
  BY <1>4, <1>5
<1> QED
  BY <1>3, <1>5, <1>6 DEF InBatch, Owns

LEMMA StepsThatHold ==
  ASSUME Types, OwnersInv, NEW w \in Workers, WorkerStep(w), WorksOn(w),
         ~(PutBack(w) \/ SettleReadEnd(w) \/ CompleteBatch(w) \/ Abandon(w)), ~PickOpenArc(w),
         ~FollowRing(w)
  PROVE  OwnersInv'
<1>0. WorkerTypes /\ ArcTypes
  BY DEF Types
<1>1. UNCHANGED arcs \/ KeepsArcs
  BY <1>0, ArcsOfSteps
  DEF WorkerStep, ReadReachablePeers, ArcsAmong, FindNoOpenArc, ReadAdmissions, ScheduleAdmissions,
      ReadEarliestDue, Send, EndSleep, EndWait, SendEnds, walkVars
<1>2. DOMAIN arcs' = DOMAIN arcs /\ \A a \in DOMAIN arcs : arcs'[a].inBatch = arcs[a].inBatch
  BY <1>1 DEF KeepsArcs, SameArc
<1>3. \A v \in Workers \ {w} : worker'[v] = worker[v]
  BY DEF WorksOn, Becomes
<1>4. InBatch(w) => /\ InBatch(w)' /\ worker'[w].arc = worker[w].arc
                    /\ worker'[w].left = worker[w].left
  <2>1. CASE ReadReachablePeers(w) \/ ArcsAmong(w) \/ FindNoOpenArc(w) \/ EndSleep(w)
               \/ EndWait(w)
    BY <2>1 DEF ReadReachablePeers, ArcsAmong, FindNoOpenArc, EndSleep, EndWait, At, InBatch,
      BatchStages
  <2>2. CASE ~(ReadReachablePeers(w) \/ ArcsAmong(w) \/ FindNoOpenArc(w) \/ EndSleep(w)
               \/ EndWait(w))
    <3>1. SameBatch(w)
      BY <2>2, FieldsInBatch DEF WorkerStep, SamePick
    <3>2. worker'[w].stage \in BatchStages
      <4>1. worker'[w].stage \in {"scheduling", "searching", "ended", "offering", "settling",
                                  "sending"}
        <5>1. CASE Send(w) \/ \E p \in Peers : SendEnds(w, p)
          BY <5>1, FieldsInBatch DEF SendEnds, At
        <5>2. CASE ~(Send(w) \/ \E p \in Peers : SendEnds(w, p))
          BY <2>2, <5>2, FieldsInBatch DEF WorkerStep
        <5> QED
          BY <5>1, <5>2
      <4> QED
        BY <4>1 DEF BatchStages
    <3> QED
      BY <3>1, <3>2 DEF SameBatch, InBatch
  <2> QED
    BY <2>1, <2>2
<1> SUFFICES ASSUME NEW a \in DOMAIN arcs, arcs'[a].inBatch
             PROVE  \E v \in Workers : InBatch(v)' /\ Owns(v, a)'
  BY <1>2 DEF OwnersInv
<1>5. PICK v \in Workers : InBatch(v) /\ Owns(v, a)
  BY <1>2 DEF OwnersInv
<1> QED
  BY <1>3, <1>4, <1>5 DEF InBatch, Owns

LEMMA RingKeepsOwners ==
  ASSUME Types, OwnersInv, NEW w \in Workers, FollowRing(w)
  PROVE  OwnersInv'
<1>0. WorkerTypes /\ ~InBatch(w) /\ \A v \in Workers : IsWorker(worker[v])
  BY DEF Types, WorkerTypes, FollowRing, At, InBatch, BatchStages
<1> SUFFICES ASSUME NEW a \in DOMAIN arcs', arcs'[a].inBatch
             PROVE  \E v \in Workers : InBatch(v)' /\ Owns(v, a)'
  BY DEF OwnersInv
<1>1. arcs'[a] = IF a \in DOMAIN arcs THEN arcs[a] ELSE NewArc
  BY <1>0, RingOfWorker
<1>2. NewArc.inBatch = FALSE
  BY DEF NewArc
<1>3. a \in DOMAIN arcs /\ arcs[a].inBatch
  BY <1>1, <1>2
<1>4. PICK v \in Workers : InBatch(v) /\ Owns(v, a)
  BY <1>3 DEF OwnersInv
<1>5. v # w /\ worker[v].arc \in DOMAIN arcs' /\ ~worker[v].left
  BY <1>0, <1>4 DEF Owns
<1>6. worker'[v] = [worker[v] EXCEPT !.ring = ring']
  BY <1>0, <1>4, <1>5, RingOfWorker
<1>7. /\ worker'[v].stage = worker[v].stage /\ worker'[v].arc = worker[v].arc
      /\ worker'[v].left = worker[v].left
  BY <1>0, <1>6, Fields DEF IsWorker
<1> QED
  BY <1>4, <1>7 DEF InBatch, Owns

LEMMA PicksKeepOwners ==
  ASSUME Types, OwnersInv, NEW w \in Workers, PickOpenArc(w)
  PROVE  OwnersInv'
<1>0. WorkerTypes /\ ArcTypes /\ ~InBatch(w) /\ IsWorker(worker[w])
  BY DEF Types, WorkerTypes, PickOpenArc, At, InBatch, BatchStages
<1>1. PICK a \in DOMAIN arcs :
        /\ Picks(w, a) /\ DOMAIN arcs' = DOMAIN arcs
        /\ \A b \in DOMAIN arcs \ {a} : SameArc(b)
  BY <1>0, ArcsOfPick
<1>2. worker'[w].arc = a /\ worker'[w].left = FALSE /\ worker'[w].stage = "picked"
  BY <1>0, <1>1, Fields DEF Picks, Becomes, IsWorker
<1>3. \A v \in Workers \ {w} : worker'[v] = worker[v]
  BY <1>1 DEF Picks, Becomes
<1> SUFFICES ASSUME NEW b \in DOMAIN arcs, arcs'[b].inBatch
             PROVE  \E v \in Workers : InBatch(v)' /\ Owns(v, b)'
  BY <1>1 DEF OwnersInv
<1>4. CASE b = a
  <2>1. InBatch(w)' /\ Owns(w, b)'
    BY <1>2, <1>4 DEF InBatch, BatchStages, Owns
  <2> QED
    BY <2>1
<1>5. CASE b # a
  <2>1. arcs[b].inBatch
    BY <1>1, <1>5 DEF SameArc
  <2>2. PICK v \in Workers : InBatch(v) /\ Owns(v, b)
    BY <2>1 DEF OwnersInv
  <2> QED
    BY <1>0, <1>3, <2>2 DEF InBatch, Owns
<1> QED
  BY <1>4, <1>5

LEMMA OwnersAreKept ==
  ASSUME Types, OwnersInv, [Next]_vars
  PROVE  OwnersInv'
<1>0. ArcTypes
  BY DEF Types
<1>1. ASSUME NEW w \in Workers, WorkerStep(w) PROVE OwnersInv'
  BY <1>1, OnlyRingAndPicksMoveBatches, StepsThatLetGo, StepsThatHold, RingKeepsOwners,
     PicksKeepOwners
<1>2. CASE /\ UNCHANGED worker /\ DOMAIN arcs' = DOMAIN arcs
           /\ \A a \in DOMAIN arcs : arcs'[a].inBatch = arcs[a].inBatch
  BY <1>2 DEF OwnersInv, InBatch, Owns
<1>3. ASSUME NEW p \in WordPartitions, SignalAdmission(p) PROVE OwnersInv'
  BY <1>0, <1>2, <1>3, ArcsOfSignal DEF SignalAdmission, SameArc
<1>4. CASE Restart
  BY <1>4 DEF Restart, OwnersInv
<1>5. CASE (\E p \in WordPartitions : Admit(p)) \/ (\E p \in MovingPeers : ChangeRoster(p))
             \/ SignalReachablePeers \/ Tick \/ UNCHANGED vars
  BY <1>2, <1>5 DEF Admit, ChangeRoster, SignalReachablePeers, Tick, vars, walkVars
<1> QED
  BY <1>1, <1>3, <1>4, <1>5 DEF Next

\* An arc in a batch is the arc of exactly one worker, one that is not is nobody's.
LEMMA OneOwner ==
  ASSUME BatchesAreApart, OwnersInv, NEW a \in DOMAIN arcs, arcs[a].inBatch \in BOOLEAN
  PROVE  Cardinality({w \in Workers : InBatch(w) /\ ~worker[w].left /\ worker[w].arc = a})
           = IF arcs[a].inBatch THEN 1 ELSE 0
<1> DEFINE Owners == {w \in Workers : InBatch(w) /\ ~worker[w].left /\ worker[w].arc = a}
<1>1. CASE arcs[a].inBatch
  <2>1. PICK w \in Workers : w \in Owners
    BY <1>1 DEF OwnersInv, Owns
  <2>2. ASSUME NEW v \in Owners, v # w PROVE FALSE
    <3>1. IsArc(a) /\ ~Overlaps(a, a)
      BY <2>1, <2>2 DEF BatchesAreApart, BatchInv, NoPartInTwoBatches
    <3> QED
      BY <3>1, OverlapsItself
  <2>3. Owners = {w}
    BY <2>1, <2>2
  <2> QED
    BY <1>1, <2>3, FS_Singleton
<1>2. CASE ~arcs[a].inBatch
  <2>1. Owners = {}
    BY <1>2 DEF BatchesAreApart, BatchInv
  <2> QED
    BY <1>2, <2>1, FS_EmptySet
<1> QED
  BY <1>1, <1>2

-----------------------------------------------------------------------------
(* Due times *)

DueTimesInv ==
  /\ due \in [WordPartitions -> Times] /\ retrying \subseteq WordPartitions
  /\ \A w \in Workers : At(w, "settling") => worker[w].earliest \in Times

LEMMA TimesOfTheWalk ==
  /\ Times = 0 .. Forever /\ Forever \in Times /\ 0 \in Times
  /\ \A t \in 1 .. MaxClock :
       /\ t \in Times /\ t + RetryDelay \in Times
       /\ \A wait \in 1 .. RefreshInterval : t + wait \in Times
BY NumbersOfTheWalk DEF Times, Forever

LEMMA EarliestDueIsATime ==
  ASSUME due \in [WordPartitions -> Times], NEW w \in Workers
  PROVE  EarliestDue(w) \in Times
<1> DEFINE Dues == {due[p] : p \in PartitionsOf(worker[w].arc)} \cup {Forever}
<1>1. Dues \in SUBSET Times
  BY TimesOfTheWalk DEF PartitionsOf
<1>2. Dues \in SUBSET Nat /\ Dues # {}
  BY <1>1, NumbersOfTheWalk DEF Times
<1>3. Min(Dues) \in Dues
  BY <1>2, LeastOfNumbers
<1> QED
  BY <1>1, <1>3 DEF EarliestDue

LEMMA DuesOfSteps ==
  ASSUME Types, FlagsInv, DueTimesInv, LocalInv, NEW w \in Workers, WorkerStep(w)
  PROVE  due' \in [WordPartitions -> Times] /\ retrying' \subseteq WordPartitions
<1>1. CASE ScheduleAdmissions(w)
  <2>1. /\ due' = [p \in WordPartitions |-> IF p \in worker[w].dueBy THEN clock ELSE due[p]]
        /\ retrying' = retrying
    BY <1>1 DEF ScheduleAdmissions
  <2>2. clock \in Times
    BY TimesOfTheWalk DEF FlagsInv
  <2> QED
    BY <2>1, <2>2 DEF DueTimesInv
<1>2. CASE CompleteBatch(w)
  <2>1. PICK short \in SUBSET worker[w].offers :
          \E handedOff \in SUBSET (worker[w].offers \ short), wait \in 1 .. RefreshInterval :
            /\ due' = DueAfter(w, short, handedOff, wait)
            /\ retrying' = (retrying \ worker[w].offers) \cup short
    BY <1>2 DEF CompleteBatch
  <2>2. PICK handedOff \in SUBSET (worker[w].offers \ short), wait \in 1 .. RefreshInterval :
          /\ due' = DueAfter(w, short, handedOff, wait)
          /\ retrying' = (retrying \ worker[w].offers) \cup short
    BY <2>1
  <2>3. worker[w].offers \in SUBSET WordPartitions
    BY <1>2 DEF LocalInv, IsLocal, CompleteBatch, At, PartitionsOf
  <2>4. clock + RetryDelay \in Times /\ clock + wait \in Times /\ Forever \in Times
    BY TimesOfTheWalk DEF FlagsInv
  <2>5. due' \in [WordPartitions -> Times]
    BY <2>2, <2>4 DEF DueAfter, DueTimesInv
  <2> QED
    BY <2>2, <2>3, <2>5 DEF DueTimesInv
<1>3. CASE ~ScheduleAdmissions(w) /\ ~CompleteBatch(w)
  <2>1. UNCHANGED <<due, retrying>>
    BY <1>3 DEF WorkerStep, ReadReachablePeers, ArcsAmong, FollowRing, PickOpenArc, FindNoOpenArc,
      ReadAdmissions, PutBack, ReadDueEntries, ReadEarliestDue, SettleReadEnd, Send, Abandon,
      EndSleep, EndWait, SendEnds, scheduleVars
  <2> QED
    BY <2>1 DEF DueTimesInv
<1> QED
  BY <1>1, <1>2, <1>3

LEMMA DueTimesAreKept ==
  ASSUME Types, FlagsInv, DueTimesInv, LocalInv, [Next]_vars
  PROVE  DueTimesInv'
<1>1. ASSUME NEW w \in Workers, WorkerStep(w) PROVE DueTimesInv'
  <2>1. ASSUME NEW v \in Workers, worker'[v].stage = "settling"
        PROVE  worker'[v].earliest \in Times
    <3>1. CASE v # w
      BY <1>1, <2>1, <3>1, OthersWorkOn DEF SameWork, DueTimesInv, At
    <3>2. CASE v = w
      <4>1. ReadEarliestDue(w)
        BY <1>1, <2>1, <3>2, StagesOfSteps, StagesAre
      <4>2. worker'[w].earliest = EarliestDue(w)
        BY <4>1, FieldsInBatch
      <4> QED
        BY <3>2, <4>2, EarliestDueIsATime DEF DueTimesInv
    <3> QED
      BY <3>1, <3>2
  <2>2. due' \in [WordPartitions -> Times] /\ retrying' \subseteq WordPartitions
    BY <1>1, DuesOfSteps
  <2> QED
    BY <2>1, <2>2 DEF DueTimesInv, At
<1>2. CASE Restart
  <2>1. UNCHANGED <<due, retrying>> /\ worker' = [w \in Workers |-> Empty]
    BY <1>2 DEF Restart
  <2>2. Empty.stage # "settling"
    BY EmptyIsTyped
  <2> QED
    BY <2>1, <2>2 DEF DueTimesInv, At
<1>3. CASE UNCHANGED <<due, retrying, worker>>
  BY <1>3 DEF DueTimesInv, At
<1> QED
  BY <1>1, <1>2, <1>3
  DEF Next, Admit, SignalAdmission, ChangeRoster, SignalReachablePeers, Tick, vars, scheduleVars

LEMMA DueTimesAtFirst == Init => DueTimesInv
<1> SUFFICES ASSUME Init PROVE DueTimesInv
  OBVIOUS
<1>1. /\ due = [p \in WordPartitions |-> Forever] /\ retrying = {}
      /\ worker = [w \in Workers |-> Empty]
  BY DEF Init
<1>2. Empty.stage # "settling" /\ Forever \in Times
  BY EmptyIsTyped, TimesOfTheWalk
<1> QED
  BY <1>1, <1>2 DEF DueTimesInv, At

-----------------------------------------------------------------------------
(* States of arcs *)

ArcStates == [inBatch : BOOLEAN, heldBack : BOOLEAN, drainedUntil : Times,
              position : 0 .. RingSize, signals : Nat]

ArcStatesInv ==
  /\ lastPicked \in DOMAIN arcs \cup {NoArc}
  /\ \A a \in DOMAIN arcs : arcs[a] \in ArcStates

LEMMA ChangesOfArcStates ==
  ASSUME NEW a \in ArcStates
  PROVE  /\ \A flag \in BOOLEAN : /\ [a EXCEPT !.inBatch = flag] \in ArcStates
                                 /\ [a EXCEPT !.heldBack = flag] \in ArcStates
         /\ \A t \in Times : [a EXCEPT !.drainedUntil = t] \in ArcStates
         /\ \A n \in 0 .. RingSize : [a EXCEPT !.position = n] \in ArcStates
         /\ [a EXCEPT !.signals = @ + 1] \in ArcStates
BY DEF ArcStates

LEMMA NewArcIsAState == NewArc \in ArcStates
<1>1. 0 \in Times /\ 0 \in 0 .. RingSize
  BY TimesOfTheWalk, RingIsThere
<1> QED
  BY <1>1 DEF NewArc, ArcStates

LEMMA GreatestOfNumbers ==
  ASSUME NEW n \in Nat, NEW S \in SUBSET (0 .. n), S # {}
  PROVE  Max(S) \in S
<1> DEFINE Below == {n - m : m \in S}
<1>1. Below \in SUBSET Nat /\ Below # {}
  <2>1. \A m \in S : m \in 0 .. n /\ n - m \in Nat
    OBVIOUS
  <2> QED
    BY <2>1
<1>2. PICK b \in Below : \A c \in Below : b <= c
  BY <1>1, LeastOfNumbers
<1>3. PICK m \in S : b = n - m
  BY <1>2
<1>4. \A k \in S : m >= k
  <2> TAKE k \in S
  <2>1. n - m <= n - k
    BY <1>2, <1>3
  <2> QED
    BY <2>1
<1> QED
  BY <1>4 DEF Max

\* A read that ends before the due entries do has read one of them at least.
LEMMA SomeEntryIsRead ==
  ASSUME NEW ahead \in SUBSET WordPartitions, ahead # {}, NEW offset,
         \A p \in ahead : offset[p] \in Nat
  PROVE  \E p \in ahead : Cardinality({q \in ahead : offset[q] < offset[p]}) < EntriesPerRead
<1> DEFINE Offsets == {offset[p] : p \in ahead}
<1>1. Offsets \in SUBSET Nat /\ Offsets # {}
  OBVIOUS
<1>2. PICK n \in Offsets : \A m \in Offsets : n <= m
  BY <1>1, LeastOfNumbers
<1>3. PICK p \in ahead : n = offset[p]
  BY <1>2
<1>4. {q \in ahead : offset[q] < offset[p]} = {}
  BY <1>2, <1>3
<1>5. 0 < EntriesPerRead
  BY WalkAssumption
<1> QED
  BY <1>4, <1>5, FS_EmptySet

\* A read moves the arc to an offset of the ring.
LEMMA PositionOfRead ==
  ASSUME BatchesAreApart, NEW w \in Workers, ReadDueEntries(w)
  PROVE  \E position \in 0 .. RingSize :
           arcs' = ChangedArc(w, [ArcOf(w) EXCEPT !.position = position])
<1> DEFINE arc == worker[w].arc
           offset(p) == Clockwise(arc.after, p)
           ahead == {p \in PartitionsOf(arc) : due[p] <= clock /\ offset(p) > worker[w].at}
           entries == {p \in ahead : Cardinality({q \in ahead : offset(q) < offset(p)})
                                       < EntriesPerRead}
           lastOf(S) == Max({offset(p) : p \in S})
<1>1. PICK offers \in SUBSET entries, isBudgetSpent \in BOOLEAN :
        /\ isBudgetSpent => offers # {}
        /\ arcs' = ChangedArc(w, [ArcOf(w) EXCEPT !.position =
             IF isBudgetSpent THEN lastOf(offers)
             ELSE IF entries = ahead THEN 0 ELSE lastOf(entries)])
  BY Zenon DEF ReadDueEntries
<1>2. ahead \in SUBSET WordPartitions /\ entries \in SUBSET ahead
  BY DEF PartitionsOf
<1>3. \A p \in ahead : offset(p) \in 1 .. RingSize
  <2>1. arc.after \in Positions
    BY DEF BatchesAreApart, BatchInv, IsArc, ReadDueEntries, At, InBatch, BatchStages
  <2>2. \A p \in WordPartitions : p \in Positions
    BY WalkAssumption
  <2> QED
    BY <1>2, <2>1, <2>2, ClockwiseType
<1>4. entries # ahead => entries # {}
  <2> DEFINE offsets == [p \in ahead |-> offset(p)]
  <2>1. ASSUME ahead # {} PROVE entries # {}
    <3>1. \A p \in ahead : offsets[p] \in Nat
      BY <1>3, RingIsThere
    <3>2. PICK p \in ahead : Cardinality({q \in ahead : offsets[q] < offsets[p]})
                               < EntriesPerRead
      <4> HIDE DEF offsets, ahead
      <4> QED
        BY <1>2, <2>1, <3>1, SomeEntryIsRead
    <3>3. {q \in ahead : offsets[q] < offsets[p]} = {q \in ahead : offset(q) < offset(p)}
      OBVIOUS
    <3> QED
      BY <3>2, <3>3
  <2> QED
    BY <2>1
<1>5. ASSUME NEW S \in SUBSET ahead, S # {} PROVE lastOf(S) \in 0 .. RingSize
  <2> DEFINE Offsets == {offset(p) : p \in S}
  <2>1. Offsets \in SUBSET (0 .. RingSize) /\ Offsets # {}
    BY <1>3, <1>5, RingIsThere
  <2>2. Max(Offsets) \in Offsets
    BY <2>1, RingIsThere, GreatestOfNumbers
  <2> QED
    BY <2>1, <2>2
<1>6. 0 \in 0 .. RingSize
  BY RingIsThere
<1> HIDE DEF lastOf, entries, ahead
<1>7. (IF isBudgetSpent THEN lastOf(offers) ELSE IF entries = ahead THEN 0 ELSE lastOf(entries))
        \in 0 .. RingSize
  BY <1>1, <1>2, <1>4, <1>5, <1>6
<1> QED
  BY <1>1, <1>7

LEMMA ArcStatesOfChange ==
  ASSUME ArcTypes, BatchInv, ArcStatesInv, NEW w \in Workers, InBatch(w),
         NEW a, ~worker[w].left => a \in ArcStates,
         arcs' = ChangedArc(w, a)
  PROVE  DOMAIN arcs' = DOMAIN arcs /\ \A b \in DOMAIN arcs' : arcs'[b] \in ArcStates
<1>1. CASE worker[w].left
  BY <1>1 DEF ChangedArc, ArcStatesInv
<1>2. CASE ~worker[w].left
  <2>1. arcs' = [arcs EXCEPT ![worker[w].arc] = a]
    BY <1>2 DEF ChangedArc
  <2> QED
    BY <1>2, <2>1 DEF ArcStatesInv
<1> QED
  BY <1>1, <1>2

LEMMA ArcStatesOfWork ==
  ASSUME Types, BatchesAreApart, DueTimesInv, ArcStatesInv, NEW w \in Workers,
         PutBack(w) \/ ReadDueEntries(w) \/ SettleReadEnd(w) \/ CompleteBatch(w) \/ Abandon(w)
  PROVE  DOMAIN arcs' = DOMAIN arcs /\ \A b \in DOMAIN arcs' : arcs'[b] \in ArcStates
<1>0. ArcTypes /\ BatchInv /\ InBatch(w)
  BY StepsThatEndBatches, StepsInBatch DEF Types, BatchesAreApart
<1>1. ~worker[w].left => ArcOf(w) \in ArcStates
  BY <1>0 DEF BatchInv, ArcStatesInv, ArcOf
<1>2. FALSE \in BOOLEAN /\ TRUE \in BOOLEAN /\ 0 \in 0 .. RingSize
  BY RingIsThere
<1>3. CASE PutBack(w)
  <2>1. arcs' = ChangedArc(w, [ArcOf(w) EXCEPT !.inBatch = FALSE])
    BY <1>3 DEF PutBack
  <2> QED
    BY <1>0, <1>1, <1>2, <2>1, ArcStatesOfChange, ChangesOfArcStates
<1>4. CASE ReadDueEntries(w)
  <2>1. PICK position \in 0 .. RingSize :
          arcs' = ChangedArc(w, [ArcOf(w) EXCEPT !.position = position])
    BY <1>4, PositionOfRead
  <2> QED
    BY <1>0, <1>1, <2>1, ArcStatesOfChange, ChangesOfArcStates
<1>5. CASE SettleReadEnd(w)
  <2>1. arcs' = ChangedArc(w, SettledArc(ArcOf(w), w)) /\ worker[w].earliest \in Times
    BY <1>5 DEF SettleReadEnd, DueTimesInv
  <2>2. ASSUME NEW a \in ArcStates PROVE SettledArc(a, w) \in ArcStates
    <3>1. [a EXCEPT !.inBatch = FALSE, !.position = 0] \in ArcStates
      BY <1>2 DEF ArcStates
    <3> QED
      BY <1>2, <2>1, <3>1, ChangesOfArcStates DEF SettledArc
  <2> QED
    BY <1>0, <1>1, <2>1, <2>2, ArcStatesOfChange
<1>6. CASE CompleteBatch(w)
  <2> DEFINE completed == ChangedArc(w, [ArcOf(w) EXCEPT !.inBatch = FALSE])
  <2>1. arcs' = [a \in DOMAIN arcs |-> [completed[a] EXCEPT !.heldBack = FALSE]]
    BY <1>6 DEF CompleteBatch
  <2>2. \A a \in DOMAIN arcs : completed[a] \in ArcStates
    <3>1. CASE worker[w].left
      BY <3>1 DEF ChangedArc, ArcStatesInv
    <3>2. CASE ~worker[w].left
      <4>1. completed = [arcs EXCEPT ![worker[w].arc] = [ArcOf(w) EXCEPT !.inBatch = FALSE]]
        BY <3>2 DEF ChangedArc
      <4>2. [ArcOf(w) EXCEPT !.inBatch = FALSE] \in ArcStates
        BY <1>1, <1>2, <3>2, ChangesOfArcStates
      <4> QED
        BY <4>1, <4>2 DEF ArcStatesInv
    <3> QED
      BY <3>1, <3>2
  <2> HIDE DEF completed
  <2> QED
    BY <1>2, <2>1, <2>2, ChangesOfArcStates
<1>7. CASE Abandon(w)
  <2>1. arcs' = ChangedArc(w, [ArcOf(w) EXCEPT !.inBatch = FALSE, !.position = 0])
    BY <1>7 DEF Abandon
  <2>2. ASSUME NEW a \in ArcStates
        PROVE  [a EXCEPT !.inBatch = FALSE, !.position = 0] \in ArcStates
    BY <1>2 DEF ArcStates
  <2> QED
    BY <1>0, <1>1, <2>1, <2>2, ArcStatesOfChange
<1> QED
  BY <1>3, <1>4, <1>5, <1>6, <1>7

LEMMA ArcStatesAreKept ==
  ASSUME Types, BatchesAreApart, DueTimesInv, ArcStatesInv, [Next]_vars
  PROVE  ArcStatesInv'
<1>0. ArcTypes
  BY DEF Types
<1>1. CASE UNCHANGED <<arcs, lastPicked>>
  BY <1>1 DEF ArcStatesInv
<1>2. ASSUME NEW w \in Workers, WorkerStep(w) PROVE ArcStatesInv'
  <2>1. CASE PutBack(w) \/ ReadDueEntries(w) \/ SettleReadEnd(w) \/ CompleteBatch(w)
               \/ Abandon(w)
    <3>1. UNCHANGED lastPicked
      BY <2>1 DEF PutBack, ReadDueEntries, SettleReadEnd, CompleteBatch, Abandon
    <3>2. DOMAIN arcs' = DOMAIN arcs /\ \A b \in DOMAIN arcs' : arcs'[b] \in ArcStates
      BY <2>1, ArcStatesOfWork
    <3> QED
      BY <3>1, <3>2 DEF ArcStatesInv
  <2>2. CASE PickOpenArc(w)
    <3>1. PICK a \in DOMAIN arcs :
            arcs' = [arcs EXCEPT ![a] = [@ EXCEPT !.inBatch = TRUE]] /\ lastPicked' = a
      BY <2>2, Zenon DEF PickOpenArc
    <3>2. [arcs[a] EXCEPT !.inBatch = TRUE] \in ArcStates
      BY ChangesOfArcStates DEF ArcStatesInv
    <3> QED
      BY <3>1, <3>2 DEF ArcStatesInv
  <2>3. CASE FollowRing(w)
    <3>1. /\ DOMAIN arcs' = ArcsOf(worker[w].ring)
          /\ \A a \in DOMAIN arcs' : arcs'[a] = IF a \in DOMAIN arcs THEN arcs[a] ELSE NewArc
          /\ lastPicked' \in DOMAIN arcs' \cup {NoArc}
      BY <2>3 DEF FollowRing
    <3> QED
      BY <3>1, NewArcIsAState DEF ArcStatesInv
  <2> QED
    BY <1>1, <1>2, <2>1, <2>2, <2>3
    DEF WorkerStep, ReadReachablePeers, ArcsAmong, FindNoOpenArc, ReadAdmissions,
        ScheduleAdmissions,
        ReadEarliestDue, Send, EndSleep, EndWait, SendEnds, walkVars
<1>3. ASSUME NEW p \in WordPartitions, SignalAdmission(p) PROVE ArcStatesInv'
  <2> DEFINE reopened(a) == [a EXCEPT !.signals = @ + 1, !.drainedUntil = 0, !.heldBack = FALSE]
  <2>1. /\ UNCHANGED lastPicked /\ DOMAIN arcs' = DOMAIN arcs
        /\ \A a \in DOMAIN arcs : arcs'[a] = reopened(arcs[a]) \/ arcs'[a] = arcs[a]
    BY <1>3 DEF SignalAdmission
  <2>2. ASSUME NEW a \in ArcStates PROVE reopened(a) \in ArcStates
    <3>1. [a EXCEPT !.signals = @ + 1] \in ArcStates /\ 0 \in Times /\ FALSE \in BOOLEAN
      BY ChangesOfArcStates, TimesOfTheWalk
    <3>2. [[a EXCEPT !.signals = @ + 1] EXCEPT !.drainedUntil = 0] \in ArcStates
      BY <3>1, ChangesOfArcStates
    <3>3. [[[a EXCEPT !.signals = @ + 1] EXCEPT !.drainedUntil = 0] EXCEPT !.heldBack = FALSE]
            \in ArcStates
      BY <3>1, <3>2, ChangesOfArcStates
    <3> QED
      BY <3>3
  <2> HIDE DEF reopened
  <2> QED
    BY <2>1, <2>2 DEF ArcStatesInv
<1>4. CASE Restart
  BY <1>4 DEF Restart, ArcStatesInv
<1>5. CASE (\E p \in WordPartitions : Admit(p)) \/ (\E p \in MovingPeers : ChangeRoster(p))
             \/ SignalReachablePeers \/ Tick \/ UNCHANGED vars
  BY <1>1, <1>5 DEF Admit, ChangeRoster, SignalReachablePeers, Tick, vars, walkVars
<1> QED
  BY <1>2, <1>3, <1>4, <1>5 DEF Next

-----------------------------------------------------------------------------
(* Sends in flight are those of workers *)

Senders(p) == {w \in Workers : At(w, "sending") /\ p \in worker[w].sending}

SendsInv == sends \in [Peers -> Nat] /\ \A p \in Peers : sends[p] = Cardinality(Senders(p))

LEMMA SendersAreWorkers ==
  ASSUME NEW p \in Peers
  PROVE  /\ IsFiniteSet(Senders(p)) /\ Cardinality(Senders(p)) \in Nat
         /\ Cardinality(Workers) \in Nat /\ Cardinality(Senders(p)) <= Cardinality(Workers)
<1>1. IsFiniteSet(Workers) /\ Senders(p) \in SUBSET Workers
  BY WalkAssumption DEF Senders
<1>2. IsFiniteSet(Senders(p)) /\ Cardinality(Senders(p)) <= Cardinality(Workers)
  BY <1>1, FS_Subset
<1> QED
  BY <1>1, <1>2, FS_CardinalityType

LEMMA OthersSendOn ==
  ASSUME Types, NEW w \in Workers, WorkerStep(w), NEW v \in Workers \ {w}
  PROVE  worker'[v].stage = worker[v].stage /\ worker'[v].sending = worker[v].sending
<1>0. WorkerTypes /\ ArcTypes /\ DOMAIN worker[v] = DOMAIN Empty
  BY DEF Types, WorkerTypes, IsWorker
<1>1. CASE FollowRing(w)
  <2>1. \/ worker'[v] = [worker[v] EXCEPT !.left = TRUE]
        \/ worker'[v] = [worker[v] EXCEPT !.ring = ring']
        \/ worker'[v] = worker[v]
    BY <1>0, <1>1, RingOfWorker
  <2> QED
    BY <1>0, <2>1, Fields
<1>2. CASE ~FollowRing(w)
  <2>1. WorksOn(w) \/ PickOpenArc(w)
    BY <1>2, OnlyRingAndPicksMoveBatches
  <2>2. worker'[v] = worker[v]
    BY <1>0, <2>1, ArcsOfPick DEF WorksOn, Picks, Becomes
  <2> QED
    BY <2>2
<1> QED
  BY <1>1, <1>2

LEMMA SendCounts ==
  ASSUME Types, SendsInv, NEW w \in Workers, Send(w)
  PROVE  SendsInv'
<1>0. WorkerTypes /\ DOMAIN worker[w] = DOMAIN Empty
  BY DEF Types, WorkerTypes, IsWorker
<1>1. /\ worker' = [worker EXCEPT ![w] = [worker[w] EXCEPT !.stage = "sending"]]
      /\ worker[w].stage = "offering"
      /\ sends' = [p \in Peers |-> sends[p] + IF p \in worker[w].sending THEN 1 ELSE 0]
  BY DEF Send, Goes, At
<1>2. /\ worker'[w].stage = "sending" /\ worker'[w].sending = worker[w].sending
      /\ \A v \in Workers \ {w} : worker'[v] = worker[v]
  BY <1>0, <1>1, Fields DEF WorkerTypes
<1>3. ASSUME NEW p \in Peers
      PROVE  sends'[p] = Cardinality(Senders(p)') /\ sends'[p] \in Nat
  <2>1. w \notin Senders(p) /\ IsFiniteSet(Senders(p)) /\ sends[p] = Cardinality(Senders(p))
        /\ sends[p] \in Nat
    BY <1>1, SendersAreWorkers DEF Senders, At, SendsInv
  <2>2. CASE p \in worker[w].sending
    <3>1. Senders(p)' = Senders(p) \cup {w}
      BY <1>2, <2>2 DEF Senders, At
    <3>2. Cardinality(Senders(p) \cup {w}) = Cardinality(Senders(p)) + 1
      BY <2>1, FS_AddElement
    <3> QED
      BY <1>1, <2>1, <2>2, <3>1, <3>2
  <2>3. CASE p \notin worker[w].sending
    <3>1. Senders(p)' = Senders(p)
      BY <1>2, <2>1, <2>3 DEF Senders, At
    <3> QED
      BY <1>1, <2>1, <2>3, <3>1
  <2> QED
    BY <2>2, <2>3
<1> QED
  BY <1>1, <1>3 DEF SendsInv

LEMMA SendEndsCounts ==
  ASSUME Types, SendsInv, NEW w \in Workers, NEW q \in Peers, SendEnds(w, q)
  PROVE  SendsInv'
<1>0. WorkerTypes /\ DOMAIN worker[w] = DOMAIN Empty
  BY DEF Types, WorkerTypes, IsWorker
<1>1. /\ worker' = [worker EXCEPT ![w] = [worker[w] EXCEPT !.sending = worker[w].sending \ {q}]]
      /\ worker[w].stage = "sending" /\ q \in worker[w].sending
      /\ sends' = [sends EXCEPT ![q] = @ - 1]
  BY DEF SendEnds, At
<1>2. /\ worker'[w].stage = "sending" /\ worker'[w].sending = worker[w].sending \ {q}
      /\ \A v \in Workers \ {w} : worker'[v] = worker[v]
  BY <1>0, <1>1, Fields DEF WorkerTypes
<1>3. ASSUME NEW p \in Peers
      PROVE  sends'[p] = Cardinality(Senders(p)') /\ sends'[p] \in Nat
  <2>1. IsFiniteSet(Senders(p)) /\ sends[p] = Cardinality(Senders(p)) /\ sends[p] \in Nat
    BY SendersAreWorkers DEF SendsInv
  <2>2. CASE p = q
    <3>1. Senders(p)' = Senders(p) \ {w} /\ w \in Senders(p)
      BY <1>1, <1>2, <2>2 DEF Senders, At
    <3>2. Cardinality(Senders(p)') = Cardinality(Senders(p)) - 1 /\ IsFiniteSet(Senders(p)')
      BY <2>1, <3>1, FS_RemoveElement
    <3>3. Cardinality(Senders(p)') \in Nat
      BY <3>2, FS_CardinalityType
    <3>4. sends'[p] = sends[p] - 1
      BY <1>1, <2>2 DEF SendsInv
    <3> QED
      BY <2>1, <3>2, <3>3, <3>4
  <2>3. CASE p # q
    <3>1. Senders(p)' = Senders(p)
      BY <1>1, <1>2, <2>3 DEF Senders, At
    <3>2. sends'[p] = sends[p]
      BY <1>1, <2>3 DEF SendsInv
    <3> QED
      BY <2>1, <3>1, <3>2
  <2> QED
    BY <2>2, <2>3
<1>4. DOMAIN sends' = Peers /\ sends' = [p \in Peers |-> sends'[p]]
  BY <1>1 DEF SendsInv
<1> QED
  BY <1>3, <1>4 DEF SendsInv

LEMMA SendsAreKept ==
  ASSUME Types, SendsInv, [Next]_vars
  PROVE  SendsInv'
<1>1. CASE UNCHANGED <<worker, sends>>
  BY <1>1 DEF SendsInv, Senders, At
<1>2. ASSUME NEW w \in Workers, WorkerStep(w), ~Send(w), ~\E p \in Peers : SendEnds(w, p)
      PROVE  SendsInv'
  <2>1. UNCHANGED sends
    BY <1>2 DEF WorkerStep, ReadReachablePeers, ArcsAmong, FollowRing, PickOpenArc, FindNoOpenArc,
      ReadAdmissions, ScheduleAdmissions, PutBack, ReadDueEntries, ReadEarliestDue,
      SettleReadEnd, CompleteBatch, Abandon, EndSleep, EndWait, peerVars, rosterVars,
      eligibilityVars
  <2>2. worker'[w].stage # "sending"
    BY <1>2, StagesOfSteps, StagesAre
  <2>3. worker[w].stage = "sending" => worker[w].sending = {}
    BY <1>2 DEF WorkerStep, ReadReachablePeers, ArcsAmong, FollowRing, PickOpenArc, FindNoOpenArc,
      ReadAdmissions, ScheduleAdmissions, PutBack, ReadDueEntries, ReadEarliestDue,
      SettleReadEnd, CompleteBatch, Abandon, EndSleep, EndWait, At
  <2>4. \A v \in Workers \ {w} : worker'[v].stage = worker[v].stage
                                /\ worker'[v].sending = worker[v].sending
    BY <1>2, OthersSendOn
  <2>5. \A p \in Peers : Senders(p)' = Senders(p)
    BY <2>2, <2>3, <2>4 DEF Senders, At
  <2> QED
    BY <2>1, <2>5 DEF SendsInv
<1>3. CASE Restart
  <2>1. sends' = [p \in Peers |-> 0] /\ worker' = [w \in Workers |-> Empty]
    BY <1>3 DEF Restart
  <2>2. \A p \in Peers : Senders(p)' = {}
    BY <2>1, EmptyIsTyped DEF Senders, At
  <2> QED
    BY <2>1, <2>2, FS_EmptySet DEF SendsInv
<1>4. CASE (\E p \in WordPartitions : Admit(p) \/ SignalAdmission(p))
             \/ (\E p \in MovingPeers : ChangeRoster(p)) \/ SignalReachablePeers \/ Tick
             \/ UNCHANGED vars
  BY <1>1, <1>4
  DEF Admit, SignalAdmission, ChangeRoster, SignalReachablePeers, Tick, vars, peerVars,
      eligibilityVars
<1> QED
  BY <1>2, <1>3, <1>4, SendCounts, SendEndsCounts DEF Next

LEMMA SendsAtFirst == Init => SendsInv
<1> SUFFICES ASSUME Init PROVE SendsInv
  OBVIOUS
<1>1. sends = [p \in Peers |-> 0] /\ worker = [w \in Workers |-> Empty]
  BY DEF Init
<1>2. \A p \in Peers : Senders(p) = {}
  BY <1>1, EmptyIsTyped DEF Senders, At
<1> QED
  BY <1>1, <1>2, FS_EmptySet DEF SendsInv

-----------------------------------------------------------------------------
(* Nothing is scheduled that was not admitted *)

\* The admissions a worker has read are still there when it schedules them: nobody else
\* schedules in its arc.
AdmittedInv ==
  /\ admissions \in 0 .. MaxAdmissions
  /\ \A p \in WordPartitions :
       /\ admitted[p] \in 0 .. admissions
       /\ \A w \in Workers : At(w, "scheduling") => worker[w].seen[p] \in 0 .. admitted[p]

LEMMA WorkKeepsAdmitted ==
  ASSUME Types, BatchesAreApart, LocalInv, AdmittedInv, NEW w \in Workers, WorkerStep(w)
  PROVE  AdmittedInv'
<1>0. WorkerTypes /\ ScheduleTypes /\ IsWorker(worker[w])
  BY DEF Types, WorkerTypes
<1>1. UNCHANGED admissions
  BY DEF WorkerStep, ReadReachablePeers, ArcsAmong, FollowRing, PickOpenArc, FindNoOpenArc,
    ReadAdmissions,
    ScheduleAdmissions, PutBack, ReadDueEntries, ReadEarliestDue, SettleReadEnd, Send,
    CompleteBatch, Abandon, EndSleep, EndWait, SendEnds, bounds
<1>2. CASE ScheduleAdmissions(w)
  <2>1. /\ \A p \in WordPartitions : admitted'[p] = admitted[p] - worker[w].seen[p]
        /\ worker[w].stage = "scheduling"
    BY <1>2 DEF ScheduleAdmissions, MarkScheduled, At
  <2>2. \A p \in WordPartitions : admitted'[p] \in 0 .. admissions
    <3> TAKE p \in WordPartitions
    <3>1. /\ admitted[p] \in 0 .. admissions /\ worker[w].seen[p] \in 0 .. admitted[p]
          /\ admissions \in 0 .. MaxAdmissions
      BY <2>1 DEF AdmittedInv, At
    <3> QED
      BY <2>1, <3>1
  <2>3. worker'[w].stage = "searching"
    BY <1>2, FieldsInBatch
  <2>4. ASSUME NEW v \in Workers, worker'[v].stage = "scheduling", NEW p \in WordPartitions
        PROVE  worker'[v].seen[p] \in 0 .. admitted'[p]
    <3>1. v # w
      BY <2>3, <2>4
    <3>2. worker[v].stage = "scheduling" /\ worker'[v].seen = worker[v].seen
      BY <2>4, <3>1, OthersWorkOn DEF SameWork
    <3>3. worker[v].seen[p] \in 0 .. admitted[p]
      BY <3>2 DEF AdmittedInv, At
    <3>4. CASE Holds(worker[v].arc, p)
      <4>1. p \in PartitionsOf(worker[v].arc) /\ InBatch(v)
        BY <3>2, <3>4 DEF PartitionsOf, InBatch, BatchStages
      <4>2. admitted'[p] = admitted[p]
        BY <3>1, <4>1, OthersLeaveBatches
      <4> QED
        BY <3>2, <3>3, <4>2
    <3>5. CASE ~Holds(worker[v].arc, p)
      <4>1. worker[v].seen[p] = 0
        BY <3>2, <3>5 DEF LocalInv, IsLocal
      <4>2. admitted'[p] \in 0 .. admissions
        BY <2>2
      <4> QED
        BY <3>2, <4>1, <4>2
    <3> QED
      BY <3>4, <3>5
  <2> QED
    BY <1>1, <2>2, <2>4 DEF AdmittedInv, At
<1>3. CASE ~ScheduleAdmissions(w)
  <2>1. UNCHANGED admitted
    BY <1>3 DEF WorkerStep, ReadReachablePeers, ArcsAmong, FollowRing, PickOpenArc, FindNoOpenArc,
      ReadAdmissions, PutBack, ReadDueEntries, ReadEarliestDue, SettleReadEnd, Send,
      CompleteBatch, Abandon, EndSleep, EndWait, SendEnds, scheduleVars
  <2>2. ASSUME NEW v \in Workers, worker'[v].stage = "scheduling", NEW p \in WordPartitions
        PROVE  worker'[v].seen[p] \in 0 .. admitted[p]
    <3>1. CASE v # w
      BY <2>2, <3>1, OthersWorkOn DEF SameWork, AdmittedInv, At
    <3>2. CASE v = w
      <4>1. ReadAdmissions(w)
        BY <1>3, <2>2, <3>2, StagesOfSteps, StagesAre
      <4>2. worker'[w].seen = SeenBy(w)
        BY <2>2, <3>2, <4>1, FieldsInBatch
      <4>3. admitted[p] \in 0 .. admissions /\ admissions \in 0 .. MaxAdmissions
        BY DEF AdmittedInv
      <4>4. SeenBy(w)[p] = admitted[p] \/ SeenBy(w)[p] = 0
        BY DEF SeenBy
      <4> QED
        BY <3>2, <4>2, <4>3, <4>4
    <3> QED
      BY <3>1, <3>2
  <2> QED
    BY <1>1, <2>1, <2>2 DEF AdmittedInv, At
<1> QED
  BY <1>2, <1>3

LEMMA AdmittedIsKept ==
  ASSUME Types, BatchesAreApart, LocalInv, AdmittedInv, [Next]_vars
  PROVE  AdmittedInv'
<1>1. ASSUME NEW w \in Workers, WorkerStep(w) PROVE AdmittedInv'
  BY <1>1, WorkKeepsAdmitted
<1>2. CASE UNCHANGED <<admissions, admitted, worker>>
  BY <1>2 DEF AdmittedInv, At
<1>3. ASSUME NEW q \in WordPartitions, Admit(q) PROVE AdmittedInv'
  <2>1. /\ admissions < MaxAdmissions /\ admissions' = admissions + 1 /\ UNCHANGED worker
        /\ admitted' = [admitted EXCEPT ![q] = @ + 1]
    BY <1>3 DEF Admit
  <2>2. admissions \in 0 .. MaxAdmissions /\ MaxAdmissions \in Nat
    BY WalkAssumption DEF AdmittedInv
  <2>3. ASSUME NEW p \in WordPartitions
        PROVE  admitted'[p] \in 0 .. admissions' /\ admitted'[p] >= admitted[p]
    <3>1. admitted[p] \in 0 .. admissions
      BY DEF AdmittedInv
    <3>2. admitted'[p] = admitted[p] + 1 \/ admitted'[p] = admitted[p]
      BY <2>1 DEF Types, ScheduleTypes
    <3> QED
      BY <2>1, <2>2, <3>1, <3>2
  <2>4. ASSUME NEW p \in WordPartitions, NEW w \in Workers, worker[w].stage = "scheduling"
        PROVE  worker[w].seen[p] \in 0 .. admitted'[p]
    <3>1. worker[w].seen[p] \in 0 .. admitted[p] /\ admitted[p] \in 0 .. admissions
      BY <2>4 DEF AdmittedInv, At
    <3> QED
      BY <2>1, <2>2, <2>3, <3>1
  <2>5. admissions' \in 0 .. MaxAdmissions
    BY <2>1, <2>2
  <2> QED
    BY <2>1, <2>3, <2>4, <2>5 DEF AdmittedInv, At
<1>4. CASE Restart
  <2>1. UNCHANGED <<admissions, admitted>> /\ worker' = [w \in Workers |-> Empty]
    BY <1>4 DEF Restart
  <2>2. Empty.stage # "scheduling"
    BY EmptyIsTyped
  <2> QED
    BY <2>1, <2>2 DEF AdmittedInv, At
<1>5. CASE (\E p \in WordPartitions : SignalAdmission(p))
             \/ (\E p \in MovingPeers : ChangeRoster(p))
             \/ SignalReachablePeers \/ Tick \/ UNCHANGED vars
  BY <1>2, <1>5
  DEF SignalAdmission, ChangeRoster, SignalReachablePeers, Tick, vars, scheduleVars, bounds
<1> QED
  BY <1>1, <1>3, <1>4, <1>5 DEF Next

LEMMA AdmittedAtFirst == Init => AdmittedInv
<1> SUFFICES ASSUME Init PROVE AdmittedInv
  OBVIOUS
<1>1. /\ admitted = [p \in WordPartitions |-> 0] /\ worker = [w \in Workers |-> Empty]
      /\ admissions = 0 /\ 0 \in 0 .. MaxAdmissions
  BY WalkAssumption DEF Init
<1>2. Empty.stage # "scheduling"
  BY EmptyIsTyped
<1> QED
  BY <1>1, <1>2 DEF AdmittedInv, At

-----------------------------------------------------------------------------
(* No admission is signalled twice *)

\* Admissions of a word partition that are not signalled: of[i] is the word partition of
\* the i-th of n admissions, signalled are those signalled since.
Unsignalled(n, of, signalled, p) == {i \in (1 .. n) \ signalled : of[i] = p}

\* Each signal of an arc is that of an admission of its own.
SignalledInv ==
  \E of \in [1 .. admissions -> WordPartitions], signalled \in SUBSET (1 .. admissions) :
    /\ \A p \in WordPartitions :
         unsignalled[p] = Cardinality(Unsignalled(admissions, of, signalled, p))
    /\ \A a \in DOMAIN arcs : arcs[a].signals <= Cardinality(signalled)

LEMMA SomeAdmissions ==
  ASSUME NEW n \in Nat, NEW S \in SUBSET (1 .. n)
  PROVE  IsFiniteSet(S) /\ Cardinality(S) \in 0 .. n
<1>1. IsFiniteSet(1 .. n) /\ Cardinality(1 .. n) = n
  BY FS_Interval
<1>2. IsFiniteSet(S) /\ Cardinality(S) <= n
  BY <1>1, FS_Subset
<1>3. Cardinality(S) \in Nat
  BY <1>2, FS_CardinalityType
<1> QED
  BY <1>2, <1>3

LEMMA SignalledFrom ==
  ASSUME NEW of \in [1 .. admissions' -> WordPartitions],
         NEW signalled \in SUBSET (1 .. admissions'),
         \A p \in WordPartitions :
           unsignalled'[p] = Cardinality(Unsignalled(admissions', of, signalled, p)),
         \A a \in DOMAIN arcs' : arcs'[a].signals <= Cardinality(signalled)
  PROVE  SignalledInv'
BY Zenon DEF SignalledInv, Unsignalled

LEMMA WorkKeepsSignalled ==
  ASSUME Types, SignalledInv, admissions \in Nat, NEW w \in Workers, WorkerStep(w)
  PROVE  SignalledInv'
<1>0. WorkerTypes /\ ArcTypes
  BY DEF Types
<1>1. UNCHANGED <<admissions, unsignalled>>
  BY DEF WorkerStep, ReadReachablePeers, ArcsAmong, FollowRing, PickOpenArc, FindNoOpenArc,
    ReadAdmissions,
    ScheduleAdmissions, PutBack, ReadDueEntries, ReadEarliestDue, SettleReadEnd, Send,
    CompleteBatch, Abandon, EndSleep, EndWait, SendEnds, bounds, scheduleVars
<1>2. PICK of \in [1 .. admissions -> WordPartitions], signalled \in SUBSET (1 .. admissions) :
        /\ \A p \in WordPartitions :
             unsignalled[p] = Cardinality(Unsignalled(admissions, of, signalled, p))
        /\ \A a \in DOMAIN arcs : arcs[a].signals <= Cardinality(signalled)
  BY DEF SignalledInv
<1>3. ASSUME NEW a \in DOMAIN arcs' PROVE arcs'[a].signals <= Cardinality(signalled)
  <2>1. CASE a \in DOMAIN arcs
    BY <1>2, <2>1, SignalsAreCounted
  <2>2. CASE a \notin DOMAIN arcs
    <3>1. FollowRing(w)
      <4>1. ~WorksOn(w)
        BY <2>2 DEF WorksOn
      <4>2. ~PickOpenArc(w)
        BY <1>0, <2>2, ArcsOfPick
      <4> QED
        BY <4>1, <4>2, OnlyRingAndPicksMoveBatches
    <3>2. arcs'[a] = NewArc
      BY <1>0, <2>2, <3>1, RingOfWorker
    <3>3. NewArc.signals = 0 /\ Cardinality(signalled) \in 0 .. admissions
      BY SomeAdmissions DEF NewArc
    <3> QED
      BY <3>2, <3>3
  <2> QED
    BY <2>1, <2>2
<1> QED
  BY <1>1, <1>2, <1>3 DEF SignalledInv, Unsignalled

LEMMA AdmitKeepsSignalled ==
  ASSUME Types, SignalledInv, admissions \in Nat, NEW q \in WordPartitions, Admit(q)
  PROVE  SignalledInv'
<1> DEFINE n == admissions
<1>1. PICK of \in [1 .. n -> WordPartitions], signalled \in SUBSET (1 .. n) :
        /\ \A p \in WordPartitions :
             unsignalled[p] = Cardinality(Unsignalled(n, of, signalled, p))
        /\ \A a \in DOMAIN arcs : arcs[a].signals <= Cardinality(signalled)
  BY DEF SignalledInv
<1>2. /\ admissions' = n + 1 /\ UNCHANGED arcs
      /\ unsignalled' = [unsignalled EXCEPT ![q] = @ + 1]
  BY DEF Admit, walkVars
<1> DEFINE more == [i \in 1 .. n + 1 |-> IF i = n + 1 THEN q ELSE of[i]]
<1>3. more \in [1 .. n + 1 -> WordPartitions] /\ signalled \in SUBSET (1 .. n + 1)
  OBVIOUS
<1>4. ASSUME NEW p \in WordPartitions
      PROVE  unsignalled'[p] = Cardinality(Unsignalled(n + 1, more, signalled, p))
  <2>1. /\ IsFiniteSet(Unsignalled(n, of, signalled, p)) /\ n + 1 \notin 1 .. n
        /\ n + 1 \notin Unsignalled(n, of, signalled, p)
        /\ unsignalled[p] = Cardinality(Unsignalled(n, of, signalled, p))
    <3>1. Unsignalled(n, of, signalled, p) \in SUBSET (1 .. n) /\ n + 1 \notin 1 .. n
      BY DEF Unsignalled
    <3> QED
      BY <1>1, <3>1, SomeAdmissions
  <2>2. n + 1 \in (1 .. n + 1) \ signalled /\ more[n + 1] = q
        /\ \A i \in 1 .. n : more[i] = of[i] /\ i \in 1 .. n + 1
        /\ \A j \in 1 .. n + 1 : j # n + 1 => j \in 1 .. n
    BY <2>1
  <2> HIDE DEF more
  <2>3. CASE p = q
    <3>1. Unsignalled(n + 1, more, signalled, p) = Unsignalled(n, of, signalled, p) \cup {n + 1}
      BY <2>2, <2>3 DEF Unsignalled
    <3>2. Cardinality(Unsignalled(n, of, signalled, p) \cup {n + 1})
            = Cardinality(Unsignalled(n, of, signalled, p)) + 1
      BY <2>1, FS_AddElement
    <3>3. unsignalled'[p] = unsignalled[p] + 1
      BY <1>2, <2>3 DEF Types, ScheduleTypes
    <3> QED
      BY <2>1, <3>1, <3>2, <3>3
  <2>4. CASE p # q
    <3>1. Unsignalled(n + 1, more, signalled, p) = Unsignalled(n, of, signalled, p)
      BY <2>2, <2>4 DEF Unsignalled
    <3>2. unsignalled'[p] = unsignalled[p]
      BY <1>2, <2>4 DEF Types, ScheduleTypes
    <3> QED
      BY <2>1, <3>1, <3>2
  <2> QED
    BY <2>3, <2>4
<1>5. \A a \in DOMAIN arcs' : arcs'[a].signals <= Cardinality(signalled)
  BY <1>1, <1>2
<1> HIDE DEF more
<1> QED
  BY <1>2, <1>3, <1>4, <1>5, SignalledFrom

LEMMA SignalKeepsSignalled ==
  ASSUME Types, SignalledInv, admissions \in Nat, NEW q \in WordPartitions, SignalAdmission(q)
  PROVE  SignalledInv'
<1> DEFINE n == admissions
<1>0. ArcTypes
  BY DEF Types
<1>1. PICK of \in [1 .. n -> WordPartitions], signalled \in SUBSET (1 .. n) :
        /\ \A p \in WordPartitions :
             unsignalled[p] = Cardinality(Unsignalled(n, of, signalled, p))
        /\ \A a \in DOMAIN arcs : arcs[a].signals <= Cardinality(signalled)
  BY DEF SignalledInv
<1>2. /\ admissions' = n /\ unsignalled[q] > 0
      /\ unsignalled' = [unsignalled EXCEPT ![q] = @ - 1]
  BY DEF SignalAdmission, bounds
<1>3. PICK i \in (1 .. n) \ signalled : of[i] = q
  <2>1. Unsignalled(n, of, signalled, q) # {}
    <3>1. unsignalled[q] = Cardinality(Unsignalled(n, of, signalled, q))
      BY <1>1
    <3>2. Cardinality({}) = 0
      BY FS_EmptySet
    <3> SUFFICES ASSUME Unsignalled(n, of, signalled, q) = {} PROVE FALSE
      OBVIOUS
    <3> QED
      BY <1>2, <3>1, <3>2
  <2> QED
    BY <2>1 DEF Unsignalled
<1> DEFINE more == signalled \cup {i}
<1>4. Cardinality(more) = Cardinality(signalled) + 1 /\ Cardinality(signalled) \in Nat
      /\ more \in SUBSET (1 .. n)
  <2>1. IsFiniteSet(signalled) /\ Cardinality(signalled) \in 0 .. n /\ i \notin signalled
    BY <1>3, SomeAdmissions
  <2>2. Cardinality(signalled \cup {i}) = Cardinality(signalled) + 1
    BY <2>1, FS_AddElement
  <2> QED
    BY <1>3, <2>1, <2>2
<1>5. ASSUME NEW p \in WordPartitions
      PROVE  unsignalled'[p] = Cardinality(Unsignalled(n, of, more, p))
  <2>1. /\ IsFiniteSet(Unsignalled(n, of, signalled, p))
        /\ unsignalled[p] = Cardinality(Unsignalled(n, of, signalled, p))
    <3>1. Unsignalled(n, of, signalled, p) \in SUBSET (1 .. n)
      BY DEF Unsignalled
    <3> QED
      BY <1>1, <3>1, SomeAdmissions
  <2>2. CASE p = q
    <3>1. /\ Unsignalled(n, of, more, p) = Unsignalled(n, of, signalled, p) \ {i}
          /\ i \in Unsignalled(n, of, signalled, p)
      BY <1>3, <2>2 DEF Unsignalled
    <3>2. Cardinality(Unsignalled(n, of, signalled, p) \ {i})
            = Cardinality(Unsignalled(n, of, signalled, p)) - 1
      BY <2>1, <3>1, FS_RemoveElement
    <3>3. unsignalled'[p] = unsignalled[p] - 1
      BY <1>2, <2>2 DEF Types, ScheduleTypes
    <3> QED
      BY <2>1, <3>1, <3>2, <3>3
  <2>3. CASE p # q
    <3>1. Unsignalled(n, of, more, p) = Unsignalled(n, of, signalled, p)
      BY <1>3, <2>3 DEF Unsignalled
    <3>2. unsignalled'[p] = unsignalled[p]
      BY <1>2, <2>3 DEF Types, ScheduleTypes
    <3> QED
      BY <2>1, <3>1, <3>2
  <2> QED
    BY <2>2, <2>3
<1>6. ASSUME NEW a \in DOMAIN arcs' PROVE arcs'[a].signals <= Cardinality(more)
  <2>1. /\ a \in DOMAIN arcs
        /\ arcs'[a].signals = arcs[a].signals + 1 \/ arcs'[a].signals = arcs[a].signals
    BY <1>0, ArcsOfSignal DEF SameArc, SameButBatch
  <2>2. arcs[a].signals \in Nat /\ arcs[a].signals <= Cardinality(signalled)
    BY <1>0, <1>1, <2>1 DEF ArcTypes
  <2> HIDE DEF more
  <2> QED
    BY <1>4, <2>1, <2>2
<1> HIDE DEF more
<1> QED
  BY <1>2, <1>4, <1>5, <1>6, SignalledFrom

LEMMA RestartKeepsSignalled ==
  ASSUME Types, SignalledInv, admissions \in Nat, Restart
  PROVE  SignalledInv'
<1>1. PICK of \in [1 .. admissions -> WordPartitions] : TRUE
  BY DEF SignalledInv
<1>2. /\ UNCHANGED admissions /\ unsignalled' = [p \in WordPartitions |-> 0]
      /\ DOMAIN arcs' = {}
  BY DEF Restart
<1>3. \A p \in WordPartitions : Unsignalled(admissions, of, 1 .. admissions, p) = {}
  BY DEF Unsignalled
<1>4. \A p \in WordPartitions :
        unsignalled'[p] = Cardinality(Unsignalled(admissions, of, 1 .. admissions, p))
  BY <1>2, <1>3, FS_EmptySet
<1>5. /\ of \in [1 .. admissions' -> WordPartitions]
      /\ (1 .. admissions) \in SUBSET (1 .. admissions')
      /\ \A p \in WordPartitions :
           unsignalled'[p] = Cardinality(Unsignalled(admissions', of, 1 .. admissions, p))
      /\ \A a \in DOMAIN arcs' : arcs'[a].signals <= Cardinality(1 .. admissions)
  BY <1>1, <1>2, <1>4
<1> QED
  BY <1>5, SignalledFrom

LEMMA SignalledIsKept ==
  ASSUME Types, SignalledInv, admissions \in Nat, [Next]_vars
  PROVE  SignalledInv'
<1>1. CASE UNCHANGED <<admissions, unsignalled, arcs>>
  BY <1>1 DEF SignalledInv, Unsignalled
<1>2. CASE (\E p \in MovingPeers : ChangeRoster(p)) \/ SignalReachablePeers \/ Tick
             \/ UNCHANGED vars
  BY <1>1, <1>2
  DEF ChangeRoster, SignalReachablePeers, Tick, vars, scheduleVars, walkVars, bounds
<1> QED
  BY <1>2, WorkKeepsSignalled, AdmitKeepsSignalled, SignalKeepsSignalled, RestartKeepsSignalled
  DEF Next

LEMMA SignalledAtFirst == Init => SignalledInv
<1> SUFFICES ASSUME Init PROVE SignalledInv
  OBVIOUS
<1>1. /\ unsignalled = [p \in WordPartitions |-> 0] /\ DOMAIN arcs = {} /\ admissions = 0
  BY DEF Init
<1> DEFINE of == [i \in 1 .. 0 |-> RingSize]
<1>2. of \in [1 .. 0 -> WordPartitions]
  OBVIOUS
<1>3. \A p \in WordPartitions : Unsignalled(0, of, {}, p) = {}
  BY DEF Unsignalled
<1>4. \A p \in WordPartitions : unsignalled[p] = Cardinality(Unsignalled(0, of, {}, p))
  BY <1>1, <1>3, FS_EmptySet
<1>5. {} \in SUBSET (1 .. 0) /\ \A a \in DOMAIN arcs : arcs[a].signals <= Cardinality({})
  BY <1>1
<1> HIDE DEF of
<1> QED
  BY <1>1, <1>2, <1>4, <1>5, Zenon DEF SignalledInv

-----------------------------------------------------------------------------
(* The type invariant *)

TypeInv ==
  /\ Types /\ BatchesAreApart /\ DrainInv
  /\ FlagsInv /\ PeersInv /\ OwnersInv /\ DueTimesInv /\ ArcStatesInv /\ SendsInv
  /\ AdmittedInv /\ SignalledInv

LEMMA TypeInvAtFirst == Init => TypeInv
<1>1. Init => OwnersInv /\ ArcStatesInv
  BY DEF Init, OwnersInv, ArcStatesInv
<1> QED
  BY <1>1, TypesAtFirst, BatchesApartAtFirst, DrainsAtFirst, FlagsAtFirst, PeersAtFirst,
     DueTimesAtFirst, SendsAtFirst, AdmittedAtFirst, SignalledAtFirst DEF TypeInv

LEMMA TypeInvIsKept == TypeInv /\ [Next]_vars => TypeInv'
<1> SUFFICES ASSUME TypeInv, [Next]_vars PROVE TypeInv'
  OBVIOUS
<1>0. /\ Types /\ BatchesAreApart /\ DrainInv /\ LocalInv /\ FlagsInv /\ PeersInv /\ OwnersInv
      /\ DueTimesInv /\ ArcStatesInv /\ SendsInv /\ AdmittedInv /\ SignalledInv
  BY DEF TypeInv, DrainInv
<1>1. admissions \in Nat
  BY <1>0, WalkAssumption DEF AdmittedInv
<1>2. Types' /\ BatchesAreApart' /\ DrainInv'
  BY <1>0, TypesAreKept, BatchesStayApart, DrainsStay
<1>3. FlagsInv' /\ PeersInv' /\ OwnersInv' /\ DueTimesInv' /\ ArcStatesInv'
  BY <1>0, FlagsAreKept, PeersAreKept, OwnersAreKept, DueTimesAreKept, ArcStatesAreKept
<1>4. SendsInv' /\ AdmittedInv' /\ SignalledInv'
  BY <1>0, <1>1, SendsAreKept, AdmittedIsKept, SignalledIsKept
<1> QED
  BY <1>2, <1>3, <1>4 DEF TypeInv

LEMMA TypeInvGivesTypes == TypeInv => TypeOK
<1> SUFFICES ASSUME TypeInv PROVE TypeOK
  OBVIOUS
<1>0. /\ Types /\ BatchesAreApart /\ FlagsInv /\ PeersInv /\ OwnersInv
      /\ DueTimesInv /\ ArcStatesInv /\ SendsInv /\ AdmittedInv /\ SignalledInv
      /\ ScheduleTypes /\ ArcTypes /\ WorkerTypes
  BY DEF TypeInv, Types
<1>1. admissions \in 0 .. MaxAdmissions /\ MaxAdmissions \in Nat
  BY <1>0, WalkAssumption DEF AdmittedInv
<1>2. PICK of \in [1 .. admissions -> WordPartitions], signalled \in SUBSET (1 .. admissions) :
        /\ \A p \in WordPartitions :
             unsignalled[p] = Cardinality(Unsignalled(admissions, of, signalled, p))
        /\ \A a \in DOMAIN arcs : arcs[a].signals <= Cardinality(signalled)
  BY <1>0 DEF SignalledInv
<1>3. sends \in [Peers -> 0 .. Cardinality(Workers)]
  <2>1. \A p \in Peers : sends[p] \in 0 .. Cardinality(Workers)
    BY <1>0, SendersAreWorkers DEF SendsInv
  <2> QED
    BY <1>0, <2>1 DEF SendsInv
<1>4. admitted \in [WordPartitions -> 0 .. MaxAdmissions]
  <2>1. \A p \in WordPartitions : admitted[p] \in 0 .. MaxAdmissions
    <3> TAKE p \in WordPartitions
    <3>1. admitted[p] \in 0 .. admissions
      BY <1>0 DEF AdmittedInv
    <3> QED
      BY <1>1, <3>1
  <2> QED
    BY <1>0, <2>1 DEF ScheduleTypes
<1>5. unsignalled \in [WordPartitions -> 0 .. MaxAdmissions]
  <2>1. \A p \in WordPartitions : unsignalled[p] \in 0 .. MaxAdmissions
    <3> TAKE p \in WordPartitions
    <3>1. Unsignalled(admissions, of, signalled, p) \in SUBSET (1 .. admissions)
      BY DEF Unsignalled
    <3>2. unsignalled[p] \in 0 .. admissions
      BY <1>1, <1>2, <3>1, SomeAdmissions
    <3> QED
      BY <1>1, <3>2
  <2> QED
    BY <1>0, <2>1 DEF ScheduleTypes
<1>6. ASSUME NEW a \in DOMAIN arcs
      PROVE  /\ arcs[a] \in [inBatch : BOOLEAN, heldBack : BOOLEAN, drainedUntil : Times,
                             position : 0 .. RingSize, signals : 0 .. MaxAdmissions]
             /\ Cardinality({w \in Workers : InBatch(w) /\ ~worker[w].left
                                                       /\ worker[w].arc = a})
                  = IF arcs[a].inBatch THEN 1 ELSE 0
  <2>1. arcs[a] \in ArcStates
    BY <1>0 DEF ArcStatesInv
  <2>2. arcs[a].signals \in 0 .. MaxAdmissions
    <3>1. Cardinality(signalled) \in 0 .. admissions /\ arcs[a].signals \in Nat
      BY <1>1, <2>1, SomeAdmissions DEF ArcStates
    <3> QED
      BY <1>1, <1>2, <3>1
  <2>3. arcs[a].inBatch \in BOOLEAN
    BY <2>1, Zenon DEF ArcStates
  <2>4. Cardinality({w \in Workers : InBatch(w) /\ ~worker[w].left /\ worker[w].arc = a})
          = IF arcs[a].inBatch THEN 1 ELSE 0
    BY <1>0, <2>3, OneOwner
  <2> QED
    BY <2>1, <2>2, <2>4 DEF ArcStates
<1>7. /\ clock \in 1 .. MaxClock /\ rosterNews \in BOOLEAN
      /\ pausedUntil \in [Peers -> 0 .. MaxClock]
      /\ due \in [WordPartitions -> Times] /\ retrying \subseteq WordPartitions
  BY <1>0 DEF FlagsInv, ScheduleTypes, DueTimesInv
<1>8. ring \subseteq Peers /\ DOMAIN arcs = ArcsOf(ring) /\ lastPicked \in DOMAIN arcs \cup {NoArc}
  BY <1>0 DEF ArcTypes, ArcStatesInv
<1>9. \A w \in Workers : worker[w].stage \in Stages /\ wake[w] \in BOOLEAN
  <2>1. \A w \in Workers : worker[w].stage \in Stages
    BY <1>0 DEF FlagsInv
  <2>2. \A w \in Workers : wake[w] \in BOOLEAN
    BY <1>0, Zenon DEF FlagsInv
  <2> QED
    BY <2>1, <2>2
<1>10. /\ accepting \subseteq reachable /\ reachable \subseteq Peers /\ unnoticed \subseteq Peers
       /\ unaccepted \in [Peers -> 0 .. UnacceptedOffersBeforeExclusion]
       /\ excludedUntil \in [Peers -> 0 .. MaxClock + ExclusionDuration]
  BY <1>0 DEF PeersInv
<1> QED
  BY <1>3, <1>4, <1>5, <1>6, <1>7, <1>8, <1>9, <1>10, Zenon DEF TypeOK

\* Every variable of the walk keeps its type, the sends counted for a peer are those of
\* workers, no more is scheduled than was admitted, and an arc in a batch is the arc of
\* exactly one worker though its mark names no owner (isInBatch of arcWalk).
THEOREM WalkTypesHold == Spec => []TypeOK
<1>1. Spec => []TypeInv
  BY TypeInvAtFirst, TypeInvIsKept, PTL DEF Spec
<1> QED
  BY <1>1, TypeInvGivesTypes, PTL

-----------------------------------------------------------------------------
(* Held back arcs *)

\* An admission reopens the arc that holds it, so what is held back is scheduled.
HeldBackInv ==
  \A a \in DOMAIN arcs : arcs[a].heldBack
    => \A p \in PartitionsOf(a) : admitted[p] <= unsignalled[p]

LEMMA HeldBackOfChanges ==
  ASSUME NEW a \in ArcStates
  PROVE  /\ \A b \in BOOLEAN : [a EXCEPT !.inBatch = b].heldBack = a.heldBack
         /\ \A b \in BOOLEAN : \A n : [a EXCEPT !.inBatch = b, !.position = n].heldBack = a.heldBack
         /\ \A n : [a EXCEPT !.position = n].heldBack = a.heldBack
         /\ [a EXCEPT !.heldBack = FALSE].heldBack = FALSE
         /\ [a EXCEPT !.signals = @ + 1, !.drainedUntil = 0, !.heldBack = FALSE].heldBack = FALSE
         /\ \A w \in Workers :
              SettledArc(a, w).heldBack = a.heldBack \/ a.signals = worker[w].signals
BY DEF ArcStates, SettledArc

\* Only the settling of its end holds an arc back, and not if it was signalled meanwhile.
LEMMA HeldBackOfWork ==
  ASSUME Types, BatchesAreApart, ArcStatesInv, NEW w \in Workers, WorkerStep(w),
         NEW a \in DOMAIN arcs', arcs'[a].heldBack
  PROVE  /\ a \in DOMAIN arcs
         /\ \/ arcs[a].heldBack
            \/ SettleReadEnd(w) /\ Owns(w, a) /\ arcs[a].signals = worker[w].signals
<1>0. ArcTypes /\ BatchInv /\ \A b \in DOMAIN arcs : arcs[b] \in ArcStates
  BY DEF Types, BatchesAreApart, ArcStatesInv
<1>1. ASSUME NEW b, InBatch(w), arcs' = ChangedArc(w, b)
      PROVE  /\ a \in DOMAIN arcs
             /\ \/ arcs'[a] = arcs[a]
                \/ ~worker[w].left /\ a = worker[w].arc /\ arcs'[a] = b /\ ArcOf(w) \in ArcStates
                   /\ ArcOf(w) = arcs[a]
  BY <1>0, <1>1 DEF ChangedArc, BatchInv, ArcOf
<1>a. ASSUME NEW b, InBatch(w), arcs' = ChangedArc(w, b),
             ArcOf(w) \in ArcStates => b.heldBack = ArcOf(w).heldBack
      PROVE  a \in DOMAIN arcs /\ arcs[a].heldBack
  BY <1>1, <1>a
<1>b. FALSE \in BOOLEAN /\ TRUE \in BOOLEAN
  OBVIOUS
<1>2. CASE PutBack(w)
  <2> DEFINE b == [ArcOf(w) EXCEPT !.inBatch = FALSE]
  <2>1. arcs' = ChangedArc(w, b) /\ InBatch(w)
    BY <1>2 DEF PutBack, InBatch, BatchStages, At
  <2>2. ArcOf(w) \in ArcStates => b.heldBack = ArcOf(w).heldBack
    BY <1>b, HeldBackOfChanges
  <2> HIDE DEF b
  <2> QED
    BY <1>a, <2>1, <2>2
<1>3. CASE ReadDueEntries(w)
  <2>1. PICK position \in 0 .. RingSize :
          arcs' = ChangedArc(w, [ArcOf(w) EXCEPT !.position = position])
    BY <1>3, PositionOfRead
  <2> DEFINE b == [ArcOf(w) EXCEPT !.position = position]
  <2>2. InBatch(w)
    BY <1>3 DEF ReadDueEntries, InBatch, BatchStages, At
  <2>3. ArcOf(w) \in ArcStates => b.heldBack = ArcOf(w).heldBack
    BY HeldBackOfChanges
  <2>4. arcs' = ChangedArc(w, b)
    BY <2>1
  <2> HIDE DEF b
  <2> QED
    BY <1>a, <2>2, <2>3, <2>4
<1>4. CASE SettleReadEnd(w)
  <2>1. arcs' = ChangedArc(w, SettledArc(ArcOf(w), w)) /\ InBatch(w)
    BY <1>4 DEF SettleReadEnd, InBatch, BatchStages, At
  <2> QED
    BY <1>1, <1>4, <2>1, HeldBackOfChanges DEF Owns
<1>5. CASE CompleteBatch(w)
  <2> DEFINE completed == ChangedArc(w, [ArcOf(w) EXCEPT !.inBatch = FALSE])
  <2>1. arcs' = [b \in DOMAIN arcs |-> [completed[b] EXCEPT !.heldBack = FALSE]] /\ InBatch(w)
    BY <1>5 DEF CompleteBatch, InBatch, BatchStages, At
  <2>2. completed[a] \in ArcStates
    <3>1. CASE worker[w].left
      BY <1>0, <2>1, <3>1 DEF ChangedArc
    <3>2. CASE ~worker[w].left
      <4>1. completed = [arcs EXCEPT ![worker[w].arc] = [ArcOf(w) EXCEPT !.inBatch = FALSE]]
        BY <3>2 DEF ChangedArc
      <4>2. worker[w].arc \in DOMAIN arcs /\ ArcOf(w) \in ArcStates
        BY <1>0, <2>1, <3>2 DEF BatchInv, ArcOf
      <4>3. [ArcOf(w) EXCEPT !.inBatch = FALSE] \in ArcStates
        BY <4>2, ChangesOfArcStates
      <4> QED
        BY <1>0, <2>1, <4>1, <4>3
    <3> QED
      BY <3>1, <3>2
  <2> HIDE DEF completed
  <2> QED
    BY <2>1, <2>2, HeldBackOfChanges
<1>6. CASE Abandon(w)
  <2> DEFINE b == [ArcOf(w) EXCEPT !.inBatch = FALSE, !.position = 0]
  <2>1. arcs' = ChangedArc(w, b) /\ InBatch(w)
    BY <1>6 DEF Abandon, InBatch, BatchStages, At
  <2>2. ArcOf(w) \in ArcStates => b.heldBack = ArcOf(w).heldBack
    BY <1>b, HeldBackOfChanges
  <2> HIDE DEF b
  <2> QED
    BY <1>a, <2>1, <2>2
<1>7. CASE PickOpenArc(w)
  <2>1. PICK b \in DOMAIN arcs : arcs' = [arcs EXCEPT ![b] = [@ EXCEPT !.inBatch = TRUE]]
    BY <1>7, Zenon DEF PickOpenArc
  <2>2. arcs[b] \in ArcStates
    BY <1>0
  <2> QED
    BY <2>1, <2>2, HeldBackOfChanges
<1>8. CASE FollowRing(w)
  <2>1. arcs'[a] = IF a \in DOMAIN arcs THEN arcs[a] ELSE NewArc
    BY <1>0, <1>8, RingOfWorker DEF Types
  <2> QED
    BY <2>1 DEF NewArc
<1>9. CASE UNCHANGED arcs
  BY <1>9
<1> QED
  BY <1>2, <1>3, <1>4, <1>5, <1>6, <1>7, <1>8, <1>9
  DEF WorkerStep, ReadReachablePeers, ArcsAmong, FindNoOpenArc, ReadAdmissions, ScheduleAdmissions,
      ReadEarliestDue, Send, EndSleep, EndWait, SendEnds, walkVars

LEMMA WorkSchedulesAdmitted ==
  ASSUME Types, AdmittedInv, NEW w \in Workers, WorkerStep(w), NEW p \in WordPartitions
  PROVE  unsignalled' = unsignalled /\ admitted'[p] <= admitted[p]
<1>0. admitted[p] \in Int
  BY DEF Types, ScheduleTypes
<1>1. CASE ScheduleAdmissions(w)
  <2>1. /\ admitted'[p] = admitted[p] - worker[w].seen[p] /\ worker[w].stage = "scheduling"
        /\ unsignalled' = unsignalled
    BY <1>1 DEF ScheduleAdmissions, MarkScheduled, At
  <2>2. worker[w].seen[p] \in 0 .. admitted[p]
    BY <2>1 DEF AdmittedInv, At
  <2> QED
    BY <1>0, <2>1, <2>2
<1>2. CASE ~ScheduleAdmissions(w)
  <2>1. UNCHANGED <<admitted, unsignalled>>
    BY <1>2 DEF WorkerStep, ReadReachablePeers, ArcsAmong, FollowRing, PickOpenArc, FindNoOpenArc,
      ReadAdmissions, PutBack, ReadDueEntries, ReadEarliestDue, SettleReadEnd, Send,
      CompleteBatch, Abandon, EndSleep, EndWait, SendEnds, scheduleVars
  <2> QED
    BY <1>0, <2>1
<1> QED
  BY <1>1, <1>2

LEMMA HeldBackIsKept ==
  ASSUME Types, BatchesAreApart, DrainInv, ArcStatesInv, AdmittedInv, HeldBackInv, [Next]_vars
  PROVE  HeldBackInv'
<1>0. SignalsInv /\ ScheduleTypes /\ ArcTypes
  BY DEF DrainInv, Types
<1>1. ASSUME NEW w \in Workers, WorkerStep(w) PROVE HeldBackInv'
  <2> SUFFICES ASSUME NEW a \in DOMAIN arcs', arcs'[a].heldBack, NEW p \in PartitionsOf(a)
               PROVE  admitted'[p] <= unsignalled'[p]
    BY DEF HeldBackInv
  <2>0. p \in WordPartitions /\ admitted[p] \in Int /\ admitted'[p] \in Int
    /\ unsignalled[p] \in Int
    BY <1>0, <1>1, TypesAreKept DEF PartitionsOf, ScheduleTypes, Types
  <2>1. admitted[p] <= unsignalled[p]
    <3>1. CASE a \in DOMAIN arcs /\ arcs[a].heldBack
      BY <3>1 DEF HeldBackInv
    <3>2. CASE SettleReadEnd(w) /\ Owns(w, a) /\ arcs[a].signals = worker[w].signals
      <4>1. At(w, "settling") /\ InBatch(w) /\ ~worker[w].left /\ a = worker[w].arc
        BY <3>2 DEF SettleReadEnd, Owns, InBatch, At, BatchStages
      <4> QED
        BY <1>0, <3>2, <4>1 DEF SignalsInv, SignalsOf, ArcOf, At
    <3> QED
      BY <1>1, <3>1, <3>2, HeldBackOfWork
  <2>2. unsignalled' = unsignalled /\ admitted'[p] <= admitted[p]
    BY <1>1, <2>0, WorkSchedulesAdmitted
  <2> QED
    BY <2>0, <2>1, <2>2
<1>2. ASSUME NEW p \in WordPartitions, Admit(p) PROVE HeldBackInv'
  <2>1. arcs' = arcs
    BY <1>2 DEF Admit, walkVars
  <2>2. \A q \in WordPartitions :
          \/ admitted'[q] = admitted[q] /\ unsignalled'[q] = unsignalled[q]
          \/ admitted'[q] = admitted[q] + 1 /\ unsignalled'[q] = unsignalled[q] + 1
    BY <1>0, <1>2 DEF Admit, ScheduleTypes
  <2>3. \A q \in WordPartitions : admitted[q] \in Int /\ unsignalled[q] \in Int
    BY <1>0 DEF ScheduleTypes
  <2> QED
    BY <2>1, <2>2, <2>3 DEF HeldBackInv, PartitionsOf
<1>3. ASSUME NEW p \in WordPartitions, SignalAdmission(p) PROVE HeldBackInv'
  <2> DEFINE reopened(a) == [a EXCEPT !.signals = @ + 1, !.drainedUntil = 0, !.heldBack = FALSE]
  <2>1. /\ DOMAIN arcs' = DOMAIN arcs /\ admitted' = admitted
        /\ \A a \in DOMAIN arcs : arcs'[a] = IF Holds(a, p) THEN reopened(arcs[a]) ELSE arcs[a]
        /\ \A q \in WordPartitions \ {p} : unsignalled'[q] = unsignalled[q]
    BY <1>0, <1>3 DEF SignalAdmission, ScheduleTypes
  <2>2. \A a \in DOMAIN arcs : reopened(arcs[a]).heldBack = FALSE
    BY HeldBackOfChanges DEF ArcStatesInv
  <2> HIDE DEF reopened
  <2> QED
    BY <2>1, <2>2 DEF HeldBackInv, PartitionsOf
<1>4. CASE Restart
  BY <1>4 DEF Restart, HeldBackInv
<1>5. CASE (\E p \in MovingPeers : ChangeRoster(p)) \/ SignalReachablePeers \/ Tick
             \/ UNCHANGED vars
  BY <1>5 DEF ChangeRoster, SignalReachablePeers, Tick, vars, walkVars, scheduleVars, HeldBackInv
<1> QED
  BY <1>1, <1>2, <1>3, <1>4, <1>5 DEF Next

-----------------------------------------------------------------------------
(* Rounds of a worker *)

\* What a worker that waits holds.
LEMMA WaitingWorker ==
  ASSUME Types, NEW w \in Workers, NEW t, NEW missed, WaitsUntil(w, t, missed)
  PROVE  worker'[w].stage = "waiting" /\ worker'[w].alarm = t /\ worker'[w].missed = missed
<1> DEFINE r == [Empty EXCEPT !.stage = "waiting", !.alarm = t, !.missed = missed]
<1>1. worker'[w] = r
  BY DEF WaitsUntil, Types, WorkerTypes
<1>2. r.stage = "waiting" /\ r.alarm = t /\ r.missed = missed
  BY Fields
<1> HIDE DEF r
<1> QED
  BY <1>1, <1>2

\* The ring a worker is about to follow.
RingToFollow(w) == {p \in worker[w].peers : ~IsExcluded(p)}

\* Where a round goes from each step between two batches.
LEMMA RoundsOfSteps ==
  ASSUME Types, NEW w \in Workers
  PROVE  /\ ReadReachablePeers(w) =>
              IF HasEnoughPeers
                THEN worker'[w].stage = "ready" /\ worker'[w].peers = accepting
                ELSE worker'[w].stage = "waiting" /\ worker'[w].alarm = Forever
         /\ ArcsAmong(w) => worker'[w].stage = "following" /\ worker'[w].ring = RingToFollow(w)
         /\ FindNoOpenArc(w) =>
              /\ worker'[w].stage = "waiting"
              /\ worker'[w].missed \in SUBSET EndingPauses
              /\ worker'[w].alarm = Min(AlarmTimes(worker'[w].missed) \cup {Forever})
         /\ EndSleep(w) \/ EndWait(w) \/ CompleteBatch(w) => worker'[w].stage = "listening"
         /\ Abandon(w) => worker'[w].stage = "sleeping"
         /\ PutBack(w) \/ SettleReadEnd(w) \/ FollowRing(w) => worker'[w].stage = "picking"
<1>0. WorkerTypes /\ DOMAIN worker[w] = DOMAIN Empty
  BY DEF Types, WorkerTypes, IsWorker
<1>1. /\ [Empty EXCEPT !.stage = "picking", !.peers = worker[w].peers].stage = "picking"
      /\ [Empty EXCEPT !.stage = "listening"].stage = "listening"
      /\ [Empty EXCEPT !.stage = "sleeping"].stage = "sleeping"
      /\ [worker[w] EXCEPT !.stage = "picking", !.ring = {}].stage = "picking"
  BY <1>0, Fields
<1>2. ASSUME ReadReachablePeers(w)
      PROVE  IF HasEnoughPeers THEN worker'[w].stage = "ready" /\ worker'[w].peers = accepting
             ELSE worker'[w].stage = "waiting" /\ worker'[w].alarm = Forever
  <2>1. CASE ~HasEnoughPeers
    <3>1. WaitsUntil(w, Forever, {})
      BY <1>2, <2>1 DEF ReadReachablePeers
    <3> QED
      BY <2>1, <3>1, WaitingWorker
  <2>2. CASE HasEnoughPeers
    <3> DEFINE r == [worker[w] EXCEPT !.stage = "ready", !.peers = accepting]
    <3>1. worker'[w] = r
      BY <1>0, <1>2, <2>2 DEF ReadReachablePeers, WorkerTypes
    <3>2. r.stage = "ready" /\ r.peers = accepting
      BY <1>0, Fields
    <3> HIDE DEF r
    <3> QED
      BY <2>2, <3>1, <3>2
  <2> QED
    BY <2>1, <2>2
<1>3. ASSUME ArcsAmong(w)
      PROVE  worker'[w].stage = "following" /\ worker'[w].ring = RingToFollow(w)
  <2> DEFINE r == [worker[w] EXCEPT !.stage = "following", !.ring = RingToFollow(w)]
  <2>1. worker'[w] = r
    BY <1>0, <1>3 DEF ArcsAmong, WorkerTypes, RingToFollow
  <2>2. r.stage = "following" /\ r.ring = RingToFollow(w)
    BY <1>0, Fields
  <2> HIDE DEF r
  <2> QED
    BY <2>1, <2>2
<1>4. ASSUME FindNoOpenArc(w)
      PROVE  /\ worker'[w].stage = "waiting"
             /\ worker'[w].missed \in SUBSET EndingPauses
             /\ worker'[w].alarm = Min(AlarmTimes(worker'[w].missed) \cup {Forever})
  <2>1. PICK ended \in SUBSET EndingPauses :
          WaitsUntil(w, Min(AlarmTimes(ended) \cup {Forever}), ended)
    BY <1>4 DEF FindNoOpenArc
  <2> QED
    BY <2>1, WaitingWorker
<1>5. EndSleep(w) \/ EndWait(w) \/ CompleteBatch(w) => worker'[w].stage = "listening"
  BY <1>0, <1>1, RecordsBetweenBatches DEF Begins, Becomes
<1>6. Abandon(w) => worker'[w].stage = "sleeping"
  BY <1>0, <1>1, RecordsBetweenBatches DEF Begins, Becomes
<1>7. PutBack(w) \/ SettleReadEnd(w) => worker'[w].stage = "picking"
  BY <1>0, <1>1, RecordsBetweenBatches DEF GoesPicking, Becomes
<1>8. FollowRing(w) => worker'[w].stage = "picking"
  BY <1>0, <1>1, RingOfWorker
<1> QED
  BY <1>2, <1>3, <1>4, <1>5, <1>6, <1>7, <1>8

\* What brings a worker to follow the ring, and to wait.
LEMMA BeforeAWait ==
  ASSUME Types, NEW w \in Workers, WorkerStep(w)
  PROVE  /\ worker'[w].stage = "ready" => ReadReachablePeers(w) /\ worker'[w].peers = accepting
         /\ worker'[w].stage = "following" => ArcsAmong(w) /\ worker'[w].ring = RingToFollow(w)
         /\ worker'[w].stage = "waiting" =>
              \/ ReadReachablePeers(w) /\ ~HasEnoughPeers /\ worker'[w].alarm = Forever
              \/ /\ FindNoOpenArc(w) /\ worker'[w].missed \in SUBSET EndingPauses
                 /\ worker'[w].alarm = Min(AlarmTimes(worker'[w].missed) \cup {Forever})
<1>1. CASE ReadReachablePeers(w)
  BY <1>1, RoundsOfSteps
<1>2. CASE ArcsAmong(w)
  BY <1>2, RoundsOfSteps
<1>3. CASE FindNoOpenArc(w)
  BY <1>3, RoundsOfSteps
<1>4. CASE EndSleep(w) \/ EndWait(w) \/ CompleteBatch(w) \/ Abandon(w) \/ PutBack(w)
             \/ SettleReadEnd(w) \/ FollowRing(w)
  BY <1>4, RoundsOfSteps
<1>5. CASE PickOpenArc(w)
  <2>1. PICK a : Picks(w, a)
    BY <1>5, ArcsOfPick DEF Types
  <2>2. worker'[w].stage = "picked"
    BY <2>1, Fields DEF Picks, Becomes, Types, WorkerTypes, IsWorker
  <2> QED
    BY <2>2
<1>6. CASE ReadAdmissions(w) \/ ScheduleAdmissions(w) \/ ReadDueEntries(w) \/ ReadEarliestDue(w)
             \/ Send(w)
  BY <1>6, FieldsInBatch
<1>7. CASE \E p \in Peers : SendEnds(w, p)
  <2>1. worker'[w].stage = worker[w].stage
    BY <1>7, FieldsInBatch
  <2>2. worker[w].stage = "sending"
    BY <1>7 DEF SendEnds, At
  <2> QED
    BY <2>1, <2>2
<1> QED
  BY <1>1, <1>2, <1>3, <1>4, <1>5, <1>6, <1>7 DEF WorkerStep

LEMMA OthersKeepTheirRound ==
  ASSUME Types, NEW w \in Workers, WorkerStep(w), NEW v \in Workers \ {w}
  PROVE  /\ worker'[v].stage = worker[v].stage
         /\ worker'[v].peers = worker[v].peers /\ worker'[v].alarm = worker[v].alarm
         /\ ~InBatch(v) => worker'[v].ring = worker[v].ring
<1>0. WorkerTypes /\ ArcTypes /\ DOMAIN worker[v] = DOMAIN Empty
  BY DEF Types, WorkerTypes, IsWorker
<1>1. CASE FollowRing(w)
  <2>1. \/ InBatch(v) /\ worker'[v] = [worker[v] EXCEPT !.left = TRUE]
        \/ InBatch(v) /\ worker'[v] = [worker[v] EXCEPT !.ring = ring']
        \/ worker'[v] = worker[v]
    BY <1>0, <1>1, RingOfWorker
  <2> QED
    BY <1>0, <2>1, Fields
<1>2. CASE ~FollowRing(w)
  <2>1. WorksOn(w) \/ PickOpenArc(w)
    BY <1>2, OnlyRingAndPicksMoveBatches
  <2>2. worker'[v] = worker[v]
    BY <1>0, <2>1, ArcsOfPick DEF WorksOn, Picks, Becomes
  <2> QED
    BY <2>2
<1> QED
  BY <1>1, <1>2

-----------------------------------------------------------------------------
(* The walk is over the ring of the peers that can be sent to *)

\* A worker that may look at the roster again before it waits.
LooksAgain(w) ==
  wake[w] \/ worker[w].stage \in {"listening", "ready", "following", "offering", "sending",
                                  "sleeping"}

\* The peers are those that accept, but for what is still unnoticed.
AreAccepting(peers) == \A p \in Peers \ unnoticed : p \in peers <=> p \in accepting

\* Without news, a worker about to follow a ring follows the one there is.
RingInv ==
  ~rosterNews =>
    /\ \A w \in Workers : At(w, "ready") /\ ~wake[w] => AreAccepting(worker[w].peers)
    /\ \A w \in Workers : At(w, "following") /\ ~wake[w] => AreRecipients(worker[w].ring)
    /\ HasEnoughPeers => AreRecipients(ring) \/ \E w \in Workers : LooksAgain(w)

\* The same of the peers given, after a step.
AreAcceptingThen(peers) == \A p \in Peers \ unnoticed' : p \in peers <=> p \in accepting'
AreRecipientsThen(peers) ==
  \A p \in Peers \ unnoticed' :
    /\ p \in peers => p \in accepting' /\ ~(clock' < excludedUntil'[p])
    /\ p \in accepting' /\ excludedUntil'[p] = 0 => p \in peers

LEMMA RingThen ==
  ASSUME ~rosterNews' =>
           /\ \A w \in Workers : worker'[w].stage = "ready" /\ ~wake'[w]
                                   => AreAcceptingThen(worker'[w].peers)
           /\ \A w \in Workers : worker'[w].stage = "following" /\ ~wake'[w]
                                   => AreRecipientsThen(worker'[w].ring)
           /\ HasEnoughPeers' => AreRecipientsThen(ring') \/ \E w \in Workers : LooksAgain(w)'
  PROVE  RingInv'
BY DEF RingInv, At, AreAccepting, AreRecipients, AreAcceptingThen, AreRecipientsThen, IsExcluded

\* Nobody is woken, and what changes of a peer is unnoticed then.
Quietly ==
  /\ unnoticed \subseteq unnoticed' /\ clock' >= clock
  /\ \A p \in Peers \ unnoticed' :
       (p \in accepting' <=> p \in accepting) /\ excludedUntil'[p] = excludedUntil[p]

LEMMA QuietlyTheSame ==
  ASSUME PeersInv, FlagsInv, FlagsInv', Quietly, NEW peers
  PROVE  /\ AreAccepting(peers) => AreAcceptingThen(peers)
         /\ AreRecipients(peers) => AreRecipientsThen(peers)
<1>1. clock \in Int /\ clock' \in Int
  BY DEF FlagsInv
<1>2. \A p \in Peers : excludedUntil[p] \in Int
  BY WalkAssumption DEF PeersInv
<1>3. AreAccepting(peers) => AreAcceptingThen(peers)
  BY DEF Quietly, AreAccepting, AreAcceptingThen
<1>4. ASSUME AreRecipients(peers) PROVE AreRecipientsThen(peers)
  <2> SUFFICES ASSUME NEW p \in Peers \ unnoticed'
               PROVE  /\ p \in peers => p \in accepting' /\ ~(clock' < excludedUntil'[p])
                      /\ p \in accepting' /\ excludedUntil'[p] = 0 => p \in peers
    BY DEF AreRecipientsThen
  <2>1. /\ p \in Peers \ unnoticed /\ clock' >= clock
        /\ (p \in accepting' <=> p \in accepting) /\ excludedUntil'[p] = excludedUntil[p]
    BY DEF Quietly
  <2>2. /\ p \in peers => p \in accepting /\ ~(clock < excludedUntil[p])
        /\ p \in accepting /\ excludedUntil[p] = 0 => p \in peers
    BY <1>4, <2>1 DEF AreRecipients, IsExcluded
  <2> QED
    BY <1>1, <1>2, <2>1, <2>2
<1> QED
  BY <1>3, <1>4

LEMMA WorkIsQuiet ==
  ASSUME FlagsInv, PeersInv, NEW w \in Workers, WorkerStep(w)
  PROVE  SettleReadEnd(w) \/ CompleteBatch(w) \/ Quietly
<1>0. clock \in Int
  BY DEF FlagsInv
<1>1. CASE ~(SettleReadEnd(w) \/ CompleteBatch(w) \/ \E p \in Peers : SendEnds(w, p))
  <2>1. UNCHANGED unnoticed
    BY <1>1
    DEF WorkerStep, ReadReachablePeers, ArcsAmong, FollowRing, PickOpenArc, FindNoOpenArc,
        ReadAdmissions, ScheduleAdmissions, PutBack, ReadDueEntries, ReadEarliestDue, Send,
        Abandon, EndSleep, EndWait, BeginsRound, wakeVars
  <2>2. UNCHANGED <<clock, accepting, excludedUntil>>
    BY <1>1, PeersOfSteps DEF rosterVars
  <2> QED
    BY <1>0, <2>1, <2>2 DEF Quietly
<1>2. ASSUME NEW p \in Peers, SendEnds(w, p) PROVE Quietly
  <2>1. UNCHANGED <<clock, accepting>>
    BY <1>2 DEF SendEnds, rosterVars
  <2>2. /\ unnoticed \subseteq unnoticed'
        /\ \A q \in Peers \ {p} : excludedUntil'[q] = excludedUntil[q]
        /\ p \in unnoticed' \/ excludedUntil'[p] = excludedUntil[p]
    <3>1. CASE OfferAccepted(p)
      BY <3>1 DEF OfferAccepted, PeersInv
    <3>2. CASE RecordUnacceptedOffer(p)
      BY <3>2 DEF RecordUnacceptedOffer, PeersInv
    <3> QED
      BY <1>2, <3>1, <3>2 DEF SendEnds
  <2> QED
    BY <1>0, <2>1, <2>2 DEF Quietly
<1> QED
  BY <1>1, <1>2

\* A signal reaches who may wait without having looked again.
LEMMA WakesReach ==
  ASSUME WakeWorkers, NEW v \in Workers
  PROVE  /\ LooksAgain(v) => LooksAgain(v)' \/ worker'[v].stage # worker[v].stage
         /\ worker'[v].stage = worker[v].stage => LooksAgain(v)'
         /\ At(v, "ready") \/ At(v, "following") \/ At(v, "waiting") \/ At(v, "settling")
              => wake'[v]
<1>1. wake'[v] = (v \in Listening)
  BY Zenon DEF WakeWorkers
<1>2. worker[v].stage \notin {"offering", "sending", "sleeping"} => wake'[v]
  BY <1>1 DEF Listening
<1> QED
  BY <1>2 DEF LooksAgain, At

LEMMA WakesOfOthers ==
  ASSUME NEW w \in Workers, WorkerStep(w), NEW v \in Workers \ {w}
  PROVE  WakeWorkers \/ wake'[v] = wake[v]
<1>1. CASE EndSleep(w) \/ EndWait(w)
  <2>1. wake' = [wake EXCEPT ![w] = FALSE]
    BY <1>1 DEF EndSleep, EndWait, BeginsRound
  <2> QED
    BY <2>1
<1>2. CASE SettleReadEnd(w) \/ CompleteBatch(w)
  BY <1>2 DEF SettleReadEnd, CompleteBatch
<1>3. CASE ~(EndSleep(w) \/ EndWait(w) \/ SettleReadEnd(w) \/ CompleteBatch(w))
  <2>1. UNCHANGED wake
    BY <1>3
    DEF wakeVars, WorkerStep, ReadReachablePeers, ArcsAmong, FollowRing, PickOpenArc,
        FindNoOpenArc, ReadAdmissions, ScheduleAdmissions, PutBack, ReadDueEntries,
        ReadEarliestDue, Send, Abandon, SendEnds
  <2> QED
    BY <2>1
<1> QED
  BY <1>1, <1>2, <1>3

\* A worker that looks again does so until it follows the ring.
LEMMA WorkerLooksOn ==
  ASSUME Types, RingInv, ~rosterNews, HasEnoughPeers, NEW w \in Workers, WorkerStep(w),
         LooksAgain(w)
  PROVE  LooksAgain(w)' \/ (FollowRing(w) /\ AreRecipients(worker[w].ring))
<1>1. CASE EndSleep(w) \/ EndWait(w) \/ CompleteBatch(w) \/ Abandon(w)
  BY <1>1, RoundsOfSteps DEF LooksAgain
<1>2. CASE SettleReadEnd(w)
  <2>1. wake'[w]
    BY <1>2, WakesReach DEF SettleReadEnd
  <2> QED
    BY <2>1 DEF LooksAgain
<1>3. CASE FollowRing(w)
  <2>1. At(w, "following") /\ wake' = wake
    BY <1>3 DEF FollowRing, wakeVars
  <2>2. CASE wake[w]
    BY <2>1, <2>2 DEF LooksAgain
  <2>3. CASE ~wake[w]
    BY <1>3, <2>1, <2>3 DEF RingInv
  <2> QED
    BY <2>2, <2>3
<1>4. CASE ReadReachablePeers(w) \/ ArcsAmong(w)
  <2>1. worker'[w].stage \in {"ready", "following"}
    BY <1>4, RoundsOfSteps
  <2> QED
    BY <2>1 DEF LooksAgain
<1>5. CASE Send(w)
  <2>1. worker'[w].stage = "sending"
    BY <1>5, FieldsInBatch
  <2> QED
    BY <2>1 DEF LooksAgain
<1>6. CASE \E p \in Peers : SendEnds(w, p)
  <2>1. worker'[w].stage = worker[w].stage /\ At(w, "sending")
    BY <1>6, FieldsInBatch DEF SendEnds
  <2> QED
    BY <2>1 DEF LooksAgain, At
<1>7. CASE PickOpenArc(w) \/ FindNoOpenArc(w) \/ ReadAdmissions(w) \/ ScheduleAdmissions(w)
             \/ PutBack(w) \/ ReadDueEntries(w) \/ ReadEarliestDue(w)
  <2>1. worker[w].stage \in {"picking", "picked", "scheduling", "searching", "ended"}
        /\ wake' = wake
    BY <1>7 DEF PickOpenArc, FindNoOpenArc, ReadAdmissions, ScheduleAdmissions, PutBack,
      ReadDueEntries, ReadEarliestDue, At, wakeVars
  <2> QED
    BY <2>1 DEF LooksAgain
<1> QED
  BY <1>1, <1>2, <1>3, <1>4, <1>5, <1>6, <1>7 DEF WorkerStep

LEMMA WorkKeepsRingReady ==
  ASSUME Types, FlagsInv, FlagsInv', PeersInv, RingInv, ~rosterNews, NEW w \in Workers,
         WorkerStep(w), NEW v \in Workers, ~wake'[v]
  PROVE  /\ worker'[v].stage = "ready" => AreAcceptingThen(worker'[v].peers)
         /\ worker'[v].stage = "following" => AreRecipientsThen(worker'[v].ring)
<1>1. ASSUME v = w, worker'[v].stage = "ready" PROVE AreAcceptingThen(worker'[v].peers)
  <2>1. ReadReachablePeers(w) /\ worker'[v].peers = accepting
    BY <1>1, BeforeAWait
  <2>2. accepting' = accepting
    BY <2>1 DEF ReadReachablePeers, peerVars, rosterVars
  <2> QED
    BY <2>1, <2>2 DEF AreAcceptingThen
<1>2. ASSUME v = w, worker'[v].stage = "following" PROVE AreRecipientsThen(worker'[v].ring)
  <2>1. ArcsAmong(w) /\ worker'[v].ring = RingToFollow(w)
    BY <1>2, BeforeAWait
  <2>2. UNCHANGED <<clock, accepting, excludedUntil, unnoticed, wake>> /\ At(w, "ready")
    BY <2>1 DEF ArcsAmong, peerVars, rosterVars, eligibilityVars, wakeVars
  <2>3. AreAccepting(worker[w].peers)
    BY <1>2, <2>2 DEF RingInv
  <2>4. ~(clock < 0)
    BY DEF FlagsInv
  <2> QED
    BY <2>1, <2>2, <2>3, <2>4 DEF AreAccepting, AreRecipientsThen, RingToFollow, IsExcluded
<1>3. ASSUME v # w, worker'[v].stage \in {"ready", "following"}
      PROVE  /\ At(v, worker'[v].stage) /\ Quietly /\ ~wake[v]
             /\ worker'[v].peers = worker[v].peers /\ worker'[v].ring = worker[v].ring
  <2>1. worker'[v].stage = worker[v].stage /\ worker'[v].peers = worker[v].peers
    BY <1>3, OthersKeepTheirRound
  <2>2. At(v, worker'[v].stage) /\ ~InBatch(v)
    BY <1>3, <2>1 DEF At, InBatch, BatchStages
  <2>3. worker'[v].ring = worker[v].ring
    BY <1>3, <2>2, OthersKeepTheirRound
  <2>4. ~WakeWorkers /\ ~SettleReadEnd(w) /\ ~CompleteBatch(w)
    BY <1>3, <2>2, WakesReach DEF SettleReadEnd, CompleteBatch
  <2> QED
    BY <1>3, <2>1, <2>2, <2>3, <2>4, WakesOfOthers, WorkIsQuiet
<1>4. ASSUME v # w, worker'[v].stage = "ready" PROVE AreAcceptingThen(worker'[v].peers)
  <2>1. AreAccepting(worker[v].peers)
    BY <1>3, <1>4 DEF RingInv
  <2> QED
    BY <1>3, <1>4, <2>1, QuietlyTheSame
<1>5. ASSUME v # w, worker'[v].stage = "following" PROVE AreRecipientsThen(worker'[v].ring)
  <2>1. AreRecipients(worker[v].ring)
    BY <1>3, <1>5 DEF RingInv
  <2> QED
    BY <1>3, <1>5, <2>1, QuietlyTheSame
<1> QED
  BY <1>1, <1>2, <1>4, <1>5

LEMMA WorkKeepsRing ==
  ASSUME Types, FlagsInv, FlagsInv', PeersInv, RingInv, NEW w \in Workers, WorkerStep(w)
  PROVE  RingInv'
<1>1. UNCHANGED <<rosterNews, reachable>>
  BY DEF WorkerStep, ReadReachablePeers, ArcsAmong, FollowRing, PickOpenArc, FindNoOpenArc,
    ReadAdmissions, ScheduleAdmissions, PutBack, ReadDueEntries, ReadEarliestDue,
    SettleReadEnd, Send, CompleteBatch, Abandon, EndSleep, EndWait, SendEnds, peerVars,
    rosterVars
<1>2. ASSUME ~rosterNews, HasEnoughPeers
      PROVE  AreRecipientsThen(ring') \/ \E v \in Workers : LooksAgain(v)'
  <2>1. ASSUME NEW v \in Workers, LooksAgain(v), v # w PROVE LooksAgain(v)'
    <3>1. worker'[v].stage = worker[v].stage
      BY <2>1, OthersKeepTheirRound
    <3>2. WakeWorkers \/ wake'[v] = wake[v]
      BY <2>1, WakesOfOthers
    <3> QED
      BY <2>1, <3>1, <3>2, WakesReach DEF LooksAgain
  <2>2. CASE FollowRing(w)
    <3>1. /\ ring' = worker[w].ring /\ At(w, "following")
          /\ UNCHANGED <<clock, accepting, excludedUntil, unnoticed, wake>>
      BY <2>2 DEF FollowRing, peerVars, rosterVars, eligibilityVars, wakeVars
    <3>2. CASE wake[w]
      BY <3>1, <3>2 DEF LooksAgain
    <3>3. CASE ~wake[w]
      <4>1. AreRecipients(worker[w].ring)
        BY <1>2, <3>1, <3>3 DEF RingInv
      <4> QED
        BY <3>1, <4>1 DEF AreRecipients, AreRecipientsThen, IsExcluded
    <3> QED
      BY <3>2, <3>3
  <2>3. CASE ~FollowRing(w)
    <3>1. ring' = ring
      BY <2>3 DEF WorkerStep, ReadReachablePeers, ArcsAmong, PickOpenArc, FindNoOpenArc,
        ReadAdmissions, ScheduleAdmissions, PutBack, ReadDueEntries, ReadEarliestDue,
        SettleReadEnd, Send, CompleteBatch, Abandon, EndSleep, EndWait, SendEnds, walkVars
    <3>2. ASSUME NEW v \in Workers, LooksAgain(v) PROVE LooksAgain(v)'
      BY <1>2, <2>1, <2>3, <3>2, WorkerLooksOn
    <3>3. CASE AreRecipients(ring) /\ Quietly
      BY <3>1, <3>3, QuietlyTheSame
    <3>4. CASE SettleReadEnd(w)
      BY <3>4, WakesReach DEF SettleReadEnd, LooksAgain
    <3>5. CASE CompleteBatch(w)
      BY <3>5, RoundsOfSteps DEF LooksAgain
    <3>6. AreRecipients(ring) \/ \E v \in Workers : LooksAgain(v)
      BY <1>2 DEF RingInv
    <3> QED
      BY <3>2, <3>3, <3>4, <3>5, <3>6, WorkIsQuiet
  <2> QED
    BY <2>2, <2>3
<1> QED
  BY <1>1, <1>2, WorkKeepsRingReady, RingThen DEF HasEnoughPeers

\* Beside the workers, whoever changes a peer tells them of it or leaves it unnoticed.
LEMMA OutsideKeepsRing ==
  ASSUME PeersInv, FlagsInv, FlagsInv', RingInv, Quietly,
         UNCHANGED <<worker, ring, wake, rosterNews>>, HasEnoughPeers' => HasEnoughPeers
  PROVE  RingInv'
<1>1. \A w \in Workers : LooksAgain(w) => LooksAgain(w)'
  BY DEF LooksAgain
<1> SUFFICES ASSUME ~rosterNews'
             PROVE  /\ \A w \in Workers : worker'[w].stage = "ready" /\ ~wake'[w]
                                            => AreAcceptingThen(worker'[w].peers)
                    /\ \A w \in Workers : worker'[w].stage = "following" /\ ~wake'[w]
                                            => AreRecipientsThen(worker'[w].ring)
                    /\ HasEnoughPeers'
                         => AreRecipientsThen(ring') \/ \E w \in Workers : LooksAgain(w)'
  BY RingThen
<1>2. \A w \in Workers : worker'[w].stage = "ready" /\ ~wake'[w]
                            => AreAcceptingThen(worker'[w].peers)
  BY QuietlyTheSame DEF RingInv, At
<1>3. \A w \in Workers : worker'[w].stage = "following" /\ ~wake'[w]
                            => AreRecipientsThen(worker'[w].ring)
  BY QuietlyTheSame DEF RingInv, At
<1>4. HasEnoughPeers' => AreRecipientsThen(ring') \/ \E w \in Workers : LooksAgain(w)'
  BY <1>1, QuietlyTheSame DEF RingInv
<1> QED
  BY <1>2, <1>3, <1>4

LEMMA WokenKeepRing ==
  ASSUME WakeWorkers, UNCHANGED worker
  PROVE  RingInv'
<1>1. \A w \in Workers : /\ LooksAgain(w)'
                         /\ At(w, "ready") \/ At(w, "following") => wake'[w]
  BY WakesReach
<1>2. \E w \in Workers : LooksAgain(w)'
  BY <1>1, WalkAssumption
<1> QED
  BY <1>1, <1>2, RingThen DEF At

\* Fewer peers are enough only if more were.
LEMMA EvictedIsFewer ==
  ASSUME PeersInv, NEW p \in Peers, EvictMoved(p), HasEnoughPeers'
  PROVE  HasEnoughPeers
<1>1. IsFiniteSet(reachable) /\ p \in reachable /\ reachable' = reachable \ {p}
  BY WalkAssumption, FS_Subset DEF PeersInv, EvictMoved
<1>2. Cardinality(reachable') = Cardinality(reachable) - 1 /\ Cardinality(reachable) \in Nat
  BY <1>1, FS_RemoveElement, FS_CardinalityType
<1> QED
  BY <1>2, WalkAssumption DEF HasEnoughPeers

LEMMA RingIsKept ==
  ASSUME Types, FlagsInv, FlagsInv', PeersInv, RingInv, [Next]_vars
  PROVE  RingInv'
<1>0. clock \in Int
  BY DEF FlagsInv
<1>1. ASSUME NEW w \in Workers, WorkerStep(w) PROVE RingInv'
  BY <1>1, WorkKeepsRing
<1>2. ASSUME NEW p \in WordPartitions, Admit(p) PROVE RingInv'
  <2>1. Quietly /\ UNCHANGED <<worker, ring, wake, rosterNews, reachable>>
    BY <1>0, <1>2 DEF Admit, peerVars, rosterVars, eligibilityVars, walkVars, wakeVars, Quietly
  <2> QED
    BY <2>1, OutsideKeepsRing DEF HasEnoughPeers
<1>3. ASSUME NEW p \in WordPartitions, SignalAdmission(p) PROVE RingInv'
  <2>1. /\ UNCHANGED <<clock, accepting, excludedUntil, worker, ring, rosterNews, reachable>>
        /\ WakeWorkers \/ UNCHANGED wakeVars
    BY <1>3 DEF SignalAdmission, peerVars, rosterVars, eligibilityVars
  <2>2. CASE UNCHANGED wakeVars
    <3>1. Quietly /\ UNCHANGED wake
      BY <1>0, <2>1, <2>2 DEF wakeVars, Quietly
    <3> QED
      BY <2>1, <3>1, OutsideKeepsRing DEF HasEnoughPeers
  <2> QED
    BY <2>1, <2>2, WokenKeepRing
<1>4. CASE SignalReachablePeers
  BY <1>4, WokenKeepRing DEF SignalReachablePeers
<1>5. ASSUME NEW p \in MovingPeers, ChangeRoster(p) PROVE RingInv'
  <2>1. /\ p \in Peers /\ UNCHANGED <<clock, excludedUntil, worker, ring, wake>>
    BY <1>5, WalkAssumption DEF ChangeRoster, eligibilityVars, walkVars
  <2>2. CASE ConfirmReachable(p) \/ ConfirmUnreachable(p)
    BY <2>2 DEF ConfirmReachable, ConfirmUnreachable, RingInv
  <2>3. CASE EvictMoved(p) \/ KeepGossipSeed(p)
    <3>1. Quietly /\ UNCHANGED rosterNews
      BY <1>0, <2>1, <2>3 DEF EvictMoved, KeepGossipSeed, Quietly
    <3>2. HasEnoughPeers' => HasEnoughPeers
      BY <2>1, <2>3, EvictedIsFewer DEF KeepGossipSeed, HasEnoughPeers
    <3> QED
      BY <2>1, <3>1, <3>2, OutsideKeepsRing
  <2> QED
    BY <1>5, <2>2, <2>3 DEF ChangeRoster
<1>6. CASE Restart
  <2>1. \A v \in Workers : worker'[v].stage = "listening"
    BY <1>6, EmptyIsTyped DEF Restart
  <2>2. \E v \in Workers : LooksAgain(v)'
    BY <2>1, WalkAssumption DEF LooksAgain
  <2> QED
    BY <2>1, <2>2, RingThen
<1>7. CASE Tick \/ UNCHANGED vars
  <2>1. Quietly /\ UNCHANGED <<worker, ring, wake, rosterNews, reachable>>
    BY <1>0, <1>7
    DEF Tick, vars, peerVars, rosterVars, eligibilityVars, walkVars, wakeVars, Quietly
  <2> QED
    BY <2>1, OutsideKeepsRing DEF HasEnoughPeers
<1> QED
  BY <1>1, <1>2, <1>3, <1>4, <1>5, <1>6, <1>7 DEF Next

-----------------------------------------------------------------------------
(* Every position is in an arc *)

LEMMA RingIsCovered ==
  ASSUME NEW peers \in SUBSET Peers, peers # {}, NEW position \in Positions
  PROVE  \E a \in ArcsOf(peers) : Holds(a, position)
<1> DEFINE Away(p) == IF PeerAt[p] = position THEN 0 ELSE Clockwise(position, PeerAt[p])
           Aways == {Away(p) : p \in peers}
<1>1. \A p \in peers : PeerAt[p] \in Positions /\ Away(p) \in Nat
  <2> TAKE p \in peers
  <2>1. PeerAt[p] \in Positions
    BY RingIsThere
  <2>2. Clockwise(position, PeerAt[p]) \in 1 .. RingSize
    BY <2>1, ClockwiseType
  <2> QED
    BY <2>1, <2>2, RingIsThere
<1>2. Aways \in SUBSET Nat /\ Aways # {}
  BY <1>1
<1>3. PICK p \in peers : \A q \in peers : Away(p) <= Away(q)
  <2>1. Min(Aways) \in Aways /\ \A m \in Aways : Min(Aways) <= m
    BY <1>2, LeastOfNumbers
  <2> HIDE DEF Away
  <2>2. PICK p \in peers : Away(p) = Min(Aways)
    BY <2>1
  <2> QED
    BY <2>1, <2>2
<1> DEFINE q == Predecessor(peers, p)
<1>4. q \in peers
  BY PredecessorIsClosest
<1>5. PeerAt[p] \in Positions /\ PeerAt[q] \in Positions /\ Away(p) <= Away(q)
  BY <1>1, <1>3, <1>4
<1>6. Clockwise(PeerAt[q], position) <= Clockwise(PeerAt[q], PeerAt[p])
  <2>1. ASSUME NEW a \in Positions, NEW b \in Positions, NEW c \in Positions,
               (IF b = c THEN 0 ELSE Clockwise(c, b)) <= (IF a = c THEN 0 ELSE Clockwise(c, a))
        PROVE  Clockwise(a, c) <= Clockwise(a, b)
    BY <2>1, RingIsThere DEF Clockwise
  <2> HIDE DEF q
  <2> QED
    BY <1>5, <2>1
<1>7. [after |-> PeerAt[q], through |-> PeerAt[p]] \in ArcsOf(peers)
  BY ArcsOfPeers
<1> QED
  BY <1>6, <1>7 DEF Holds

-----------------------------------------------------------------------------
(* What is watched while everybody sleeps *)

EverybodySleeps == \A w \in Workers : IsAsleep(w)

IsWatched(a) ==
  \/ IsPauseWatched(a) \/ IsPauseMissed(a)
  \/ /\ IsDrained(a)
     /\ \/ arcs[a].drainedUntil = Forever
        \/ \E w \in Workers : worker[w].alarm <= arcs[a].drainedUntil

SleepInv ==
  /\ \A w \in Workers : At(w, "waiting") => worker[w].alarm \in Nat
  /\ EverybodySleeps /\ HasEnoughPeers /\ ~rosterNews =>
       \A a \in DOMAIN arcs : arcs[a].heldBack \/ IsWatched(a)

\* When nobody works, an arc that is neither held back nor drained is closed by a pause.
LEMMA ClosedByPauses ==
  ASSUME OwnersInv, SendsInv, \A w \in Workers : ~InBatch(w),
         NEW a \in DOMAIN arcs, ~IsOpen(a), ring \in SUBSET Peers
  PROVE  /\ ~arcs[a].inBatch
         /\ arcs[a].heldBack \/ IsDrained(a) \/ ~IsFree(WindowOf(a, ring))
         /\ \A q \in WindowOf(a, ring) : q \in Peers /\ ~IsBusy(q)
<1>1. ~arcs[a].inBatch
  BY DEF OwnersInv
<1>2. LeftArcs = {}
  BY DEF LeftArcs
<1>3. \A q \in WindowOf(a, ring) : q \in Peers /\ ~IsBusy(q)
  <2> TAKE q \in WindowOf(a, ring)
  <2>1. q \in Peers
    BY DEF WindowOf
  <2>2. Senders(q) = {}
    BY DEF Senders, InBatch, At, BatchStages
  <2>3. sends[q] = 0
    BY <2>1, <2>2, FS_EmptySet DEF SendsInv
  <2> QED
    BY <2>1, <2>3, WalkAssumption DEF IsBusy
<1> QED
  BY <1>1, <1>2, <1>3 DEF IsOpen

LEMMA AlarmsAreLeast ==
  ASSUME ArcStatesInv, FlagsInv, ring \in SUBSET Peers, NEW ended
  PROVE  /\ Min(AlarmTimes(ended) \cup {Forever}) \in Nat
         /\ \A t \in AlarmTimes(ended) : Min(AlarmTimes(ended) \cup {Forever}) <= t
<1>1. \A a \in DOMAIN arcs : arcs[a].drainedUntil \in Nat
  BY NumbersOfTheWalk DEF ArcStatesInv, ArcStates, Times
<1>2. \A a \in DOMAIN arcs : \A q \in WindowOf(a, ring) : pausedUntil[q] \in Nat
  BY NumbersOfTheWalk DEF FlagsInv, WindowOf
<1>3. AlarmTimes(ended) \cup {Forever} \in SUBSET Nat
  BY <1>1, <1>2, NumbersOfTheWalk DEF AlarmTimes
<1> QED
  BY <1>3, LeastOfNumbers

\* The last worker that finds nothing to do has the alarms of all arcs, but for pauses that
\* ended while it looked.
LEMMA LastOneWatches ==
  ASSUME Types, OwnersInv, SendsInv, ArcStatesInv, FlagsInv, NEW w \in Workers, FindNoOpenArc(w),
         \A v \in Workers \ {w} : At(v, "waiting"),
         NEW a \in DOMAIN arcs, ~arcs[a].heldBack,
         NEW ended, NEW alarm, alarm = Min(AlarmTimes(ended) \cup {Forever})
  PROVE  \/ \E q \in WindowOf(a, ring) : q \in ended
         \/ \E q \in WindowOf(a, ring) : IsPaused(q) /\ alarm <= pausedUntil[q]
         \/ IsDrained(a) /\ (arcs[a].drainedUntil = Forever \/ alarm <= arcs[a].drainedUntil)
<1>0. ring \in SUBSET Peers /\ arcs[a].drainedUntil \in 0 .. Forever /\ clock \in 1 .. MaxClock
  BY DEF Types, ArcTypes, ArcStatesInv, ArcStates, Times, FlagsInv
<1>1. \A v \in Workers : ~InBatch(v)
  BY DEF InBatch, BatchStages, At, FindNoOpenArc
<1>2. ~IsOpen(a)
  BY DEF FindNoOpenArc
<1>3. /\ ~arcs[a].inBatch /\ (IsDrained(a) \/ ~IsFree(WindowOf(a, ring)))
      /\ \A q \in WindowOf(a, ring) : q \in Peers /\ ~IsBusy(q)
  BY <1>0, <1>1, <1>2, ClosedByPauses
<1>4. \A t \in AlarmTimes(ended) : alarm <= t
  BY <1>0, AlarmsAreLeast
<1>5. CASE arcs[a].drainedUntil = Forever
  BY <1>0, <1>5, NumbersOfTheWalk DEF IsDrained
<1>6. ASSUME arcs[a].drainedUntil # Forever, NEW q \in WindowOf(a, ring), IsPaused(q),
             q \notin ended
      PROVE  alarm <= pausedUntil[q]
  <2>1. arcs[a].drainedUntil < Forever
    BY <1>0, <1>6, NumbersOfTheWalk
  <2>2. pausedUntil[q] \in AlarmTimes(ended)
    BY <1>3, <1>6, <2>1 DEF AlarmTimes
  <2> QED
    BY <1>4, <2>2
<1>7. CASE arcs[a].drainedUntil # Forever /\ IsFree(WindowOf(a, ring))
  <2>1. arcs[a].drainedUntil < Forever /\ IsDrained(a)
    BY <1>0, <1>3, <1>7, NumbersOfTheWalk
  <2>2. \A q \in WindowOf(a, ring) : ~IsPaused(q)
    BY <1>7 DEF IsFree
  <2>3. arcs[a].drainedUntil \in AlarmTimes(ended)
    BY <1>3, <2>1, <2>2 DEF AlarmTimes
  <2> QED
    BY <1>4, <2>1, <2>3
<1>8. CASE arcs[a].drainedUntil # Forever /\ ~IsFree(WindowOf(a, ring))
  <2>1. PICK q \in WindowOf(a, ring) : IsPaused(q)
    BY <1>3, <1>8 DEF IsFree
  <2> QED
    BY <1>6, <1>8, <2>1
<1> QED
  BY <1>5, <1>7, <1>8

LEMMA WorkKeepsSleep ==
  ASSUME Types, OwnersInv, SendsInv, ArcStatesInv, FlagsInv, SleepInv, NEW w \in Workers,
         WorkerStep(w)
  PROVE  SleepInv'
<1>0. ring \in SUBSET Peers
  BY DEF Types, ArcTypes
<1>1. ASSUME NEW v \in Workers, worker'[v].stage = "waiting" PROVE worker'[v].alarm \in Nat
  <2>1. CASE v = w
    BY <1>0, <1>1, <2>1, BeforeAWait, AlarmsAreLeast, NumbersOfTheWalk
  <2>2. CASE v # w
    BY <1>1, <2>2, OthersKeepTheirRound DEF SleepInv, At
  <2> QED
    BY <2>1, <2>2
<1>2. ASSUME EverybodySleeps', HasEnoughPeers', NEW a \in DOMAIN arcs', ~arcs'[a].heldBack
      PROVE  IsWatched(a)'
  <2>1. UNCHANGED reachable
    BY DEF WorkerStep, ReadReachablePeers, ArcsAmong, FollowRing, PickOpenArc, FindNoOpenArc,
      ReadAdmissions, ScheduleAdmissions, PutBack, ReadDueEntries, ReadEarliestDue,
      SettleReadEnd, Send, CompleteBatch, Abandon, EndSleep, EndWait, SendEnds, peerVars,
      rosterVars
  <2>2. \A v \in Workers : worker'[v].stage = "waiting"
    BY <1>2 DEF EverybodySleeps, IsAsleep, At
  <2>3. HasEnoughPeers
    BY <1>2, <2>1 DEF HasEnoughPeers
  <2> DEFINE alarm == worker'[w].alarm
             ended == worker'[w].missed
  <2>4. FindNoOpenArc(w) /\ alarm = Min(AlarmTimes(ended) \cup {Forever})
    BY <2>2, <2>3, BeforeAWait
  <2>5. \A v \in Workers \ {w} : At(v, "waiting")
    BY <2>2, OthersKeepTheirRound DEF At
  <2>6. UNCHANGED <<clock, pausedUntil, ring, arcs>>
    BY <2>4 DEF FindNoOpenArc, peerVars, rosterVars, eligibilityVars, walkVars
  <2>7. a \in DOMAIN arcs /\ ~arcs[a].heldBack
    BY <1>2, <2>6
  <2>8. \/ \E q \in WindowOf(a, ring) : q \in ended
        \/ \E q \in WindowOf(a, ring) : IsPaused(q) /\ alarm <= pausedUntil[q]
        \/ IsDrained(a) /\ (arcs[a].drainedUntil = Forever \/ alarm <= arcs[a].drainedUntil)
    BY <2>4, <2>5, <2>7, LastOneWatches
  <2>9. CASE \E q \in WindowOf(a, ring) : q \in ended
    BY <2>6, <2>9 DEF IsWatched, IsPauseMissed
  <2> QED
    BY <2>6, <2>8, <2>9 DEF IsWatched, IsPauseWatched, IsPaused, IsDrained
<1> QED
  BY <1>1, <1>2 DEF SleepInv, At

\* A signal ends the drain of an arc, or the sleep.
LEMMA SignalKeepsSleep ==
  ASSUME Types, SleepInv, NEW p \in WordPartitions, SignalAdmission(p)
  PROVE  SleepInv'
<1> DEFINE holding == {a \in DOMAIN arcs : Holds(a, p)}
           reopened(a) == [a EXCEPT !.signals = @ + 1, !.drainedUntil = 0, !.heldBack = FALSE]
<1>1. /\ UNCHANGED <<clock, reachable, rosterNews, pausedUntil, ring, worker>>
      /\ arcs' = [a \in DOMAIN arcs |-> IF a \in holding THEN reopened(arcs[a]) ELSE arcs[a]]
      /\ IF MustWake(holding) THEN WakeWorkers ELSE UNCHANGED wake
  BY DEF SignalAdmission, peerVars, rosterVars, eligibilityVars, wakeVars
<1>2. ASSUME EverybodySleeps', HasEnoughPeers', ~rosterNews', NEW a \in DOMAIN arcs',
             ~arcs'[a].heldBack
      PROVE  IsWatched(a)'
  <2>1. \A v \in Workers : At(v, "waiting") /\ ~wake'[v]
    BY <1>1, <1>2 DEF EverybodySleeps, IsAsleep, At
  <2>2. ~WakeWorkers
    BY <2>1, WakesReach, WalkAssumption
  <2>3. ~MustWake(holding) /\ UNCHANGED wake
    BY <1>1, <2>2
  <2>4. EverybodySleeps /\ HasEnoughPeers /\ ~rosterNews
    BY <1>1, <1>2, <2>3 DEF EverybodySleeps, IsAsleep, At, HasEnoughPeers
  <2>5. a \in DOMAIN arcs /\ (arcs[a].heldBack \/ IsWatched(a))
    BY <1>1, <2>4 DEF SleepInv
  <2>6. CASE IsPauseWatched(a) \/ IsPauseMissed(a)
    BY <1>1, <2>6 DEF IsWatched, IsPauseWatched, IsPauseMissed, IsPaused
  <2>7. CASE a \in holding
    <3>1. ~arcs[a].heldBack /\ ~IsDrained(a)
      BY <2>3, <2>7 DEF MustWake
    <3> QED
      BY <2>5, <2>6, <3>1 DEF IsWatched
  <2>8. CASE a \notin holding /\ ~(IsPauseWatched(a) \/ IsPauseMissed(a))
    <3>1. arcs'[a] = arcs[a]
      BY <1>1, <2>5, <2>8
    <3>2. IsWatched(a)
      BY <1>2, <2>5, <3>1
    <3> QED
      BY <1>1, <2>8, <3>1, <3>2 DEF IsWatched, IsDrained
  <2> QED
    BY <2>6, <2>7, <2>8
<1> QED
  BY <1>1, <1>2 DEF SleepInv, At

\* Nobody sleeps past its alarm, so what it watches does not end while it sleeps.
LEMMA TickKeepsSleep ==
  ASSUME Types, ArcStatesInv, FlagsInv, FlagsInv', SleepInv, Tick
  PROVE  SleepInv'
<1>1. /\ UNCHANGED <<reachable, rosterNews, pausedUntil, ring, arcs, worker, wake>>
      /\ clock' = clock + 1
  BY DEF Tick, peerVars, rosterVars, eligibilityVars, walkVars, wakeVars
<1>2. clock \in Nat /\ clock' \in Nat /\ clock' < Forever
  BY NumbersOfTheWalk DEF FlagsInv
<1>3. ASSUME EverybodySleeps', HasEnoughPeers', ~rosterNews', NEW a \in DOMAIN arcs,
             ~arcs[a].heldBack
      PROVE  IsWatched(a)'
  <2>1. \A v \in Workers : At(v, "waiting") /\ ~wake[v] /\ worker[v].alarm \in Nat
                             /\ clock' < worker[v].alarm
    BY <1>1, <1>3 DEF EverybodySleeps, IsAsleep, At, SleepInv
  <2>2. EverybodySleeps /\ HasEnoughPeers /\ ~rosterNews
    BY <1>1, <1>2, <1>3, <2>1 DEF EverybodySleeps, IsAsleep, HasEnoughPeers
  <2>3. IsWatched(a)
    BY <1>3, <2>2 DEF SleepInv
  <2>4. CASE IsPauseMissed(a)
    BY <1>1, <2>4 DEF IsWatched, IsPauseMissed
  <2>5. CASE IsPauseWatched(a)
    <3>1. PICK q \in WindowOf(a, ring), v \in Workers :
            IsPaused(q) /\ worker[v].alarm <= pausedUntil[q]
      BY <2>5 DEF IsPauseWatched
    <3>2. pausedUntil[q] \in Nat
      BY <3>1, NumbersOfTheWalk DEF FlagsInv, WindowOf, Types, ArcTypes
    <3>3. clock' < pausedUntil[q]
      BY <1>2, <2>1, <3>1, <3>2
    <3> QED
      BY <1>1, <3>1, <3>3 DEF IsWatched, IsPauseWatched, IsPaused
  <2>6. CASE ~(IsPauseWatched(a) \/ IsPauseMissed(a))
    <3>1. arcs[a].drainedUntil \in Nat
      BY DEF ArcStatesInv, ArcStates, Times
    <3>2. CASE arcs[a].drainedUntil = Forever
      BY <1>1, <1>2, <3>2 DEF IsWatched, IsDrained
    <3>3. CASE arcs[a].drainedUntil # Forever
      <4>1. PICK v \in Workers : worker[v].alarm <= arcs[a].drainedUntil
        BY <2>3, <2>6, <3>3 DEF IsWatched
      <4>2. clock' < arcs[a].drainedUntil
        BY <1>2, <2>1, <3>1, <4>1
      <4> QED
        BY <1>1, <4>1, <4>2 DEF IsWatched, IsDrained
    <3> QED
      BY <3>2, <3>3
  <2> QED
    BY <2>4, <2>5, <2>6
<1> QED
  BY <1>1, <1>3 DEF SleepInv, At

LEMMA SleepIsKept ==
  ASSUME Types, OwnersInv, SendsInv, ArcStatesInv, FlagsInv, FlagsInv', PeersInv, SleepInv,
         [Next]_vars
  PROVE  SleepInv'
<1>1. ASSUME NEW w \in Workers, WorkerStep(w) PROVE SleepInv'
  BY <1>1, WorkKeepsSleep
<1>2. ASSUME NEW p \in WordPartitions, SignalAdmission(p) PROVE SleepInv'
  BY <1>2, SignalKeepsSleep
<1>3. CASE Tick
  BY <1>3, TickKeepsSleep
<1>4. CASE SignalReachablePeers
  <2>1. UNCHANGED worker /\ WakeWorkers
    BY <1>4 DEF SignalReachablePeers
  <2>2. ~EverybodySleeps'
    BY <2>1, WakesReach, WalkAssumption DEF EverybodySleeps, IsAsleep, At
  <2> QED
    BY <2>1, <2>2 DEF SleepInv, At
<1>5. CASE Restart
  <2>1. \A v \in Workers : worker'[v].stage = "listening"
    BY <1>5, EmptyIsTyped DEF Restart
  <2>2. ~EverybodySleeps'
    BY <2>1, WalkAssumption DEF EverybodySleeps, IsAsleep, At
  <2> QED
    BY <2>1, <2>2 DEF SleepInv, At
<1>6. ASSUME UNCHANGED <<clock, rosterNews, pausedUntil, ring, arcs, worker, wake>>,
             HasEnoughPeers' => HasEnoughPeers
      PROVE  SleepInv'
  BY <1>6 DEF SleepInv, At, EverybodySleeps, IsAsleep, IsWatched, IsPauseWatched,
    IsPauseMissed, IsPaused, IsDrained
<1>7. ASSUME NEW p \in MovingPeers, ChangeRoster(p) PROVE SleepInv'
  <2>1. p \in Peers /\ UNCHANGED <<clock, pausedUntil, ring, arcs, worker, wake>>
    BY <1>7, WalkAssumption DEF ChangeRoster, eligibilityVars, walkVars
  <2>2. CASE ConfirmReachable(p) \/ ConfirmUnreachable(p)
    BY <2>1, <2>2 DEF ConfirmReachable, ConfirmUnreachable, SleepInv, At
  <2>3. CASE EvictMoved(p) \/ KeepGossipSeed(p)
    <3>1. UNCHANGED rosterNews /\ (HasEnoughPeers' => HasEnoughPeers)
      BY <2>1, <2>3, EvictedIsFewer DEF EvictMoved, KeepGossipSeed, HasEnoughPeers
    <3> QED
      BY <1>6, <2>1, <3>1
  <2> QED
    BY <1>7, <2>2, <2>3 DEF ChangeRoster
<1>8. CASE (\E p \in WordPartitions : Admit(p)) \/ UNCHANGED vars
  <2>1. UNCHANGED <<clock, reachable, rosterNews, pausedUntil, ring, arcs, worker, wake>>
    BY <1>8 DEF Admit, vars, peerVars, rosterVars, eligibilityVars, walkVars, wakeVars
  <2> QED
    BY <1>6, <2>1 DEF HasEnoughPeers
<1> QED
  BY <1>1, <1>2, <1>3, <1>4, <1>5, <1>7, <1>8 DEF Next

-----------------------------------------------------------------------------
(* No wake-up is lost *)

WakeInv == TypeInv /\ HeldBackInv /\ RingInv /\ SleepInv

LEMMA WakeInvAtFirst == Init => WakeInv
<1> SUFFICES ASSUME Init PROVE WakeInv
  OBVIOUS
<1>1. DOMAIN arcs = {} /\ \A w \in Workers : worker[w].stage = "listening"
  BY EmptyIsTyped DEF Init
<1>2. HeldBackInv /\ SleepInv
  BY <1>1 DEF HeldBackInv, SleepInv, At
<1>3. RingInv
  BY <1>1, WalkAssumption DEF RingInv, LooksAgain, At
<1> QED
  BY <1>2, <1>3, TypeInvAtFirst DEF WakeInv

LEMMA WakeInvIsKept == WakeInv /\ [Next]_vars => WakeInv'
<1> SUFFICES ASSUME WakeInv, [Next]_vars PROVE WakeInv'
  OBVIOUS
<1>0. TypeInv /\ HeldBackInv /\ RingInv /\ SleepInv
  BY DEF WakeInv
<1>1. /\ Types /\ BatchesAreApart /\ DrainInv /\ FlagsInv /\ PeersInv /\ OwnersInv
      /\ ArcStatesInv /\ SendsInv /\ AdmittedInv
  BY <1>0 DEF TypeInv
<1>2. TypeInv'
  BY <1>0, TypeInvIsKept
<1>3. FlagsInv'
  BY <1>2 DEF TypeInv
<1> QED
  BY <1>0, <1>1, <1>2, <1>3, HeldBackIsKept, RingIsKept, SleepIsKept DEF WakeInv

\* What keeps a word partition from being forgotten while every worker sleeps.
IsWatchedOver(p, a) ==
  \/ IsPauseWatched(a) \/ IsPauseMissed(a)
  \/ /\ admitted[p] <= unsignalled[p]
     /\ \/ arcs[a].heldBack \/ due[p] = Forever
        \/ \E w \in Workers : worker[w].alarm <= due[p]

LEMMA WakeInvHolds == WakeInv => NobodySleepsOnWork
<1> SUFFICES ASSUME WakeInv, \A w \in Workers : IsAsleep(w), HasEnoughPeers, ~rosterNews
             PROVE  /\ AreRecipients(ring)
                    /\ ring # {} => \A p \in WordPartitions : \E a \in DOMAIN arcs :
                                      Holds(a, p) /\ IsWatchedOver(p, a)
  BY DEF NobodySleepsOnWork, IsWatchedOver
<1>0. /\ Types /\ DrainInv /\ DueTimesInv /\ HeldBackInv /\ RingInv /\ SleepInv /\ ArcStatesInv
      /\ EverybodySleeps
  BY DEF WakeInv, TypeInv, EverybodySleeps
<1>1. DrainsInv /\ ArcTypes
  BY <1>0 DEF DrainInv, Types
<1>2. \A w \in Workers : ~LooksAgain(w)
  BY DEF LooksAgain, IsAsleep, At
<1>3. AreRecipients(ring)
  BY <1>0, <1>2 DEF RingInv
<1> SUFFICES ASSUME ring # {}, NEW p \in WordPartitions
             PROVE  \E a \in DOMAIN arcs : Holds(a, p) /\ IsWatchedOver(p, a)
  BY <1>3
<1>4. ring \in SUBSET Peers /\ p \in Positions /\ DOMAIN arcs = ArcsOf(ring)
  BY <1>1, WalkAssumption DEF ArcTypes
<1>5. PICK a \in DOMAIN arcs : Holds(a, p)
  BY <1>4, RingIsCovered
<1>6. p \in PartitionsOf(a) /\ (arcs[a].heldBack \/ IsWatched(a))
  BY <1>0, <1>5 DEF PartitionsOf, SleepInv
<1>7. CASE arcs[a].heldBack
  BY <1>0, <1>5, <1>6, <1>7 DEF HeldBackInv, IsWatchedOver
<1>8. CASE IsPauseWatched(a) \/ IsPauseMissed(a)
  BY <1>5, <1>8 DEF IsWatchedOver
<1>9. CASE IsWatched(a) /\ ~(IsPauseWatched(a) \/ IsPauseMissed(a))
  <2>1. /\ due[p] >= arcs[a].drainedUntil /\ admitted[p] <= unsignalled[p]
    BY <1>1, <1>6, <1>9 DEF DrainsInv, IsWatched
  <2>2. due[p] \in 0 .. Forever /\ arcs[a].drainedUntil \in Nat
    BY <1>0 DEF DueTimesInv, Times, ArcStatesInv, ArcStates
  <2>3. CASE arcs[a].drainedUntil = Forever
    BY <1>5, <2>1, <2>2, <2>3, NumbersOfTheWalk DEF IsWatchedOver
  <2>4. CASE arcs[a].drainedUntil # Forever
    <3>1. PICK w \in Workers : worker[w].alarm <= arcs[a].drainedUntil
      BY <1>9, <2>4 DEF IsWatched
    <3>2. worker[w].alarm \in Nat
      BY <1>0 DEF SleepInv, IsAsleep
    <3>3. worker[w].alarm <= due[p]
      BY <2>1, <2>2, <3>1, <3>2
    <3> QED
      BY <1>5, <2>1, <3>3 DEF IsWatchedOver
  <2> QED
    BY <2>3, <2>4
<1> QED
  BY <1>6, <1>7, <1>8, <1>9

\* No wake-up is lost between reading the roster, following the ring, reading an arc,
\* settling its end and waiting: when every worker sleeps, the walk is over the ring of the
\* peers that accept and are not excluded, and each word partition is watched over by an
\* alarm, a signal that is still to come, or the end of a batch that frees what is held back
\* (wakeWorkers, nextAlarm and settleReadEnd of arcWalk).  Left out by name is what the code
\* tells nobody of: the end of an exclusion, a peer changed by gossip, moved, excluded or
\* forgiven since the workers were woken last, and a pause that ended while its alarm was
\* looked for.
THEOREM NoWakeUpIsLost == Spec => []NobodySleepsOnWork
<1>1. Spec => []WakeInv
  BY WakeInvAtFirst, WakeInvIsKept, PTL DEF Spec
<1> QED
  BY <1>1, WakeInvHolds, PTL
=============================================================================
