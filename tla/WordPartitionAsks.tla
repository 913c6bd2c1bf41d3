------------------------- MODULE WordPartitionAsks -------------------------
(***************************************************************************)
(* The asks of one search as one run.  The inquiry sends asks and reads    *)
(* settled asks; the run keeps the word partitions; each word partition    *)
(* has a goroutine that asks its replicas in turn until enough of them     *)
(* cover it, none is left, or the deadline of the search passes.  No peer  *)
(* is asked twice in a run, whichever word partition comes first.          *)
(*                                                                         *)
(* Channels between the inquiry and the run are unbuffered, so a send and  *)
(* its receipt are one step.  A search for the next replica is one step:   *)
(* the peers it passes over stay chosen, so it may as well see them all    *)
(* when it takes the first that is not.  A hedge timer falls due at any    *)
(* time, and its place in hedgesDue is the time at which it is heard of.   *)
(* A goroutine that handled an event looks at the deadline in the same     *)
(* step: a deadline that passes before the look is one that it meets in    *)
(* its select.                                                             *)
(***************************************************************************)
EXTENDS Integers, Sequences, FiniteSets

CONSTANTS
  Peers,
  WordPartitions,    \* pairs of a word and a partition
  ReplicasInOrder,   \* [WordPartitions -> sequences of peers]
  Batches,           \* asks the inquiry may send at once, in order
  AmountOfReplicasCoveringAPartition

ASSUME AsksAssumption ==
  /\ ReplicasInOrder \in [WordPartitions -> Seq(Peers)]
  /\ Batches \subseteq Seq(WordPartitions)
  /\ AmountOfReplicasCoveringAPartition \in Nat \ {0}
  /\ IsFiniteSet(Peers) /\ IsFiniteSet(WordPartitions)

VARIABLES
  sent,      \* word partitions the inquiry sent asks of
  pending,   \* those it read no settled ask of
  closed,    \* whether it closed the asks
  open,      \* whether the run still receives asks
  batch,     \* asks the run took and has yet to choose first replicas for
  stage,     \* [word partition]: where its ask is
  chosen,    \* peers chosen in this run
  next,      \* [word partition]: index of the first of its replicasLeft
  call,      \* [word partition][peer]: its call of the peer
  hedged,    \* [word partition]: peers whose call's hedge was not heard of yet
  covering,  \* [word partition]: peers whose covering answers are counted
  settledBy,
  unsettled, \* amountOfWordPartitionsUnsettled
  unread,    \* settledAsksUnread
  deadline,  \* whether the context of the search is done
  over       \* whether the run closed the settled asks

inquiryVars == <<sent, pending, closed>>
runVars == <<open, batch, unsettled, unread, over>>
askVars == <<stage, chosen, next, call, hedged, covering, settledBy>>
vars == <<inquiryVars, runVars, askVars, deadline>>

\* absent: not in the run; choosing, ready: its first replicas are being
\* chosen, are chosen; asking: its goroutine waits in the select; settled: to be
\* handed to the run; kept: among the run's settled asks.
Stages == {"absent", "choosing", "ready", "asking", "settled", "kept"}

\* first: a first replica not asked yet; failed, empty and covers wait in
\* callOutcomes; ended calls are those whose outcome was taken.
Outcomes == {"failed", "empty", "covers"}
Calls == {"none", "first", "open", "ended"} \cup Outcomes
Endings == {"coverage", "no replica left", "deadline"}

-----------------------------------------------------------------------------
(* Replicas of a word partition *)

ReplicasOf(wp) == DOMAIN ReplicasInOrder[wp]

NoReplicaIsLeft(wp) == next[wp] > Len(ReplicasInOrder[wp])

\* Fault: replicas that another word partition chose are chosen again.
ChoosableHere(wp) == {i \in ReplicasOf(wp) : i >= next[wp]}

\* replicasLeft that no word partition chose yet.
Choosable(wp) == {i \in ReplicasOf(wp) : i >= next[wp] /\ ReplicasInOrder[wp][i] \notin chosen}

IsFirstOf(i, indexes) == i \in indexes /\ \A j \in indexes : i <= j

\* chooseTheNextReplica: the first that can be chosen becomes a call of the
\* given state; without one, the replicas are used up.
ChooseTheNextReplica(wp, calls, state) ==
  IF Choosable(wp) = {}
    THEN /\ next' = [next EXCEPT ![wp] = Len(ReplicasInOrder[wp]) + 1]
         /\ call' = [call EXCEPT ![wp] = calls]
         /\ UNCHANGED chosen
    ELSE \E i \in Choosable(wp) :
           /\ IsFirstOf(i, Choosable(wp))
           /\ next' = [next EXCEPT ![wp] = i + 1]
           /\ chosen' = chosen \cup {ReplicasInOrder[wp][i]}
           /\ call' = [call EXCEPT ![wp] = [calls EXCEPT ![ReplicasInOrder[wp][i]] = state]]

CallsIn(states, calls) == {p \in Peers : calls[p] \in states}

Outstanding(calls) == CallsIn({"open"} \cup Outcomes, calls)

\* startTheHedgeTimer of every call that began.
Begun(before, after) == {p \in Peers : before[p] \in {"none", "first"} /\ after[p] = "open"}

\* Fault: the calls outstanding are not waited for.
ReplicasAreUsedUp(calls, replicas, following) == following > Len(replicas)

\* settleWhenNothingIsLeftToAsk, of a word partition not settled by coverage.
NothingIsLeftToAsk(calls, replicas, following) ==
  Outstanding(calls) = {} /\ following > Len(replicas)

-----------------------------------------------------------------------------
(* The inquiry *)

\* Whether the run waits in its select.
RunWaits == batch = <<>> /\ (\A wp \in WordPartitions : stage[wp] \notin {"choosing", "ready"})

\* send: asks the inquiry sent before are not sent again.
Send(asks) ==
  /\ ~closed /\ open /\ RunWaits
  /\ \A i \in DOMAIN asks : asks[i] \notin sent
  /\ LET keys == {asks[i] : i \in DOMAIN asks}
     IN sent' = sent \cup keys /\ pending' = pending \cup keys
  /\ batch' = asks
  /\ UNCHANGED <<closed, open, unsettled, unread, over, askVars, deadline>>

\* The inquiry reads while asks are pending, and after End until the run is over.
ReadTheNextSettledAsk ==
  /\ RunWaits /\ unread # <<>>
  /\ pending # {} \/ closed
  /\ pending' = pending \ {Head(unread)}
  /\ unread' = Tail(unread)
  /\ UNCHANGED <<sent, closed, open, batch, unsettled, over, askVars, deadline>>

\* End.
CloseTheAsks ==
  /\ ~closed /\ closed' = TRUE
  /\ UNCHANGED <<sent, pending, runVars, askVars, deadline>>

-----------------------------------------------------------------------------
(* The run *)

\* Fault: the asks of a word are told apart by the word alone.
WordAlreadyInTheRun(wp) ==
  \E v \in WordPartitions : v[1] = wp[1] /\ stage[v] \notin {"absent", "choosing"}

AlreadyInTheRun(wp) == stage[wp] \notin {"absent", "choosing"}

SkipTheAsk ==
  /\ batch # <<>> /\ AlreadyInTheRun(Head(batch))
  /\ batch' = Tail(batch)
  /\ UNCHANGED <<inquiryVars, open, unsettled, unread, over, askVars, deadline>>

\* One turn of chooseTheFirstReplicas.
ChooseAFirstReplica ==
  /\ batch # <<>> /\ ~AlreadyInTheRun(Head(batch))
  /\ LET wp == Head(batch)
     IN /\ ChooseTheNextReplica(wp, call[wp], "first")
        /\ IF \/ Choosable(wp) = {}
              \/ Cardinality(CallsIn({"first"}, call[wp])) + 1 = AmountOfReplicasCoveringAPartition
             THEN batch' = Tail(batch) /\ stage' = [stage EXCEPT ![wp] = "ready"]
             ELSE UNCHANGED batch /\ stage' = [stage EXCEPT ![wp] = "choosing"]
  /\ UNCHANGED <<inquiryVars, open, unsettled, unread, over, hedged, covering, settledBy, deadline>>

\* Fault: what was added is counted once.
AmountOfBatches(added) == IF added = {} THEN 0 ELSE 1

AmountOf(added) == Cardinality(added)

Started(wp) == [p \in Peers |-> IF call[wp][p] = "first" THEN "open" ELSE call[wp][p]]

\* startAsking of every word partition that was added: each asks its first
\* replicas, and settles at once when it has none or is late.
StartAsking ==
  LET added == {wp \in WordPartitions : stage[wp] = "ready"}
      idle == {wp \in added : NothingIsLeftToAsk(Started(wp), ReplicasInOrder[wp], next[wp])}
      settled == IF deadline THEN added ELSE idle
  IN
  /\ batch = <<>> /\ added # {}
  /\ unsettled' = unsettled + AmountOf(added)
  /\ call' = [wp \in WordPartitions |-> IF wp \in added THEN Started(wp) ELSE call[wp]]
  /\ hedged' = [wp \in WordPartitions |->
                  IF wp \in added \ settled THEN Begun(call[wp], Started(wp)) ELSE hedged[wp]]
  /\ stage' = [wp \in WordPartitions |->
                  IF wp \in settled THEN "settled"
                  ELSE IF wp \in added THEN "asking" ELSE stage[wp]]
  /\ settledBy' = [wp \in WordPartitions |->
                  IF wp \in idle THEN "no replica left"
                  ELSE IF wp \in settled THEN "deadline" ELSE settledBy[wp]]
  /\ UNCHANGED <<inquiryVars, open, batch, unread, over, chosen, next, covering, deadline>>

TakeTheClose ==
  /\ RunWaits /\ closed /\ open /\ open' = FALSE
  /\ UNCHANGED <<inquiryVars, batch, unsettled, unread, over, askVars, deadline>>

TakeTheSettledWordPartition(wp) ==
  /\ RunWaits /\ stage[wp] = "settled"
  /\ stage' = [stage EXCEPT ![wp] = "kept"]
  /\ unsettled' = unsettled - 1
  /\ unread' = Append(unread, wp)
  /\ UNCHANGED <<inquiryVars, open, batch, over, chosen, next, call, hedged, covering,
                 settledBy, deadline>>

IsOver == ~open /\ unsettled = 0 /\ unread = <<>>

EndTheRun ==
  /\ ~over /\ IsOver /\ over' = TRUE
  /\ UNCHANGED <<inquiryVars, open, batch, unsettled, unread, askVars, deadline>>

-----------------------------------------------------------------------------
(* The goroutine of a word partition *)

\* What settles a word partition stops its timers.
Settle(wp, ending) ==
  /\ stage' = [stage EXCEPT ![wp] = "settled"]
  /\ settledBy' = [settledBy EXCEPT ![wp] = ending]
  /\ hedged' = [hedged EXCEPT ![wp] = {}]

\* The look at the deadline before the select.
GoOn(wp, heardOf) ==
  IF deadline
    THEN Settle(wp, "deadline")
    ELSE /\ hedged' = [hedged EXCEPT ![wp] = (@ \ heardOf) \cup Begun(call[wp], call'[wp])]
         /\ UNCHANGED <<stage, settledBy>>

SettleByDeadline(wp) ==
  /\ stage[wp] = "asking" /\ deadline
  /\ Settle(wp, "deadline")
  /\ UNCHANGED <<inquiryVars, runVars, chosen, next, call, covering, deadline>>

IsEnded(wp, p) == call[wp][p] = "ended"

TakeTheHedgeDue(wp, p) ==
  /\ stage[wp] = "asking" /\ p \in hedged[wp]
  /\ IF IsEnded(wp, p)
       THEN UNCHANGED <<next, call, chosen>>
       ELSE ChooseTheNextReplica(wp, call[wp], "open")
  /\ GoOn(wp, {p})
  /\ UNCHANGED <<inquiryVars, runVars, covering, deadline>>

\* Fault: an answer that covers nothing asks no other replica.
AsksOnFailureOnly(outcome) == outcome = "failed"

\* A call that failed or brought nothing and no search asks the next replica.
AsksTheNextReplica(outcome) == outcome \in {"failed", "empty"}

TakeTheCallOutcome(wp, p) ==
  LET covers == call[wp][p] = "covers"
      ended == [call[wp] EXCEPT ![p] = "ended"]
      isCovered == covers /\ Cardinality(covering'[wp]) = AmountOfReplicasCoveringAPartition
  IN
  /\ stage[wp] = "asking" /\ call[wp][p] \in Outcomes
  /\ IF AsksTheNextReplica(call[wp][p])
       THEN ChooseTheNextReplica(wp, ended, "open")
       ELSE call' = [call EXCEPT ![wp] = ended] /\ UNCHANGED <<next, chosen>>
  /\ covering' = [covering EXCEPT ![wp] = IF covers THEN @ \cup {p} ELSE @]
  /\ IF isCovered THEN Settle(wp, "coverage")
     ELSE IF NothingIsLeftToAsk(call'[wp], ReplicasInOrder[wp], next'[wp])
       THEN Settle(wp, "no replica left")
     ELSE GoOn(wp, {})
  /\ UNCHANGED <<inquiryVars, runVars, deadline>>

-----------------------------------------------------------------------------
(* Replicas and the budget of the search *)

\* What comes of a call once its ask is settled waits in a channel nobody reads.
CallEnds(wp, p, outcome) ==
  /\ stage[wp] = "asking" /\ call[wp][p] = "open"
  /\ call' = [call EXCEPT ![wp][p] = outcome]
  /\ UNCHANGED <<inquiryVars, runVars, stage, chosen, next, hedged, covering, settledBy, deadline>>

\* The query budget of Search is spent.
DeadlinePasses ==
  /\ ~deadline /\ deadline' = TRUE
  /\ UNCHANGED <<inquiryVars, runVars, askVars>>

-----------------------------------------------------------------------------
Init ==
  /\ sent = {} /\ pending = {} /\ closed = FALSE
  /\ open = TRUE /\ batch = <<>> /\ unsettled = 0 /\ unread = <<>> /\ over = FALSE
  /\ stage = [wp \in WordPartitions |-> "absent"]
  /\ chosen = {}
  /\ next = [wp \in WordPartitions |-> 1]
  /\ call = [wp \in WordPartitions |-> [p \in Peers |-> "none"]]
  /\ hedged = [wp \in WordPartitions |-> {}]
  /\ covering = [wp \in WordPartitions |-> {}]
  /\ settledBy = [wp \in WordPartitions |-> "none"]
  /\ deadline = FALSE

Run ==
  \/ SkipTheAsk \/ ChooseAFirstReplica \/ StartAsking \/ TakeTheClose \/ EndTheRun
  \/ \E wp \in WordPartitions : TakeTheSettledWordPartition(wp)

Goroutine(wp) ==
  \/ SettleByDeadline(wp)
  \/ \E p \in Peers : TakeTheHedgeDue(wp, p) \/ TakeTheCallOutcome(wp, p)

\* The search is over: nothing is left to do.
Finished == over /\ deadline /\ UNCHANGED vars

Next ==
  \/ \E asks \in Batches : Send(asks)
  \/ ReadTheNextSettledAsk
  \/ CloseTheAsks
  \/ Run
  \/ \E wp \in WordPartitions :
       \/ Goroutine(wp)
       \/ \E p \in Peers, outcome \in Outcomes : CallEnds(wp, p, outcome)
  \/ DeadlinePasses
  \/ Finished

Spec == Init /\ [][Next]_vars

\* Goroutines that can step do, and the budget of a search runs out.  Nothing
\* is assumed of replicas, which may never answer, or of hedge timers.
FairSpec ==
  /\ Spec
  /\ WF_vars(Run) /\ WF_vars(ReadTheNextSettledAsk) /\ WF_vars(DeadlinePasses)
  /\ \A wp \in WordPartitions : WF_vars(Goroutine(wp))

-----------------------------------------------------------------------------
(* Properties *)

\* The state is what the code can hold: places in the order of the replicas, an
\* amount of unsettled word partitions that is the amount being asked, and
\* settled asks that are each in the queue once.
TypeOK ==
  /\ pending \subseteq sent /\ sent \subseteq WordPartitions
  /\ {closed, open, deadline, over} \subseteq BOOLEAN
  /\ batch \in Seq(WordPartitions)
  /\ stage \in [WordPartitions -> Stages]
  /\ chosen \subseteq Peers
  /\ next \in [WordPartitions -> Nat]
  /\ call \in [WordPartitions -> [Peers -> Calls]]
  /\ hedged \in [WordPartitions -> SUBSET Peers]
  /\ covering \in [WordPartitions -> SUBSET Peers]
  /\ settledBy \in [WordPartitions -> Endings \cup {"none"}]
  /\ unsettled = Cardinality({wp \in WordPartitions :
                                stage[wp] \in {"asking", "settled"}})
  /\ unread \in Seq(WordPartitions)
  /\ \A i, j \in DOMAIN unread : unread[i] = unread[j] => i = j

\* Peers that a word partition asked, or is about to.
AskedBy(wp) == {p \in Peers : call[wp][p] # "none"}

\* A peer gets one call in a run, though several word partitions have it among
\* their replicas and their goroutines choose at the same time.
NoPeerIsAskedTwice ==
  \A v, w \in WordPartitions : v # w => AskedBy(v) \cap AskedBy(w) = {}

\* A word partition that waits for an event has a call that is still to bring
\* one: whatever came of its calls and hedges so far, it neither waits for
\* nobody nor leaves out a replica it could ask.
UnsettledWordPartitionsAwaitACall ==
  \A wp \in WordPartitions :
    stage[wp] = "asking" => Outstanding(call[wp]) # {}

\* What an ask is said to be settled by is so: by coverage, that many replicas
\* covered it; by no replica left, fewer did, every call was taken and every
\* replica was asked for this word partition or for another.
SettledAsTheySay ==
  \A wp \in WordPartitions :
    /\ settledBy[wp] = "coverage" =>
         Cardinality(covering[wp]) = AmountOfReplicasCoveringAPartition
    /\ settledBy[wp] = "no replica left" =>
         /\ Cardinality(covering[wp]) < AmountOfReplicasCoveringAPartition
         /\ Outstanding(call[wp]) = {}
         /\ \A i \in ReplicasOf(wp) : ReplicasInOrder[wp][i] \in chosen

\* Once the asks are closed the run ends, and by then the inquiry has read the
\* settled ask of every word partition it sent, even if no replica ever answers.
RunsEnd == closed ~> over /\ pending = {}

=============================================================================
