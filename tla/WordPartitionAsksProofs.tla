---------------------- MODULE WordPartitionAsksProofs ----------------------
(***************************************************************************)
(* Proofs about WordPartitionAsks, for any peers, word partitions, orders  *)
(* of replicas and amounts of replicas that cover a partition.             *)
(***************************************************************************)
EXTENDS WordPartitionAsks, TLAPS, FiniteSetTheorems, SequenceTheorems

-----------------------------------------------------------------------------
(* Types *)

\* The types of the variables, without the amount of unsettled word partitions.
Types ==
  /\ pending \subseteq sent /\ sent \subseteq WordPartitions
  /\ {closed, open, deadline, over} \subseteq BOOLEAN
  /\ batch \in Seq(WordPartitions)
  /\ stage \in [WordPartitions -> Stages]
  /\ chosen \subseteq Peers
  /\ next \in [WordPartitions -> Nat]
  /\ call \in [WordPartitions -> [Peers -> Calls]]
  /\ hedged \in [WordPartitions -> SUBSET Peers]
  /\ covering \in [WordPartitions -> SUBSET Peers]
  /\ settledBy \in [WordPartitions -> Endings \cup {"none"}]
  /\ unread \in Seq(WordPartitions)

AskTypes ==
  /\ stage \in [WordPartitions -> Stages]
  /\ chosen \subseteq Peers
  /\ next \in [WordPartitions -> Nat]
  /\ call \in [WordPartitions -> [Peers -> Calls]]
  /\ hedged \in [WordPartitions -> SUBSET Peers]
  /\ covering \in [WordPartitions -> SUBSET Peers]
  /\ settledBy \in [WordPartitions -> Endings \cup {"none"}]

RunTypes ==
  /\ pending \subseteq sent /\ sent \subseteq WordPartitions
  /\ closed \in BOOLEAN /\ open \in BOOLEAN /\ deadline \in BOOLEAN /\ over \in BOOLEAN
  /\ batch \in Seq(WordPartitions)
  /\ unread \in Seq(WordPartitions)

LEMMA TypesInParts == Types <=> AskTypes /\ RunTypes
BY DEF Types, AskTypes, RunTypes

LEMMA ReplicasAreNumbered ==
  ASSUME NEW wp \in WordPartitions
  PROVE  /\ Len(ReplicasInOrder[wp]) \in Nat
         /\ ReplicasOf(wp) = 1 .. Len(ReplicasInOrder[wp])
         /\ \A i \in ReplicasOf(wp) : ReplicasInOrder[wp][i] \in Peers
BY AsksAssumption DEF ReplicasOf

\* Choosing the next replica keeps the types it touches.
LEMMA ChoosingTypes ==
  ASSUME AskTypes, NEW wp \in WordPartitions, NEW calls \in [Peers -> Calls],
         NEW state \in Calls, ChooseTheNextReplica(wp, calls, state)
  PROVE  /\ chosen' \subseteq Peers
         /\ next' \in [WordPartitions -> Nat]
         /\ call' \in [WordPartitions -> [Peers -> Calls]]
<1>1. CASE Choosable(wp) = {}
  <2>1. /\ next' = [next EXCEPT ![wp] = Len(ReplicasInOrder[wp]) + 1]
        /\ call' = [call EXCEPT ![wp] = calls]
        /\ chosen' = chosen
    BY <1>1 DEF ChooseTheNextReplica
  <2>2. Len(ReplicasInOrder[wp]) + 1 \in Nat
    BY ReplicasAreNumbered
  <2> QED
    BY <2>1, <2>2 DEF AskTypes
<1>2. CASE Choosable(wp) # {}
  <2>1. PICK i \in Choosable(wp) :
           /\ next' = [next EXCEPT ![wp] = i + 1]
           /\ chosen' = chosen \cup {ReplicasInOrder[wp][i]}
           /\ call' = [call EXCEPT ![wp] = [calls EXCEPT ![ReplicasInOrder[wp][i]] = state]]
    BY <1>2 DEF ChooseTheNextReplica
  <2>2. i \in Nat /\ ReplicasInOrder[wp][i] \in Peers
    BY <2>1, ReplicasAreNumbered DEF Choosable
  <2>3. [calls EXCEPT ![ReplicasInOrder[wp][i]] = state] \in [Peers -> Calls]
    BY <2>2
  <2> QED
    BY <2>1, <2>2, <2>3 DEF AskTypes
<1> QED
  BY <1>1, <1>2

LEMMA InitTypes == Init => Types
<1> SUFFICES ASSUME Init PROVE Types
  OBVIOUS
<1>1. <<>> \in Seq(WordPartitions)
  OBVIOUS
<1>2. "absent" \in Stages /\ "none" \in Calls /\ 1 \in Nat
  BY DEF Stages, Calls
<1>3. stage \in [WordPartitions -> Stages] /\ next \in [WordPartitions -> Nat]
  BY <1>2 DEF Init
<1>4. call \in [WordPartitions -> [Peers -> Calls]]
  BY <1>2 DEF Init
<1>5. /\ hedged \in [WordPartitions -> SUBSET Peers]
      /\ covering \in [WordPartitions -> SUBSET Peers]
      /\ settledBy \in [WordPartitions -> Endings \cup {"none"}]
  BY DEF Init
<1> QED
  BY <1>1, <1>3, <1>4, <1>5 DEF Init, Types

LEMMA AskTypesKept == AskTypes /\ RunTypes /\ [Next]_vars => AskTypes'
<1> SUFFICES ASSUME AskTypes, RunTypes, [Next]_vars PROVE AskTypes'
  OBVIOUS
<1>0. CASE UNCHANGED askVars
  BY <1>0 DEF askVars, AskTypes
<1>1. CASE ChooseAFirstReplica
  <2> DEFINE wp == Head(batch)
  <2>1. wp \in WordPartitions
    BY <1>1, HeadTailProperties DEF ChooseAFirstReplica, RunTypes
  <2>2. ChooseTheNextReplica(wp, call[wp], "first")
    BY <1>1 DEF ChooseAFirstReplica
  <2>3. /\ chosen' \subseteq Peers
        /\ next' \in [WordPartitions -> Nat]
        /\ call' \in [WordPartitions -> [Peers -> Calls]]
    BY <2>1, <2>2, ChoosingTypes DEF AskTypes, Calls
  <2>4. stage' \in [WordPartitions -> Stages]
    BY <1>1, <2>1 DEF ChooseAFirstReplica, AskTypes, Stages
  <2> QED
    BY <1>1, <2>3, <2>4 DEF ChooseAFirstReplica, AskTypes
<1>2. CASE StartAsking
  <2>1. \A wp \in WordPartitions : Started(wp) \in [Peers -> Calls]
    BY DEF AskTypes, Started, Calls
  <2>2. \A wp \in WordPartitions : Begun(call[wp], Started(wp)) \in SUBSET Peers
    BY DEF Begun
  <2>3. call' \in [WordPartitions -> [Peers -> Calls]]
    BY <1>2, <2>1 DEF StartAsking, AskTypes
  <2>4. hedged' \in [WordPartitions -> SUBSET Peers]
    BY <1>2, <2>2 DEF StartAsking, AskTypes
  <2>5. stage' \in [WordPartitions -> Stages]
    BY <1>2 DEF StartAsking, AskTypes, Stages
  <2>6. settledBy' \in [WordPartitions -> Endings \cup {"none"}]
    BY <1>2 DEF StartAsking, AskTypes, Endings
  <2> QED
    BY <1>2, <2>3, <2>4, <2>5, <2>6 DEF StartAsking, AskTypes
<1>3. ASSUME NEW wp \in WordPartitions, TakeTheSettledWordPartition(wp)
      PROVE  AskTypes'
  BY <1>3 DEF TakeTheSettledWordPartition, AskTypes, Stages
<1>4. ASSUME NEW wp \in WordPartitions, SettleByDeadline(wp)
      PROVE  AskTypes'
  BY <1>4 DEF SettleByDeadline, Settle, AskTypes, Stages, Endings
<1>5. ASSUME NEW wp \in WordPartitions, NEW heardOf \in SUBSET Peers, GoOn(wp, heardOf)
      PROVE  /\ stage' \in [WordPartitions -> Stages]
             /\ settledBy' \in [WordPartitions -> Endings \cup {"none"}]
             /\ hedged' \in [WordPartitions -> SUBSET Peers]
  <2>1. CASE deadline
    BY <1>5, <2>1 DEF GoOn, Settle, AskTypes, Stages, Endings
  <2>2. CASE ~deadline
    <3>1. (hedged[wp] \ heardOf) \cup Begun(call[wp], call'[wp]) \in SUBSET Peers
      BY DEF Begun, AskTypes
    <3> QED
      BY <1>5, <2>2, <3>1 DEF GoOn, AskTypes
  <2> QED
    BY <2>1, <2>2
<1>6. ASSUME NEW wp \in WordPartitions, NEW p \in Peers, TakeTheHedgeDue(wp, p)
      PROVE  AskTypes'
  <2>1. /\ chosen' \subseteq Peers
        /\ next' \in [WordPartitions -> Nat]
        /\ call' \in [WordPartitions -> [Peers -> Calls]]
    <3>1. CASE IsEnded(wp, p)
      BY <1>6, <3>1 DEF TakeTheHedgeDue, AskTypes
    <3>2. CASE ~IsEnded(wp, p)
      <4>1. ChooseTheNextReplica(wp, call[wp], "open")
        BY <1>6, <3>2 DEF TakeTheHedgeDue
      <4> QED
        BY <4>1, ChoosingTypes DEF AskTypes, Calls
    <3> QED
      BY <3>1, <3>2
  <2>2. GoOn(wp, {p}) /\ covering' = covering
    BY <1>6 DEF TakeTheHedgeDue
  <2> QED
    BY <2>1, <2>2, <1>5 DEF AskTypes
<1>7. ASSUME NEW wp \in WordPartitions, NEW p \in Peers, TakeTheCallOutcome(wp, p)
      PROVE  AskTypes'
  <2> DEFINE ended == [call[wp] EXCEPT ![p] = "ended"]
  <2>1. ended \in [Peers -> Calls]
    BY DEF AskTypes, Calls
  <2>2. /\ chosen' \subseteq Peers
        /\ next' \in [WordPartitions -> Nat]
        /\ call' \in [WordPartitions -> [Peers -> Calls]]
    <3>1. CASE AsksTheNextReplica(call[wp][p])
      <4>1. ChooseTheNextReplica(wp, ended, "open")
        BY <1>7, <3>1 DEF TakeTheCallOutcome
      <4> QED
        BY <2>1, <4>1, ChoosingTypes DEF Calls
    <3>2. CASE ~AsksTheNextReplica(call[wp][p])
      BY <1>7, <2>1, <3>2 DEF TakeTheCallOutcome, AskTypes
    <3> QED
      BY <3>1, <3>2
  <2>3. covering' \in [WordPartitions -> SUBSET Peers]
    BY <1>7 DEF TakeTheCallOutcome, AskTypes
  <2>4. \/ Settle(wp, "coverage") \/ Settle(wp, "no replica left") \/ GoOn(wp, {})
    BY <1>7 DEF TakeTheCallOutcome
  <2>5. /\ stage' \in [WordPartitions -> Stages]
        /\ settledBy' \in [WordPartitions -> Endings \cup {"none"}]
        /\ hedged' \in [WordPartitions -> SUBSET Peers]
    <3>1. CASE Settle(wp, "coverage") \/ Settle(wp, "no replica left")
      BY <3>1 DEF Settle, AskTypes, Stages, Endings
    <3> QED
      BY <2>4, <3>1, <1>5
  <2> QED
    BY <2>2, <2>3, <2>5 DEF AskTypes
<1>8. ASSUME NEW wp \in WordPartitions, NEW p \in Peers, NEW outcome \in Outcomes,
             CallEnds(wp, p, outcome)
      PROVE  AskTypes'
  <2>1. [call[wp] EXCEPT ![p] = outcome] \in [Peers -> Calls]
    BY DEF AskTypes, Calls
  <2>2. call' = [call EXCEPT ![wp] = [call[wp] EXCEPT ![p] = outcome]]
    BY <1>8 DEF CallEnds, AskTypes
  <2> QED
    BY <1>8, <2>1, <2>2 DEF CallEnds, AskTypes
<1>9. ASSUME NEW asks \in Batches, Send(asks)
      PROVE  UNCHANGED askVars
  BY <1>9 DEF Send
<1>10. ReadTheNextSettledAsk \/ CloseTheAsks \/ SkipTheAsk \/ TakeTheClose \/ EndTheRun
         \/ DeadlinePasses \/ Finished \/ UNCHANGED vars => UNCHANGED askVars
  BY DEF ReadTheNextSettledAsk, CloseTheAsks, SkipTheAsk, TakeTheClose, EndTheRun,
         DeadlinePasses, Finished, vars, askVars
<1> QED
  BY <1>0, <1>1, <1>2, <1>3, <1>4, <1>6, <1>7, <1>8, <1>9, <1>10 DEF Next, Run, Goroutine

LEMMA RunTypesKept ==
  ASSUME Batches \subseteq Seq(WordPartitions), RunTypes, [Next]_vars
  PROVE  RunTypes'
<1>1. ASSUME NEW asks \in Batches, Send(asks)
      PROVE  RunTypes'
  <2>1. asks \in Seq(WordPartitions)
    OBVIOUS
  <2>2. {asks[i] : i \in DOMAIN asks} \subseteq WordPartitions
    BY <2>1
  <2> QED
    BY <1>1, <2>1, <2>2 DEF Send, RunTypes
<1>2. CASE ReadTheNextSettledAsk
  <2>1. Tail(unread) \in Seq(WordPartitions)
    BY <1>2, HeadTailProperties DEF ReadTheNextSettledAsk, RunTypes
  <2> QED
    BY <1>2, <2>1 DEF ReadTheNextSettledAsk, RunTypes
<1>3. CASE SkipTheAsk \/ ChooseAFirstReplica
  <2>1. batch # <<>> /\ (batch' = Tail(batch) \/ batch' = batch)
    BY <1>3 DEF SkipTheAsk, ChooseAFirstReplica
  <2>2. batch' \in Seq(WordPartitions)
    BY <2>1, HeadTailProperties DEF RunTypes
  <2> QED
    BY <1>3, <2>2 DEF SkipTheAsk, ChooseAFirstReplica, RunTypes, inquiryVars
<1>4. ASSUME NEW wp \in WordPartitions, TakeTheSettledWordPartition(wp)
      PROVE  RunTypes'
  <2>1. Append(unread, wp) \in Seq(WordPartitions)
    BY AppendProperties DEF RunTypes
  <2> QED
    BY <1>4, <2>1 DEF TakeTheSettledWordPartition, RunTypes, inquiryVars
<1>5. CASE CloseTheAsks \/ StartAsking \/ TakeTheClose \/ EndTheRun \/ DeadlinePasses
             \/ Finished \/ UNCHANGED vars
  BY <1>5 DEF CloseTheAsks, StartAsking, TakeTheClose, EndTheRun, DeadlinePasses, Finished,
              RunTypes, inquiryVars, runVars, vars
<1>6. ASSUME NEW wp \in WordPartitions, NEW p \in Peers,
             TakeTheHedgeDue(wp, p) \/ TakeTheCallOutcome(wp, p)
      PROVE  RunTypes'
  BY <1>6 DEF TakeTheHedgeDue, TakeTheCallOutcome, RunTypes, inquiryVars, runVars
<1>7. ASSUME NEW wp \in WordPartitions, SettleByDeadline(wp)
      PROVE  RunTypes'
  BY <1>7 DEF SettleByDeadline, RunTypes, inquiryVars, runVars
<1>8. ASSUME NEW wp \in WordPartitions, NEW p \in Peers, NEW outcome \in Outcomes,
             CallEnds(wp, p, outcome)
      PROVE  RunTypes'
  BY <1>8 DEF CallEnds, RunTypes, inquiryVars, runVars
<1> QED
  BY <1>1, <1>2, <1>3, <1>4, <1>5, <1>6, <1>7, <1>8 DEF Next, Run, Goroutine

\* The variables of a run keep their types.
THEOREM TypesHold == Spec => []Types
<1>1. Types /\ [Next]_vars => Types'
  BY TypesInParts, AskTypesKept, RunTypesKept, AsksAssumption
     DEF Types, AskTypes, RunTypes
<1> QED
  BY <1>1, InitTypes, PTL DEF Spec

-----------------------------------------------------------------------------
(* What a step does to one word partition *)

\* The outcome of chooseTheNextReplica for the word partition alone.
Chooses(v, calls, state) ==
  \/ /\ \A i \in ReplicasOf(v) : i >= next[v] => ReplicasInOrder[v][i] \in chosen
     /\ next'[v] = Len(ReplicasInOrder[v]) + 1
     /\ call'[v] = calls /\ chosen' = chosen
  \/ \E i \in ReplicasOf(v) :
       /\ i >= next[v] /\ ReplicasInOrder[v][i] \notin chosen
       /\ \A j \in ReplicasOf(v) : next[v] <= j /\ j < i => ReplicasInOrder[v][j] \in chosen
       /\ next'[v] = i + 1
       /\ chosen' = chosen \cup {ReplicasInOrder[v][i]}
       /\ call'[v] = [calls EXCEPT ![ReplicasInOrder[v][i]] = state]

ChoosesNothing(v, calls) ==
  next'[v] = next[v] /\ call'[v] = calls /\ chosen' = chosen

Stays(v) == stage'[v] = stage[v] /\ settledBy'[v] = settledBy[v]
SettlesBy(v, ending) == stage'[v] = "settled" /\ settledBy'[v] = ending

Idles(v) ==
  /\ stage'[v] = stage[v] \/ (stage[v] = "settled" /\ stage'[v] = "kept")
  /\ settledBy'[v] = settledBy[v] /\ next'[v] = next[v] /\ call'[v] = call[v]
  /\ covering'[v] = covering[v]

IsChosenFor(v) ==
  LET firsts == Cardinality(CallsIn({"first"}, call[v])) + 1 IN
  /\ stage[v] \in {"absent", "choosing"}
  /\ Chooses(v, call[v], "first")
  /\ \/ /\ stage'[v] = "ready"
        /\ Choosable(v) = {} \/ firsts = AmountOfReplicasCoveringAPartition
     \/ /\ stage'[v] = "choosing"
        /\ Choosable(v) # {} /\ firsts # AmountOfReplicasCoveringAPartition
  /\ settledBy'[v] = settledBy[v] /\ covering'[v] = covering[v]

IsStarted(v) ==
  /\ stage[v] = "ready"
  /\ ChoosesNothing(v, Started(v)) /\ covering'[v] = covering[v]
  /\ \/ /\ SettlesBy(v, "no replica left")
        /\ NothingIsLeftToAsk(Started(v), ReplicasInOrder[v], next[v])
     \/ SettlesBy(v, "deadline")
     \/ /\ stage'[v] = "asking" /\ settledBy'[v] = settledBy[v]
        /\ ~NothingIsLeftToAsk(Started(v), ReplicasInOrder[v], next[v])

HearsOfAHedge(v) ==
  /\ stage[v] = "asking" /\ covering'[v] = covering[v]
  /\ ChoosesNothing(v, call[v]) \/ Chooses(v, call[v], "open")
  /\ Stays(v) \/ SettlesBy(v, "deadline")

HearsOfTheEnd(v, p) ==
  LET ended == [call[v] EXCEPT ![p] = "ended"]
      isNothingLeft == NothingIsLeftToAsk(call'[v], ReplicasInOrder[v], next'[v])
  IN
  /\ stage[v] = "asking" /\ call[v][p] \in Outcomes
  /\ \/ /\ call[v][p] = "covers"
        /\ ChoosesNothing(v, ended)
        /\ covering'[v] = covering[v] \cup {p}
     \/ /\ call[v][p] # "covers"
        /\ Chooses(v, ended, "open")
        /\ covering'[v] = covering[v]
  /\ \/ /\ call[v][p] = "covers" /\ SettlesBy(v, "coverage")
        /\ Cardinality(covering'[v]) = AmountOfReplicasCoveringAPartition
     \/ /\ call[v][p] = "covers" =>
             Cardinality(covering'[v]) # AmountOfReplicasCoveringAPartition
        /\ \/ SettlesBy(v, "no replica left") /\ isNothingLeft
           \/ SettlesBy(v, "deadline")
           \/ Stays(v) /\ ~isNothingLeft

IsLate(v) ==
  /\ stage[v] = "asking" /\ SettlesBy(v, "deadline")
  /\ ChoosesNothing(v, call[v]) /\ covering'[v] = covering[v]

ACallEnds(v) ==
  /\ stage[v] = "asking" /\ Stays(v) /\ covering'[v] = covering[v]
  /\ \E p \in Peers, outcome \in Outcomes :
       call[v][p] = "open" /\ ChoosesNothing(v, [call[v] EXCEPT ![p] = outcome])

Changes(v) ==
  \/ IsChosenFor(v) \/ IsStarted(v) \/ HearsOfAHedge(v) \/ IsLate(v) \/ ACallEnds(v)
  \/ \E p \in Peers : HearsOfTheEnd(v, p)

LEMMA ChoosingOfOne ==
  ASSUME AskTypes, NEW v \in WordPartitions, NEW calls \in [Peers -> Calls],
         NEW state \in Calls, ChooseTheNextReplica(v, calls, state)
  PROVE  /\ Chooses(v, calls, state)
         /\ \A w \in WordPartitions \ {v} : next'[w] = next[w] /\ call'[w] = call[w]
<1>1. CASE Choosable(v) = {}
  <2>1. /\ next' = [next EXCEPT ![v] = Len(ReplicasInOrder[v]) + 1]
        /\ call' = [call EXCEPT ![v] = calls]
        /\ chosen' = chosen
    BY <1>1 DEF ChooseTheNextReplica
  <2>2. \A i \in ReplicasOf(v) : i >= next[v] => ReplicasInOrder[v][i] \in chosen
    BY <1>1 DEF Choosable
  <2> QED
    BY <2>1, <2>2 DEF Chooses, AskTypes
<1>2. CASE Choosable(v) # {}
  <2>1. PICK i \in Choosable(v) :
           /\ IsFirstOf(i, Choosable(v))
           /\ next' = [next EXCEPT ![v] = i + 1]
           /\ chosen' = chosen \cup {ReplicasInOrder[v][i]}
           /\ call' = [call EXCEPT ![v] = [calls EXCEPT ![ReplicasInOrder[v][i]] = state]]
    BY <1>2 DEF ChooseTheNextReplica
  <2>2. i \in ReplicasOf(v) /\ i >= next[v] /\ ReplicasInOrder[v][i] \notin chosen
    BY <2>1 DEF Choosable
  <2>3. \A j \in ReplicasOf(v) : next[v] <= j /\ j < i => ReplicasInOrder[v][j] \in chosen
    <3> SUFFICES ASSUME NEW j \in ReplicasOf(v), next[v] <= j, j < i,
                        ReplicasInOrder[v][j] \notin chosen
                 PROVE  FALSE
      OBVIOUS
    <3>1. j \in Choosable(v)
      BY ReplicasAreNumbered DEF Choosable, AskTypes
    <3> QED
      BY <2>1, <2>2, <3>1, ReplicasAreNumbered DEF IsFirstOf
  <2>4. /\ next'[v] = i + 1
        /\ call'[v] = [calls EXCEPT ![ReplicasInOrder[v][i]] = state]
        /\ \A w \in WordPartitions \ {v} : next'[w] = next[w] /\ call'[w] = call[w]
    BY <2>1 DEF AskTypes
  <2> QED
    BY <2>1, <2>2, <2>3, <2>4 DEF Chooses
<1> QED
  BY <1>1, <1>2

\* At most one word partition changes, unless several are started.
OneChanges ==
  \/ \E v \in WordPartitions : Changes(v) /\ \A w \in WordPartitions \ {v} : Idles(w)
  \/ chosen' = chosen /\ \A w \in WordPartitions : Idles(w) \/ IsStarted(w)

LEMMA IdlesIfUnchanged ==
  ASSUME UNCHANGED <<stage, chosen, next, call, covering, settledBy>>
  PROVE  \A w \in WordPartitions : Idles(w)
BY DEF Idles

LEMMA ChoosingAFirstReplicaOfOne ==
  ASSUME Types, ChooseAFirstReplica
  PROVE  OneChanges
<1> DEFINE v == Head(batch)
           firsts == Cardinality(CallsIn({"first"}, call[v])) + 1
<1>1. v \in WordPartitions
  BY HeadTailProperties DEF ChooseAFirstReplica, Types
<1>2. ChooseTheNextReplica(v, call[v], "first")
  BY DEF ChooseAFirstReplica
<1>3. /\ Chooses(v, call[v], "first")
      /\ \A w \in WordPartitions \ {v} : next'[w] = next[w] /\ call'[w] = call[w]
  BY <1>1, <1>2, ChoosingOfOne, TypesInParts DEF Types, Calls
<1>4. stage[v] \in {"absent", "choosing"}
  BY DEF ChooseAFirstReplica, AlreadyInTheRun
<1>5. \/ /\ stage' = [stage EXCEPT ![v] = "ready"]
         /\ Choosable(v) = {} \/ firsts = AmountOfReplicasCoveringAPartition
      \/ /\ stage' = [stage EXCEPT ![v] = "choosing"]
         /\ Choosable(v) # {} /\ firsts # AmountOfReplicasCoveringAPartition
  BY DEF ChooseAFirstReplica
<1>6. covering' = covering /\ settledBy' = settledBy
  BY DEF ChooseAFirstReplica
<1>7. /\ stage'[v] = "ready" \/ stage'[v] = "choosing"
      /\ \A w \in WordPartitions \ {v} : stage'[w] = stage[w]
  BY <1>1, <1>5 DEF Types
<1>8. \/ stage'[v] = "ready" /\ (Choosable(v) = {} \/ firsts = AmountOfReplicasCoveringAPartition)
      \/ /\ stage'[v] = "choosing"
         /\ Choosable(v) # {} /\ firsts # AmountOfReplicasCoveringAPartition
  BY <1>1, <1>5 DEF Types
<1>9. IsChosenFor(v)
  BY <1>3, <1>4, <1>6, <1>8 DEF IsChosenFor
<1>10. \A w \in WordPartitions \ {v} : Idles(w)
  BY <1>3, <1>6, <1>7 DEF Idles
<1> QED
  BY <1>1, <1>9, <1>10 DEF OneChanges, Changes

LEMMA StartingOfEach ==
  ASSUME Types, StartAsking
  PROVE  OneChanges
<1> SUFFICES ASSUME NEW v \in WordPartitions
             PROVE  Idles(v) \/ IsStarted(v)
  BY DEF OneChanges, StartAsking
<1> DEFINE added == {wp \in WordPartitions : stage[wp] = "ready"}
           idle == {wp \in added : NothingIsLeftToAsk(Started(wp), ReplicasInOrder[wp], next[wp])}
           settled == IF deadline THEN added ELSE idle
<1>1. /\ call' = [wp \in WordPartitions |-> IF wp \in added THEN Started(wp) ELSE call[wp]]
      /\ stage' = [wp \in WordPartitions |->
                     IF wp \in settled THEN "settled"
                     ELSE IF wp \in added THEN "asking" ELSE stage[wp]]
      /\ settledBy' = [wp \in WordPartitions |->
                         IF wp \in idle THEN "no replica left"
                         ELSE IF wp \in settled THEN "deadline" ELSE settledBy[wp]]
      /\ next' = next /\ chosen' = chosen /\ covering' = covering
  BY DEF StartAsking
<1>2. CASE v \notin added
  <2>1. v \notin settled /\ v \notin idle
    BY <1>2
  <2>2. /\ call'[v] = call[v] /\ next'[v] = next[v] /\ covering'[v] = covering[v]
        /\ stage'[v] = stage[v] /\ settledBy'[v] = settledBy[v]
    BY <1>1, <1>2, <2>1
  <2> QED
    BY <2>2 DEF Idles
<1>3. CASE v \in added
  <2>1. /\ stage[v] = "ready" /\ call'[v] = Started(v)
        /\ next'[v] = next[v] /\ chosen' = chosen /\ covering'[v] = covering[v]
    BY <1>1, <1>3
  <2>2. CASE v \in idle
    <3>1. v \in settled
      BY <2>2
    <3>2. stage'[v] = "settled" /\ settledBy'[v] = "no replica left"
      BY <1>1, <2>2, <3>1
    <3>3. NothingIsLeftToAsk(Started(v), ReplicasInOrder[v], next[v])
      BY <2>2
    <3> QED
      BY <2>1, <3>2, <3>3 DEF IsStarted, ChoosesNothing, SettlesBy
  <2>3. CASE v \notin idle /\ v \in settled
    <3>1. stage'[v] = "settled" /\ settledBy'[v] = "deadline"
      BY <1>1, <2>3
    <3> QED
      BY <2>1, <3>1 DEF IsStarted, ChoosesNothing, SettlesBy
  <2>4. CASE v \notin idle /\ v \notin settled
    <3>1. stage'[v] = "asking" /\ settledBy'[v] = settledBy[v]
      BY <1>1, <1>3, <2>4
    <3>2. ~NothingIsLeftToAsk(Started(v), ReplicasInOrder[v], next[v])
      BY <1>3, <2>4
    <3> QED
      BY <2>1, <3>1, <3>2 DEF IsStarted, ChoosesNothing
  <2> QED
    BY <2>2, <2>3, <2>4
<1> QED
  BY <1>2, <1>3

LEMMA SettlingOfOne ==
  ASSUME Types, NEW v \in WordPartitions, NEW ending, Settle(v, ending)
  PROVE  /\ SettlesBy(v, ending)
         /\ \A w \in WordPartitions \ {v} : Stays(w)
BY DEF Settle, SettlesBy, Stays, Types

LEMMA GoingOnOfOne ==
  ASSUME Types, NEW v \in WordPartitions, NEW heardOf, GoOn(v, heardOf)
  PROVE  /\ SettlesBy(v, "deadline") \/ Stays(v)
         /\ \A w \in WordPartitions \ {v} : Stays(w)
BY SettlingOfOne DEF GoOn, Stays

LEMMA HedgeOfOne ==
  ASSUME Types, NEW v \in WordPartitions, NEW p \in Peers, TakeTheHedgeDue(v, p)
  PROVE  OneChanges
<1>1. /\ ChoosesNothing(v, call[v]) \/ Chooses(v, call[v], "open")
      /\ \A w \in WordPartitions \ {v} : next'[w] = next[w] /\ call'[w] = call[w]
  <2>1. CASE IsEnded(v, p)
    BY <2>1 DEF TakeTheHedgeDue, ChoosesNothing
  <2>2. CASE ~IsEnded(v, p)
    <3>1. ChooseTheNextReplica(v, call[v], "open")
      BY <2>2 DEF TakeTheHedgeDue
    <3> QED
      BY <3>1, ChoosingOfOne, TypesInParts DEF Types, Calls
  <2> QED
    BY <2>1, <2>2
<1>2. /\ SettlesBy(v, "deadline") \/ Stays(v)
      /\ \A w \in WordPartitions \ {v} : Stays(w)
  BY GoingOnOfOne DEF TakeTheHedgeDue
<1>3. stage[v] = "asking" /\ covering' = covering
  BY DEF TakeTheHedgeDue
<1>4. HearsOfAHedge(v)
  BY <1>1, <1>2, <1>3 DEF HearsOfAHedge
<1>5. \A w \in WordPartitions \ {v} : Idles(w)
  BY <1>1, <1>2, <1>3 DEF Idles, Stays
<1> QED
  BY <1>4, <1>5 DEF OneChanges, Changes

LEMMA OutcomeOfOne ==
  ASSUME Types, NEW v \in WordPartitions, NEW p \in Peers, TakeTheCallOutcome(v, p)
  PROVE  OneChanges
<1> DEFINE ended == [call[v] EXCEPT ![p] = "ended"]
           isNothingLeft == NothingIsLeftToAsk(call'[v], ReplicasInOrder[v], next'[v])
           isCovered == /\ call[v][p] = "covers"
                        /\ Cardinality(covering'[v]) = AmountOfReplicasCoveringAPartition
<1>1. stage[v] = "asking" /\ call[v][p] \in Outcomes
  BY DEF TakeTheCallOutcome
<1>2. ended \in [Peers -> Calls]
  BY DEF Types, Calls
<1>3. /\ \/ call[v][p] = "covers" /\ ChoosesNothing(v, ended)
         \/ call[v][p] # "covers" /\ Chooses(v, ended, "open")
      /\ \A w \in WordPartitions \ {v} : next'[w] = next[w] /\ call'[w] = call[w]
  <2>1. CASE AsksTheNextReplica(call[v][p])
    <3>1. ChooseTheNextReplica(v, ended, "open")
      BY <2>1 DEF TakeTheCallOutcome
    <3>2. call[v][p] # "covers"
      BY <2>1 DEF AsksTheNextReplica
    <3> QED
      BY <1>2, <3>1, <3>2, ChoosingOfOne, TypesInParts DEF Calls
  <2>2. CASE ~AsksTheNextReplica(call[v][p])
    <3>1. call' = [call EXCEPT ![v] = ended] /\ next' = next /\ chosen' = chosen
      BY <2>2 DEF TakeTheCallOutcome
    <3>2. call[v][p] = "covers"
      BY <1>1, <2>2 DEF AsksTheNextReplica, Outcomes
    <3> QED
      BY <3>1, <3>2 DEF ChoosesNothing, Types
  <2> QED
    BY <2>1, <2>2
<1>4. /\ covering'[v] = IF call[v][p] = "covers" THEN covering[v] \cup {p} ELSE covering[v]
      /\ \A w \in WordPartitions \ {v} : covering'[w] = covering[w]
  BY DEF TakeTheCallOutcome, Types
<1>5. \/ isCovered /\ Settle(v, "coverage")
      \/ ~isCovered /\ isNothingLeft /\ Settle(v, "no replica left")
      \/ ~isCovered /\ ~isNothingLeft /\ GoOn(v, {})
  BY DEF TakeTheCallOutcome
<1>6. /\ \/ isCovered /\ SettlesBy(v, "coverage")
         \/ ~isCovered /\ isNothingLeft /\ SettlesBy(v, "no replica left")
         \/ ~isCovered /\ ~isNothingLeft /\ (SettlesBy(v, "deadline") \/ Stays(v))
      /\ \A w \in WordPartitions \ {v} : Stays(w)
  BY <1>5, SettlingOfOne, GoingOnOfOne
<1>7. HearsOfTheEnd(v, p)
  BY <1>1, <1>3, <1>4, <1>6 DEF HearsOfTheEnd
<1>8. \A w \in WordPartitions \ {v} : Idles(w)
  BY <1>3, <1>4, <1>6 DEF Idles, Stays
<1> QED
  BY <1>7, <1>8 DEF OneChanges, Changes

LEMMA CallOfOne ==
  ASSUME Types, NEW v \in WordPartitions, NEW p \in Peers, NEW outcome \in Outcomes,
         CallEnds(v, p, outcome)
  PROVE  OneChanges
<1>1. call' = [call EXCEPT ![v] = [call[v] EXCEPT ![p] = outcome]]
  BY DEF CallEnds, Types
<1>2. /\ call'[v] = [call[v] EXCEPT ![p] = outcome]
      /\ \A w \in WordPartitions \ {v} : call'[w] = call[w]
  BY <1>1 DEF Types
<1>3. ACallEnds(v)
  BY <1>2 DEF CallEnds, ACallEnds, Stays, ChoosesNothing
<1>4. \A w \in WordPartitions \ {v} : Idles(w)
  BY <1>2 DEF CallEnds, Idles
<1> QED
  BY <1>3, <1>4 DEF OneChanges, Changes

LEMMA StepsOfOne == Types /\ [Next]_vars => OneChanges
<1> SUFFICES ASSUME Types, [Next]_vars PROVE OneChanges
  OBVIOUS
<1>1. CASE ChooseAFirstReplica
  BY <1>1, ChoosingAFirstReplicaOfOne
<1>2. CASE StartAsking
  BY <1>2, StartingOfEach
<1>3. ASSUME NEW v \in WordPartitions, TakeTheSettledWordPartition(v)
      PROVE  OneChanges
  BY <1>3 DEF TakeTheSettledWordPartition, OneChanges, Idles, Types
<1>4. ASSUME NEW v \in WordPartitions, SettleByDeadline(v)
      PROVE  OneChanges
  <2>1. /\ SettlesBy(v, "deadline")
        /\ \A w \in WordPartitions \ {v} : Stays(w)
    BY <1>4, SettlingOfOne DEF SettleByDeadline
  <2> QED
    BY <1>4, <2>1
       DEF SettleByDeadline, OneChanges, Changes, IsLate, Idles, ChoosesNothing, Stays
<1>5. ASSUME NEW v \in WordPartitions, NEW p \in Peers,
             TakeTheHedgeDue(v, p) \/ TakeTheCallOutcome(v, p)
      PROVE  OneChanges
  BY <1>5, HedgeOfOne, OutcomeOfOne
<1>6. ASSUME NEW v \in WordPartitions, NEW p \in Peers, NEW outcome \in Outcomes,
             CallEnds(v, p, outcome)
      PROVE  OneChanges
  BY <1>6, CallOfOne
<1>7. CASE UNCHANGED <<stage, chosen, next, call, covering, settledBy>>
  BY <1>7, IdlesIfUnchanged DEF OneChanges
<1>8. ASSUME NEW asks \in Batches, Send(asks)
      PROVE  UNCHANGED <<stage, chosen, next, call, covering, settledBy>>
  BY <1>8 DEF Send, askVars
<1>9. ReadTheNextSettledAsk \/ CloseTheAsks \/ SkipTheAsk \/ TakeTheClose \/ EndTheRun
        \/ DeadlinePasses \/ Finished \/ UNCHANGED vars
          => UNCHANGED <<stage, chosen, next, call, covering, settledBy>>
  BY DEF ReadTheNextSettledAsk, CloseTheAsks, SkipTheAsk, TakeTheClose, EndTheRun,
         DeadlinePasses, Finished, vars, askVars
<1> QED
  BY <1>1, <1>2, <1>3, <1>4, <1>5, <1>6, <1>7, <1>8, <1>9 DEF Next, Run, Goroutine

-----------------------------------------------------------------------------
(* Nobody is asked twice *)

\* Who is asked is chosen, and replicas that were passed over are.
AskedAreChosen(v) == AskedBy(v) \subseteq chosen

PassedAreChosen(v) ==
  \A i \in ReplicasOf(v) : i < next[v] => ReplicasInOrder[v][i] \in chosen

ChosenInv ==
  /\ \A v \in WordPartitions : AskedAreChosen(v) /\ PassedAreChosen(v)
  /\ NoPeerIsAskedTwice

LEMMA ChoosingKeepsChosen ==
  ASSUME Types, NEW v \in WordPartitions, PassedAreChosen(v), NEW calls \in [Peers -> Calls],
         \A p \in Peers : calls[p] # "none" => call[v][p] # "none",
         NEW state, Chooses(v, calls, state)
  PROVE  /\ PassedAreChosen(v)' /\ chosen \subseteq chosen'
         /\ AskedBy(v)' \subseteq AskedBy(v) \cup (chosen' \ chosen)
<1>1. CASE /\ \A i \in ReplicasOf(v) : i >= next[v] => ReplicasInOrder[v][i] \in chosen
           /\ next'[v] = Len(ReplicasInOrder[v]) + 1
           /\ call'[v] = calls /\ chosen' = chosen
  <2>1. \A i \in ReplicasOf(v) : ReplicasInOrder[v][i] \in chosen
    BY <1>1, ReplicasAreNumbered DEF PassedAreChosen, Types
  <2> QED
    BY <1>1, <2>1 DEF PassedAreChosen, AskedBy
<1>2. ASSUME NEW i \in ReplicasOf(v),
             /\ i >= next[v] /\ ReplicasInOrder[v][i] \notin chosen
             /\ \A j \in ReplicasOf(v) :
                  next[v] <= j /\ j < i => ReplicasInOrder[v][j] \in chosen
             /\ next'[v] = i + 1
             /\ chosen' = chosen \cup {ReplicasInOrder[v][i]}
             /\ call'[v] = [calls EXCEPT ![ReplicasInOrder[v][i]] = state]
      PROVE  /\ PassedAreChosen(v)' /\ chosen \subseteq chosen'
             /\ AskedBy(v)' \subseteq AskedBy(v) \cup (chosen' \ chosen)
  <2>1. \A j \in ReplicasOf(v) : j < i + 1 => ReplicasInOrder[v][j] \in chosen'
    <3> TAKE j \in ReplicasOf(v)
    <3> HAVE j < i + 1
    <3>1. i \in Nat /\ j \in Nat /\ next[v] \in Nat
      <4>1. ReplicasOf(v) \subseteq Nat
        BY ReplicasAreNumbered
      <4> QED
        BY <4>1 DEF Types
    <3>2. CASE j = i
      BY <1>2, <3>2
    <3>3. CASE j < next[v]
      BY <1>2, <3>3 DEF PassedAreChosen
    <3>4. CASE next[v] <= j /\ j < i
      BY <1>2, <3>4
    <3> QED
      BY <3>1, <3>2, <3>3, <3>4
  <2>2. \A p \in Peers : call'[v][p] # "none"
          => call[v][p] # "none" \/ p = ReplicasInOrder[v][i]
    BY <1>2
  <2> QED
    BY <1>2, <2>1, <2>2 DEF PassedAreChosen, AskedBy
<1> QED
  BY <1>1, <1>2 DEF Chooses

LEMMA ChangesKeepChosen ==
  ASSUME Types, NEW v \in WordPartitions, PassedAreChosen(v), Changes(v)
  PROVE  /\ PassedAreChosen(v)' /\ chosen \subseteq chosen'
         /\ AskedBy(v)' \subseteq AskedBy(v) \cup (chosen' \ chosen)
<1>0. call[v] \in [Peers -> Calls]
  BY DEF Types
<1>1. ASSUME NEW calls \in [Peers -> Calls], ChoosesNothing(v, calls),
             \A p \in Peers : calls[p] # "none" => call[v][p] # "none"
      PROVE  /\ PassedAreChosen(v)' /\ chosen \subseteq chosen'
             /\ AskedBy(v)' \subseteq AskedBy(v) \cup (chosen' \ chosen)
  BY <1>1 DEF ChoosesNothing, PassedAreChosen, AskedBy
<1>2. CASE IsChosenFor(v)
  BY <1>0, <1>2, ChoosingKeepsChosen DEF IsChosenFor
<1>3. CASE IsStarted(v)
  <2>1. Started(v) \in [Peers -> Calls]
    BY <1>0 DEF Started, Calls
  <2>2. \A p \in Peers : Started(v)[p] # "none" => call[v][p] # "none"
    BY DEF Started
  <2> QED
    BY <1>1, <1>3, <2>1, <2>2 DEF IsStarted
<1>4. CASE HearsOfAHedge(v)
  BY <1>0, <1>1, <1>4, ChoosingKeepsChosen DEF HearsOfAHedge
<1>5. CASE IsLate(v)
  BY <1>0, <1>1, <1>5 DEF IsLate
<1>6. CASE ACallEnds(v)
  <2>1. PICK p \in Peers, outcome \in Outcomes :
          call[v][p] = "open" /\ ChoosesNothing(v, [call[v] EXCEPT ![p] = outcome])
    BY <1>6 DEF ACallEnds
  <2>2. /\ [call[v] EXCEPT ![p] = outcome] \in [Peers -> Calls]
        /\ \A q \in Peers : [call[v] EXCEPT ![p] = outcome][q] # "none" => call[v][q] # "none"
    BY <1>0, <2>1 DEF Calls
  <2> QED
    BY <1>1, <2>1, <2>2
<1>7. ASSUME NEW p \in Peers, HearsOfTheEnd(v, p)
      PROVE  /\ PassedAreChosen(v)' /\ chosen \subseteq chosen'
             /\ AskedBy(v)' \subseteq AskedBy(v) \cup (chosen' \ chosen)
  <2> DEFINE ended == [call[v] EXCEPT ![p] = "ended"]
  <2>1. call[v][p] \in Outcomes /\ (ChoosesNothing(v, ended) \/ Chooses(v, ended, "open"))
    BY <1>7 DEF HearsOfTheEnd
  <2>2. /\ ended \in [Peers -> Calls]
        /\ \A q \in Peers : ended[q] # "none" => call[v][q] # "none"
    BY <1>0, <2>1 DEF Calls, Outcomes
  <2> QED
    BY <1>1, <2>1, <2>2, ChoosingKeepsChosen
<1> QED
  BY <1>2, <1>3, <1>4, <1>5, <1>6, <1>7 DEF Changes

LEMMA IdlesOrStartsAskNobody ==
  ASSUME Types, NEW v \in WordPartitions, Idles(v) \/ IsStarted(v)
  PROVE  AskedBy(v)' = AskedBy(v) /\ next'[v] = next[v]
BY DEF Idles, IsStarted, ChoosesNothing, AskedBy, Started, Types

LEMMA ChosenKept == Types /\ ChosenInv /\ [Next]_vars => ChosenInv'
<1> SUFFICES ASSUME Types, ChosenInv, [Next]_vars PROVE ChosenInv'
  OBVIOUS
<1>1. CASE chosen' = chosen /\ \A w \in WordPartitions : Idles(w) \/ IsStarted(w)
  BY <1>1, IdlesOrStartsAskNobody
     DEF ChosenInv, AskedAreChosen, PassedAreChosen, NoPeerIsAskedTwice
<1>2. ASSUME NEW v \in WordPartitions, Changes(v),
             \A w \in WordPartitions \ {v} : Idles(w)
      PROVE  ChosenInv'
  <2>1. /\ PassedAreChosen(v)' /\ chosen \subseteq chosen'
        /\ AskedBy(v)' \subseteq AskedBy(v) \cup (chosen' \ chosen)
    BY <1>2, ChangesKeepChosen DEF ChosenInv
  <2>2. \A w \in WordPartitions \ {v} : AskedBy(w)' = AskedBy(w) /\ next'[w] = next[w]
    BY <1>2, IdlesOrStartsAskNobody
  <2>3. \A w \in WordPartitions : AskedAreChosen(w)'
    BY <2>1, <2>2 DEF ChosenInv, AskedAreChosen
  <2>4. \A w \in WordPartitions : PassedAreChosen(w)'
    BY <2>1, <2>2 DEF ChosenInv, PassedAreChosen
  <2>5. \A w \in WordPartitions \ {v} : (AskedBy(v) \cap AskedBy(w))' = {}
    BY <2>1, <2>2 DEF ChosenInv, AskedAreChosen, NoPeerIsAskedTwice
  <2>6. NoPeerIsAskedTwice'
    BY <2>2, <2>5 DEF ChosenInv, NoPeerIsAskedTwice
  <2> QED
    BY <2>3, <2>4, <2>6 DEF ChosenInv
<1> QED
  BY <1>1, <1>2, StepsOfOne DEF OneChanges

LEMMA ChosenAtFirst == Init => ChosenInv
<1> SUFFICES ASSUME Init PROVE ChosenInv
  OBVIOUS
<1>1. \A v \in WordPartitions : AskedBy(v) = {} /\ next[v] = 1
  BY DEF Init, AskedBy
<1>2. \A v \in WordPartitions : PassedAreChosen(v)
  BY <1>1, ReplicasAreNumbered DEF PassedAreChosen
<1> QED
  BY <1>1, <1>2 DEF ChosenInv, AskedAreChosen, NoPeerIsAskedTwice

\* No peer is asked for two word partitions of a run.
THEOREM AskedOnce == Spec => []NoPeerIsAskedTwice
<1>1. ChosenInv => NoPeerIsAskedTwice
  BY DEF ChosenInv
<1> QED
  BY <1>1, ChosenAtFirst, ChosenKept, TypesHold, PTL DEF Spec

-----------------------------------------------------------------------------
(* Calls that are awaited *)

Firsts(v) == CallsIn({"first"}, call[v])
Awaited(v) == Outstanding(call[v]) \cup covering[v]

BeforeItAsks(v) ==
  /\ stage[v] \in {"absent", "choosing", "ready"} =>
       /\ covering[v] = {} /\ settledBy[v] = "none"
       /\ \A p \in Peers : call[v][p] \in {"none", "first"}
  /\ stage[v] \in {"absent", "choosing"} =>
       Cardinality(Firsts(v)) < AmountOfReplicasCoveringAPartition
  /\ stage[v] = "ready" =>
       NoReplicaIsLeft(v) \/ Cardinality(Firsts(v)) >= AmountOfReplicasCoveringAPartition

\* As many peers as must cover it did or may still do so, or nobody is left to ask.
WhileItAsks(v) ==
  stage[v] = "asking" =>
    /\ settledBy[v] = "none"
    /\ Cardinality(covering[v]) < AmountOfReplicasCoveringAPartition
    /\ NoReplicaIsLeft(v) \/ Cardinality(Awaited(v)) >= AmountOfReplicasCoveringAPartition
    /\ Outstanding(call[v]) # {}

AmountInv(v) ==
  /\ covering[v] \subseteq AskedBy(v)
  /\ BeforeItAsks(v) /\ WhileItAsks(v)

LEMMA CallsAreFinite ==
  ASSUME NEW states, NEW calls
  PROVE  /\ CallsIn(states, calls) \in SUBSET Peers
         /\ IsFiniteSet(CallsIn(states, calls))
         /\ Cardinality(CallsIn(states, calls)) \in Nat
<1>1. CallsIn(states, calls) \in SUBSET Peers
  BY DEF CallsIn
<1> QED
  BY <1>1, FS_Subset, FS_CardinalityType, AsksAssumption

LEMMA AwaitedAreFinite ==
  ASSUME Types, NEW v \in WordPartitions
  PROVE  /\ Awaited(v) \in SUBSET Peers /\ IsFiniteSet(Awaited(v))
         /\ Cardinality(Awaited(v)) \in Nat
         /\ IsFiniteSet(covering[v]) /\ Cardinality(covering[v]) \in Nat
<1>1. Awaited(v) \in SUBSET Peers /\ covering[v] \in SUBSET Peers
  BY DEF Awaited, Outstanding, CallsIn, Types
<1> QED
  BY <1>1, FS_Subset, FS_CardinalityType, AsksAssumption

\* A peer that is chosen now was not asked.
LEMMA ChosenNowWasNotAsked ==
  ASSUME Types, NEW v \in WordPartitions, AskedAreChosen(v), NEW p \in Peers, p \notin chosen
  PROVE  call[v][p] = "none"
BY DEF AskedAreChosen, AskedBy

LEMMA ChosenForKeepsAmounts ==
  ASSUME Types, NEW v \in WordPartitions, AskedAreChosen(v), AmountInv(v), IsChosenFor(v)
  PROVE  AmountInv(v)'
<1> DEFINE N == AmountOfReplicasCoveringAPartition
<1>1. /\ covering[v] = {} /\ covering'[v] = {} /\ settledBy'[v] = "none"
      /\ \A p \in Peers : call[v][p] \in {"none", "first"}
      /\ Cardinality(Firsts(v)) < N
      /\ stage'[v] \in {"ready", "choosing"}
  BY DEF IsChosenFor, AmountInv, BeforeItAsks
<1>2. CASE /\ \A i \in ReplicasOf(v) : i >= next[v] => ReplicasInOrder[v][i] \in chosen
           /\ next'[v] = Len(ReplicasInOrder[v]) + 1
           /\ call'[v] = call[v] /\ chosen' = chosen
  <2>1. Choosable(v) = {}
    BY <1>2 DEF Choosable
  <2>2. stage'[v] = "ready"
    BY <2>1 DEF IsChosenFor
  <2>3. NoReplicaIsLeft(v)'
    BY <1>2, ReplicasAreNumbered DEF NoReplicaIsLeft
  <2> QED
    BY <1>1, <1>2, <2>2, <2>3 DEF AmountInv, BeforeItAsks, WhileItAsks
<1>3. ASSUME NEW i \in ReplicasOf(v),
             /\ i >= next[v] /\ ReplicasInOrder[v][i] \notin chosen
             /\ call'[v] = [call[v] EXCEPT ![ReplicasInOrder[v][i]] = "first"]
      PROVE  AmountInv(v)'
  <2> DEFINE r == ReplicasInOrder[v][i]
  <2>1. r \in Peers /\ call[v][r] = "none"
    BY <1>3, ReplicasAreNumbered, ChosenNowWasNotAsked
  <2>2. \A p \in Peers : call'[v][p] = IF p = r THEN "first" ELSE call[v][p]
    BY <1>3, <2>1 DEF Types
  <2>3. Firsts(v)' = Firsts(v) \cup {r} /\ r \notin Firsts(v)
    BY <2>1, <2>2 DEF Firsts, CallsIn
  <2>4. /\ Cardinality(Firsts(v)') = Cardinality(Firsts(v)) + 1
        /\ Cardinality(Firsts(v)) \in Nat
    BY <2>3, FS_AddElement, CallsAreFinite DEF Firsts
  <2>5. Choosable(v) # {}
    BY <1>3 DEF Choosable
  <2>6. \/ stage'[v] = "ready" /\ Cardinality(Firsts(v)) + 1 = N
        \/ stage'[v] = "choosing" /\ Cardinality(Firsts(v)) + 1 # N
    BY <2>5 DEF IsChosenFor, Firsts
  <2>7. /\ stage'[v] = "ready" => Cardinality(Firsts(v)') >= N
        /\ stage'[v] = "choosing" => Cardinality(Firsts(v)') < N
    BY <1>1, <2>4, <2>6, AsksAssumption
  <2>8. \A p \in Peers : call'[v][p] \in {"none", "first"}
    BY <1>1, <2>2
  <2> QED
    BY <1>1, <2>6, <2>7, <2>8 DEF AmountInv, BeforeItAsks, WhileItAsks
<1> QED
  BY <1>2, <1>3 DEF IsChosenFor, Chooses

LEMMA StartedCallsAreFirsts ==
  ASSUME Types, NEW v \in WordPartitions,
         \A p \in Peers : call[v][p] \in {"none", "first"}
  PROVE  Outstanding(Started(v)) = Firsts(v)
BY DEF Outstanding, Started, Firsts, CallsIn, Outcomes

LEMMA StartKeepsAmounts ==
  ASSUME Types, NEW v \in WordPartitions, AmountInv(v), IsStarted(v)
  PROVE  AmountInv(v)'
<1> DEFINE N == AmountOfReplicasCoveringAPartition
<1>1. /\ covering[v] = {} /\ covering'[v] = {} /\ settledBy[v] = "none"
      /\ \A p \in Peers : call[v][p] \in {"none", "first"}
      /\ NoReplicaIsLeft(v) \/ Cardinality(Firsts(v)) >= N
      /\ call'[v] = Started(v) /\ next'[v] = next[v]
      /\ stage'[v] \in {"settled", "asking"}
  BY DEF IsStarted, SettlesBy, ChoosesNothing, AmountInv, BeforeItAsks
<1>2. Outstanding(call'[v]) = Firsts(v)
  BY <1>1, StartedCallsAreFirsts
<1>3. Awaited(v)' = Firsts(v)
  BY <1>1, <1>2 DEF Awaited
<1>4. NoReplicaIsLeft(v)' \/ Cardinality(Awaited(v)') >= N
  BY <1>1, <1>3 DEF NoReplicaIsLeft
<1>5. Cardinality(covering'[v]) = 0 /\ 0 < N
  BY <1>1, FS_EmptySet, AsksAssumption
<1>6. ASSUME stage'[v] = "asking"
      PROVE  Outstanding(call'[v]) # {} /\ settledBy'[v] = "none"
  <2>1. /\ ~NothingIsLeftToAsk(Started(v), ReplicasInOrder[v], next[v])
        /\ settledBy'[v] = settledBy[v]
    BY <1>6 DEF IsStarted, SettlesBy
  <2>2. CASE NoReplicaIsLeft(v)
    BY <1>1, <2>1, <2>2 DEF NothingIsLeftToAsk, NoReplicaIsLeft
  <2>3. CASE Cardinality(Firsts(v)) >= N
    <3>0. Cardinality({}) = 0
      BY FS_EmptySet
    <3>1. ASSUME Firsts(v) = {} PROVE FALSE
      <4>1. Cardinality(Firsts(v)) = 0
        BY <3>0, <3>1
      <4>2. N \in Nat /\ 0 < N
        BY AsksAssumption
      <4> QED
        BY <2>3, <4>1, <4>2
    <3> QED
      BY <1>1, <1>2, <2>1, <3>1
  <2> QED
    BY <1>1, <2>2, <2>3
<1>7. covering'[v] \subseteq AskedBy(v)'
  BY <1>1
<1> QED
  BY <1>1, <1>4, <1>5, <1>6, <1>7 DEF AmountInv, BeforeItAsks, WhileItAsks

\* Calls are never taken back.
LEMMA AskedStayAsked ==
  ASSUME Types, NEW v \in WordPartitions, NEW calls, NEW state \in Calls \ {"none"},
         \A p \in Peers : call[v][p] # "none" => calls[p] # "none",
         calls \in [Peers -> Calls],
         ChoosesNothing(v, calls) \/ Chooses(v, calls, state)
  PROVE  AskedBy(v) \subseteq AskedBy(v)'
<1>1. CASE call'[v] = calls
  BY <1>1 DEF AskedBy
<1>2. ASSUME NEW i \in ReplicasOf(v), call'[v] = [calls EXCEPT ![ReplicasInOrder[v][i]] = state]
      PROVE  AskedBy(v) \subseteq AskedBy(v)'
  BY <1>2 DEF AskedBy
<1> QED
  BY <1>1, <1>2 DEF ChoosesNothing, Chooses

LEMMA HedgeKeepsAmounts ==
  ASSUME Types, NEW v \in WordPartitions, AskedAreChosen(v), AmountInv(v), HearsOfAHedge(v)
  PROVE  AmountInv(v)'
<1> DEFINE N == AmountOfReplicasCoveringAPartition
<1>1. /\ Cardinality(covering'[v]) < N /\ covering'[v] = covering[v]
      /\ NoReplicaIsLeft(v) \/ Cardinality(Awaited(v)) >= N
      /\ Outstanding(call[v]) # {}
      /\ settledBy[v] = "none"
  BY DEF HearsOfAHedge, AmountInv, WhileItAsks
<1>2. /\ NoReplicaIsLeft(v)' \/ Cardinality(Awaited(v)') >= N
      /\ Outstanding(call'[v]) # {}
  <2>1. CASE ChoosesNothing(v, call[v])
    BY <1>1, <2>1 DEF ChoosesNothing, Awaited, NoReplicaIsLeft
  <2>2. CASE next'[v] = Len(ReplicasInOrder[v]) + 1 /\ call'[v] = call[v]
    BY <1>1, <2>2, ReplicasAreNumbered DEF NoReplicaIsLeft
  <2>3. ASSUME NEW i \in ReplicasOf(v), i >= next[v],
               call'[v] = [call[v] EXCEPT ![ReplicasInOrder[v][i]] = "open"]
        PROVE  /\ NoReplicaIsLeft(v)' \/ Cardinality(Awaited(v)') >= N
               /\ Outstanding(call'[v]) # {}
    <3> DEFINE r == ReplicasInOrder[v][i]
    <3>1. \A p \in Peers : call'[v][p] = IF p = r THEN "open" ELSE call[v][p]
      <4>1. call[v] \in [Peers -> Calls]
        BY DEF Types
      <4> QED
        BY <2>3, <4>1
    <3>2. Outstanding(call[v]) \subseteq Outstanding(call'[v])
      BY <3>1 DEF Outstanding, CallsIn
    <3>3. Awaited(v) \subseteq Awaited(v)' /\ Awaited(v)' \in SUBSET Peers
      BY <1>1, <3>2 DEF Awaited, Outstanding, CallsIn, Types
    <3>4. IsFiniteSet(Awaited(v)')
      BY <3>3, FS_Subset, AsksAssumption
    <3>5. Cardinality(Awaited(v)) <= Cardinality(Awaited(v)') /\ Cardinality(Awaited(v)') \in Nat
      BY <3>3, <3>4, FS_Subset, FS_CardinalityType
    <3>6. ~NoReplicaIsLeft(v)
      BY <2>3, ReplicasAreNumbered DEF NoReplicaIsLeft, Types
    <3> QED
      BY <1>1, <3>2, <3>5, <3>6, AwaitedAreFinite, AsksAssumption
  <2> QED
    BY <2>1, <2>2, <2>3 DEF HearsOfAHedge, Chooses
<1>3. AskedBy(v) \subseteq AskedBy(v)'
  BY AskedStayAsked DEF HearsOfAHedge, Types, Calls
<1>4. (stage'[v] = "asking" /\ settledBy'[v] = "none") \/ stage'[v] = "settled"
  BY <1>1 DEF HearsOfAHedge, Stays, SettlesBy
<1> QED
  BY <1>1, <1>2, <1>3, <1>4 DEF AmountInv, BeforeItAsks, WhileItAsks

LEMMA CoveringAnswerKeepsAmounts ==
  ASSUME Types, NEW v \in WordPartitions, AmountInv(v), NEW p \in Peers,
         HearsOfTheEnd(v, p), call[v][p] = "covers"
  PROVE  AmountInv(v)'
<1> DEFINE N == AmountOfReplicasCoveringAPartition
           ended == [call[v] EXCEPT ![p] = "ended"]
<1>1. /\ Cardinality(covering[v]) < N /\ Cardinality(covering[v]) \in Nat
      /\ NoReplicaIsLeft(v) \/ Cardinality(Awaited(v)) >= N
      /\ settledBy[v] = "none" /\ covering[v] \subseteq AskedBy(v)
  BY AwaitedAreFinite DEF HearsOfTheEnd, AmountInv, WhileItAsks
<1>2. /\ call'[v] = ended /\ next'[v] = next[v]
      /\ covering'[v] = covering[v] \cup {p}
  BY DEF HearsOfTheEnd, ChoosesNothing
<1>3. /\ \A q \in Peers : call'[v][q] = IF q = p THEN "ended" ELSE call[v][q]
      /\ p \in Outstanding(call[v])
  BY <1>2 DEF Types, Outstanding, CallsIn, Outcomes
<1>4. Outstanding(call'[v]) = Outstanding(call[v]) \ {p}
  BY <1>3 DEF Outstanding, CallsIn, Outcomes
<1>5. Awaited(v)' = Awaited(v)
  BY <1>2, <1>3, <1>4 DEF Awaited
<1>6. covering'[v] \subseteq AskedBy(v)'
  BY <1>1, <1>2, <1>3 DEF AskedBy
<1>7. /\ Cardinality(covering'[v]) <= Cardinality(covering[v]) + 1
      /\ Cardinality(covering'[v]) \in Nat
  <2>1. IsFiniteSet(covering[v])
    BY AwaitedAreFinite
  <2>2. Cardinality(covering[v] \cup {p})
          = IF p \in covering[v] THEN Cardinality(covering[v]) ELSE Cardinality(covering[v]) + 1
    BY <2>1, FS_AddElement
  <2> QED
    BY <1>1, <1>2, <2>2
<1>8. NoReplicaIsLeft(v)' \/ Cardinality(Awaited(v)') >= N
  BY <1>1, <1>2, <1>5 DEF NoReplicaIsLeft
<1>9. \/ stage'[v] = "settled"
      \/ /\ stage'[v] = "asking" /\ settledBy'[v] = "none"
         /\ Cardinality(covering'[v]) < N /\ Outstanding(call'[v]) # {}
  <2>1. CASE stage'[v] # "settled"
    <3>1. /\ stage'[v] = "asking" /\ settledBy'[v] = "none"
          /\ Cardinality(covering'[v]) # N
          /\ ~NothingIsLeftToAsk(call'[v], ReplicasInOrder[v], next'[v])
      BY <1>1, <2>1 DEF HearsOfTheEnd, SettlesBy, Stays
    <3>2. Cardinality(covering'[v]) < N
      BY <1>1, <1>7, <3>1, AsksAssumption
    <3>3. ASSUME Outstanding(call'[v]) = {} PROVE FALSE
      <4>1. ~NoReplicaIsLeft(v)'
        BY <3>1, <3>3 DEF NothingIsLeftToAsk, NoReplicaIsLeft
      <4>2. Awaited(v)' = covering'[v]
        BY <3>3 DEF Awaited
      <4> QED
        BY <1>7, <1>8, <3>2, <4>1, <4>2, AsksAssumption
    <3> QED
      BY <3>1, <3>2, <3>3
  <2> QED
    BY <2>1
<1> QED
  BY <1>6, <1>8, <1>9 DEF AmountInv, BeforeItAsks, WhileItAsks

LEMMA OtherOutcomeKeepsAmounts ==
  ASSUME Types, NEW v \in WordPartitions, AskedAreChosen(v), AmountInv(v), NEW p \in Peers,
         HearsOfTheEnd(v, p), call[v][p] # "covers"
  PROVE  AmountInv(v)'
<1> DEFINE N == AmountOfReplicasCoveringAPartition
           ended == [call[v] EXCEPT ![p] = "ended"]
<1>1. /\ Cardinality(covering[v]) < N
      /\ NoReplicaIsLeft(v) \/ Cardinality(Awaited(v)) >= N
      /\ settledBy[v] = "none" /\ covering[v] \subseteq AskedBy(v)
  BY DEF HearsOfTheEnd, AmountInv, WhileItAsks
<1>2. /\ Chooses(v, ended, "open") /\ covering'[v] = covering[v]
      /\ call[v][p] \in Outcomes
  BY DEF HearsOfTheEnd
<1>3. /\ ended \in [Peers -> Calls] /\ call[v] \in [Peers -> Calls]
      /\ \A q \in Peers : ended[q] = IF q = p THEN "ended" ELSE call[v][q]
  BY DEF Types, Calls
<1>4. AskedBy(v) \subseteq AskedBy(v)'
  BY <1>2, <1>3, AskedStayAsked DEF Calls
<1>5. \/ stage'[v] = "settled"
      \/ /\ stage'[v] = "asking" /\ settledBy'[v] = "none"
         /\ ~NothingIsLeftToAsk(call'[v], ReplicasInOrder[v], next'[v])
  BY <1>1 DEF HearsOfTheEnd, SettlesBy, Stays
<1>6. CASE next'[v] = Len(ReplicasInOrder[v]) + 1 /\ call'[v] = ended
  <2>1. NoReplicaIsLeft(v)'
    BY <1>6, ReplicasAreNumbered DEF NoReplicaIsLeft
  <2>2. stage'[v] = "asking" => Outstanding(call'[v]) # {}
    BY <1>5, <2>1 DEF NothingIsLeftToAsk, NoReplicaIsLeft
  <2> QED
    BY <1>1, <1>2, <1>4, <1>5, <2>1, <2>2 DEF AmountInv, BeforeItAsks, WhileItAsks
<1>7. ASSUME NEW i \in ReplicasOf(v), i >= next[v], ReplicasInOrder[v][i] \notin chosen,
             call'[v] = [ended EXCEPT ![ReplicasInOrder[v][i]] = "open"]
      PROVE  AmountInv(v)'
  <2> DEFINE r == ReplicasInOrder[v][i]
  <2>1. r \in Peers /\ call[v][r] = "none" /\ r # p
    BY <1>2, <1>7, ReplicasAreNumbered, ChosenNowWasNotAsked DEF Outcomes
  <2>2. \A q \in Peers : call'[v][q] = IF q = r THEN "open"
                                      ELSE IF q = p THEN "ended" ELSE call[v][q]
    BY <1>3, <1>7, <2>1
  <2>3. Outstanding(call'[v]) = (Outstanding(call[v]) \ {p}) \cup {r}
    BY <2>1, <2>2 DEF Outstanding, CallsIn, Outcomes
  <2>4. r \notin Awaited(v)
    BY <1>1, <2>1 DEF Awaited, Outstanding, CallsIn, Outcomes, AskedBy
  <2> DEFINE Without == Awaited(v) \ {p}
  <2>5. /\ IsFiniteSet(Without) /\ Cardinality(Without) \in Nat
        /\ Cardinality(Without) >= Cardinality(Awaited(v)) - 1
    <3>1. IsFiniteSet(Awaited(v)) /\ Cardinality(Awaited(v)) \in Nat
      BY AwaitedAreFinite
    <3>2. /\ IsFiniteSet(Without)
          /\ Cardinality(Without)
               = IF p \in Awaited(v) THEN Cardinality(Awaited(v)) - 1 ELSE Cardinality(Awaited(v))
      BY <3>1, FS_RemoveElement
    <3>3. Cardinality(Without) \in Nat
      BY <3>2, FS_CardinalityType
    <3> QED
      BY <3>1, <3>2, <3>3
  <2>6. /\ IsFiniteSet(Without \cup {r})
        /\ Cardinality(Without \cup {r}) = Cardinality(Without) + 1
    BY <2>4, <2>5, FS_AddElement
  <2>7. /\ Without \cup {r} \subseteq Awaited(v)'
        /\ Awaited(v)' \in SUBSET Peers
    BY <1>2, <2>1, <2>3 DEF Awaited, Outstanding, CallsIn, Types
  <2>8. IsFiniteSet(Awaited(v)')
    BY <2>7, FS_Subset, AsksAssumption
  <2>9. /\ Cardinality(Without \cup {r}) <= Cardinality(Awaited(v)')
        /\ Cardinality(Awaited(v)') \in Nat
    BY <2>7, <2>8, FS_Subset, FS_CardinalityType
  <2>10. ~NoReplicaIsLeft(v)
    BY <1>7, ReplicasAreNumbered DEF NoReplicaIsLeft, Types
  <2>11. Cardinality(Awaited(v)') >= N
    BY <1>1, <2>5, <2>6, <2>9, <2>10, AwaitedAreFinite, AsksAssumption
  <2>12. Outstanding(call'[v]) # {}
    BY <2>3
  <2> QED
    BY <1>1, <1>2, <1>4, <1>5, <2>11, <2>12 DEF AmountInv, BeforeItAsks, WhileItAsks
<1> QED
  BY <1>2, <1>6, <1>7 DEF Chooses

LEMMA OtherChangesKeepAmounts ==
  ASSUME Types, NEW v \in WordPartitions, AmountInv(v),
         Idles(v) \/ IsLate(v) \/ ACallEnds(v)
  PROVE  AmountInv(v)'
<1>1. CASE Idles(v)
  <2>1. /\ call'[v] = call[v] /\ next'[v] = next[v] /\ covering'[v] = covering[v]
        /\ settledBy'[v] = settledBy[v]
        /\ stage'[v] = stage[v] \/ stage'[v] = "kept"
    BY <1>1 DEF Idles
  <2> QED
    BY <2>1 DEF AmountInv, BeforeItAsks, WhileItAsks, Awaited, Firsts, AskedBy, NoReplicaIsLeft
<1>2. CASE IsLate(v)
  <2>1. /\ call'[v] = call[v] /\ covering'[v] = covering[v] /\ stage'[v] = "settled"
    BY <1>2 DEF IsLate, ChoosesNothing, SettlesBy
  <2> QED
    BY <2>1 DEF AmountInv, BeforeItAsks, WhileItAsks, AskedBy
<1>3. CASE ACallEnds(v)
  <2>1. PICK p \in Peers, outcome \in Outcomes :
          /\ call[v][p] = "open" /\ call'[v] = [call[v] EXCEPT ![p] = outcome]
          /\ next'[v] = next[v]
    BY <1>3 DEF ACallEnds, ChoosesNothing
  <2>2. \A q \in Peers : call'[v][q] = IF q = p THEN outcome ELSE call[v][q]
    BY <2>1 DEF Types
  <2>3. Outstanding(call'[v]) = Outstanding(call[v]) /\ AskedBy(v)' = AskedBy(v)
    BY <2>1, <2>2 DEF Outstanding, CallsIn, AskedBy, Outcomes
  <2>4. /\ stage[v] = "asking" /\ stage'[v] = "asking" /\ settledBy'[v] = settledBy[v]
        /\ covering'[v] = covering[v]
    BY <1>3 DEF ACallEnds, Stays
  <2> QED
    BY <2>1, <2>3, <2>4
       DEF AmountInv, BeforeItAsks, WhileItAsks, Awaited, NoReplicaIsLeft
<1> QED
  BY <1>1, <1>2, <1>3

AmountsInv == \A v \in WordPartitions : AmountInv(v)

LEMMA AmountsKept == Types /\ ChosenInv /\ AmountsInv /\ [Next]_vars => AmountsInv'
<1> SUFFICES ASSUME Types, ChosenInv, AmountsInv, [Next]_vars,
                    NEW v \in WordPartitions
             PROVE  AmountInv(v)'
  BY DEF AmountsInv
<1>1. AmountInv(v) /\ AskedAreChosen(v)
  BY DEF AmountsInv, ChosenInv
<1>2. Idles(v) \/ IsStarted(v) \/ Changes(v)
  BY StepsOfOne DEF OneChanges
<1>3. ASSUME NEW p \in Peers, HearsOfTheEnd(v, p) PROVE AmountInv(v)'
  BY <1>1, <1>3, CoveringAnswerKeepsAmounts, OtherOutcomeKeepsAmounts
<1> QED
  BY <1>1, <1>2, <1>3, ChosenForKeepsAmounts, StartKeepsAmounts, HedgeKeepsAmounts,
     OtherChangesKeepAmounts DEF Changes

LEMMA AmountsAtFirst == Init => AmountsInv
<1> SUFFICES ASSUME Init, NEW v \in WordPartitions PROVE AmountInv(v)
  BY DEF AmountsInv
<1>1. /\ stage[v] = "absent" /\ covering[v] = {} /\ settledBy[v] = "none"
      /\ \A p \in Peers : call[v][p] = "none"
  BY DEF Init
<1>2. Firsts(v) = {}
  BY <1>1 DEF Firsts, CallsIn
<1>3. Cardinality({}) = 0
  BY FS_EmptySet
<1>4. Cardinality(Firsts(v)) < AmountOfReplicasCoveringAPartition
  <2>1. AmountOfReplicasCoveringAPartition \in Nat /\ 0 < AmountOfReplicasCoveringAPartition
    BY AsksAssumption
  <2> QED
    BY <1>2, <1>3, <2>1
<1> QED
  BY <1>1, <1>4 DEF AmountInv, BeforeItAsks, WhileItAsks

\* A word partition that waits for an event has a call that may still bring one.
THEOREM WaitingAwaitsACall == Spec => []UnsettledWordPartitionsAwaitACall
<1>1. AmountsInv => UnsettledWordPartitionsAwaitACall
  BY DEF AmountsInv, AmountInv, WhileItAsks, UnsettledWordPartitionsAwaitACall
<1> QED
  BY <1>1, AmountsAtFirst, AmountsKept, ChosenAtFirst, ChosenKept, TypesHold, PTL DEF Spec

-----------------------------------------------------------------------------
(* What settled a word partition *)

IsSettledAsItSays(v) ==
  /\ settledBy[v] = "coverage" =>
       Cardinality(covering[v]) = AmountOfReplicasCoveringAPartition
  /\ settledBy[v] = "no replica left" =>
       /\ Cardinality(covering[v]) < AmountOfReplicasCoveringAPartition
       /\ Outstanding(call[v]) = {}
       /\ \A i \in ReplicasOf(v) : ReplicasInOrder[v][i] \in chosen

LEMMA PassedAll ==
  ASSUME NEW v \in WordPartitions, NEW following \in Nat, NEW peers,
         following > Len(ReplicasInOrder[v]),
         \A i \in ReplicasOf(v) : i < following => ReplicasInOrder[v][i] \in peers
  PROVE  \A i \in ReplicasOf(v) : ReplicasInOrder[v][i] \in peers
BY ReplicasAreNumbered

LEMMA SettledKept ==
  Types /\ Types' /\ ChosenInv /\ ChosenInv' /\ AmountsInv /\ SettledAsTheySay /\ [Next]_vars
    => SettledAsTheySay'
<1> SUFFICES ASSUME Types, Types', ChosenInv, ChosenInv', AmountsInv, SettledAsTheySay,
                    [Next]_vars, NEW v \in WordPartitions
             PROVE  IsSettledAsItSays(v)'
  BY DEF SettledAsTheySay, IsSettledAsItSays
<1> DEFINE N == AmountOfReplicasCoveringAPartition
<1>0. IsSettledAsItSays(v)
  BY DEF SettledAsTheySay, IsSettledAsItSays
<1>1. chosen \subseteq chosen'
  BY StepsOfOne, ChangesKeepChosen DEF OneChanges, ChosenInv
<1>2. next'[v] \in Nat /\ PassedAreChosen(v)'
  BY DEF Types, ChosenInv
<1>3. CASE Idles(v)
  BY <1>0, <1>1, <1>3 DEF IsSettledAsItSays, Idles
<1>4. ASSUME settledBy'[v] \notin {"coverage", "no replica left"}
      PROVE  IsSettledAsItSays(v)'
  BY <1>4 DEF IsSettledAsItSays
<1>5. CASE IsStarted(v)
  <2>1. CASE /\ settledBy'[v] = "no replica left"
             /\ NothingIsLeftToAsk(Started(v), ReplicasInOrder[v], next[v])
    <3>1. Outstanding(call'[v]) = {} /\ next'[v] > Len(ReplicasInOrder[v])
      BY <1>5, <2>1 DEF IsStarted, ChoosesNothing, NothingIsLeftToAsk
    <3>2. \A i \in ReplicasOf(v) : ReplicasInOrder[v][i] \in chosen'
      BY <1>2, <3>1, PassedAll DEF PassedAreChosen
    <3>3. covering'[v] = {}
      BY <1>5 DEF IsStarted, AmountsInv, AmountInv, BeforeItAsks
    <3>4. Cardinality({}) = 0
      BY FS_EmptySet
    <3>5. N \in Nat /\ 0 < N
      BY AsksAssumption
    <3>6. Cardinality(covering'[v]) < N
      BY <3>3, <3>4, <3>5
    <3> QED
      BY <2>1, <3>1, <3>2, <3>6 DEF IsSettledAsItSays
  <2>2. CASE settledBy'[v] = "deadline" \/ settledBy'[v] = settledBy[v]
    <3>1. settledBy[v] = "none"
      BY <1>5 DEF IsStarted, AmountsInv, AmountInv, BeforeItAsks
    <3> QED
      BY <1>4, <2>2, <3>1
  <2> QED
    BY <1>5, <2>1, <2>2 DEF IsStarted, SettlesBy
<1>6. ASSUME NEW p \in Peers, HearsOfTheEnd(v, p)
      PROVE  IsSettledAsItSays(v)'
  <2>1. /\ settledBy[v] = "none" /\ Cardinality(covering[v]) < N
        /\ IsFiniteSet(covering[v]) /\ Cardinality(covering[v]) \in Nat
    BY <1>6, AwaitedAreFinite DEF HearsOfTheEnd, AmountsInv, AmountInv, WhileItAsks
  <2>2. CASE settledBy'[v] = "coverage" /\ Cardinality(covering'[v]) = N
    BY <2>2 DEF IsSettledAsItSays
  <2>3. CASE /\ settledBy'[v] = "no replica left"
             /\ NothingIsLeftToAsk(call'[v], ReplicasInOrder[v], next'[v])
             /\ call[v][p] = "covers" => Cardinality(covering'[v]) # N
    <3>1. Outstanding(call'[v]) = {} /\ next'[v] > Len(ReplicasInOrder[v])
      BY <2>3 DEF NothingIsLeftToAsk
    <3>2. \A i \in ReplicasOf(v) : ReplicasInOrder[v][i] \in chosen'
      BY <1>2, <3>1, PassedAll DEF PassedAreChosen
    <3>3. Cardinality(covering'[v]) < N
      <4>1. CASE call[v][p] = "covers"
        <5>1. covering'[v] = covering[v] \cup {p}
          BY <1>6, <4>1 DEF HearsOfTheEnd
        <5>2. Cardinality(covering[v] \cup {p})
                = IF p \in covering[v] THEN Cardinality(covering[v])
                  ELSE Cardinality(covering[v]) + 1
          BY <2>1, FS_AddElement
        <5> QED
          <6>1. N \in Nat /\ Cardinality(covering'[v]) # N
            BY <2>3, <4>1, AsksAssumption
          <6>2. Cardinality(covering'[v]) \in {Cardinality(covering[v]), Cardinality(covering[v]) + 1}
            BY <5>1, <5>2
          <6> QED
            BY <2>1, <6>1, <6>2
      <4>2. CASE call[v][p] # "covers"
        BY <1>6, <2>1, <4>2 DEF HearsOfTheEnd
      <4> QED
        BY <4>1, <4>2
    <3> QED
      BY <2>3, <3>1, <3>2, <3>3 DEF IsSettledAsItSays
  <2>4. CASE settledBy'[v] = "deadline" \/ settledBy'[v] = settledBy[v]
    BY <1>4, <2>1, <2>4
  <2> QED
    BY <1>6, <2>2, <2>3, <2>4 DEF HearsOfTheEnd, SettlesBy, Stays
<1>7. CASE IsChosenFor(v) \/ HearsOfAHedge(v) \/ IsLate(v) \/ ACallEnds(v)
  <2>1. settledBy[v] = "none"
    BY <1>7 DEF IsChosenFor, HearsOfAHedge, IsLate, ACallEnds, AmountsInv, AmountInv,
                BeforeItAsks, WhileItAsks
  <2>2. settledBy'[v] = "deadline" \/ settledBy'[v] = settledBy[v]
    BY <1>7 DEF IsChosenFor, HearsOfAHedge, IsLate, ACallEnds, SettlesBy, Stays
  <2> QED
    BY <1>4, <2>1, <2>2
<1> QED
  BY <1>3, <1>5, <1>6, <1>7, StepsOfOne DEF OneChanges, Changes

LEMMA SettledAtFirst == Init => SettledAsTheySay
BY DEF Init, SettledAsTheySay

\* What an ask is said to be settled by is so.
THEOREM SettlingIsHonest == Spec => []SettledAsTheySay
BY SettledAtFirst, SettledKept, AmountsAtFirst, AmountsKept, ChosenAtFirst, ChosenKept,
   TypesHold, PTL DEF Spec

-----------------------------------------------------------------------------
(* The amount of unsettled word partitions and the settled asks *)

Unsettled == {wp \in WordPartitions : stage[wp] \in {"asking", "settled"}}

UnsettledInv == unsettled = Cardinality(Unsettled)

UnreadInv ==
  /\ \A i \in DOMAIN unread : stage[unread[i]] = "kept"
  /\ \A i, j \in DOMAIN unread : unread[i] = unread[j] => i = j

LEMMA UnsettledAreFinite ==
  /\ IsFiniteSet(Unsettled) /\ Cardinality(Unsettled) \in Nat
  /\ \A S \in SUBSET WordPartitions : IsFiniteSet(S) /\ Cardinality(S) \in Nat
<1>1. Unsettled \in SUBSET WordPartitions
  BY DEF Unsettled
<1> QED
  BY <1>1, FS_Subset, FS_CardinalityType, AsksAssumption

\* Steps that neither start word partitions nor take settled ones.
LEMMA OtherStages ==
  ASSUME Types, [Next]_vars, ~StartAsking,
         \A wp \in WordPartitions : ~TakeTheSettledWordPartition(wp)
  PROVE  /\ unsettled' = unsettled
         /\ unread' = unread \/ (unread # <<>> /\ unread' = Tail(unread))
         /\ stage' \in [WordPartitions -> Stages]
         /\ \A w \in WordPartitions :
              \/ stage'[w] = stage[w]
              \/ stage[w] \in {"absent", "choosing"} /\ stage'[w] \in {"choosing", "ready"}
              \/ stage[w] = "asking" /\ stage'[w] = "settled"
<1>0. stage' \in [WordPartitions -> Stages]
  BY AskTypesKept, TypesInParts DEF AskTypes
<1> DEFINE Goal ==
             /\ unsettled' = unsettled
             /\ unread' = unread \/ (unread # <<>> /\ unread' = Tail(unread))
             /\ \A w \in WordPartitions :
                  \/ stage'[w] = stage[w]
                  \/ stage[w] \in {"absent", "choosing"} /\ stage'[w] \in {"choosing", "ready"}
                  \/ stage[w] = "asking" /\ stage'[w] = "settled"
<1> SUFFICES Goal
  BY <1>0
<1>a. ASSUME stage' = stage, unsettled' = unsettled,
              unread' = unread \/ (unread # <<>> /\ unread' = Tail(unread))
       PROVE  Goal
  BY <1>a
<1>b. ASSUME NEW v \in WordPartitions, NEW s \in {"choosing", "ready"},
              stage[v] \in {"absent", "choosing"}, stage' = [stage EXCEPT ![v] = s],
              unsettled' = unsettled, unread' = unread
       PROVE  Goal
  BY <1>b DEF Types
<1>1. CASE ChooseAFirstReplica
  <2>1. Head(batch) \in WordPartitions
    BY <1>1, HeadTailProperties DEF ChooseAFirstReplica, Types
  <2>2. stage[Head(batch)] \in {"absent", "choosing"}
    BY <1>1 DEF ChooseAFirstReplica, AlreadyInTheRun
  <2>3. \/ stage' = [stage EXCEPT ![Head(batch)] = "ready"]
        \/ stage' = [stage EXCEPT ![Head(batch)] = "choosing"]
    BY <1>1 DEF ChooseAFirstReplica
  <2>4. unsettled' = unsettled /\ unread' = unread
    BY <1>1 DEF ChooseAFirstReplica
  <2> HIDE DEF Goal
  <2> QED
    BY <1>b, <2>1, <2>2, <2>3, <2>4
<1>2. ASSUME NEW v \in WordPartitions, stage[v] = "asking",
             unsettled' = unsettled, unread' = unread,
             stage' = stage \/ stage' = [stage EXCEPT ![v] = "settled"]
      PROVE  Goal
  BY <1>2 DEF Types
<1>3. ASSUME NEW v \in WordPartitions, SettleByDeadline(v) PROVE Goal
  BY <1>2, <1>3 DEF SettleByDeadline, Settle, runVars
<1>4. ASSUME NEW v \in WordPartitions, NEW p \in Peers, TakeTheHedgeDue(v, p) PROVE Goal
  <2>1. stage' = stage \/ stage' = [stage EXCEPT ![v] = "settled"]
    BY <1>4 DEF TakeTheHedgeDue, GoOn, Settle
  <2> QED
    BY <1>2, <1>4, <2>1 DEF TakeTheHedgeDue, runVars
<1>5. ASSUME NEW v \in WordPartitions, NEW p \in Peers, TakeTheCallOutcome(v, p) PROVE Goal
  <2>1. \/ Settle(v, "coverage") \/ Settle(v, "no replica left") \/ GoOn(v, {})
    BY <1>5 DEF TakeTheCallOutcome
  <2>2. stage' = stage \/ stage' = [stage EXCEPT ![v] = "settled"]
    BY <2>1 DEF GoOn, Settle
  <2> QED
    BY <1>2, <1>5, <2>2 DEF TakeTheCallOutcome, runVars
<1>6. ASSUME NEW v \in WordPartitions, NEW p \in Peers, NEW outcome \in Outcomes,
             CallEnds(v, p, outcome)
      PROVE  Goal
  BY <1>6 DEF CallEnds, runVars
<1>7. CASE ReadTheNextSettledAsk
  <2>1. stage' = stage /\ unsettled' = unsettled /\ unread # <<>> /\ unread' = Tail(unread)
    BY <1>7 DEF ReadTheNextSettledAsk, askVars
  <2> HIDE DEF Goal
  <2> QED
    BY <1>a, <2>1
<1>8. ASSUME NEW asks \in Batches, Send(asks) PROVE Goal
  BY <1>8 DEF Send, askVars
<1>9. CASE CloseTheAsks \/ SkipTheAsk \/ TakeTheClose \/ EndTheRun \/ DeadlinePasses
             \/ Finished \/ UNCHANGED vars
  <2>1. stage' = stage /\ unsettled' = unsettled /\ unread' = unread
    BY <1>9 DEF CloseTheAsks, SkipTheAsk, TakeTheClose, EndTheRun, DeadlinePasses, Finished,
                vars, askVars, runVars
  <2> HIDE DEF Goal
  <2> QED
    BY <1>a, <2>1
<1> HIDE DEF Goal
<1> QED
  BY <1>1, <1>3, <1>4, <1>5, <1>6, <1>7, <1>8, <1>9 DEF Next, Run, Goroutine

LEMMA UnsettledKept == Types /\ UnsettledInv /\ [Next]_vars => UnsettledInv'
<1> SUFFICES ASSUME Types, UnsettledInv, [Next]_vars PROVE UnsettledInv'
  OBVIOUS
<1>1. CASE StartAsking
  <2> DEFINE added == {wp \in WordPartitions : stage[wp] = "ready"}
  <2>1. unsettled' = unsettled + Cardinality(added)
    BY <1>1 DEF StartAsking, AmountOf
  <2>2. ASSUME NEW w \in WordPartitions
        PROVE  IF w \in added THEN stage'[w] \in {"asking", "settled"} ELSE stage'[w] = stage[w]
    <3> DEFINE idle == {wp \in added : NothingIsLeftToAsk(Started(wp), ReplicasInOrder[wp], next[wp])}
               settled == IF deadline THEN added ELSE idle
    <3>1. stage' = [wp \in WordPartitions |->
                     IF wp \in settled THEN "settled"
                     ELSE IF wp \in added THEN "asking" ELSE stage[wp]]
      BY <1>1 DEF StartAsking
    <3>2. settled \subseteq added
      OBVIOUS
    <3> QED
      BY <3>1, <3>2
  <2>3. Unsettled' = Unsettled \cup added /\ Unsettled \cap added = {}
    BY <2>2 DEF Unsettled
  <2>4. /\ IsFiniteSet(Unsettled) /\ Cardinality(Unsettled) \in Nat
        /\ IsFiniteSet(added) /\ Cardinality(added) \in Nat
    BY UnsettledAreFinite
  <2>5. Cardinality({}) = 0
    BY FS_EmptySet
  <2>6. Cardinality(Unsettled \cup added)
          = Cardinality(Unsettled) + Cardinality(added) - Cardinality(Unsettled \cap added)
    BY <2>4, FS_Union
  <2> HIDE DEF added
  <2>7. Cardinality(Unsettled \cap added) = 0
    BY <2>3, <2>5
  <2>8. Cardinality(Unsettled') = Cardinality(Unsettled \cup added)
    BY <2>3
  <2> QED
    BY <2>1, <2>4, <2>6, <2>7, <2>8 DEF UnsettledInv
<1>2. ASSUME NEW wp \in WordPartitions, TakeTheSettledWordPartition(wp)
      PROVE  UnsettledInv'
  <2>1. /\ wp \in Unsettled /\ unsettled' = unsettled - 1
        /\ \A w \in WordPartitions : stage'[w] = IF w = wp THEN "kept" ELSE stage[w]
    BY <1>2 DEF TakeTheSettledWordPartition, Types, Unsettled
  <2>2. Unsettled' = Unsettled \ {wp}
    BY <2>1 DEF Unsettled
  <2>3. Cardinality(Unsettled \ {wp}) = Cardinality(Unsettled) - 1
    BY <2>1, UnsettledAreFinite, FS_RemoveElement
  <2> QED
    BY <2>1, <2>2, <2>3 DEF UnsettledInv
<1>3. CASE ~StartAsking /\ \A wp \in WordPartitions : ~TakeTheSettledWordPartition(wp)
  <2>1. unsettled' = unsettled /\ Unsettled' = Unsettled
    BY <1>3, OtherStages DEF Unsettled
  <2> QED
    BY <2>1 DEF UnsettledInv
<1> QED
  BY <1>1, <1>2, <1>3

LEMMA UnreadKept == Types /\ UnreadInv /\ [Next]_vars => UnreadInv'
<1> SUFFICES ASSUME Types, UnreadInv, [Next]_vars PROVE UnreadInv'
  OBVIOUS
<1>0. /\ unread \in Seq(WordPartitions) /\ Len(unread) \in Nat
      /\ DOMAIN unread = 1 .. Len(unread)
      /\ \A i \in DOMAIN unread : unread[i] \in WordPartitions
  BY LenProperties, ElementOfSeq DEF Types
<1>1. CASE StartAsking
  <2>1. unread' = unread
    BY <1>1 DEF StartAsking
  <2>2. \A w \in WordPartitions : stage[w] = "kept" => stage'[w] = "kept"
    BY <1>1 DEF StartAsking
  <2> QED
    BY <1>0, <2>1, <2>2 DEF UnreadInv
<1>2. ASSUME NEW wp \in WordPartitions, TakeTheSettledWordPartition(wp)
      PROVE  UnreadInv'
  <2>1. /\ stage[wp] = "settled" /\ unread' = Append(unread, wp)
        /\ \A w \in WordPartitions : stage'[w] = IF w = wp THEN "kept" ELSE stage[w]
    BY <1>2 DEF TakeTheSettledWordPartition, Types
  <2>2. /\ DOMAIN unread' = 1 .. Len(unread) + 1
        /\ \A i \in 1 .. Len(unread) : unread'[i] = unread[i]
        /\ unread'[Len(unread) + 1] = wp
    BY <1>0, <2>1, AppendProperties
  <2>3. \A i \in DOMAIN unread : unread[i] # wp
    BY <2>1 DEF UnreadInv
  <2>4. \A i \in DOMAIN unread' : i \in DOMAIN unread \/ i = Len(unread) + 1
    BY <1>0, <2>2
  <2>5. \A i \in DOMAIN unread' : stage'[unread'[i]] = "kept"
    BY <1>0, <2>1, <2>2, <2>4 DEF UnreadInv
  <2>6. \A i, j \in DOMAIN unread' : unread'[i] = unread'[j] => i = j
    BY <1>0, <2>2, <2>3, <2>4 DEF UnreadInv
  <2> QED
    BY <2>5, <2>6 DEF UnreadInv
<1>3. CASE ~StartAsking /\ \A wp \in WordPartitions : ~TakeTheSettledWordPartition(wp)
  <2>1. \A w \in WordPartitions : stage[w] = "kept" => stage'[w] = "kept"
    BY <1>3, OtherStages
  <2>2. CASE unread' = unread
    BY <1>0, <2>1, <2>2 DEF UnreadInv
  <2>3. CASE unread # <<>> /\ unread' = Tail(unread)
    <3>1. /\ DOMAIN unread' = 1 .. Len(unread) - 1
          /\ \A i \in DOMAIN unread' : i + 1 \in DOMAIN unread /\ unread'[i] = unread[i + 1]
      BY <1>0, <2>3, HeadTailProperties, LenProperties
    <3> QED
      BY <1>0, <2>1, <3>1 DEF UnreadInv
  <2> QED
    BY <1>3, <2>2, <2>3, OtherStages
<1> QED
  BY <1>1, <1>2, <1>3

LEMMA UnsettledAtFirst == Init => UnsettledInv /\ UnreadInv
<1> SUFFICES ASSUME Init PROVE UnsettledInv /\ UnreadInv
  OBVIOUS
<1>1. Unsettled = {}
  BY DEF Init, Unsettled
<1>2. Cardinality({}) = 0
  BY FS_EmptySet
<1>3. UnsettledInv
  BY <1>1, <1>2 DEF Init, UnsettledInv
<1>4. DOMAIN unread = {}
  BY DEF Init
<1> QED
  BY <1>3, <1>4 DEF UnreadInv

\* Types, the amount of unsettled word partitions, and settled asks queued once.
THEOREM TypeCorrect == Spec => []TypeOK
<1>1. Types /\ UnsettledInv /\ UnreadInv => TypeOK
  BY DEF Types, UnsettledInv, Unsettled, UnreadInv, TypeOK
<1> QED
  BY <1>1, UnsettledAtFirst, UnsettledKept, UnreadKept, TypesHold, PTL DEF Spec

-----------------------------------------------------------------------------
(* A run that ended was read to its end *)

IsInBatch(w) == \E i \in DOMAIN batch : batch[i] = w

IsUnread(w) == \E i \in DOMAIN unread : unread[i] = w

BeforeAsking == {"absent", "choosing", "ready"}

\* A word partition without a settled ask read of it is on its way to one: in the batch, being
\* asked, or among those to read. Each was sent once, and what is sent twice in one batch is
\* skipped before the first of them is started.
PendingInv ==
  /\ \A w \in WordPartitions : stage[w] # "absent" => w \in sent
  /\ \A i \in DOMAIN batch : batch[i] \in sent /\ stage[batch[i]] \in BeforeAsking
  /\ ~open => RunWaits
  /\ \A w \in pending :
       IsInBatch(w) \/ IsUnread(w) \/ stage[w] \in {"choosing", "ready", "asking", "settled"}
  /\ over => ~open /\ pending = {}

\* When the run ends the inquiry has read the settled ask of every word partition it sent.
EndedRunsAreRead == over => pending = {}

LEMMA TailsAndHeads ==
  ASSUME NEW s \in Seq(WordPartitions), s # <<>>
  PROVE  /\ Head(s) \in WordPartitions /\ 1 \in DOMAIN s /\ s[1] = Head(s)
         /\ \A i \in DOMAIN Tail(s) : i + 1 \in DOMAIN s /\ Tail(s)[i] = s[i + 1]
         /\ \A i \in DOMAIN s : s[i] = Head(s) \/ \E j \in DOMAIN Tail(s) : Tail(s)[j] = s[i]
<1>1. /\ Len(s) \in Nat \ {0} /\ DOMAIN s = 1 .. Len(s)
      /\ Tail(s) \in Seq(WordPartitions) /\ Len(Tail(s)) = Len(s) - 1
      /\ DOMAIN Tail(s) = 1 .. Len(s) - 1
      /\ \A i \in 1 .. Len(s) - 1 : Tail(s)[i] = s[i + 1]
      /\ Head(s) = s[1] /\ Head(s) \in WordPartitions
  BY HeadTailProperties, LenProperties, EmptySeq
<1>2. ASSUME NEW i \in DOMAIN s
      PROVE  s[i] = Head(s) \/ \E j \in DOMAIN Tail(s) : Tail(s)[j] = s[i]
  <2>1. CASE i = 1
    BY <1>1, <2>1
  <2>2. CASE i # 1
    <3>1. i - 1 \in DOMAIN Tail(s) /\ Tail(s)[i - 1] = s[i]
      BY <1>1, <2>2
    <3> QED
      BY <3>1
  <2> QED
    BY <2>1, <2>2
<1> QED
  BY <1>1, <1>2

LEMMA SendKeepsPending ==
  ASSUME Types, PendingInv, NEW asks \in Batches, Send(asks)
  PROVE  PendingInv'
<1> DEFINE keys == {asks[i] : i \in DOMAIN asks}
<1>1. /\ open /\ batch' = asks /\ sent' = sent \cup keys /\ pending' = pending \cup keys
      /\ open' = open /\ over' = over /\ unread' = unread /\ stage' = stage
      /\ \A i \in DOMAIN asks : asks[i] \notin sent
      /\ batch = <<>>
  BY DEF Send, askVars, RunWaits
<1>2. asks \in Seq(WordPartitions)
  BY AsksAssumption
<1>3. \A i \in DOMAIN asks : asks[i] \in WordPartitions /\ asks[i] \in keys
  BY <1>2, ElementOfSeq, LenProperties
<1>4. \A i \in DOMAIN batch' : batch'[i] \in sent' /\ stage'[batch'[i]] \in BeforeAsking
  BY <1>1, <1>3 DEF PendingInv, BeforeAsking
<1>5. ASSUME NEW w \in pending'
      PROVE  (IsInBatch(w) \/ IsUnread(w) \/ stage[w] \in {"choosing", "ready", "asking", "settled"})'
  <2>1. CASE w \in keys
    BY <1>1, <2>1 DEF IsInBatch
  <2>2. CASE w \in pending
    <3>1. ~IsInBatch(w)
      BY <1>1 DEF IsInBatch
    <3> QED
      BY <1>1, <2>2, <3>1 DEF PendingInv, IsUnread
  <2> QED
    BY <1>1, <2>1, <2>2
<1>6. ~over
  BY <1>1 DEF PendingInv
<1> HIDE DEF keys
<1> QED
  BY <1>1, <1>4, <1>5, <1>6 DEF PendingInv

LEMMA ReadingKeepsPending ==
  ASSUME Types, PendingInv, ReadTheNextSettledAsk
  PROVE  PendingInv'
<1>1. /\ unread # <<>> /\ unread' = Tail(unread) /\ pending' = pending \ {Head(unread)}
      /\ UNCHANGED <<sent, open, batch, over, stage>>
  BY DEF ReadTheNextSettledAsk, askVars
<1>2. unread \in Seq(WordPartitions)
  BY DEF Types
<1>3. ASSUME NEW w \in pending'
      PROVE  (IsInBatch(w) \/ IsUnread(w) \/ stage[w] \in {"choosing", "ready", "asking", "settled"})'
  <2>1. w \in pending /\ w # Head(unread)
    BY <1>1, <1>3
  <2>2. CASE IsUnread(w)
    <3>1. PICK i \in DOMAIN unread : unread[i] = w
      BY <2>2 DEF IsUnread
    <3>2. \E j \in DOMAIN Tail(unread) : Tail(unread)[j] = w
      BY <1>1, <1>2, <2>1, <3>1, TailsAndHeads
    <3> QED
      BY <1>1, <3>2 DEF IsUnread
  <2>3. CASE ~IsUnread(w)
    BY <1>1, <2>1, <2>3 DEF PendingInv, IsInBatch
  <2> QED
    BY <2>2, <2>3
<1>4. pending' \subseteq pending
  BY <1>1
<1>5. RunWaits' <=> RunWaits
  BY <1>1 DEF RunWaits
<1> QED
  BY <1>1, <1>3, <1>4, <1>5 DEF PendingInv

LEMMA SkippingKeepsPending ==
  ASSUME Types, PendingInv, SkipTheAsk
  PROVE  PendingInv'
<1>1. /\ batch # <<>> /\ batch' = Tail(batch) /\ stage[Head(batch)] \notin {"absent", "choosing"}
      /\ UNCHANGED <<sent, pending, open, unread, over, stage>>
  BY DEF SkipTheAsk, AlreadyInTheRun, inquiryVars, askVars
<1>2. batch \in Seq(WordPartitions)
  BY DEF Types
<1>3. open
  BY <1>1 DEF PendingInv, RunWaits
<1>4. \A i \in DOMAIN batch' : batch'[i] \in sent' /\ stage'[batch'[i]] \in BeforeAsking
  BY <1>1, <1>2, TailsAndHeads DEF PendingInv
<1>5. stage[Head(batch)] = "ready"
  BY <1>1, <1>2, TailsAndHeads DEF PendingInv, BeforeAsking
<1>6. ASSUME NEW w \in pending'
      PROVE  (IsInBatch(w) \/ IsUnread(w) \/ stage[w] \in {"choosing", "ready", "asking", "settled"})'
  <2>1. CASE IsInBatch(w) /\ w # Head(batch)
    <3>1. PICK i \in DOMAIN batch : batch[i] = w
      BY <2>1 DEF IsInBatch
    <3>2. \E j \in DOMAIN Tail(batch) : Tail(batch)[j] = w
      BY <1>1, <1>2, <2>1, <3>1, TailsAndHeads
    <3> QED
      BY <1>1, <3>2 DEF IsInBatch
  <2>2. CASE w = Head(batch)
    BY <1>1, <1>5, <2>2
  <2>3. CASE ~IsInBatch(w)
    BY <1>1, <2>3 DEF PendingInv, IsUnread
  <2> QED
    BY <2>1, <2>2, <2>3
<1> QED
  BY <1>1, <1>3, <1>4, <1>6 DEF PendingInv

LEMMA ChoosingKeepsPending ==
  ASSUME Types, PendingInv, ChooseAFirstReplica
  PROVE  PendingInv'
<1> DEFINE wp == Head(batch)
<1>1. /\ batch # <<>> /\ stage[wp] \in {"absent", "choosing"}
      /\ UNCHANGED <<sent, pending, open, unread, over>>
      /\ \/ batch' = Tail(batch) /\ stage' = [stage EXCEPT ![wp] = "ready"]
         \/ batch' = batch /\ stage' = [stage EXCEPT ![wp] = "choosing"]
  BY DEF ChooseAFirstReplica, AlreadyInTheRun, inquiryVars
<1>2. batch \in Seq(WordPartitions)
  BY DEF Types
<1>3. open
  BY <1>1 DEF PendingInv, RunWaits
<1>4. wp \in WordPartitions /\ wp \in sent
  BY <1>1, <1>2, TailsAndHeads DEF PendingInv
<1>5. /\ stage'[wp] \in {"choosing", "ready"}
      /\ \A w \in WordPartitions : w # wp => stage'[w] = stage[w]
  BY <1>1, <1>4 DEF Types
<1>6. \A i \in DOMAIN batch' : batch'[i] \in sent /\ stage[batch'[i]] \in BeforeAsking
  <2>1. \A i \in DOMAIN batch : batch[i] \in sent /\ stage[batch[i]] \in BeforeAsking
    BY DEF PendingInv
  <2>2. CASE batch' = batch
    BY <2>1, <2>2
  <2>3. CASE batch' = Tail(batch)
    <3>1. \A i \in DOMAIN Tail(batch) : i + 1 \in DOMAIN batch /\ Tail(batch)[i] = batch[i + 1]
      BY <1>1, <1>2, TailsAndHeads
    <3> QED
      BY <2>1, <2>3, <3>1
  <2> QED
    BY <1>1, <2>2, <2>3
<1>7. \A i \in DOMAIN batch' : batch'[i] \in sent' /\ stage'[batch'[i]] \in BeforeAsking
  BY <1>1, <1>5, <1>6 DEF BeforeAsking, Types
<1>8. ASSUME NEW w \in pending'
      PROVE  (IsInBatch(w) \/ IsUnread(w) \/ stage[w] \in {"choosing", "ready", "asking", "settled"})'
  <2>0. w \in pending /\ w \in WordPartitions
    BY <1>1, <1>8 DEF Types
  <2>1. CASE IsInBatch(w) /\ w # wp
    <3>1. PICK i \in DOMAIN batch : batch[i] = w
      BY <2>1 DEF IsInBatch
    <3>2. \E j \in DOMAIN batch' : batch'[j] = w
      BY <1>1, <1>2, <2>1, <3>1, TailsAndHeads
    <3> QED
      BY <3>2 DEF IsInBatch
  <2>2. CASE w = wp
    BY <1>5, <2>2
  <2>3. CASE ~IsInBatch(w) /\ w # wp
    BY <1>1, <1>5, <2>0, <2>3 DEF PendingInv, IsUnread
  <2> QED
    BY <2>1, <2>2, <2>3
<1>9. \A w \in WordPartitions : stage'[w] # "absent" => w \in sent'
  BY <1>1, <1>4, <1>5 DEF PendingInv
<1> HIDE DEF wp
<1> QED
  BY <1>1, <1>3, <1>7, <1>8, <1>9 DEF PendingInv

LEMMA StartingKeepsPending ==
  ASSUME Types, PendingInv, StartAsking
  PROVE  PendingInv'
<1> DEFINE added == {wp \in WordPartitions : stage[wp] = "ready"}
<1>1. /\ batch = <<>> /\ added # {}
      /\ UNCHANGED <<sent, pending, open, batch, unread, over>>
  BY DEF StartAsking, inquiryVars
<1>2. \A w \in WordPartitions :
        IF w \in added THEN stage'[w] \in {"asking", "settled"} ELSE stage'[w] = stage[w]
  BY DEF StartAsking
<1>3. open
  BY <1>1 DEF PendingInv, RunWaits
<1>4. ASSUME NEW w \in pending'
      PROVE  (IsInBatch(w) \/ IsUnread(w) \/ stage[w] \in {"choosing", "ready", "asking", "settled"})'
  <2>1. w \in WordPartitions /\ w \in pending /\ ~IsInBatch(w)
    BY <1>1, <1>4 DEF Types, IsInBatch
  <2> QED
    BY <1>1, <1>2, <2>1 DEF PendingInv, IsUnread
<1>5. \A w \in WordPartitions : stage'[w] # "absent" => w \in sent'
  BY <1>1, <1>2 DEF PendingInv
<1>6. DOMAIN batch' = {}
  BY <1>1
<1> QED
  BY <1>1, <1>3, <1>4, <1>5, <1>6 DEF PendingInv

\* What a word partition gets to while it is asked, and what the run takes of it.
LEMMA AskingKeepsPending ==
  ASSUME Types, PendingInv, NEW wp \in WordPartitions,
         UNCHANGED <<sent, pending, open, batch, over>>,
         \/ stage[wp] = "asking" /\ unread' = unread
              /\ (stage' = stage \/ stage' = [stage EXCEPT ![wp] = "settled"])
         \/ /\ stage[wp] = "settled" /\ stage' = [stage EXCEPT ![wp] = "kept"]
            /\ unread' = Append(unread, wp)
  PROVE  PendingInv'
<1>1. \A w \in WordPartitions : w # wp => stage'[w] = stage[w]
  BY DEF Types
<1>2. \/ stage'[wp] \in {"asking", "settled"}
      \/ stage'[wp] = "kept" /\ unread' = Append(unread, wp)
  BY DEF Types
<1>3. unread \in Seq(WordPartitions)
  BY DEF Types
<1>4. \A w \in WordPartitions : IsUnread(w) => IsUnread(w)'
  <2>1. CASE unread' = unread
    BY <2>1 DEF IsUnread
  <2>2. CASE unread' = Append(unread, wp)
    <3>1. \A i \in DOMAIN unread : i \in DOMAIN unread' /\ unread'[i] = unread[i]
      BY <1>3, <2>2, AppendProperties, LenProperties
    <3> QED
      BY <3>1 DEF IsUnread
  <2> QED
    BY <2>1, <2>2
<1>5. stage'[wp] = "kept" => IsUnread(wp)'
  <2> SUFFICES ASSUME unread' = Append(unread, wp) PROVE IsUnread(wp)'
    BY <1>2
  <2>1. Len(unread) + 1 \in DOMAIN unread' /\ unread'[Len(unread) + 1] = wp
    BY <1>3, AppendProperties, LenProperties
  <2> QED
    BY <2>1 DEF IsUnread
<1>6. \A i \in DOMAIN batch : batch[i] \in sent /\ stage[batch[i]] \in BeforeAsking
  BY DEF PendingInv
<1>7. \A i \in DOMAIN batch : batch[i] \in WordPartitions /\ batch[i] # wp
  BY <1>6 DEF Types, BeforeAsking
<1>8. \A i \in DOMAIN batch' : batch'[i] \in sent' /\ stage'[batch'[i]] \in BeforeAsking
  BY <1>1, <1>6, <1>7
<1>9. ASSUME NEW w \in pending'
      PROVE  (IsInBatch(w) \/ IsUnread(w) \/ stage[w] \in {"choosing", "ready", "asking", "settled"})'
  <2>1. w \in pending /\ w \in WordPartitions
    BY <1>9 DEF Types
  <2>2. IsInBatch(w)' <=> IsInBatch(w)
    BY DEF IsInBatch
  <2> QED
    BY <1>1, <1>2, <1>4, <1>5, <2>1, <2>2 DEF PendingInv
<1>10. \A w \in WordPartitions : stage'[w] # "absent" => w \in sent'
  <2>1. stage[wp] # "absent"
    OBVIOUS
  <2> QED
    BY <1>1, <2>1 DEF PendingInv
<1>11. RunWaits => RunWaits'
  BY <1>1, <1>2 DEF RunWaits
<1> QED
  BY <1>8, <1>9, <1>10, <1>11 DEF PendingInv

LEMMA EndingKeepsPending ==
  ASSUME Types, PendingInv, UnsettledInv, EndTheRun
  PROVE  PendingInv'
<1>1. /\ ~open /\ unsettled = 0 /\ unread = <<>>
      /\ UNCHANGED <<sent, pending, open, batch, unread, stage>>
  BY DEF EndTheRun, IsOver, inquiryVars, askVars
<1>2. /\ batch = <<>>
      /\ \A w \in WordPartitions : stage[w] \notin {"choosing", "ready"}
  BY <1>1 DEF PendingInv, RunWaits
<1>3. Unsettled = {}
  BY <1>1, UnsettledAreFinite, FS_EmptySet DEF UnsettledInv
<1>4. pending = {}
  <2> SUFFICES ASSUME NEW w \in pending PROVE FALSE
    OBVIOUS
  <2>1. w \in WordPartitions
    BY DEF Types
  <2>2. ~IsInBatch(w) /\ ~IsUnread(w)
    BY <1>1, <1>2 DEF IsInBatch, IsUnread
  <2>3. stage[w] \notin {"choosing", "ready", "asking", "settled"}
    BY <1>2, <1>3, <2>1 DEF Unsettled
  <2> QED
    BY <2>2, <2>3 DEF PendingInv
<1>5. RunWaits'
  BY <1>1, <1>2 DEF RunWaits
<1> QED
  BY <1>1, <1>4, <1>5 DEF PendingInv, IsInBatch, IsUnread

LEMMA PendingKept == Types /\ UnsettledInv /\ PendingInv /\ [Next]_vars => PendingInv'
<1> SUFFICES ASSUME Types, UnsettledInv, PendingInv, [Next]_vars PROVE PendingInv'
  OBVIOUS
<1>1. ASSUME NEW asks \in Batches, Send(asks) PROVE PendingInv'
  BY <1>1, SendKeepsPending
<1>2. CASE ReadTheNextSettledAsk \/ SkipTheAsk \/ ChooseAFirstReplica \/ StartAsking \/ EndTheRun
  BY <1>2, ReadingKeepsPending, SkippingKeepsPending, ChoosingKeepsPending,
     StartingKeepsPending, EndingKeepsPending
<1>3. ASSUME NEW wp \in WordPartitions, TakeTheSettledWordPartition(wp) PROVE PendingInv'
  <2>1. UNCHANGED <<sent, pending, open, batch, over>>
    BY <1>3 DEF TakeTheSettledWordPartition, inquiryVars
  <2>2. /\ stage[wp] = "settled" /\ stage' = [stage EXCEPT ![wp] = "kept"]
        /\ unread' = Append(unread, wp)
    BY <1>3 DEF TakeTheSettledWordPartition
  <2> QED
    BY <2>1, <2>2, AskingKeepsPending
<1>4. ASSUME NEW wp \in WordPartitions,
             \/ Goroutine(wp)
             \/ \E p \in Peers, outcome \in Outcomes : CallEnds(wp, p, outcome)
      PROVE PendingInv'
  <2>1. stage[wp] = "asking" /\ UNCHANGED <<sent, pending, open, batch, over, unread>>
    BY <1>4 DEF Goroutine, SettleByDeadline, TakeTheHedgeDue, TakeTheCallOutcome, CallEnds,
                inquiryVars, runVars
  <2>2. ASSUME NEW p \in Peers, TakeTheCallOutcome(wp, p)
        PROVE  Settle(wp, "coverage") \/ Settle(wp, "no replica left") \/ GoOn(wp, {})
    BY <2>2 DEF TakeTheCallOutcome
  <2>3. stage' = stage \/ stage' = [stage EXCEPT ![wp] = "settled"]
    BY <1>4, <2>2 DEF Goroutine, SettleByDeadline, TakeTheHedgeDue, CallEnds, GoOn, Settle
  <2> QED
    BY <2>1, <2>3, AskingKeepsPending
<1>5. CASE TakeTheClose
  <2>1. /\ RunWaits /\ open' = FALSE /\ open
        /\ UNCHANGED <<sent, pending, batch, unread, over, stage>>
    BY <1>5 DEF TakeTheClose, inquiryVars, askVars
  <2>2. RunWaits'
    BY <2>1 DEF RunWaits
  <2> QED
    BY <2>1, <2>2 DEF PendingInv, IsInBatch, IsUnread
<1>6. CASE CloseTheAsks \/ DeadlinePasses \/ Finished \/ UNCHANGED vars
  <2>1. UNCHANGED <<sent, pending, open, batch, unread, over, stage>>
    BY <1>6 DEF CloseTheAsks, DeadlinePasses, Finished, vars, inquiryVars, runVars, askVars
  <2>2. RunWaits => RunWaits'
    BY <2>1 DEF RunWaits
  <2> QED
    BY <2>1, <2>2 DEF PendingInv, IsInBatch, IsUnread
<1> QED
  BY <1>1, <1>2, <1>3, <1>4, <1>5, <1>6 DEF Next, Run

\* The safety side of the end of a run: when the run closed the settled asks, the inquiry has
\* read one for every word partition it sent, whatever deadline, hedges and answers came first
\* (wordPartitionsOf, takeTheSettledWordPartition and isOver of the open run).
THEOREM EndedRunsWereRead == Spec => []EndedRunsAreRead
<1>1. Init => PendingInv
  BY DEF Init, PendingInv, RunWaits
<1>2. PendingInv => EndedRunsAreRead
  BY DEF PendingInv, EndedRunsAreRead
<1> QED
  BY <1>1, <1>2, PendingKept, UnsettledAtFirst, UnsettledKept, TypesHold, PTL DEF Spec
=============================================================================
