------------------------ MODULE PostingDistribution ------------------------
(***************************************************************************)
(* What one word partition goes through in the distribution of postings:   *)
(* postings are admitted, offered to the peers the ring makes responsible, *)
(* accepted or not, marked delivered, and deleted once enough responsible  *)
(* peers hold them.  When a worker takes it is ArcWalk's; here it may do   *)
(* so at any time the word partition is due.  Due times are times to go,   *)
(* so that time needs no bound.                                            *)
(***************************************************************************)
EXTENDS Integers, FiniteSets

CONSTANTS
  Peers,            \* the peers but this node
  Distance,         \* [Peers -> Nat]: steps clockwise from the word partition to a peer
  SelfDistance,     \* and to this node
  Redundancy,
  RefreshInterval,
  FirstRetryDelay,
  Postings,         \* URLs of the word partition's postings
  Declines,         \* peers that may stop to accept a remote index
  MaxVersion,       \* bounds of the model: versions of a posting,
  MaxAdmissions,    \* admissions,
  MaxChanges,       \* changes of what is known of peers,
  MaxExclusions,    \* exclusions and their ends,
  MaxMishaps        \* sends that fail in some part, failures of the vault, evictions

ASSUME DistributionAssumption ==
  /\ IsFiniteSet(Peers)
  /\ Distance \in [Peers -> Nat] /\ SelfDistance \in Nat
  /\ \A p, q \in Peers : Distance[p] = Distance[q] => p = q
  /\ \A p \in Peers : Distance[p] # SelfDistance
  /\ Redundancy \in Nat \ {0} /\ RefreshInterval \in Nat \ {0}
  /\ FirstRetryDelay \in 1 .. RefreshInterval
  /\ Declines \subseteq Peers
  /\ {MaxVersion, MaxAdmissions, MaxChanges, MaxExclusions, MaxMishaps} \subseteq Nat

VARIABLES
  version,      \* [posting]: what it says now, or said last
  stored,       \* postings this node stores
  undelivered,  \* postings recorded as undelivered
  admitted,     \* whether an admission is not scheduled yet
  entry,        \* the schedule's entry of the word partition, NoEntry without one
  contact,      \* [peer]: what the roster knows of it
  excluded,     \* peers the node excludes
  stage,        \* of the worker
  ring,         \* peers the worker read to be reachable that accept a remote index
  offer,        \* the offer it made
  answers,      \* [recipient]: postings it accepted and whether it accepted every transfer
  held,         \* [peer][posting]: last version it accepted, of which this node knows
  admissions, changes, exclusions, mishaps   \* so far

postingVars == <<version, stored, undelivered, admitted>>
peerVars == <<contact, excluded>>
workerVars == <<stage, ring, offer, answers>>
bounds == <<admissions, changes, exclusions, mishaps>>
vars == <<postingVars, entry, peerVars, workerVars, held, bounds>>

Versions == 0 .. MaxVersion
Times == 0 .. RefreshInterval

\* "accepting" and "refusing" peers are reachable; a "recent" one is not, yet was lately.
Contacts == {"accepting", "refusing", "recent", "gone"}
IsReachable(p) == contact[p] \in {"accepting", "refusing"}
IsRecentlyReachable(p) == contact[p] # "gone"

\* Times to go until the word partition is due and until its refresh is.
Entries == [holders : SUBSET Peers, dueIn : Times, retryDelay : Times, refreshIn : Times]
NoEntry == [holders |-> {}, dueIn |-> -1, retryDelay |-> 0, refreshIn |-> 0]

-----------------------------------------------------------------------------
(* Responsible peers *)

\* The first peers of a set, clockwise from the word partition.
FirstOf(peers, amount) ==
  {p \in peers : Cardinality({q \in peers : Distance[q] < Distance[p]}) < amount}

IsCloserThanSelf(p) == Distance[p] < SelfDistance

\* This node holds one of the copies unless enough peers are closer than it.
AmountOfRequiredHolders(peers) ==
  LET closest == FirstOf(peers, Redundancy) IN
  IF Cardinality(closest) = Redundancy /\ \A p \in closest : IsCloserThanSelf(p)
    THEN Redundancy ELSE Redundancy - 1

ResponsiblePeers(peers) == FirstOf(peers, AmountOfRequiredHolders(peers))

CoversWholeRing(peers) ==
  \/ AmountOfRequiredHolders(peers) = 0
  \/ Cardinality(FirstOf(peers, Redundancy)) < AmountOfRequiredHolders(peers)

\* Whether a peer is not farther than the farthest responsible one.
IsAmongResponsible(peers, p) ==
  CoversWholeRing(peers) \/ \E q \in ResponsiblePeers(peers) : Distance[p] <= Distance[q]

AcceptingPeers == ring \ excluded

\* Fault: an excluded holder is kept while it is reachable.
IsKeptThoughExcluded(p) ==
  IF IsReachable(p) THEN IsAmongResponsible(AcceptingPeers, p) ELSE IsRecentlyReachable(p)

IsKept(p) ==
  /\ p \notin excluded
  /\ IF IsReachable(p) THEN IsAmongResponsible(AcceptingPeers, p) ELSE IsRecentlyReachable(p)

KeptHolders == {p \in entry.holders : IsKept(p)}
HoldingPeers == AcceptingPeers \cap KeptHolders
MissingHolders ==
  FirstOf(AcceptingPeers \ entry.holders,
          AmountOfRequiredHolders(AcceptingPeers) - Cardinality(KeptHolders))

\* Fault: holders are left alone.
OnlyMissingHolders == MissingHolders

Recipients == HoldingPeers \cup MissingHolders

-----------------------------------------------------------------------------
(* Offers and what comes of them *)

NoOffer == [responsible |-> {}, recorded |-> {}, stale |-> {}, undelivered |-> {},
            versions |-> [p \in Postings |-> 0], isRefresh |-> FALSE,
            postings |-> [p \in {} |-> {}]]

IsRefreshDue == entry.refreshIn = 0

\* Holders get what is undelivered, unless a refresh is due or nothing is; missing
\* holders get everything.
DueOffer ==
  LET undeliveredOnly == undelivered # {} /\ ~IsRefreshDue IN
  [responsible |-> ResponsiblePeers(AcceptingPeers),
   recorded |-> entry.holders,
   stale |-> entry.holders \ KeptHolders,
   undelivered |-> undelivered,
   versions |-> version,
   isRefresh |-> ~undeliveredOnly \/ HoldingPeers = {},
   postings |-> [p \in Recipients |->
                   IF undeliveredOnly /\ p \in HoldingPeers THEN undelivered ELSE stored]]

Accepted(p) == IF p \in DOMAIN answers THEN answers[p].postings ELSE {}
HoldsEvery(p) == offer.postings[p] \subseteq Accepted(p)

\* A holder that answered a refresh without accepting all of it.
IsLostHolder(p) ==
  /\ offer.isRefresh /\ p \in DOMAIN answers
  /\ answers[p].isAccepted /\ ~HoldsEvery(p)

Holders ==
  {p \in offer.recorded \ offer.stale : ~IsLostHolder(p)}
    \cup {p \in DOMAIN offer.postings \ offer.recorded : HoldsEvery(p)}

\* Fault: one responsible peer is enough.
DeliveredToOne ==
  {u \in offer.undelivered : \E p \in offer.responsible : u \in Accepted(p)}

DeliveredPostings ==
  {u \in offer.undelivered : \A p \in offer.responsible : u \in Accepted(p)}

\* Fault: enough holders are enough, whatever they took of the offer.
HasEnoughHolders == Cardinality(Holders) >= Cardinality(offer.responsible)

IsAtRedundancy ==
  /\ Cardinality(Holders) >= Cardinality(offer.responsible)
  /\ DeliveredPostings = offer.undelivered

Lesser(a, b) == IF a < b THEN a ELSE b
Greater(a, b) == IF a > b THEN a ELSE b

\* Fault: the delay doubles without end.
EverDoubling(delay) == Greater(2 * delay, FirstRetryDelay)

RetryDelayAfter(delay) == Lesser(Greater(2 * delay, FirstRetryDelay), RefreshInterval)

RecordedEntry ==
  IF ~IsAtRedundancy
    THEN LET delay == RetryDelayAfter(entry.retryDelay)
         IN [entry EXCEPT !.holders = Holders, !.dueIn = delay, !.retryDelay = delay]
  ELSE IF offer.isRefresh
    THEN [holders |-> Holders, dueIn |-> RefreshInterval, retryDelay |-> 0,
          refreshIn |-> RefreshInterval]
  ELSE [entry EXCEPT !.holders = Holders, !.dueIn = entry.refreshIn, !.retryDelay = 0]

\* Fault: a posting counts as delivered whatever it says now.
AcknowledgedBlindly == DeliveredPostings \cap undelivered

\* A posting changed since it was offered stays undelivered.
Acknowledged ==
  {u \in DeliveredPostings \cap undelivered : version[u] = offer.versions[u]}

IsHeldByResponsiblePeers ==
  Cardinality({p \in Holders \cap offer.responsible : IsCloserThanSelf(p)}) >= Redundancy

IsHandedOff == IsHeldByResponsiblePeers /\ undelivered \ Acknowledged = {}

-----------------------------------------------------------------------------
Init ==
  /\ version = [u \in Postings |-> 0] /\ stored = {} /\ undelivered = {} /\ admitted = FALSE
  /\ entry = NoEntry
  /\ contact = [p \in Peers |-> "accepting"] /\ excluded = {}
  /\ stage = "idle" /\ ring = {} /\ offer = NoOffer /\ answers = [p \in {} |-> {}]
  /\ held = [p \in Peers |-> [u \in Postings |-> 0]]
  /\ admissions = 0 /\ changes = 0 /\ exclusions = 0 /\ mishaps = 0

BecomesIdle ==
  stage' = "idle" /\ ring' = {} /\ offer' = NoOffer /\ answers' = [p \in {} |-> {}]

\* A posting is new, changed, or written again as it is: each records it as undelivered.
Admit(u) ==
  /\ admissions < MaxAdmissions /\ admissions' = admissions + 1
  /\ \/ version[u] < MaxVersion /\ version' = [version EXCEPT ![u] = @ + 1]
     \/ u \in stored /\ UNCHANGED version
  /\ stored' = stored \cup {u} /\ undelivered' = undelivered \cup {u}
  /\ admitted' = TRUE
  /\ UNCHANGED <<entry, peerVars, workerVars, held, changes, exclusions, mishaps>>

\* Storage eviction takes a posting away with the record that it is undelivered.
Evict(u) ==
  /\ mishaps < MaxMishaps /\ mishaps' = mishaps + 1
  /\ u \in stored /\ stored' = stored \ {u} /\ undelivered' = undelivered \ {u}
  /\ UNCHANGED <<version, admitted, entry, peerVars, workerVars, held, admissions, changes,
                 exclusions>>

Tick ==
  /\ entry # NoEntry /\ (entry.dueIn > 0 \/ entry.refreshIn > 0)
  /\ entry' = [entry EXCEPT !.dueIn = Greater(@ - 1, 0), !.refreshIn = Greater(@ - 1, 0)]
  /\ UNCHANGED <<postingVars, peerVars, workerVars, held, bounds>>

ReadReachablePeers ==
  /\ stage = "idle" /\ stage' = "scheduling"
  /\ ring' = {p \in Peers : contact[p] = "accepting"}
  /\ UNCHANGED <<postingVars, entry, peerVars, offer, answers, held, bounds>>

\* An admission makes the word partition due, unless it is in retry.
ScheduleAdmissions ==
  /\ stage = "scheduling" /\ stage' = "searching"
  /\ admitted' = FALSE
  /\ entry' = IF admitted /\ (entry = NoEntry \/ entry.retryDelay = 0)
                THEN [entry EXCEPT !.dueIn = 0] ELSE entry
  /\ UNCHANGED <<version, stored, undelivered, peerVars, ring, offer, answers, held, bounds>>

IsDue == entry.dueIn = 0

MakeOffer ==
  /\ stage = "searching" /\ stage' = "offering"
  /\ IsDue /\ Recipients # {}
  /\ offer' = DueOffer
  /\ UNCHANGED <<postingVars, entry, peerVars, ring, answers, held, bounds>>

\* Nothing is due, or nobody is there to get it.
FindNoOffer ==
  /\ stage = "searching"
  /\ ~IsDue \/ Recipients = {}
  /\ BecomesIdle
  /\ UNCHANGED <<postingVars, entry, peerVars, held, bounds>>

\* Each recipient is sent its postings, unless there are none, and accepts some of them; a
\* transfer may be refused or stay unanswered.  Answers are looked at when all are there.
Send ==
  /\ stage = "offering" /\ stage' = "answered"
  /\ LET asked == {p \in DOMAIN offer.postings : offer.postings[p] # {}} IN
     \E accepted \in [asked -> SUBSET Postings], isAccepted \in [asked -> BOOLEAN] :
       /\ \A p \in asked : accepted[p] \subseteq offer.postings[p]
       /\ answers' = [p \in asked |-> [postings |-> accepted[p], isAccepted |-> isAccepted[p]]]
       /\ \/ /\ \A p \in asked : accepted[p] = offer.postings[p] /\ isAccepted[p]
             /\ UNCHANGED mishaps
          \/ /\ \E p \in asked : accepted[p] # offer.postings[p] \/ ~isAccepted[p]
             /\ mishaps < MaxMishaps /\ mishaps' = mishaps + 1
       /\ held' = [p \in Peers |-> [u \in Postings |->
            IF p \in asked /\ u \in accepted[p] THEN offer.versions[u] ELSE held[p][u]]]
  /\ UNCHANGED <<postingVars, entry, peerVars, ring, offer, admissions, changes, exclusions>>

\* All of it in one transaction.
Commit ==
  /\ stage = "answered"
  /\ entry' = IF IsHandedOff THEN NoEntry ELSE RecordedEntry
  /\ stored' = IF IsHandedOff THEN {} ELSE stored
  /\ undelivered' = undelivered \ Acknowledged
  /\ BecomesIdle
  /\ UNCHANGED <<version, admitted, peerVars, held, bounds>>

\* The vault refuses the transaction, or the node stops.
Abandon ==
  /\ mishaps < MaxMishaps /\ mishaps' = mishaps + 1
  /\ stage # "idle" /\ BecomesIdle
  /\ UNCHANGED <<postingVars, entry, peerVars, held, admissions, changes, exclusions>>

\* The node starts again: no peer is known to be reachable, those that were are recent.
Restart ==
  /\ changes < MaxChanges /\ changes' = changes + 1
  /\ contact' = [p \in Peers |-> IF IsReachable(p) THEN "recent" ELSE contact[p]]
  /\ BecomesIdle
  /\ UNCHANGED <<postingVars, entry, excluded, held, admissions, exclusions, mishaps>>

\* A contact finds a peer, or finds it to refuse a remote index, or does not find it.
ChangeContact(p) ==
  /\ changes < MaxChanges /\ changes' = changes + 1
  /\ \E found \in {"accepting", "refusing", "gone"} \ {contact[p]} :
       /\ found = "refusing" => p \in Declines
       /\ contact' = [contact EXCEPT ![p] = found]
  /\ UNCHANGED <<postingVars, entry, excluded, workerVars, held, admissions, exclusions,
                 mishaps>>

\* The last confirmed contact becomes too old.
RecencyLapses(p) ==
  /\ contact[p] = "recent" /\ contact' = [contact EXCEPT ![p] = "gone"]
  /\ UNCHANGED <<postingVars, entry, excluded, workerVars, held, bounds>>

Exclude(p) ==
  /\ exclusions < MaxExclusions /\ exclusions' = exclusions + 1
  /\ excluded' = IF p \in excluded THEN excluded \ {p} ELSE excluded \cup {p}
  /\ UNCHANGED <<postingVars, entry, contact, workerVars, held, admissions, changes, mishaps>>

Work ==
  ReadReachablePeers \/ ScheduleAdmissions \/ MakeOffer \/ FindNoOffer \/ Send \/ Commit

Next ==
  \/ \E u \in Postings : Admit(u) \/ Evict(u)
  \/ Work \/ Abandon \/ Tick \/ Restart
  \/ \E p \in Peers : ChangeContact(p) \/ RecencyLapses(p) \/ Exclude(p)

Spec == Init /\ [][Next]_vars

FairSpec ==
  Spec /\ WF_vars(Work) /\ WF_vars(Tick) /\ \A p \in Peers : WF_vars(RecencyLapses(p))

-----------------------------------------------------------------------------
(* Properties *)

\* Every variable has its type; what is undelivered is stored.
TypeOK ==
  /\ version \in [Postings -> Versions]
  /\ stored \subseteq Postings /\ undelivered \subseteq stored /\ admitted \in BOOLEAN
  /\ entry \in Entries \cup {NoEntry}
  /\ contact \in [Peers -> Contacts] /\ excluded \subseteq Peers
  /\ stage \in {"idle", "scheduling", "searching", "offering", "answered"}
  /\ ring \subseteq Peers
  /\ offer.responsible \cup offer.recorded \cup offer.stale \cup DOMAIN offer.postings
       \subseteq Peers
  /\ \A p \in DOMAIN offer.postings : offer.postings[p] \subseteq Postings
  /\ DOMAIN answers \subseteq DOMAIN offer.postings
  /\ held \in [Peers -> [Postings -> Versions]]

IsCurrentAt(p, u) == held[p][u] = version[u]

\* What the roster knew of the peers at first is still so.
IsRosterSteady == changes = 0

\* A holder holds every posting that is not undelivered, as it is now ("a peer that
\* accepted all postings of a word partition", rwidistribution/README.md), while the roster
\* is steady; peers may be excluded and come back.
HoldersHoldWhatIsDelivered ==
  IsRosterSteady =>
    \A p \in entry.holders, u \in stored \ undelivered : IsCurrentAt(p, u)

HandsOff == entry # NoEntry /\ entry' = NoEntry

\* As many peers closer than this node as the redundancy asks for hold a posting as it is.
IsHeldByEnoughPeers(u) ==
  Cardinality({p \in Peers : IsCloserThanSelf(p) /\ IsCurrentAt(p, u)}) >= Redundancy

\* "This node deletes a posting only after enough responsible peers hold it."
\* (rwidistribution/README.md).
DeletesOnlyWhatEnoughPeersHold == [][HandsOff => \A u \in stored : IsHeldByEnoughPeers(u)]_vars

\* The same while the roster is steady, whatever sends, the vault and exclusions do.
DeletesWhatSteadyPeersHold ==
  [][HandsOff /\ IsRosterSteady => \A u \in stored : IsHeldByEnoughPeers(u)]_vars

\* A posting admitted or changed after the offer was read is not deleted with what was
\* offered (commitBatch reads what is undelivered anew).
KeepsWhatWasNotOffered ==
  [][HandsOff => \A u \in stored : version[u] = offer.versions[u]]_vars

\* What is undelivered is admitted afresh, due, or in retry, never put off until the next
\* refresh: whatever is admitted while an offer is under way, however much of it is
\* accepted, and wherever the vault fails or the node stops (RecordAtRedundancy,
\* RecordShortOfRedundancy and ScheduleAdmissionsWithin of the schedule).
UndeliveredIsTakenUp ==
  undelivered # {} /\ ~admitted => entry # NoEntry /\ entry.dueIn <= entry.retryDelay

ResponsibleNow == ResponsiblePeers({p \in Peers : contact[p] = "accepting"} \ excluded)

\* An undelivered posting is delivered, evicted or deleted in the end, as long as the ring
\* has a responsible peer and no holder refuses a remote index: such a holder gets nothing
\* and still counts, so the peer that should stand in for it gets nothing either.
UndeliveredIsDelivered ==
  undelivered # {} ~>
    \/ undelivered = {} \/ ResponsibleNow = {}
    \/ \E p \in entry.holders : contact[p] = "refusing"
=============================================================================
