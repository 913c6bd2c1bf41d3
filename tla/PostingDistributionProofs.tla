--------------------- MODULE PostingDistributionProofs ---------------------
(***************************************************************************)
(* Proofs about PostingDistribution, for any ring of peers, redundancy,    *)
(* retry delays, postings and bounds.                                      *)
(***************************************************************************)
EXTENDS PostingDistribution, TLAPS, FiniteSetTheorems, WellFoundedInduction

-----------------------------------------------------------------------------
(* Responsible peers *)

CloserThan(peers, p) == {q \in peers : Distance[q] < Distance[p]}

LEMMA PeersAreFinite ==
  ASSUME NEW peers \in SUBSET Peers
  PROVE  IsFiniteSet(peers) /\ Cardinality(peers) \in Nat
BY DistributionAssumption, FS_Subset, FS_CardinalityType

LEMMA SubsetsAreSmaller ==
  ASSUME NEW more \in SUBSET Peers, NEW fewer \in SUBSET more
  PROVE  Cardinality(fewer) <= Cardinality(more) /\ Cardinality(fewer) \in Nat
<1>1. IsFiniteSet(more) /\ fewer \in SUBSET Peers
  BY PeersAreFinite
<1> QED
  BY <1>1, PeersAreFinite, FS_Subset

LEMMA RequiredHoldersBounded ==
  ASSUME NEW peers \in SUBSET Peers
  PROVE  AmountOfRequiredHolders(peers) \in {Redundancy, Redundancy - 1}
BY DEF AmountOfRequiredHolders

\* Who is closer than one of the first peers is one of them.
LEMMA CloserIsFirst ==
  ASSUME NEW peers \in SUBSET Peers, NEW amount \in Int, NEW p \in peers,
         NEW q \in FirstOf(peers, amount), Distance[p] <= Distance[q]
  PROVE  p \in FirstOf(peers, amount)
<1>1. Distance[p] \in Nat /\ Distance[q] \in Nat /\ q \in peers
  BY DistributionAssumption DEF FirstOf
<1>2. \A r \in peers : Distance[r] \in Nat
  BY DistributionAssumption
<1>3. CloserThan(peers, p) \subseteq CloserThan(peers, q) /\ CloserThan(peers, q) \subseteq Peers
  BY <1>1, <1>2 DEF CloserThan
<1>4. /\ Cardinality(CloserThan(peers, p)) <= Cardinality(CloserThan(peers, q))
      /\ Cardinality(CloserThan(peers, p)) \in Nat
      /\ Cardinality(CloserThan(peers, q)) \in Nat
  BY <1>3, SubsetsAreSmaller
<1>5. Cardinality(CloserThan(peers, q)) < amount
  BY DEF FirstOf, CloserThan
<1>6. Cardinality(CloserThan(peers, p)) < amount
  BY <1>4, <1>5
<1> QED
  BY <1>6 DEF FirstOf, CloserThan

\* Of peers there are, one is the closest.
LEMMA ClosestOf ==
  ASSUME NEW peers \in SUBSET Peers, peers # {}
  PROVE  \E c \in peers : \A q \in peers : Distance[c] <= Distance[q]
<1> DEFINE Distances == {Distance[p] : p \in peers}
<1>1. Distances \subseteq Nat /\ Distances # {}
  BY DistributionAssumption
<1>2. PICK d \in Distances : \A e \in Distances : ~(<<e, d>> \in OpToRel(<, Nat))
  BY <1>1, NatLessThanWellFounded, WFMin
<1>3. PICK c \in peers : Distance[c] = d
  OBVIOUS
<1>4. \A q \in peers : ~(Distance[q] < Distance[c])
  BY <1>1, <1>2, <1>3 DEF OpToRel
<1>5. \A q \in peers : Distance[q] \in Nat
  BY DistributionAssumption
<1> QED
  BY <1>4, <1>5

LEMMA FirstIsClosest ==
  ASSUME NEW peers \in SUBSET Peers, peers # {}
  PROVE  \E c \in peers :
           FirstOf(peers, 1) = {c} /\ \A q \in peers : Distance[c] <= Distance[q]
<1>1. PICK c \in peers : \A q \in peers : Distance[c] <= Distance[q]
  BY ClosestOf
<1>2. \A q \in peers : Distance[q] \in Nat
  BY DistributionAssumption
<1>3. CloserThan(peers, c) = {}
  BY <1>1, <1>2 DEF CloserThan
<1>4. c \in FirstOf(peers, 1)
  BY <1>3, FS_EmptySet DEF FirstOf, CloserThan
<1>5. ASSUME NEW q \in FirstOf(peers, 1) PROVE q = c
  <2>1. q \in peers /\ Cardinality(CloserThan(peers, q)) < 1
    BY DEF FirstOf, CloserThan
  <2>2. CloserThan(peers, q) \in SUBSET Peers
    BY DEF CloserThan
  <2>3. Cardinality(CloserThan(peers, q)) = 0
    BY <2>1, <2>2, PeersAreFinite
  <2>4. c \notin CloserThan(peers, q)
    BY <2>2, <2>3, PeersAreFinite, FS_EmptySet
  <2>5. Distance[q] = Distance[c]
    BY <1>1, <1>2, <2>1, <2>4 DEF CloserThan
  <2> QED
    BY <2>1, <2>5, DistributionAssumption
<1> QED
  BY <1>1, <1>4, <1>5

\* Peers fewer than their first ones could be are all among the first ones.
LEMMA FewPeersAreFirst ==
  ASSUME NEW peers \in SUBSET Peers, NEW amount \in Int, NEW least \in Int, least <= amount,
         Cardinality(FirstOf(peers, amount)) < least
  PROVE  FirstOf(peers, least) = peers
<1> DEFINE First == FirstOf(peers, amount)
<1>0. First \subseteq peers /\ \A p \in peers : Distance[p] \in Nat
  BY DistributionAssumption DEF FirstOf
<1>1. First = peers
  <2> SUFFICES ASSUME First # peers PROVE FALSE
    OBVIOUS
  <2> DEFINE Left == peers \ First
  <2>1. Left \in SUBSET Peers /\ Left # {}
    BY <1>0
  <2>3. PICK p \in Left : \A q \in Left : Distance[p] <= Distance[q]
    BY <2>1, ClosestOf
  <2>4. \A q \in Left : ~(Distance[q] < Distance[p])
    BY <1>0, <2>3
  <2>5. CloserThan(peers, p) \subseteq First
    BY <2>4 DEF CloserThan
  <2>6. Cardinality(CloserThan(peers, p)) <= Cardinality(First) /\ Cardinality(First) \in Nat
        /\ Cardinality(CloserThan(peers, p)) \in Nat
    BY <1>0, <2>5, SubsetsAreSmaller, PeersAreFinite
  <2>7. Cardinality(CloserThan(peers, p)) < amount
    BY <2>6
  <2> QED
    BY <2>3, <2>7 DEF FirstOf, CloserThan
<1>2. ASSUME NEW p \in peers PROVE p \in FirstOf(peers, least)
  <2>1. CloserThan(peers, p) \subseteq peers
    BY DEF CloserThan
  <2>2. /\ Cardinality(CloserThan(peers, p)) <= Cardinality(peers) /\ Cardinality(peers) \in Nat
        /\ Cardinality(CloserThan(peers, p)) \in Nat
    BY <2>1, SubsetsAreSmaller, PeersAreFinite
  <2>3. Cardinality(CloserThan(peers, p)) < least
    BY <1>1, <2>2
  <2> QED
    BY <2>3 DEF FirstOf, CloserThan
<1> QED
  BY <1>2 DEF FirstOf

\* With a redundancy of two or more, a peer that is there and not farther than the
\* farthest responsible one is responsible itself.
LEMMA AmongIsResponsible ==
  ASSUME Redundancy > 1, NEW peers \in SUBSET Peers, NEW p \in peers, IsAmongResponsible(peers, p)
  PROVE  p \in ResponsiblePeers(peers)
<1>1. /\ AmountOfRequiredHolders(peers) \in Nat \ {0} /\ AmountOfRequiredHolders(peers) <= Redundancy
      /\ Redundancy \in Int
  BY RequiredHoldersBounded, DistributionAssumption
<1>2. CASE CoversWholeRing(peers)
  <2>1. Cardinality(FirstOf(peers, Redundancy)) < AmountOfRequiredHolders(peers)
    BY <1>1, <1>2 DEF CoversWholeRing
  <2> QED
    BY <1>1, <2>1, FewPeersAreFirst DEF ResponsiblePeers
<1>3. CASE ~CoversWholeRing(peers)
  <2>1. PICK q \in ResponsiblePeers(peers) : Distance[p] <= Distance[q]
    BY <1>3 DEF IsAmongResponsible
  <2> QED
    BY <1>1, <2>1, CloserIsFirst DEF ResponsiblePeers
<1> QED
  BY <1>2, <1>3

\* With a redundancy of one, a ring with a peer closer than this node has one responsible
\* peer, which is the closest.
LEMMA OneIsResponsible ==
  ASSUME Redundancy = 1, NEW peers \in SUBSET Peers, NEW p \in peers, IsCloserThanSelf(p)
  PROVE  /\ AmountOfRequiredHolders(peers) = 1
         /\ IsAmongResponsible(peers, p) => p \in ResponsiblePeers(peers)
<1>1. PICK c \in peers :
        FirstOf(peers, 1) = {c} /\ \A q \in peers : Distance[c] <= Distance[q]
  BY FirstIsClosest
<1>2. Distance[c] \in Nat /\ Distance[p] \in Nat /\ SelfDistance \in Nat
  BY DistributionAssumption
<1>3. IsCloserThanSelf(c) /\ Cardinality({c}) = 1
  BY <1>1, <1>2, FS_Singleton DEF IsCloserThanSelf
<1>4. AmountOfRequiredHolders(peers) = 1
  BY <1>1, <1>3 DEF AmountOfRequiredHolders
<1>5. ~CoversWholeRing(peers)
  BY <1>1, <1>3, <1>4 DEF CoversWholeRing
<1>6. ASSUME IsAmongResponsible(peers, p) PROVE p \in ResponsiblePeers(peers)
  <2>1. PICK q \in ResponsiblePeers(peers) : Distance[p] <= Distance[q]
    BY <1>5, <1>6 DEF IsAmongResponsible
  <2> QED
    BY <1>4, <2>1, CloserIsFirst DEF ResponsiblePeers
<1> QED
  BY <1>4, <1>6

\* With a redundancy of one, only a ring whose closest peer is closer than this node has a
\* responsible peer.
LEMMA OneIsCloser ==
  ASSUME Redundancy = 1, NEW peers \in SUBSET Peers, AmountOfRequiredHolders(peers) # 0
  PROVE  \E c \in peers : ResponsiblePeers(peers) = {c} /\ IsCloserThanSelf(c)
<1>1. AmountOfRequiredHolders(peers) = 1
  BY RequiredHoldersBounded
<1>2. Cardinality(FirstOf(peers, 1)) = 1 /\ \A p \in FirstOf(peers, 1) : IsCloserThanSelf(p)
  BY <1>1 DEF AmountOfRequiredHolders
<1>3. peers # {}
  BY <1>2, FS_EmptySet DEF FirstOf
<1> QED
  BY <1>1, <1>2, <1>3, FirstIsClosest DEF ResponsiblePeers

-----------------------------------------------------------------------------
(* Types *)

PostingTypes ==
  /\ version \in [Postings -> Versions]
  /\ stored \subseteq Postings /\ undelivered \subseteq stored /\ admitted \in BOOLEAN

PeerTypes == contact \in [Peers -> Contacts] /\ excluded \subseteq Peers

OfferTypes ==
  /\ offer.responsible \subseteq Peers /\ offer.recorded \subseteq Peers /\ offer.stale \subseteq Peers
  /\ DOMAIN offer.postings \subseteq Peers
  /\ \A p \in DOMAIN offer.postings : offer.postings[p] \subseteq Postings
  /\ offer.versions \in [Postings -> Versions]

WorkTypes ==
  /\ stage \in {"idle", "scheduling", "searching", "offering", "answered"}
  /\ ring \subseteq Peers
  /\ DOMAIN answers \subseteq DOMAIN offer.postings
  /\ stage # "answered" => DOMAIN answers = {}

Types ==
  /\ PostingTypes /\ PeerTypes /\ OfferTypes /\ WorkTypes
  /\ entry \in Entries \cup {NoEntry}
  /\ held \in [Peers -> [Postings -> Versions]]
  /\ changes \in Nat

LEMMA TypesSuffice == Types => TypeOK
BY DEF Types, TypeOK, PostingTypes, PeerTypes, OfferTypes, WorkTypes

LEMMA NoOfferTypes ==
  ASSUME offer' = NoOffer, answers' = [p \in {} |-> {}]
  PROVE  OfferTypes' /\ DOMAIN answers' = {}
<1>1. /\ NoOffer.responsible = {} /\ NoOffer.recorded = {} /\ NoOffer.stale = {}
      /\ NoOffer.versions = [p \in Postings |-> 0] /\ DOMAIN NoOffer.postings = {}
  BY DEF NoOffer
<1>2. 0 \in Versions
  BY DistributionAssumption DEF Versions
<1>3. NoOffer.versions \in [Postings -> Versions]
  BY <1>1, <1>2
<1>4. OfferTypes'
  BY <1>1, <1>3 DEF OfferTypes
<1>5. DOMAIN answers' = {}
  OBVIOUS
<1> QED
  BY <1>4, <1>5

LEMMA TypesAtFirst == Init => Types
<1> SUFFICES ASSUME Init PROVE Types
  OBVIOUS
<1>a. 0 \in Versions
  BY DistributionAssumption DEF Versions
<1>b. admitted \in BOOLEAN
  BY DEF Init
<1>1. PostingTypes /\ PeerTypes /\ held \in [Peers -> [Postings -> Versions]]
  BY <1>a, <1>b DEF Init, PostingTypes, PeerTypes, Contacts
<1>2. OfferTypes /\ WorkTypes
  BY DistributionAssumption DEF Init, OfferTypes, WorkTypes, NoOffer, Versions
<1> QED
  BY <1>1, <1>2 DEF Init, Types

LEMMA PostingTypesKept ==
  ASSUME Types, [Next]_vars
  PROVE  PostingTypes'
<1>0. PostingTypes /\ \A n \in Versions : n < MaxVersion => n + 1 \in Versions
  BY DistributionAssumption DEF Types, Versions
<1>1. CASE UNCHANGED postingVars
  BY <1>0, <1>1 DEF PostingTypes, postingVars
<1>2. ASSUME NEW u \in Postings, Admit(u) PROVE PostingTypes'
  <2>1. version' \in [Postings -> Versions]
    BY <1>0, <1>2 DEF PostingTypes, Admit
  <2> QED
    BY <1>0, <1>2, <2>1 DEF PostingTypes, Admit
<1>3. ASSUME NEW u \in Postings, Evict(u) PROVE PostingTypes'
  BY <1>0, <1>3 DEF PostingTypes, Evict
<1>4. CASE ScheduleAdmissions
  BY <1>0, <1>4 DEF PostingTypes, ScheduleAdmissions
<1>5. CASE Commit
  BY <1>0, <1>5 DEF PostingTypes, Commit, IsHandedOff
<1>6. CASE ReadReachablePeers \/ MakeOffer \/ FindNoOffer \/ Send \/ Abandon \/ Tick \/ Restart
  BY <1>1, <1>6 DEF ReadReachablePeers, MakeOffer, FindNoOffer, Send, Abandon, Tick, Restart
<1>7. CASE \E p \in Peers : ChangeContact(p) \/ RecencyLapses(p) \/ Exclude(p)
  BY <1>1, <1>7 DEF ChangeContact, RecencyLapses, Exclude
<1>8. CASE UNCHANGED vars
  BY <1>1, <1>8 DEF vars
<1> QED
  BY <1>2, <1>3, <1>4, <1>5, <1>6, <1>7, <1>8 DEF Next, Work

LEMMA PeerTypesKept ==
  ASSUME Types, [Next]_vars
  PROVE  PeerTypes' /\ changes' \in Nat
<1>0. PeerTypes /\ changes \in Nat
  BY DEF Types
<1>1. CASE UNCHANGED <<contact, excluded, changes>>
  BY <1>0, <1>1 DEF PeerTypes
<1>2. ASSUME NEW u \in Postings, Admit(u) \/ Evict(u) PROVE UNCHANGED <<contact, excluded, changes>>
  BY <1>2 DEF Admit, Evict, peerVars
<1>3. CASE ReadReachablePeers \/ ScheduleAdmissions \/ MakeOffer \/ FindNoOffer
  BY <1>1, <1>3 DEF ReadReachablePeers, ScheduleAdmissions, MakeOffer, FindNoOffer, peerVars, bounds
<1>4. CASE Send \/ Commit \/ Abandon \/ Tick
  BY <1>1, <1>4 DEF Send, Commit, Abandon, Tick, peerVars, bounds
<1>5. CASE Restart
  BY <1>0, <1>5 DEF Restart, PeerTypes, Contacts
<1>6. ASSUME NEW p \in Peers, ChangeContact(p) \/ RecencyLapses(p) \/ Exclude(p)
      PROVE  PeerTypes' /\ changes' \in Nat
  BY <1>0, <1>6 DEF ChangeContact, RecencyLapses, Exclude, PeerTypes, Contacts, bounds
<1>7. CASE UNCHANGED vars
  BY <1>1, <1>7 DEF vars, peerVars, bounds
<1> QED
  BY <1>1, <1>2, <1>3, <1>4, <1>5, <1>6, <1>7 DEF Next, Work

LEMMA DueOfferTypes ==
  ASSUME Types, offer' = DueOffer
  PROVE  OfferTypes'
<1>1. entry.holders \subseteq Peers
  BY DEF Types, Entries, NoEntry
<1>2. AcceptingPeers \subseteq Peers
  BY DEF Types, WorkTypes, AcceptingPeers
<1>3. ResponsiblePeers(AcceptingPeers) \subseteq Peers /\ Recipients \subseteq Peers
  BY <1>2 DEF ResponsiblePeers, FirstOf, Recipients, HoldingPeers, MissingHolders
<1>4. stored \subseteq Postings /\ undelivered \subseteq Postings /\ version \in [Postings -> Versions]
  BY DEF Types, PostingTypes
<1>5. /\ DOMAIN DueOffer.postings = Recipients
      /\ \A p \in Recipients : DueOffer.postings[p] \in {undelivered, stored}
  BY DEF DueOffer
<1>6. /\ DueOffer.responsible = ResponsiblePeers(AcceptingPeers) /\ DueOffer.recorded = entry.holders
      /\ DueOffer.stale \subseteq entry.holders /\ DueOffer.versions = version
  BY DEF DueOffer
<1> QED
  BY <1>1, <1>3, <1>4, <1>5, <1>6 DEF OfferTypes

LEMMA WorkTypesKept ==
  ASSUME Types, [Next]_vars
  PROVE  OfferTypes' /\ WorkTypes'
<1>0. OfferTypes /\ WorkTypes
  BY DEF Types
<1>1. CASE UNCHANGED workerVars
  BY <1>0, <1>1 DEF OfferTypes, WorkTypes, workerVars
<1>2. CASE BecomesIdle
  BY <1>2, NoOfferTypes DEF BecomesIdle, WorkTypes
<1>3. CASE ReadReachablePeers \/ ScheduleAdmissions
  BY <1>0, <1>3 DEF ReadReachablePeers, ScheduleAdmissions, OfferTypes, WorkTypes
<1>4. CASE MakeOffer
  <2>1. OfferTypes'
    BY <1>4, DueOfferTypes DEF MakeOffer
  <2>2. stage = "searching" /\ answers' = answers /\ ring' = ring /\ stage' = "offering"
    BY <1>4 DEF MakeOffer
  <2> QED
    BY <2>1, <2>2, <1>0 DEF WorkTypes
<1>5. CASE Send
  BY <1>0, <1>5 DEF Send, OfferTypes, WorkTypes
<1>6. CASE FindNoOffer \/ Commit \/ Abandon \/ Restart
  BY <1>2, <1>6 DEF FindNoOffer, Commit, Abandon, Restart
<1>7. CASE Tick \/ \E u \in Postings : Admit(u) \/ Evict(u)
  BY <1>1, <1>7 DEF Tick, Admit, Evict
<1>8. CASE \E p \in Peers : ChangeContact(p) \/ RecencyLapses(p) \/ Exclude(p)
  BY <1>1, <1>8 DEF ChangeContact, RecencyLapses, Exclude
<1>9. CASE UNCHANGED vars
  BY <1>1, <1>9 DEF vars
<1> QED
  BY <1>3, <1>4, <1>5, <1>6, <1>7, <1>8, <1>9 DEF Next, Work

\* What an offer leads to is recorded in the form of an entry.
LEMMA RecordedEntryTypes ==
  ASSUME Types
  PROVE  RecordedEntry \in Entries
<1>1. RefreshInterval \in Nat /\ FirstRetryDelay \in 1 .. RefreshInterval
  BY DistributionAssumption
<1>2. Holders \subseteq Peers
  BY DEF Types, OfferTypes, Holders
<1>3. /\ entry.retryDelay \in Times /\ entry.refreshIn \in Times
      /\ entry \in [holders : SUBSET Peers, dueIn : Times \cup {-1}, retryDelay : Times, refreshIn : Times]
  BY <1>1 DEF Types, Entries, NoEntry, Times
<1>4. RetryDelayAfter(entry.retryDelay) \in Times
  BY <1>1, <1>3 DEF RetryDelayAfter, Lesser, Greater, Times
<1>5. 0 \in Times /\ RefreshInterval \in Times
  BY <1>1 DEF Times
<1>6. ASSUME NEW due \in Times, NEW delay \in Times
      PROVE  [entry EXCEPT !.holders = Holders, !.dueIn = due, !.retryDelay = delay] \in Entries
  BY <1>2, <1>3 DEF Entries
<1>7. [holders |-> Holders, dueIn |-> RefreshInterval, retryDelay |-> 0, refreshIn |-> RefreshInterval]
        \in Entries
  BY <1>2, <1>5 DEF Entries
<1> QED
  BY <1>3, <1>4, <1>5, <1>6, <1>7 DEF RecordedEntry

LEMMA EntryTypesKept ==
  ASSUME Types, [Next]_vars
  PROVE  entry' \in Entries \cup {NoEntry}
<1>0. entry \in Entries \cup {NoEntry} /\ RefreshInterval \in Nat
  BY DistributionAssumption DEF Types
<1>1. CASE entry' = entry
  BY <1>0, <1>1
<1>2. CASE Tick
  <2>1. entry \in Entries
    BY <1>0, <1>2 DEF Tick
  <2>2. Greater(entry.dueIn - 1, 0) \in Times /\ Greater(entry.refreshIn - 1, 0) \in Times
    BY <1>0, <2>1 DEF Greater, Entries, Times
  <2>3. entry' = [entry EXCEPT !.dueIn = Greater(entry.dueIn - 1, 0),
                               !.refreshIn = Greater(entry.refreshIn - 1, 0)]
    BY <1>2 DEF Tick
  <2> QED
    BY <2>1, <2>2, <2>3 DEF Entries
<1>3. CASE ScheduleAdmissions
  <2>1. 0 \in Times
    BY <1>0 DEF Times
  <2>2. entry' \in {entry, [entry EXCEPT !.dueIn = 0]}
    BY <1>3 DEF ScheduleAdmissions
  <2>3. [entry EXCEPT !.dueIn = 0] \in Entries
    BY <1>0, <2>1 DEF Entries, NoEntry
  <2> QED
    BY <1>0, <2>2, <2>3
<1>4. CASE Commit
  BY <1>4, RecordedEntryTypes DEF Commit
<1>5. ASSUME NEW u \in Postings, Admit(u) \/ Evict(u) PROVE entry' = entry
  BY <1>5 DEF Admit, Evict
<1>6. CASE ReadReachablePeers \/ MakeOffer \/ FindNoOffer \/ Send \/ Abandon \/ Restart
  BY <1>1, <1>6 DEF ReadReachablePeers, MakeOffer, FindNoOffer, Send, Abandon, Restart
<1>7. ASSUME NEW p \in Peers, ChangeContact(p) \/ RecencyLapses(p) \/ Exclude(p) PROVE entry' = entry
  BY <1>7 DEF ChangeContact, RecencyLapses, Exclude
<1>8. CASE UNCHANGED vars
  BY <1>1, <1>8 DEF vars
<1> QED
  BY <1>1, <1>2, <1>3, <1>4, <1>5, <1>6, <1>7, <1>8 DEF Next, Work

LEMMA HeldTypesKept ==
  ASSUME Types, [Next]_vars
  PROVE  held' \in [Peers -> [Postings -> Versions]]
<1>0. held \in [Peers -> [Postings -> Versions]] /\ offer.versions \in [Postings -> Versions]
  BY DEF Types, OfferTypes
<1>1. CASE held' = held
  BY <1>0, <1>1
<1>2. CASE Send
  BY <1>0, <1>2 DEF Send
<1>3. ASSUME NEW u \in Postings, Admit(u) \/ Evict(u) PROVE held' = held
  BY <1>3 DEF Admit, Evict
<1>4. CASE ReadReachablePeers \/ ScheduleAdmissions \/ MakeOffer \/ FindNoOffer
  BY <1>1, <1>4 DEF ReadReachablePeers, ScheduleAdmissions, MakeOffer, FindNoOffer
<1>5. CASE Commit \/ Abandon \/ Tick \/ Restart
  BY <1>1, <1>5 DEF Commit, Abandon, Tick, Restart
<1>6. ASSUME NEW p \in Peers, ChangeContact(p) \/ RecencyLapses(p) \/ Exclude(p) PROVE held' = held
  BY <1>6 DEF ChangeContact, RecencyLapses, Exclude
<1>7. CASE UNCHANGED vars
  BY <1>1, <1>7 DEF vars
<1> QED
  BY <1>1, <1>2, <1>3, <1>4, <1>5, <1>6, <1>7 DEF Next, Work

LEMMA TypesKept == Types /\ [Next]_vars => Types'
BY PostingTypesKept, PeerTypesKept, WorkTypesKept, EntryTypesKept, HeldTypesKept DEF Types

LEMMA TypesHold == Spec => []Types
BY TypesAtFirst, TypesKept, PTL DEF Spec

\* Every variable has its type: delays stay within the refresh interval however often they
\* double, and what is undelivered is stored.
THEOREM TypeCorrect == Spec => []TypeOK
BY TypesHold, TypesSuffice, PTL

-----------------------------------------------------------------------------
(* What an offer stays true of while it is sent *)

IsOffered == stage \in {"offering", "answered"}

\* What changes after an offer is recorded as undelivered again; a peer that is no holder
\* yet is offered everything.
OfferInv ==
  IsOffered =>
    /\ offer.recorded = entry.holders /\ offer.undelivered \subseteq Postings
    /\ \A u \in stored \ undelivered : version[u] = offer.versions[u]
    /\ \A p \in DOMAIN offer.postings \ offer.recorded :
         (stored \ undelivered) \cup offer.undelivered \subseteq offer.postings[p]

\* What an accepted posting said is known to be at the peer.
AnswerInv ==
  stage = "answered" =>
    \A p \in DOMAIN answers : \A u \in answers[p].postings :
      u \in Postings /\ held[p][u] = offer.versions[u]

LEMMA StepsOfOffers ==
  ASSUME [Next]_vars, IsOffered'
  PROVE  \/ MakeOffer \/ Send \/ Tick
         \/ \E u \in Postings : Admit(u) \/ Evict(u)
         \/ UNCHANGED <<version, stored, undelivered, entry, workerVars, held>>
<1>1. ASSUME NEW p \in Peers, ChangeContact(p) \/ RecencyLapses(p) \/ Exclude(p)
      PROVE  UNCHANGED <<version, stored, undelivered, entry, workerVars, held>>
  BY <1>1 DEF ChangeContact, RecencyLapses, Exclude, postingVars
<1>2. ~FindNoOffer /\ ~Commit /\ ~Abandon /\ ~Restart
  BY DEF FindNoOffer, Commit, Abandon, Restart, BecomesIdle, IsOffered
<1>3. ~ReadReachablePeers /\ ~ScheduleAdmissions
  BY DEF ReadReachablePeers, ScheduleAdmissions, IsOffered
<1>4. CASE UNCHANGED vars
  BY <1>4 DEF vars, postingVars, workerVars
<1> QED
  BY <1>1, <1>2, <1>3, <1>4 DEF Next, Work

\* A due offer covers what it is made of.
LEMMA DueOfferIsComplete ==
  ASSUME Types, MakeOffer
  PROVE  /\ offer'.recorded = entry.holders /\ offer'.undelivered = undelivered
         /\ offer'.versions = version
         /\ \A p \in DOMAIN offer'.postings \ offer'.recorded : offer'.postings[p] = stored
         /\ offer'.responsible = ResponsiblePeers(AcceptingPeers)
         /\ offer'.stale = entry.holders \ KeptHolders
<1>1. offer' = DueOffer
  BY DEF MakeOffer
<1>2. HoldingPeers \subseteq entry.holders
  BY DEF HoldingPeers, KeptHolders
<1>3. /\ DueOffer.recorded = entry.holders /\ DueOffer.undelivered = undelivered
      /\ DueOffer.versions = version /\ DOMAIN DueOffer.postings = Recipients
      /\ \A p \in Recipients : p \notin HoldingPeers => DueOffer.postings[p] = stored
      /\ DueOffer.responsible = ResponsiblePeers(AcceptingPeers)
      /\ DueOffer.stale = entry.holders \ KeptHolders
  BY DEF DueOffer
<1> QED
  BY <1>1, <1>2, <1>3

LEMMA HoldersOutlastTicks ==
  ASSUME Types, Tick
  PROVE  entry'.holders = entry.holders
BY DEF Types, Entries, Tick

LEMMA OfferKept == Types /\ OfferInv /\ [Next]_vars => OfferInv'
<1> SUFFICES ASSUME Types, OfferInv, [Next]_vars, IsOffered' PROVE OfferInv'
  BY DEF OfferInv
<1>0. stored \subseteq Postings /\ undelivered \subseteq stored /\ version \in [Postings -> Versions]
  BY DEF Types, PostingTypes
<1>1. CASE MakeOffer
  <2>1. UNCHANGED <<version, stored, undelivered, entry>>
    BY <1>1 DEF MakeOffer, postingVars
  <2> QED
    BY <1>0, <1>1, <2>1, DueOfferIsComplete DEF OfferInv
<1>2. CASE Send
  <2>1. UNCHANGED <<version, stored, undelivered, entry, offer>> /\ IsOffered
    BY <1>2 DEF Send, postingVars, IsOffered
  <2> QED
    BY <2>1 DEF OfferInv
<1>3. CASE Tick
  <2>1. UNCHANGED <<version, stored, undelivered, offer, stage>>
    BY <1>3 DEF Tick, postingVars, workerVars
  <2> QED
    BY <1>3, <2>1, HoldersOutlastTicks DEF OfferInv, IsOffered
<1>4. ASSUME NEW u \in Postings, Admit(u) PROVE OfferInv'
  <2>1. /\ UNCHANGED <<entry, offer, stage>> /\ stored' \ undelivered' \subseteq stored \ undelivered
        /\ \A v \in Postings : v # u => version'[v] = version[v]
        /\ u \in undelivered'
    BY <1>0, <1>4 DEF Admit, workerVars
  <2>2. \A v \in stored' \ undelivered' : version'[v] = version[v]
    BY <1>0, <2>1
  <2> QED
    BY <2>1, <2>2 DEF OfferInv, IsOffered
<1>5. ASSUME NEW u \in Postings, Evict(u) PROVE OfferInv'
  <2>1. /\ UNCHANGED <<version, entry, offer, stage>>
        /\ stored' \ undelivered' \subseteq stored \ undelivered
    BY <1>5 DEF Evict, workerVars
  <2> QED
    BY <2>1 DEF OfferInv, IsOffered
<1>6. CASE UNCHANGED <<version, stored, undelivered, entry, workerVars, held>>
  BY <1>6 DEF OfferInv, IsOffered, workerVars
<1> QED
  BY <1>1, <1>2, <1>3, <1>4, <1>5, <1>6, StepsOfOffers

LEMMA AnswerKept == Types /\ AnswerInv /\ [Next]_vars => AnswerInv'
<1> SUFFICES ASSUME Types, AnswerInv, [Next]_vars, stage' = "answered" PROVE AnswerInv'
  BY DEF AnswerInv
<1>1. CASE Send
  <2> DEFINE asked == {p \in DOMAIN offer.postings : offer.postings[p] # {}}
  <2>1. PICK accepted \in [asked -> SUBSET Postings], isAccepted \in [asked -> BOOLEAN] :
          /\ answers' = [p \in asked |-> [postings |-> accepted[p], isAccepted |-> isAccepted[p]]]
          /\ held' = [p \in Peers |-> [u \in Postings |->
               IF p \in asked /\ u \in accepted[p] THEN offer.versions[u] ELSE held[p][u]]]
    BY <1>1 DEF Send
  <2>2. DOMAIN offer.postings \subseteq Peers /\ offer' = offer
    BY <1>1 DEF Types, OfferTypes, Send
  <2>3. ASSUME NEW p \in DOMAIN answers', NEW u \in answers'[p].postings
        PROVE  u \in Postings /\ held'[p][u] = offer.versions[u]
    BY <2>1, <2>2, <2>3
  <2> QED
    BY <2>2, <2>3 DEF AnswerInv
<1>2. CASE MakeOffer
  BY <1>2 DEF MakeOffer
<1>3. CASE UNCHANGED <<offer, answers, stage, held>>
  BY <1>3 DEF AnswerInv
<1>4. CASE Tick \/ \E u \in Postings : Admit(u) \/ Evict(u)
  BY <1>3, <1>4 DEF Tick, Admit, Evict, workerVars
<1>5. CASE UNCHANGED <<version, stored, undelivered, entry, workerVars, held>>
  BY <1>3, <1>5 DEF workerVars
<1> QED
  BY <1>1, <1>2, <1>4, <1>5, StepsOfOffers DEF IsOffered

LEMMA OffersHold == Spec => [](OfferInv /\ AnswerInv)
<1>1. Init => OfferInv /\ AnswerInv
  BY DEF Init, OfferInv, AnswerInv, IsOffered
<1> QED
  BY <1>1, OfferKept, AnswerKept, TypesHold, PTL DEF Spec

-----------------------------------------------------------------------------
(* What is deleted *)

\* Only the transaction that records an offer hands a word partition off.
LEMMA HandsOffByCommit ==
  ASSUME Types, [Next]_vars, HandsOff
  PROVE  Commit /\ IsHandedOff
<1>0. entry \in Entries /\ \A e \in Entries : e # NoEntry
  BY DistributionAssumption DEF Types, HandsOff, Entries, NoEntry, Times
<1>1. ~Tick
  <2> SUFFICES ASSUME Tick PROVE FALSE
    OBVIOUS
  <2>1. entry'.dueIn = Greater(entry.dueIn - 1, 0)
    BY <1>0 DEF Tick, Entries
  <2>2. entry'.dueIn # -1
    BY <1>0, <2>1 DEF Greater, Entries, Times
  <2> QED
    BY <2>2 DEF HandsOff, NoEntry
<1>2. ~ScheduleAdmissions
  <2> SUFFICES ASSUME ScheduleAdmissions PROVE FALSE
    OBVIOUS
  <2>1. entry'.dueIn \in {entry.dueIn, 0}
    BY <1>0 DEF ScheduleAdmissions, Entries
  <2> QED
    BY <1>0, <2>1 DEF HandsOff, NoEntry, Entries, Times
<1>3. entry' # entry
  BY DEF HandsOff
<1>4. Commit
  <2>1. ASSUME NEW u \in Postings, Admit(u) \/ Evict(u) PROVE FALSE
    BY <1>3, <2>1 DEF Admit, Evict
  <2>2. ~ReadReachablePeers /\ ~MakeOffer /\ ~FindNoOffer /\ ~Send /\ ~Abandon /\ ~Restart
    BY <1>3 DEF ReadReachablePeers, MakeOffer, FindNoOffer, Send, Abandon, Restart
  <2>3. ASSUME NEW p \in Peers, ChangeContact(p) \/ RecencyLapses(p) \/ Exclude(p) PROVE FALSE
    BY <1>3, <2>3 DEF ChangeContact, RecencyLapses, Exclude
  <2>4. ~UNCHANGED vars
    BY <1>3 DEF vars
  <2> QED
    BY <1>1, <1>2, <2>1, <2>2, <2>3, <2>4 DEF Next, Work
<1>5. IsHandedOff
  BY <1>0, <1>4, RecordedEntryTypes DEF Commit, HandsOff
<1> QED
  BY <1>4, <1>5

\* A posting admitted or changed while its word partition was offered is never deleted with
\* what was offered, whatever peers accept.
THEOREM NothingNewDeleted == Spec => KeepsWhatWasNotOffered
<1>1. Types /\ OfferInv /\ [Next]_vars
        => [HandsOff => \A u \in stored : version[u] = offer.versions[u]]_vars
  <2> SUFFICES ASSUME Types, OfferInv, [Next]_vars, HandsOff, NEW u \in stored
               PROVE  version[u] = offer.versions[u]
    OBVIOUS
  <2>1. stage = "answered" /\ undelivered \ Acknowledged = {}
    BY HandsOffByCommit DEF Commit, IsHandedOff
  <2>2. CASE u \in undelivered
    BY <2>1, <2>2 DEF Acknowledged
  <2>3. CASE u \notin undelivered
    BY <2>1, <2>3 DEF OfferInv, IsOffered
  <2> QED
    BY <2>2, <2>3
<1> QED
  BY <1>1, TypesHold, OffersHold, PTL DEF Spec, KeepsWhatWasNotOffered

-----------------------------------------------------------------------------
(* What holders hold while the roster is steady *)

\* Every peer is known to accept a remote index, and a holder that is kept is responsible.
SteadyInv ==
  IsRosterSteady =>
    /\ \A p \in Peers : contact[p] = "accepting"
    /\ stage # "idle" => ring = Peers
    /\ IsOffered => offer.recorded \ offer.stale \subseteq offer.responsible

LEMMA StepsOfSteadyRoster ==
  ASSUME Types, SteadyInv, [Next]_vars, IsRosterSteady'
  PROVE  /\ IsRosterSteady /\ contact' = contact
         /\ \/ ReadReachablePeers \/ MakeOffer \/ BecomesIdle
            \/ stage # "idle" /\ ring' = ring /\ (IsOffered' => IsOffered /\ offer' = offer)
            \/ UNCHANGED workerVars
<1>0. changes \in Nat
  BY DEF Types
<1>1. ASSUME NEW p \in Peers, ChangeContact(p) \/ RecencyLapses(p) \/ Exclude(p)
      PROVE  IsRosterSteady /\ contact' = contact /\ UNCHANGED workerVars
  BY <1>0, <1>1 DEF ChangeContact, RecencyLapses, Exclude, IsRosterSteady, SteadyInv, bounds
<1>2. CASE Restart
  BY <1>0, <1>2 DEF Restart, IsRosterSteady
<1>3. ASSUME NEW u \in Postings, Admit(u) \/ Evict(u)
      PROVE  IsRosterSteady /\ contact' = contact /\ UNCHANGED workerVars
  BY <1>3 DEF Admit, Evict, peerVars, IsRosterSteady
<1>4. CASE UNCHANGED vars
  BY <1>4 DEF vars, peerVars, bounds, IsRosterSteady
<1>5. CASE ReadReachablePeers \/ MakeOffer \/ FindNoOffer \/ Commit \/ Abandon \/ Tick
  BY <1>5 DEF ReadReachablePeers, MakeOffer, FindNoOffer, Commit, Abandon, Tick, peerVars, bounds,
              IsRosterSteady
<1>6. CASE ScheduleAdmissions \/ Send
  BY <1>6 DEF ScheduleAdmissions, Send, peerVars, bounds, IsRosterSteady, IsOffered
<1> QED
  BY <1>1, <1>2, <1>3, <1>4, <1>5, <1>6 DEF Next, Work

\* With a redundancy of one, holders are closer than this node.
CloserInv ==
  IsRosterSteady /\ Redundancy = 1 =>
    /\ \A p \in entry.holders : IsCloserThanSelf(p)
    /\ IsOffered => \A p \in DOMAIN offer.postings \cup offer.recorded : IsCloserThanSelf(p)

LEMMA RecipientsAreCloser ==
  ASSUME Types, SteadyInv, CloserInv, IsRosterSteady, Redundancy = 1, stage # "idle",
         NEW p \in Recipients
  PROVE  IsCloserThanSelf(p)
<1>0. AcceptingPeers \in SUBSET Peers /\ entry.holders \subseteq Peers
  BY DEF Types, WorkTypes, AcceptingPeers, Entries, NoEntry
<1>1. CASE p \in HoldingPeers
  BY <1>1 DEF HoldingPeers, KeptHolders, CloserInv
<1>2. CASE p \in MissingHolders
  <2> DEFINE missing == AcceptingPeers \ entry.holders
             required == AmountOfRequiredHolders(AcceptingPeers)
  <2>1. p \in missing /\ Cardinality(CloserThan(missing, p)) < required - Cardinality(KeptHolders)
    BY <1>2 DEF MissingHolders, FirstOf, CloserThan
  <2>2. CloserThan(missing, p) \in SUBSET Peers /\ KeptHolders \in SUBSET Peers
    BY <1>0 DEF CloserThan, KeptHolders
  <2>3. required \in {0, 1}
    BY <1>0, RequiredHoldersBounded
  <2>4. required = 1 /\ Cardinality(KeptHolders) = 0 /\ Cardinality(CloserThan(missing, p)) = 0
    <3> HIDE DEF missing, required
    <3> QED
      BY <2>1, <2>2, <2>3, PeersAreFinite
  <2>5. KeptHolders = {} /\ CloserThan(missing, p) = {}
    BY <2>2, <2>4, PeersAreFinite, FS_EmptySet
  <2>6. PICK c \in AcceptingPeers :
          ResponsiblePeers(AcceptingPeers) = {c} /\ IsCloserThanSelf(c)
    BY <1>0, <2>4, OneIsCloser
  <2>7. c \notin entry.holders
    <3>1. IsAmongResponsible(AcceptingPeers, c)
      BY <1>0, <2>6, DistributionAssumption DEF IsAmongResponsible
    <3>2. IsReachable(c) /\ c \notin excluded
      BY <1>0, <2>6 DEF SteadyInv, IsReachable, AcceptingPeers
    <3> QED
      BY <2>5, <3>1, <3>2 DEF KeptHolders, IsKept
  <2>8. ~(Distance[c] < Distance[p])
    BY <2>5, <2>6, <2>7 DEF CloserThan
  <2>9. Distance[c] \in Nat /\ Distance[p] \in Nat /\ SelfDistance \in Nat
    BY <1>0, <2>1, <2>6, DistributionAssumption
  <2> QED
    BY <2>6, <2>8, <2>9 DEF IsCloserThanSelf
<1> QED
  BY <1>1, <1>2 DEF Recipients

LEMMA CloserKept == Types /\ SteadyInv /\ CloserInv /\ [Next]_vars => CloserInv'
<1> SUFFICES ASSUME Types, SteadyInv, CloserInv, [Next]_vars, IsRosterSteady', Redundancy = 1
             PROVE  CloserInv'
  BY DEF CloserInv
<1>0. /\ IsRosterSteady /\ \A p \in entry.holders : IsCloserThanSelf(p)
      /\ IsOffered => \A p \in DOMAIN offer.postings \cup offer.recorded : IsCloserThanSelf(p)
  BY StepsOfSteadyRoster DEF CloserInv
<1>1. ASSUME NEW p \in entry'.holders PROVE IsCloserThanSelf(p)
  <2>1. CASE entry'.holders = entry.holders
    BY <1>0, <1>1, <2>1
  <2>2. CASE Commit
    <3>1. Holders \subseteq DOMAIN offer.postings \cup offer.recorded
      BY DEF Holders
    <3>2. RecordedEntry.holders = Holders /\ NoEntry.holders = {}
      BY DEF RecordedEntry, NoEntry, Types, Entries
    <3> QED
      BY <1>0, <1>1, <2>2, <3>1, <3>2 DEF Commit, IsOffered
  <2>3. CASE ScheduleAdmissions
    <3>1. entry'.holders = entry.holders
      BY <2>3 DEF ScheduleAdmissions, Types, Entries, NoEntry
    <3> QED
      BY <2>1, <3>1
  <2>4. CASE Tick
    BY <2>1, <2>4, HoldersOutlastTicks
  <2>5. CASE entry' = entry
    BY <2>1, <2>5
  <2>6. ASSUME NEW u \in Postings, Admit(u) \/ Evict(u) PROVE entry' = entry
    BY <2>6 DEF Admit, Evict
  <2>7. ASSUME NEW q \in Peers, ChangeContact(q) \/ RecencyLapses(q) \/ Exclude(q)
        PROVE  entry' = entry
    BY <2>7 DEF ChangeContact, RecencyLapses, Exclude
  <2>8. CASE ReadReachablePeers \/ MakeOffer \/ FindNoOffer \/ Send \/ Abandon \/ Restart
    BY <2>5, <2>8 DEF ReadReachablePeers, MakeOffer, FindNoOffer, Send, Abandon, Restart
  <2> QED
    BY <2>2, <2>3, <2>4, <2>5, <2>6, <2>7, <2>8 DEF Next, Work, vars
<1>2. ASSUME IsOffered', NEW p \in DOMAIN offer'.postings \cup offer'.recorded
      PROVE  IsCloserThanSelf(p)
  <2>1. CASE MakeOffer
    <3>1. stage # "idle" /\ offer' = DueOffer
      BY <2>1 DEF MakeOffer
    <3>2. DOMAIN DueOffer.postings = Recipients /\ DueOffer.recorded = entry.holders
      BY DEF DueOffer
    <3> QED
      BY <1>0, <1>2, <3>1, <3>2, RecipientsAreCloser
  <2>2. CASE ~MakeOffer
    <3>1. IsOffered /\ offer' = offer
      BY <1>2, <2>2, StepsOfOffers DEF Send, Tick, Admit, Evict, workerVars, IsOffered
    <3> QED
      BY <1>0, <1>2, <3>1
  <2> QED
    BY <2>1, <2>2
<1> QED
  BY <1>1, <1>2 DEF CloserInv

LEMMA KeptAreResponsible ==
  ASSUME Types, SteadyInv, CloserInv, IsRosterSteady, stage # "idle"
  PROVE  KeptHolders \subseteq ResponsiblePeers(AcceptingPeers)
<1> SUFFICES ASSUME NEW p \in KeptHolders PROVE p \in ResponsiblePeers(AcceptingPeers)
  OBVIOUS
<1>1. entry.holders \subseteq Peers
  BY DEF Types, Entries, NoEntry
<1>2. p \in Peers /\ IsKept(p) /\ p \notin excluded
  BY <1>1 DEF KeptHolders, IsKept
<1>3. p \in AcceptingPeers /\ AcceptingPeers \subseteq Peers /\ IsReachable(p)
  BY <1>2 DEF AcceptingPeers, SteadyInv, IsReachable
<1>4. IsAmongResponsible(AcceptingPeers, p)
  BY <1>2, <1>3 DEF IsKept
<1>5. CASE Redundancy = 1
  <2>1. IsCloserThanSelf(p)
    BY <1>5 DEF CloserInv, KeptHolders
  <2> QED
    BY <1>3, <1>4, <1>5, <2>1, OneIsResponsible
<1>6. CASE Redundancy > 1
  BY <1>3, <1>4, <1>6, AmongIsResponsible
<1> QED
  BY <1>5, <1>6, DistributionAssumption

LEMMA SteadyKept == Types /\ SteadyInv /\ CloserInv /\ [Next]_vars => SteadyInv'
<1> SUFFICES ASSUME Types, SteadyInv, CloserInv, [Next]_vars, IsRosterSteady' PROVE SteadyInv'
  BY DEF SteadyInv
<1>0. /\ IsRosterSteady /\ contact' = contact /\ \A p \in Peers : contact[p] = "accepting"
      /\ stage # "idle" => ring = Peers
      /\ IsOffered => offer.recorded \ offer.stale \subseteq offer.responsible
  BY StepsOfSteadyRoster DEF SteadyInv
<1>1. CASE ReadReachablePeers
  <2>1. ring' = Peers /\ stage' = "scheduling"
    BY <1>0, <1>1 DEF ReadReachablePeers
  <2> QED
    BY <1>0, <2>1 DEF SteadyInv, IsOffered
<1>2. CASE MakeOffer
  <2>1. stage = "searching" /\ ring' = ring
    BY <1>2 DEF MakeOffer
  <2>2. offer'.recorded \ offer'.stale \subseteq offer'.responsible
    BY <1>0, <1>2, <2>1, KeptAreResponsible, DueOfferIsComplete
  <2> QED
    BY <1>0, <2>1, <2>2 DEF SteadyInv
<1>3. CASE BecomesIdle
  BY <1>0, <1>3 DEF SteadyInv, BecomesIdle, IsOffered
<1>4. CASE stage # "idle" /\ ring' = ring /\ (IsOffered' => IsOffered /\ offer' = offer)
  BY <1>0, <1>4 DEF SteadyInv
<1>5. CASE UNCHANGED workerVars
  BY <1>0, <1>5 DEF SteadyInv, workerVars, IsOffered
<1> QED
  BY <1>1, <1>2, <1>3, <1>4, <1>5, StepsOfSteadyRoster

\* When what came of an offer is recorded, every holder holds what is delivered by then:
\* a responsible one accepted it, another one accepted everything it was offered.
LEMMA RecordedHoldersHold ==
  ASSUME Types, OfferInv, AnswerInv, SteadyInv, HoldersHoldWhatIsDelivered, IsRosterSteady,
         stage = "answered", NEW p \in Holders, NEW u \in stored \ (undelivered \ Acknowledged)
  PROVE  IsCurrentAt(p, u)
<1>0. /\ stored \subseteq Postings /\ undelivered \subseteq stored /\ IsOffered
      /\ offer.recorded = entry.holders
  BY DEF Types, PostingTypes, OfferInv, IsOffered
<1>1. version[u] = offer.versions[u]
  BY <1>0 DEF OfferInv, Acknowledged
<1>2. ASSUME u \in Accepted(p) PROVE IsCurrentAt(p, u)
  BY <1>1, <1>2 DEF Accepted, AnswerInv, IsCurrentAt
<1>3. CASE p \in offer.recorded \ offer.stale
  <2>1. CASE u \in undelivered
    <3>1. p \in offer.responsible /\ u \in DeliveredPostings
      BY <1>0, <1>3, <2>1 DEF SteadyInv, Acknowledged
    <3> QED
      BY <1>2, <3>1 DEF DeliveredPostings
  <2>2. CASE u \notin undelivered
    BY <1>0, <1>3, <2>2 DEF HoldersHoldWhatIsDelivered
  <2> QED
    BY <2>1, <2>2
<1>4. CASE p \in DOMAIN offer.postings \ offer.recorded /\ HoldsEvery(p)
  <2>1. u \in offer.undelivered \/ u \in stored \ undelivered
    BY DEF Acknowledged, DeliveredPostings
  <2>2. u \in offer.postings[p]
    BY <1>0, <1>4, <2>1 DEF OfferInv
  <2> QED
    BY <1>2, <1>4, <2>2 DEF HoldsEvery
<1> QED
  BY <1>3, <1>4 DEF Holders

LEMMA HoldersKept ==
  Types /\ OfferInv /\ AnswerInv /\ SteadyInv /\ HoldersHoldWhatIsDelivered /\ [Next]_vars
    => HoldersHoldWhatIsDelivered'
<1> SUFFICES ASSUME Types, OfferInv, AnswerInv, SteadyInv, HoldersHoldWhatIsDelivered, [Next]_vars,
                    IsRosterSteady', NEW p \in entry'.holders, NEW u \in stored' \ undelivered'
             PROVE  held'[p][u] = version'[u]
  BY DEF HoldersHoldWhatIsDelivered, IsCurrentAt
<1>0. /\ IsRosterSteady /\ stored \subseteq Postings /\ undelivered \subseteq stored
      /\ version \in [Postings -> Versions] /\ entry.holders \subseteq Peers
      /\ \A q \in entry.holders, v \in stored \ undelivered : held[q][v] = version[v]
  BY StepsOfSteadyRoster DEF Types, PostingTypes, HoldersHoldWhatIsDelivered, IsCurrentAt, Entries, NoEntry
<1>1. CASE UNCHANGED <<version, stored, undelivered, held>> /\ entry'.holders = entry.holders
  BY <1>0, <1>1
<1>2. ASSUME NEW v \in Postings, Admit(v) PROVE held'[p][u] = version'[u]
  <2>1. /\ entry' = entry /\ held' = held /\ u \in stored \ undelivered /\ u # v
        /\ version' \in {version, [version EXCEPT ![v] = @ + 1]}
    BY <1>2 DEF Admit
  <2> QED
    BY <1>0, <2>1
<1>3. ASSUME NEW v \in Postings, Evict(v) PROVE held'[p][u] = version'[u]
  BY <1>0, <1>3 DEF Evict
<1>4. CASE Tick
  BY <1>1, <1>4, HoldersOutlastTicks DEF Tick, postingVars
<1>5. CASE ScheduleAdmissions
  <2>1. entry'.holders = entry.holders
    BY <1>5 DEF ScheduleAdmissions, Types, Entries, NoEntry
  <2> QED
    BY <1>1, <1>5, <2>1 DEF ScheduleAdmissions
<1>6. CASE Send
  <2>1. UNCHANGED <<version, stored, undelivered, entry>> /\ IsOffered
    BY <1>6 DEF Send, postingVars, IsOffered
  <2>2. held'[p][u] \in {held[p][u], offer.versions[u]}
    BY <1>0, <1>6, <2>1 DEF Send
  <2>3. version[u] = offer.versions[u]
    BY <2>1 DEF OfferInv
  <2> QED
    BY <1>0, <2>1, <2>2, <2>3
<1>7. CASE Commit
  <2>1. held' = held /\ version' = version /\ stage = "answered" /\ undelivered' = undelivered \ Acknowledged
    BY <1>7 DEF Commit
  <2>2. u \in stored
    BY <1>7 DEF Commit
  <2>3. p \in Holders
    <3>1. RecordedEntry.holders = Holders
      BY DEF RecordedEntry, Types, Entries, NoEntry
    <3>2. NoEntry.holders = {}
      BY DEF NoEntry
    <3> QED
      BY <1>7, <3>1, <3>2 DEF Commit
  <2> QED
    BY <1>0, <2>1, <2>2, <2>3, RecordedHoldersHold DEF IsCurrentAt
<1>8. CASE ReadReachablePeers \/ MakeOffer \/ FindNoOffer \/ Abandon \/ Restart
  BY <1>1, <1>8 DEF ReadReachablePeers, MakeOffer, FindNoOffer, Abandon, Restart, postingVars
<1>9. ASSUME NEW q \in Peers, ChangeContact(q) \/ RecencyLapses(q) \/ Exclude(q)
      PROVE  held'[p][u] = version'[u]
  BY <1>1, <1>9 DEF ChangeContact, RecencyLapses, Exclude, postingVars
<1>10. CASE UNCHANGED vars
  BY <1>1, <1>10 DEF vars, postingVars
<1> QED
  BY <1>2, <1>3, <1>4, <1>5, <1>6, <1>7, <1>8, <1>9, <1>10 DEF Next, Work

LEMMA SteadyHolds == Spec => [](SteadyInv /\ HoldersHoldWhatIsDelivered)
<1>1. Init => SteadyInv /\ CloserInv /\ HoldersHoldWhatIsDelivered
  BY DEF Init, SteadyInv, CloserInv, IsOffered, HoldersHoldWhatIsDelivered, NoEntry
<1> QED
  BY <1>1, SteadyKept, CloserKept, HoldersKept, TypesHold, OffersHold, PTL DEF Spec

\* A recorded holder holds every posting that is not undelivered as it is now, whatever sends,
\* the vault and exclusions do, while the roster is steady.
THEOREM HoldersHold == Spec => []HoldersHoldWhatIsDelivered
BY SteadyHolds, PTL

\* While the roster is steady, nothing is deleted before as many peers closer than this node
\* as the redundancy asks for hold it as it is.
THEOREM DeletesWhatIsHeld == Spec => DeletesWhatSteadyPeersHold
<1>1. Types /\ OfferInv /\ AnswerInv /\ SteadyInv /\ HoldersHoldWhatIsDelivered /\ [Next]_vars
        => [HandsOff /\ IsRosterSteady => \A u \in stored : IsHeldByEnoughPeers(u)]_vars
  <2> SUFFICES ASSUME Types, OfferInv, AnswerInv, SteadyInv, HoldersHoldWhatIsDelivered, [Next]_vars,
                      HandsOff, IsRosterSteady, NEW u \in stored
               PROVE  IsHeldByEnoughPeers(u)
    OBVIOUS
  <2> DEFINE closer == {p \in Holders \cap offer.responsible : IsCloserThanSelf(p)}
             holding == {p \in Peers : IsCloserThanSelf(p) /\ IsCurrentAt(p, u)}
  <2>1. stage = "answered" /\ undelivered \ Acknowledged = {} /\ Cardinality(closer) >= Redundancy
    BY HandsOffByCommit DEF Commit, IsHandedOff, IsHeldByResponsiblePeers
  <2>2. closer \subseteq holding
    <3>1. offer.responsible \subseteq Peers
      BY DEF Types, OfferTypes
    <3>2. \A p \in Holders : IsCurrentAt(p, u)
      BY <2>1, RecordedHoldersHold
    <3> QED
      BY <3>1, <3>2
  <2>3. /\ Cardinality(closer) <= Cardinality(holding) /\ Cardinality(closer) \in Nat
        /\ Cardinality(holding) \in Nat
    BY <2>2, SubsetsAreSmaller, PeersAreFinite
  <2>4. Cardinality(holding) >= Redundancy
    BY <2>1, <2>3, DistributionAssumption
  <2> QED
    BY <2>4 DEF IsHeldByEnoughPeers
<1> QED
  BY <1>1, SteadyHolds, TypesHold, OffersHold, PTL DEF Spec, DeletesWhatSteadyPeersHold

-----------------------------------------------------------------------------
(* What is undelivered is taken up *)

\* A word partition in retry is due before its delay has run out; and as long as nothing is
\* admitted, an offer has all that is undelivered, as it is.
TakenUpInv ==
  /\ UndeliveredIsTakenUp
  /\ entry.retryDelay # 0 => entry.dueIn <= entry.retryDelay
  /\ IsOffered /\ ~admitted =>
       undelivered \subseteq offer.undelivered
         /\ \A u \in undelivered : version[u] = offer.versions[u]

LEMMA EntriesAre ==
  ASSUME Types
  PROVE  /\ entry.retryDelay \in Nat /\ entry.dueIn \in Int /\ entry.refreshIn \in Nat
         /\ entry # NoEntry => entry \in Entries /\ entry.dueIn \in Nat
         /\ entry \in [holders : SUBSET Peers, dueIn : Times \cup {-1}, retryDelay : Times,
                       refreshIn : Times]
         /\ NoEntry \notin Entries
<1>1. RefreshInterval \in Nat
  BY DistributionAssumption
<1> QED
  BY <1>1 DEF Types, Entries, NoEntry, Times

\* What a recorded offer leaves of the retry.
LEMMA RecordedDue ==
  ASSUME Types
  PROVE  /\ RecordedEntry # NoEntry
         /\ RecordedEntry.retryDelay # 0 \/ ~IsAtRedundancy =>
              RecordedEntry.dueIn <= RecordedEntry.retryDelay
<1>1. RecordedEntry \in Entries
  BY RecordedEntryTypes
<1>2. RecordedEntry # NoEntry
  BY <1>1, EntriesAre
<1>3. CASE ~IsAtRedundancy
  <2> DEFINE delay == RetryDelayAfter(entry.retryDelay)
  <2>1. RecordedEntry = [entry EXCEPT !.holders = Holders, !.dueIn = delay, !.retryDelay = delay]
    BY <1>3 DEF RecordedEntry
  <2> HIDE DEF delay
  <2>2. RecordedEntry.dueIn = delay /\ RecordedEntry.retryDelay = delay
    BY <2>1, EntriesAre
  <2>3. delay \in Int
    BY <1>1, <2>2, DistributionAssumption DEF Entries, Times
  <2> QED
    BY <1>2, <2>2, <2>3
<1>4. CASE IsAtRedundancy
  <2>1. RecordedEntry.retryDelay = 0
    BY <1>4, EntriesAre DEF RecordedEntry
  <2> QED
    BY <1>2, <1>4, <2>1
<1> QED
  BY <1>3, <1>4

LEMMA CommitTakesUp ==
  ASSUME Types, TakenUpInv, Commit
  PROVE  TakenUpInv'
<1>1. /\ stage = "answered" /\ undelivered' = undelivered \ Acknowledged /\ admitted' = admitted
      /\ entry' = IF IsHandedOff THEN NoEntry ELSE RecordedEntry
      /\ ~IsOffered'
  BY DEF Commit, BecomesIdle, IsOffered
<1>2. CASE IsHandedOff
  <2>1. undelivered' = {} /\ entry' = NoEntry
    BY <1>1, <1>2 DEF IsHandedOff
  <2>2. NoEntry.retryDelay = 0
    BY DEF NoEntry
  <2> QED
    BY <1>1, <2>1, <2>2 DEF TakenUpInv, UndeliveredIsTakenUp
<1>3. CASE ~IsHandedOff
  <2>1. ASSUME IsAtRedundancy, ~admitted PROVE undelivered' = {}
    <3>1. /\ undelivered \subseteq DeliveredPostings
          /\ \A u \in undelivered : version[u] = offer.versions[u]
      BY <1>1, <2>1 DEF TakenUpInv, IsOffered, IsAtRedundancy
    <3>2. undelivered \subseteq Acknowledged
      BY <3>1 DEF Acknowledged
    <3> QED
      BY <1>1, <3>2
  <2> QED
    BY <1>1, <1>3, <2>1, RecordedDue DEF TakenUpInv, UndeliveredIsTakenUp
<1> QED
  BY <1>2, <1>3

LEMMA ScheduleTakesUp ==
  ASSUME Types, TakenUpInv, ScheduleAdmissions
  PROVE  TakenUpInv'
<1>1. /\ undelivered' = undelivered /\ ~IsOffered'
      /\ entry' = IF admitted /\ (entry = NoEntry \/ entry.retryDelay = 0)
                    THEN [entry EXCEPT !.dueIn = 0] ELSE entry
  BY DEF ScheduleAdmissions, IsOffered
<1>2. CASE admitted /\ (entry = NoEntry \/ entry.retryDelay = 0)
  <2>1. entry' = [entry EXCEPT !.dueIn = 0]
    BY <1>1, <1>2
  <2>2. entry'.dueIn = 0 /\ entry'.retryDelay = entry.retryDelay
    BY <2>1, EntriesAre
  <2>3. NoEntry.dueIn = -1
    BY DEF NoEntry
  <2>4. entry' # NoEntry /\ entry'.dueIn <= entry'.retryDelay
    BY <2>2, <2>3, EntriesAre
  <2> QED
    BY <1>1, <2>4 DEF TakenUpInv, UndeliveredIsTakenUp
<1>3. CASE ~(admitted /\ (entry = NoEntry \/ entry.retryDelay = 0))
  BY <1>1, <1>3 DEF TakenUpInv, UndeliveredIsTakenUp
<1> QED
  BY <1>2, <1>3

LEMMA TickTakesUp ==
  ASSUME Types, TakenUpInv, Tick
  PROVE  TakenUpInv'
<1>1. /\ entry # NoEntry
      /\ UNCHANGED <<version, undelivered, admitted, stage, offer>>
      /\ entry' = [entry EXCEPT !.dueIn = Greater(@ - 1, 0), !.refreshIn = Greater(@ - 1, 0)]
  BY DEF Tick, postingVars, workerVars
<1>2. /\ entry'.dueIn = Greater(entry.dueIn - 1, 0) /\ entry'.retryDelay = entry.retryDelay
  BY <1>1, EntriesAre
<1>3. NoEntry.dueIn = -1
  BY DEF NoEntry
<1>4. entry.dueIn \in Nat /\ entry.retryDelay \in Nat
  BY <1>1, EntriesAre
<1>5. /\ entry'.dueIn \in Nat
      /\ entry.dueIn <= entry.retryDelay => entry'.dueIn <= entry.retryDelay
  BY <1>2, <1>4 DEF Greater
<1>6. entry' # NoEntry
  BY <1>3, <1>5
<1> QED
  BY <1>1, <1>2, <1>5, <1>6 DEF TakenUpInv, UndeliveredIsTakenUp, IsOffered

LEMMA TakenUpKept == Types /\ TakenUpInv /\ [Next]_vars => TakenUpInv'
<1> SUFFICES ASSUME Types, TakenUpInv, [Next]_vars PROVE TakenUpInv'
  OBVIOUS
<1>0. stored \subseteq Postings /\ undelivered \subseteq stored /\ version \in [Postings -> Versions]
  BY DEF Types, PostingTypes
<1>1. CASE Commit \/ ScheduleAdmissions \/ Tick
  BY <1>1, CommitTakesUp, ScheduleTakesUp, TickTakesUp
<1>2. CASE MakeOffer
  <2>1. /\ UNCHANGED <<version, undelivered, admitted, entry>>
        /\ offer' = DueOffer
    BY <1>2 DEF MakeOffer, postingVars
  <2>2. DueOffer.undelivered = undelivered /\ DueOffer.versions = version
    BY DEF DueOffer
  <2> QED
    BY <2>1, <2>2 DEF TakenUpInv, UndeliveredIsTakenUp
<1>3. CASE Send
  <2>1. UNCHANGED <<version, undelivered, admitted, entry, offer>> /\ IsOffered
    BY <1>3 DEF Send, postingVars, IsOffered
  <2> QED
    BY <2>1 DEF TakenUpInv, UndeliveredIsTakenUp
<1>4. CASE ReadReachablePeers \/ FindNoOffer \/ Abandon \/ Restart
  <2>1. UNCHANGED <<version, undelivered, admitted, entry>> /\ ~IsOffered'
    BY <1>4 DEF ReadReachablePeers, FindNoOffer, Abandon, Restart, postingVars, BecomesIdle, IsOffered
  <2> QED
    BY <2>1 DEF TakenUpInv, UndeliveredIsTakenUp
<1>5. ASSUME NEW u \in Postings, Admit(u) PROVE TakenUpInv'
  BY <1>5 DEF Admit, TakenUpInv, UndeliveredIsTakenUp
<1>6. ASSUME NEW u \in Postings, Evict(u) PROVE TakenUpInv'
  <2>1. /\ UNCHANGED <<version, admitted, entry, offer, stage>>
        /\ undelivered' \subseteq undelivered
    BY <1>6 DEF Evict, workerVars
  <2> QED
    BY <2>1 DEF TakenUpInv, UndeliveredIsTakenUp, IsOffered
<1>7. CASE (\E p \in Peers : ChangeContact(p) \/ RecencyLapses(p) \/ Exclude(p)) \/ UNCHANGED vars
  <2>1. UNCHANGED <<version, undelivered, admitted, entry, stage, offer>>
    BY <1>7 DEF ChangeContact, RecencyLapses, Exclude, vars, postingVars, workerVars
  <2> QED
    BY <2>1 DEF TakenUpInv, UndeliveredIsTakenUp, IsOffered
<1> QED
  BY <1>1, <1>2, <1>3, <1>4, <1>5, <1>6, <1>7 DEF Next, Work

\* What is undelivered is admitted afresh, due, or in retry: it is never put off until the
\* next refresh of its word partition, whatever peers accept and wherever the vault fails
\* (RecordAtRedundancy and RecordShortOfRedundancy, and admissions during an offer).
THEOREM TakenUp == Spec => []UndeliveredIsTakenUp
<1>1. Init => TakenUpInv
  BY DEF Init, TakenUpInv, UndeliveredIsTakenUp, IsOffered, NoEntry
<1>2. Spec => []TakenUpInv
  BY <1>1, TakenUpKept, TypesHold, PTL DEF Spec
<1>3. TakenUpInv => UndeliveredIsTakenUp
  BY DEF TakenUpInv
<1> QED
  BY <1>2, <1>3, PTL
=============================================================================
