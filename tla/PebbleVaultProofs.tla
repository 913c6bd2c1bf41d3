------------------------- MODULE PebbleVaultProofs -------------------------
(***************************************************************************)
(* Proofs about PebbleVault, for any writes, keys, ranges of scans, write  *)
(* slots, conflicts before a write runs alone, and crashes.                *)
(***************************************************************************)
EXTENDS PebbleVault, TLAPS, SequenceTheorems, WellFoundedInduction, FiniteSetTheorems

-----------------------------------------------------------------------------
(* States and commits *)

States == [Keys -> Nat \ {0}]

Less == {ss \in Nat \X Nat : ss[1] < ss[2]}

LEMMA LeastOf ==
  ASSUME NEW S, S \subseteq Nat, S # {}
  PROVE  \E m \in S : \A n \in S : m <= n
<1>1. IsWellFoundedOn(Less, Nat)
  BY NatLessThanWellFounded DEF OpToRel, Less
<1>2. PICK m \in S : \A n \in S : ~(<<n, m>> \in Less)
  BY <1>1, WFMin, Zenon
<1>3. ASSUME NEW n \in S
      PROVE  m <= n
  <2>1. m \in Nat /\ n \in Nat /\ <<n, m>> \in Nat \X Nat
    OBVIOUS
  <2>2. ~(<<n, m>>[1] < <<n, m>>[2])
    BY <1>2, <2>1 DEF Less
  <2> QED
    BY <2>1, <2>2
<1> QED
  BY <1>3

\* The states there are, and the latest of them.
LEMMA StatesAreStates ==
  ASSUME NEW s \in Seq(States), s # <<>>
  PROVE  /\ Len(s) \in Nat \ {0}
         /\ \A n \in 1..Len(s) : s[n] \in States
         /\ Latest(s) \in States
<1>1. Len(s) \in Nat \ {0} /\ \A n \in 1..Len(s) : s[n] \in States
  BY EmptySeq, ElementOfSeq
<1> QED
  BY <1>1 DEF Latest

\* A commit adds one state, and a crash keeps the first ones.
LEMMA CommittedState ==
  ASSUME NEW w \in Writers, Commit(w),
         states \in Seq(States), states # <<>>, changes \in [Writers -> SUBSET Keys]
  PROVE  /\ states' \in Seq(States) /\ states' # <<>> /\ Len(states') = Len(states) + 1
         /\ \A k \in Keys : Latest(states')[k] = IF k \in changes[w] THEN Len(states) + 1
                                                 ELSE Latest(states)[k]
<1> DEFINE new == [k \in Keys |-> IF k \in changes[w] THEN Len(states) + 1
                                  ELSE Latest(states)[k]]
<1>1. new \in States
  BY StatesAreStates DEF States
<1>2. states' = Append(states, new)
  BY DEF Commit
<1> HIDE DEF new
<1>3. /\ states' \in Seq(States) /\ Len(states') = Len(states) + 1
      /\ states'[Len(states) + 1] = new
  BY <1>1, <1>2, AppendProperties
<1>4. Len(states) \in Nat \ {0}
  BY StatesAreStates
<1>5. states' # <<>>
  BY <1>3, <1>4, EmptySeq
<1>6. Latest(states') = new
  BY <1>3 DEF Latest
<1> QED
  BY <1>3, <1>5, <1>6 DEF new

LEMMA KeptStates ==
  ASSUME NEW s \in Seq(States), s # <<>>, NEW n \in 1..Len(s)
  PROVE  SubSeq(s, 1, n) \in Seq(States) /\ SubSeq(s, 1, n) # <<>> /\ Len(SubSeq(s, 1, n)) = n
<1>1. Len(s) \in Nat /\ \A i \in 1..n : s[i] \in States
  BY StatesAreStates
<1>2. SubSeq(s, 1, n) \in Seq(States) /\ Len(SubSeq(s, 1, n)) = n
  BY <1>1, SubSeqProperties
<1> QED
  BY <1>1, <1>2, EmptySeq

\* A transaction that ends forgets only commits that no running one began before.
LEMMA OldestBegin ==
  ASSUME lastCommit' \in Nat, begunAfter' \in [Writers -> Nat]
  PROVE  /\ oldestBegunAfter \in Nat
         /\ \A w \in Writers : stage'[w] \in Running => oldestBegunAfter <= begunAfter'[w]
<1> DEFINE running == {w \in Writers : stage'[w] \in Running}
           S == {lastCommit'} \cup {begunAfter'[w] : w \in running}
           IsOldest(n) == n <= lastCommit' /\ \A w \in running : n <= begunAfter'[w]
<1>1. S \subseteq Nat /\ S # {}
  OBVIOUS
<1>2. \E m \in S : \A n \in S : m <= n
  BY <1>1, LeastOf, Zenon
<1>3. \E m \in S : IsOldest(m)
  BY <1>2
<1>4. oldestBegunAfter = CHOOSE n \in S : IsOldest(n)
  BY DEF oldestBegunAfter
<1>5. oldestBegunAfter \in S /\ IsOldest(oldestBegunAfter)
  BY <1>3, <1>4, Zenon
<1> QED
  BY <1>1, <1>5

LEMMA EndedTransactions ==
  ASSUME NEW recorded, \A c \in recorded : c.number \in Nat,
         lastCommit' \in Nat, begunAfter' \in [Writers -> Nat], transactionEnded(recorded)
  PROVE  /\ commits' \subseteq recorded
         /\ \A c \in recorded, w \in Writers :
              stage'[w] \in Running /\ c.number > begunAfter'[w] => c \in commits'
<1>1. commits' = {c \in recorded : c.number > oldestBegunAfter}
  BY DEF transactionEnded
<1>2. ASSUME NEW c \in recorded, NEW w \in Writers,
             stage'[w] \in Running, c.number > begunAfter'[w]
      PROVE  c.number > oldestBegunAfter
  <2>1. oldestBegunAfter \in Nat /\ oldestBegunAfter <= begunAfter'[w]
    BY <1>2, OldestBegin
  <2> QED
    BY <1>2, <2>1
<1> QED
  BY <1>1, <1>2

-----------------------------------------------------------------------------
(* Types *)

\* The turn is one write's, and only a write that may still conflict runs with others.
TurnInv ==
  \A w \in Writers :
    /\ stage[w] \in HoldingTurn <=> commitTurn = w
    /\ stage[w] \in {"running", "checking"} => mayConflict(w)

TypeInv == TypeOK /\ TurnInv

LEMMA TypesAtFirst == Init => TypeInv
<1> SUFFICES ASSUME Init PROVE TypeInv
  OBVIOUS
<1>1. [k \in Keys |-> 1] \in [Keys -> Nat \ {0}]
  OBVIOUS
<1>2. states \in Seq([Keys -> Nat \ {0}]) /\ states # <<>> /\ synced \in 1..Len(states)
  BY <1>1 DEF Init
<1>3. TypeOK
  BY <1>2, VaultAssumption DEF Init, TypeOK, Stages
<1>4. TurnInv
  BY VaultAssumption DEF Init, TurnInv, HoldingTurn
<1> QED
  BY <1>3, <1>4 DEF TypeInv

LEMMA SlotTypes ==
  ASSUME TypeInv, NEW w \in Writers,
         TakeWriteSlot(w) \/ RefuseWrite(w) \/ BeginOptimistically(w) \/ BeginExclusively(w)
           \/ HoldCommits(w)
  PROVE  TypeInv'
<1>1. TypeOK'
  <2>1. UNCHANGED <<database, history, conflicts, place, crashes>>
    BY DEF TakeWriteSlot, RefuseWrite, BeginOptimistically, BeginExclusively, HoldCommits, BeginRun
  <2>2. \E next \in Stages : stage' = [stage EXCEPT ![w] = next]
    BY DEF TakeWriteSlot, RefuseWrite, BeginOptimistically, BeginExclusively, HoldCommits, Goes, Stages
  <2>3. stage' \in [Writers -> Stages]
    BY <2>2 DEF TypeInv, TypeOK
  <2>4. commitTurn' \in {commitTurn, w}
    BY DEF TakeWriteSlot, RefuseWrite, BeginOptimistically, BeginExclusively, HoldCommits
  <2>5. \/ begunAfter' = begunAfter /\ seen' = seen /\ changes' = changes
        \/ BeginRun(w)
    BY DEF TakeWriteSlot, RefuseWrite, BeginOptimistically, BeginExclusively, HoldCommits, run
  <2>6. /\ begunAfter' \in [Writers -> 0..lastCommit]
        /\ seen' \in [Writers -> SUBSET (Keys \X (Nat \ {0}))]
        /\ changes' \in [Writers -> SUBSET Keys]
    <3>1. /\ begunAfter \in [Writers -> 0..lastCommit] /\ lastCommit \in Nat
          /\ seen \in [Writers -> SUBSET (Keys \X (Nat \ {0}))]
          /\ changes \in [Writers -> SUBSET Keys]
      BY DEF TypeInv, TypeOK
    <3>2. CASE begunAfter' = begunAfter /\ seen' = seen /\ changes' = changes
      BY <3>1, <3>2
    <3>3. CASE BeginRun(w)
      <4>1. lastCommit \in 0..lastCommit
        BY <3>1
      <4>2. begunAfter' \in [Writers -> 0..lastCommit]
        BY <3>1, <3>3, <4>1 DEF BeginRun
      <4> QED
        BY <3>1, <3>3, <4>2 DEF BeginRun
    <3> QED
      BY <2>5, <3>2, <3>3
  <2> QED
    BY <2>1, <2>3, <2>4, <2>6 DEF TypeInv, TypeOK, database, history
<1>2. TurnInv'
  BY VaultAssumption
  DEF TakeWriteSlot, RefuseWrite, BeginOptimistically, BeginExclusively, HoldCommits, BeginRun,
      Goes, TypeInv, TypeOK, TurnInv, HoldingTurn, mayConflict, run
<1> QED
  BY <1>1, <1>2 DEF TypeInv

LEMMA AccessTypes ==
  ASSUME TypeInv, NEW w \in Writers,
         \/ \E k \in Keys : Read(w, k) \/ Change(w, k)
         \/ \E range \in Ranges : Scan(w, range)
  PROVE  TypeInv'
<1>1. Latest(states) \in States
  BY StatesAreStates DEF TypeInv, TypeOK, States
<1>2. \A k \in Keys : Latest(states)[k] \in Nat \ {0}
  BY <1>1 DEF States
<1>3. UNCHANGED <<database, commitTurn, history, stage, conflicts, begunAfter, place, crashes>>
  BY DEF Read, Change, Scan
<1>4. seen' \in [Writers -> SUBSET (Keys \X (Nat \ {0}))]
  <2>1. ASSUME NEW k \in Keys, Read(w, k)
        PROVE  seen' \in [Writers -> SUBSET (Keys \X (Nat \ {0}))]
    BY <1>2, <2>1 DEF Read, TypeInv, TypeOK
  <2>2. ASSUME NEW k \in Keys, Change(w, k)
        PROVE  seen' \in [Writers -> SUBSET (Keys \X (Nat \ {0}))]
    BY <2>2 DEF Change, TypeInv, TypeOK
  <2>3. ASSUME NEW range \in Ranges, Scan(w, range)
        PROVE  seen' \in [Writers -> SUBSET (Keys \X (Nat \ {0}))]
    <3>1. range \subseteq Keys
      BY VaultAssumption
    <3>2. {<<k, Latest(states)[k]>> : k \in range \ (changes[w] \cap Records)}
            \in SUBSET (Keys \X (Nat \ {0}))
      BY <1>2, <3>1
    <3> QED
      BY <2>3, <3>2 DEF Scan, TypeInv, TypeOK
  <2> QED
    BY <2>1, <2>2, <2>3
<1>5. changes' \in [Writers -> SUBSET Keys]
  <2>1. changes' = changes \/ \E k \in Keys : changes' = [changes EXCEPT ![w] = @ \cup {k}]
    BY DEF Read, Change, Scan
  <2>2. changes \in [Writers -> SUBSET Keys]
    BY DEF TypeInv, TypeOK
  <2> QED
    BY <2>1, <2>2
<1>6. TypeOK'
  BY <1>3, <1>4, <1>5 DEF TypeInv, TypeOK, database, history
<1>7. TurnInv'
  BY <1>3 DEF TypeInv, TurnInv, mayConflict
<1> QED
  BY <1>6, <1>7 DEF TypeInv

LEMMA ConflictTypes ==
  ASSUME TypeInv, NEW w \in Writers, Conflict(w)
  PROVE  TypeInv'
<1>1. stage[w] = "checking" /\ commitTurn = w /\ conflicts[w] < ConflictsBeforeExclusiveWrite
  BY DEF Conflict, TypeInv, TurnInv, HoldingTurn, mayConflict
<1>2. commits' \subseteq commits
  <2>1. (\A c \in commits : c.number \in Nat) /\ lastCommit' \in Nat
    BY DEF Conflict, TypeInv, TypeOK
  <2>2. begunAfter' \in [Writers -> Nat]
    BY DEF Conflict, TypeInv, TypeOK
  <2>3. transactionEnded(commits)
    BY DEF Conflict
  <2> QED
    BY <2>1, <2>2, <2>3, EndedTransactions
<1>3. conflicts' \in [Writers -> 0..ConflictsBeforeExclusiveWrite]
  BY <1>1, VaultAssumption DEF Conflict, TypeInv, TypeOK
<1>4. TypeOK'
  BY <1>2, <1>3 DEF Conflict, Goes, Stages, TypeInv, TypeOK, database
<1>5. TurnInv'
  BY <1>1, VaultAssumption
  DEF Conflict, Goes, TypeInv, TypeOK, TurnInv, HoldingTurn, mayConflict
<1> QED
  BY <1>4, <1>5 DEF TypeInv

LEMMA FailTypes ==
  ASSUME TypeInv, NEW w \in Writers, FailRun(w)
  PROVE  TypeInv'
<1>1. stage[w] \in {"alone", "checking"} /\ commitTurn = w
  BY DEF FailRun, MayFinish, TypeInv, TurnInv, HoldingTurn
<1>2. commits' \subseteq commits
  <2>1. (\A c \in commits : c.number \in Nat) /\ lastCommit' \in Nat
    BY DEF FailRun, TypeInv, TypeOK
  <2>2. begunAfter' \in [Writers -> Nat]
    BY DEF FailRun, TypeInv, TypeOK, run
  <2>3. transactionEnded(commits)
    BY DEF FailRun
  <2> QED
    BY <2>1, <2>2, <2>3, EndedTransactions
<1>3. TypeOK'
  BY <1>2 DEF FailRun, resumeCommits, Goes, Stages, TypeInv, TypeOK, database, run
<1>4. TurnInv'
  BY <1>1, VaultAssumption
  DEF FailRun, resumeCommits, Goes, TypeInv, TypeOK, TurnInv, HoldingTurn, mayConflict
<1> QED
  BY <1>3, <1>4 DEF TypeInv

LEMMA CommitTypes ==
  ASSUME TypeInv, NEW w \in Writers, Commit(w)
  PROVE  TypeInv'
<1>1. stage[w] \in {"alone", "checking"} /\ commitTurn = w
  BY DEF Commit, MayFinish, TypeInv, TurnInv, HoldingTurn
<1>2. states' \in Seq(States) /\ states' # <<>> /\ Len(states') = Len(states) + 1
  BY CommittedState DEF TypeInv, TypeOK, States
<1>3. Len(states) \in Nat
  BY StatesAreStates DEF TypeInv, TypeOK, States
<1>4. place' \in [Writers -> Nat]
  BY <1>3 DEF Commit, TypeInv, TypeOK
<1>5. TypeOK'
  BY <1>2, <1>3, <1>4 DEF Commit, Goes, Stages, TypeInv, TypeOK, history, run, States
<1>6. TurnInv'
  BY <1>1 DEF Commit, Goes, TypeInv, TypeOK, TurnInv, HoldingTurn, mayConflict
<1> QED
  BY <1>5, <1>6 DEF TypeInv

LEMMA RecordTypes ==
  ASSUME TypeInv, NEW w \in Writers, RecordCommit(w)
  PROVE  TypeInv'
<1>1. stage[w] = "recording" /\ commitTurn = w /\ lastCommit' = lastCommit + 1
  BY DEF RecordCommit, TypeInv, TurnInv, HoldingTurn
<1> DEFINE recorded == commits \cup {[number |-> lastCommit + 1, writtenKeys |-> changes[w]]}
<1>2. recorded \subseteq [number : 1..lastCommit', writtenKeys : SUBSET Keys]
  BY <1>1 DEF TypeInv, TypeOK
<1>3. lastCommit' \in Nat /\ begunAfter' \in [Writers -> Nat]
  BY <1>1 DEF RecordCommit, TypeInv, TypeOK, run
<1>4. commits' \subseteq recorded
  <2>1. \A c \in recorded : c.number \in Nat
    BY <1>2
  <2>2. transactionEnded(recorded)
    BY DEF RecordCommit
  <2> QED
    BY <1>3, <2>1, <2>2, EndedTransactions
<1>5. TypeOK'
  BY <1>1, <1>2, <1>3, <1>4 DEF RecordCommit, Goes, Stages, TypeInv, TypeOK, database, run
<1>6. TurnInv'
  BY <1>1, VaultAssumption
  DEF RecordCommit, Goes, TypeInv, TypeOK, TurnInv, HoldingTurn, mayConflict
<1> QED
  BY <1>5, <1>6 DEF TypeInv

LEMMA SyncTypes ==
  ASSUME TypeInv, NEW w \in Writers, Sync(w) \/ FailSync(w)
  PROVE  TypeInv'
<1>1. Len(states) \in Nat \ {0}
  BY StatesAreStates DEF TypeInv, TypeOK, States
<1>2. states' = states /\ synced' \in 1..Len(states')
  BY <1>1 DEF Sync, FailSync, syncCommits, TypeInv, TypeOK, database
<1>4. stage' \in [Writers -> Stages]
  BY DEF Sync, FailSync, Goes, Stages, TypeInv, TypeOK
<1>5. TypeOK'
  BY <1>2, <1>4 DEF Sync, FailSync, TypeInv, TypeOK, history, run
<1>3. TurnInv'
  BY DEF Sync, FailSync, Goes, TypeInv, TypeOK, TurnInv, HoldingTurn, mayConflict
<1> QED
  BY <1>3, <1>5 DEF TypeInv

LEMMA CrashTypes ==
  ASSUME TypeInv, Crash
  PROVE  TypeInv'
<1>1. PICK n \in synced..Len(states) : states' = SubSeq(states, 1, n) /\ synced' = n
  BY DEF Crash
<1>2. n \in 1..Len(states)
  BY StatesAreStates DEF TypeInv, TypeOK, States
<1>3. states' \in Seq(States) /\ states' # <<>> /\ Len(states') = n
  BY <1>1, <1>2, KeptStates DEF TypeInv, TypeOK, States
<1>4. TypeOK'
  <2>1. states' \in Seq([Keys -> Nat \ {0}]) /\ states' # <<>> /\ synced' \in 1..Len(states')
    <3>1. n \in Nat \ {0}
      BY <1>2
    <3>2. synced' \in 1..Len(states')
      BY <1>1, <1>3, <3>1
    <3> QED
      BY <1>3, <3>2 DEF States
  <2>2. stage' \in [Writers -> Stages]
    BY DEF Crash, Stages, Over, TypeInv, TypeOK
  <2>3. /\ lastCommit' = 0 /\ commits' = {} /\ commitTurn' = Nobody
        /\ begunAfter' = [v \in Writers |-> 0]
        /\ conflicts' = conflicts /\ seen' = seen /\ changes' = changes /\ place' = place
    BY DEF Crash
  <2>4. crashes' \in 0..MaxCrashes
    BY VaultAssumption DEF Crash, TypeInv, TypeOK
  <2> QED
    BY <2>1, <2>2, <2>3, <2>4 DEF TypeInv, TypeOK
<1>5. TurnInv'
  BY VaultAssumption DEF Crash, Over, TypeInv, TypeOK, TurnInv, HoldingTurn
<1> QED
  BY <1>4, <1>5 DEF TypeInv

LEMMA TypesKept == TypeInv /\ [Next]_vaultVars => TypeInv'
<1> SUFFICES ASSUME TypeInv, [Next]_vaultVars PROVE TypeInv'
  OBVIOUS
<1>1. CASE UNCHANGED vaultVars
  BY <1>1 DEF vaultVars, database, history, run, TypeInv, TypeOK, TurnInv, mayConflict
<1>2. CASE Next
  BY <1>2, SlotTypes, AccessTypes, ConflictTypes, FailTypes, CommitTypes, RecordTypes, SyncTypes,
     CrashTypes DEF Next, Proceed
<1> QED
  BY <1>1, <1>2

\* Every variable has its type, one write holds the commits of the others, and a write
\* that conflicted too often does not run with others again.
THEOREM TypesHold == Spec => []TypeInv
BY TypesAtFirst, TypesKept, PTL DEF Spec

\* The types of the variables and what they say of a write's turns (the invariant of the
\* engine's runs).
THEOREM TypeCorrect == Spec => []TypeOK
BY TypesHold, PTL DEF TypeInv

-----------------------------------------------------------------------------
(* States of writes *)

\* Where a write stands in the database, by how far it is.
PlaceInv ==
  \A w \in Writers :
    /\ stage[w] \in {"idle", "slotted", "running", "checking", "alone", "failed"} => place[w] = 0
    /\ stage[w] \in {"recording", "syncing"} => place[w] \in 1..Len(states)
    /\ stage[w] = "returned" => place[w] \in 1..synced
    /\ stage[w] \in {"idle", "slotted"} => seen[w] = {}

LEMMA PlacesAtFirst == Init => PlaceInv
BY DEF Init, PlaceInv

\* Each step of a write but a crash changes the stage of that write only.
LEMMA StageOfOne ==
  ASSUME TypeInv, NEW w \in Writers, NEW next, Goes(w, next)
  PROVE  \A v \in Writers : stage'[v] = IF v = w THEN next ELSE stage[v]
BY DEF Goes, TypeInv, TypeOK

LEMMA PlacesKept == TypeInv /\ PlaceInv /\ [Next]_vaultVars => PlaceInv'
<1> SUFFICES ASSUME TypeInv, PlaceInv, [Next]_vaultVars PROVE PlaceInv'
  OBVIOUS
<1>0. /\ Len(states) \in Nat \ {0} /\ synced \in 1..Len(states)
      /\ place \in [Writers -> Nat] /\ stage \in [Writers -> Stages]
      /\ seen \in [Writers -> SUBSET (Keys \X (Nat \ {0}))]
  BY StatesAreStates DEF TypeInv, TypeOK, States
<1>1. ASSUME NEW w \in Writers,
             TakeWriteSlot(w) \/ RefuseWrite(w) \/ BeginOptimistically(w) \/ BeginExclusively(w)
               \/ HoldCommits(w)
      PROVE  PlaceInv'
  <2>1. UNCHANGED <<database, place>>
    BY <1>1 DEF TakeWriteSlot, RefuseWrite, BeginOptimistically, BeginExclusively, HoldCommits,
                BeginRun
  <2>2. \E next \in Stages : Goes(w, next)
    BY <1>1 DEF TakeWriteSlot, RefuseWrite, BeginOptimistically, BeginExclusively, HoldCommits,
                Stages
  <2>3. \A v \in Writers : v # w => stage'[v] = stage[v]
    BY <2>2, StageOfOne
  <2>4. /\ stage[w] \in {"idle", "slotted", "running"}
        /\ stage'[w] \in {"slotted", "failed", "running", "alone", "checking"}
        /\ stage'[w] = "slotted" => stage[w] = "idle" /\ seen' = seen
    BY <1>0, <1>1 DEF TakeWriteSlot, RefuseWrite, BeginOptimistically, BeginExclusively,
                      HoldCommits, Goes, run
  <2>5. \A v \in Writers : v # w => seen'[v] = seen[v]
    BY <1>0, <1>1 DEF TakeWriteSlot, RefuseWrite, BeginOptimistically, BeginExclusively,
                      HoldCommits, BeginRun, run
  <2> QED
    BY <2>1, <2>3, <2>4, <2>5 DEF PlaceInv, database
<1>2. ASSUME NEW w \in Writers,
             \/ \E k \in Keys : Read(w, k) \/ Change(w, k)
             \/ \E range \in Ranges : Scan(w, range)
      PROVE  PlaceInv'
  <2>1. UNCHANGED <<database, stage, place>> /\ stage[w] \in {"running", "alone"}
    BY <1>2 DEF Read, Change, Scan
  <2>2. \A v \in Writers : v # w => seen'[v] = seen[v]
    BY <1>0, <1>2 DEF Read, Change, Scan
  <2> QED
    BY <2>1, <2>2 DEF PlaceInv, database
<1>3. ASSUME NEW w \in Writers, Conflict(w) PROVE PlaceInv'
  <2>1. \A v \in Writers : stage'[v] = IF v = w THEN "slotted" ELSE stage[v]
    BY <1>3, StageOfOne DEF Conflict
  <2>2. \A v \in Writers : seen'[v] = IF v = w THEN {} ELSE seen[v]
    BY <1>0, <1>3 DEF Conflict
  <2> QED
    BY <1>3, <2>1, <2>2 DEF Conflict, PlaceInv, database
<1>4. ASSUME NEW w \in Writers, FailRun(w) PROVE PlaceInv'
  <2>1. \A v \in Writers : stage'[v] = IF v = w THEN "failed" ELSE stage[v]
    BY <1>4, StageOfOne DEF FailRun
  <2> QED
    BY <1>4, <2>1 DEF FailRun, MayFinish, PlaceInv, database, run
<1>5. ASSUME NEW w \in Writers, Commit(w) PROVE PlaceInv'
  <2>1. \A v \in Writers : stage'[v] = IF v = w THEN "recording" ELSE stage[v]
    BY <1>5, StageOfOne DEF Commit
  <2>2. Len(states') = Len(states) + 1
    BY <1>5, CommittedState DEF TypeInv, TypeOK, States
  <2>3. \A v \in Writers : place'[v] = IF v = w THEN Len(states) + 1 ELSE place[v]
    BY <1>0, <1>5 DEF Commit
  <2>4. synced' = synced /\ seen' = seen
    BY <1>5 DEF Commit, run
  <2> QED
    BY <1>0, <2>1, <2>2, <2>3, <2>4 DEF PlaceInv
<1>6. ASSUME NEW w \in Writers, RecordCommit(w) PROVE PlaceInv'
  <2>1. \A v \in Writers : stage'[v] = IF v = w THEN "syncing" ELSE stage[v]
    BY <1>6, StageOfOne DEF RecordCommit
  <2> QED
    BY <1>6, <2>1 DEF RecordCommit, PlaceInv, database, run
<1>7. ASSUME NEW w \in Writers, Sync(w) PROVE PlaceInv'
  <2>1. \A v \in Writers : stage'[v] = IF v = w THEN "returned" ELSE stage[v]
    BY <1>7, StageOfOne DEF Sync
  <2>2. /\ states' = states /\ place' = place /\ seen' = seen /\ synced' = Len(states)
        /\ stage[w] = "syncing"
    BY <1>7 DEF Sync, syncCommits, run
  <2> QED
    BY <1>0, <2>1, <2>2 DEF PlaceInv
<1>8. ASSUME NEW w \in Writers, FailSync(w) PROVE PlaceInv'
  <2>1. \A v \in Writers : stage'[v] = IF v = w THEN "unknown" ELSE stage[v]
    BY <1>8, StageOfOne DEF FailSync
  <2> QED
    BY <1>8, <2>1 DEF FailSync, PlaceInv, database, run
<1>9. CASE Crash
  <2>1. \A v \in Writers : stage'[v] = IF stage[v] \in Over \cup {"idle"} THEN stage[v] ELSE "lost"
    BY <1>9 DEF Crash
  <2>2. synced' \in synced..Len(states) /\ place' = place /\ seen' = seen
    BY <1>9 DEF Crash
  <2> QED
    BY <1>0, <2>1, <2>2 DEF PlaceInv, Over
<1>10. CASE UNCHANGED vaultVars
  BY <1>10 DEF vaultVars, database, run, PlaceInv
<1> QED
  BY <1>1, <1>2, <1>3, <1>4, <1>5, <1>6, <1>7, <1>8, <1>9, <1>10 DEF Next, Proceed

\* A write that returned is on disk: the syncs of others never leave it out, and no crash
\* goes back behind it.
THEOREM ReturnedStay == Spec => []ReturnedWritesAreSynced
<1>1. PlaceInv => ReturnedWritesAreSynced
  BY DEF PlaceInv, ReturnedWritesAreSynced
<1> QED
  BY <1>1, PlacesAtFirst, PlacesKept, TypesHold, PTL DEF Spec

-----------------------------------------------------------------------------
(* Reads *)

\* A write that runs alone began after the last commit there is.
AloneInv == \A w \in Writers : stage[w] = "alone" => begunAfter[w] = lastCommit

\* What a write read at a key is still there, or the change of it can be known to the write.
IsCurrent(w, pair) == pair[2] = Latest(states)[pair[1]]

IsInHistory(w, pair) ==
  \E c \in commits : c.number > begunAfter[w] /\ pair[1] \in c.writtenKeys

IsBeingRecorded(pair) ==
  \E x \in Writers : stage[x] = "recording" /\ pair[1] \in changes[x]

Reading == Running \ {"recording"}

NoticedBy(w) ==
  \A pair \in seen[w] : IsCurrent(w, pair) \/ IsInHistory(w, pair) \/ IsBeingRecorded(pair)

LEMMA NoticedByAll ==
  StaleReadsAreNoticed <=> \A w \in Writers : stage[w] \in Reading => NoticedBy(w)
BY DEF StaleReadsAreNoticed, Reading, NoticedBy, IsCurrent, IsInHistory, IsBeingRecorded

\* Commits that a running write might conflict with stay in the history.
KeptCommits ==
  \A c \in commits, w \in Writers :
    stage'[w] \in Running /\ c.number > begunAfter'[w] => c \in commits'

LEMMA HistoryIsKept ==
  ASSUME TypeInv, TypeInv', NEW w \in Writers, Conflict(w) \/ FailRun(w) \/ RecordCommit(w)
  PROVE  KeptCommits
<1>1. lastCommit' \in Nat /\ begunAfter' \in [Writers -> Nat]
  BY DEF TypeInv, TypeOK
<1>2. CASE Conflict(w) \/ FailRun(w)
  <2>1. transactionEnded(commits) /\ \A c \in commits : c.number \in Nat
    BY <1>2 DEF Conflict, FailRun, TypeInv, TypeOK
  <2> QED
    BY <1>1, <2>1, EndedTransactions DEF KeptCommits
<1>3. CASE RecordCommit(w)
  <2> DEFINE recorded == commits \cup {[number |-> lastCommit + 1, writtenKeys |-> changes[w]]}
  <2>1. transactionEnded(recorded) /\ \A c \in recorded : c.number \in Nat
    BY <1>3 DEF RecordCommit, TypeInv, TypeOK
  <2>2. \A c \in recorded, v \in Writers :
          stage'[v] \in Running /\ c.number > begunAfter'[v] => c \in commits'
    BY <1>1, <2>1, EndedTransactions
  <2> QED
    BY <2>2 DEF KeptCommits
<1> QED
  BY <1>2, <1>3

LEMMA ReadsAtFirst == Init => AloneInv /\ StaleReadsAreNoticed
BY DEF Init, AloneInv, StaleReadsAreNoticed, Running

LEMMA AloneKept == TypeInv /\ AloneInv /\ [Next]_vaultVars => AloneInv'
<1> SUFFICES ASSUME TypeInv, AloneInv, [Next]_vaultVars PROVE AloneInv'
  OBVIOUS
<1>0. stage \in [Writers -> Stages] /\ begunAfter \in [Writers -> 0..lastCommit]
  BY DEF TypeInv, TypeOK
<1>1. ASSUME NEW w \in Writers, BeginOptimistically(w) \/ BeginExclusively(w) PROVE AloneInv'
  <2>1. /\ lastCommit' = lastCommit
        /\ \A v \in Writers : begunAfter'[v] = IF v = w THEN lastCommit ELSE begunAfter[v]
    BY <1>0, <1>1 DEF BeginOptimistically, BeginExclusively, BeginRun, history
  <2>2. \A v \in Writers : v # w => stage'[v] = stage[v]
    BY <1>1, StageOfOne DEF BeginOptimistically, BeginExclusively
  <2> QED
    BY <2>1, <2>2 DEF AloneInv
<1>2. ASSUME NEW w \in Writers, NEW next \in Stages, Goes(w, next), next # "alone",
             begunAfter' = begunAfter, lastCommit' = lastCommit
      PROVE  AloneInv'
  <2>1. \A v \in Writers : stage'[v] = IF v = w THEN next ELSE stage[v]
    BY <1>2, StageOfOne
  <2> QED
    BY <1>2, <2>1 DEF AloneInv
<1>3. ASSUME NEW w \in Writers,
             TakeWriteSlot(w) \/ RefuseWrite(w) \/ HoldCommits(w) \/ Conflict(w) \/ FailRun(w)
               \/ Commit(w) \/ Sync(w) \/ FailSync(w)
      PROVE  AloneInv'
  <2>1. begunAfter' = begunAfter /\ lastCommit' = lastCommit
    BY <1>3 DEF TakeWriteSlot, RefuseWrite, HoldCommits, Conflict, FailRun, Commit, Sync, FailSync,
                history, run
  <2>2. \E next \in Stages : next # "alone" /\ Goes(w, next)
    BY <1>3 DEF TakeWriteSlot, RefuseWrite, HoldCommits, Conflict, FailRun, Commit, Sync, FailSync,
                Stages
  <2> QED
    BY <1>2, <2>1, <2>2
<1>4. ASSUME NEW w \in Writers, RecordCommit(w) PROVE AloneInv'
  <2>1. \A v \in Writers : stage'[v] = IF v = w THEN "syncing" ELSE stage[v]
    BY <1>4, StageOfOne DEF RecordCommit
  <2>2. \A v \in Writers : v # w => stage[v] # "alone"
    BY <1>4 DEF RecordCommit, TypeInv, TurnInv, HoldingTurn
  <2> QED
    BY <2>1, <2>2 DEF AloneInv
<1>5. CASE Crash
  BY <1>5 DEF Crash, Over, AloneInv
<1>6. CASE \/ \E w \in Writers, k \in Keys : Read(w, k) \/ Change(w, k)
           \/ \E w \in Writers, range \in Ranges : Scan(w, range)
           \/ UNCHANGED vaultVars
  BY <1>6 DEF Read, Change, Scan, vaultVars, history, run, AloneInv
<1> QED
  BY <1>1, <1>3, <1>4, <1>5, <1>6 DEF Next, Proceed

\* While the database and the history stand still, nothing read becomes stale unnoticed.
LEMMA NoticedWhileNothingIsCommitted ==
  ASSUME TypeInv, StaleReadsAreNoticed, NEW w \in Writers,
         states' = states, commits' = commits, begunAfter'[w] = begunAfter[w],
         \A x \in Writers : stage[x] = "recording" => stage'[x] = "recording" /\ changes'[x] = changes[x],
         stage[w] \in Reading, seen'[w] = seen[w]
  PROVE  NoticedBy(w)'
<1>1. NoticedBy(w)
  BY NoticedByAll
<1>2. ASSUME NEW pair \in seen[w]
      PROVE  (IsCurrent(w, pair) \/ IsInHistory(w, pair) \/ IsBeingRecorded(pair))'
  BY <1>1 DEF NoticedBy, IsCurrent, IsInHistory, IsBeingRecorded
<1> QED
  BY <1>2 DEF NoticedBy

\* A run begins with nothing read; a slot and the turn change nothing that was read.
LEMMA SlotReads ==
  ASSUME TypeInv, StaleReadsAreNoticed, NEW w \in Writers,
         TakeWriteSlot(w) \/ RefuseWrite(w) \/ BeginOptimistically(w) \/ BeginExclusively(w)
           \/ HoldCommits(w) \/ Sync(w) \/ FailSync(w),
         NEW v \in Writers, stage'[v] \in Reading
  PROVE  NoticedBy(v)'
<1>0. /\ stage \in [Writers -> Stages] /\ begunAfter \in [Writers -> 0..lastCommit]
      /\ seen \in [Writers -> SUBSET (Keys \X (Nat \ {0}))]
      /\ changes \in [Writers -> SUBSET Keys]
  BY DEF TypeInv, TypeOK
<1>1. states' = states /\ commits' = commits
  BY DEF TakeWriteSlot, RefuseWrite, BeginOptimistically, BeginExclusively, HoldCommits, BeginRun,
         Sync, FailSync, database, history
<1>2. \E next \in Stages : Goes(w, next)
  BY DEF TakeWriteSlot, RefuseWrite, BeginOptimistically, BeginExclusively, HoldCommits, Sync,
         FailSync, Stages
<1>3. stage[w] # "recording" /\ \A x \in Writers : x # w => stage'[x] = stage[x]
  BY <1>2, StageOfOne DEF TakeWriteSlot, RefuseWrite, BeginOptimistically, BeginExclusively,
                          HoldCommits, Sync, FailSync
<1>4. \A x \in Writers : x # w =>
        begunAfter'[x] = begunAfter[x] /\ seen'[x] = seen[x] /\ changes'[x] = changes[x]
  BY <1>0 DEF TakeWriteSlot, RefuseWrite, BeginOptimistically, BeginExclusively, HoldCommits,
              BeginRun, Sync, FailSync, run
<1>5. CASE v # w
  BY <1>1, <1>3, <1>4, <1>5, NoticedWhileNothingIsCommitted
<1>6. CASE v = w /\ (BeginOptimistically(w) \/ BeginExclusively(w))
  <2>1. seen'[v] = {}
    BY <1>0, <1>6 DEF BeginOptimistically, BeginExclusively, BeginRun
  <2> QED
    BY <2>1 DEF NoticedBy
<1>7. CASE v = w /\ HoldCommits(w)
  <2>1. stage[w] = "running" /\ begunAfter' = begunAfter /\ seen' = seen
    BY <1>7 DEF HoldCommits, run
  <2>2. stage[w] \in Reading
    BY <2>1 DEF Reading, Running
  <2> QED
    BY <1>1, <1>3, <1>4, <1>7, <2>1, <2>2, NoticedWhileNothingIsCommitted
<1>8. CASE v = w /\ (TakeWriteSlot(w) \/ RefuseWrite(w) \/ Sync(w) \/ FailSync(w))
  BY <1>0, <1>8 DEF TakeWriteSlot, RefuseWrite, Sync, FailSync, Goes, Reading, Running
<1> QED
  BY <1>5, <1>6, <1>7, <1>8

\* What is read anew is what the database says now.
LEMMA AccessReads ==
  ASSUME TypeInv, StaleReadsAreNoticed, NEW w \in Writers,
         \/ \E k \in Keys : Read(w, k) \/ Change(w, k)
         \/ \E range \in Ranges : Scan(w, range),
         NEW v \in Writers, stage'[v] \in Reading
  PROVE  NoticedBy(v)'
<1>0. /\ seen \in [Writers -> SUBSET (Keys \X (Nat \ {0}))]
      /\ changes \in [Writers -> SUBSET Keys]
  BY DEF TypeInv, TypeOK
<1>1. /\ states' = states /\ commits' = commits /\ stage' = stage /\ begunAfter' = begunAfter
      /\ stage[w] \in {"running", "alone"}
  BY DEF Read, Change, Scan, database, history
<1>2. \A x \in Writers : x # w => seen'[x] = seen[x] /\ changes'[x] = changes[x]
  BY <1>0 DEF Read, Change, Scan
<1>3. CASE v # w
  BY <1>1, <1>2, <1>3, NoticedWhileNothingIsCommitted
<1>4. CASE v = w
  <2>1. stage[w] \in Reading /\ NoticedBy(w)
    BY <1>1, <1>4, NoticedByAll
  <2>2. ASSUME NEW pair \in seen'[w]
        PROVE  pair \in seen[w] \/ IsCurrent(w, pair)
    BY <1>0, <2>2 DEF Read, Change, Scan, IsCurrent
  <2>3. ASSUME NEW pair \in seen'[w]
        PROVE  (IsCurrent(w, pair) \/ IsInHistory(w, pair) \/ IsBeingRecorded(pair))'
    <3>1. IsCurrent(w, pair) \/ IsInHistory(w, pair) \/ IsBeingRecorded(pair)
      BY <2>1, <2>2, <2>3 DEF NoticedBy
    <3>2. \A x \in Writers : stage[x] = "recording" => changes'[x] = changes[x]
      BY <1>1, <1>2
    <3> QED
      BY <1>1, <3>1, <3>2 DEF IsCurrent, IsInHistory, IsBeingRecorded
  <2> QED
    BY <1>4, <2>3 DEF NoticedBy
<1> QED
  BY <1>3, <1>4

\* A run that conflicts or fails leaves the database, and the history others need.
LEMMA EndReads ==
  ASSUME TypeInv, TypeInv', StaleReadsAreNoticed, NEW w \in Writers, Conflict(w) \/ FailRun(w),
         NEW v \in Writers, stage'[v] \in Reading
  PROVE  NoticedBy(v)'
<1>0. /\ stage \in [Writers -> Stages]
      /\ seen \in [Writers -> SUBSET (Keys \X (Nat \ {0}))]
      /\ changes \in [Writers -> SUBSET Keys]
  BY DEF TypeInv, TypeOK
<1>1. states' = states /\ begunAfter' = begunAfter
  BY DEF Conflict, FailRun, database, run
<1>2. \A x \in Writers : x # w => seen'[x] = seen[x] /\ changes'[x] = changes[x]
  BY <1>0 DEF Conflict, FailRun, run
<1>3. /\ \A x \in Writers : x # w => stage'[x] = stage[x]
      /\ stage[w] \in {"checking", "alone"} /\ stage'[w] \in {"slotted", "failed"}
  BY <1>0 DEF Conflict, FailRun, MayFinish, Goes
<1>4. v # w /\ stage[v] \in Reading /\ NoticedBy(v)
  BY <1>3, NoticedByAll DEF Reading, Running
<1>5. KeptCommits
  BY HistoryIsKept
<1>6. ASSUME NEW pair \in seen[v]
      PROVE  (IsCurrent(v, pair) \/ IsInHistory(v, pair) \/ IsBeingRecorded(pair))'
  <2>1. CASE IsCurrent(v, pair)
    BY <1>1, <2>1 DEF IsCurrent
  <2>2. CASE IsInHistory(v, pair)
    BY <1>1, <1>5, <2>2 DEF IsInHistory, KeptCommits, Reading
  <2>3. CASE IsBeingRecorded(pair)
    BY <1>2, <1>3, <2>3 DEF IsBeingRecorded
  <2> QED
    BY <1>4, <1>6, <2>1, <2>2, <2>3 DEF NoticedBy
<1> QED
  BY <1>2, <1>4, <1>6 DEF NoticedBy

\* What a commit changes is being recorded.
LEMMA CommitReads ==
  ASSUME TypeInv, StaleReadsAreNoticed, NEW w \in Writers, Commit(w),
         NEW v \in Writers, stage'[v] \in Reading
  PROVE  NoticedBy(v)'
<1>0. seen \in [Writers -> SUBSET (Keys \X (Nat \ {0}))]
  BY DEF TypeInv, TypeOK
<1>1. \A x \in Writers : stage'[x] = IF x = w THEN "recording" ELSE stage[x]
  BY StageOfOne DEF Commit
<1>2. /\ commits' = commits /\ begunAfter' = begunAfter /\ seen' = seen /\ changes' = changes
  BY DEF Commit, history, run
<1>3. \A k \in Keys : k \in changes[w] \/ Latest(states')[k] = Latest(states)[k]
  BY CommittedState DEF TypeInv, TypeOK, States
<1>4. stage[v] \in Reading /\ NoticedBy(v)
  BY <1>1, NoticedByAll DEF Reading
<1>5. ASSUME NEW pair \in seen[v]
      PROVE  (IsCurrent(v, pair) \/ IsInHistory(v, pair) \/ IsBeingRecorded(pair))'
  <2>1. pair[1] \in Keys
    BY <1>0, <1>5
  <2>2. CASE IsCurrent(v, pair)
    <3>1. pair[1] \in changes'[w] \/ pair[2] = Latest(states')[pair[1]]
      BY <1>2, <1>3, <2>1, <2>2 DEF IsCurrent
    <3> QED
      BY <1>1, <3>1 DEF IsCurrent, IsBeingRecorded
  <2>3. CASE IsInHistory(v, pair)
    BY <1>2, <2>3 DEF IsInHistory
  <2>4. CASE IsBeingRecorded(pair)
    BY <1>1, <1>2, <2>4 DEF IsBeingRecorded
  <2> QED
    BY <1>4, <1>5, <2>2, <2>3, <2>4 DEF NoticedBy
<1> QED
  BY <1>2, <1>4, <1>5 DEF NoticedBy

\* What was being recorded gets into the history, after every run that goes on began.
LEMMA RecordReads ==
  ASSUME TypeInv, TypeInv', StaleReadsAreNoticed, NEW w \in Writers, RecordCommit(w),
         NEW v \in Writers, stage'[v] \in Reading
  PROVE  NoticedBy(v)'
<1>1. \A x \in Writers : stage'[x] = IF x = w THEN "syncing" ELSE stage[x]
  BY StageOfOne DEF RecordCommit
<1>2. states' = states /\ begunAfter' = begunAfter /\ seen' = seen /\ changes' = changes
  BY DEF RecordCommit, database, run
<1>3. \A x \in Writers : stage[x] = "recording" => x = w
  BY DEF RecordCommit, TypeInv, TurnInv, HoldingTurn
<1>4. stage[v] \in Reading /\ NoticedBy(v)
  BY <1>1, NoticedByAll DEF Reading, Running
<1>5. KeptCommits
  BY HistoryIsKept
<1>6. \E c \in commits' : c.writtenKeys = changes[w] /\ c.number > begunAfter'[v]
  <2> DEFINE recorded == commits \cup {[number |-> lastCommit + 1, writtenKeys |-> changes[w]]}
  <2>1. transactionEnded(recorded)
    BY DEF RecordCommit
  <2>2. /\ lastCommit \in Nat /\ begunAfter \in [Writers -> 0..lastCommit]
        /\ commits \subseteq [number : 1..lastCommit, writtenKeys : SUBSET Keys]
    BY Zenon DEF TypeInv, TypeOK
  <2>3. \A c \in recorded : c.number \in Nat
    <3>1. \A c \in commits : c.number \in Nat
      BY <2>2
    <3> QED
      BY <2>2, <3>1
  <2>4. lastCommit' \in Nat /\ begunAfter' \in [Writers -> Nat]
    BY DEF TypeInv, TypeOK
  <2>5. \A c \in recorded, x \in Writers :
          stage'[x] \in Running /\ c.number > begunAfter'[x] => c \in commits'
    BY <2>1, <2>3, <2>4, EndedTransactions
  <2>6. stage'[v] \in Running
    BY DEF Reading
  <2>7. lastCommit + 1 > begunAfter'[v]
    BY <1>2, <2>2
  <2>8. [number |-> lastCommit + 1, writtenKeys |-> changes[w]] \in commits'
    BY <2>5, <2>6, <2>7
  <2> QED
    BY <2>7, <2>8
<1>7. ASSUME NEW pair \in seen[v]
      PROVE  (IsCurrent(v, pair) \/ IsInHistory(v, pair) \/ IsBeingRecorded(pair))'
  <2>1. CASE IsCurrent(v, pair)
    BY <1>2, <2>1 DEF IsCurrent
  <2>2. CASE IsInHistory(v, pair)
    BY <1>2, <1>5, <2>2 DEF IsInHistory, KeptCommits, Reading
  <2>3. CASE IsBeingRecorded(pair)
    <3>1. pair[1] \in changes[w]
      BY <1>3, <2>3 DEF IsBeingRecorded
    <3> QED
      BY <1>6, <3>1 DEF IsInHistory
  <2> QED
    BY <1>4, <1>7, <2>1, <2>2, <2>3 DEF NoticedBy
<1> QED
  BY <1>2, <1>4, <1>7 DEF NoticedBy

LEMMA ReadsKept ==
  TypeInv /\ TypeInv' /\ StaleReadsAreNoticed /\ [Next]_vaultVars => StaleReadsAreNoticed'
<1> SUFFICES ASSUME TypeInv, TypeInv', StaleReadsAreNoticed, [Next]_vaultVars,
                    NEW v \in Writers, stage'[v] \in Reading
             PROVE  NoticedBy(v)'
  <2>1. StaleReadsAreNoticed' <=> \A v \in Writers : stage'[v] \in Reading => NoticedBy(v)'
    BY DEF StaleReadsAreNoticed, Reading, NoticedBy, IsCurrent, IsInHistory, IsBeingRecorded
  <2> QED
    BY <2>1
<1>1. CASE Crash
  BY <1>1 DEF Crash, Over, Reading, Running
<1>2. CASE UNCHANGED vaultVars
  BY <1>2, NoticedWhileNothingIsCommitted DEF vaultVars, database, history, run
<1> QED
  BY <1>1, <1>2, SlotReads, AccessReads, EndReads, CommitReads, RecordReads DEF Next, Proceed

\* No write ever goes on with a read that went stale without a way to notice it.
THEOREM StaleReadsNoticed == Spec => []StaleReadsAreNoticed
BY ReadsAtFirst, ReadsKept, TypesHold, PTL DEF Spec

\* Only a run that read something, or wrote a record, can find a conflict.
THEOREM BlindChangesAreFree == Spec => BlindChangesNeverConflict
<1> DEFINE Blind == \A w \in Writers : conflicts'[w] > conflicts[w]
                      => seen[w] # {} \/ changes[w] \cap Records # {}
<1>1. ASSUME TypeInv, [Next]_vaultVars
      PROVE  [Blind]_vaultVars
  <2>1. conflicts \in [Writers -> Nat]
    BY <1>1, VaultAssumption DEF TypeInv, TypeOK
  <2>2. CASE conflicts' = conflicts
    BY <2>1, <2>2
  <2>3. ASSUME NEW w \in Writers, Conflict(w) PROVE Blind
    <3>1. footprint(w) # {}
      BY <2>3 DEF Conflict, keyWrittenAfter
    <3>2. \A v \in Writers : v # w => conflicts'[v] = conflicts[v]
      BY <2>1, <2>3 DEF Conflict
    <3>3. seen[w] # {} \/ changes[w] \cap Records # {}
      BY <3>1 DEF footprint
    <3>4. \A v \in Writers : v # w => ~(conflicts'[v] > conflicts[v])
      BY <2>1, <3>2
    <3> QED
      BY <3>3, <3>4
  <2>4. conflicts' = conflicts \/ \E w \in Writers : Conflict(w)
    BY <1>1 DEF Next, Proceed, TakeWriteSlot, RefuseWrite, BeginOptimistically, BeginExclusively,
                BeginRun, HoldCommits, FailRun, Commit, RecordCommit, Sync, FailSync, Read, Change,
                Scan, Crash, vaultVars
  <2> QED
    BY <2>2, <2>3, <2>4
<1> QED
  BY <1>1, TypesHold, PTL DEF Spec, BlindChangesNeverConflict

-----------------------------------------------------------------------------
(* The implementation of SerialStore *)

\* What SerialStore sees of a write.
OutcomeOf(w) ==
  CASE stage[w] \in {"recording", "syncing"} -> "committed"
    [] stage[w] \in Over -> stage[w]
    [] OTHER -> "none"

ReadOf(w) ==
  IF stage[w] \in {"recording", "syncing", "returned", "unknown", "failed"}
       \/ (stage[w] = "lost" /\ place[w] # 0)
  THEN seen[w] ELSE {}

OutcomesSeen == [w \in Writers |-> OutcomeOf(w)]
ReadsSeen == [w \in Writers |-> ReadOf(w)]

SerialInv == TypeInv /\ PlaceInv /\ AloneInv /\ StaleReadsAreNoticed

LEMMA StartsSerially == Init => Store!Init
<1> SUFFICES ASSUME Init PROVE Store!Init
  OBVIOUS
<1>1. \A w \in Writers : OutcomeOf(w) = "none" /\ ReadOf(w) = {}
  BY DEF Init, OutcomeOf, ReadOf, Over
<1> QED
  BY <1>1 DEF Init, Store!Init, OutcomeOf, ReadOf

\* What a write that may finish read is as it is now.
LEMMA FinishesWithWhatIs ==
  ASSUME SerialInv, NEW w \in Writers, MayFinish(w)
  PROVE  seen[w] \in SUBSET {<<k, Latest(states)[k]>> : k \in Keys}
<1>1. stage[w] \in Reading /\ NoticedBy(w) /\ stage[w] \in HoldingTurn
  BY NoticedByAll DEF MayFinish, SerialInv, Reading, Running, HoldingTurn
<1>2. ASSUME NEW pair \in seen[w]
      PROVE  pair[1] \in Keys /\ pair[2] = Latest(states)[pair[1]] /\ pair = <<pair[1], pair[2]>>
  <2>1. pair \in Keys \X (Nat \ {0})
    BY DEF SerialInv, TypeInv, TypeOK
  <2>2. ~IsBeingRecorded(pair)
    BY <1>1 DEF IsBeingRecorded, SerialInv, TypeInv, TurnInv, HoldingTurn, MayFinish
  <2>3. ~IsInHistory(w, pair)
    <3>1. CASE stage[w] = "alone"
      BY <3>1 DEF IsInHistory, SerialInv, AloneInv, TypeInv, TypeOK
    <3>2. CASE stage[w] # "alone"
      BY <3>2 DEF IsInHistory, MayFinish, keyWrittenAfter, isAfterBegin, footprint
    <3> QED
      BY <3>1, <3>2
  <2> QED
    BY <1>1, <2>1, <2>2, <2>3 DEF NoticedBy, IsCurrent
<1> QED
  BY <1>2

\* The abstract states of others stay where their stage, place and reads do.
LEMMA OthersSeen ==
  ASSUME NEW v \in Writers, stage'[v] = stage[v], place'[v] = place[v], seen'[v] = seen[v]
  PROVE  OutcomeOf(v)' = OutcomeOf(v) /\ ReadOf(v)' = ReadOf(v)
BY DEF OutcomeOf, ReadOf

LEMMA StandsStill ==
  ASSUME states' = states, place' = place,
         \A v \in Writers : OutcomeOf(v)' = OutcomeOf(v) /\ ReadOf(v)' = ReadOf(v)
  PROVE  UNCHANGED Store!storeVars
<1>1. OutcomesSeen' = OutcomesSeen /\ ReadsSeen' = ReadsSeen
  BY DEF OutcomesSeen, ReadsSeen
<1> QED
  BY <1>1 DEF OutcomesSeen, ReadsSeen, OutcomeOf, ReadOf, Store!storeVars

\* A step of one write sets what is seen of it.
LEMMA SeenOfOne ==
  ASSUME NEW w \in Writers, NEW outcome, NEW read,
         \A v \in Writers : OutcomeOf(v)' = IF v = w THEN outcome ELSE OutcomeOf(v),
         \A v \in Writers : ReadOf(v)' = IF v = w THEN read ELSE ReadOf(v)
  PROVE  /\ OutcomesSeen' = [OutcomesSeen EXCEPT ![w] = outcome]
         /\ ReadsSeen' = [ReadsSeen EXCEPT ![w] = read]
BY DEF OutcomesSeen, ReadsSeen

LEMMA CommitsSerially ==
  ASSUME SerialInv, NEW w \in Writers, Commit(w)
  PROVE  Store!Commit(w)
<1>0. /\ stage[w] \in {"checking", "alone"} /\ place' = [place EXCEPT ![w] = Len(states) + 1]
      /\ seen' = seen /\ place \in [Writers -> Nat] /\ changes[w] \in SUBSET Keys
  BY DEF Commit, MayFinish, run, SerialInv, TypeInv, TypeOK
<1>1. \A v \in Writers : stage'[v] = IF v = w THEN "recording" ELSE stage[v]
  BY StageOfOne DEF Commit, SerialInv
<1>2. \A v \in Writers : v # w => OutcomeOf(v)' = OutcomeOf(v) /\ ReadOf(v)' = ReadOf(v)
  <2>1. \A v \in Writers : v # w => stage'[v] = stage[v] /\ place'[v] = place[v] /\ seen'[v] = seen[v]
    BY <1>0, <1>1
  <2> QED
    BY <2>1, OthersSeen
<1>3. OutcomeOf(w) = "none" /\ OutcomeOf(w)' = "committed" /\ ReadOf(w)' = seen[w]
  BY <1>0, <1>1 DEF OutcomeOf, ReadOf, Over
<1>4. /\ OutcomesSeen' = [OutcomesSeen EXCEPT ![w] = "committed"]
      /\ ReadsSeen' = [ReadsSeen EXCEPT ![w] = seen[w]]
      /\ OutcomesSeen[w] = "none"
  BY <1>2, <1>3, SeenOfOne DEF OutcomesSeen
<1>5. seen[w] \in SUBSET {<<k, Latest(states)[k]>> : k \in Keys}
  BY FinishesWithWhatIs DEF Commit
<1>6. \E written \in SUBSET Keys :
        states' = Append(states, [k \in Keys |-> IF k \in written THEN Len(states) + 1
                                                 ELSE Latest(states)[k]])
  BY <1>0 DEF Commit
<1> QED
  BY <1>0, <1>4, <1>5, <1>6
  DEF Store!Commit, Store!ReadsLatest, Store!Latest, Latest, OutcomesSeen, ReadsSeen, OutcomeOf, ReadOf

LEMMA FailsSerially ==
  ASSUME SerialInv, NEW w \in Writers, FailRun(w) \/ RefuseWrite(w)
  PROVE  Store!Fail(w)
<1>0. states' = states /\ place' = place /\ seen' = seen
  BY DEF FailRun, RefuseWrite, database, run
<1>1. \A v \in Writers : stage'[v] = IF v = w THEN "failed" ELSE stage[v]
  BY StageOfOne DEF FailRun, RefuseWrite, SerialInv
<1>2. \A v \in Writers : v # w => OutcomeOf(v)' = OutcomeOf(v) /\ ReadOf(v)' = ReadOf(v)
  BY <1>0, <1>1, OthersSeen
<1>3. OutcomeOf(w) = "none" /\ OutcomeOf(w)' = "failed" /\ ReadOf(w)' = seen[w]
  BY <1>0, <1>1 DEF FailRun, RefuseWrite, MayFinish, OutcomeOf, ReadOf, Over
<1>4. /\ OutcomesSeen' = [OutcomesSeen EXCEPT ![w] = "failed"]
      /\ ReadsSeen' = [ReadsSeen EXCEPT ![w] = seen[w]]
      /\ OutcomesSeen[w] = "none"
  BY <1>2, <1>3, SeenOfOne DEF OutcomesSeen
<1>5. seen[w] \in SUBSET {<<k, Latest(states)[k]>> : k \in Keys}
  BY FinishesWithWhatIs DEF FailRun, RefuseWrite, SerialInv, PlaceInv
<1> QED
  BY <1>0, <1>4, <1>5
  DEF Store!Fail, Store!ReadsLatest, Store!Latest, Latest, OutcomesSeen, ReadsSeen, OutcomeOf, ReadOf

LEMMA ReturnsSerially ==
  ASSUME SerialInv, NEW w \in Writers, Sync(w) \/ FailSync(w)
  PROVE  Store!Return(w)
<1>0. states' = states /\ place' = place /\ seen' = seen /\ stage[w] = "syncing"
  BY DEF Sync, FailSync, database, run
<1>1. \E known \in {"returned", "unknown"} :
        \A v \in Writers : stage'[v] = IF v = w THEN known ELSE stage[v]
  BY StageOfOne DEF Sync, FailSync, SerialInv
<1>2. PICK known \in {"returned", "unknown"} :
        \A v \in Writers : stage'[v] = IF v = w THEN known ELSE stage[v]
  BY <1>1
<1>3. \A v \in Writers : v # w => OutcomeOf(v)' = OutcomeOf(v) /\ ReadOf(v)' = ReadOf(v)
  BY <1>0, <1>2, OthersSeen
<1>4. OutcomeOf(w) = "committed" /\ OutcomeOf(w)' = known /\ ReadOf(w)' = ReadOf(w)
  BY <1>0, <1>2 DEF OutcomeOf, ReadOf, Over
<1>5. /\ OutcomesSeen' = [OutcomesSeen EXCEPT ![w] = known]
      /\ ReadsSeen' = ReadsSeen /\ OutcomesSeen[w] = "committed"
  BY <1>3, <1>4 DEF OutcomesSeen, ReadsSeen
<1> QED
  BY <1>0, <1>5 DEF Store!Return, OutcomesSeen, ReadsSeen, OutcomeOf, ReadOf

LEMMA CrashesSerially ==
  ASSUME SerialInv, Crash
  PROVE  Store!Crash
<1>0. /\ place' = place /\ seen' = seen /\ Len(states) \in Nat /\ synced \in 1..Len(states)
      /\ \A v \in Writers : stage'[v] = IF stage[v] \in Over \cup {"idle"} THEN stage[v] ELSE "lost"
  BY StatesAreStates DEF Crash, SerialInv, TypeInv, TypeOK, States
<1>1. PICK n \in synced..Len(states) : states' = SubSeq(states, 1, n)
  BY DEF Crash
<1>2. n \in 1..Len(states) /\ \A v \in Writers : OutcomesSeen[v] = "returned" => place[v] <= n
  BY <1>0 DEF OutcomesSeen, OutcomeOf, Over, SerialInv, PlaceInv
<1> DEFINE begun == {v \in Writers : OutcomeOf(v) = "none" /\ stage[v] # "idle"}
<1>3. /\ begun \in SUBSET {v \in Writers : OutcomesSeen[v] = "none"}
      /\ OutcomesSeen' = [v \in Writers |-> IF v \in begun \/ OutcomesSeen[v] = "committed"
                                           THEN "lost" ELSE OutcomesSeen[v]]
  <2>1. begun \in SUBSET {v \in Writers : OutcomesSeen[v] = "none"}
    BY DEF OutcomesSeen
  <2>2. ASSUME NEW v \in Writers
        PROVE  OutcomeOf(v)' = IF v \in begun \/ OutcomeOf(v) = "committed"
                               THEN "lost" ELSE OutcomeOf(v)
    BY <1>0 DEF OutcomeOf, Over
  <2> QED
    BY <2>1, <2>2 DEF OutcomesSeen
<1>4. ReadsSeen' = ReadsSeen
  <2>1. stage \in [Writers -> Stages] /\ place \in [Writers -> Nat]
    BY DEF SerialInv, TypeInv, TypeOK
  <2>2. ASSUME NEW v \in Writers
        PROVE  ReadOf(v)' = ReadOf(v)
    <3>1. /\ stage[v] \in {"idle", "slotted", "running", "checking", "alone"} => place[v] = 0
          /\ stage[v] \in {"recording", "syncing"} => place[v] # 0
      BY DEF SerialInv, PlaceInv
    <3> QED
      BY <1>0, <2>1, <3>1 DEF ReadOf, Over, Stages
  <2> QED
    BY <2>2 DEF ReadsSeen
<1> QED
  BY <1>0, <1>1, <1>2, <1>3, <1>4
  DEF Store!Crash, OutcomesSeen, ReadsSeen, OutcomeOf, ReadOf

LEMMA StaysSerially ==
  ASSUME SerialInv, NEW w \in Writers,
         \/ TakeWriteSlot(w) \/ BeginOptimistically(w) \/ BeginExclusively(w) \/ HoldCommits(w)
         \/ Conflict(w) \/ RecordCommit(w)
         \/ \E k \in Keys : Read(w, k) \/ Change(w, k)
         \/ \E range \in Ranges : Scan(w, range)
  PROVE  UNCHANGED Store!storeVars
<1>0. /\ stage \in [Writers -> Stages]
      /\ seen \in [Writers -> SUBSET (Keys \X (Nat \ {0}))]
  BY DEF SerialInv, TypeInv, TypeOK
<1>1. states' = states /\ place' = place
  BY DEF TakeWriteSlot, BeginOptimistically, BeginExclusively, BeginRun, HoldCommits, Conflict,
         RecordCommit, Read, Change, Scan, database
<1>2. \A v \in Writers : v # w => stage'[v] = stage[v] /\ seen'[v] = seen[v]
  BY <1>0 DEF TakeWriteSlot, BeginOptimistically, BeginExclusively, BeginRun, HoldCommits, Conflict,
              RecordCommit, Read, Change, Scan, Goes, run
<1>3. \A v \in Writers : v # w => OutcomeOf(v)' = OutcomeOf(v) /\ ReadOf(v)' = ReadOf(v)
  BY <1>1, <1>2, OthersSeen
<1>4. OutcomeOf(w)' = OutcomeOf(w) /\ ReadOf(w)' = ReadOf(w)
  <2>1. CASE RecordCommit(w)
    <3>1. stage[w] = "recording" /\ stage'[w] = "syncing" /\ seen' = seen
      BY <1>0, <2>1 DEF RecordCommit, Goes, run
    <3> QED
      BY <3>1 DEF OutcomeOf, ReadOf, Over
  <2>2. CASE ~RecordCommit(w)
    <3>1. /\ stage[w] \in {"idle", "slotted", "running", "checking", "alone"}
          /\ stage'[w] \in {"idle", "slotted", "running", "checking", "alone"}
      BY <1>0, <2>2 DEF TakeWriteSlot, BeginOptimistically, BeginExclusively, HoldCommits, Conflict,
                        Read, Change, Scan, Goes
    <3> QED
      BY <3>1 DEF OutcomeOf, ReadOf, Over
  <2> QED
    BY <2>1, <2>2
<1> QED
  BY <1>1, <1>3, <1>4, StandsStill

LEMMA StepsSerially == SerialInv /\ [Next]_vaultVars => [Store!Next]_(Store!storeVars)
<1> SUFFICES ASSUME SerialInv, [Next]_vaultVars PROVE [Store!Next]_(Store!storeVars)
  OBVIOUS
<1>1. CASE UNCHANGED vaultVars
  BY <1>1 DEF vaultVars, database, run, Store!storeVars
<1>2. CASE Next
  BY <1>2, CommitsSerially, FailsSerially, ReturnsSerially, CrashesSerially, StaysSerially
  DEF Next, Proceed, Store!Next
<1> QED
  BY <1>1, <1>2

\* Whatever runs at the same time, conflicts, runs alone, fails or crashes: every step is
\* one of a store whose writes run one after another.
THEOREM WritesAreSerial == Spec => IsSerial
<1>1. Spec => []SerialInv
  BY TypesHold, PlacesAtFirst, PlacesKept, ReadsAtFirst, AloneKept, ReadsKept, PTL
  DEF Spec, SerialInv
<1> QED
  BY <1>1, StartsSerially, StepsSerially, PTL DEF Spec, IsSerial, Store!Spec

-----------------------------------------------------------------------------
(* Nobody waits for a write that waits *)

\* Whether the next step of a write waits for no other write: it gets the slot or the turn it
\* needs, or needs none.
CanGoOn(w) ==
  \/ /\ stage[w] = "idle"
     /\ Cardinality({x \in Writers : stage[x] \in HoldingSlot}) < WriteConcurrency
  \/ stage[w] = "slotted" /\ (mayConflict(w) \/ commitTurn = Nobody)
  \/ stage[w] = "running" /\ commitTurn = Nobody
  \/ stage[w] \in HoldingTurn \cup {"syncing"}

\* Slots and the turn make no circle: when a write must wait, one that has a slot goes on.
NobodyIsStuck ==
  \A w \in Writers : stage[w] \notin Over =>
    CanGoOn(w) \/ \E x \in Writers : stage[x] \in HoldingSlot /\ CanGoOn(x)

\* Who holds the turn has a slot and waits for nothing.
LEMMA TurnGoesOn ==
  ASSUME TypeInv, commitTurn # Nobody
  PROVE  \E x \in Writers : stage[x] \in HoldingSlot /\ CanGoOn(x)
<1>1. commitTurn \in Writers /\ stage[commitTurn] \in HoldingTurn
  BY DEF TypeInv, TypeOK, TurnInv
<1> QED
  BY <1>1 DEF CanGoOn, HoldingTurn, HoldingSlot, Running

LEMMA SlotGoesOn ==
  ASSUME TypeInv, NEW w \in Writers, stage[w] \in HoldingSlot
  PROVE  \E x \in Writers : stage[x] \in HoldingSlot /\ CanGoOn(x)
<1>1. CASE commitTurn = Nobody
  BY <1>1 DEF CanGoOn, HoldingTurn, HoldingSlot, Running
<1> QED
  BY <1>1, TurnGoesOn

\* The write that runs alone waits for the turn with a slot taken, others wait for a slot and
\* none with the turn taken: all of them can not wait at the same time, for any amount of
\* writes and slots (takeWriteSlot, updateExclusively and holdCommits of the engine).
THEOREM NobodyGetsStuck == Spec => []NobodyIsStuck
<1>1. TypeInv => NobodyIsStuck
  <2> SUFFICES ASSUME TypeInv, NEW w \in Writers, stage[w] \notin Over, ~CanGoOn(w)
               PROVE  \E x \in Writers : stage[x] \in HoldingSlot /\ CanGoOn(x)
    BY DEF NobodyIsStuck
  <2>1. stage[w] \in Stages
    BY DEF TypeInv, TypeOK
  <2>2. CASE stage[w] \in HoldingSlot
    BY <2>2, SlotGoesOn
  <2>3. CASE stage[w] = "idle"
    <3> DEFINE holders == {x \in Writers : stage[x] \in HoldingSlot}
    <3>1. Cardinality({}) = 0 /\ 0 < WriteConcurrency
      BY FS_EmptySet, VaultAssumption
    <3>2. ~(Cardinality(holders) < WriteConcurrency)
      BY <2>3 DEF CanGoOn
    <3>3. holders # {}
      BY <3>1, <3>2
    <3> QED
      BY <3>3, SlotGoesOn
  <2> QED
    BY <2>1, <2>2, <2>3 DEF Stages, HoldingSlot, Running, HoldingTurn, Over, CanGoOn
<1> QED
  BY <1>1, TypesHold, PTL
=============================================================================
