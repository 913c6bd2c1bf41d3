---------------------------- MODULE PebbleVault ----------------------------
(***************************************************************************)
(* The writes of the Pebble engine of the vault.  They run at the same     *)
(* time on the live database.  One that read a key another committed after *)
(* it began runs again; after too many conflicts it holds the commits of   *)
(* the others and runs alone.  Commits are applied unsynced, one at a time *)
(* under the commit turn; a write returns after a sync that follows its    *)
(* commit.                                                                 *)
(*                                                                         *)
(* A committed state gives each key the number of the state its value is   *)
(* from, so what a write computes from what it reads is left out, and two  *)
(* reads of a key differ exactly if a write came between.                  *)
(***************************************************************************)
EXTENDS Integers, FiniteSets, Sequences

CONSTANTS
  Writers,           \* calls of Update
  Records,           \* keys written whole: records, and member sets deleted
  Amounts,           \* keys changed blind: amounts, tallies, members added or removed
  Ranges,            \* sets of keys a scan may visit
  Nobody,            \* no write
  WriteConcurrency,  \* write slots
  ConflictsBeforeExclusiveWrite,
  MaxCrashes         \* bound of the model

Keys == Records \cup Amounts

ASSUME VaultAssumption ==
  /\ Records \cap Amounts = {}
  /\ Ranges \subseteq SUBSET Keys
  /\ Nobody \notin Writers
  /\ IsFiniteSet(Writers)
  /\ WriteConcurrency \in Nat \ {0}
  /\ ConflictsBeforeExclusiveWrite \in Nat
  /\ MaxCrashes \in Nat

VARIABLES
  states,      \* the states of the database since it was created, the latest last
  synced,      \* the latest state that is on disk for sure
  commitTurn,  \* the write that holds the commits of the others, or Nobody
  lastCommit,  \* history: the number of the last commit
  commits,     \* history: recorded commits, their numbers and written keys
  stage,       \* [write]: how far it is
  conflicts,   \* [write]: how often it conflicted
  begunAfter,  \* [write]: the commit its run began after
  seen,        \* [write]: the keys its run read, with what it read there
  changes,     \* [write]: the keys its run changed
  place,       \* [write]: the number of the state it brought about, 0 if none
  crashes      \* crashes so far

database == <<states, synced>>
history == <<lastCommit, commits>>
run == <<begunAfter, seen, changes>>
vaultVars == <<database, commitTurn, history, stage, conflicts, run, place, crashes>>

Stages == {"idle", "slotted", "running", "checking", "alone", "recording", "syncing",
           "failed", "returned", "unknown", "lost"}
Running == {"running", "checking", "alone", "recording"}
HoldingTurn == {"checking", "alone", "recording"}
HoldingSlot == {"slotted"} \cup Running
Over == {"failed", "returned", "unknown", "lost"}

Latest(sequence) == sequence[Len(sequence)]

TypeOK ==
  /\ states \in Seq([Keys -> Nat \ {0}]) /\ states # <<>>
  /\ synced \in 1..Len(states)
  /\ commitTurn \in Writers \cup {Nobody}
  /\ lastCommit \in Nat
  /\ commits \subseteq [number : 1..lastCommit, writtenKeys : SUBSET Keys]
  /\ stage \in [Writers -> Stages]
  /\ conflicts \in [Writers -> 0..ConflictsBeforeExclusiveWrite]
  /\ begunAfter \in [Writers -> 0..lastCommit]
  /\ seen \in [Writers -> SUBSET (Keys \X (Nat \ {0}))]
  /\ changes \in [Writers -> SUBSET Keys]
  /\ place \in [Writers -> Nat]
  /\ crashes \in 0..MaxCrashes

-----------------------------------------------------------------------------
(* The history of write transactions *)

\* Fault: commits are forgotten though a running transaction began before them.
latestBegin == lastCommit'

\* The commit the oldest running transaction began after.
oldestBegunAfter ==
  LET running == {w \in Writers : stage'[w] \in Running}
  IN  CHOOSE n \in {lastCommit'} \cup {begunAfter'[w] : w \in running} :
        n <= lastCommit' /\ \A w \in running : n <= begunAfter'[w]

\* Once a transaction ended, commits are forgotten that none can conflict with.
transactionEnded(recorded) ==
  commits' = {c \in recorded : c.number > oldestBegunAfter}

-----------------------------------------------------------------------------
(* The run of a write *)

Goes(w, next) == stage' = [stage EXCEPT ![w] = next]

TakeWriteSlot(w) ==
  /\ stage[w] = "idle"
  /\ Cardinality({x \in Writers : stage[x] \in HoldingSlot}) < WriteConcurrency
  /\ Goes(w, "slotted")
  /\ UNCHANGED <<database, commitTurn, history, conflicts, run, place, crashes>>

\* The caller no longer waits for the write when it gets its slot.
RefuseWrite(w) ==
  /\ stage[w] = "slotted" /\ conflicts[w] = 0
  /\ Goes(w, "failed")
  /\ UNCHANGED <<database, commitTurn, history, conflicts, run, place, crashes>>

\* A run begins with nothing read and nothing changed.
BeginRun(w) ==
  /\ begunAfter' = [begunAfter EXCEPT ![w] = lastCommit]
  /\ seen' = [seen EXCEPT ![w] = {}]
  /\ changes' = [changes EXCEPT ![w] = {}]
  /\ UNCHANGED <<database, history, conflicts, place, crashes>>

\* Fault: a write runs optimistically once more than it may.
mayConflictOnceMore(w) == conflicts[w] <= ConflictsBeforeExclusiveWrite

mayConflict(w) == conflicts[w] < ConflictsBeforeExclusiveWrite

BeginOptimistically(w) ==
  /\ stage[w] = "slotted" /\ mayConflict(w)
  /\ Goes(w, "running")
  /\ BeginRun(w)
  /\ UNCHANGED commitTurn

BeginExclusively(w) ==
  /\ stage[w] = "slotted" /\ ~mayConflict(w)
  /\ commitTurn = Nobody /\ commitTurn' = w
  /\ Goes(w, "alone")
  /\ BeginRun(w)

\* The keys a run depends on: those it read, and the records it wrote.
footprint(w) == {pair[1] : pair \in seen[w]} \cup (changes[w] \cap Records)

\* A key is read once from the live database, then from the values the run holds.
Read(w, k) ==
  /\ stage[w] \in {"running", "alone"}
  /\ k \notin footprint(w)
  /\ seen' = [seen EXCEPT ![w] = @ \cup {<<k, Latest(states)[k]>>}]
  /\ UNCHANGED <<database, commitTurn, history, stage, conflicts, begunAfter, changes,
                 place, crashes>>

\* A scan visits the database as it is when it starts, with what the run wrote.
Scan(w, range) ==
  /\ stage[w] \in {"running", "alone"}
  /\ seen' = [seen EXCEPT ![w] =
                @ \cup {<<k, Latest(states)[k]>> : k \in range \ (changes[w] \cap Records)}]
  /\ UNCHANGED <<database, commitTurn, history, stage, conflicts, begunAfter, changes,
                 place, crashes>>

\* A record is stored or removed, an amount changed; whether it was read before is the
\* caller's.
Change(w, k) ==
  /\ stage[w] \in {"running", "alone"}
  /\ k \notin changes[w]
  /\ changes' = [changes EXCEPT ![w] = @ \cup {k}]
  /\ UNCHANGED <<database, commitTurn, history, stage, conflicts, begunAfter, seen, place,
                 crashes>>

\* The run is over: its write waits for the commit turn.
HoldCommits(w) ==
  /\ stage[w] = "running"
  /\ commitTurn = Nobody /\ commitTurn' = w
  /\ Goes(w, "checking")
  /\ UNCHANGED <<database, history, conflicts, run, place, crashes>>

\* Fault: the first commit after a run began counts as before it.
begunWell(w, c) == c.number > begunAfter[w] + 1

isAfterBegin(w, c) == c.number > begunAfter[w]

keyWrittenAfter(w) ==
  \E c \in commits : isAfterBegin(w, c) /\ c.writtenKeys \cap footprint(w) # {}

\* A conflict is looked for before the closure's error, and the run's changes are dropped.
Conflict(w) ==
  /\ stage[w] = "checking"
  /\ keyWrittenAfter(w)
  /\ conflicts' = [conflicts EXCEPT ![w] = @ + 1]
  /\ commitTurn' = Nobody
  /\ Goes(w, "slotted")
  /\ seen' = [seen EXCEPT ![w] = {}]
  /\ changes' = [changes EXCEPT ![w] = {}]
  /\ UNCHANGED <<database, lastCommit, begunAfter, place, crashes>>
  /\ transactionEnded(commits)

MayFinish(w) == stage[w] = "alone" \/ (stage[w] = "checking" /\ ~keyWrittenAfter(w))

\* Fault: a write that failed keeps the commit turn.
turnAfterFailureOf(w) == IF stage[w] = "alone" THEN w ELSE Nobody

resumeCommits(w) == Nobody

\* The closure failed, or the database could not take the changes.
FailRun(w) ==
  /\ MayFinish(w)
  /\ commitTurn' = resumeCommits(w)
  /\ Goes(w, "failed")
  /\ UNCHANGED <<database, lastCommit, conflicts, run, place, crashes>>
  /\ transactionEnded(commits)

\* The changes reach the database before the history knows of them.
Commit(w) ==
  /\ MayFinish(w)
  /\ states' = Append(states, [k \in Keys |-> IF k \in changes[w] THEN Len(states) + 1
                                              ELSE Latest(states)[k]])
  /\ place' = [place EXCEPT ![w] = Len(states) + 1]
  /\ Goes(w, "recording")
  /\ UNCHANGED <<synced, commitTurn, history, conflicts, run, crashes>>

\* The commit is recorded, others may commit, and the transaction has ended.
RecordCommit(w) ==
  /\ stage[w] = "recording"
  /\ lastCommit' = lastCommit + 1
  /\ commitTurn' = Nobody
  /\ Goes(w, "syncing")
  /\ UNCHANGED <<database, conflicts, run, place, crashes>>
  /\ transactionEnded(commits \cup
       {[number |-> lastCommit + 1, writtenKeys |-> changes[w]]})

\* Fault: a write that changed nothing does not wait for a sync.
SyncIfChanged(w) == IF changes[w] = {} THEN synced ELSE Len(states)

syncCommits(w) == Len(states)

\* Syncing the log puts on disk whatever was committed before.
Sync(w) ==
  /\ stage[w] = "syncing"
  /\ synced' = syncCommits(w)
  /\ Goes(w, "returned")
  /\ UNCHANGED <<states, commitTurn, history, conflicts, run, place, crashes>>

\* The write returns an error though its commit may be on disk.
FailSync(w) ==
  /\ stage[w] = "syncing"
  /\ Goes(w, "unknown")
  /\ UNCHANGED <<database, commitTurn, history, conflicts, run, place, crashes>>

\* A crash keeps what was synced, and as much of what follows as reached the disk.
Crash ==
  /\ crashes < MaxCrashes /\ crashes' = crashes + 1
  /\ \E n \in synced..Len(states) : states' = SubSeq(states, 1, n) /\ synced' = n
  /\ commitTurn' = Nobody
  /\ lastCommit' = 0 /\ commits' = {}
  /\ begunAfter' = [w \in Writers |-> 0]
  /\ stage' = [w \in Writers |->
                 IF stage[w] \in Over \cup {"idle"} THEN stage[w] ELSE "lost"]
  /\ UNCHANGED <<conflicts, seen, changes, place>>

-----------------------------------------------------------------------------
(* The specification *)

Init ==
  /\ states = <<[k \in Keys |-> 1]>> /\ synced = 1
  /\ commitTurn = Nobody
  /\ lastCommit = 0 /\ commits = {}
  /\ stage = [w \in Writers |-> "idle"]
  /\ conflicts = [w \in Writers |-> 0]
  /\ begunAfter = [w \in Writers |-> 0]
  /\ seen = [w \in Writers |-> {}]
  /\ changes = [w \in Writers |-> {}]
  /\ place = [w \in Writers |-> 0]
  /\ crashes = 0

\* The steps a write takes by itself once its closure stopped reading and writing.
Proceed(w) ==
  \/ TakeWriteSlot(w) \/ RefuseWrite(w) \/ BeginOptimistically(w) \/ BeginExclusively(w)
  \/ HoldCommits(w) \/ Conflict(w) \/ FailRun(w) \/ Commit(w) \/ RecordCommit(w)
  \/ Sync(w) \/ FailSync(w)

Next ==
  \/ \E w \in Writers :
       \/ Proceed(w)
       \/ \E k \in Keys : Read(w, k) \/ Change(w, k)
       \/ \E range \in Ranges : Scan(w, range)
  \/ Crash

Spec == Init /\ [][Next]_vaultVars

\* Closures end, and a write that can go on does.  With finitely many writes none can be
\* overtaken for ever, so the order in which a channel serves its waiters is not needed.
Fairness == \A w \in Writers : WF_vaultVars(Proceed(w))

FairSpec == Spec /\ Fairness

-----------------------------------------------------------------------------
(* Properties *)

\* What a running write read is still so, or the write is bound to notice: the commit
\* that changed it is in the history, or its own writer holds the commit turn and is
\* about to record it.
StaleReadsAreNoticed ==
  \A w \in Writers : stage[w] \in Running \ {"recording"} =>
    \A pair \in seen[w] :
      \/ pair[2] = Latest(states)[pair[1]]
      \/ \E c \in commits : c.number > begunAfter[w] /\ pair[1] \in c.writtenKeys
      \/ \E x \in Writers : stage[x] = "recording" /\ pair[1] \in changes[x]

\* A write returned without an error is on disk, with every commit it may have read of,
\* even if it changed nothing itself.
ReturnedWritesAreSynced ==
  \A w \in Writers : stage[w] = "returned" => place[w] \in 1..synced

\* Blind changes of an amount never make a write run again: only one that read something
\* or wrote a record conflicts.
BlindChangesNeverConflict ==
  [][\A w \in Writers : conflicts'[w] > conflicts[w]
       => seen[w] # {} \/ changes[w] \cap Records # {}]_vaultVars

Store == INSTANCE SerialStore WITH
  outcome <- [w \in Writers |->
                CASE stage[w] \in {"recording", "syncing"} -> "committed"
                  [] stage[w] \in Over -> stage[w]
                  [] OTHER -> "none"],
  read <- [w \in Writers |->
             IF stage[w] \in {"recording", "syncing", "returned", "unknown", "failed"}
                  \/ (stage[w] = "lost" /\ place[w] # 0)
             THEN seen[w] ELSE {}]

\* Transactions are serializable in the order of their commits, and what returned stays.
IsSerial == Store!Spec

\* Every write ends: after too many conflicts it is run alone, and whoever holds the
\* commit turn gives it back.
WritesEnd == \A w \in Writers : stage[w] = "slotted" ~> stage[w] \in Over
=============================================================================
