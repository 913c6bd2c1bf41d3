---------------------------- MODULE SerialStore ----------------------------
(***************************************************************************)
(* What a vault promises of its writes, apart from how they run: each one  *)
(* reads one committed state and at most once brings about the next; one   *)
(* that returned without an error stays, and so does every write before    *)
(* it, whatever crash follows.                                             *)
(*                                                                         *)
(* A state gives each key the number of the write that last changed it.    *)
(***************************************************************************)
EXTENDS Integers, Sequences

CONSTANTS Writers, Keys

VARIABLES
  states,   \* the committed states, oldest first
  outcome,  \* [write]: "none", "committed", "failed", "returned", "unknown" or "lost"
  place,    \* [write]: the number of the state it brought about, 0 if none
  read      \* [write]: the keys it read, with what it read there

storeVars == <<states, outcome, place, read>>

Latest(sequence) == sequence[Len(sequence)]

Init ==
  /\ states = <<[k \in Keys |-> 1]>>
  /\ outcome = [w \in Writers |-> "none"]
  /\ place = [w \in Writers |-> 0]
  /\ read = [w \in Writers |-> {}]

\* What a write reads is all part of the latest state.
ReadsLatest(w) ==
  \E seen \in SUBSET {<<k, Latest(states)[k]>> : k \in Keys} :
    read' = [read EXCEPT ![w] = seen]

Commit(w) ==
  /\ outcome[w] = "none"
  /\ ReadsLatest(w)
  /\ \E written \in SUBSET Keys :
       states' = Append(states, [k \in Keys |-> IF k \in written THEN Len(states) + 1
                                                ELSE Latest(states)[k]])
  /\ place' = [place EXCEPT ![w] = Len(states) + 1]
  /\ outcome' = [outcome EXCEPT ![w] = "committed"]

Fail(w) ==
  /\ outcome[w] = "none"
  /\ ReadsLatest(w)
  /\ outcome' = [outcome EXCEPT ![w] = "failed"]
  /\ UNCHANGED <<states, place>>

\* A write whose sync failed may stay or not.
Return(w) ==
  /\ outcome[w] = "committed"
  /\ \E known \in {"returned", "unknown"} : outcome' = [outcome EXCEPT ![w] = known]
  /\ UNCHANGED <<states, place, read>>

\* A crash undoes the latest writes, but none up to one that returned.
Crash ==
  /\ \E n \in 1..Len(states) :
       /\ \A w \in Writers : outcome[w] = "returned" => place[w] <= n
       /\ states' = SubSeq(states, 1, n)
  /\ \E begun \in SUBSET {w \in Writers : outcome[w] = "none"} :
       outcome' = [w \in Writers |-> IF w \in begun \/ outcome[w] = "committed"
                                    THEN "lost" ELSE outcome[w]]
  /\ UNCHANGED <<place, read>>

Next == (\E w \in Writers : Commit(w) \/ Fail(w) \/ Return(w)) \/ Crash

Spec == Init /\ [][Next]_storeVars
=============================================================================
