---------------------------- MODULE CrawlPromise ----------------------------
(***************************************************************************)
(* What the crawler promises of a crawl, apart from how it keeps track of  *)
(* it: the states a crawl goes through, that it only ends its visits once, *)
(* that it finishes with none pending and takes none afterwards, and that  *)
(* only a cancelled crawl drops visits before it ends them.                *)
(***************************************************************************)
EXTENDS FiniteSets

CONSTANTS Crawls, Urls

VARIABLES
  state,    \* [crawl]: the state of a crawl, "none" before and "forgotten" after
  pending,  \* [crawl]: the URLs whose visit is pending
  done      \* [crawl]: the URLs whose visit ended

promiseVars == <<state, pending, done>>

Init ==
  /\ state = [c \in Crawls |-> "none"]
  /\ pending = [c \in Crawls |-> {}]
  /\ done = [c \in Crawls |-> {}]

To(c, next) == state' = [state EXCEPT ![c] = next]

Start(c) ==
  /\ state[c] = "none" /\ To(c, "running")
  /\ \E seeds \in SUBSET Urls : pending' = [pending EXCEPT ![c] = seeds]
  /\ UNCHANGED done

\* A pending visit leads to others, none of which was visited before.
LeadOn(c) ==
  /\ state[c] \in {"running", "paused"}
  /\ pending[c] # {}
  /\ \E next \in SUBSET (Urls \ done[c]) : pending' = [pending EXCEPT ![c] = @ \cup next]
  /\ UNCHANGED <<state, done>>

EndVisit(c, u) ==
  /\ u \in pending[c]
  /\ pending' = [pending EXCEPT ![c] = @ \ {u}]
  /\ done' = [done EXCEPT ![c] = @ \cup {u}]
  /\ UNCHANGED state

DropVisits(c) ==
  /\ state[c] = "cancelling"
  /\ \E left \in SUBSET pending[c] : pending' = [pending EXCEPT ![c] = left]
  /\ UNCHANGED <<state, done>>

ChangeState(c) ==
  /\ \/ state[c] = "running" /\ To(c, "paused")
     \/ state[c] = "paused" /\ To(c, "running")
     \/ state[c] \in {"running", "paused"} /\ To(c, "cancelling")
  /\ UNCHANGED <<pending, done>>

Finish(c) ==
  /\ pending[c] = {}
  /\ \/ state[c] \in {"running", "paused"} /\ To(c, "succeeded")
     \/ state[c] = "cancelling" /\ To(c, "cancelled")
  /\ UNCHANGED <<pending, done>>

Forget(c) ==
  /\ state[c] \in {"succeeded", "cancelled"}
  /\ To(c, "forgotten")
  /\ done' = [done EXCEPT ![c] = {}]
  /\ UNCHANGED pending

Next ==
  \E c \in Crawls :
    \/ Start(c)
    \/ LeadOn(c)
    \/ \E u \in Urls : EndVisit(c, u)
    \/ DropVisits(c)
    \/ ChangeState(c)
    \/ Finish(c)
    \/ Forget(c)

Spec == Init /\ [][Next]_promiseVars
=============================================================================
