----------------------------- MODULE MCJournal -----------------------------
(***************************************************************************)
(* Instances of Journal for TLC.                                           *)
(***************************************************************************)
EXTENDS Journal, TLC

CONSTANTS r1, r2, r3

ThreeRequests == {r1, r2, r3}

\* Requests, days and sprints are told apart by name only.
Symmetric == Permutations(Requests) \cup Permutations(Dates) \cup Permutations(SprintIds)

AllOperations == {"log", "log_delete", "adr", "adr_update", "adr_delete"}

Asked == {call[r] : r \in {q \in Requests : pc[q] # "idle"}}

\* Bound: requests that overlap write about one day and one record; requests in
\* turn, whose history takes two days or a series of records, all work on one table.
Bounded ==
  IF overlap
  THEN /\ Cardinality({c.date : c \in {a \in Asked : a.op = "log"}}) <= 1
       /\ LiveAdrs \subseteq {1}
       /\ \A c \in Asked : c.op \in {"adr_update", "adr_delete"} => c.id = 1
  ELSE Cardinality({OnLog(c) : c \in Asked}) <= 1

BoundedNext == Next /\ Bounded'

BoundedSpec == Init /\ [][BoundedNext]_vars

=============================================================================
