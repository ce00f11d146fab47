----------------------------- MODULE MCRecords -----------------------------
(***************************************************************************)
(* Instances of Records for TLC.                                           *)
(***************************************************************************)
EXTENDS Records, TLC

CONSTANTS r1, r2, r3, r4

FourRequests == {r1, r2, r3, r4}

\* Requests, days and sprints are told apart by name only.
Symmetric == Permutations(Requests) \cup Permutations(Dates) \cup Permutations(SprintIds)

Table(c) ==
  CASE c.op \in {"todo", "todo_status", "todo_delete"} -> "todos"
    [] c.op \in {"habit", "habit_toggle", "habit_archive"} -> "habits"
    [] c.op = "review" -> "reviews"
    [] OTHER -> "items"

Asked == {r \in Requests : pc[r] # "idle"}

\* Bound: requests all work on one table, as no handler touches two of these, and
\* weeks pass for reviews only; three of them overlap, four come in turn.
Bounded ==
  /\ Cardinality({Table(call[r]) : r \in Asked}) <= 1
  /\ week > 1 => \A r \in Asked : Table(call[r]) = "reviews"
  /\ overlap => Cardinality(Asked) <= 3

BoundedNext == Next /\ Bounded'

BoundedSpec == Init /\ [][BoundedNext]_vars

=============================================================================
