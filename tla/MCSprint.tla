------------------------------ MODULE MCSprint ------------------------------
(***************************************************************************)
(* Instances of SprintService for TLC.                                     *)
(***************************************************************************)
EXTENDS SprintService, FiniteSets, TLC

CONSTANTS r1, r2, r3, r4

TwoRequests == {r1, r2}
FourRequests == {r1, r2, r3, r4}

\* Requests are told apart by what they ask only; no action names one.
Symmetric == Permutations(Requests)

AllOperations == {"create", "phase", "chat_phase", "status", "chat_ship", "retro",
                  "delete", "gate"}
HistoryOperations == {"create", "phase", "chat_ship", "retro", "delete"}

Arrived == {r \in Requests : pc[r] # "idle"}

\* Bound: three requests that overlap, whatever they ask but for the status
\* abandoned, which is to every handler what planned is; or four in turn that
\* make the history of an id: a creation, a deletion, a creation and one more, or
\* a creation and up to two changes before its deletion.
Bounded ==
  IF overlap
  THEN /\ Cardinality(Arrived) <= 3
       /\ \A r \in Arrived : call[r].op = "status" => call[r].status # "abandoned"
  ELSE /\ \A r \in Arrived : call[r].op \in HistoryOperations
       /\ Cardinality({r \in Arrived : call[r].op \notin {"create", "delete"}}) <= 2

BoundedNext == Next /\ Bounded'

BoundedSpec == Init /\ [][BoundedNext]_vars

=============================================================================
