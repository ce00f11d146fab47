------------------------------- MODULE MCPost -------------------------------
(***************************************************************************)
(* Instances of PostService for TLC.                                       *)
(***************************************************************************)
EXTENDS PostService, TLC

CONSTANTS r1, r2, r3, r4, r5

TwoRequests == {r1, r2}
ThreeRequests == {r1, r2, r3}
FourRequests == {r1, r2, r3, r4}
FiveRequests == {r1, r2, r3, r4, r5}

\* Requests, days, tiers, sprints and records are told apart by name only.
Symmetric == Permutations(Requests) \cup Permutations(Dates) \cup Permutations(Tiers)
             \cup Permutations(SprintIds) \cup Permutations(AdrIds)

AllOperations == {"create", "chat_draft", "chat_publish", "draft", "publish", "visual",
                  "delete", "retro", "sprint_delete", "adr_delete"}

=============================================================================
