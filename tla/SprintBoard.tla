---------------------------- MODULE SprintBoard ----------------------------
(***************************************************************************)
(* What the sprint service promises its caller, told without statements,   *)
(* snapshots or failures: a board of sprints on which every request takes  *)
(* effect at once, at most once, on the sprint and the column it asks for  *)
(* and no other, with the value it asks for.  What is asked is not the     *)
(* board's to say.  SprintService is shown to implement this when requests *)
(* do not overlap.                                                         *)
(***************************************************************************)
EXTENDS Naturals

CONSTANTS Requests, SprintIds, Absent

VARIABLES
  board,      \* id -> sprint, or Absent
  applied,    \* the requests that have taken effect
  asked       \* request -> what it asks for

On(id) == board[id] # Absent

\* The sprint a request speaks of: the one it names, or from chat the active one.
Subject(r, id) ==
  On(id) /\ IF asked[r].op \in {"chat_phase", "chat_ship"}
            THEN board[id].status = "active" ELSE asked[r].id = id

OthersIdle(id) ==
  \A other \in SprintIds \ {id} : On(other) => board[other].status # "active"

Init ==
  /\ board = [id \in SprintIds |-> Absent]
  /\ applied = {}

Put(id, sprint) == board' = [board EXCEPT ![id] = sprint]

\* A new sprint goes above every other one and starts in Phase 1 with nothing
\* filled in; only one may be active.
Start(r, id) ==
  /\ asked[r].op = "create"
  /\ \A other \in SprintIds : On(other) => other < id
  /\ asked[r].status = "active" => OthersIdle(id)
  /\ Put(id, [skill |-> r, phase |-> 1, status |-> asked[r].status,
              url |-> FALSE, ended |-> FALSE, retro |-> FALSE])

Move(r, id) ==
  /\ asked[r].op \in {"phase", "chat_phase"} /\ Subject(r, id)
  /\ Put(id, [board[id] EXCEPT !.phase = asked[r].phase])

\* Shipping needs a live URL, given now or before, and dates the sprint.
SetStatus(r, id) ==
  /\ asked[r].op \in {"status", "chat_ship"} /\ Subject(r, id)
  /\ asked[r].status = "active" => OthersIdle(id)
  /\ asked[r].status = "shipped" => asked[r].url \/ board[id].url
  /\ Put(id, [board[id] EXCEPT !.status = asked[r].status,
                              !.url = @ \/ asked[r].url,
                              !.ended = @ \/ asked[r].status = "shipped"])

Retro(r, id) ==
  /\ asked[r].op = "retro" /\ Subject(r, id)
  /\ Put(id, [board[id] EXCEPT !.retro = asked[r].text])

Remove(r, id) == asked[r].op = "delete" /\ Subject(r, id) /\ Put(id, Absent)

Apply(r) ==
  /\ r \notin applied
  /\ applied' = applied \cup {r}
  /\ \E id \in SprintIds :
       Start(r, id) \/ Move(r, id) \/ SetStatus(r, id) \/ Retro(r, id) \/ Remove(r, id)

Next == \E r \in Requests : Apply(r)

Spec == Init /\ [][Next]_<<board, applied>>

=============================================================================
