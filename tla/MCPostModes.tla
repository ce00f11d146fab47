---------------------------- MODULE MCPostModes ----------------------------
(***************************************************************************)
(* Requests on posts, overlapping or in turn, for one run.                 *)
(***************************************************************************)
EXTENDS MCPost, FiniteSets

Arrival == \E r \in Requests : pc[r] = "idle" /\ pc'[r] # "idle"

SprintsNamedBy(c) ==
  IF c = Absent THEN {}
  ELSE IF WorksOnSprint(c) THEN {c.id}
  ELSE IF c.op = "create" THEN {c.sprint} \ {Absent} ELSE {}

\* Bound: requests that overlap all concern one sprint, the active one if there is
\* one.  The second sprint is needed only for the history of requests in turn.
OneSprint ==
  Cardinality({s \in SprintIds : LiveSprint(s) /\ sprints[s].active}
              \cup UNION {SprintsNamedBy(call[r]) : r \in Requests}) <= 1

ModesNext == Next /\ (Arrival /\ overlap => OneSprint')

ModesSpec == Init /\ [][ModesNext]_vars

=============================================================================
