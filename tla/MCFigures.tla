----------------------------- MODULE MCFigures -----------------------------
(***************************************************************************)
(* Figures and Progress for TLC.                                           *)
(***************************************************************************)
EXTENDS Figures, Progress

CONSTANTS blog, x

\* Bound: what is at work in a behaviour; posts, habits and sprints have
\* nothing to do with each other here.
VARIABLE at

\* West and east of Greenwich and on it, without summer time and with it.
AllZones == {{-1}, {0}, {1}, {-1, 0}, {0, 1}}

PostsNext ==
  /\ at = "posts" /\ UNCHANGED <<progress, at>>
  /\ \/ Midnight
     \/ \E d \in Days : Unpublish(d) \/ \E t \in Tiers : Publish(d, t)

EntriesNext ==
  /\ at = "entries" /\ UNCHANGED <<progress, at>>
  /\ Midnight \/ \E d \in Days : Toggle(d)

\* Bound: where the clock is changed, the phase is at most once; and a planned
\* sprint, which is to every figure what an active one is, stays planned.
SprintNext ==
  /\ at = "sprint" /\ UNCHANGED <<figures, at>>
  /\ ProgressNext
  /\ Cardinality(zone) = 2 => Len(changes') + lost' <= 1
  /\ status' = "planned" <=> status = "planned"
  /\ status = "planned" => phase' = phase

Init ==
  FiguresInit /\ ProgressInit /\ at \in {"posts", "entries", "sprint"}
  /\ (at # "sprint" =>
       now = DayLength /\ zone = {0} /\ status = "active")

Next == PostsNext \/ EntriesNext \/ SprintNext

Spec == Init /\ [][Next]_<<figures, progress, at>>

=============================================================================
