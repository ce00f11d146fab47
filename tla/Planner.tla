------------------------------ MODULE Planner ------------------------------
(***************************************************************************)
(* What habits, deliverables and weekly reviews promise their user: a      *)
(* click flips the mark it was made on, a save writes the page of the week *)
(* it was sent in, each at once and at most once, and nothing else changes *)
(* but for what is thrown away.  What is asked is not the planner's to say.*)
(***************************************************************************)
CONSTANTS Requests, Weeks, Absent

VARIABLES
  days,     \* the pairs of a habit and a date that are marked
  ticks,    \* the deliverables that are done
  pages,    \* week -> the request whose review is there, or Absent
  applied,  \* the requests that have taken effect
  asked     \* request -> what it asks for

Init == days = {} /\ ticks = {} /\ pages = [w \in Weeks |-> Absent] /\ applied = {}

Flipped(marks, mark) == IF mark \in marks THEN marks \ {mark} ELSE marks \cup {mark}

\* ToggleHabitEntry: "marks or unmarks a habit for a given date".
FlipDay(day) == days' = Flipped(days, day) /\ UNCHANGED <<ticks, pages>>

\* ToggleDeliverable: "flips the done state of a deliverable".
FlipItem(id) == ticks' = Flipped(ticks, id) /\ UNCHANGED <<days, pages>>

\* UpsertWeeklyReview: "creates or updates a weekly review".
Write(r, w) == pages' = [pages EXCEPT ![w] = r] /\ UNCHANGED <<days, ticks>>

Apply(r) ==
  /\ r \notin applied
  /\ applied' = applied \cup {r}
  /\ \/ asked[r].op = "habit_toggle" /\ FlipDay(<<asked[r].id, asked[r].date>>)
     \/ asked[r].op = "item_toggle" /\ FlipItem(asked[r].id)
     \/ asked[r].op = "review" /\ Write(r, asked[r].week)

\* A deliverable is deleted, alone or with its sprint.
Discard == ticks' \subseteq ticks /\ UNCHANGED <<days, pages, applied>>

Next == (\E r \in Requests : Apply(r)) \/ Discard

Spec == Init /\ [][Next]_<<days, ticks, pages, applied>>

=============================================================================
