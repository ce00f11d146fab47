------------------------------- MODULE Diary -------------------------------
(***************************************************************************)
(* What the daily logs of sprints promise: pages, one for a sprint and a   *)
(* day at most, each with the text of one request.  A request takes effect *)
(* at once and at most once, on the page it asked for and on no other.     *)
(* What is asked, and which sprint is current, is not the diary's to say.  *)
(***************************************************************************)
CONSTANTS Requests, LogIds, SprintIds, Absent

VARIABLES
  book,     \* the pages: sprint, date, whose text (by) and the number (id)
  applied,  \* the requests that have taken effect
  asked,    \* request -> what it asks for
  current   \* the sprint that is written about when none is named, or Absent

Init == book = {} /\ applied = {}

PagesOf(s, date) == {page \in book : page.sprint = s /\ page.date = date}

Fresh(id) == \A page \in book : page.id # id

\* RecordLog, in its words: "one log per sprint per day".  A page that is written
\* over keeps its number.
Write(r, s, date) ==
  \/ \E page \in PagesOf(s, date) : book' = (book \ {page}) \cup {[page EXCEPT !.by = r]}
  \/ /\ PagesOf(s, date) = {}
     /\ \E id \in LogIds :
          Fresh(id) /\ book' = book \cup {[sprint |-> s, date |-> date, by |-> r, id |-> id]}

\* DeleteLog.
Tear(id) == book' = {page \in book : page.id # id}

\* The sprint a request writes about.
Subject(r) == IF asked[r].sprint = Absent THEN current ELSE asked[r].sprint

\* A log of no sprint is not in the diary, nor is a decision record.
Apply(r) ==
  /\ r \notin applied
  /\ applied' = applied \cup {r}
  /\ \/ asked[r].op = "log" /\ Subject(r) \in SprintIds /\ Write(r, Subject(r), asked[r].date)
     \/ asked[r].op = "log" /\ Subject(r) = Absent /\ UNCHANGED book
     \/ asked[r].op = "log_delete" /\ Tear(asked[r].id)
     \/ asked[r].op \notin {"log", "log_delete"} /\ UNCHANGED book

\* The logs of a deleted sprint are nobody's.
SprintDeleted(s) ==
  book' = {page \in book : page.sprint # s} /\ UNCHANGED applied

Next == (\E r \in Requests : Apply(r)) \/ (\E s \in SprintIds : SprintDeleted(s))

Spec == Init /\ [][Next]_<<book, applied>>

=============================================================================
