------------------------------ MODULE Records ------------------------------
(***************************************************************************)
(* To-dos, habits and weekly reviews, whose handlers in                    *)
(* web/block_handlers.go call the store directly, and the deliverables of  *)
(* sprints in service/health.go: the tables of migrations 0005 to 0007 and *)
(* the statements of store/todos.go, habits.go, reviews.go, deliverables.go*)
(*                                                                         *)
(* Every store call is a step of its own, as in Journal: any request may   *)
(* run between two of them, and a request may be cut off at any point.     *)
(* Sprints come from elsewhere, and weeks pass.  Of a review the model     *)
(* keeps whose text it holds; done_at is written with the status it dates, *)
(* in one statement, and left out, as are texts, icons and priorities.     *)
(***************************************************************************)
EXTENDS Naturals, FiniteSets

CONSTANTS
  Requests,     \* the calls that ever reach these handlers
  TodoIds,      \* bound: the row ids there is room for, 1..n, in each table
  HabitIds,
  ItemIds,
  SprintIds,    \* the sprints
  Dates,        \* the days a habit may be marked for
  Weeks,        \* bound: the ISO weeks that pass, 1..n
  Absent        \* no row, no value

ASSUME IdsAssumption == TodoIds \cup HabitIds \cup ItemIds \subseteq Nat \ {0}
ASSUME WeeksAssumption == Weeks \subseteq Nat /\ 1 \in Weeks

VARIABLES
  todos,        \* table todos: id -> row, or Absent
  habits,       \* table habits: id -> "kept" or "archived", or Absent
  entries,      \* table habit_entries: pairs of a habit and a date
  reviews,      \* table weekly_reviews: a set of rows
  items,        \* table deliverables: id -> row, or Absent
  sprints,      \* the ids in table sprints
  current,      \* the active sprint, or Absent
  week,         \* the ISO week by the server's clock
  events,       \* table career_events: who caused them, and their sprint
  overlap,      \* may a request arrive while another is being served?
  pc,           \* request -> the store call it makes next, or how it ended
  call,         \* request -> what was asked
  seen          \* request -> what it has read and will use

store == <<todos, habits, entries, reviews, items, sprints, current, events>>
locals == <<pc, call, seen>>
vars == <<todos, habits, entries, reviews, items, sprints, current, week, events,
          overlap, pc, call, seen>>

SprintLink == SprintIds \cup {Absent}
Status == {"open", "done", "dropped"}
TodoRow == [sprint : SprintLink, status : Status]
HabitRow == {"kept", "archived"}
Entry == HabitIds \X Dates
ReviewRow == [week : Weeks, by : Requests]
ItemRow == [sprint : SprintIds, done : {0, 1}, order : Nat]
Event == [by : Requests, sprint : SprintLink]

ASSUME AbsentAssumption ==
  Absent \notin SprintIds \cup TodoRow \cup HabitRow \cup ItemRow \cup Requests

\* A review names no week: the server's clock does, when the request arrives.
Calls ==
  [op : {"todo", "habit"}]
  \cup [op : {"review"}, week : Weeks]
  \cup [op : {"todo_status"}, id : TodoIds, status : Status]
  \cup [op : {"todo_delete"}, id : TodoIds]
  \cup [op : {"habit_toggle"}, id : HabitIds, date : Dates]
  \cup [op : {"habit_archive"}, id : HabitIds]
  \cup [op : {"item"}, sprint : SprintIds]
  \cup [op : {"item_toggle", "item_delete"}, id : ItemIds]

Steps == {"current", "count", "max", "read", "write", "insert", "readback", "event"}
Ends == {"answered", "refused", "cut", "partial", "late"}

InFlight(r) == pc[r] \in Steps
Written(r) == pc[r] \in {"readback", "event"}
Quiet == \A r \in Requests : ~InFlight(r)

\* What a handler has read, by the time it writes.
Ready(r) ==
  LET at == pc[r]
      op == call[r].op
  IN /\ at # "idle" => call[r] \in Calls
     /\ at = "current" => op = "todo"
     /\ at = "count" => op = "habit_toggle"
     /\ at = "max" => op = "item"
     /\ at = "read" => op = "item_toggle"
     /\ at = "insert" => op = "review"
     /\ at = "readback" => op \in {"review", "item_toggle"}
     /\ at = "event" => op \in {"item", "item_toggle"}
     /\ at = "write" =>
          /\ op = "todo" => seen[r] \in SprintLink
          /\ op \in {"habit_toggle", "item_toggle"} => seen[r] \in {0, 1}
          /\ op = "item" => seen[r] \in Nat
     /\ InFlight(r) /\ op = "review" => seen[r] = call[r].week
     /\ at = "event" /\ op = "item_toggle" => seen[r] \in SprintIds

\* The tables have the shape the migrations give them, and no handler reaches a
\* store call without the values it passes to it.
TypeOK ==
  /\ todos \in [TodoIds -> TodoRow \cup {Absent}]
  /\ habits \in [HabitIds -> HabitRow \cup {Absent}]
  /\ entries \subseteq Entry
  /\ reviews \subseteq ReviewRow
  /\ items \in [ItemIds -> ItemRow \cup {Absent}]
  /\ sprints \subseteq SprintIds /\ current \in sprints \cup {Absent}
  /\ week \in Weeks
  /\ events \subseteq Event
  /\ overlap \in BOOLEAN
  /\ pc \in [Requests -> {"idle"} \cup Steps \cup Ends]
  /\ call \in [Requests -> Calls \cup {Absent}]
  /\ seen \in [Requests -> SprintLink \cup Nat]
  /\ \A r \in Requests : Ready(r)

None(ids) == [id \in ids |-> Absent]

Init ==
  /\ todos = None(TodoIds) /\ habits = None(HabitIds) /\ items = None(ItemIds)
  /\ entries = {} /\ reviews = {} /\ events = {}
  /\ sprints = SprintIds /\ current \in SprintLink
  /\ week = 1
  /\ overlap \in BOOLEAN
  /\ pc = [r \in Requests |-> "idle"]
  /\ call = None(Requests) /\ seen = None(Requests)

-----------------------------------------------------------------------------
(* The tables *)

SprintRef(id) == id = Absent \/ id \in sprints

Live(table) == {id \in DOMAIN table : table[id] # Absent}

\* INTEGER PRIMARY KEY without AUTOINCREMENT.
NextId(live, id) ==
  /\ \A other \in live : other < id
  /\ id = 1 \/ \E below \in live : id = below + 1

PutTodo(id, row) ==
  todos' = [todos EXCEPT ![id] = row]
  /\ UNCHANGED <<habits, entries, reviews, items, sprints, current, events>>

PutHabit(id, row) ==
  habits' = [habits EXCEPT ![id] = row]
  /\ UNCHANGED <<todos, entries, reviews, items, sprints, current, events>>

SetEntries(set) ==
  entries' = set /\ UNCHANGED <<todos, habits, reviews, items, sprints, current, events>>

SetReviews(set) ==
  reviews' = set /\ UNCHANGED <<todos, habits, entries, items, sprints, current, events>>

PutItem(id, row) ==
  items' = [items EXCEPT ![id] = row]
  /\ UNCHANGED <<todos, habits, entries, reviews, sprints, current, events>>

\* ux_weekly_reviews_week
WeekFree(w) == \A row \in reviews : row.week # w

\* An event with a reference to a sprint that is not there is lost.
AppendEvent(event) ==
  /\ events' = IF SprintRef(event.sprint) THEN events \cup {event} ELSE events
  /\ UNCHANGED <<todos, habits, entries, reviews, items, sprints, current>>

\* mutant: deliverables of the sprint stay
SprintDeletedLeavingItems(s) ==
  /\ sprints' = sprints \ {s}
  /\ current' = IF current = s THEN Absent ELSE current
  /\ todos' = [id \in TodoIds |-> IF todos[id] # Absent /\ todos[id].sprint = s
                                  THEN [todos[id] EXCEPT !.sprint = Absent] ELSE todos[id]]
  /\ events' = {IF e.sprint = s THEN [e EXCEPT !.sprint = Absent] ELSE e : e \in events}
  /\ UNCHANGED <<items, habits, entries, reviews>>

\* DeleteSprint, as these tables see it: ON DELETE SET NULL, and CASCADE.
SprintDeleted(s) ==
  /\ sprints' = sprints \ {s}
  /\ current' = IF current = s THEN Absent ELSE current
  /\ todos' = [id \in TodoIds |-> IF todos[id] # Absent /\ todos[id].sprint = s
                                  THEN [todos[id] EXCEPT !.sprint = Absent] ELSE todos[id]]
  /\ items' = [id \in ItemIds |-> IF items[id] # Absent /\ items[id].sprint = s
                                  THEN Absent ELSE items[id]]
  /\ events' = {IF e.sprint = s THEN [e EXCEPT !.sprint = Absent] ELSE e : e \in events}
  /\ UNCHANGED <<habits, entries, reviews>>

-----------------------------------------------------------------------------
(* Control *)

Goto(r, step) == pc' = [pc EXCEPT ![r] = step] /\ UNCHANGED call

\* The goroutine ends and its locals with it.  "partial" leaves a change that was
\* made unanswered; "late" answers it, but its context had ended before its event.
End(r, how) == Goto(r, how) /\ seen' = [seen EXCEPT ![r] = Absent]

Refuse(r) == End(r, IF Written(r) THEN "partial" ELSE "refused") /\ UNCHANGED store

Continue(r, step) == Goto(r, step) /\ UNCHANGED seen

\* A read: go on with what was found.
Read(r, value, step) ==
  seen' = [seen EXCEPT ![r] = value] /\ Goto(r, step) /\ UNCHANGED store

FirstStep(c) ==
  CASE c.op = "todo" -> "current"
    [] c.op = "habit_toggle" -> "count"
    [] c.op = "item" -> "max"
    [] c.op = "item_toggle" -> "read"
    [] OTHER -> "write"

\* A review is filed under the week of the save, not of the page it was written on.
Arrive(r, c) ==
  /\ pc[r] = "idle"
  /\ overlap \/ Quiet
  /\ c.op = "review" => c.week = week
  /\ pc' = [pc EXCEPT ![r] = FirstStep(c)]
  /\ call' = [call EXCEPT ![r] = c]
  /\ seen' = [seen EXCEPT ![r] = IF c.op = "review" THEN c.week ELSE Absent]
  /\ UNCHANGED store

\* The browser leaves or the process dies.  When the context ends before the event,
\* the append fails, its error is dropped and the handler answers all the same.
Interrupt(r) ==
  /\ InFlight(r)
  /\ \/ End(r, IF Written(r) THEN "partial" ELSE "cut")
     \/ pc[r] = "event" /\ End(r, "late")
  /\ UNCHANGED store

At(r, op, step) == pc[r] = step /\ call[r].op = op

-----------------------------------------------------------------------------
(* To-dos *)

TodoSprint(r) == At(r, "todo", "current") /\ Read(r, current, "write")

CreateTodo(r) ==
  /\ At(r, "todo", "write")
  /\ IF SprintRef(seen[r])
     THEN \E id \in TodoIds :
            /\ NextId(Live(todos), id)
            /\ PutTodo(id, [sprint |-> seen[r], status |-> "open"])
            /\ End(r, "answered")
     ELSE Refuse(r)

UpdateTodoStatus(r) ==
  /\ At(r, "todo_status", "write")
  /\ LET id == call[r].id
     IN IF id \in Live(todos)
        THEN PutTodo(id, [todos[id] EXCEPT !.status = call[r].status]) /\ End(r, "answered")
        ELSE Refuse(r)

\* The error, if there is no such row, is not looked at.
DeleteTodo(r) ==
  At(r, "todo_delete", "write") /\ PutTodo(call[r].id, Absent) /\ End(r, "answered")

-----------------------------------------------------------------------------
(* Habits *)

CreateHabit(r) ==
  /\ At(r, "habit", "write")
  /\ \E id \in HabitIds :
       NextId(Live(habits), id) /\ PutHabit(id, "kept") /\ End(r, "answered")

Marked(r) == <<call[r].id, call[r].date>>

\* mutant: an entry of any day counts
CountAnyDay(r) ==
  /\ At(r, "habit_toggle", "count")
  /\ Read(r, IF \E entry \in entries : entry[1] = call[r].id THEN 1 ELSE 0, "write")

CountEntries(r) ==
  At(r, "habit_toggle", "count") /\ Read(r, IF Marked(r) \in entries THEN 1 ELSE 0, "write")

\* The insert is refused by the primary key and by the reference to the habit.
ToggleHabitEntry(r) ==
  /\ At(r, "habit_toggle", "write")
  /\ IF seen[r] > 0
     THEN SetEntries(entries \ {Marked(r)}) /\ End(r, "answered")
     ELSE IF call[r].id \in Live(habits) /\ Marked(r) \notin entries
     THEN SetEntries(entries \cup {Marked(r)}) /\ End(r, "answered")
     ELSE Refuse(r)

ArchiveHabit(r) ==
  /\ At(r, "habit_archive", "write")
  /\ End(r, "answered")
  /\ IF call[r].id \in Live(habits) THEN PutHabit(call[r].id, "archived") ELSE UNCHANGED store

-----------------------------------------------------------------------------
(* Weekly reviews *)

UpdateReview(r) ==
  /\ At(r, "review", "write")
  /\ IF WeekFree(seen[r])
     THEN UNCHANGED store /\ Continue(r, "insert")
     ELSE /\ SetReviews({IF row.week = seen[r] THEN [row EXCEPT !.by = r] ELSE row : row \in reviews})
          /\ Continue(r, "readback")

InsertReview(r) ==
  /\ At(r, "review", "insert")
  /\ IF WeekFree(seen[r])
     THEN SetReviews(reviews \cup {[week |-> seen[r], by |-> r]}) /\ End(r, "answered")
     ELSE Refuse(r)

GetWeeklyReview(r) ==
  /\ At(r, "review", "readback")
  /\ IF WeekFree(seen[r]) THEN Refuse(r) ELSE UNCHANGED store /\ End(r, "answered")

-----------------------------------------------------------------------------
(* Deliverables *)

OrdersOf(s) == {items[id].order : id \in {i \in Live(items) : items[i].sprint = s}}

NextOrder(s, n) == (\A m \in OrdersOf(s) : m < n) /\ (n = 0 \/ n - 1 \in OrdersOf(s))

PickOrder(r) ==
  /\ At(r, "item", "max")
  /\ \E n \in {0} \cup {m + 1 : m \in OrdersOf(call[r].sprint)} :
       NextOrder(call[r].sprint, n) /\ Read(r, n, "write")

\* mutant: the reference to the sprint is not checked
CreateUnreferenced(r) ==
  /\ At(r, "item", "write")
  /\ \E id \in ItemIds :
       /\ NextId(Live(items), id)
       /\ PutItem(id, [sprint |-> call[r].sprint, done |-> 0, order |-> seen[r]])
       /\ Continue(r, "event")

CreateDeliverable(r) ==
  LET s == call[r].sprint
  IN /\ At(r, "item", "write")
     /\ IF s \in sprints
        THEN \E id \in ItemIds :
               /\ NextId(Live(items), id)
               /\ PutItem(id, [sprint |-> s, done |-> 0, order |-> seen[r]])
               /\ Continue(r, "event")
        ELSE Refuse(r)

ReadDone(r) ==
  /\ At(r, "item_toggle", "read")
  /\ IF call[r].id \in Live(items) THEN Read(r, 1 - items[call[r].id].done, "write") ELSE Refuse(r)

\* Whether the update hit a row is not looked at.
ToggleDeliverable(r) ==
  LET id == call[r].id
  IN /\ At(r, "item_toggle", "write")
     /\ Continue(r, "readback")
     /\ IF id \in Live(items) THEN PutItem(id, [items[id] EXCEPT !.done = seen[r]])
                              ELSE UNCHANGED store

GetDeliverable(r) ==
  /\ At(r, "item_toggle", "readback")
  /\ IF call[r].id \in Live(items) THEN Read(r, items[call[r].id].sprint, "event") ELSE Refuse(r)

DeleteDeliverable(r) ==
  /\ At(r, "item_delete", "write")
  /\ IF call[r].id \in Live(items) THEN PutItem(call[r].id, Absent) /\ End(r, "answered")
                                   ELSE Refuse(r)

LogEvent(r) ==
  /\ pc[r] = "event"
  /\ AppendEvent([by |-> r, sprint |-> IF call[r].op = "item" THEN call[r].sprint ELSE seen[r]])
  /\ End(r, "answered")

-----------------------------------------------------------------------------
Work(r) ==
  \/ TodoSprint(r) \/ CreateTodo(r) \/ UpdateTodoStatus(r) \/ DeleteTodo(r)
  \/ CreateHabit(r) \/ CountEntries(r) \/ ToggleHabitEntry(r) \/ ArchiveHabit(r)
  \/ UpdateReview(r) \/ InsertReview(r) \/ GetWeeklyReview(r)
  \/ PickOrder(r) \/ CreateDeliverable(r) \/ ReadDone(r) \/ ToggleDeliverable(r)
  \/ GetDeliverable(r) \/ DeleteDeliverable(r) \/ LogEvent(r)

\* What the handlers of sprints do, as seen from here.
Elsewhere ==
  /\ overlap \/ Quiet
  /\ \/ \E s \in sprints : SprintDeleted(s)
     \/ /\ current' \in sprints \cup {Absent}
        /\ UNCHANGED <<todos, habits, entries, reviews, items, sprints, events>>
  /\ UNCHANGED locals

\* Monday, which waits for no request.
WeekPasses == week + 1 \in Weeks /\ week' = week + 1 /\ UNCHANGED <<store, locals>>

Next ==
  /\ \/ /\ \/ \E r \in Requests : (\E c \in Calls : Arrive(r, c)) \/ Work(r) \/ Interrupt(r)
           \/ Elsewhere
        /\ UNCHANGED week
     \/ WeekPasses
  /\ UNCHANGED overlap

Spec == Init /\ [][Next]_vars

-----------------------------------------------------------------------------
(* Safety that must survive any overlap and any interruption. *)

\* The requests that have flipped a mark or written a review.
Applied ==
  {r \in Requests : /\ pc[r] # "idle"
                    /\ call[r].op \in {"habit_toggle", "item_toggle", "review"}
                    /\ Written(r) \/ pc[r] \in {"answered", "partial", "late"}}

\* A week has one review, though two first saves may both have found none, and a
\* save that was refused, or cut off before it, has left nothing.
OneReviewPerWeek ==
  /\ \A a, b \in reviews : a.week = b.week => a = b
  /\ \A row \in reviews : row.by \in Applied

\* No to-do, deliverable or event refers to a sprint that is gone, and no mark to a
\* habit that is not there, though handlers write ids they read or were given
\* before a deletion.
LinksAreLive ==
  /\ \A id \in Live(todos) : SprintRef(todos[id].sprint)
  /\ \A id \in Live(items) : items[id].sprint \in sprints
  /\ \A e \in events : SprintRef(e.sprint)
  /\ \A entry \in entries : entry[1] \in Live(habits)

-----------------------------------------------------------------------------
(* Safety of requests in turn, interruptions included. *)

\* The deliverables of a sprint have places of their own in its list, whatever was
\* deleted before: the next is beyond the last, not the number there are.
OrdersDiffer ==
  ~overlap =>
    \A i, j \in Live(items) :
      items[i].sprint = items[j].sprint /\ items[i].order = items[j].order => i = j

\* An addition or toggle of a deliverable answered in its context's time is on
\* record: the foreign key, whose refusal would be dropped, never refuses its event.
\* A "late" answer has none, for the trail is best effort.
AnsweredIsRecorded ==
  ~overlap => \A r \in Requests :
    pc[r] = "answered" /\ call[r].op \in {"item", "item_toggle"} => \E e \in events : e.by = r

\* What the user sees.
Ticks == {id \in Live(items) : items[id].done = 1}

Review(w) ==
  IF WeekFree(w) THEN Absent ELSE (CHOOSE row \in reviews : row.week = w).by

Pages == [w \in Weeks |-> Review(w)]

Plan == INSTANCE Planner WITH
  days <- entries, ticks <- Ticks, pages <- Pages, applied <- Applied, asked <- call

\* Requests in turn keep habits, deliverables and reviews as their user expects: a
\* click flips the mark it was made on and no other, at most once, a save is on the
\* page of the week it was sent in and stands until the next one of that week, and
\* what is cut off halfway has either happened or not.
PlannerSpec == Plan!Init /\ [][~overlap => Plan!Next]_<<entries, Ticks, Pages, Applied>>

=============================================================================
