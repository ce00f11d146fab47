--------------------------- MODULE RecordsProofs ---------------------------
(***************************************************************************)
(* Theorems about Records, for any number of requests, rows, sprints, days *)
(* and weeks.                                                              *)
(***************************************************************************)
EXTENDS Records, TLAPS

(***************************************************************************)
(* What the fields of a request are, operation by operation.               *)
(***************************************************************************)
LEMMA CallFields ==
  ASSUME NEW c \in Calls
  PROVE  /\ c.op \in {"todo", "habit", "review", "todo_status", "todo_delete", "habit_toggle",
                      "habit_archive", "item", "item_toggle", "item_delete"}
         /\ c.op = "todo_status" => c.id \in TodoIds /\ c.status \in Status
         /\ c.op = "todo_delete" => c.id \in TodoIds
         /\ c.op = "habit_toggle" => c.id \in HabitIds /\ c.date \in Dates
         /\ c.op = "habit_archive" => c.id \in HabitIds
         /\ c.op = "review" => c.week \in Weeks
         /\ c.op = "item" => c.sprint \in SprintIds
         /\ c.op \in {"item_toggle", "item_delete"} => c.id \in ItemIds
  BY DEF Calls

LocalTypeOK ==
  /\ pc \in [Requests -> {"idle"} \cup Steps \cup Ends]
  /\ call \in [Requests -> Calls \cup {Absent}]
  /\ seen \in [Requests -> SprintLink \cup Nat]

StoreTypeOK ==
  /\ todos \in [TodoIds -> TodoRow \cup {Absent}]
  /\ habits \in [HabitIds -> HabitRow \cup {Absent}]
  /\ entries \subseteq Entry
  /\ reviews \subseteq ReviewRow
  /\ items \in [ItemIds -> ItemRow \cup {Absent}]
  /\ sprints \subseteq SprintIds /\ current \in sprints \cup {Absent}
  /\ events \subseteq Event

(***************************************************************************)
(* A step of one handler leaves every other handler as ready as it was.    *)
(***************************************************************************)
LEMMA OthersReady ==
  ASSUME TypeOK, NEW r \in Requests,
         \A q \in Requests \ {r} : pc'[q] = pc[q] /\ call'[q] = call[q] /\ seen'[q] = seen[q],
         Ready(r)'
  PROVE  \A q \in Requests : Ready(q)'
<1>1. \A q \in Requests \ {r} : Ready(q)'
  BY DEF TypeOK, Ready, InFlight
<1> QED
  BY <1>1

(***************************************************************************)
(* A handler that ends, goes on with what it has, or reads a value leaves  *)
(* all handlers ready if its own next step finds what it needs.            *)
(***************************************************************************)
LEMMA EndReady ==
  ASSUME TypeOK, NEW r \in Requests, NEW how \in Ends, End(r, how), pc[r] # "idle"
  PROVE  LocalTypeOK' /\ \A q \in Requests : Ready(q)'
<1>1. LocalTypeOK'
  BY DEF TypeOK, LocalTypeOK, End, Goto, SprintLink
<1>2. Ready(r)'
  BY DEF TypeOK, Ready, End, Goto, Ends, InFlight, Steps
<1> QED
  BY <1>1, <1>2, OthersReady DEF TypeOK, End, Goto

LEMMA ContinueReady ==
  ASSUME TypeOK, NEW r \in Requests, NEW step \in Steps, Continue(r, step), Ready(r)'
  PROVE  LocalTypeOK' /\ \A q \in Requests : Ready(q)'
<1>1. LocalTypeOK'
  BY DEF TypeOK, LocalTypeOK, Continue, Goto
<1> QED
  BY <1>1, OthersReady DEF TypeOK, Continue, Goto

LEMMA ReadReady ==
  ASSUME TypeOK, NEW r \in Requests, NEW value \in SprintLink \cup Nat, NEW step \in Steps,
         Read(r, value, step), Ready(r)'
  PROVE  LocalTypeOK' /\ \A q \in Requests : Ready(q)'
<1>1. LocalTypeOK'
  BY DEF TypeOK, LocalTypeOK, Read, Goto
<1> QED
  BY <1>1, OthersReady DEF TypeOK, Read, Goto

(***************************************************************************)
(* What one step of the system can do to the tables, and with what in hand.*)
(***************************************************************************)
WritesTodo(id, row) ==
  /\ row \in TodoRow
  /\ SprintRef(row.sprint) \/ (id \in Live(todos) /\ row.sprint = todos[id].sprint)
  /\ PutTodo(id, row)

WritesItem(id, row) ==
  /\ row \in ItemRow
  /\ row.sprint \in sprints \/ (id \in Live(items) /\ row.sprint = items[id].sprint)
  /\ PutItem(id, row)

WritesEntries(set) ==
  /\ \A entry \in set : entry \in entries \/ (entry \in Entry /\ entry[1] \in Live(habits))
  /\ SetEntries(set)

Rewritten(w, r) == {IF row.week = w THEN [row EXCEPT !.by = r] ELSE row : row \in reviews}

WritesReview(r, w) ==
  \/ ~WeekFree(w) /\ SetReviews(Rewritten(w, r))
  \/ WeekFree(w) /\ SetReviews(reviews \cup {[week |-> w, by |-> r]})

MovesCurrent ==
  /\ current' \in sprints \cup {Absent}
  /\ UNCHANGED <<todos, habits, entries, reviews, items, sprints, events>>

EventOf(r) == [by |-> r, sprint |-> IF call[r].op = "item" THEN call[r].sprint ELSE seen[r]]

LEMMA EventType ==
  ASSUME TypeOK, NEW r \in Requests, pc[r] = "event"
  PROVE  EventOf(r) \in Event /\ EventOf(r).sprint \in SprintIds
<1>1. call[r] \in Calls /\ call[r].op \in {"item", "item_toggle"}
      /\ (call[r].op = "item_toggle" => seen[r] \in SprintIds)
  BY DEF TypeOK, Ready
<1>2. call[r].op = "item" => call[r].sprint \in SprintIds
  BY <1>1, CallFields
<1> QED
  BY <1>1, <1>2 DEF EventOf, Event, SprintLink

TodoSteps ==
  \/ \E id \in TodoIds, row \in TodoRow : WritesTodo(id, row)
  \/ \E id \in TodoIds : PutTodo(id, Absent)

HabitSteps ==
  \/ \E id \in HabitIds, row \in HabitRow : PutHabit(id, row)
  \/ \E set : WritesEntries(set)

ItemSteps ==
  \/ \E id \in ItemIds, row \in ItemRow : WritesItem(id, row)
  \/ \E id \in ItemIds : PutItem(id, Absent)
  \/ \E event \in Event : AppendEvent(event)

ReviewSteps == \E r \in Requests, w \in Weeks : WritesReview(r, w)

LEMMA TodoWork ==
  ASSUME TypeOK, NEW r \in Requests, ~Refuse(r),
         TodoSprint(r) \/ CreateTodo(r) \/ UpdateTodoStatus(r) \/ DeleteTodo(r)
  PROVE  UNCHANGED store \/ TodoSteps
<1>1. CASE TodoSprint(r)
  BY <1>1 DEF TodoSprint, Read
<1>2. CASE CreateTodo(r)
  <2>1. seen[r] \in SprintLink /\ SprintRef(seen[r])
    BY <1>2 DEF CreateTodo, At, TypeOK, Ready
  <2>2. PICK id \in TodoIds : PutTodo(id, [sprint |-> seen[r], status |-> "open"])
    BY <1>2 DEF CreateTodo
  <2>3. [sprint |-> seen[r], status |-> "open"] \in TodoRow
    BY <2>1 DEF TodoRow, Status
  <2> QED
    BY <2>1, <2>2, <2>3 DEF TodoSteps, WritesTodo
<1>3. CASE UpdateTodoStatus(r)
  <2> DEFINE id == call[r].id
             row == [todos[id] EXCEPT !.status = call[r].status]
  <2>1. id \in TodoIds /\ call[r].status \in Status
    BY <1>3, CallFields DEF UpdateTodoStatus, At, TypeOK, Ready
  <2>2. id \in Live(todos) /\ PutTodo(id, row)
    BY <1>3 DEF UpdateTodoStatus
  <2>3. todos[id] \in TodoRow
    BY <2>1, <2>2 DEF Live, TypeOK
  <2>4. row \in TodoRow /\ row.sprint = todos[id].sprint
    BY <2>1, <2>3 DEF TodoRow
  <2> HIDE DEF row
  <2> QED
    BY <2>1, <2>2, <2>4 DEF TodoSteps, WritesTodo
<1>4. CASE DeleteTodo(r)
  <2>1. call[r].id \in TodoIds
    BY <1>4, CallFields DEF DeleteTodo, At, TypeOK, Ready
  <2> QED
    BY <1>4, <2>1 DEF DeleteTodo, TodoSteps
<1> QED
  BY <1>1, <1>2, <1>3, <1>4

LEMMA HabitWork ==
  ASSUME TypeOK, NEW r \in Requests, ~Refuse(r),
         CreateHabit(r) \/ CountEntries(r) \/ ToggleHabitEntry(r) \/ ArchiveHabit(r)
  PROVE  UNCHANGED store \/ HabitSteps
<1>1. CASE CreateHabit(r)
  BY <1>1 DEF CreateHabit, HabitSteps, HabitRow
<1>2. CASE CountEntries(r)
  BY <1>2 DEF CountEntries, Read
<1>3. CASE ToggleHabitEntry(r)
  <2>1. call[r].id \in HabitIds /\ call[r].date \in Dates
    BY <1>3, CallFields DEF ToggleHabitEntry, At, TypeOK, Ready
  <2>2. CASE SetEntries(entries \ {Marked(r)})
    BY <2>2 DEF WritesEntries, HabitSteps
  <2>3. CASE call[r].id \in Live(habits) /\ SetEntries(entries \cup {Marked(r)})
    <3>1. Marked(r) \in Entry /\ Marked(r)[1] \in Live(habits)
      BY <2>1, <2>3 DEF Marked, Entry
    <3> QED
      BY <2>3, <3>1 DEF WritesEntries, HabitSteps
  <2> QED
    BY <1>3, <2>2, <2>3 DEF ToggleHabitEntry
<1>4. CASE ArchiveHabit(r)
  <2>1. call[r].id \in HabitIds
    BY <1>4, CallFields DEF ArchiveHabit, At, TypeOK, Ready
  <2> QED
    BY <1>4, <2>1 DEF ArchiveHabit, HabitSteps, HabitRow
<1> QED
  BY <1>1, <1>2, <1>3, <1>4

LEMMA ReviewWork ==
  ASSUME TypeOK, NEW r \in Requests, ~Refuse(r),
         UpdateReview(r) \/ InsertReview(r) \/ GetWeeklyReview(r)
  PROVE  UNCHANGED store \/ (WritesReview(r, seen[r]) /\ seen[r] \in Weeks)
<1>1. seen[r] \in Weeks
  BY CallFields DEF UpdateReview, InsertReview, GetWeeklyReview, At, TypeOK, Ready, InFlight, Steps
<1> QED
  BY <1>1 DEF UpdateReview, InsertReview, GetWeeklyReview, WritesReview, Rewritten

LEMMA ItemWork ==
  ASSUME TypeOK, NEW r \in Requests, ~Refuse(r),
         \/ PickOrder(r) \/ CreateDeliverable(r) \/ ReadDone(r) \/ ToggleDeliverable(r)
         \/ GetDeliverable(r) \/ DeleteDeliverable(r) \/ LogEvent(r)
  PROVE  UNCHANGED store \/ ItemSteps
<1>1. CASE PickOrder(r) \/ ReadDone(r) \/ GetDeliverable(r)
  BY <1>1 DEF PickOrder, ReadDone, GetDeliverable, Read
<1>2. CASE CreateDeliverable(r)
  <2> DEFINE row == [sprint |-> call[r].sprint, done |-> 0, order |-> seen[r]]
  <2>1. call[r].sprint \in sprints /\ seen[r] \in Nat
    BY <1>2 DEF CreateDeliverable, At, TypeOK, Ready
  <2>2. row \in ItemRow
    BY <2>1 DEF ItemRow, TypeOK
  <2>3. PICK id \in ItemIds : PutItem(id, row)
    BY <1>2 DEF CreateDeliverable
  <2> QED
    BY <2>1, <2>2, <2>3 DEF WritesItem, ItemSteps
<1>3. CASE ToggleDeliverable(r)
  <2> DEFINE id == call[r].id
             row == [items[id] EXCEPT !.done = seen[r]]
  <2>1. id \in ItemIds /\ seen[r] \in {0, 1}
    BY <1>3, CallFields DEF ToggleDeliverable, At, TypeOK, Ready
  <2>2. CASE id \in Live(items)
    <3>1. items[id] \in ItemRow
      BY <2>1, <2>2 DEF Live, TypeOK
    <3>2. row \in ItemRow /\ row.sprint = items[id].sprint
      BY <2>1, <3>1 DEF ItemRow
    <3>3. PutItem(id, row)
      BY <1>3, <2>2 DEF ToggleDeliverable
    <3> HIDE DEF row
    <3> QED
      BY <2>1, <2>2, <3>2, <3>3 DEF WritesItem, ItemSteps
  <2>3. CASE id \notin Live(items)
    BY <1>3, <2>3 DEF ToggleDeliverable
  <2> QED
    BY <2>2, <2>3
<1>4. CASE DeleteDeliverable(r)
  <2>1. call[r].id \in ItemIds
    BY <1>4, CallFields DEF DeleteDeliverable, At, TypeOK, Ready
  <2> QED
    BY <1>4, <2>1 DEF DeleteDeliverable, ItemSteps
<1>5. CASE LogEvent(r)
  BY <1>5, EventType DEF LogEvent, EventOf, ItemSteps
<1> QED
  BY <1>1, <1>2, <1>3, <1>4, <1>5

LEMMA StoreSteps ==
  ASSUME TypeOK, [Next]_vars
  PROVE  \/ UNCHANGED store
         \/ TodoSteps \/ HabitSteps \/ ItemSteps \/ ReviewSteps
         \/ \E s \in SprintIds : SprintDeleted(s)
         \/ MovesCurrent
<1>1. ASSUME NEW r \in Requests, Refuse(r) \/ Interrupt(r) PROVE UNCHANGED store
  BY <1>1 DEF Refuse, Interrupt
<1>2. ASSUME NEW r \in Requests, NEW c \in Calls, Arrive(r, c) PROVE UNCHANGED store
  BY <1>2 DEF Arrive
<1>3. ASSUME NEW r \in Requests, Work(r), ~Refuse(r)
      PROVE  UNCHANGED store \/ TodoSteps \/ HabitSteps \/ ItemSteps \/ ReviewSteps
  BY <1>3, TodoWork, HabitWork, ItemWork, ReviewWork DEF Work, ReviewSteps
<1>4. ASSUME Elsewhere PROVE MovesCurrent \/ \E s \in SprintIds : SprintDeleted(s)
  BY <1>4 DEF Elsewhere, MovesCurrent, TypeOK
<1>5. ASSUME WeekPasses PROVE UNCHANGED store
  BY <1>5 DEF WeekPasses
<1> QED
  BY <1>1, <1>2, <1>3, <1>4, <1>5 DEF Next, vars, store

(***************************************************************************)
(* Type correctness, which here includes that no handler reaches a store   *)
(* call without the values it passes to it.                                *)
(***************************************************************************)
LEMMA StepStoreTypeOK ==
  ASSUME TypeOK, [Next]_vars
  PROVE  StoreTypeOK'
<1> USE DEF TypeOK, StoreTypeOK
<1>1. CASE UNCHANGED store
  BY <1>1 DEF store
<1>2. ASSUME NEW id \in TodoIds, NEW row \in TodoRow \cup {Absent}, PutTodo(id, row)
      PROVE  StoreTypeOK'
  BY <1>2 DEF PutTodo
<1>3. ASSUME NEW id \in HabitIds, NEW row \in HabitRow, PutHabit(id, row) PROVE StoreTypeOK'
  BY <1>3 DEF PutHabit
<1>4. ASSUME NEW set, WritesEntries(set) PROVE StoreTypeOK'
  BY <1>4 DEF WritesEntries, SetEntries
<1>5. ASSUME NEW id \in ItemIds, NEW row \in ItemRow \cup {Absent}, PutItem(id, row)
      PROVE  StoreTypeOK'
  BY <1>5 DEF PutItem
<1>6. ASSUME NEW event \in Event, AppendEvent(event) PROVE StoreTypeOK'
  BY <1>6 DEF AppendEvent
<1>7. ASSUME NEW r \in Requests, NEW w \in Weeks, WritesReview(r, w) PROVE StoreTypeOK'
  <2>1. Rewritten(w, r) \subseteq ReviewRow
    BY DEF Rewritten, ReviewRow
  <2>2. [week |-> w, by |-> r] \in ReviewRow
    BY DEF ReviewRow
  <2> QED
    BY <1>7, <2>1, <2>2 DEF WritesReview, SetReviews
<1>8. ASSUME NEW s \in SprintIds, SprintDeleted(s) PROVE StoreTypeOK'
  <2>1. \A row \in TodoRow : [row EXCEPT !.sprint = Absent] \in TodoRow
    BY DEF TodoRow, SprintLink
  <2>2. todos' \in [TodoIds -> TodoRow \cup {Absent}]
    BY <1>8, <2>1 DEF SprintDeleted
  <2>3. events' \subseteq Event
    BY <1>8 DEF SprintDeleted, Event, SprintLink
  <2>4. items' \in [ItemIds -> ItemRow \cup {Absent}]
    BY <1>8 DEF SprintDeleted
  <2> QED
    BY <1>8, <2>2, <2>3, <2>4 DEF SprintDeleted
<1>9. CASE MovesCurrent
  BY <1>9 DEF MovesCurrent
<1>10. TodoSteps \/ HabitSteps \/ ItemSteps => StoreTypeOK'
  BY <1>2, <1>3, <1>4, <1>5, <1>6 DEF TodoSteps, HabitSteps, ItemSteps, WritesTodo, WritesItem
<1> QED
  BY <1>1, <1>7, <1>8, <1>9, <1>10, StoreSteps DEF ReviewSteps

(***************************************************************************)
(* Each action leaves every handler with what its next step needs.         *)
(***************************************************************************)
LEMMA StepReady ==
  ASSUME TypeOK, NEW r \in Requests, Work(r)
  PROVE  LocalTypeOK' /\ \A q \in Requests : Ready(q)'
<1> DEFINE Good == LocalTypeOK' /\ \A q \in Requests : Ready(q)'
<1>0. pc[r] \in Steps
  BY DEF Work, At, Steps, TodoSprint, CreateTodo, UpdateTodoStatus, DeleteTodo, CreateHabit,
     CountEntries, ToggleHabitEntry, ArchiveHabit, UpdateReview, InsertReview, GetWeeklyReview,
     PickOrder, CreateDeliverable, ReadDone, ToggleDeliverable, GetDeliverable,
     DeleteDeliverable, LogEvent
<1>1. ASSUME NEW how \in Ends, End(r, how) PROVE Good
  BY <1>0, <1>1, EndReady DEF Steps
<1>2. CASE Refuse(r)
  BY <1>1, <1>2 DEF Refuse, Ends
<1>3. CASE \/ CreateTodo(r) \/ UpdateTodoStatus(r) \/ DeleteTodo(r) \/ CreateHabit(r)
           \/ ToggleHabitEntry(r) \/ ArchiveHabit(r) \/ InsertReview(r) \/ GetWeeklyReview(r)
           \/ DeleteDeliverable(r) \/ LogEvent(r)
  BY <1>1, <1>2, <1>3 DEF Ends, CreateTodo, UpdateTodoStatus, DeleteTodo, CreateHabit,
     ToggleHabitEntry, ArchiveHabit, InsertReview, GetWeeklyReview, DeleteDeliverable, LogEvent
<1>4. CASE TodoSprint(r)
  <2>1. current \in SprintLink
    BY DEF TypeOK, SprintLink
  <2>2. Ready(r)'
    BY <1>4, <2>1 DEF TodoSprint, At, Read, Goto, TypeOK, Ready, InFlight
  <2> QED
    BY <1>4, <2>1, <2>2, ReadReady DEF TodoSprint, Steps
<1>5. CASE CountEntries(r)
  <2>1. PICK n \in {0, 1} : Read(r, n, "write")
    BY <1>5 DEF CountEntries
  <2>2. Ready(r)'
    BY <1>5, <2>1 DEF CountEntries, At, Read, Goto, TypeOK, Ready, InFlight
  <2> QED
    BY <2>1, <2>2, ReadReady DEF Steps
<1>6. CASE UpdateReview(r)
  <2>1. seen[r] = call[r].week /\ call[r] \in Calls /\ call[r].op = "review"
    BY <1>6 DEF UpdateReview, At, TypeOK, Ready, InFlight, Steps
  <2>2. PICK step \in {"insert", "readback"} : Continue(r, step)
    BY <1>6 DEF UpdateReview
  <2>3. Ready(r)'
    BY <2>1, <2>2 DEF Continue, Goto, TypeOK, Ready, InFlight
  <2> QED
    BY <2>2, <2>3, ContinueReady DEF Steps
<1>7. CASE PickOrder(r)
  <2>1. PICK n \in {0} \cup {m + 1 : m \in OrdersOf(call[r].sprint)} : Read(r, n, "write")
    BY <1>7 DEF PickOrder
  <2>2. n \in Nat
    <3>1. OrdersOf(call[r].sprint) \subseteq Nat
      BY DEF OrdersOf, Live, TypeOK, ItemRow
    <3> QED
      BY <3>1
  <2>3. Ready(r)'
    BY <1>7, <2>1, <2>2 DEF PickOrder, At, Read, Goto, TypeOK, Ready, InFlight
  <2> QED
    BY <2>1, <2>2, <2>3, ReadReady DEF Steps
<1>8. CASE CreateDeliverable(r) /\ ~Refuse(r)
  <2>1. Ready(r)'
    BY <1>8 DEF CreateDeliverable, At, Continue, Goto, TypeOK, Ready, InFlight
  <2> QED
    BY <1>8, <2>1, ContinueReady DEF CreateDeliverable, Steps
<1>9. CASE ReadDone(r) /\ ~Refuse(r)
  <2>1. call[r].id \in ItemIds
    BY <1>9, CallFields DEF ReadDone, At, TypeOK, Ready
  <2>2. 1 - items[call[r].id].done \in {0, 1} /\ Read(r, 1 - items[call[r].id].done, "write")
    BY <1>9, <2>1 DEF ReadDone, Live, TypeOK, ItemRow
  <2> DEFINE n == 1 - items[call[r].id].done
  <2>3. n \in {0, 1} /\ Read(r, n, "write")
    BY <2>2
  <2> HIDE DEF n
  <2>4. Ready(r)'
    BY <1>9, <2>3 DEF ReadDone, At, Read, Goto, TypeOK, Ready, InFlight
  <2> QED
    BY <2>3, <2>4, ReadReady DEF Steps
<1>10. CASE ToggleDeliverable(r)
  <2>1. Ready(r)'
    BY <1>10 DEF ToggleDeliverable, At, Continue, Goto, TypeOK, Ready, InFlight
  <2> QED
    BY <1>10, <2>1, ContinueReady DEF ToggleDeliverable, Steps
<1>11. CASE GetDeliverable(r) /\ ~Refuse(r)
  <2>1. call[r].id \in ItemIds
    BY <1>11, CallFields DEF GetDeliverable, At, TypeOK, Ready
  <2> DEFINE s == items[call[r].id].sprint
  <2>2. s \in SprintIds /\ Read(r, s, "event")
    BY <1>11, <2>1 DEF GetDeliverable, Live, TypeOK, ItemRow
  <2> HIDE DEF s
  <2>3. Ready(r)'
    BY <1>11, <2>2 DEF GetDeliverable, At, Read, Goto, TypeOK, Ready, InFlight
  <2> QED
    BY <2>2, <2>3, ReadReady DEF Steps, SprintLink
<1> QED
  BY <1>2, <1>3, <1>4, <1>5, <1>6, <1>7, <1>8, <1>9, <1>10, <1>11 DEF Work

LEMMA ArriveReady ==
  ASSUME TypeOK, NEW r \in Requests, NEW c \in Calls, Arrive(r, c)
  PROVE  LocalTypeOK' /\ \A q \in Requests : Ready(q)'
<1>1. FirstStep(c) \in {"current", "count", "max", "read", "write"}
  BY DEF FirstStep
<1>2. /\ FirstStep(c) = "current" => c.op = "todo"
      /\ FirstStep(c) = "count" => c.op = "habit_toggle"
      /\ FirstStep(c) = "max" => c.op = "item"
      /\ FirstStep(c) = "read" => c.op = "item_toggle"
      /\ FirstStep(c) = "write" => c.op \notin {"todo", "habit_toggle", "item", "item_toggle"}
  BY DEF FirstStep
<1>3. /\ pc'[r] = FirstStep(c) /\ call'[r] = c
      /\ seen'[r] = IF c.op = "review" THEN c.week ELSE Absent
  BY DEF Arrive, TypeOK
<1>4. c.op = "review" => c.week \in Nat
  BY WeeksAssumption, CallFields
<1>5. LocalTypeOK'
  BY <1>1, <1>4 DEF Arrive, TypeOK, LocalTypeOK, Steps, SprintLink
<1>6. Ready(r)'
  BY <1>1, <1>2, <1>3, <1>4 DEF Ready, InFlight
<1> QED
  BY <1>5, <1>6, OthersReady DEF Arrive, TypeOK

LEMMA StepTypeOK ==
  ASSUME TypeOK, [Next]_vars
  PROVE  TypeOK'
<1>1. StoreTypeOK' /\ overlap' \in BOOLEAN /\ week' \in Weeks
  <2>1. overlap' = overlap
    BY DEF Next, vars
  <2>2. week' \in Weeks
    BY DEF Next, vars, WeekPasses, TypeOK
  <2> QED
    BY <2>1, <2>2, StepStoreTypeOK DEF TypeOK
<1>2. LocalTypeOK' /\ \A q \in Requests : Ready(q)'
  <2>1. ASSUME UNCHANGED locals PROVE LocalTypeOK' /\ \A q \in Requests : Ready(q)'
    BY <2>1 DEF locals, TypeOK, LocalTypeOK, Ready, InFlight
  <2>2. CASE UNCHANGED vars \/ Elsewhere \/ WeekPasses
    BY <2>1, <2>2 DEF vars, locals, Elsewhere, WeekPasses
  <2>3. ASSUME NEW r \in Requests, NEW c \in Calls, Arrive(r, c)
        PROVE  LocalTypeOK' /\ \A q \in Requests : Ready(q)'
    BY <2>3, ArriveReady
  <2>4. ASSUME NEW r \in Requests, Interrupt(r)
        PROVE  LocalTypeOK' /\ \A q \in Requests : Ready(q)'
    BY <2>4, EndReady DEF Interrupt, InFlight, Steps, Ends
  <2> QED
    BY <2>2, <2>3, <2>4, StepReady DEF Next
<1> QED
  BY <1>1, <1>2 DEF TypeOK, StoreTypeOK, LocalTypeOK

\* The tables of the planner keep the shape the migrations give them, and every
\* handler that calls the store has the values the statement needs.
THEOREM TypeCorrect == Spec => []TypeOK
<1>1. Init => TypeOK
  BY WeeksAssumption DEF Init, TypeOK, None, Ready, InFlight, Steps, SprintLink
<1> QED
  BY <1>1, StepTypeOK, PTL DEF Spec

(***************************************************************************)
(* References.                                                             *)
(***************************************************************************)
LEMMA StepLinks ==
  ASSUME TypeOK, LinksAreLive, [Next]_vars
  PROVE  LinksAreLive'
<1> USE DEF LinksAreLive, SprintRef, Live
<1>1. CASE UNCHANGED store
  BY <1>1 DEF store
<1>2. CASE TodoSteps
  BY <1>2 DEF TodoSteps, WritesTodo, PutTodo, TypeOK
<1>3. CASE HabitSteps
  <2>1. ASSUME NEW id \in HabitIds, NEW row \in HabitRow, PutHabit(id, row) PROVE LinksAreLive'
    <3>1. row # Absent
      BY AbsentAssumption
    <3> QED
      BY <2>1, <3>1 DEF PutHabit, TypeOK
  <2>2. ASSUME NEW set, WritesEntries(set) PROVE LinksAreLive'
    BY <2>2 DEF WritesEntries, SetEntries
  <2> QED
    BY <1>3, <2>1, <2>2 DEF HabitSteps
<1>4. CASE ItemSteps
  <2>1. ASSUME NEW id \in ItemIds, NEW row \in ItemRow, WritesItem(id, row) PROVE LinksAreLive'
    BY <2>1 DEF WritesItem, PutItem, TypeOK
  <2>2. ASSUME NEW id \in ItemIds, PutItem(id, Absent) PROVE LinksAreLive'
    BY <2>2 DEF PutItem, TypeOK
  <2>3. ASSUME NEW event \in Event, AppendEvent(event) PROVE LinksAreLive'
    BY <2>3 DEF AppendEvent
  <2> QED
    BY <1>4, <2>1, <2>2, <2>3 DEF ItemSteps
<1>5. CASE ReviewSteps
  BY <1>5 DEF ReviewSteps, WritesReview, SetReviews
<1>6. ASSUME NEW s \in SprintIds, SprintDeleted(s) PROVE LinksAreLive'
  <2>1. \A id \in Live(todos)' : SprintRef(todos[id].sprint)'
    <3> SUFFICES ASSUME NEW id \in TodoIds, todos'[id] # Absent
                 PROVE  todos'[id].sprint = Absent \/ todos'[id].sprint \in sprints'
      BY <1>6 DEF SprintDeleted
    <3>1. todos[id] # Absent /\ todos[id] \in TodoRow
      BY <1>6 DEF SprintDeleted, TypeOK
    <3>2. CASE todos[id].sprint = s
      BY <1>6, <3>1, <3>2 DEF SprintDeleted, TodoRow
    <3>3. CASE todos[id].sprint # s
      BY <1>6, <3>1, <3>3 DEF SprintDeleted, TypeOK
    <3> QED
      BY <3>2, <3>3
  <2>2. \A id \in Live(items)' : items'[id].sprint \in sprints'
    BY <1>6 DEF SprintDeleted, TypeOK
  <2>3. \A e \in events' : SprintRef(e.sprint)'
    <3> SUFFICES ASSUME NEW f \in events' PROVE f.sprint = Absent \/ f.sprint \in sprints'
      OBVIOUS
    <3>1. PICK e \in events : f = IF e.sprint = s THEN [e EXCEPT !.sprint = Absent] ELSE e
      BY <1>6 DEF SprintDeleted
    <3>2. e \in Event /\ SprintRef(e.sprint)
      BY DEF TypeOK
    <3> QED
      BY <1>6, <3>1, <3>2 DEF SprintDeleted, Event
  <2>4. \A entry \in entries' : entry[1] \in Live(habits)'
    BY <1>6 DEF SprintDeleted
  <2> QED
    BY <2>1, <2>2, <2>3, <2>4
<1>7. CASE MovesCurrent
  BY <1>7 DEF MovesCurrent
<1> QED
  BY <1>1, <1>2, <1>3, <1>4, <1>5, <1>6, <1>7, StoreSteps

\* No to-do, deliverable or event refers to a sprint that is gone, and no mark to
\* a habit that is not there, however old what the handlers have read.
THEOREM AlwaysLinksAreLive == Spec => []LinksAreLive
<1>1. Init => LinksAreLive
  BY DEF Init, LinksAreLive, Live, None
<1> QED
  BY <1>1, StepLinks, TypeCorrect, PTL DEF Spec

(***************************************************************************)
(* What a request leaves alone, and where it goes.                         *)
(***************************************************************************)
LEMMA WorkFrame ==
  ASSUME TypeOK, NEW r \in Requests, Work(r) \/ Interrupt(r)
  PROVE  /\ InFlight(r) /\ call' = call
         /\ \A q \in Requests \ {r} : pc'[q] = pc[q] /\ seen'[q] = seen[q]
<1> DEFINE Frame == call' = call /\ \A q \in Requests \ {r} : pc'[q] = pc[q] /\ seen'[q] = seen[q]
<1>1. ASSUME NEW how, End(r, how) PROVE Frame
  BY <1>1 DEF End, Goto, TypeOK
<1>2. ASSUME NEW step, Continue(r, step) PROVE Frame
  BY <1>2 DEF Continue, Goto, TypeOK
<1>3. ASSUME NEW value, NEW step, Read(r, value, step) PROVE Frame
  BY <1>3 DEF Read, Goto, TypeOK
<1> HIDE DEF Frame
<1>4. Refuse(r) \/ Interrupt(r) => Frame
  BY <1>1 DEF Refuse, Interrupt
<1>5. TodoSprint(r) \/ CreateTodo(r) \/ UpdateTodoStatus(r) \/ DeleteTodo(r) => Frame
  BY <1>1, <1>3, <1>4 DEF TodoSprint, CreateTodo, UpdateTodoStatus, DeleteTodo
<1>6. CreateHabit(r) \/ CountEntries(r) \/ ToggleHabitEntry(r) \/ ArchiveHabit(r) => Frame
  BY <1>1, <1>3, <1>4 DEF CreateHabit, CountEntries, ToggleHabitEntry, ArchiveHabit
<1>7. UpdateReview(r) \/ InsertReview(r) \/ GetWeeklyReview(r) => Frame
  BY <1>1, <1>2, <1>4 DEF UpdateReview, InsertReview, GetWeeklyReview
<1>8. PickOrder(r) \/ CreateDeliverable(r) \/ ReadDone(r) \/ ToggleDeliverable(r) => Frame
  BY <1>2, <1>3, <1>4 DEF PickOrder, CreateDeliverable, ReadDone, ToggleDeliverable
<1>9. GetDeliverable(r) \/ DeleteDeliverable(r) \/ LogEvent(r) => Frame
  BY <1>1, <1>3, <1>4 DEF GetDeliverable, DeleteDeliverable, LogEvent
<1>10. InFlight(r)
  BY DEF Work, Interrupt, InFlight, At, Steps, TodoSprint, CreateTodo, UpdateTodoStatus, DeleteTodo,
     CreateHabit, CountEntries, ToggleHabitEntry, ArchiveHabit, UpdateReview, InsertReview,
     GetWeeklyReview, PickOrder, CreateDeliverable, ReadDone, ToggleDeliverable, GetDeliverable,
     DeleteDeliverable, LogEvent
<1> QED
  BY <1>4, <1>5, <1>6, <1>7, <1>8, <1>9, <1>10 DEF Frame, Work

\* A request that has changed its table goes on to its end and does not forget it.
LEMMA WorkKeepsApplied ==
  ASSUME TypeOK, NEW r \in Requests, Work(r) \/ Interrupt(r), Written(r)
  PROVE  pc'[r] \in {"event", "answered", "partial", "late"}
<1>1. \A how \in Ends : End(r, how) => pc'[r] = how
  BY DEF End, Goto, TypeOK
<1>2. Refuse(r) \/ Interrupt(r) => pc'[r] \in {"partial", "late"}
  BY <1>1 DEF Refuse, Interrupt, Ends
<1>3. GetWeeklyReview(r) \/ LogEvent(r) => pc'[r] \in {"answered", "partial", "late"}
  BY <1>1, <1>2 DEF GetWeeklyReview, LogEvent, Ends
<1>4. GetDeliverable(r) => pc'[r] \in {"event", "partial", "late"}
  BY <1>2 DEF GetDeliverable, Read, Goto, TypeOK
<1>5. Work(r) => GetWeeklyReview(r) \/ LogEvent(r) \/ GetDeliverable(r)
  BY DEF Written, Work, At, TodoSprint, CreateTodo, UpdateTodoStatus, DeleteTodo,
     CreateHabit, CountEntries, ToggleHabitEntry, ArchiveHabit, UpdateReview, InsertReview,
     PickOrder, CreateDeliverable, ReadDone, ToggleDeliverable, DeleteDeliverable
<1> QED
  BY <1>2, <1>3, <1>4, <1>5

LEMMA AppliedGrows ==
  ASSUME TypeOK, [Next]_vars
  PROVE  Applied \subseteq Applied'
<1> SUFFICES ASSUME NEW q \in Applied PROVE q \in Applied'
  OBVIOUS
<1> DEFINE Done(p) == p \in {"readback", "event", "answered", "partial", "late"}
<1>1. q \in Requests /\ Done(pc[q])
  BY DEF Applied, Written
<1>2. ASSUME Done(pc'[q]), call'[q] = call[q] PROVE q \in Applied'
  BY <1>1, <1>2 DEF Applied, Written
<1>3. ASSUME NEW r \in Requests, NEW c \in Calls, Arrive(r, c) PROVE q \in Applied'
  <2>1. q # r /\ pc'[q] = pc[q] /\ call'[q] = call[q]
    BY <1>1, <1>3 DEF Arrive, TypeOK
  <2> QED
    BY <1>1, <1>2, <2>1
<1>4. ASSUME NEW r \in Requests, Work(r) \/ Interrupt(r) PROVE q \in Applied'
  <2>1. InFlight(r) /\ call' = call /\ (q # r => pc'[q] = pc[q])
    BY <1>1, <1>4, WorkFrame
  <2>2. q = r => Written(r)
    BY <1>1, <2>1 DEF Written, InFlight, Steps
  <2>3. q = r => Done(pc'[q])
    BY <1>4, <2>2, WorkKeepsApplied
  <2> QED
    BY <1>1, <1>2, <2>1, <2>3
<1>5. CASE Elsewhere \/ WeekPasses \/ UNCHANGED vars
  BY <1>1, <1>2, <1>5 DEF Elsewhere, WeekPasses, locals, vars
<1> QED
  BY <1>3, <1>4, <1>5 DEF Next

\* The request that writes a review has done so.
LEMMA ReviewApplied ==
  ASSUME TypeOK, NEW r \in Requests, Work(r), reviews' # reviews
  PROVE  r \in Applied' /\ WritesReview(r, seen[r]) /\ seen[r] \in Weeks
<1>1. ~Refuse(r)
  BY DEF Refuse, store
<1>2. UpdateReview(r) \/ InsertReview(r) \/ GetWeeklyReview(r)
  <2>1. TodoSteps \/ HabitSteps \/ ItemSteps \/ UNCHANGED store => reviews' = reviews
    BY DEF TodoSteps, HabitSteps, ItemSteps, WritesTodo, WritesEntries, WritesItem, PutTodo,
       PutHabit, PutItem, SetEntries, AppendEvent, store
  <2> QED
    BY <1>1, <2>1, TodoWork, HabitWork, ItemWork DEF Work
<1>3. WritesReview(r, seen[r]) /\ seen[r] \in Weeks
  BY <1>1, <1>2, ReviewWork DEF store
<1>4. call'[r] = call[r] /\ call[r].op = "review"
  BY <1>2, WorkFrame DEF UpdateReview, InsertReview, GetWeeklyReview, At
<1>5. pc'[r] \in {"readback", "answered"}
  <2>1. UpdateReview(r) => Continue(r, "readback")
    BY DEF UpdateReview, store
  <2>2. InsertReview(r) \/ GetWeeklyReview(r) => End(r, "answered")
    BY <1>1 DEF InsertReview, GetWeeklyReview
  <2> QED
    BY <1>2, <2>1, <2>2 DEF Continue, End, Goto, TypeOK
<1> QED
  BY <1>3, <1>4, <1>5 DEF Applied, Written

LEMMA StepReviews ==
  ASSUME TypeOK, OneReviewPerWeek, [Next]_vars
  PROVE  OneReviewPerWeek'
<1>1. CASE reviews' = reviews
  BY <1>1, AppliedGrows DEF OneReviewPerWeek
<1>2. ASSUME NEW r \in Requests, Work(r), reviews' # reviews PROVE OneReviewPerWeek'
  <2>1. r \in Applied' /\ WritesReview(r, seen[r]) /\ seen[r] \in Weeks
    BY <1>2, ReviewApplied
  <2>2. CASE reviews' = Rewritten(seen[r], r)
    <3>1. ASSUME NEW a \in reviews'
          PROVE  \E b \in reviews : a = IF b.week = seen[r] THEN [b EXCEPT !.by = r] ELSE b
      BY <2>2 DEF Rewritten
    <3>2. \A b \in reviews : b \in ReviewRow
      BY DEF TypeOK
    <3>3. ASSUME NEW a \in reviews', NEW d \in reviews', a.week = d.week PROVE a = d
      <4>1. PICK b \in reviews : a = IF b.week = seen[r] THEN [b EXCEPT !.by = r] ELSE b
        BY <3>1
      <4>2. PICK e \in reviews : d = IF e.week = seen[r] THEN [e EXCEPT !.by = r] ELSE e
        BY <3>1
      <4>3. b.week = a.week /\ e.week = d.week
        BY <3>2, <4>1, <4>2 DEF ReviewRow
      <4>4. b = e
        BY <3>3, <4>3 DEF OneReviewPerWeek
      <4> QED
        BY <4>1, <4>2, <4>4
    <3>4. ASSUME NEW a \in reviews' PROVE a.by \in Applied'
      <4>1. PICK b \in reviews : a = IF b.week = seen[r] THEN [b EXCEPT !.by = r] ELSE b
        BY <3>1
      <4>2. a.by = r \/ a.by = b.by
        BY <3>2, <4>1 DEF ReviewRow
      <4> QED
        BY <2>1, <4>2, AppliedGrows DEF OneReviewPerWeek
    <3> QED
      BY <3>3, <3>4 DEF OneReviewPerWeek
  <2>3. CASE WeekFree(seen[r]) /\ reviews' = reviews \cup {[week |-> seen[r], by |-> r]}
    BY <2>1, <2>3, AppliedGrows DEF OneReviewPerWeek, WeekFree
  <2> QED
    BY <2>1, <2>2, <2>3 DEF WritesReview, SetReviews
<1>3. ASSUME NEW r \in Requests, Interrupt(r) \/ \E c \in Calls : Arrive(r, c)
      PROVE  reviews' = reviews
  BY <1>3 DEF Interrupt, Arrive, store
<1>4. CASE Elsewhere \/ WeekPasses \/ UNCHANGED vars
  BY <1>1, <1>4 DEF Elsewhere, SprintDeleted, WeekPasses, store, vars
<1> QED
  BY <1>1, <1>2, <1>3, <1>4 DEF Next

\* A week has one review, whatever saves overlap, and none is left by a save that
\* was refused or cut off.
THEOREM AlwaysOneReviewPerWeek == Spec => []OneReviewPerWeek
<1>1. Init => OneReviewPerWeek
  BY DEF Init, OneReviewPerWeek
<1> QED
  BY <1>1, StepReviews, TypeCorrect, PTL DEF Spec

(***************************************************************************)
(* Requests in turn.                                                       *)
(*                                                                         *)
(* At most one is in flight, and nothing moves under it: the place it has  *)
(* picked is beyond every place of the list, and the sprint of the event   *)
(* it is going to append is there.                                         *)
(***************************************************************************)
OneAtATime == \A q, r \in Requests : InFlight(q) /\ InFlight(r) => q = r

Apart ==
  \A i, j \in Live(items) :
    items[i].sprint = items[j].sprint /\ items[i].order = items[j].order => i = j

InHand(r) ==
  /\ At(r, "item", "write") =>
       \A id \in Live(items) : items[id].sprint = call[r].sprint => items[id].order < seen[r]
  /\ pc[r] = "event" => EventOf(r).sprint \in sprints

Recorded(r) ==
  pc[r] = "answered" /\ call[r].op \in {"item", "item_toggle"} => \E e \in events : e.by = r

TurnInv == OneAtATime /\ Apart /\ \A r \in Requests : InHand(r) /\ Recorded(r)

\* No statement takes an event away from who caused it.
LEMMA EventsStay ==
  ASSUME TypeOK, [Next]_vars, NEW e \in events
  PROVE  \E f \in events' : f.by = e.by
<1>1. CASE events' = events
  BY <1>1
<1>2. ASSUME NEW event, AppendEvent(event) PROVE e \in events'
  BY <1>2 DEF AppendEvent
<1>3. ASSUME NEW s, SprintDeleted(s) PROVE \E f \in events' : f.by = e.by
  <2>1. (IF e.sprint = s THEN [e EXCEPT !.sprint = Absent] ELSE e) \in events'
    BY <1>3 DEF SprintDeleted
  <2>2. e \in Event
    BY DEF TypeOK
  <2> QED
    BY <2>1, <2>2 DEF Event
<1>4. TodoSteps \/ HabitSteps \/ ItemSteps \/ ReviewSteps \/ MovesCurrent \/ UNCHANGED store
      => events' = events \/ \E event \in Event : AppendEvent(event)
  BY DEF TodoSteps, HabitSteps, ItemSteps, ReviewSteps, WritesTodo, WritesEntries, WritesItem,
     WritesReview, PutTodo, PutHabit, PutItem, SetEntries, SetReviews, MovesCurrent, store
<1> QED
  BY <1>1, <1>2, <1>3, <1>4, StoreSteps

LEMMA WorkEnds ==
  ASSUME TypeOK, NEW r \in Requests, Work(r) \/ Interrupt(r),
         pc'[r] = "answered", call[r].op \in {"item", "item_toggle"}
  PROVE  LogEvent(r)
<1>1. ~Refuse(r) /\ ~Interrupt(r)
  BY DEF Refuse, Interrupt, End, Goto, TypeOK
<1>2. \/ PickOrder(r) \/ CreateDeliverable(r) \/ ReadDone(r) \/ ToggleDeliverable(r)
      \/ GetDeliverable(r) \/ LogEvent(r)
  BY <1>1 DEF Work, At, TodoSprint, CreateTodo, UpdateTodoStatus, DeleteTodo, CreateHabit,
     CountEntries, ToggleHabitEntry, ArchiveHabit, UpdateReview, InsertReview, GetWeeklyReview,
     DeleteDeliverable
<1>3. ASSUME NEW value, Read(r, value, "write") \/ Read(r, value, "event") PROVE FALSE
  BY <1>3 DEF Read, Goto, TypeOK
<1>4. ~Continue(r, "event") /\ ~Continue(r, "readback")
  BY DEF Continue, Goto, TypeOK
<1> QED
  BY <1>1, <1>2, <1>3, <1>4
  DEF PickOrder, CreateDeliverable, ReadDone, ToggleDeliverable, GetDeliverable

\* What one request does to the list, to what it holds and to the record.
LEMMA WorkInTurn ==
  ASSUME TypeOK, LinksAreLive, TurnInv, NEW r \in Requests, Work(r) \/ Interrupt(r)
  PROVE  Apart' /\ InHand(r)' /\ Recorded(r)'
<1>1. ASSUME UNCHANGED items PROVE Apart'
  BY <1>1 DEF TurnInv, Apart, Live
<1>2. call'[r] = call[r]
  BY WorkFrame
<1>3. ASSUME pc'[r] \notin {"write", "event"} PROVE InHand(r)'
  BY <1>3 DEF InHand, At
<1>4. ASSUME pc'[r] # "answered" PROVE Recorded(r)'
  BY <1>4 DEF Recorded
<1>5. ASSUME call[r].op \notin {"item", "item_toggle"} PROVE InHand(r)' /\ Recorded(r)'
  <2>1. pc'[r] # "event"
    <3>1. Ready(r)'
      BY EndReady, StepReady DEF Interrupt, InFlight, Steps, Ends
    <3> QED
      BY <1>2, <1>5, <3>1 DEF Ready
  <2> QED
    BY <1>2, <1>5, <2>1 DEF InHand, Recorded, At
<1>6. CASE Refuse(r) \/ Interrupt(r)
  <2>1. items' = items /\ pc'[r] \in {"partial", "refused", "cut", "late"}
    BY <1>6 DEF Refuse, Interrupt, End, Goto, TypeOK, store
  <2> QED
    BY <1>1, <1>3, <1>4, <2>1
<1>7. CASE \/ TodoSprint(r) \/ CreateTodo(r) \/ UpdateTodoStatus(r) \/ DeleteTodo(r)
           \/ CreateHabit(r) \/ CountEntries(r) \/ ToggleHabitEntry(r) \/ ArchiveHabit(r)
           \/ UpdateReview(r) \/ InsertReview(r) \/ GetWeeklyReview(r)
  <2>1. call[r].op \notin {"item", "item_toggle"}
    BY <1>7 DEF At, TodoSprint, CreateTodo, UpdateTodoStatus, DeleteTodo, CreateHabit,
       CountEntries, ToggleHabitEntry, ArchiveHabit, UpdateReview, InsertReview, GetWeeklyReview
  <2>2. CASE ~Refuse(r)
    <3>1. UNCHANGED store \/ TodoSteps \/ HabitSteps \/ ReviewSteps
      BY <1>7, <2>2, TodoWork, HabitWork, ReviewWork DEF ReviewSteps
    <3>2. items' = items
      BY <3>1 DEF store, TodoSteps, HabitSteps, ReviewSteps, WritesTodo, WritesEntries,
         WritesReview, PutTodo, PutHabit, SetEntries, SetReviews
    <3> QED
      BY <1>1, <1>5, <2>1, <3>2
  <2> QED
    BY <1>6, <2>2
<1>8. CASE PickOrder(r)
  <2>1. PICK n : NextOrder(call[r].sprint, n) /\ Read(r, n, "write")
    BY <1>8 DEF PickOrder
  <2>2. pc'[r] = "write" /\ seen'[r] = n /\ items' = items
    BY <2>1 DEF Read, Goto, TypeOK, store
  <2>3. \A id \in Live(items) : items[id].sprint = call[r].sprint => items[id].order < n
    BY <2>1 DEF NextOrder, OrdersOf
  <2>4. InHand(r)'
    BY <1>2, <2>2, <2>3 DEF InHand, Live
  <2> QED
    BY <1>1, <1>4, <2>2, <2>4
<1>9. CASE CreateDeliverable(r) /\ ~Refuse(r)
  <2> DEFINE s == call[r].sprint
             new == [sprint |-> s, done |-> 0, order |-> seen[r]]
  <2>1. PICK k \in ItemIds : PutItem(k, new)
    BY <1>9 DEF CreateDeliverable
  <2>2. s \in sprints /\ call[r].op = "item" /\ pc'[r] = "event"
    BY <1>9 DEF CreateDeliverable, At, Continue, Goto, TypeOK
  <2>3. \A id \in Live(items) : items[id].sprint = s => items[id].order < seen[r]
    BY <1>9 DEF CreateDeliverable, TurnInv, InHand
  <2>4. \A id \in Live(items) : items[id].order \in Nat
    BY DEF Live, TypeOK, ItemRow
  <2>5. seen[r] \in Nat
    BY <1>9 DEF CreateDeliverable, At, TypeOK, Ready
  <2>6. \A x \in Live(items') : x = k \/ (x \in Live(items) /\ items'[x] = items[x])
    BY <2>1 DEF PutItem, Live, TypeOK
  <2>7. items'[k].sprint = s /\ items'[k].order = seen[r]
    BY <2>1 DEF PutItem, TypeOK
  <2>8. Apart'
    BY <2>3, <2>4, <2>5, <2>6, <2>7 DEF TurnInv, Apart
  <2>9. InHand(r)'
    BY <1>2, <2>1, <2>2 DEF InHand, At, EventOf, PutItem
  <2> QED
    BY <1>4, <2>2, <2>8, <2>9
<1>10. CASE ReadDone(r) /\ ~Refuse(r)
  <2>1. items' = items /\ pc'[r] = "write" /\ call[r].op = "item_toggle"
    BY <1>10 DEF ReadDone, At, Read, Goto, TypeOK, store
  <2> QED
    BY <1>1, <1>2, <1>4, <2>1 DEF InHand, At
<1>11. CASE ToggleDeliverable(r)
  <2>1. pc'[r] = "readback"
    BY <1>11 DEF ToggleDeliverable, Continue, Goto, TypeOK
  <2>2. \A x \in Live(items') : /\ x \in Live(items)
                                /\ items'[x].sprint = items[x].sprint
                                /\ items'[x].order = items[x].order
    BY <1>11 DEF ToggleDeliverable, PutItem, Live, TypeOK, ItemRow, store
  <2>3. Apart'
    BY <2>2 DEF TurnInv, Apart
  <2> QED
    BY <1>3, <1>4, <2>1, <2>3
<1>12. CASE GetDeliverable(r) /\ ~Refuse(r)
  <2>1. call[r].id \in Live(items) /\ Read(r, items[call[r].id].sprint, "event")
        /\ call[r].op = "item_toggle"
    BY <1>12 DEF GetDeliverable, At
  <2>2. items[call[r].id].sprint \in sprints
    BY <2>1 DEF LinksAreLive
  <2>3. pc'[r] = "event" /\ seen'[r] = items[call[r].id].sprint /\ UNCHANGED <<items, sprints>>
    BY <2>1 DEF Read, Goto, TypeOK, store
  <2>4. InHand(r)'
    BY <1>2, <2>1, <2>2, <2>3 DEF InHand, At, EventOf
  <2> QED
    BY <1>1, <1>4, <2>3, <2>4
<1>13. CASE DeleteDeliverable(r) /\ ~Refuse(r)
  <2>1. call[r].op = "item_delete" /\ PutItem(call[r].id, Absent)
    BY <1>13 DEF DeleteDeliverable, At
  <2>2. \A x \in Live(items') : x \in Live(items) /\ items'[x] = items[x]
    BY <2>1 DEF PutItem, Live, TypeOK
  <2> QED
    BY <1>5, <2>1, <2>2 DEF TurnInv, Apart
<1>14. CASE LogEvent(r)
  <2>1. AppendEvent(EventOf(r)) /\ SprintRef(EventOf(r).sprint) /\ pc'[r] = "answered"
    BY <1>14 DEF LogEvent, EventOf, TurnInv, InHand, SprintRef, End, Goto, TypeOK
  <2>2. EventOf(r) \in events' /\ items' = items
    BY <2>1 DEF AppendEvent
  <2>3. EventOf(r).by = r
    BY DEF EventOf
  <2>4. Recorded(r)'
    BY <2>2, <2>3 DEF Recorded
  <2> QED
    BY <1>1, <1>3, <2>1, <2>2, <2>4
<1> QED
  BY <1>6, <1>7, <1>8, <1>9, <1>10, <1>11, <1>12, <1>13, <1>14 DEF Work

LEMMA StepTurn ==
  ASSUME TypeOK, LinksAreLive, ~overlap, TurnInv, [Next]_vars
  PROVE  TurnInv'
<1>0. ASSUME NEW q \in Requests, pc'[q] = pc[q], call'[q] = call[q] PROVE Recorded(q)'
  BY <1>0, EventsStay DEF TurnInv, Recorded
<1>1. CASE UNCHANGED vars \/ WeekPasses
  BY <1>1 DEF vars, WeekPasses, locals, store, TurnInv, OneAtATime, Apart, InHand, Recorded, At,
     EventOf, InFlight, Live
<1>2. ASSUME NEW r \in Requests, Work(r) \/ Interrupt(r) PROVE TurnInv'
  <2>1. /\ InFlight(r) /\ call' = call
        /\ \A q \in Requests \ {r} : pc'[q] = pc[q] /\ seen'[q] = seen[q] /\ ~InFlight(q)
    BY <1>2, WorkFrame DEF TurnInv, OneAtATime
  <2>2. OneAtATime'
    BY <2>1 DEF OneAtATime, InFlight
  <2>3. \A q \in Requests \ {r} : InHand(q)' /\ Recorded(q)'
    BY <1>0, <2>1 DEF InHand, At, InFlight, Steps
  <2> QED
    BY <1>2, <2>2, <2>3, WorkInTurn DEF TurnInv
<1>3. ASSUME NEW r \in Requests, NEW c \in Calls, Arrive(r, c) PROVE TurnInv'
  <2>1. Quiet /\ UNCHANGED <<items, events>> /\ pc'[r] = FirstStep(c) /\ call'[r] = c
        /\ \A q \in Requests \ {r} : pc'[q] = pc[q] /\ call'[q] = call[q]
    BY <1>3 DEF Arrive, TypeOK, store
  <2>2. FirstStep(c) \notin {"event", "answered"} /\ (c.op = "item" => FirstStep(c) # "write")
    BY DEF FirstStep
  <2>3. OneAtATime'
    BY <2>1 DEF OneAtATime, Quiet, InFlight
  <2>4. \A q \in Requests : InHand(q)' /\ Recorded(q)'
    BY <1>0, <2>1, <2>2 DEF InHand, At, Recorded, Quiet, InFlight, Steps
  <2>5. Apart'
    BY <2>1 DEF TurnInv, Apart, Live
  <2> QED
    BY <2>3, <2>4, <2>5 DEF TurnInv
<1>4. CASE Elsewhere
  <2>1. Quiet /\ UNCHANGED <<pc, call, seen>>
    BY <1>4 DEF Elsewhere, locals
  <2>2. \A x \in Live(items)' : x \in Live(items) /\ items'[x] = items[x]
    BY <1>4 DEF Elsewhere, SprintDeleted, Live, TypeOK
  <2>3. Apart'
    BY <2>2 DEF TurnInv, Apart
  <2>4. \A q \in Requests : InHand(q)' /\ Recorded(q)'
    BY <1>0, <2>1 DEF InHand, At, Quiet, InFlight, Steps
  <2> QED
    BY <2>1, <2>3, <2>4 DEF TurnInv, OneAtATime, Quiet, InFlight
<1> QED
  BY <1>1, <1>2, <1>3, <1>4 DEF Next

LEMMA InTurnInv == Spec => [](~overlap => TurnInv)
<1>1. Init => TurnInv
  BY DEF Init, TurnInv, OneAtATime, Apart, InHand, Recorded, At, InFlight, Steps, Live, None
<1>2. TypeOK /\ LinksAreLive /\ (~overlap => TurnInv) /\ [Next]_vars => (~overlap => TurnInv)'
  <2>1. [Next]_vars => overlap' = overlap
    BY DEF Next, vars
  <2> QED
    BY <2>1, StepTurn
<1> QED
  BY <1>1, <1>2, TypeCorrect, AlwaysLinksAreLive, PTL DEF Spec

\* When requests come in turn, the deliverables of a sprint never share a place,
\* whatever is deleted between them and wherever a request is cut off.
THEOREM SerialOrdersDiffer == Spec => []OrdersDiffer
<1>1. (~overlap => TurnInv) => OrdersDiffer
  BY DEF TurnInv, Apart, OrdersDiffer
<1> QED
  BY <1>1, InTurnInv, PTL

\* When requests come in turn, an addition or toggle of a deliverable answered within
\* its context has its event: the foreign key does not refuse it.
THEOREM SerialAnsweredIsRecorded == Spec => []AnsweredIsRecorded
<1>1. (~overlap => TurnInv) => AnsweredIsRecorded
  BY DEF TurnInv, Recorded, AnsweredIsRecorded
<1> QED
  BY <1>1, InTurnInv, PTL

(***************************************************************************)
(* The refinement of Planner.                                              *)
(*                                                                         *)
(* In turn, what a toggle has read is still so when it writes.             *)
(***************************************************************************)
Fresh(r) ==
  /\ At(r, "habit_toggle", "write") => seen[r] = IF Marked(r) \in entries THEN 1 ELSE 0
  /\ At(r, "item_toggle", "write") =>
       call[r].id \in Live(items) /\ seen[r] = 1 - items[call[r].id].done

shown == <<entries, Ticks, Pages, Applied>>

LEMMA TheReview ==
  ASSUME NEW S, \A a, b \in S : a.week = b.week => a = b, NEW row \in S
  PROVE  (CHOOSE c \in S : c.week = row.week) = row
<1> DEFINE c == CHOOSE c \in S : c.week = row.week
<1>1. c \in S /\ c.week = row.week
  OBVIOUS
<1> HIDE DEF c
<1> QED
  BY <1>1

\* Writing a review changes the page of its week and no other.
LEMMA PageWritten ==
  ASSUME TypeOK, OneReviewPerWeek, OneReviewPerWeek', NEW r \in Requests, NEW w \in Weeks,
         WritesReview(r, w)
  PROVE  Pages' = [Pages EXCEPT ![w] = r]
<1>1. ASSUME NEW row \in reviews PROVE Review(row.week) = row.by
  BY <1>1, TheReview DEF Review, WeekFree, OneReviewPerWeek
<1>2. ASSUME NEW row \in reviews' PROVE Review(row.week)' = row.by
  BY <1>2, TheReview DEF Review, WeekFree, OneReviewPerWeek
<1>3. \A row \in reviews : row \in ReviewRow
  BY DEF TypeOK
<1>4. \E row \in reviews' : row.week = w /\ row.by = r
  <2>1. CASE reviews' = Rewritten(w, r) /\ ~WeekFree(w)
    <3>1. PICK row \in reviews : row.week = w
      BY <2>1 DEF WeekFree
    <3>2. [row EXCEPT !.by = r] \in reviews'
      BY <2>1, <3>1 DEF Rewritten
    <3> QED
      BY <1>3, <3>1, <3>2 DEF ReviewRow
  <2>2. CASE reviews' = reviews \cup {[week |-> w, by |-> r]}
    <3>1. [week |-> w, by |-> r] \in reviews'
      BY <2>2
    <3> QED
      BY <3>1
  <2> QED
    BY <2>1, <2>2 DEF WritesReview, SetReviews
<1>5. ASSUME NEW v \in Weeks, v # w PROVE Review(v)' = Review(v)
  <2>1. \A row \in reviews : row.week = v => row \in reviews'
    BY <1>5 DEF WritesReview, SetReviews, Rewritten
  <2>2. \A row \in reviews' : row.week = v => row \in reviews
    BY <1>3, <1>5 DEF WritesReview, SetReviews, Rewritten, ReviewRow
  <2>3. CASE WeekFree(v)
    BY <2>2, <2>3 DEF Review, WeekFree
  <2>4. CASE ~WeekFree(v)
    <3>1. PICK row \in reviews : row.week = v
      BY <2>4 DEF WeekFree
    <3> QED
      BY <1>1, <1>2, <2>1, <3>1
  <2> QED
    BY <2>3, <2>4
<1> QED
  BY <1>2, <1>4, <1>5 DEF Pages

Flips(c) == c.op \in {"habit_toggle", "item_toggle", "review"}
Done(step) == step \in {"readback", "event", "answered", "partial", "late"}

LEMMA AppliedAfter ==
  ASSUME TypeOK, NEW r \in Requests, Work(r) \/ Interrupt(r)
  PROVE  /\ Applied' = IF Flips(call[r]) /\ Done(pc'[r]) THEN Applied \cup {r} ELSE Applied \ {r}
         /\ r \in Applied <=> Flips(call[r]) /\ Written(r)
<1>1. Applied = {q \in Requests : Flips(call[q]) /\ Done(pc[q])}
  BY DEF Applied, Flips, Done, Written
<1>2. Applied' = {q \in Requests : Flips(call'[q]) /\ Done(pc'[q])}
  BY DEF Applied, Flips, Done, Written
<1>3. InFlight(r) /\ call' = call /\ \A q \in Requests \ {r} : pc'[q] = pc[q]
  BY WorkFrame
<1> QED
  BY <1>1, <1>2, <1>3 DEF InFlight, Steps, Done, Written

LEMMA SameShown ==
  ASSUME TypeOK, UNCHANGED <<entries, reviews, Ticks>>, Applied' = Applied
  PROVE  UNCHANGED shown
BY DEF shown, Pages, Review, WeekFree

\* A request of another kind does nothing the planner shows, but for a deletion.
LEMMA OthersShow ==
  ASSUME TypeOK, NEW r \in Requests, Work(r), ~Refuse(r), ~Flips(call[r])
  PROVE  Plan!Next \/ UNCHANGED shown
<1>1. Applied' = Applied
  BY AppliedAfter
<1>2. \/ TodoSprint(r) \/ CreateTodo(r) \/ UpdateTodoStatus(r) \/ DeleteTodo(r) \/ CreateHabit(r)
      \/ ArchiveHabit(r) \/ PickOrder(r) \/ CreateDeliverable(r) \/ DeleteDeliverable(r) \/ LogEvent(r)
  BY DEF Work, Flips, At, CountEntries, ToggleHabitEntry, UpdateReview, InsertReview,
     GetWeeklyReview, ReadDone, ToggleDeliverable, GetDeliverable
<1>3. ASSUME UNCHANGED <<entries, reviews, items>> PROVE UNCHANGED shown
  BY <1>1, <1>3, SameShown DEF Ticks, Live
<1>4. CASE TodoSprint(r) \/ CreateTodo(r) \/ UpdateTodoStatus(r) \/ DeleteTodo(r)
  BY <1>3, <1>4 DEF TodoSprint, CreateTodo, UpdateTodoStatus, DeleteTodo, Read, PutTodo, store
<1>5. CASE CreateHabit(r) \/ ArchiveHabit(r) \/ PickOrder(r) \/ LogEvent(r)
  BY <1>3, <1>5 DEF CreateHabit, ArchiveHabit, PickOrder, LogEvent, Read, PutHabit, AppendEvent, store
<1>6. CASE CreateDeliverable(r)
  <2> DEFINE new == [sprint |-> call[r].sprint, done |-> 0, order |-> seen[r]]
  <2>1. PICK k \in ItemIds : NextId(Live(items), k) /\ PutItem(k, new)
    BY <1>6 DEF CreateDeliverable
  <2>2. k \notin Live(items)
    BY <2>1, IdsAssumption DEF NextId
  <2>3. items' = [items EXCEPT ![k] = new] /\ UNCHANGED <<entries, reviews>>
    BY <2>1 DEF PutItem
  <2>4. new.done = 0
    OBVIOUS
  <2> HIDE DEF new
  <2>5. Ticks' = Ticks
    BY <2>2, <2>3, <2>4 DEF Ticks, Live, TypeOK
  <2> QED
    BY <1>1, <2>3, <2>5, SameShown
<1>7. CASE DeleteDeliverable(r)
  <2>1. PutItem(call[r].id, Absent)
    BY <1>7 DEF DeleteDeliverable
  <2>2. Ticks' \subseteq Ticks /\ UNCHANGED <<entries, reviews>>
    BY <2>1 DEF PutItem, Ticks, Live, TypeOK
  <2>3. Pages' = Pages
    BY <2>2 DEF Pages, Review, WeekFree
  <2> QED
    BY <1>1, <2>2, <2>3 DEF Plan!Next, Plan!Discard
<1> QED
  BY <1>2, <1>4, <1>5, <1>6, <1>7

LEMMA TogglesShow ==
  ASSUME TypeOK, NEW r \in Requests, Fresh(r), ~Refuse(r),
         \/ CountEntries(r) \/ ToggleHabitEntry(r)
         \/ ReadDone(r) \/ ToggleDeliverable(r) \/ GetDeliverable(r)
         \/ LogEvent(r) /\ Flips(call[r])
  PROVE  Plan!Next \/ UNCHANGED shown
<1>1. Work(r) /\ Flips(call[r])
  BY DEF Work, Flips, At, CountEntries, ToggleHabitEntry, ReadDone, ToggleDeliverable, GetDeliverable
<1>2. ASSUME UNCHANGED <<entries, reviews, items>>, Done(pc'[r]) <=> Written(r)
      PROVE  UNCHANGED shown
  BY <1>1, <1>2, AppliedAfter, SameShown DEF Ticks, Live
<1>3. CASE CountEntries(r) \/ ReadDone(r)
  <2>1. PICK n : Read(r, n, "write")
    BY <1>3 DEF CountEntries, ReadDone
  <2>2. pc'[r] = "write" /\ ~Written(r) /\ UNCHANGED store
    BY <1>3, <2>1 DEF Read, Goto, TypeOK, Written, At, CountEntries, ReadDone
  <2> QED
    BY <1>2, <2>2 DEF Done, store
<1>4. CASE GetDeliverable(r) \/ LogEvent(r)
  <2>1. pc'[r] \in {"event", "answered"} /\ Written(r) /\ UNCHANGED <<entries, reviews, items>>
    BY <1>4 DEF GetDeliverable, LogEvent, Read, End, Goto, TypeOK, Written, At, AppendEvent, store
  <2> QED
    BY <1>2, <2>1 DEF Done
<1>5. CASE ToggleHabitEntry(r)
  <2>1. call[r].id \in HabitIds /\ call[r].date \in Dates
    BY <1>5, CallFields DEF ToggleHabitEntry, At, TypeOK, Ready
  <2>2. call[r].op = "habit_toggle" /\ Marked(r) = <<call[r].id, call[r].date>>
    BY <1>5 DEF ToggleHabitEntry, At, Marked
  <2>3. pc'[r] = "answered" /\ ~Written(r)
    BY <1>5 DEF ToggleHabitEntry, End, Goto, TypeOK, Written, At
  <2>4. r \notin Applied /\ Applied' = Applied \cup {r}
    BY <1>1, <2>3, AppliedAfter DEF Done
  <2>5. entries' = Plan!Flipped(entries, Marked(r)) /\ UNCHANGED <<items, reviews>>
    BY <1>5 DEF ToggleHabitEntry, SetEntries, Fresh, Plan!Flipped
  <2>6. UNCHANGED <<Ticks, Pages>>
    BY <2>5 DEF Ticks, Live, Pages, Review, WeekFree
  <2>7. Plan!FlipDay(Marked(r))
    BY <2>5, <2>6 DEF Plan!FlipDay
  <2> QED
    BY <2>2, <2>4, <2>7 DEF Plan!Next, Plan!Apply
<1>6. CASE ToggleDeliverable(r)
  <2> DEFINE id == call[r].id
  <2>1. id \in Live(items) /\ id \in ItemIds /\ seen[r] = 1 - items[id].done
    BY <1>6 DEF ToggleDeliverable, Fresh, Live, TypeOK
  <2>2. items[id] \in ItemRow
    BY <2>1 DEF Live, TypeOK
  <2>3. items[id].done \in {0, 1} /\ [items[id] EXCEPT !.done = seen[r]].done = seen[r]
        /\ [items[id] EXCEPT !.done = seen[r]] # Absent
    BY <2>1, <2>2, AbsentAssumption DEF ItemRow
  <2>4. items' = [items EXCEPT ![id] = [items[id] EXCEPT !.done = seen[r]]]
        /\ UNCHANGED <<entries, reviews>>
    BY <1>6, <2>1 DEF ToggleDeliverable, PutItem
  <2>5. pc'[r] = "readback" /\ ~Written(r)
    BY <1>6 DEF ToggleDeliverable, Continue, Goto, TypeOK, Written, At
  <2>6. r \notin Applied /\ Applied' = Applied \cup {r}
    BY <1>1, <2>5, AppliedAfter DEF Done
  <2>7. id \in Ticks' <=> id \notin Ticks
    BY <2>1, <2>3, <2>4 DEF Ticks, Live, TypeOK
  <2>8. \A x : x # id => (x \in Ticks' <=> x \in Ticks)
    BY <2>4 DEF Ticks, Live, TypeOK
  <2>9. Ticks' = Plan!Flipped(Ticks, id)
    BY <2>7, <2>8 DEF Plan!Flipped
  <2>10. Plan!FlipItem(id) /\ call[r].op = "item_toggle"
    BY <1>6, <2>4, <2>9 DEF Plan!FlipItem, Pages, Review, WeekFree, ToggleDeliverable, At
  <2> QED
    BY <2>1, <2>6, <2>10 DEF Plan!Next, Plan!Apply
<1> QED
  BY <1>3, <1>4, <1>5, <1>6

LEMMA ReviewsShow ==
  ASSUME TypeOK, OneReviewPerWeek, OneReviewPerWeek', NEW r \in Requests, ~Refuse(r),
         UpdateReview(r) \/ InsertReview(r) \/ GetWeeklyReview(r)
  PROVE  Plan!Next \/ UNCHANGED shown
<1>1. Work(r) /\ Flips(call[r])
  BY DEF Work, Flips, At, UpdateReview, InsertReview, GetWeeklyReview
<1>2. UNCHANGED <<entries, items>>
  BY ReviewWork DEF WritesReview, SetReviews, store
<1>3. UNCHANGED Ticks
  BY <1>2 DEF Ticks, Live
<1>4. ASSUME ~Written(r), Done(pc'[r]), NEW w \in Weeks, WritesReview(r, w),
             w = call[r].week, call[r].op = "review"
      PROVE  Plan!Next
  <2>1. r \notin Applied /\ Applied' = Applied \cup {r}
    BY <1>1, <1>4, AppliedAfter
  <2>2. Plan!Write(r, w)
    BY <1>2, <1>3, <1>4, PageWritten DEF Plan!Write
  <2> QED
    BY <1>4, <2>1, <2>2 DEF Plan!Next, Plan!Apply
<1>5. ASSUME UNCHANGED reviews, Done(pc'[r]) <=> Written(r) PROVE UNCHANGED shown
  BY <1>1, <1>2, <1>3, <1>5, AppliedAfter, SameShown
<1>6. seen[r] \in Weeks /\ seen[r] = call[r].week /\ call[r].op = "review"
  BY CallFields DEF UpdateReview, InsertReview, GetWeeklyReview, At, TypeOK, Ready, InFlight, Steps
<1>7. CASE UpdateReview(r)
  <2>1. ~Written(r)
    BY <1>7 DEF UpdateReview, At, Written
  <2>2. CASE WeekFree(seen[r])
    <3>1. pc'[r] = "insert" /\ UNCHANGED reviews
      BY <1>7, <2>2 DEF UpdateReview, Continue, Goto, TypeOK, store
    <3> QED
      BY <1>5, <2>1, <3>1 DEF Done
  <2>3. CASE ~WeekFree(seen[r])
    <3>1. pc'[r] = "readback" /\ WritesReview(r, seen[r])
      BY <1>7, <2>3 DEF UpdateReview, Continue, Goto, TypeOK, WritesReview, Rewritten
    <3> QED
      BY <1>4, <1>6, <2>1, <3>1 DEF Done
  <2> QED
    BY <2>2, <2>3
<1>8. CASE InsertReview(r)
  <2>1. ~Written(r) /\ pc'[r] = "answered" /\ WritesReview(r, seen[r])
    BY <1>8 DEF InsertReview, At, Written, End, Goto, TypeOK, WritesReview
  <2> QED
    BY <1>4, <1>6, <2>1 DEF Done
<1>9. CASE GetWeeklyReview(r)
  <2>1. Written(r) /\ pc'[r] = "answered" /\ UNCHANGED reviews
    BY <1>9 DEF GetWeeklyReview, At, Written, End, Goto, TypeOK, store
  <2> QED
    BY <1>5, <2>1 DEF Done
<1> QED
  BY <1>7, <1>8, <1>9

LEMMA StepShows ==
  ASSUME TypeOK, OneReviewPerWeek, OneReviewPerWeek', \A r \in Requests : Fresh(r), [Next]_vars
  PROVE  Plan!Next \/ UNCHANGED shown
<1>1. ASSUME UNCHANGED store, Applied' = Applied PROVE UNCHANGED shown
  BY <1>1 DEF store, shown, Ticks, Live, Pages, Review, WeekFree
<1>2. ASSUME NEW r \in Requests, (Refuse(r) /\ Work(r)) \/ Interrupt(r) PROVE UNCHANGED shown
  <2>1. /\ pc'[r] \in {"partial", "refused", "cut", "late"} /\ UNCHANGED store
        /\ pc'[r] \in {"partial", "late"} <=> Written(r)
    BY <1>2 DEF Refuse, Interrupt, End, Goto, TypeOK, Written
  <2> QED
    BY <1>1, <1>2, <2>1, AppliedAfter DEF Done
<1>3. ASSUME NEW r \in Requests, Work(r), ~Refuse(r) PROVE Plan!Next \/ UNCHANGED shown
  <2>1. CASE ~Flips(call[r])
    BY <1>3, <2>1, OthersShow
  <2>2. CASE Flips(call[r])
    <3>1. \/ CountEntries(r) \/ ToggleHabitEntry(r) \/ ReadDone(r) \/ ToggleDeliverable(r)
          \/ GetDeliverable(r) \/ LogEvent(r)
          \/ UpdateReview(r) \/ InsertReview(r) \/ GetWeeklyReview(r)
      BY <1>3, <2>2 DEF Work, Flips, At, TodoSprint, CreateTodo, UpdateTodoStatus, DeleteTodo,
         CreateHabit, ArchiveHabit, PickOrder, CreateDeliverable, DeleteDeliverable
    <3> QED
      BY <1>3, <2>2, <3>1, TogglesShow, ReviewsShow
  <2> QED
    BY <2>1, <2>2
<1>4. ASSUME NEW r \in Requests, NEW c \in Calls, Arrive(r, c) PROVE UNCHANGED shown
  <2>1. pc[r] = "idle" /\ UNCHANGED store /\ pc'[r] = FirstStep(c)
        /\ \A q \in Requests \ {r} : pc'[q] = pc[q] /\ call'[q] = call[q]
    BY <1>4 DEF Arrive, TypeOK
  <2>2. FirstStep(c) \in {"current", "count", "max", "read", "write"}
    BY DEF FirstStep
  <2>3. Applied' = Applied
    BY <2>1, <2>2 DEF Applied, Written
  <2> QED
    BY <1>1, <2>1, <2>3
<1>5. CASE Elsewhere
  <2>1. Applied' = Applied
    BY <1>5 DEF Elsewhere, locals, Applied, Written
  <2>2. Ticks' \subseteq Ticks /\ UNCHANGED <<entries, reviews>>
    BY <1>5 DEF Elsewhere, SprintDeleted, Ticks, Live, TypeOK
  <2>3. Pages' = Pages
    BY <2>2 DEF Pages, Review, WeekFree
  <2> QED
    BY <2>1, <2>2, <2>3 DEF Plan!Next, Plan!Discard
<1>6. CASE WeekPasses \/ UNCHANGED vars
  <2>1. Applied' = Applied /\ UNCHANGED store
    BY <1>6 DEF WeekPasses, locals, vars, store, Applied, Written
  <2> QED
    BY <1>1, <2>1
<1> QED
  BY <1>2, <1>3, <1>4, <1>5, <1>6 DEF Next

FreshInv == OneAtATime /\ \A r \in Requests : Fresh(r)

LEMMA WorkFresh ==
  ASSUME TypeOK, NEW r \in Requests, Work(r) \/ Interrupt(r)
  PROVE  Fresh(r)'
<1>1. call'[r] = call[r]
  BY WorkFrame
<1>2. ASSUME pc'[r] # "write" PROVE Fresh(r)'
  BY <1>2 DEF Fresh, At
<1>3. ASSUME NEW how \in Ends, End(r, how) PROVE Fresh(r)'
  <2>1. pc'[r] # "write"
    BY <1>3 DEF End, Goto, TypeOK, Ends
  <2> QED
    BY <1>2, <2>1
<1>4. CASE Refuse(r) \/ Interrupt(r)
  BY <1>3, <1>4 DEF Refuse, Interrupt, Ends
<1>5. CASE \/ CreateTodo(r) \/ UpdateTodoStatus(r) \/ DeleteTodo(r) \/ CreateHabit(r)
           \/ ToggleHabitEntry(r) \/ ArchiveHabit(r) \/ InsertReview(r) \/ GetWeeklyReview(r)
           \/ DeleteDeliverable(r) \/ LogEvent(r)
  BY <1>3, <1>4, <1>5 DEF Ends, CreateTodo, UpdateTodoStatus, DeleteTodo, CreateHabit,
     ToggleHabitEntry, ArchiveHabit, InsertReview, GetWeeklyReview, DeleteDeliverable, LogEvent
<1>6. CASE TodoSprint(r) \/ PickOrder(r)
  <2>1. call[r].op \in {"todo", "item"}
    BY <1>6 DEF TodoSprint, PickOrder, At
  <2> QED
    BY <1>1, <2>1 DEF Fresh, At
<1>7. CASE CountEntries(r)
  <2>1. call[r].op = "habit_toggle" /\ entries' = entries
        /\ seen'[r] = IF Marked(r) \in entries THEN 1 ELSE 0
    BY <1>7 DEF CountEntries, At, Read, TypeOK, store
  <2> QED
    BY <1>1, <2>1 DEF Fresh, At, Marked
<1>8. CASE ReadDone(r) /\ ~Refuse(r)
  <2>1. call[r].op = "item_toggle" /\ items' = items /\ call[r].id \in Live(items)
        /\ seen'[r] = 1 - items[call[r].id].done
    BY <1>8 DEF ReadDone, At, Read, TypeOK, store
  <2> QED
    BY <1>1, <2>1 DEF Fresh, At, Live
<1>9. CASE (UpdateReview(r) \/ CreateDeliverable(r) \/ ToggleDeliverable(r) \/ GetDeliverable(r))
           /\ ~Refuse(r)
  <2>1. pc'[r] # "write"
    BY <1>9 DEF UpdateReview, CreateDeliverable, ToggleDeliverable, GetDeliverable, Continue,
       Read, Goto, TypeOK
  <2> QED
    BY <1>2, <2>1
<1> QED
  BY <1>4, <1>5, <1>6, <1>7, <1>8, <1>9 DEF Work

LEMMA StepFresh ==
  ASSUME TypeOK, ~overlap, FreshInv, [Next]_vars
  PROVE  FreshInv'
<1>1. ASSUME NEW q \in Requests, pc'[q] = pc[q], ~InFlight(q) PROVE Fresh(q)'
  BY <1>1 DEF Fresh, At, InFlight, Steps
<1>2. ASSUME NEW r \in Requests, Work(r) \/ Interrupt(r) PROVE FreshInv'
  <2>1. InFlight(r) /\ \A q \in Requests \ {r} : pc'[q] = pc[q] /\ ~InFlight(q)
    BY <1>2, WorkFrame DEF FreshInv, OneAtATime
  <2>2. OneAtATime'
    BY <2>1 DEF OneAtATime, InFlight
  <2> QED
    BY <1>1, <1>2, <2>1, <2>2, WorkFresh DEF FreshInv
<1>3. ASSUME NEW r \in Requests, NEW c \in Calls, Arrive(r, c) PROVE FreshInv'
  <2>1. Quiet /\ pc'[r] = FirstStep(c) /\ call'[r] = c /\ \A q \in Requests \ {r} : pc'[q] = pc[q]
    BY <1>3 DEF Arrive, TypeOK
  <2>2. c.op \in {"habit_toggle", "item_toggle"} => FirstStep(c) # "write"
    BY DEF FirstStep
  <2>3. Fresh(r)'
    BY <2>1, <2>2 DEF Fresh, At
  <2>4. OneAtATime'
    BY <2>1 DEF OneAtATime, Quiet, InFlight
  <2> QED
    BY <1>1, <2>1, <2>3, <2>4 DEF FreshInv, Quiet
<1>4. CASE Elsewhere
  <2>1. Quiet /\ pc' = pc
    BY <1>4 DEF Elsewhere, locals
  <2> QED
    BY <1>1, <2>1 DEF FreshInv, OneAtATime, Quiet, InFlight
<1>5. CASE WeekPasses \/ UNCHANGED vars
  BY <1>5 DEF WeekPasses, locals, store, vars, FreshInv, OneAtATime, InFlight, Fresh, At, Marked, Live
<1> QED
  BY <1>2, <1>3, <1>4, <1>5 DEF Next

\* Requests in turn implement the planner: each click flips the mark it was made on
\* and no other, each save writes the page of the week it was sent in, at most once, wherever requests are cut off and
\* whatever is deleted between them.
THEOREM SerialImplementsPlanner == Spec => PlannerSpec
<1> DEFINE InTurn == ~overlap => FreshInv
<1>1. Init => Plan!Init
  BY DEF Init, Plan!Init, Ticks, Live, None, Pages, Review, WeekFree, Applied
<1>2. Init => InTurn
  BY DEF Init, FreshInv, OneAtATime, InFlight, Steps, Fresh, At
<1>3. TypeOK /\ InTurn /\ [Next]_vars => InTurn'
  <2>1. [Next]_vars => overlap' = overlap
    BY DEF Next, vars
  <2> QED
    BY <2>1, StepFresh
<1>4. TypeOK /\ OneReviewPerWeek /\ InTurn /\ [Next]_vars
      => [~overlap => Plan!Next]_<<entries, Ticks, Pages, Applied>>
  BY StepShows, StepReviews DEF FreshInv, shown
<1> QED
  BY <1>1, <1>2, <1>3, <1>4, TypeCorrect, AlwaysOneReviewPerWeek, PTL DEF Spec, PlannerSpec

=============================================================================
