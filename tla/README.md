# Verification of local-scava

A TLA+ development kept beside the code of local-scava, the career-growth
dashboard of this repository: one Go process that serves a browser over HTTP,
drives a chat command line over a web socket, and keeps everything in one
libSQL file. Paths below are relative to `src/internal/`.

## 1. The system

### Parts, state, operations

| Part | Code | State it keeps | Operations that change it |
|---|---|---|---|
| database | `store/store.go`, `store/migrations/` | one file; one pooled connection, foreign keys on | each statement, each transaction |
| sprints | `service/sprint.go`, `store/sprints.go` | `sprints`, `checklist_items` | create, set phase, set status, retro, delete, tick a gate |
| career events | `service/service.go:61`, `store/adrs.go:115` | `career_events` | append |
| posts | `service/content.go`, `store/posts.go` | `posts`, `post_tiers`, `sprints.declaration_post_id` | create, draft, publish, set visual, delete |
| decision records | `service/content.go:160-288`, `store/adrs.go` | `adrs` | create, update, delete |
| daily logs | `service/logbook.go`, `store/logs.go` | `daily_logs` | record (insert or update), delete |
| habits, to-dos, reviews | `store/habits.go`, `store/todos.go`, `store/reviews.go` | their tables | create, toggle, archive, set status, delete, upsert |
| deliverables, health | `service/health.go`, `store/deliverables.go` | `deliverables` | add, toggle, delete (no route reaches them) |
| accounts | `auth/` | `users`, `sessions`, `api_keys` | set up, log in, validate, log out, change password, profile, keys |
| onboarding | `onboarding/`, `web/onboarding_handlers.go` | `onboarding_state`, `user_platforms` | role, blocks, confirm |
| blocks | `block/` | `user_blocks` | enable, disable, toggle, set |
| chat bridge | `bridge/`, `service/intents.go` | one socket, one child process per turn | turn, capture of intents, dispatch |
| ingest API | `web/api.go`, `service/api_helpers.go` | `metric_points`, `trace_spans`, logs, events | push |
| figures | `service/metrics.go`, `service/traces.go`, `service/health.go` | none: computed from the tables | - |
| process | `app/`, `cmd/` | configuration, listener | open, migrate, serve, shut down |
| pages, charts, PDF | `web/handlers.go`, `web/charts.go`, `export/`, templates | none | - |

### How they interact

Every browser request runs in a goroutine of its own, and so does every chat
turn. A handler calls the service layer, the service layer calls the store a
few times, and each of these calls is one SQL statement or one transaction.
The pool has one connection, so a call is indivisible, but nothing holds the
connection between two calls of one handler: any other request may run there.
Each call is made under the request's context. When the browser leaves, the
chat turn times out or the process dies, the calls already made stand and the
rest are not made.

The parts share rows, not memory: sprints are referred to by items, events,
logs, posts and decision records, posts by sprints (the declaration link) and
events. Row ids are `INTEGER PRIMARY KEY` without `AUTOINCREMENT`, so the id of
a deleted newest row is given to the next one.

### What is hard

* A handler reads a row, decides, and writes the **whole** row back later.
* Checks made by one statement are relied on by another.
* A handler of several writes can be cut off between any two of them.
* The audit event is the last write and its failure is dropped; a handler that ends
  with it answers success even when its context had ended by then.
* Ids come back, and stale copies, pages and events may still hold them.
* One migration runs outside a transaction and may be cut off in the middle.
* Instants are UTC, dates local, some figures mix them, and the local clock is put
  on and back while figures count days of 24 hours.

### What makes each part correct

* **sprints**: at most one is active; a shipped one has its URL and end date
  whatever copies are written back; deleted means gone, though the id returns;
  a created sprint has its whole checklist; the audit trail tells the phase.
* **posts**: one a day, with all its tiers or none; a published tier has its URL
  and stays published; a declaration belongs to the sprint it declares.
* **daily logs**: one per sprint and day; together they behave like a diary whose
  pages change one at a time, by one request each.
* **decision records**: numbers the code assigns are different.
* **events**: appended and never rewritten; a change answered in its context's time
  has its event, as no foreign key refuses it; an event names what it is about and not the next row with that id.
* **habits, to-dos, reviews**: two overlapping toggles or first saves leave a
  state that one of their orders would; the streak is that of the calendar.
* **accounts**: one administrator; a session ends when the README says; a changed
  password ends the other sessions.
* **onboarding, blocks**: recorded progress is not lost; the enabled set is one that was
  chosen.
* **bridge**: each line of the agent is part of one directive or is relayed; a
  directive is run once, in order; no agent outlives its turn; every turn ends.
* **migrations**: whatever is cut off and run again, no row is lost, and the service
  opens nothing but the newest schema; a rollback takes back one migration.
* **figures**: panels computed by different queries do not contradict each other, and
  each tells what happened, however a sprint moved; days are the local ones up to
  what a change of the local clock explains, and what is past stands still.

## 2. Modules

| Module | Role |
|---|---|
| `SprintStore` | the tables `sprints`, `checklist_items`, `career_events` and what each statement does to them |
| `SprintService` | the handlers of `service/sprint.go`, one action per store call |
| `SprintBoard` | abstract: each request changes the column it asks for, of the sprint it asks for, at once and at most once |
| `SprintServiceProofs` | theorems about `SprintService` |
| `PostStore` | the tables `posts`, `post_tiers`, the declaration link, decision records as targets of links |
| `PostService` | the handlers of posts, with those of sprints and records that write the same rows |
| `PostServiceProofs` | theorems about `PostService` |
| `Journal` | `daily_logs` and `adrs`, their statements and handlers |
| `Diary` | abstract: a page for each sprint and day; each request writes the one it asks for |
| `JournalProofs` | theorems about `Journal` |
| `Operator` | `users`, `sessions`, `onboarding_state`, `user_blocks`, `user_platforms`, a clock, and the handlers of accounts, wizard and blocks |
| `OperatorProofs` | theorems about `Operator` |
| `Records` | `todos`, `habits`, `habit_entries`, `weekly_reviews`, `deliverables`, their statements and handlers, and weeks that pass |
| `Planner` | abstract: a click flips the mark it was made on, a save writes the week it was sent in, at once and at most once |
| `RecordsProofs` | theorems about `Records` |
| `Bridge` | one chat session: the socket, the turns, the agent as a process, its lines and directives |
| `BridgeProofs` | theorems about `Bridge` |
| `Migrations` | the schema's version, the tables that 0009 rebuilds, and the commands that open a store, as processes that may be cut off |
| `MigrationsProofs` | theorems about `Migrations` |
| `Figures` | cadence, streaks, heatmap, tier mix and goals, the streak of a habit, over days, posts and entries |
| `Progress` | one sprint over time: its trace, uptime and banner, in any time zone, with or without summer time |
| `FiguresProofs` | theorems about `Figures` and `Progress` |
| `MCSprint`, `MCPost`, `MCJournal`, `MCOperator`, `MCBridge`, `MCRecords`, `MCMigrations` | sets, symmetry and bounds for TLC |
| `MCPostModes` | `MCPost` with overlapping requests bound to one sprint, for the run that has both modes |
| `MCFigures` | `Figures` and `Progress` for TLC, one of posts, habit or sprint in a behaviour |

The service modules have the same frame.

* A **request** is a call that reaches the service layer, from a form, the API or
  a chat intent. `pc[r]` names the store call it makes next, or how it ended:
  `answered`, `refused` (an error was returned before a change), `cut` (its context
  ended before a change, and `dropped` in `SprintService`; in `PostService` whenever no
  answer came), `partial` (its context ended after the change to its table, and no answer
  came) or `late` (its context ended and it answered success all the same). `call[r]` is its input; the other variables indexed by
  requests are the handler's locals.
* **`Arrive`** is the router and the validation that passed. Requests that fail
  validation change nothing and are left out. Inputs range over small sets; the
  ids are those a page may still show, so they may be stale.
* **One action per store call**, named after the handler and the call. What the
  code does between two calls is part of the action of the first.
* **`Interrupt`** is the end of the request's context (`r.Context()` everywhere):
  the browser left, the chat turn timed out, the process died. A store call under a
  context that has ended fails, and what the handler does with that error decides:
  most return it, but `appendEvent` drops it, so that the handlers whose last call is
  the append (`RecordLog` and `CreateADR` when they create, `CreateSprint`,
  `AddDeliverable`, `ToggleDeliverable` and the deletions) return success, which the
  chat bridge shows as an action after the deadline. That is the end `late`: a change
  that was answered and has no event. `CreatePost` goes further: its event dropped, it
  cannot read the sprint it declares, leaves it alone and returns success
  (`AnswersAnyway`).
* **Overlap**: may a request arrive while another is being served? The application
  has one operator, so both cases matter: what must always hold is checked with
  overlap, what the code keeps only for requests in turn without. In every service
  module it is the variable `overlap`, chosen at the start among `Modes`, so that one
  run looks at both. A property of requests in turn says so in its first line.
* **Tables** map ids to rows or `Absent`. `NextId` gives the id after the largest,
  as SQLite does, so ids are used again. Foreign keys, unique indexes and `ON
  DELETE` clauses are part of the statement they act in; one that refuses makes
  the call fail, and the handler's error path is taken.
* **Data** is kept as far as a property tells it apart. The skill of a sprint, the
  text of a log and the title of a record are the request they come from; phases,
  gates, tiers, days are members of small sets; retro texts are two values; URLs
  and dates are present or not.

`career_events` is a sequence in `SprintStore`, where its order matters, and a set
in the other modules. In `PostService` a sprint is what its row means to posts:
whether it is current, its retro and its declaration link. In `Journal`, sprints
disappear and change their turn in the action `Elsewhere`. In `Operator`, a hash is
the password it was made from, a session is named after the request that opened it,
and `todo` is what a handler of several writes has still to write. A page behind
`requireAuth` whose handler calls `currentUserID` validates its session twice, as
the code does. The clock ticks between any two statements. In `Records`, a review is the
request whose text it holds and the week the clock was in when its save began; the
sprints come and go in `Elsewhere`.

`Bridge` has another frame. `pc` is where the goroutine of `HandleWS` is: reading
the socket, starting the agent, scanning its output, dispatching a directive, or
waiting for the process. The browser, the agent, the deadline and the kill of
`os/exec` are actions of their own between any two of its steps. `wrote` is what the
agent has printed in the turn and `seen` how much of it was scanned; the difference
is in the pipe, where a full pipe stops the agent. A line is the sequence of what
the bridge looks for in it: the mark, braces, braces inside a JSON string, other
text; one line is longer than the scanner takes. `spans` and `relayed` record what
became of each line. An intent is run by the service modules, so here it is performed
or refused as a whole, and fails if the turn's context is done. What `EachLineOnce`
says of lines and `DirectivesAreWhole` of their text is said of the history, not of
the loop's variables.

`Migrations` has processes in place of requests. Each is started as one of the four
commands, opens the store, which reads the version and runs what is pending one
migration after the other (`NextMigration`, `MigrateUp`), and serves, rolls back or
ends. A migration is one step, as it is one transaction, and its effect is the
version; 0009 is run statement by statement (`Statement`) from the script that
`Rebuild` spells out, and its version recorded by one statement more. What SQLite
refuses (`Possible`) ends the process, and `Stop` ends it anywhere. The two tables that
0009 rebuilds are kept with whether they take the new source, their rows and whether
they have their indexes; other tables are not touched by it. `kept` is the history
of the rows written while nobody rebuilt, less those a rollback gives up by design.

`Figures` and `Progress` have no handlers: everything in them is computed on a read,
as the pages do. Their actions are what changes the data, each as one step: a post is
published or deleted, a day marked, midnight passes; a sprint is moved, finished,
its event lost, the clock ticks. The loops of the code are recursive
functions of the number of steps done, in the same order with the same early exits, and the properties state what they are to yield without a
loop. A sprint's clock is UTC in units of a fraction of a day. A time zone is the set of
offsets its clock has: one, or two where there is summer time. `offset` is the one in
force and `SetClock` changes it at any time, more often than any calendar would.
`started_on` is the local date of the creation, and `dawn` the offset by which
`ParseInLocation` reads it as local midnight: any of the zone's, as the clock may have
changed between that midnight and the creation, and as Go takes one of the two for a
midnight that the clock skips or strikes twice. A sprint may be created in any status,
as `CreateSprint` lets it, and has no `ended_on` then.

The abstract specifications share no operator with the handlers. Each knows what every
request asks (`asked`), and a step of a request must be the one change it asks for, on
the sprint, page, mark or week that it names; a handler that changed any other row
would violate it.

## 3. Runs

| Run | Instance | Distinct states | What it shows |
|---|---|---|---|
| `sprint` | 3 requests overlapping, or 4 in turn | 1.7 M | one active sprint, shipped is proven; in turn: refinement of `SprintBoard`, deleted stays deleted, whole checklist, the log tells the phase |
| `post_modes` | 3 requests, overlapping or in turn | 4.4 M | one post a day, tiers with their post, published has a URL; in turn: published stays, declarations are the sprint's own, events name their post |
| `journal` | 3 requests, overlapping or in turn | 3.5 M | one log per sprint and day; in turn: refinement of `Diary`, numbers differ, what is answered in time is recorded |
| `records` | 3 requests overlapping, or 4 in turn, on one table | 0.5 M | links are live; in turn: refinement of `Planner`, a deliverable answered in time is recorded |
| `operator` | 2 requests, overlapping or in turn | 1.2 M | one account, ended sessions stay ended, wizard progress is not lost to a late insert; in turn: a new password ends old sessions, a choice is stored whole |
| `bridge_turns` | 2 messages, 3 lines each, fair | 0.8 M | directives are whole, each line once, answers are whole, no agent is left, turns end |
| `migrations` | 4 commands in turn, or 3 of two processes, fair | 0.6 M | rows survive, commands end; in turn: what is opened is the newest, one step back |
| `figures` | 7 days of posts or of a habit, or two days of a sprint | 0.5 M | streaks are runs, panels agree; trace, uptime and banner tell what happened, and what is past stands |

`TypeOK` of the modules, the references of sprints, posts and logs (`NoDanglingRefs`,
`LinksAreLive`), `EventsAppendOnly`, `OneReviewPerWeek` and `OrdersDiffer` were checked
by TLC on the way and are no part of a run: they are theorems.

**Bounds.** Three requests are what the hazards need: a reader with a stale copy, a
deletion, and a creation that gets the same id. The fourth request of
`sprint` and `records` is for histories: create, delete, create again, work on the id.
Two ids of a table let one be used again while another is live; three records are
needed to tell the highest number from any number. When no id is free an insertion
waits, which stands for no behaviour of the code and hides none: every shorter
history is in the instance. One day is enough where only equal days collide, two
where a page may be mistaken for another. Requests, days, sprints without an
order, gates, passwords and platforms are symmetric; the runs with liveness use no
symmetry. In `operator` two requests meet an earlier session, which plays the third
part; a session lasts one tick and the clock makes two, so that it can be used,
used late and found too old; two blocks are enough for half a choice. In
`post_modes` requests that overlap all concern one sprint; the second one is for
histories in turn. In `bridge_turns` three lines let a directive open, go on and close,
or be followed by talk or another; room for two lines in the pipe lets the agent be
ahead of the bridge and be stopped by it; the second message meets what the first
turn left behind. In `records` no handler touches two of the tables, so that requests on
different ones have nothing to say to each other; the second week meets a save that
began in the first. In `migrations`, four commands are: write, roll back and be cut
off, and what two commands make of that; with two processes a third command meets what
the two left. The versions before 0009 differ in nothing, but are all walked from an
empty file. In `figures`, seven days hold a Friday and, from the first Thursday on, a
Monday; windows of 1, 3 and 7 days begin before, on and after posts; two units a day are
the least that tell a date from an instant, with an offset either way, and three phase
changes those of a sprint that goes back and on again. Where the clock is put on and
back the phase changes once at most, since no figure has to do with both; and a sprint
created planned, which the figures treat as an active one, stays so and in its phase.
The theorems have none of these bounds.

**Deadlock** is not checked: each request is used once, and when all are served the
system stops; a session stops when its browser has left; when no command is left to
start, the last process ends; the figures stop at the last day.

**Fairness.** `FairSpec` of `Bridge` asks three things: that the session's goroutine
goes on when it can (a write ends within `writeWait`, the store calls of an intent with
the turn's context), that the timer of the turn fires, and that the kill which
`exec.CommandContext` sends reaches the agent. Nothing is assumed of the browser or
the agent: it may print for ever, hang or block. `Spec` of `Migrations` asks that a
process that is not stopped goes on: it runs one loop over statements and waits for
nobody, and the database answers, if with a refusal. Nothing makes anyone start a command
or stop one. The other modules state no liveness;
their handlers have no loop and wait for nothing but the connection.

### Where the code and its words differ

Four runs end in a violation, each of a sentence in the code or its README:

| Run | What is said | What happens |
|---|---|---|
| `sprint_ship_at_birth` | a sprint cannot be shipped without a live URL | `CreateSprint` takes any status |
| `post_deletion_lost` | `DeletePost` records a career event | the event refers to the deleted post; the foreign key refuses it and the error is dropped |
| `post_unlinked` | a declaration links back to its sprint | a retro saved meanwhile writes the old link back |
| `bridge_quoted` | a directive on one line is parsed and routed | a closing brace inside a text ends the object too early; it cannot be parsed and nothing is recorded |

Met on the way and not run: a phase move writes back a status another request has
changed; two overlapping creations give two records one number; on a first run the
role page records no progress, as its `UPDATE` finds no row yet
(`onboarding/service.go:81`), and a page submitted again takes a complete wizard
back; a log-in that checked the old password opens its session after the change has
ended the others; a creation cut off between the sprint and its checklist
leaves a sprint with few gates or none; with overlap, a stale copy written back may
land on another sprint that was given the same id; `SetTierVisual` on an old copy
takes a published tier back; a creation, a deletion or a toggle of a deliverable whose
context ends before its event is answered as a success and leaves no event; a
declaration post whose context ends before its event is answered and not linked;
a line over 8 MiB stops the scanner, whose error is not looked at, so that
a turn ends well with lines unread, or hangs until its deadline; a directive whose braces
never match swallows the rest of the turn, though "anything else is relayed as ordinary
chat" (`bridge.go:57`); two logs of a day exist when there was no current
sprint, as NULL is equal to nothing in the index; `DeleteSprint` loses its event as
`DeletePost` does.

Of sessions: the README speaks of a "14-day idle expiry" (the repository's `README.md:130`,
`auth/service.go:37`), but the expiry is fixed at log-in and using the session does not
move it.

Of habits, reviews and deliverables: `HabitStreak` counts "consecutive days ending today
or yesterday" (`store/habits.go:98`), yet starts from the newest entry, however old or
in the future; two overlapping toggles lose a flip or one is refused; of two first
saves of a week one is refused; a save files its review under the week of the server's
clock, not that of the page. `service/health.go:13` calls itself the "single source of
truth" of banners, but pages use `computeSprintHealthBanner` with seven days for every
sprint, as nothing writes the columns `SprintHealth` reads.

Of figures: finished sprints are to end at `ended_on` (`service/traces.go:80`), but
three kinds have a trace that grows for ever: abandoned ones, which get no `ended_on`;
those created shipped (`sprint_ship_at_birth`), which get none either; and those
created and shipped on one evening west of UTC, since that date ends, as one of UTC,
before the creation. Shipping a shipped sprint again moves its end to that day. So
`PastStands` says nothing of the last span: it says that no other ever changes.
`CurrentSprintUptime` divides the hours since local midnight by 24
(`service/metrics.go:374`), so that after summer time has begun a sprint is a day
short between midnight and one o'clock, and after it has ended a day ahead in the last
hour of the day, until the clock is back where it was; `DaysFollowTheClock`, a part of
`ProgressIsTrue`, says that this is all. Where the first midnight strikes twice and is
taken for the second, a sprint created between the two may even be a day longer in
its phase than it is active. Setting the phase a sprint is in resets its days in the phase; the banner
counts from a local date to a UTC instant and may be a day off.

Of migrations: 0009 stopped between creating a copy and renaming it can never be run
again, as the copy is there: the database refuses to open for good, its rows safe in
one table or the other; stopped elsewhere it resumes. A rollback cut off leaves version 9
over a table that is missing or narrow, and the service opens that. A rollback run
while the service writes loses the rows written between the copy and the drop. Each
rollback first applies what the one before took back, so that no number of them goes
further than one migration. The handlers of `web/api.go` are reached by no route.

## 4. Proofs

TLAPS proves, for any number of requests, ids, days, tiers, phases and gates:

| Module | Theorems | Carried by |
|---|---|---|
| `SprintServiceProofs` | `TypeCorrect`, `AlwaysOneActive`, `AlwaysNoDanglingRefs`, `AlwaysShippedIsProven`, `AlwaysEventsAppendOnly`, `SerialImplementsBoard`, `SerialDeletedStaysDeleted`, `SerialChecklistBelongs`, `SerialLogTellsPhase` | `CopiesProven`, `Serial`, `Story` |
| `PostServiceProofs` | `TypeCorrect`, `AlwaysOnePostPerDay`, `AlwaysTiersOfPosts`, `AlwaysLinksAreLive`, `AlwaysPublishedHasURL`, `SerialDeclarationIsOwn`, `SerialLogNamesItsPost`, `SerialPublishedStays` | `CopiesStamped`, `TurnInv` |
| `JournalProofs` | `TypeCorrect`, `AlwaysOneLogPerSprintDay`, `AlwaysLinksAreLive`, `SerialNumbersDiffer`, `SerialAnsweredIsRecorded`, `SerialImplementsDiary` | `NumbersInv`, `AgreeInv` |
| `OperatorProofs` | `TypeCorrect`, `AlwaysOneOperator`, `AlwaysEndedStaysEnded`, `AlwaysProgressIsKept`, `SerialOldSessionsEnd`, `SerialChoiceIsWhole` | `UsersLive`, `NamesInv`, `SessionsInv`, `ChoiceInv` |
| `RecordsProofs` | `TypeCorrect`, `AlwaysLinksAreLive`, `AlwaysOneReviewPerWeek`, `SerialOrdersDiffer`, `SerialAnsweredIsRecorded`, `SerialImplementsPlanner` | `TurnInv`, `Fresh` |
| `MigrationsProofs` | `TypeCorrect`, `SerialOneStepBack`, `SerialOpenIsNewest`, `AlwaysRowsSurvive` | `Alone`, `Reads`, `Whole`, `RowInv` |
| `BridgeProofs` | `TypeCorrect`, `AlwaysNoAgentLeft`, `AlwaysAnswerIsWhole`, `AlwaysEachLineOnce`, `AlwaysDirectivesAreWhole` | `SpansInPlace`, `Settled`, `LoopEnded`, `WholeInv` |
| `FiguresProofs` | `FiguresTypeCorrect`, `AlwaysStreaksAreRuns`, `AlwaysRecentStreakIsARun`, `AlwaysPanelsAgree` about `Figures` | `ForwardTells`, `BackwardTells`, `WalkAt`, `Rows` |
| | `ProgressTypeCorrect`, `AlwaysProgressIsTrue`, `AlwaysTraceFits`, `AlwaysBannerIsFair`, `AlwaysPastStands` about `Progress` | `EventsInv`, `TimeTaken`, `Begun`, `Birthday` |

* `TypeOK` contains `Ready(r)`: at each step a handler has the input, the id and
  the row that the call needs. Without it no invariant about rows is inductive,
  because nothing would be known of what is written. `StoreSteps` then reduces
  every step to one statement with well-formed arguments, and each invariant of
  the tables is proved statement by statement.
* `AlwaysShippedIsProven` needs `CopiesProven`: the **copies** handlers hold are
  proven too, or writing one back would break the rule. It assumes that no sprint
  is created shipped, which is what `sprint_ship_at_birth` refutes of the code.
  `CopiesStamped` does the same for `AlwaysPublishedHasURL`.
* `SerialImplementsBoard` assumes no overlap. The refinement maps the board to the
  rows and a request to applied once its statement is made; the invariant says
  that at most one request is in flight, that its copy agrees with the row, and that it
  is the row of the sprint it asked for (`Aimed`).
* `SerialDeletedStaysDeleted`, `SerialChecklistBelongs` and `SerialLogTellsPhase` share
  `Story`, which relates each row to the one request that made it: a live row has the
  skill of a request whose insertion was done at that id, whoever is deleted has no row
  (`Gone`), an item was made by the creation of its sprint, and no gate is missing once
  that has been answered (`Lists`), and events are about the row that is there (`OwnEvents`). The log tells the
  phase up to what the request under way has still to add (`Told`). That a sprint with
  events of its phase has a latest one (`HasLatest`) is kept as an invariant.
* `SerialDeclarationIsOwn`, `SerialLogNamesItsPost` and `SerialPublishedStays` share
  `TurnInv`: what the one handler under way has read of a post, a tier or a sprint is
  still what the tables say (`PostInHand`, `RowInHand`), so that writing a whole row back
  changes the one column it should. The event of a deletion names a post that is gone,
  which is why the foreign key refuses it.
* `SerialNumbersDiffer` assumes no overlap and no number given by a form. Its
  invariant `NumbersInv` says what the one request in flight holds: a number no
  record has, or the number of the record it is going to write.
* `SerialAnsweredIsRecorded` of `JournalProofs` and `SerialImplementsDiary` share
  `AgreeInv`: `answered` is an answer in time, so that what is to be shown is that no
  append of such a request is refused. One request at most is in flight, the log it is going to write over is the
  one it found (`Agrees`), and the sprint its event will name is there. A page of the diary
  is the log of a sprint's day, which is one log by `OneLogPerSprintDay`; each statement
  is one lemma about pages (`PageWritten`, `PageTorn`, `PagesLost`).
* In `OperatorProofs` types are not inductive by themselves: a handler writes to the
  row of a user it found before. `UsersLive` adds that this user, and that of every
  session, is there. `AlwaysOneOperator` rests on the unique index of user names, so
  `NamesInv` says that every user is called `admin` as long as none was renamed.
* `SerialOldSessionsEnd` needs `SessionsInv`: every session was opened with the password
  its user still has, but for those the one change under way is about to end
  (`Excused`). `SerialChoiceIsWhole` needs `ChoiceInv`, which says at each step of the
  confirmation how far blocks and platforms have come (`Choice`), and that between
  two confirmations both are those of one (`Whole`).
* `AlwaysEachLineOnce` needs `SpansInPlace`, which says where directives lie among the
  lines scanned, and `Settled`, by which a line is lost only when the loop is left over
  it. `AlwaysDirectivesAreWhole` adds the text: `WholeInv` says that the buffer is the text
  of the lines since the directive's first, in which no prefix is a directive, and that
  of each that was carried out the text is one. `TextOf` is a recursive function of the
  last line; what it is for more lines is had from the least number of lines for which
  it would not be (`LeastNumber`). `AlwaysAnswerIsWhole` needs what the loop leaves behind (`LoopEnded`) and that no
  agent is running after `Wait`, since it could print more.
* `SerialOrdersDiffer` and `SerialAnsweredIsRecorded` share `TurnInv`: one request at most
  is in flight, and what it has read (`InHand`) is still so: the order is beyond the
  last, the sprint or deliverable it has written is there. `AlwaysOneReviewPerWeek` rests
  on the unique index, and its second part on `Applied`, which only grows.
* `SerialImplementsPlanner` maps the marks to `entries`, the ticks to the deliverables
  done, a page to the request whose review is there, and takes a request as applied
  once its statement is made. `Fresh` says that a toggle in flight still sees the mark
  it read, or it would flip what another has flipped.
* In `MigrationsProofs` a process in turn is `Alone` and the version is the one it last
  read (`Reads`), from which `SerialOneStepBack` follows. `SerialOpenIsNewest` needs the
  shape of the tables line by line of the script (`UpShape`, `DownShape`), and that
  every table is whole when the version is the newest, `Whole`; each line is one lemma.
* `AlwaysRowsSurvive` holds of any number of processes at once and through any cut-off.
  `RowInv` says that a table that is there has all that was kept of it, and that one of its
  copies has it while it is gone. What makes this inductive is whose copy is whose: a
  script that has created a copy is the only one to rename it (`Owns`, `OneOwner`), since
  no other can create it meanwhile. A migration that creates a table finds nothing kept
  of it, as the version is only below the table's once a rollback has dropped it.
* The properties of `Figures` follow from its types, but each is an induction over the steps
  of a loop. The library's induction theorems take an operator, which the provers cannot
  instantiate; instead the set of step counts at which a loop invariant fails, were it not
  empty, would have a least one (`LeastNumber`), and that is refuted. The invariants are
  `ForwardTells` and `BackwardTells`, which relate what the loops of `Streaks` hold to the
  unbroken runs of the days they have passed, and `WalkAt`, which says where the loop of
  `HabitStreak` is. That the recursion has a solution at all is `LoopExists`. The
  *n*-th row of the query is the day with that many newer ones (`RankIsOfOne`), which in a run
  is the day *n* before the newest. Heatmap and tier mix count the same pairs of a day
  and a tier, one by rows and one by columns: `SumOfRows` says that either sum is the
  number of pairs, whatever the order in which they are taken.
* The figures of `Progress` are functions of its events, so the invariants
  are about these: they come in the order of their times, each phase that has one has a
  first, and the phases come in order if the sprint never went back (`EventsInv`).
  `TimeTaken` relates the history to them: between two entered phases with none between
  lies the time the first has taken. The spans of the four phases then add up, from the
  last one down. `AlwaysPastStands` needs that a first event stays first while the log
  grows at its end and that a later phase comes later (`StartsStand`, `SpansFollow`): then the
  end of a span followed by another is fixed. The days need `Birthday`, which ties the
  date of the start to the instant of the creation by two offsets less than a day apart;
  `DaysFit` compares two whole-day counts of instants that far apart. `AlwaysBannerIsFair` needs no history, only that instants less
  than a day apart are of the same date or of two in a row (`DivNear`).

The assumptions on the constants are named in the modules and evaluated by every
run: ids are positive numbers, `Absent` is none of the values, `Modes` are Booleans,
the name a set-up gives is a name, a line has at most one mark, the local clock is less
than a day off UTC and changes by less than a day, no window of days is empty and the tiers are finitely many.

**Model-checked only**: liveness (`TurnsEnd`, `CommandsEnd`), which is beyond the prover.

## 5. Not modelled

Requests that fail validation, and columns that are only shown. Reads for pages,
charts and the PDF, which change nothing and lay out what the figures compute. Errors
of the file system under the database. Key generation and revocation,
`RequireSession`, `RequireAPIKey`, `RequireOnboardingComplete` and `IsRouteEnabled`, and
the handlers of the ingest API, which no route uses; the logs they would create are
requests of `Journal`, and their points, spans and events single inserts. `SprintHealth`,
whose columns nothing writes. `ShipRate`, `DailyPosts` and the content totals, which
count rows. Configuration, routes and the draining of a shutdown: to the database a
shutdown is the end of each request's context, which every module has.

## 6. Plan

Done: sprints, posts, journal, records, accounts with wizard and blocks, bridge,
migrations, figures, each with its proofs. Left, in this order:

1. An abstract specification of accounts: who may act, and until when.
2. `Bridge` composed with a service module through the intents.
