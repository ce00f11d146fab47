--------------------------- MODULE SprintService ---------------------------
(***************************************************************************)
(* service/sprint.go and the sprint intents of service/intents.go.  Each   *)
(* HTTP request and each chat turn runs in a goroutine of its own and      *)
(* calls the store several times; between two calls any other request may  *)
(* run.  pc[r] names the store call request r is about to make.            *)
(*                                                                         *)
(* A handler works under its request's context: when the browser goes      *)
(* away, the chat turn times out or the process dies, the calls already    *)
(* made stand and the others are never made (Interrupt).                   *)
(*                                                                         *)
(* A request whose input fails validation makes no store call and is not   *)
(* modelled.                                                               *)
(***************************************************************************)
EXTENDS SprintStore

CONSTANTS
  Operations,       \* the operations the callers use
  CreateStatuses    \* the statuses a new sprint may be asked for

ASSUME CreateStatusesAssumption == CreateStatuses \subseteq Statuses

VARIABLES
  overlap,   \* may a request arrive while another is being served?
  pc,        \* request -> the store call it makes next, or how it ended
  call,      \* request -> what was asked
  target,    \* request -> the sprint id it works on
  snap       \* request -> its own copy of the row

locals == <<pc, call, target, snap>>
vars == <<sprints, checklist, events, overlap, pc, call, target, snap>>

Calls ==
  [op : {"create"}, status : CreateStatuses]
  \cup [op : {"phase"}, id : SprintIds, phase : Phases]
  \cup [op : {"chat_phase"}, phase : Phases]
  \cup [op : {"status"}, id : SprintIds, status : Statuses, url : BOOLEAN]
  \cup [op : {"chat_ship"}, status : {"shipped"}, url : BOOLEAN]
  \cup [op : {"retro"}, id : SprintIds, text : BOOLEAN]
  \cup [op : {"delete"}, id : SprintIds]
  \cup [op : {"gate"}, done : BOOLEAN]

Steps == {"guard", "insert", "readback", "seed", "pick", "get", "update",
          "delete", "event", "reply", "toggle"}

\* How a request ends: with its result, with an error, cut off before its
\* change to the sprint, cut off after it, or with its result but late: its
\* context ended before the event was appended, and the lost event is no error.
Ends == {"answered", "refused", "dropped", "partial", "late"}

\* The operations that append their event last and read nothing back.
EventLast == {"create", "delete"}

InFlight(r) == pc[r] \in Steps
Quiet == \A r \in Requests : ~InFlight(r)

ChangingOps == {"phase", "chat_phase", "status", "chat_ship", "retro"}

\* What a handler is doing, and has in hand, at each of its steps.
Ready(r) ==
  /\ pc[r] # "idle" => call[r] \in Calls
  /\ pc[r] \in {"insert", "readback", "seed"} => call[r].op = "create"
  /\ pc[r] = "guard" => call[r].op \in {"create", "status"}
  /\ pc[r] = "pick" => call[r].op \in {"chat_phase", "chat_ship"}
  /\ pc[r] = "get" => call[r].op \in ChangingOps \cup {"delete"}
  /\ pc[r] \in {"update", "reply"} => call[r].op \in ChangingOps
  /\ pc[r] = "delete" => call[r].op = "delete"
  /\ pc[r] = "event" => call[r].op \in ChangingOps \cup {"create", "delete"}
  /\ pc[r] = "toggle" => call[r].op = "gate"
  /\ \/ pc[r] \in {"readback", "seed", "get", "update", "delete", "event", "reply"}
     \/ pc[r] = "guard" /\ call[r].op = "status"
     => target[r] \in SprintIds
  /\ \/ pc[r] \in {"seed", "update", "delete", "event"}
     \/ pc[r] = "guard" /\ call[r].op = "status"
     => snap[r] \in Sprint

ServiceTypeOK ==
  /\ overlap \in BOOLEAN
  /\ pc \in [Requests -> {"idle"} \cup Steps \cup Ends]
  /\ call \in [Requests -> Calls \cup {Absent}]
  /\ target \in [Requests -> SprintIds \cup {Absent}]
  /\ snap \in [Requests -> Sprint \cup {Absent}]

\* Every table and every handler's local state has the shape the code gives it,
\* and no handler reaches a store call without the values it passes to it.
TypeOK == StoreTypeOK /\ ServiceTypeOK /\ \A r \in Requests : Ready(r)

Init ==
  /\ StoreInit
  /\ overlap \in BOOLEAN
  /\ pc = [r \in Requests |-> "idle"]
  /\ call = [r \in Requests |-> Absent]
  /\ target = [r \in Requests |-> Absent]
  /\ snap = [r \in Requests |-> Absent]

-----------------------------------------------------------------------------
(* Control *)

Goto(r, step) == pc' = [pc EXCEPT ![r] = step]

Refuse(r) == Goto(r, "refused") /\ UNCHANGED <<store, call, target, snap>>

MovesPhase(c) == c.op \in {"phase", "chat_phase"}
SetsStatus(c) == c.op \in {"status", "chat_ship"}

FirstStep(c) ==
  CASE c.op = "create" -> IF c.status = "active" THEN "guard" ELSE "insert"
    [] c.op \in {"chat_phase", "chat_ship"} -> "pick"
    [] c.op = "gate" -> "toggle"
    [] OTHER -> "get"

Arrive(r, c) ==
  /\ pc[r] = "idle"
  /\ c.op \in Operations
  /\ overlap \/ Quiet
  /\ Goto(r, FirstStep(c))
  /\ call' = [call EXCEPT ![r] = c]
  /\ target' = [target EXCEPT ![r] =
       IF c.op \in {"phase", "status", "retro", "delete"} THEN c.id ELSE Absent]
  /\ UNCHANGED <<store, snap>>

\* The change to the sprint itself has been made.
Committed(r) == pc[r] \in {"readback", "seed", "event", "reply"}

\* The caller is gone, or the context has ended and the next call fails; but an
\* append that fails is dropped, and where it comes last the answer stands.
Interrupt(r) ==
  /\ InFlight(r)
  /\ \/ Goto(r, IF Committed(r) THEN "partial" ELSE "dropped")
     \/ pc[r] = "event" /\ call[r].op \in EventLast /\ Goto(r, "late")
  /\ UNCHANGED <<store, call, target, snap>>

-----------------------------------------------------------------------------
(* Creating *)

NewSprint(r) == [skill |-> r, phase |-> 1, status |-> call[r].status,
                 url |-> FALSE, ended |-> FALSE, retro |-> FALSE]

CreateGuard(r) ==
  /\ pc[r] = "guard" /\ call[r].op = "create"
  /\ IF NoCurrent
     THEN Goto(r, "insert") /\ UNCHANGED <<store, call, target, snap>>
     ELSE Refuse(r)

CreateInsert(r) ==
  /\ pc[r] = "insert"
  /\ \E id \in SprintIds :
       /\ NextId(id)
       /\ IF IndexAllows(id, NewSprint(r))
          THEN /\ InsertSprint(id, NewSprint(r))
               /\ target' = [target EXCEPT ![r] = id]
               /\ Goto(r, "readback")
               /\ UNCHANGED <<call, snap>>
          ELSE Refuse(r)

CreateReadBack(r) ==
  /\ pc[r] = "readback"
  /\ IF Live(target[r])
     THEN /\ snap' = [snap EXCEPT ![r] = sprints[target[r]]]
          /\ Goto(r, "seed")
          /\ UNCHANGED <<store, call, target>>
     ELSE Refuse(r)

CreateSeed(r) ==
  /\ pc[r] = "seed"
  /\ IF Live(target[r])
     THEN /\ SeedChecklist(target[r], r)
          /\ Goto(r, "event")
          /\ UNCHANGED <<call, target, snap>>
     ELSE Refuse(r)

-----------------------------------------------------------------------------
(* Changing: read the row, alter the copy, write the whole copy back. *)

PickCurrent(r) ==
  /\ pc[r] = "pick"
  /\ \/ /\ NoCurrent
        /\ Refuse(r)
     \/ \E id \in SprintIds :
          /\ IsCurrent(id)
          /\ target' = [target EXCEPT ![r] = id]
          /\ Goto(r, "get")
          /\ UNCHANGED <<store, call, snap>>

\* Keep the altered copy of the row and go on to the given step.
Keep(r, row, step) ==
  /\ snap' = [snap EXCEPT ![r] = row]
  /\ Goto(r, step)
  /\ UNCHANGED <<store, call, target>>

Fetch(r) == pc[r] = "get" /\ Live(target[r])

GetMissing(r) == pc[r] = "get" /\ ~Live(target[r]) /\ Refuse(r)

PhaseGet(r) ==
  /\ Fetch(r) /\ MovesPhase(call[r])
  /\ Keep(r, [sprints[target[r]] EXCEPT !.phase = call[r].phase], "update")

\* mutant: the live URL is not asked for
ShipWithoutURL(r) ==
  /\ Fetch(r) /\ SetsStatus(call[r])
  /\ Keep(r, [sprints[target[r]] EXCEPT !.status = call[r].status,
                                        !.url = @ \/ call[r].url,
                                        !.ended = @ \/ call[r].status = "shipped"],
          IF call[r].status = "active" THEN "guard" ELSE "update")

StatusGet(r) ==
  /\ Fetch(r) /\ SetsStatus(call[r])
  /\ LET row == sprints[target[r]]
         c == call[r]
         url == row.url \/ c.url
     IN IF c.status = "shipped" /\ ~url
        THEN Refuse(r)
        ELSE Keep(r, [row EXCEPT !.status = c.status, !.url = url,
                                 !.ended = @ \/ c.status = "shipped"],
                  IF c.status = "active" THEN "guard" ELSE "update")

StatusGuard(r) ==
  /\ pc[r] = "guard" /\ SetsStatus(call[r])
  /\ IF \E id \in SprintIds : IsCurrent(id) /\ id # target[r]
     THEN Refuse(r)
     ELSE Goto(r, "update") /\ UNCHANGED <<store, call, target, snap>>

RetroGet(r) ==
  /\ Fetch(r) /\ call[r].op = "retro"
  /\ Keep(r, [sprints[target[r]] EXCEPT !.retro = call[r].text], "update")

WriteBack(r) ==
  /\ pc[r] = "update"
  /\ IF Live(target[r]) => IndexAllows(target[r], snap[r])
     THEN /\ UpdateSprint(target[r], snap[r])
          /\ Goto(r, "event")
          /\ UNCHANGED <<call, target, snap>>
     ELSE Refuse(r)

Reply(r) ==
  /\ pc[r] = "reply"
  /\ Goto(r, IF Live(target[r]) THEN "answered" ELSE "refused")
  /\ UNCHANGED <<store, call, target, snap>>

-----------------------------------------------------------------------------
(* Deleting, ticking a gate, and the career event every change ends with. *)

DeleteGet(r) ==
  /\ Fetch(r) /\ call[r].op = "delete"
  /\ Keep(r, sprints[target[r]], "delete")

DeleteRows(r) ==
  /\ pc[r] = "delete"
  /\ IF Live(target[r])
     THEN /\ DeleteSprint(target[r])
          /\ Goto(r, "event")
          /\ UNCHANGED <<call, target, snap>>
     ELSE Refuse(r)

\* The id in the request is that of an item some page once showed.
ToggleGate(r) ==
  /\ pc[r] = "toggle"
  /\ \/ Refuse(r)
     \/ \E item \in checklist :
          /\ ToggleItem(item, call[r].done)
          /\ Goto(r, "answered")
          /\ UNCHANGED <<call, target, snap>>

EventKind(c) ==
  CASE c.op = "create" -> "sprint.created"
    [] MovesPhase(c) -> "sprint.phase_changed"
    [] c.op = "retro" -> "sprint.retro"
    [] c.op = "delete" -> "sprint.deleted"
    [] OTHER -> IF c.status = "shipped" THEN "sprint.shipped" ELSE "sprint.status_changed"

EventOf(r) == [kind |-> EventKind(call[r]), sprint |-> target[r], skill |-> snap[r].skill,
               to |-> IF MovesPhase(call[r]) THEN call[r].phase ELSE 0]

LogEvent(r) ==
  /\ pc[r] = "event"
  /\ AppendEvent(EventOf(r))
  /\ Goto(r, IF call[r].op \in EventLast THEN "answered" ELSE "reply")
  /\ UNCHANGED <<call, target, snap>>

-----------------------------------------------------------------------------
Work(r) ==
  \/ CreateGuard(r) \/ CreateInsert(r) \/ CreateReadBack(r) \/ CreateSeed(r)
  \/ PickCurrent(r) \/ GetMissing(r) \/ PhaseGet(r) \/ StatusGet(r) \/ StatusGuard(r)
  \/ RetroGet(r) \/ WriteBack(r) \/ Reply(r)
  \/ DeleteGet(r) \/ DeleteRows(r) \/ ToggleGate(r) \/ LogEvent(r)

Next ==
  /\ \E r \in Requests : (\E c \in Calls : Arrive(r, c)) \/ Work(r) \/ Interrupt(r)
  /\ UNCHANGED overlap

Spec == Init /\ [][Next]_vars

-----------------------------------------------------------------------------
(* Safety that must survive any overlap and any interruption. *)

\* The index holds against two requests that both found no active sprint:
\* CreateSprint's and SetStatus's own guard is only a friendlier error.
OneActive == \A i, j \in SprintIds : Active(i) /\ Active(j) => i = j

Proven(sprint) == sprint.status = "shipped" => sprint.url /\ sprint.ended

\* No shipped sprint lacks its live URL or its end date, though every handler
\* writes back a whole row that it read some calls ago, maybe over a newer one
\* or over another sprint that was given the same id.
ShippedIsProven == \A id \in SprintIds : Live(id) => Proven(sprints[id])

\* Checklist items and career events refer to sprints that exist, whatever is
\* deleted between the calls of a handler that is still going to write one.
NoDanglingRefs ==
  /\ \A item \in checklist : Live(item.sprint)
  /\ \A i \in 1 .. Len(events) : events[i].sprint # Absent => Live(events[i].sprint)

\* The audit trail is append-only: a step keeps every event at its place with
\* its text, and at most takes away the link to a sprint.
EventsAppendOnly ==
  [][/\ Len(events') >= Len(events)
     /\ \A i \in 1 .. Len(events) :
          \/ events'[i] = events[i]
          \/ events'[i] = [events[i] EXCEPT !.sprint = Absent]]_vars

-----------------------------------------------------------------------------
(* Safety of requests in turn, interruptions included. *)

\* A deleted sprint is gone for good: no later request brings its row back,
\* although its id is handed out again.
DeletedStaysDeleted ==
  ~overlap =>
    \A r \in Requests, id \in SprintIds :
      pc[r] \in {"answered", "late"} /\ call[r].op = "delete" /\ Live(id)
        => sprints[id].skill # snap[r].skill

\* A checklist item sits on the sprint it was seeded for, and a sprint whose
\* creation was answered has its whole template, once.
ChecklistBelongs ==
  ~overlap =>
    /\ \A item \in checklist : Live(item.sprint) /\ item.by = sprints[item.sprint].skill
    /\ \A id \in SprintIds :
         Live(id) /\ pc[sprints[id].skill] \in {"answered", "late"} =>
           \A gate \in Gates : \E item \in checklist : item.sprint = id /\ item.gate = gate

PhaseEvents(id) ==
  {i \in 1 .. Len(events) : events[i].sprint = id /\ events[i].kind = "sprint.phase_changed"}

\* The phase the log of a sprint ends in.
LoggedPhase(id) ==
  IF PhaseEvents(id) = {} THEN 1
  ELSE events[CHOOSE i \in PhaseEvents(id) : \A j \in PhaseEvents(id) : j <= i].to

\* The log of a sprint is its own: every event linked to it speaks of its
\* skill, and once nothing is under way and no request was cut off between its
\* change and its event, the log ends in the phase the row is in.
LogTellsPhase ==
  ~overlap =>
    /\ \A i \in 1 .. Len(events) :
         LET id == events[i].sprint
         IN id # Absent => Live(id) /\ events[i].skill = sprints[id].skill
    /\ Quiet /\ (\A r \in Requests : pc[r] # "partial") =>
         \A id \in SprintIds : Live(id) => LoggedPhase(id) = sprints[id].phase

\* The requests whose change to a sprint has been made.
Applied ==
  {r \in Requests : \/ Committed(r) \/ pc[r] \in {"partial", "late"}
                    \/ pc[r] = "answered" /\ call[r].op # "gate"}

Board == INSTANCE SprintBoard WITH board <- sprints, applied <- Applied, asked <- call

\* The statements, snapshots and interruptions of the handlers implement the
\* promise of SprintBoard, when requests come in turn: every request changes the
\* board at once, at most once, and only the sprint and the column it asks for.
BoardSpec == Board!Init /\ [][~overlap => Board!Next]_<<sprints, Applied>>

=============================================================================
