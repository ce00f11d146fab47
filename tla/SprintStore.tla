---------------------------- MODULE SprintStore ----------------------------
(***************************************************************************)
(* The part of the database that sprints live in: the tables sprints,      *)
(* checklist_items and career_events of store/migrations/0001 and 0002,    *)
(* and the statements of store/sprints.go and store/adrs.go that read and  *)
(* write them.  The pool holds a single connection (store.go:47), so each  *)
(* statement or transaction is one indivisible step; what may happen       *)
(* between two of them is the business of SprintService.                   *)
(*                                                                         *)
(* A sprint's descriptive columns are one value, the request that filled   *)
(* in the "new sprint" form (its skill).  The column declaration_post_id   *)
(* belongs to posts and is not here.                                       *)
(***************************************************************************)
EXTENDS Naturals, Sequences

CONSTANTS
  Requests,     \* the calls that ever reach the service layer
  SprintIds,    \* bound: the row ids the model has room for, 1..n
  Phases,       \* the phases of a sprint; Phase 1 is Scope & Declare
  Gates,        \* the gates of the checklist template
  Absent        \* no row, no value

ASSUME SprintIdsAssumption == SprintIds \subseteq Nat \ {0}
ASSUME PhasesAssumption == 1 \in Phases /\ 0 \notin Phases

VARIABLES
  sprints,      \* table sprints: id -> row, or Absent
  checklist,    \* table checklist_items: a set of rows
  events        \* table career_events, in the order of insertion

store == <<sprints, checklist, events>>

Statuses == {"planned", "active", "shipped", "abandoned"}

Sprint == [skill : Requests, phase : Phases, status : Statuses,
           url : BOOLEAN, ended : BOOLEAN, retro : BOOLEAN]

ASSUME AbsentAssumption == Absent \notin SprintIds /\ Absent \notin Sprint

ChecklistItem == [sprint : SprintIds, by : Requests, gate : Gates, done : BOOLEAN]

EventKinds == {"sprint.created", "sprint.phase_changed", "sprint.status_changed",
               "sprint.shipped", "sprint.retro", "sprint.deleted"}

\* "to" is the phase a phase_changed event carries in its detail, 0 in any other.
CareerEvent == [kind : EventKinds, sprint : SprintIds \cup {Absent},
                skill : Requests, to : Phases \cup {0}]

StoreTypeOK ==
  /\ sprints \in [SprintIds -> Sprint \cup {Absent}]
  /\ checklist \subseteq ChecklistItem
  /\ events \in Seq(CareerEvent)

StoreInit ==
  /\ sprints = [id \in SprintIds |-> Absent]
  /\ checklist = {}
  /\ events = <<>>

-----------------------------------------------------------------------------
(* Reading *)

Live(id) == sprints[id] # Absent

Active(id) == Live(id) /\ sprints[id].status = "active"

\* GetCurrentSprint: WHERE status = 'active' ORDER BY id DESC LIMIT 1.
IsCurrent(id) == Active(id) /\ \A other \in SprintIds : Active(other) => other <= id

NoCurrent == \A id \in SprintIds : ~Active(id)

-----------------------------------------------------------------------------
(* Writing.  Each operator is what one statement does to its tables. *)

\* INTEGER PRIMARY KEY without AUTOINCREMENT: one more than the greatest id in
\* the table, so the id of the newest sprint is used again once it is deleted.
NextId(id) ==
  /\ \A other \in SprintIds : Live(other) => other < id
  /\ id = 1 \/ \E below \in SprintIds : Live(below) /\ id = below + 1

\* The partial unique index ux_sprints_single_active.
NoIndex(id, row) == TRUE    \* mutant: the index was never created

IndexAllows(id, row) ==
  row.status = "active" => \A other \in SprintIds \ {id} : ~Active(other)

InsertSprint(id, row) ==
  /\ sprints' = [sprints EXCEPT ![id] = row]
  /\ UNCHANGED <<checklist, events>>

\* mutant: live_url is missing from the columns of the UPDATE
UpdateWithoutURL(id, row) ==
  /\ sprints' = IF Live(id) THEN [sprints EXCEPT ![id] = [row EXCEPT !.url = @ /\ sprints[id].url]]
                            ELSE sprints
  /\ UNCHANGED <<checklist, events>>

\* UPDATE ... WHERE id = ?: every column at once, and nothing when the row has
\* gone, for the number of rows affected is not looked at.
UpdateSprint(id, row) ==
  /\ sprints' = IF Live(id) THEN [sprints EXCEPT ![id] = row] ELSE sprints
  /\ UNCHANGED <<checklist, events>>

\* One transaction for all the gates of the template.
SeedChecklist(id, skill) ==
  /\ checklist' = checklist \cup
       [sprint : {id}, by : {skill}, gate : Gates, done : {FALSE}]
  /\ UNCHANGED <<sprints, events>>

ToggleItem(item, done) ==
  /\ checklist' = (checklist \ {item}) \cup {[item EXCEPT !.done = done]}
  /\ UNCHANGED <<sprints, events>>

\* ON DELETE SET NULL of career_events.sprint_id.
Unlink(event, id) == IF event.sprint = id THEN [event EXCEPT !.sprint = Absent] ELSE event

\* mutants: the sprint itself is not deleted; its items are not deleted; the
\* references are declared ON DELETE CASCADE; they are declared without a clause
DeleteItemsOnly(id) ==
  /\ checklist' = {item \in checklist : item.sprint # id}
  /\ UNCHANGED <<sprints, events>>

DeleteSprintOnly(id) ==
  /\ sprints' = [sprints EXCEPT ![id] = Absent]
  /\ events' = [i \in 1 .. Len(events) |-> Unlink(events[i], id)]
  /\ UNCHANGED checklist

DeleteWithEvents(id) ==
  /\ checklist' = {item \in checklist : item.sprint # id}
  /\ sprints' = [sprints EXCEPT ![id] = Absent]
  /\ events' = SelectSeq(events, LAMBDA event : event.sprint # id)

DeleteKeepingLinks(id) ==
  /\ checklist' = {item \in checklist : item.sprint # id}
  /\ sprints' = [sprints EXCEPT ![id] = Absent]
  /\ UNCHANGED events

\* One transaction: the items, then the sprint, and with it every reference.
DeleteSprint(id) ==
  /\ checklist' = {item \in checklist : item.sprint # id}
  /\ sprints' = [sprints EXCEPT ![id] = Absent]
  /\ events' = [i \in 1 .. Len(events) |-> Unlink(events[i], id)]

\* The foreign key of career_events refuses an event about a row that is not
\* there, and the caller drops the error: the event is lost.
AppendEvent(event) ==
  /\ events' = IF Live(event.sprint) THEN Append(events, event) ELSE events
  /\ UNCHANGED <<sprints, checklist>>

=============================================================================
