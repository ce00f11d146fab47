------------------------------ MODULE Journal ------------------------------
(***************************************************************************)
(* The daily logs of service/logbook.go and the decision records of        *)
(* service/content.go: tables daily_logs and adrs, the statements of       *)
(* store/logs.go and store/adrs.go, and the handlers that call them.       *)
(*                                                                         *)
(* Every store call is a step of its own; any request may run between two  *)
(* of them, and a request may be cut off at any point.  Sprints come from  *)
(* elsewhere: here they are deleted, and which one is current changes.     *)
(*                                                                         *)
(* Of a row's text columns the model keeps whose they are: "by" is the     *)
(* request whose text a log holds, "title" the one whose title a record    *)
(* has.  Validation of the input comes first and changes nothing.          *)
(***************************************************************************)
EXTENDS Naturals, FiniteSets

CONSTANTS
  Requests,     \* the calls that ever reach the service layer
  LogIds,       \* bound: the log row ids the model has room for, 1..n
  AdrIds,       \* bound: the record row ids the model has room for, 1..n
  SprintIds,    \* the sprints
  Dates,        \* the days logs are written for
  Numbers,      \* the numbers a form may give a record
  Operations,   \* the operations the callers use
  Absent        \* no row, no value

ASSUME IdsAssumption == LogIds \subseteq Nat \ {0} /\ AdrIds \subseteq Nat \ {0}
ASSUME NumbersAssumption == Numbers \subseteq Nat \ {0}

VARIABLES
  logs,         \* table daily_logs: id -> row, or Absent
  adrs,         \* table adrs: id -> row, or Absent
  sprints,      \* the ids in table sprints
  current,      \* the active sprint, or Absent
  events,       \* table career_events: who caused them, and their sprint
  overlap,      \* may a request arrive while another is being served?
  pc,           \* request -> the store call it makes next, or how it ended
  call,         \* request -> what was asked
  sprint,       \* request -> in.SprintID
  target,       \* request -> the id of the log or record it works on
  row           \* request -> its copy of a log or record

store == <<logs, adrs, sprints, current, events>>
vars == <<logs, adrs, sprints, current, events, overlap, pc, call, sprint, target, row>>

SprintLink == SprintIds \cup {Absent}
LogRow == [sprint : SprintLink, date : Dates, by : Requests]
AdrRow == [sprint : SprintLink, number : Nat \ {0}, title : Requests]
Event == [by : Requests, sprint : SprintLink]

ASSUME AbsentAssumption ==
  Absent \notin LogIds \cup AdrIds \cup SprintIds \cup LogRow \cup AdrRow

\* number 0: the form gives none.  title FALSE: the title field is left empty.
Calls ==
  [op : {"log"}, date : Dates, sprint : SprintLink]
  \cup [op : {"log_delete"}, id : LogIds]
  \cup [op : {"adr"}, number : Numbers \cup {0}, sprint : SprintLink]
  \cup [op : {"adr_update"}, id : AdrIds, title : BOOLEAN, sprint : SprintLink]
  \cup [op : {"adr_delete"}, id : AdrIds]

OnLog(c) == c.op \in {"log", "log_delete"}
Creates(c) == c.op \in {"log", "adr"}
Deletes(c) == c.op \in {"log_delete", "adr_delete"}

Steps == {"current", "bydate", "number", "insert", "readback", "get", "update",
          "drop", "event", "updated", "reply"}
Ends == {"answered", "refused", "cut", "partial", "late"}

InFlight(r) == pc[r] \in Steps
Written(r) == pc[r] \in {"readback", "event", "updated", "reply"}
Quiet == \A r \in Requests : ~InFlight(r)

IdsOf(c) == IF OnLog(c) THEN LogIds ELSE AdrIds
RowsOf(c) == IF OnLog(c) THEN LogRow ELSE AdrRow

\* What a handler is doing, and has in hand, at each of its steps.
Ready(r) ==
  LET at == pc[r]
      c == call[r]
  IN /\ at # "idle" => c \in Calls
     /\ at \in {"current", "bydate"} => c.op = "log"
     /\ at = "number" => c.op = "adr"
     /\ at \in {"insert", "readback"} => Creates(c)
     /\ at = "drop" => Deletes(c)
     /\ at \in {"update", "updated", "reply"} => c.op \in {"log", "adr_update"}
     /\ at = "get" => ~Creates(c)
     /\ at \in {"readback", "get", "update", "drop", "event", "updated", "reply"} =>
          target[r] \in IdsOf(c)
     /\ at \in {"insert", "update", "drop", "event", "updated"} => row[r] \in RowsOf(c)

\* Both tables and every handler's local state have the shape the code gives
\* them, and no handler reaches a store call without the values it passes to it.
TypeOK ==
  /\ logs \in [LogIds -> LogRow \cup {Absent}]
  /\ adrs \in [AdrIds -> AdrRow \cup {Absent}]
  /\ sprints \subseteq SprintIds /\ current \in sprints \cup {Absent}
  /\ events \subseteq Event
  /\ overlap \in BOOLEAN
  /\ pc \in [Requests -> {"idle"} \cup Steps \cup Ends]
  /\ call \in [Requests -> Calls \cup {Absent}]
  /\ sprint \in [Requests -> SprintLink]
  /\ target \in [Requests -> LogIds \cup AdrIds \cup {Absent}]
  /\ row \in [Requests -> LogRow \cup AdrRow \cup {Absent}]
  /\ \A r \in Requests : Ready(r)

Nothing == [r \in Requests |-> Absent]

Init ==
  /\ logs = [id \in LogIds |-> Absent]
  /\ adrs = [id \in AdrIds |-> Absent]
  /\ sprints = SprintIds /\ current \in SprintLink
  /\ events = {}
  /\ overlap \in BOOLEAN
  /\ pc = [r \in Requests |-> "idle"]
  /\ call = Nothing /\ sprint = Nothing /\ target = Nothing /\ row = Nothing

-----------------------------------------------------------------------------
(* The tables *)

LiveLog(id) == logs[id] # Absent
LiveAdr(id) == adrs[id] # Absent
SprintRef(id) == id = Absent \/ id \in sprints

\* INTEGER PRIMARY KEY without AUTOINCREMENT.
NextId(live, id) ==
  /\ \A other \in live : other < id
  /\ id = 1 \/ \E below \in live : id = below + 1

LiveLogs == {id \in LogIds : LiveLog(id)}
LiveAdrs == {id \in AdrIds : LiveAdr(id)}

\* mutants: the index was never created; the reference is not checked
NoDayIndex(id, log) == SprintRef(log.sprint)
NoReference(id, log) ==
  log.sprint = Absent \/ \A other \in LiveLogs \ {id} :
    logs[other].sprint # log.sprint \/ logs[other].date # log.date

\* The reference, and ux_daily_logs_sprint_date, in which NULL equals nothing.
LogAllowed(id, log) ==
  /\ SprintRef(log.sprint)
  /\ log.sprint = Absent \/ \A other \in LiveLogs \ {id} :
       logs[other].sprint # log.sprint \/ logs[other].date # log.date

PutLog(id, log) == logs' = [logs EXCEPT ![id] = log] /\ UNCHANGED <<adrs, sprints, current, events>>
PutAdr(id, adr) == adrs' = [adrs EXCEPT ![id] = adr] /\ UNCHANGED <<logs, sprints, current, events>>

\* An event with a reference to a sprint that is not there is lost.
AppendEvent(event) ==
  /\ events' = IF SprintRef(event.sprint) THEN events \cup {event} ELSE events
  /\ UNCHANGED <<logs, adrs, sprints, current>>

Unlink(table, ids, s) ==
  [id \in ids |-> IF table[id] # Absent /\ table[id].sprint = s
                  THEN [table[id] EXCEPT !.sprint = Absent] ELSE table[id]]

\* DeleteSprint, as these tables see it: ON DELETE SET NULL.
SprintDeleted(s) ==
  /\ sprints' = sprints \ {s}
  /\ current' = IF current = s THEN Absent ELSE current
  /\ logs' = Unlink(logs, LogIds, s)
  /\ adrs' = Unlink(adrs, AdrIds, s)
  /\ events' = {IF e.sprint = s THEN [e EXCEPT !.sprint = Absent] ELSE e : e \in events}

-----------------------------------------------------------------------------
(* Control *)

Goto(r, step) == pc' = [pc EXCEPT ![r] = step]

\* The goroutine ends and its locals with it.  Two ends are neither an answer in
\* time nor a refusal: "partial" leaves a change that was made unanswered, "late"
\* answers it though its context had ended before its event.
End(r, how) ==
  /\ Goto(r, how)
  /\ sprint' = [sprint EXCEPT ![r] = Absent]
  /\ target' = [target EXCEPT ![r] = Absent]
  /\ row' = [row EXCEPT ![r] = Absent]
  /\ UNCHANGED call

Refuse(r) == End(r, IF Written(r) THEN "partial" ELSE "refused") /\ UNCHANGED store

Continue(r, step) == Goto(r, step) /\ UNCHANGED <<call, sprint, target, row>>

\* Go on with a row in hand, and with the id of the row it is or will be.
Hold(r, id, copy, step) ==
  /\ row' = [row EXCEPT ![r] = copy]
  /\ target' = [target EXCEPT ![r] = id]
  /\ Goto(r, step)
  /\ UNCHANGED <<call, sprint>>

NewAdr(r, c, number) == [sprint |-> c.sprint, number |-> number, title |-> r]

FirstStep(c) ==
  CASE c.op = "log" -> IF c.sprint = Absent THEN "current" ELSE "bydate"
    [] c.op = "adr" -> IF c.number = 0 THEN "number" ELSE "insert"
    [] OTHER -> "get"

Arrive(r, c) ==
  /\ pc[r] = "idle"
  /\ c.op \in Operations
  /\ overlap \/ Quiet
  /\ Goto(r, FirstStep(c))
  /\ call' = [call EXCEPT ![r] = c]
  /\ sprint' = [sprint EXCEPT ![r] = IF Creates(c) THEN c.sprint ELSE Absent]
  /\ target' = [target EXCEPT ![r] = IF Creates(c) THEN Absent ELSE c.id]
  /\ row' = [row EXCEPT ![r] = IF c.op = "adr" /\ c.number # 0
                               THEN NewAdr(r, c, c.number) ELSE Absent]
  /\ UNCHANGED store

\* The browser leaves, the turn times out or the process dies.  A context that ends
\* before the event has the append fail, which is dropped: handlers that make no
\* call after it still answer, and a chat shows its user the change as done.
Interrupt(r) ==
  /\ InFlight(r)
  /\ \/ End(r, IF Written(r) THEN "partial" ELSE "cut")
     \/ pc[r] = "event" /\ End(r, "late")
  /\ UNCHANGED store

-----------------------------------------------------------------------------
(* RecordLog and DeleteLog *)

DefaultSprint(r) ==
  /\ pc[r] = "current"
  /\ sprint' = [sprint EXCEPT ![r] = current]
  /\ Goto(r, "bydate")
  /\ UNCHANGED <<store, call, target, row>>

OfSprintAndDay(id, s, date) == LiveLog(id) /\ logs[id].sprint = s /\ logs[id].date = date

\* mutant: the query takes any log of that day, whatever its sprint
FindAnySprint(r) ==
  LET date == call[r].date
      found == {id \in LogIds : LiveLog(id) /\ logs[id].date = date}
  IN /\ pc[r] = "bydate"
     /\ UNCHANGED store
     /\ \/ \E id \in found : Hold(r, id, [logs[id] EXCEPT !.by = r], "update")
        \/ /\ found = {}
           /\ Hold(r, Absent, [sprint |-> sprint[r], date |-> date, by |-> r], "insert")

FindByDate(r) ==
  LET date == call[r].date
      found == {id \in LogIds : OfSprintAndDay(id, sprint[r], date)}
  IN /\ pc[r] = "bydate"
     /\ UNCHANGED store
     /\ \/ \E id \in found : Hold(r, id, [logs[id] EXCEPT !.by = r], "update")
        \/ /\ found = {}
           /\ Hold(r, Absent, [sprint |-> sprint[r], date |-> date, by |-> r], "insert")

InsertLog(r) ==
  /\ pc[r] = "insert" /\ OnLog(call[r])
  /\ IF LogAllowed(Absent, row[r])
     THEN \E id \in LogIds :
            NextId(LiveLogs, id) /\ PutLog(id, row[r]) /\ Hold(r, id, row[r], "readback")
     ELSE Refuse(r)

UpdateLog(r) ==
  /\ pc[r] = "update" /\ OnLog(call[r])
  /\ IF LiveLog(target[r]) /\ LogAllowed(target[r], row[r])
     THEN PutLog(target[r], row[r]) /\ Continue(r, "updated")
     ELSE Refuse(r)

GetLog(r) ==
  /\ pc[r] \in {"get", "readback"} /\ OnLog(call[r])
  /\ IF LiveLog(target[r])
     THEN /\ Hold(r, target[r], logs[target[r]], IF pc[r] = "get" THEN "drop" ELSE "event")
          /\ UNCHANGED store
     ELSE Refuse(r)

DropLog(r) ==
  /\ pc[r] = "drop" /\ OnLog(call[r])
  /\ IF LiveLog(target[r]) THEN PutLog(target[r], Absent) /\ Continue(r, "event") ELSE Refuse(r)

-----------------------------------------------------------------------------
(* CreateADR, UpdateADR and DeleteADR *)

\* mutant: the number of some record, not the highest
AnyNumber(n) == IF LiveAdrs = {} THEN n = 0 ELSE \E id \in LiveAdrs : adrs[id].number = n

MaxNumber(n) ==
  /\ \A id \in LiveAdrs : adrs[id].number <= n
  /\ n = 0 \/ \E id \in LiveAdrs : adrs[id].number = n

PickNumber(r) ==
  /\ pc[r] = "number"
  /\ \E n \in {0} \cup {adrs[id].number : id \in LiveAdrs} :
       MaxNumber(n) /\ Hold(r, Absent, NewAdr(r, call[r], n + 1), "insert")
  /\ UNCHANGED store

InsertAdr(r) ==
  /\ pc[r] = "insert" /\ ~OnLog(call[r])
  /\ IF SprintRef(row[r].sprint)
     THEN \E id \in AdrIds :
            NextId(LiveAdrs, id) /\ PutAdr(id, row[r]) /\ Hold(r, id, row[r], "readback")
     ELSE Refuse(r)

\* The number in the form is not looked at.
Altered(r, adr) ==
  LET c == call[r]
  IN IF c.op = "adr_delete" THEN adr
     ELSE [adr EXCEPT !.title = IF c.title THEN r ELSE @,
                      !.sprint = IF c.sprint # Absent THEN c.sprint ELSE @]

GetAdr(r) ==
  /\ pc[r] = "get" /\ ~OnLog(call[r])
  /\ IF LiveAdr(target[r])
     THEN /\ Hold(r, target[r], Altered(r, adrs[target[r]]),
                  IF Deletes(call[r]) THEN "drop" ELSE "update")
          /\ UNCHANGED store
     ELSE Refuse(r)

ReadBackAdr(r) ==
  /\ pc[r] = "readback" /\ ~OnLog(call[r])
  /\ IF LiveAdr(target[r])
     THEN Hold(r, target[r], adrs[target[r]], "event") /\ UNCHANGED store
     ELSE Refuse(r)

UpdateAdr(r) ==
  /\ pc[r] = "update" /\ ~OnLog(call[r])
  /\ IF LiveAdr(target[r]) /\ SprintRef(row[r].sprint)
     THEN PutAdr(target[r], row[r]) /\ Continue(r, "updated")
     ELSE Refuse(r)

DropAdr(r) ==
  /\ pc[r] = "drop" /\ ~OnLog(call[r])
  /\ IF LiveAdr(target[r]) THEN PutAdr(target[r], Absent) /\ Continue(r, "event") ELSE Refuse(r)

-----------------------------------------------------------------------------
\* A creation names the sprint it was given, the others that of their copy.
LogEvent(r) ==
  /\ pc[r] \in {"event", "updated"}
  /\ AppendEvent([by |-> r, sprint |-> IF Creates(call[r]) THEN sprint[r] ELSE row[r].sprint])
  /\ IF pc[r] = "updated" THEN Continue(r, "reply") ELSE End(r, "answered")

Reply(r) ==
  /\ pc[r] = "reply"
  /\ IF IF OnLog(call[r]) THEN LiveLog(target[r]) ELSE LiveAdr(target[r])
     THEN End(r, "answered") /\ UNCHANGED store
     ELSE Refuse(r)

Work(r) ==
  \/ DefaultSprint(r) \/ FindByDate(r) \/ InsertLog(r) \/ UpdateLog(r) \/ GetLog(r) \/ DropLog(r)
  \/ PickNumber(r) \/ InsertAdr(r) \/ ReadBackAdr(r) \/ GetAdr(r) \/ UpdateAdr(r) \/ DropAdr(r)
  \/ LogEvent(r) \/ Reply(r)

\* What the handlers of sprints do, as seen from here.
Elsewhere ==
  /\ overlap \/ Quiet
  /\ \/ \E s \in sprints : SprintDeleted(s)
     \/ \E s \in sprints \cup {Absent} : current' = s /\ UNCHANGED <<logs, adrs, sprints, events>>
  /\ UNCHANGED <<pc, call, sprint, target, row>>

Next ==
  /\ \/ \E r \in Requests : (\E c \in Calls : Arrive(r, c)) \/ Work(r) \/ Interrupt(r)
     \/ Elsewhere
  /\ UNCHANGED overlap

Spec == Init /\ [][Next]_vars

-----------------------------------------------------------------------------
(* Safety that must survive any overlap and any interruption. *)

\* A sprint has one log a day, though two requests may both have found none, and
\* though an update writes the sprint and the day it read back over whatever
\* row has that id by then.
OneLogPerSprintDay ==
  \A i, j \in LiveLogs :
    logs[i].sprint = logs[j].sprint /\ logs[i].date = logs[j].date =>
      i = j \/ logs[i].sprint = Absent

\* No log, record or event refers to a sprint that is gone, though handlers write
\* sprint ids they read, or were given by a page, before it went.
LinksAreLive ==
  /\ \A id \in LiveLogs : SprintRef(logs[id].sprint)
  /\ \A id \in LiveAdrs : SprintRef(adrs[id].sprint)
  /\ \A e \in events : SprintRef(e.sprint)

-----------------------------------------------------------------------------
(* Safety of requests in turn, interruptions included. *)

\* No form has given a record its number so far.
NumberedByCode ==
  \A r \in Requests : pc[r] # "idle" /\ call[r].op = "adr" => call[r].number = 0

\* Records numbered by the code have different numbers, whatever was deleted or
\* cut off before, as long as no form gives a number.
NumbersDiffer ==
  ~overlap /\ NumberedByCode =>
    \A i, j \in LiveAdrs : adrs[i].number = adrs[j].number => i = j

\* Every change answered in its context's time has its event: the foreign key, whose
\* refusal would be dropped, never refuses it.  The trail is best effort all the
\* same: an end that is "late" has lost its event.
AnsweredIsRecorded ==
  ~overlap => \A r \in Requests : pc[r] = "answered" => \E e \in events : e.by = r

\* The diary: the logs of sprints.
PageOf(id) ==
  [sprint |-> logs[id].sprint, date |-> logs[id].date, by |-> logs[id].by, id |-> id]

Book == {PageOf(id) : id \in {x \in LiveLogs : logs[x].sprint # Absent}}

Applied == {r \in Requests : Written(r) \/ pc[r] \in {"answered", "partial", "late"}}

Pages == INSTANCE Diary WITH book <- Book, applied <- Applied, asked <- call

\* Whatever is asked twice, deleted, cut off or re-used, requests in turn keep the
\* logs of sprints as a diary: a request writes the page of the sprint and the day
\* it asked for, or tears out the one it named, at most once, and no page changes
\* else.
DiarySpec == Pages!Init /\ [][~overlap => Pages!Next]_<<Book, Applied>>

=============================================================================
