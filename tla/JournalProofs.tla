--------------------------- MODULE JournalProofs ---------------------------
(***************************************************************************)
(* Theorems about Journal, for any number of requests, logs, records,      *)
(* sprints, days and numbers, whether requests overlap or not.             *)
(***************************************************************************)
EXTENDS Journal, TLAPS

(***************************************************************************)
(* What the fields of a request are, operation by operation.               *)
(***************************************************************************)
LEMMA CallFields ==
  ASSUME NEW c \in Calls
  PROVE  /\ c.op \in {"log", "log_delete", "adr", "adr_update", "adr_delete"}
         /\ c.op = "log" => c.date \in Dates
         /\ c.op = "adr" => c.number \in Numbers \cup {0}
         /\ Creates(c) => c.sprint \in SprintLink
         /\ ~Creates(c) => c.id \in IdsOf(c)
         /\ c.op = "adr_update" => c.sprint \in SprintLink /\ c.title \in BOOLEAN
  BY DEF Calls, Creates, IdsOf, OnLog

LocalTypeOK ==
  /\ pc \in [Requests -> {"idle"} \cup Steps \cup Ends]
  /\ call \in [Requests -> Calls \cup {Absent}]
  /\ sprint \in [Requests -> SprintLink]
  /\ target \in [Requests -> LogIds \cup AdrIds \cup {Absent}]
  /\ row \in [Requests -> LogRow \cup AdrRow \cup {Absent}]

StoreTypeOK ==
  /\ logs \in [LogIds -> LogRow \cup {Absent}]
  /\ adrs \in [AdrIds -> AdrRow \cup {Absent}]
  /\ sprints \subseteq SprintIds /\ current \in sprints \cup {Absent}
  /\ events \subseteq Event

(***************************************************************************)
(* A step of one handler leaves every other handler as ready as it was.    *)
(***************************************************************************)
LEMMA OthersReady ==
  ASSUME TypeOK, NEW r \in Requests,
         \A q \in Requests \ {r} : /\ pc'[q] = pc[q] /\ call'[q] = call[q]
                                   /\ target'[q] = target[q] /\ row'[q] = row[q],
         Ready(r)'
  PROVE  \A q \in Requests : Ready(q)'
<1>1. \A q \in Requests \ {r} : Ready(q)'
  BY DEF TypeOK, Ready
<1> QED
  BY <1>1

(***************************************************************************)
(* A handler that ends, goes on with what it has, or takes a row in hand   *)
(* leaves all handlers ready if the next step finds what it needs.         *)
(***************************************************************************)
LEMMA EndReady ==
  ASSUME TypeOK, NEW r \in Requests, NEW how \in Ends, End(r, how), pc[r] # "idle"
  PROVE  LocalTypeOK' /\ \A q \in Requests : Ready(q)'
<1>1. LocalTypeOK'
  BY DEF TypeOK, LocalTypeOK, End, Goto, SprintLink
<1>2. Ready(r)'
  BY DEF TypeOK, Ready, End, Goto, Ends
<1> QED
  BY <1>1, <1>2, OthersReady DEF TypeOK, End, Goto

LEMMA ContinueReady ==
  ASSUME TypeOK, NEW r \in Requests, NEW step \in Steps, Continue(r, step), Ready(r)'
  PROVE  LocalTypeOK' /\ \A q \in Requests : Ready(q)'
<1>1. LocalTypeOK'
  BY DEF TypeOK, LocalTypeOK, Continue, Goto
<1> QED
  BY <1>1, OthersReady DEF TypeOK, Continue, Goto

LEMMA HoldReady ==
  ASSUME TypeOK, NEW r \in Requests, NEW step \in Steps,
         NEW id \in LogIds \cup AdrIds \cup {Absent}, NEW copy \in LogRow \cup AdrRow,
         Hold(r, id, copy, step), Ready(r)'
  PROVE  LocalTypeOK' /\ \A q \in Requests : Ready(q)'
<1>1. LocalTypeOK'
  BY DEF TypeOK, LocalTypeOK, Hold, Goto
<1> QED
  BY <1>1, OthersReady DEF TypeOK, Hold, Goto

(***************************************************************************)
(* The rows and events that handlers write are well-formed.                *)
(***************************************************************************)
LEMMA NewAdrType ==
  ASSUME NEW r \in Requests, NEW c \in Calls, c.op = "adr", NEW n \in Nat \ {0}
  PROVE  NewAdr(r, c, n) \in AdrRow
<1>1. c.sprint \in SprintLink
  BY CallFields DEF Creates
<1> QED
  BY <1>1 DEF NewAdr, AdrRow

LEMMA AlteredType ==
  ASSUME NEW r \in Requests, call[r] \in Calls, ~Creates(call[r]), ~OnLog(call[r]),
         NEW adr \in AdrRow
  PROVE  Altered(r, adr) \in AdrRow
<1>1. call[r].op = "adr_update" => call[r].sprint \in SprintLink
  BY CallFields
<1>2. call[r].op \in {"adr_update", "adr_delete"}
  BY CallFields DEF Creates, OnLog
<1> QED
  BY <1>1, <1>2 DEF Altered, AdrRow

EventOf(r) == [by |-> r, sprint |-> IF Creates(call[r]) THEN sprint[r] ELSE row[r].sprint]

LEMMA EventType ==
  ASSUME TypeOK, NEW r \in Requests, pc[r] \in {"event", "updated"}
  PROVE  EventOf(r) \in Event
<1>1. row[r] \in LogRow \cup AdrRow /\ sprint[r] \in SprintLink
  BY DEF TypeOK, Ready, RowsOf
<1>2. row[r].sprint \in SprintLink
  BY <1>1 DEF LogRow, AdrRow
<1> QED
  BY <1>1, <1>2 DEF EventOf, Event

(***************************************************************************)
(* What one step of the system can do to the tables, and with what in hand.*)
(***************************************************************************)
WritesLog(id, log) == log \in LogRow /\ LogAllowed(id, log) /\ PutLog(id, log)
WritesAdr(id, adr) == adr \in AdrRow /\ SprintRef(adr.sprint) /\ PutAdr(id, adr)
MovesCurrent == current' \in sprints \cup {Absent} /\ UNCHANGED <<logs, adrs, sprints, events>>

LEMMA FreshLog ==
  ASSUME NEW id \in LogIds, NextId(LiveLogs, id), NEW log, LogAllowed(Absent, log)
  PROVE  LogAllowed(id, log)
  BY AbsentAssumption DEF LogAllowed, LiveLogs

LEMMA StoreSteps ==
  ASSUME TypeOK, [Next]_vars
  PROVE  \/ UNCHANGED store
         \/ \E id \in LogIds, log \in LogRow : WritesLog(id, log)
         \/ \E id \in LogIds : PutLog(id, Absent)
         \/ \E id \in AdrIds, adr \in AdrRow : WritesAdr(id, adr)
         \/ \E id \in AdrIds : PutAdr(id, Absent)
         \/ \E s \in SprintIds : SprintDeleted(s)
         \/ MovesCurrent
         \/ \E event \in Event : AppendEvent(event)
<1>1. ASSUME NEW r \in Requests, Refuse(r) \/ Interrupt(r) PROVE UNCHANGED store
  BY <1>1 DEF Refuse, Interrupt
<1>2. ASSUME NEW r \in Requests, NEW c \in Calls, Arrive(r, c) PROVE UNCHANGED store
  BY <1>2 DEF Arrive
<1>3. ASSUME NEW r \in Requests, InsertLog(r), ~Refuse(r)
      PROVE  \E id \in LogIds, log \in LogRow : WritesLog(id, log)
  <2>1. row[r] \in LogRow
    BY <1>3 DEF InsertLog, TypeOK, Ready, RowsOf
  <2>2. PICK id \in LogIds : NextId(LiveLogs, id) /\ PutLog(id, row[r])
    BY <1>3 DEF InsertLog
  <2> QED
    BY <1>3, <2>1, <2>2, FreshLog DEF InsertLog, WritesLog
<1>4. ASSUME NEW r \in Requests, UpdateLog(r), ~Refuse(r)
      PROVE  \E id \in LogIds, log \in LogRow : WritesLog(id, log)
  BY <1>4 DEF UpdateLog, WritesLog, TypeOK, Ready, RowsOf, IdsOf
<1>5. ASSUME NEW r \in Requests, DropLog(r), ~Refuse(r) PROVE \E id \in LogIds : PutLog(id, Absent)
  BY <1>5 DEF DropLog, TypeOK, Ready, IdsOf
<1>6. ASSUME NEW r \in Requests, InsertAdr(r), ~Refuse(r)
      PROVE  \E id \in AdrIds, adr \in AdrRow : WritesAdr(id, adr)
  BY <1>6 DEF InsertAdr, WritesAdr, TypeOK, Ready, RowsOf
<1>7. ASSUME NEW r \in Requests, UpdateAdr(r), ~Refuse(r)
      PROVE  \E id \in AdrIds, adr \in AdrRow : WritesAdr(id, adr)
  BY <1>7 DEF UpdateAdr, WritesAdr, TypeOK, Ready, RowsOf, IdsOf
<1>8. ASSUME NEW r \in Requests, DropAdr(r), ~Refuse(r) PROVE \E id \in AdrIds : PutAdr(id, Absent)
  BY <1>8 DEF DropAdr, TypeOK, Ready, IdsOf
<1>9. ASSUME NEW r \in Requests, LogEvent(r) PROVE \E event \in Event : AppendEvent(event)
  BY <1>9, EventType DEF LogEvent, EventOf
<1>10. ASSUME NEW r \in Requests, ~Refuse(r),
              \/ DefaultSprint(r) \/ FindByDate(r) \/ GetLog(r) \/ PickNumber(r)
              \/ ReadBackAdr(r) \/ GetAdr(r) \/ Reply(r)
       PROVE  UNCHANGED store
  BY <1>10 DEF DefaultSprint, FindByDate, GetLog, PickNumber, ReadBackAdr, GetAdr, Reply
<1>11. ASSUME Elsewhere PROVE MovesCurrent \/ \E s \in SprintIds : SprintDeleted(s)
  BY <1>11 DEF Elsewhere, MovesCurrent, TypeOK
<1> QED
  BY <1>1, <1>2, <1>3, <1>4, <1>5, <1>6, <1>7, <1>8, <1>9, <1>10, <1>11
  DEF Next, Work, vars, store

(***************************************************************************)
(* Type correctness, which here includes that no handler reaches a store   *)
(* call without the values it passes to it.                                *)
(***************************************************************************)
LEMMA UnlinkType ==
  ASSUME NEW ids, NEW Row, NEW table \in [ids -> Row \cup {Absent}], NEW s,
         \A e \in Row : [e EXCEPT !.sprint = Absent] \in Row
  PROVE  Unlink(table, ids, s) \in [ids -> Row \cup {Absent}]
  BY DEF Unlink

LEMMA StepStoreTypeOK ==
  ASSUME TypeOK, [Next]_vars
  PROVE  StoreTypeOK'
<1> USE DEF TypeOK, StoreTypeOK
<1>1. CASE UNCHANGED store
  BY <1>1 DEF store
<1>2. ASSUME NEW id \in LogIds, NEW log \in LogRow \cup {Absent}, PutLog(id, log) PROVE StoreTypeOK'
  BY <1>2 DEF PutLog
<1>3. ASSUME NEW id \in AdrIds, NEW adr \in AdrRow \cup {Absent}, PutAdr(id, adr) PROVE StoreTypeOK'
  BY <1>3 DEF PutAdr
<1>4. ASSUME NEW s \in SprintIds, SprintDeleted(s) PROVE StoreTypeOK'
  <2>1. \A e \in LogRow : [e EXCEPT !.sprint = Absent] \in LogRow
    BY DEF LogRow, SprintLink
  <2>2. \A e \in AdrRow : [e EXCEPT !.sprint = Absent] \in AdrRow
    BY DEF AdrRow, SprintLink
  <2>3. logs' \in [LogIds -> LogRow \cup {Absent}]
    BY <1>4, <2>1, UnlinkType DEF SprintDeleted
  <2>4. adrs' \in [AdrIds -> AdrRow \cup {Absent}]
    BY <1>4, <2>2, UnlinkType DEF SprintDeleted
  <2>5. events' \subseteq Event
    BY <1>4 DEF SprintDeleted, Event, SprintLink
  <2> QED
    BY <1>4, <2>3, <2>4, <2>5 DEF SprintDeleted
<1>5. CASE MovesCurrent
  BY <1>5 DEF MovesCurrent
<1>6. ASSUME NEW event \in Event, AppendEvent(event) PROVE StoreTypeOK'
  BY <1>6 DEF AppendEvent
<1> QED
  BY <1>1, <1>2, <1>3, <1>4, <1>5, <1>6, StoreSteps DEF WritesLog, WritesAdr

(***************************************************************************)
(* Each action leaves every handler with what its next step needs.         *)
(***************************************************************************)
LEMMA StepReady ==
  ASSUME TypeOK, NEW r \in Requests, Work(r)
  PROVE  LocalTypeOK' /\ \A q \in Requests : Ready(q)'
<1> DEFINE Good == LocalTypeOK' /\ \A q \in Requests : Ready(q)'
<1>1. CASE Refuse(r)
  <2>1. pc[r] # "idle"
    BY DEF Work, DefaultSprint, FindByDate, InsertLog, UpdateLog, GetLog, DropLog, PickNumber,
       InsertAdr, ReadBackAdr, GetAdr, UpdateAdr, DropAdr, LogEvent, Reply
  <2> QED
    BY <1>1, <2>1, EndReady DEF Refuse, Ends
<1>2. CASE DefaultSprint(r)
  <2>1. LocalTypeOK'
    BY <1>2 DEF DefaultSprint, LocalTypeOK, TypeOK, Goto, Steps, SprintLink
  <2>2. Ready(r)'
    BY <1>2 DEF DefaultSprint, TypeOK, Goto, Ready
  <2> QED
    BY <1>2, <2>1, <2>2, OthersReady DEF DefaultSprint, Goto, TypeOK
<1>3. CASE FindByDate(r)
  <2>1. call[r] \in Calls /\ call[r].op = "log" /\ call[r].date \in Dates
    BY <1>3, CallFields DEF FindByDate, TypeOK, Ready
  <2>2. ASSUME NEW id \in LogIds, LiveLog(id), Hold(r, id, [logs[id] EXCEPT !.by = r], "update")
        PROVE  Good
    <3>1. [logs[id] EXCEPT !.by = r] \in LogRow
      BY <2>2 DEF LiveLog, TypeOK, LogRow
    <3>2. Ready(r)'
      BY <2>1, <2>2, <3>1 DEF Hold, Goto, TypeOK, Ready, IdsOf, RowsOf, OnLog
    <3> QED
      BY <2>2, <3>1, <3>2, HoldReady DEF Steps
  <2> DEFINE new == [sprint |-> sprint[r], date |-> call[r].date, by |-> r]
  <2>3. ASSUME Hold(r, Absent, new, "insert") PROVE Good
    <3>1. new \in LogRow
      BY <2>1 DEF TypeOK, LogRow
    <3> HIDE DEF new
    <3>2. Ready(r)'
      BY <2>1, <2>3, <3>1 DEF Hold, Goto, TypeOK, Ready, RowsOf, OnLog, Creates
    <3> QED
      BY <2>3, <3>1, <3>2, HoldReady DEF Steps
  <2> QED
    BY <1>3, <2>2, <2>3 DEF FindByDate, OfSprintAndDay
<1>4. CASE InsertLog(r) /\ ~Refuse(r)
  <2>1. PICK id \in LogIds : Hold(r, id, row[r], "readback")
    BY <1>4 DEF InsertLog
  <2>2. call[r] \in Calls /\ Creates(call[r]) /\ OnLog(call[r]) /\ row[r] \in LogRow
    BY <1>4 DEF InsertLog, TypeOK, Ready, RowsOf
  <2>3. Ready(r)'
    BY <2>1, <2>2 DEF Hold, Goto, TypeOK, Ready, IdsOf
  <2> QED
    BY <2>1, <2>2, <2>3, HoldReady DEF Steps
<1>5. CASE UpdateLog(r) /\ ~Refuse(r)
  <2>1. Ready(r)'
    BY <1>5 DEF UpdateLog, Continue, Goto, TypeOK, Ready
  <2> QED
    BY <1>5, <2>1, ContinueReady DEF UpdateLog, Steps
<1>6. CASE GetLog(r) /\ ~Refuse(r)
  <2> DEFINE step == IF pc[r] = "get" THEN "drop" ELSE "event"
  <2>1. call[r] \in Calls /\ OnLog(call[r]) /\ target[r] \in LogIds
    BY <1>6 DEF GetLog, TypeOK, Ready, IdsOf
  <2>2. logs[target[r]] \in LogRow /\ Hold(r, target[r], logs[target[r]], step)
    BY <1>6, <2>1 DEF GetLog, LiveLog, TypeOK
  <2>3. pc[r] = "get" => Deletes(call[r])
    BY <1>6, <2>1, CallFields DEF GetLog, TypeOK, Ready, Deletes, Creates, OnLog
  <2>4. Ready(r)'
    BY <1>6, <2>1, <2>2, <2>3 DEF GetLog, Hold, Goto, TypeOK, Ready, IdsOf, RowsOf
  <2> QED
    BY <2>1, <2>2, <2>4, HoldReady DEF Steps
<1>7. CASE DropLog(r) /\ ~Refuse(r)
  <2>1. Ready(r)'
    BY <1>7 DEF DropLog, Continue, Goto, TypeOK, Ready
  <2> QED
    BY <1>7, <2>1, ContinueReady DEF DropLog, Steps
<1>8. CASE PickNumber(r)
  <2>1. PICK n \in {0} \cup {adrs[id].number : id \in LiveAdrs} :
          Hold(r, Absent, NewAdr(r, call[r], n + 1), "insert")
    BY <1>8 DEF PickNumber
  <2>2. n \in Nat
    BY DEF LiveAdrs, LiveAdr, TypeOK, AdrRow
  <2>3. call[r] \in Calls /\ call[r].op = "adr"
    BY <1>8 DEF PickNumber, TypeOK, Ready
  <2>4. n + 1 \in Nat \ {0}
    BY <2>2
  <2> DEFINE new == NewAdr(r, call[r], n + 1)
  <2>5. new \in AdrRow
    BY <2>3, <2>4, NewAdrType
  <2>6. Hold(r, Absent, new, "insert")
    BY <2>1
  <2> HIDE DEF new
  <2>7. Ready(r)'
    BY <2>3, <2>5, <2>6 DEF Hold, Goto, TypeOK, Ready, RowsOf, OnLog, Creates
  <2> QED
    BY <2>5, <2>6, <2>7, HoldReady DEF Steps
<1>9. CASE InsertAdr(r) /\ ~Refuse(r)
  <2>1. PICK id \in AdrIds : Hold(r, id, row[r], "readback")
    BY <1>9 DEF InsertAdr
  <2>2. call[r] \in Calls /\ Creates(call[r]) /\ ~OnLog(call[r]) /\ row[r] \in AdrRow
    BY <1>9 DEF InsertAdr, TypeOK, Ready, RowsOf
  <2>3. Ready(r)'
    BY <2>1, <2>2 DEF Hold, Goto, TypeOK, Ready, IdsOf
  <2> QED
    BY <2>1, <2>2, <2>3, HoldReady DEF Steps
<1>10. CASE ReadBackAdr(r) /\ ~Refuse(r)
  <2>1. call[r] \in Calls /\ ~OnLog(call[r]) /\ target[r] \in AdrIds
    BY <1>10 DEF ReadBackAdr, TypeOK, Ready, IdsOf
  <2>2. adrs[target[r]] \in AdrRow /\ Hold(r, target[r], adrs[target[r]], "event")
    BY <1>10, <2>1 DEF ReadBackAdr, LiveAdr, TypeOK
  <2>3. Ready(r)'
    BY <2>1, <2>2 DEF Hold, Goto, TypeOK, Ready, IdsOf, RowsOf
  <2> QED
    BY <2>1, <2>2, <2>3, HoldReady DEF Steps
<1>11. CASE GetAdr(r) /\ ~Refuse(r)
  <2> DEFINE new == Altered(r, adrs[target[r]])
             step == IF Deletes(call[r]) THEN "drop" ELSE "update"
  <2>1. call[r] \in Calls /\ ~OnLog(call[r]) /\ ~Creates(call[r]) /\ target[r] \in AdrIds
    BY <1>11 DEF GetAdr, TypeOK, Ready, IdsOf
  <2>2. adrs[target[r]] \in AdrRow
    BY <1>11, <2>1 DEF GetAdr, LiveAdr, TypeOK
  <2>3. new \in AdrRow
    BY <2>1, <2>2, AlteredType
  <2>4. Hold(r, target[r], new, step)
    BY <1>11 DEF GetAdr
  <2>5. ~Deletes(call[r]) => call[r].op = "adr_update"
    BY <2>1, CallFields DEF Deletes, Creates, OnLog
  <2> HIDE DEF new
  <2>6. Ready(r)'
    BY <2>1, <2>3, <2>4, <2>5 DEF Hold, Goto, TypeOK, Ready, IdsOf, RowsOf
  <2> QED
    BY <2>1, <2>3, <2>4, <2>6, HoldReady DEF Steps
<1>12. CASE UpdateAdr(r) /\ ~Refuse(r)
  <2>1. Ready(r)'
    BY <1>12 DEF UpdateAdr, Continue, Goto, TypeOK, Ready
  <2> QED
    BY <1>12, <2>1, ContinueReady DEF UpdateAdr, Steps
<1>13. CASE DropAdr(r) /\ ~Refuse(r)
  <2>1. Ready(r)'
    BY <1>13 DEF DropAdr, Continue, Goto, TypeOK, Ready
  <2> QED
    BY <1>13, <2>1, ContinueReady DEF DropAdr, Steps
<1>14. CASE LogEvent(r)
  <2>1. CASE pc[r] = "updated"
    <3>1. Continue(r, "reply")
      BY <1>14, <2>1 DEF LogEvent
    <3>2. Ready(r)'
      BY <2>1, <3>1 DEF Continue, Goto, TypeOK, Ready
    <3> QED
      BY <3>1, <3>2, ContinueReady DEF Steps
  <2>2. CASE pc[r] # "updated"
    BY <1>14, <2>2, EndReady DEF LogEvent, Ends
  <2> QED
    BY <2>1, <2>2
<1>15. CASE Reply(r)
  BY <1>1, <1>15, EndReady DEF Reply, Ends
<1> QED
  BY <1>1, <1>2, <1>3, <1>4, <1>5, <1>6, <1>7, <1>8, <1>9, <1>10, <1>11, <1>12, <1>13, <1>14, <1>15
  DEF Work

LEMMA ArriveReady ==
  ASSUME TypeOK, NEW r \in Requests, NEW c \in Calls, Arrive(r, c)
  PROVE  LocalTypeOK' /\ \A q \in Requests : Ready(q)'
<1>1. /\ Creates(c) => c.op = "log" \/ (c.op = "adr" /\ c.number \in Numbers \cup {0})
      /\ Creates(c) => c.sprint \in SprintLink
      /\ ~Creates(c) => c.id \in IdsOf(c)
  BY CallFields DEF Creates
<1>2. FirstStep(c) \in Steps
  BY DEF FirstStep, Steps
<1> DEFINE new == IF c.op = "adr" /\ c.number # 0 THEN NewAdr(r, c, c.number) ELSE Absent
<1>3. c.op = "adr" /\ c.number # 0 => new \in AdrRow
  BY <1>1, NewAdrType, NumbersAssumption DEF Creates
<1>4. new \in AdrRow \cup {Absent}
  BY <1>3
<1>5. row' = [row EXCEPT ![r] = new]
  BY DEF Arrive
<1> HIDE DEF new
<1>6. LocalTypeOK'
  BY <1>1, <1>2, <1>4, <1>5 DEF Arrive, LocalTypeOK, TypeOK, Goto, IdsOf, SprintLink
<1>7. Ready(r)'
  BY <1>1, <1>3, <1>5, CallFields
  DEF Arrive, TypeOK, Goto, Ready, FirstStep, IdsOf, RowsOf, OnLog, Creates, Deletes
<1> QED
  BY <1>6, <1>7, OthersReady, <1>5 DEF Arrive, Goto, TypeOK

LEMMA StepTypeOK ==
  ASSUME TypeOK, [Next]_vars
  PROVE  TypeOK'
<1>1. StoreTypeOK'
  BY StepStoreTypeOK
<1> DEFINE Good == LocalTypeOK' /\ \A q \in Requests : Ready(q)'
<1>2. Good
  <2>1. ASSUME UNCHANGED <<pc, call, sprint, target, row>> PROVE Good
    BY <2>1 DEF TypeOK, LocalTypeOK, Ready
  <2>2. ASSUME NEW r \in Requests, Interrupt(r) PROVE Good
    BY <2>2, EndReady DEF Interrupt, InFlight, Steps, Ends
  <2> QED
    BY <2>1, <2>2, StepReady, ArriveReady DEF Next, Elsewhere, vars
<1>3. overlap' = overlap
  BY DEF Next, vars
<1> QED
  BY <1>1, <1>2, <1>3 DEF StoreTypeOK, LocalTypeOK, TypeOK

LEMMA InitTypeOK == Init => TypeOK
  BY DEF Init, TypeOK, Ready, Nothing, SprintLink

\* The tables have the shape the code gives them, and no handler of logs or
\* records reaches a store call without the values it passes to it.
THEOREM TypeCorrect == Spec => []TypeOK
<1>1. TypeOK /\ [Next]_vars => TypeOK'
  BY StepTypeOK
<1> QED
  BY <1>1, InitTypeOK, PTL DEF Spec

(***************************************************************************)
(* One log per sprint and day.  The index is checked on every write, so    *)
(* the invariant rests on TypeOK alone: a deletion, and the deletion of a  *)
(* sprint, only take logs out of reach of the index.                       *)
(***************************************************************************)
LEMMA WriteKeepsOneLog ==
  ASSUME TypeOK, OneLogPerSprintDay, NEW k \in LogIds, NEW log \in LogRow, WritesLog(k, log)
  PROVE  OneLogPerSprintDay'
<1> SUFFICES ASSUME NEW i \in LiveLogs', NEW j \in LiveLogs', i # j,
                    logs'[i].sprint = logs'[j].sprint, logs'[i].date = logs'[j].date
             PROVE  logs'[i].sprint = Absent
  BY DEF OneLogPerSprintDay
<1>1. logs' = [logs EXCEPT ![k] = log]
  BY DEF WritesLog, PutLog
<1>2. ASSUME NEW x \in LogIds, x # k PROVE logs'[x] = logs[x] /\ (x \in LiveLogs' => x \in LiveLogs)
  BY <1>1, <1>2 DEF LiveLogs, LiveLog, TypeOK
<1>3. logs'[k] = log
  BY <1>1 DEF TypeOK
<1>4. i \in LogIds /\ j \in LogIds
  BY DEF LiveLogs
<1>5. CASE i = k
  BY <1>2, <1>3, <1>4, <1>5 DEF WritesLog, LogAllowed
<1>6. CASE j = k
  BY <1>2, <1>3, <1>4, <1>6 DEF WritesLog, LogAllowed
<1>7. CASE i # k /\ j # k
  BY <1>2, <1>4, <1>7 DEF OneLogPerSprintDay
<1> QED
  BY <1>5, <1>6, <1>7

LEMMA StepOneLog ==
  ASSUME TypeOK, OneLogPerSprintDay, [Next]_vars
  PROVE  OneLogPerSprintDay'
<1>1. ASSUME UNCHANGED logs PROVE OneLogPerSprintDay'
  BY <1>1 DEF OneLogPerSprintDay, LiveLogs, LiveLog
<1>2. ASSUME NEW id \in LogIds, PutLog(id, Absent) PROVE OneLogPerSprintDay'
  <2>1. \A x \in LiveLogs' : x \in LiveLogs /\ logs'[x] = logs[x]
    BY <1>2 DEF PutLog, LiveLogs, LiveLog, TypeOK
  <2> QED
    BY <2>1 DEF OneLogPerSprintDay
<1>3. ASSUME NEW s \in SprintIds, SprintDeleted(s) PROVE OneLogPerSprintDay'
  <2>1. ASSUME NEW x \in LiveLogs'
        PROVE  /\ x \in LiveLogs /\ logs'[x].date = logs[x].date
               /\ logs'[x].sprint = logs[x].sprint \/ logs'[x].sprint = Absent
    BY <1>3, AbsentAssumption DEF SprintDeleted, Unlink, LiveLogs, LiveLog, TypeOK, LogRow
  <2> QED
    BY <2>1 DEF OneLogPerSprintDay
<1> QED
  BY <1>1, <1>2, <1>3, WriteKeepsOneLog, StoreSteps
  DEF store, WritesLog, WritesAdr, PutAdr, MovesCurrent, AppendEvent

\* A sprint has one log a day, whatever requests overlap and wherever they are
\* cut off.
THEOREM AlwaysOneLogPerSprintDay == Spec => []OneLogPerSprintDay
<1>1. Init => OneLogPerSprintDay
  BY DEF Init, OneLogPerSprintDay, LiveLogs, LiveLog
<1>2. TypeOK /\ OneLogPerSprintDay /\ [Next]_vars => OneLogPerSprintDay'
  BY StepOneLog
<1> QED
  BY <1>1, <1>2, TypeCorrect, PTL DEF Spec

(***************************************************************************)
(* No reference to a sprint that is gone.                                  *)
(***************************************************************************)
LEMMA StepLinks ==
  ASSUME TypeOK, LinksAreLive, [Next]_vars
  PROVE  LinksAreLive'
<1> USE DEF LinksAreLive
<1>1. ASSUME UNCHANGED <<logs, adrs, sprints, events>> PROVE LinksAreLive'
  BY <1>1 DEF LiveLogs, LiveLog, LiveAdrs, LiveAdr, SprintRef
<1>2. ASSUME NEW id \in LogIds, NEW log \in LogRow, WritesLog(id, log) PROVE LinksAreLive'
  BY <1>2 DEF WritesLog, LogAllowed, PutLog, LiveLogs, LiveLog, LiveAdrs, LiveAdr, SprintRef, TypeOK
<1>3. ASSUME NEW id \in LogIds, PutLog(id, Absent) PROVE LinksAreLive'
  BY <1>3 DEF PutLog, LiveLogs, LiveLog, LiveAdrs, LiveAdr, SprintRef, TypeOK
<1>4. ASSUME NEW id \in AdrIds, NEW adr \in AdrRow, WritesAdr(id, adr) PROVE LinksAreLive'
  BY <1>4 DEF WritesAdr, PutAdr, LiveLogs, LiveLog, LiveAdrs, LiveAdr, SprintRef, TypeOK
<1>5. ASSUME NEW id \in AdrIds, PutAdr(id, Absent) PROVE LinksAreLive'
  BY <1>5 DEF PutAdr, LiveLogs, LiveLog, LiveAdrs, LiveAdr, SprintRef, TypeOK
<1>6. ASSUME NEW s \in SprintIds, SprintDeleted(s) PROVE LinksAreLive'
  <2>1. \A id \in LiveLogs' : id \in LiveLogs /\
          (logs'[id].sprint = Absent \/ (logs'[id].sprint = logs[id].sprint /\ logs[id].sprint # s))
    BY <1>6 DEF SprintDeleted, Unlink, LiveLogs, LiveLog, TypeOK, LogRow
  <2>2. \A id \in LiveAdrs' : id \in LiveAdrs /\
          (adrs'[id].sprint = Absent \/ (adrs'[id].sprint = adrs[id].sprint /\ adrs[id].sprint # s))
    BY <1>6 DEF SprintDeleted, Unlink, LiveAdrs, LiveAdr, TypeOK, AdrRow
  <2>3. \A e \in events' : SprintRef(e.sprint) /\ e.sprint # s
    BY <1>6, AbsentAssumption DEF SprintDeleted, SprintRef, TypeOK, Event
  <2>4. sprints' = sprints \ {s}
    BY <1>6 DEF SprintDeleted
  <2> QED
    BY <2>1, <2>2, <2>3, <2>4 DEF SprintRef
<1>7. ASSUME NEW event \in Event, AppendEvent(event) PROVE LinksAreLive'
  BY <1>7 DEF AppendEvent, LiveLogs, LiveLog, LiveAdrs, LiveAdr, SprintRef
<1> QED
  BY <1>1, <1>2, <1>3, <1>4, <1>5, <1>6, <1>7, StoreSteps DEF store, MovesCurrent

\* No log, record or event refers to a sprint that is gone, wherever the
\* deletion falls between the calls of a handler that holds its id.
THEOREM AlwaysLinksAreLive == Spec => []LinksAreLive
<1>1. Init => LinksAreLive
  BY DEF Init, LinksAreLive, LiveLogs, LiveLog, LiveAdrs, LiveAdr
<1>2. TypeOK /\ LinksAreLive /\ [Next]_vars => LinksAreLive'
  BY StepLinks
<1> QED
  BY <1>1, <1>2, TypeCorrect, PTL DEF Spec

(***************************************************************************)
(* The numbers of records, when requests do not overlap and no form gives  *)
(* a number.  What makes NumbersDiffer inductive is what the one request   *)
(* in flight has in hand: a number that no record has, or that of the      *)
(* record it will write.                                                   *)
(***************************************************************************)
Distinct == \A i, j \in LiveAdrs : adrs[i].number = adrs[j].number => i = j

OneAtATime == \A q, r \in Requests : InFlight(q) /\ InFlight(r) => q = r

InHand(r) ==
  ~OnLog(call[r]) =>
    /\ pc[r] = "insert" => \A id \in LiveAdrs : adrs[id].number # row[r].number
    /\ pc[r] = "update" => (LiveAdr(target[r]) => adrs[target[r]].number = row[r].number)

NumbersInv == OneAtATime /\ Distinct /\ \A r \in Requests : InHand(r)

LEMMA WorkFrame ==
  ASSUME TypeOK, NEW r \in Requests, Work(r) \/ Interrupt(r)
  PROVE  /\ InFlight(r) /\ call' = call
         /\ \A q \in Requests \ {r} : pc'[q] = pc[q] /\ row'[q] = row[q] /\ target'[q] = target[q]
<1> DEFINE Frame == /\ call' = call
                    /\ \A q \in Requests \ {r} : pc'[q] = pc[q] /\ row'[q] = row[q] /\ target'[q] = target[q]
<1>1. ASSUME NEW how, End(r, how) PROVE Frame
  BY <1>1 DEF End, Goto, TypeOK
<1>2. ASSUME NEW step, Continue(r, step) PROVE Frame
  BY <1>2 DEF Continue, Goto, TypeOK
<1>3. ASSUME NEW id, NEW copy, NEW step, Hold(r, id, copy, step) PROVE Frame
  BY <1>3 DEF Hold, Goto, TypeOK
<1>4. DefaultSprint(r) => Frame
  BY DEF DefaultSprint, Goto, TypeOK
<1> HIDE DEF Frame
<1>5. Refuse(r) \/ Interrupt(r) \/ LogEvent(r) \/ Reply(r) => Frame
  BY <1>1, <1>2 DEF Refuse, Interrupt, LogEvent, Reply
<1>6. FindByDate(r) \/ InsertLog(r) \/ GetLog(r) \/ PickNumber(r) \/ InsertAdr(r)
      \/ ReadBackAdr(r) \/ GetAdr(r) => Frame
  BY <1>3, <1>5 DEF FindByDate, InsertLog, GetLog, PickNumber, InsertAdr, ReadBackAdr, GetAdr
<1>7. UpdateLog(r) \/ DropLog(r) \/ UpdateAdr(r) \/ DropAdr(r) => Frame
  BY <1>2, <1>5 DEF UpdateLog, DropLog, UpdateAdr, DropAdr
<1>8. Frame
  BY <1>4, <1>5, <1>6, <1>7 DEF Work
<1>9. InFlight(r)
  BY DEF Work, Interrupt, InFlight, Steps, DefaultSprint, FindByDate, InsertLog, UpdateLog, GetLog,
     DropLog, PickNumber, InsertAdr, ReadBackAdr, GetAdr, UpdateAdr, DropAdr, LogEvent, Reply
<1> QED
  BY <1>8, <1>9 DEF Frame

LEMMA WorkGoesOn ==
  ASSUME TypeOK, NEW r \in Requests, Work(r) \/ Interrupt(r)
  PROVE  pc'[r] # "idle"
<1>1. ASSUME NEW how \in Ends, End(r, how) PROVE pc'[r] # "idle"
  BY <1>1 DEF End, Goto, TypeOK, Ends
<1>2. ASSUME NEW step \in Steps, Goto(r, step) PROVE pc'[r] # "idle"
  BY <1>2 DEF Goto, TypeOK, Steps
<1>3. Interrupt(r) \/ Refuse(r) => pc'[r] # "idle"
  BY <1>1 DEF Interrupt, Refuse, Ends
<1>4. DefaultSprint(r) \/ FindByDate(r) \/ InsertLog(r) \/ UpdateLog(r) \/ GetLog(r) \/ DropLog(r)
      => pc'[r] # "idle"
  BY <1>2, <1>3 DEF DefaultSprint, FindByDate, InsertLog, UpdateLog, GetLog, DropLog, Hold, Continue, Steps
<1>5. PickNumber(r) \/ InsertAdr(r) \/ ReadBackAdr(r) \/ GetAdr(r) \/ UpdateAdr(r) \/ DropAdr(r)
      => pc'[r] # "idle"
  BY <1>2, <1>3 DEF PickNumber, InsertAdr, ReadBackAdr, GetAdr, UpdateAdr, DropAdr, Hold, Continue, Steps
<1>6. LogEvent(r) \/ Reply(r) => pc'[r] # "idle"
  BY <1>1, <1>2, <1>3 DEF LogEvent, Reply, Continue, Steps, Ends
<1> QED
  BY <1>3, <1>4, <1>5, <1>6 DEF Work

\* What a request does to the numbers, and what it has in hand afterwards.
LEMMA WorkInHand ==
  ASSUME TypeOK, Distinct, NEW r \in Requests, InHand(r), Work(r) \/ Interrupt(r)
  PROVE  Distinct' /\ InHand(r)'
<1>1. ASSUME UNCHANGED adrs PROVE Distinct'
  BY <1>1 DEF Distinct, LiveAdrs, LiveAdr
<1>2. call' = call
  BY WorkFrame
<1>3. ASSUME pc'[r] \notin {"insert", "update"} PROVE InHand(r)'
  BY <1>3 DEF InHand
<1>4. ASSUME OnLog(call[r]) PROVE InHand(r)'
  BY <1>2, <1>4 DEF InHand
<1>5. CASE Refuse(r) \/ Interrupt(r)
  <2>1. adrs' = adrs /\ pc'[r] \in {"partial", "refused", "cut", "late"}
    BY <1>5 DEF Refuse, Interrupt, End, Goto, TypeOK, store
  <2> QED
    BY <1>1, <1>3, <2>1
<1>6. CASE DefaultSprint(r) \/ FindByDate(r)
  BY <1>1, <1>4, <1>6 DEF DefaultSprint, FindByDate, TypeOK, Ready, OnLog, store
<1>7. CASE (InsertLog(r) \/ UpdateLog(r) \/ GetLog(r) \/ DropLog(r)) /\ ~Refuse(r)
  BY <1>1, <1>4, <1>7 DEF InsertLog, UpdateLog, GetLog, DropLog, PutLog, store
<1>8. CASE PickNumber(r)
  <2>1. PICK n \in {0} \cup {adrs[id].number : id \in LiveAdrs} :
          MaxNumber(n) /\ Hold(r, Absent, NewAdr(r, call[r], n + 1), "insert")
    BY <1>8 DEF PickNumber
  <2>2. n \in Nat /\ \A id \in LiveAdrs : adrs[id].number \in Nat
    BY DEF LiveAdrs, LiveAdr, TypeOK, AdrRow
  <2>3. row'[r].number = n + 1 /\ pc'[r] = "insert" /\ adrs' = adrs
    BY <1>8, <2>1 DEF Hold, Goto, NewAdr, TypeOK, PickNumber, store
  <2>4. \A id \in LiveAdrs : adrs[id].number # n + 1
    BY <2>1, <2>2 DEF MaxNumber
  <2> QED
    BY <1>1, <2>3, <2>4 DEF InHand, LiveAdrs, LiveAdr
<1>9. CASE InsertAdr(r) /\ ~Refuse(r)
  <2>1. PICK k \in AdrIds : PutAdr(k, row[r]) /\ Hold(r, k, row[r], "readback")
    BY <1>9 DEF InsertAdr
  <2>2. \A x \in LiveAdrs' : x = k \/ (x \in LiveAdrs /\ adrs'[x] = adrs[x])
    BY <2>1 DEF PutAdr, LiveAdrs, LiveAdr, TypeOK
  <2>3. adrs'[k] = row[r] /\ pc'[r] = "readback"
    BY <2>1 DEF PutAdr, Hold, Goto, TypeOK
  <2>4. \A x \in LiveAdrs : adrs[x].number # row[r].number
    BY <1>9 DEF InsertAdr, InHand
  <2> QED
    BY <1>3, <2>2, <2>3, <2>4 DEF Distinct
<1>10. CASE UpdateAdr(r) /\ ~Refuse(r)
  <2>1. LiveAdr(target[r]) /\ target[r] \in AdrIds /\ PutAdr(target[r], row[r]) /\ Continue(r, "updated")
    BY <1>10 DEF UpdateAdr, TypeOK, Ready, IdsOf
  <2>2. adrs[target[r]].number = row[r].number
    BY <1>10, <2>1 DEF UpdateAdr, InHand
  <2>3. \A x \in LiveAdrs' : x \in LiveAdrs /\ adrs'[x].number = adrs[x].number
    BY <2>1, <2>2 DEF PutAdr, LiveAdrs, LiveAdr, TypeOK
  <2>4. pc'[r] = "updated"
    BY <2>1 DEF Continue, Goto, TypeOK
  <2> QED
    BY <1>3, <2>3, <2>4 DEF Distinct
<1>11. CASE DropAdr(r) /\ ~Refuse(r)
  <2>1. \A x \in LiveAdrs' : x \in LiveAdrs /\ adrs'[x] = adrs[x]
    BY <1>11 DEF DropAdr, PutAdr, LiveAdrs, LiveAdr, TypeOK, Ready, IdsOf
  <2>2. pc'[r] = "event"
    BY <1>11 DEF DropAdr, Continue, Goto, TypeOK
  <2> QED
    BY <1>3, <2>1, <2>2 DEF Distinct
<1>12. CASE GetAdr(r) /\ ~Refuse(r)
  <2>1. row'[r] = Altered(r, adrs[target[r]]) /\ target'[r] = target[r] /\ adrs' = adrs
    BY <1>12 DEF GetAdr, Hold, TypeOK, store
  <2>2. pc'[r] # "insert"
    BY <1>12 DEF GetAdr, Hold, Goto, TypeOK
  <2>3. LiveAdr(target[r]) /\ target[r] \in AdrIds
    BY <1>12 DEF GetAdr, TypeOK, Ready, IdsOf
  <2>4. Altered(r, adrs[target[r]]).number = adrs[target[r]].number
    BY <2>3 DEF Altered, LiveAdr, TypeOK, AdrRow
  <2> QED
    BY <1>1, <2>1, <2>2, <2>4 DEF InHand
<1>13. CASE ReadBackAdr(r) /\ ~Refuse(r)
  BY <1>1, <1>3, <1>13 DEF ReadBackAdr, Hold, Goto, TypeOK, store
<1>14. CASE LogEvent(r)
  BY <1>1, <1>3, <1>14 DEF LogEvent, AppendEvent, Continue, End, Goto, TypeOK
<1>15. CASE Reply(r)
  BY <1>1, <1>3, <1>5, <1>15 DEF Reply, End, Goto, TypeOK, store
<1> QED
  BY <1>5, <1>6, <1>7, <1>8, <1>9, <1>10, <1>11, <1>12, <1>13, <1>14, <1>15 DEF Work

LEMMA StepNumberedByCode ==
  ASSUME TypeOK, [Next]_vars, NumberedByCode'
  PROVE  NumberedByCode
<1> SUFFICES ASSUME NEW r \in Requests, pc[r] # "idle" PROVE pc'[r] # "idle" /\ call'[r] = call[r]
  BY DEF NumberedByCode
<1>1. ASSUME NEW q \in Requests, NEW c \in Calls, Arrive(q, c)
      PROVE  pc'[r] = pc[r] /\ call'[r] = call[r]
  BY <1>1 DEF Arrive, Goto, TypeOK
<1>2. ASSUME NEW q \in Requests, Work(q) \/ Interrupt(q)
      PROVE  pc'[r] # "idle" /\ call'[r] = call[r]
  BY <1>2, WorkFrame, WorkGoesOn
<1>3. CASE Elsewhere
  BY <1>3 DEF Elsewhere
<1> QED
  BY <1>1, <1>2, <1>3 DEF Next, vars

LEMMA StepNumbers ==
  ASSUME ~overlap, NumberedByCode', TypeOK, NumbersInv, [Next]_vars
  PROVE  NumbersInv'
<1>1. CASE UNCHANGED vars
  BY <1>1 DEF vars, NumbersInv, OneAtATime, Distinct, InHand, InFlight, LiveAdrs, LiveAdr
<1>2. ASSUME NEW r \in Requests, Work(r) \/ Interrupt(r) PROVE NumbersInv'
  <2>1. /\ InFlight(r) /\ call' = call /\ Distinct' /\ InHand(r)'
        /\ \A q \in Requests \ {r} : pc'[q] = pc[q] /\ ~InFlight(q)
    BY <1>2, WorkFrame, WorkInHand DEF NumbersInv, OneAtATime
  <2>2. OneAtATime'
    BY <2>1 DEF OneAtATime, InFlight
  <2>3. \A q \in Requests \ {r} : InHand(q)'
    BY <2>1 DEF InHand, InFlight, Steps
  <2> QED
    BY <2>1, <2>2, <2>3 DEF NumbersInv
<1>3. ASSUME NEW r \in Requests, NEW c \in Calls, Arrive(r, c) PROVE NumbersInv'
  <2>1. Quiet /\ adrs' = adrs /\ \A q \in Requests \ {r} : pc'[q] = pc[q]
    BY <1>3 DEF Arrive, Goto, TypeOK, store
  <2>2. pc'[r] \notin {"insert", "update"}
    <3>1. pc'[r] = FirstStep(c) /\ call'[r] = c
      BY <1>3 DEF Arrive, Goto, TypeOK
    <3>2. FirstStep(c) # "idle" /\ (c.op = "adr" /\ c.number = 0 => FirstStep(c) = "number")
      BY CallFields DEF FirstStep
    <3>3. c.op = "adr" => c.number = 0
      BY <3>1, <3>2 DEF NumberedByCode
    <3> QED
      BY <3>1, <3>3, CallFields DEF FirstStep
  <2>3. OneAtATime'
    BY <2>1 DEF OneAtATime, Quiet, InFlight
  <2>4. Distinct'
    BY <2>1 DEF NumbersInv, Distinct, LiveAdrs, LiveAdr
  <2>5. \A q \in Requests : InHand(q)'
    BY <2>1, <2>2 DEF InHand, Quiet, InFlight, Steps
  <2> QED
    BY <2>3, <2>4, <2>5 DEF NumbersInv
<1>4. CASE Elsewhere
  <2>1. Quiet /\ pc' = pc
    BY <1>4 DEF Elsewhere
  <2>2. \A x \in LiveAdrs' : x \in LiveAdrs /\ adrs'[x].number = adrs[x].number
    BY <1>4 DEF Elsewhere, SprintDeleted, Unlink, LiveAdrs, LiveAdr, TypeOK, AdrRow
  <2> QED
    BY <2>1, <2>2 DEF NumbersInv, Distinct, OneAtATime, InHand, Quiet, InFlight, Steps
<1> QED
  BY <1>1, <1>2, <1>3, <1>4 DEF Next

\* When requests come in turn and no form gives a number, no two records have
\* the same number, whatever is deleted and wherever a request is cut off.
THEOREM SerialNumbersDiffer == Spec => []NumbersDiffer
<1> DEFINE InTurn == ~overlap /\ NumberedByCode => NumbersInv
<1>1. Init => InTurn
  BY DEF Init, NumbersInv, OneAtATime, Distinct, InHand, InFlight, Steps, LiveAdrs, LiveAdr
<1>2. TypeOK /\ InTurn /\ [Next]_vars => InTurn'
  <2> SUFFICES ASSUME TypeOK, InTurn, [Next]_vars, ~overlap', NumberedByCode'
               PROVE  NumbersInv'
    OBVIOUS
  <2>1. ~overlap
    BY DEF Next, vars
  <2>2. NumberedByCode
    BY StepNumberedByCode
  <2> QED
    BY <2>1, <2>2, StepNumbers
<1>3. InTurn => NumbersDiffer
  BY DEF NumbersInv, NumbersDiffer, Distinct
<1> QED
  BY <1>1, <1>2, <1>3, TypeCorrect, PTL DEF Spec

(***************************************************************************)
(* Requests in turn, logs and records alike.                               *)
(*                                                                         *)
(* What the one in flight has read is still so: the log it is going to     *)
(* write over is the one it found, and the sprint its event will name is   *)
(* there.                                                                  *)
(***************************************************************************)
HasEvent(r) == \E e \in events : e.by = r

Subject(r) == IF call[r].sprint = Absent THEN current ELSE call[r].sprint

Agrees(r) ==
  /\ pc[r] = "current" => call[r].sprint = Absent
  /\ OnLog(call[r]) /\ pc[r] \in {"bydate", "insert", "update"} => sprint[r] = Subject(r)
  /\ OnLog(call[r]) /\ pc[r] \in {"insert", "update"} => row[r].date = call[r].date
  /\ pc[r] \in {"get", "drop"} => target[r] = call[r].id
  /\ pc[r] = "number" => sprint[r] = call[r].sprint
  /\ pc[r] = "insert" => row[r].sprint = sprint[r] /\ (OnLog(call[r]) => row[r].by = r)
  /\ pc[r] = "update" /\ OnLog(call[r]) =>
       /\ OfSprintAndDay(target[r], row[r].sprint, row[r].date)
       /\ row[r].by = r /\ row[r].sprint = sprint[r]
  /\ pc[r] = "readback" => SprintRef(sprint[r])
  /\ pc[r] = "drop" => SprintRef(row[r].sprint)
  /\ pc[r] \in {"event", "updated"} => SprintRef(EventOf(r).sprint)
  /\ pc[r] \in {"reply", "answered"} => HasEvent(r)

AgreeInv == OneAtATime /\ \A r \in Requests : Agrees(r)

\* No statement takes an event away from who caused it.
LEMMA EventsStay ==
  ASSUME TypeOK, [Next]_vars, NEW r \in Requests, HasEvent(r)
  PROVE  HasEvent(r)'
<1>1. CASE events' = events
  BY <1>1 DEF HasEvent
<1>2. ASSUME NEW event, AppendEvent(event) PROVE HasEvent(r)'
  BY <1>2 DEF AppendEvent, HasEvent
<1>3. ASSUME NEW s, SprintDeleted(s) PROVE HasEvent(r)'
  <2>1. PICK e \in events : e.by = r
    BY DEF HasEvent
  <2>2. (IF e.sprint = s THEN [e EXCEPT !.sprint = Absent] ELSE e) \in events'
    BY <1>3 DEF SprintDeleted
  <2>3. e \in Event
    BY DEF TypeOK
  <2> QED
    BY <2>1, <2>2, <2>3 DEF Event, HasEvent
<1> QED
  BY <1>1, <1>2, <1>3, StoreSteps DEF WritesLog, WritesAdr, PutLog, PutAdr, MovesCurrent, store

LEMMA WorkOnLogAgrees ==
  ASSUME TypeOK, LinksAreLive, NEW r \in Requests, Agrees(r), ~Refuse(r),
         FindByDate(r) \/ InsertLog(r) \/ UpdateLog(r) \/ GetLog(r) \/ DropLog(r)
  PROVE  Agrees(r)'
<1>1. call' = call /\ Ready(r) /\ Ready(r)'
  BY WorkFrame, StepReady DEF TypeOK, Work
<1>2. CASE FindByDate(r)
  <2>1. OnLog(call[r]) /\ sprint'[r] = sprint[r] /\ UNCHANGED <<logs, current>>
        /\ sprint[r] = Subject(r)
    BY <1>1, <1>2 DEF FindByDate, Ready, OnLog, Hold, store, Agrees
  <2>a. Subject(r)' = Subject(r)
    BY <1>1, <2>1 DEF Subject
  <2>2. ASSUME NEW id \in LogIds, OfSprintAndDay(id, sprint[r], call[r].date),
               Hold(r, id, [logs[id] EXCEPT !.by = r], "update")
        PROVE  Agrees(r)'
    <3>1. pc'[r] = "update" /\ target'[r] = id /\ row'[r] = [logs[id] EXCEPT !.by = r]
      BY <2>2 DEF Hold, Goto, TypeOK
    <3>2. logs[id] \in LogRow
      BY <2>2 DEF OfSprintAndDay, LiveLog, TypeOK
    <3>3. /\ row'[r].by = r /\ row'[r].sprint = logs[id].sprint /\ row'[r].date = logs[id].date
          /\ logs[id].sprint = sprint[r] /\ row'[r].date = call[r].date
      BY <2>2, <3>1, <3>2 DEF LogRow, OfSprintAndDay
    <3>4. OfSprintAndDay(target[r], row[r].sprint, row[r].date)'
      BY <2>1, <2>2, <3>1, <3>3 DEF OfSprintAndDay, LiveLog
    <3> QED
      BY <1>1, <2>1, <2>a, <3>1, <3>3, <3>4 DEF Agrees
  <2>3. ASSUME Hold(r, Absent, [sprint |-> sprint[r], date |-> call[r].date, by |-> r], "insert")
        PROVE  Agrees(r)'
    <3>1. pc'[r] = "insert" /\ row'[r].sprint = sprint[r] /\ row'[r].by = r
          /\ row'[r].date = call[r].date
      BY <2>3 DEF Hold, Goto, TypeOK
    <3> QED
      BY <1>1, <2>1, <2>a, <3>1 DEF Agrees
  <2> QED
    BY <1>2, <2>2, <2>3 DEF FindByDate
<1>3. CASE InsertLog(r)
  <2>1. SprintRef(row[r].sprint) /\ row[r].sprint = sprint[r] /\ sprints' = sprints
        /\ sprint'[r] = sprint[r] /\ pc'[r] = "readback"
    BY <1>3 DEF InsertLog, LogAllowed, Agrees, PutLog, Hold, Goto, TypeOK
  <2> QED
    BY <2>1 DEF Agrees, SprintRef
<1>4. CASE UpdateLog(r)
  <2>1. SprintRef(row[r].sprint) /\ row[r].sprint = sprint[r] /\ sprints' = sprints
        /\ sprint'[r] = sprint[r] /\ pc'[r] = "updated"
    BY <1>4 DEF UpdateLog, LogAllowed, Agrees, PutLog, Continue, Goto, TypeOK
  <2>2. Creates(call[r])
    BY <1>1, <1>4 DEF UpdateLog, Ready, OnLog, Creates
  <2> QED
    BY <1>1, <2>1, <2>2 DEF Agrees, EventOf, SprintRef
<1>5. CASE GetLog(r)
  <2>1. LiveLog(target[r]) /\ target[r] \in LogIds /\ UNCHANGED <<sprints, sprint>>
        /\ row'[r] = logs[target[r]] /\ target'[r] = target[r]
        /\ pc'[r] = IF pc[r] = "get" THEN "drop" ELSE "event"
    BY <1>1, <1>5 DEF GetLog, Hold, Goto, TypeOK, Ready, IdsOf, store
  <2>2. SprintRef(logs[target[r]].sprint)
    BY <2>1 DEF LinksAreLive, LiveLogs
  <2>3. pc[r] # "get" => Creates(call[r]) /\ SprintRef(sprint[r])
    BY <1>1, <1>5 DEF GetLog, Ready, Agrees
  <2> QED
    BY <1>1, <2>1, <2>2, <2>3 DEF Agrees, EventOf, SprintRef
<1>6. CASE DropLog(r)
  <2>1. SprintRef(row[r].sprint) /\ row' = row /\ sprints' = sprints /\ pc'[r] = "event"
    BY <1>6 DEF DropLog, Agrees, PutLog, Continue, Goto, TypeOK
  <2>2. ~Creates(call[r])
    BY <1>1, <1>6 DEF DropLog, Ready, Deletes, Creates
  <2> QED
    BY <1>1, <2>1, <2>2 DEF Agrees, EventOf, SprintRef
<1> QED
  BY <1>2, <1>3, <1>4, <1>5, <1>6

LEMMA WorkOnAdrAgrees ==
  ASSUME TypeOK, LinksAreLive, NEW r \in Requests, Agrees(r), ~Refuse(r),
         PickNumber(r) \/ InsertAdr(r) \/ ReadBackAdr(r) \/ GetAdr(r) \/ UpdateAdr(r) \/ DropAdr(r)
  PROVE  Agrees(r)'
<1>1. call' = call /\ Ready(r)
  BY WorkFrame DEF TypeOK, Work
<1>2. CASE PickNumber(r)
  <2>1. ~OnLog(call[r]) /\ sprint[r] = call[r].sprint /\ sprint' = sprint
        /\ pc'[r] = "insert" /\ row'[r].sprint = call[r].sprint
    BY <1>1, <1>2 DEF PickNumber, Ready, OnLog, Hold, Goto, NewAdr, Agrees, TypeOK
  <2> QED
    BY <1>1, <2>1 DEF Agrees
<1>3. CASE InsertAdr(r)
  <2>1. SprintRef(row[r].sprint) /\ row[r].sprint = sprint[r] /\ sprints' = sprints
        /\ sprint'[r] = sprint[r] /\ pc'[r] = "readback"
    BY <1>3 DEF InsertAdr, Agrees, PutAdr, Hold, Goto, TypeOK
  <2> QED
    BY <2>1 DEF Agrees, SprintRef
<1>4. CASE ReadBackAdr(r)
  <2>1. SprintRef(sprint[r]) /\ Creates(call[r]) /\ UNCHANGED <<sprints, sprint>> /\ pc'[r] = "event"
    BY <1>1, <1>4 DEF ReadBackAdr, Ready, Agrees, Hold, Goto, TypeOK, store
  <2> QED
    BY <1>1, <2>1 DEF Agrees, EventOf, SprintRef
<1>5. CASE GetAdr(r)
  <2>1. LiveAdr(target[r]) /\ target[r] \in AdrIds /\ sprints' = sprints /\ ~OnLog(call[r])
        /\ row'[r] = Altered(r, adrs[target[r]]) /\ target'[r] = target[r]
        /\ target[r] = call[r].id
        /\ pc'[r] = IF Deletes(call[r]) THEN "drop" ELSE "update"
    BY <1>1, <1>5 DEF GetAdr, Hold, Goto, TypeOK, Ready, IdsOf, store, Agrees
  <2>2. SprintRef(adrs[target[r]].sprint)
    BY <2>1 DEF LinksAreLive, LiveAdrs
  <2>3. Deletes(call[r]) => row'[r] = adrs[target[r]]
    BY <2>1 DEF Altered, Deletes, OnLog
  <2> QED
    BY <1>1, <2>1, <2>2, <2>3 DEF Agrees, SprintRef
<1>6. CASE UpdateAdr(r)
  <2>1. SprintRef(row[r].sprint) /\ row' = row /\ sprints' = sprints /\ pc'[r] = "updated"
    BY <1>6 DEF UpdateAdr, PutAdr, Continue, Goto, TypeOK
  <2>2. ~Creates(call[r])
    BY <1>1, <1>6 DEF UpdateAdr, Ready, OnLog, Creates
  <2> QED
    BY <1>1, <2>1, <2>2 DEF Agrees, EventOf, SprintRef
<1>7. CASE DropAdr(r)
  <2>1. SprintRef(row[r].sprint) /\ row' = row /\ sprints' = sprints /\ pc'[r] = "event"
    BY <1>7 DEF DropAdr, Agrees, PutAdr, Continue, Goto, TypeOK
  <2>2. ~Creates(call[r])
    BY <1>1, <1>7 DEF DropAdr, Ready, Deletes, Creates
  <2> QED
    BY <1>1, <2>1, <2>2 DEF Agrees, EventOf, SprintRef
<1> QED
  BY <1>2, <1>3, <1>4, <1>5, <1>6, <1>7

LEMMA WorkAgrees ==
  ASSUME TypeOK, LinksAreLive, NEW r \in Requests, Agrees(r), Work(r) \/ Interrupt(r)
  PROVE  Agrees(r)'
<1>1. ASSUME pc'[r] \in {"partial", "refused", "cut", "late"} PROVE Agrees(r)'
  BY <1>1 DEF Agrees
<1>2. CASE Refuse(r) \/ Interrupt(r)
  BY <1>1, <1>2 DEF Refuse, Interrupt, End, Goto, TypeOK
<1>3. CASE DefaultSprint(r)
  <2>1. pc'[r] = "bydate" /\ sprint'[r] = current /\ UNCHANGED <<call, current>>
        /\ call[r].sprint = Absent
    BY <1>3 DEF DefaultSprint, Goto, TypeOK, Agrees, store
  <2> QED
    BY <2>1 DEF Agrees, Subject
<1>4. CASE LogEvent(r)
  <2>1. AppendEvent(EventOf(r)) /\ SprintRef(EventOf(r).sprint) /\ pc'[r] \in {"reply", "answered"}
    BY <1>4 DEF LogEvent, EventOf, Agrees, Continue, End, Goto, TypeOK
  <2>2. EventOf(r) \in events' /\ EventOf(r).by = r
    BY <2>1 DEF AppendEvent, EventOf
  <2>3. HasEvent(r)'
    BY <2>2 DEF HasEvent
  <2> QED
    BY <2>1, <2>3 DEF Agrees
<1>5. CASE Reply(r) /\ ~Refuse(r)
  <2>1. HasEvent(r) /\ events' = events /\ pc'[r] = "answered"
    BY <1>5 DEF Reply, Agrees, End, Goto, TypeOK, store
  <2> QED
    BY <2>1 DEF Agrees, HasEvent
<1> QED
  BY <1>2, <1>3, <1>4, <1>5, WorkOnLogAgrees, WorkOnAdrAgrees DEF Work

LEMMA StepAgree ==
  ASSUME TypeOK, LinksAreLive, ~overlap, AgreeInv, [Next]_vars
  PROVE  AgreeInv'
<1>1. ASSUME NEW q \in Requests, pc'[q] = pc[q], ~InFlight(q) PROVE Agrees(q)'
  BY <1>1, EventsStay DEF AgreeInv, Agrees, InFlight, Steps
<1>2. ASSUME NEW r \in Requests, Work(r) \/ Interrupt(r) PROVE AgreeInv'
  <2>1. InFlight(r) /\ \A q \in Requests \ {r} : pc'[q] = pc[q] /\ ~InFlight(q)
    BY <1>2, WorkFrame DEF AgreeInv, OneAtATime
  <2>2. OneAtATime'
    BY <2>1 DEF OneAtATime, InFlight
  <2>3. Agrees(r)'
    BY <1>2, WorkAgrees DEF AgreeInv
  <2> QED
    BY <1>1, <2>1, <2>2, <2>3 DEF AgreeInv
<1>3. ASSUME NEW r \in Requests, NEW c \in Calls, Arrive(r, c) PROVE AgreeInv'
  <2>1. Quiet /\ pc'[r] = FirstStep(c) /\ call'[r] = c
        /\ sprint'[r] = (IF Creates(c) THEN c.sprint ELSE Absent)
        /\ row'[r] = (IF c.op = "adr" /\ c.number # 0 THEN NewAdr(r, c, c.number) ELSE Absent)
        /\ target'[r] = (IF Creates(c) THEN Absent ELSE c.id)
        /\ \A q \in Requests \ {r} : pc'[q] = pc[q]
    BY <1>3 DEF Arrive, Goto, TypeOK
  <2>2. /\ FirstStep(c) \in {"current", "bydate", "number", "insert", "get"}
        /\ FirstStep(c) = "number" => c.op = "adr"
        /\ FirstStep(c) = "insert" => c.op = "adr" /\ c.number # 0
        /\ FirstStep(c) = "current" => c.op = "log" /\ c.sprint = Absent
        /\ FirstStep(c) = "bydate" => c.op = "log" /\ c.sprint # Absent
        /\ FirstStep(c) = "get" => ~Creates(c)
    BY CallFields DEF FirstStep, Creates
  <2>3. Agrees(r)'
    BY <2>1, <2>2 DEF Agrees, Subject, NewAdr, Creates, OnLog
  <2>4. OneAtATime'
    BY <2>1 DEF OneAtATime, Quiet, InFlight
  <2> QED
    BY <1>1, <2>1, <2>3, <2>4 DEF AgreeInv, Quiet
<1>4. CASE Elsewhere
  <2>1. Quiet /\ pc' = pc
    BY <1>4 DEF Elsewhere
  <2> QED
    BY <1>1, <2>1 DEF AgreeInv, OneAtATime, Quiet, InFlight
<1>5. CASE UNCHANGED vars
  BY <1>5 DEF vars, AgreeInv, OneAtATime, InFlight, Agrees, HasEvent, EventOf, SprintRef,
     OfSprintAndDay, LiveLog, Subject
<1> QED
  BY <1>2, <1>3, <1>4, <1>5 DEF Next

LEMMA InTurnAgree == Spec => [](~overlap => AgreeInv)
<1>1. Init => AgreeInv
  BY DEF Init, AgreeInv, OneAtATime, Agrees, InFlight, Steps
<1>2. TypeOK /\ LinksAreLive /\ (~overlap => AgreeInv) /\ [Next]_vars => (~overlap => AgreeInv)'
  <2>1. [Next]_vars => overlap' = overlap
    BY DEF Next, vars
  <2> QED
    BY <2>1, StepAgree
<1> QED
  BY <1>1, <1>2, TypeCorrect, AlwaysLinksAreLive, PTL DEF Spec

\* When requests come in turn, every change of a log or a record that is answered
\* within its context has its event: the foreign key does not refuse it.
THEOREM SerialAnsweredIsRecorded == Spec => []AnsweredIsRecorded
<1>1. (~overlap => AgreeInv) => AnsweredIsRecorded
  BY DEF AgreeInv, Agrees, HasEvent, AnsweredIsRecorded
<1> QED
  BY <1>1, InTurnAgree, PTL

(***************************************************************************)
(* The refinement of Diary.                                                *)
(***************************************************************************)
shown == <<Book, Applied>>

LEMMA OnPage ==
  ASSUME NEW page
  PROVE  page \in Book <=> \E id \in LogIds : LiveLog(id) /\ logs[id].sprint # Absent /\ page = PageOf(id)
BY DEF Book, LiveLogs

\* A log that is written is the page that was asked for: that it was on this page
\* before, if it was there at all, is what a stale copy would break.
LEMMA PageWritten ==
  ASSUME TypeOK, NEW r \in Requests, NEW id \in LogIds, NEW log \in LogRow, PutLog(id, log),
         log.by = r, LogAllowed(id, log),
         LiveLog(id) => logs[id].sprint = log.sprint /\ logs[id].date = log.date
  PROVE  /\ log.sprint = Absent => Book' = Book
         /\ log.sprint # Absent => Pages!Write(r, log.sprint, log.date)
<1> DEFINE new == [sprint |-> log.sprint, date |-> log.date, by |-> r, id |-> id]
<1>1. logs'[id] = log /\ \A x \in LogIds \ {id} : logs'[x] = logs[x]
  BY DEF PutLog, TypeOK
<1>2. \A x \in LogIds \ {id} : PageOf(x)' = PageOf(x) /\ (LiveLog(x)' <=> LiveLog(x))
  BY <1>1 DEF PageOf, LiveLog
<1>3. PageOf(id)' = new /\ LiveLog(id)'
  BY <1>1, AbsentAssumption DEF PageOf, LiveLog
<1>4. ASSUME NEW page
      PROVE  page \in Book' <=> \E x \in LogIds : LiveLog(x)' /\ logs'[x].sprint # Absent /\ page = PageOf(x)'
  BY DEF Book, LiveLogs
<1>5. \A x \in LogIds : PageOf(x).id = x
  BY DEF PageOf
<1>6. CASE log.sprint = Absent
  <2>1. ASSUME NEW page PROVE page \in Book' <=> page \in Book
    BY <1>1, <1>2, <1>3, <1>4, <1>6, OnPage
  <2> QED
    BY <1>6, <2>1
<1>7. CASE log.sprint # Absent /\ LiveLog(id)
  <2> DEFINE old == PageOf(id)
  <2>1. old.sprint = log.sprint /\ old.date = log.date /\ new = [old EXCEPT !.by = r]
    BY <1>7 DEF PageOf
  <2>2. old \in Book
    BY <1>7, OnPage
  <2>3. ASSUME NEW page PROVE page \in Book' <=> page \in (Book \ {old}) \cup {new}
    <3>1. page \in Book' <=>
            \/ page = new
            \/ \E x \in LogIds \ {id} : LiveLog(x) /\ logs[x].sprint # Absent /\ page = PageOf(x)
      BY <1>1, <1>2, <1>3, <1>4, <1>7
    <3>2. page \in Book \ {old} <=>
            \E x \in LogIds \ {id} : LiveLog(x) /\ logs[x].sprint # Absent /\ page = PageOf(x)
      BY <1>5, OnPage
    <3> HIDE DEF new, old
    <3> QED
      BY <3>1, <3>2
  <2>4. Book' = (Book \ {old}) \cup {new}
    BY <2>3
  <2> HIDE DEF new, old
  <2>5. old \in Pages!PagesOf(log.sprint, log.date)
    BY <2>1, <2>2 DEF Pages!PagesOf
  <2> QED
    BY <1>7, <2>1, <2>4, <2>5 DEF Pages!Write
<1>8. CASE log.sprint # Absent /\ ~LiveLog(id)
  <2>1. Pages!PagesOf(log.sprint, log.date) = {}
    <3>1. ASSUME NEW page \in Book, page.sprint = log.sprint, page.date = log.date PROVE FALSE
      <4>1. PICK x \in LogIds : LiveLog(x) /\ page = PageOf(x)
        BY OnPage
      <4>2. logs[x].sprint = log.sprint /\ logs[x].date = log.date /\ x \in LiveLogs \ {id}
        BY <1>8, <3>1, <4>1 DEF PageOf, LiveLogs
      <4> QED
        BY <1>8, <4>2 DEF LogAllowed
    <3> QED
      BY <3>1 DEF Pages!PagesOf
  <2>2. Pages!Fresh(id)
    BY <1>5, <1>8, OnPage DEF Pages!Fresh
  <2>3. ASSUME NEW page PROVE page \in Book' <=> page \in Book \cup {new}
    <3>1. page \in Book' <=>
            \/ page = new
            \/ \E x \in LogIds \ {id} : LiveLog(x) /\ logs[x].sprint # Absent /\ page = PageOf(x)
      BY <1>1, <1>2, <1>3, <1>4, <1>8
    <3>2. page \in Book <=>
            \E x \in LogIds \ {id} : LiveLog(x) /\ logs[x].sprint # Absent /\ page = PageOf(x)
      BY <1>8, OnPage
    <3> HIDE DEF new
    <3> QED
      BY <3>1, <3>2
  <2>4. Book' = Book \cup {new}
    BY <2>3
  <2> QED
    BY <1>8, <2>1, <2>2, <2>4 DEF Pages!Write
<1> QED
  BY <1>6, <1>7, <1>8

LEMMA PageTorn ==
  ASSUME TypeOK, NEW id \in LogIds, PutLog(id, Absent)
  PROVE  Pages!Tear(id)
<1>1. logs'[id] = Absent /\ \A x \in LogIds \ {id} : logs'[x] = logs[x]
  BY DEF PutLog, TypeOK
<1>2. ASSUME NEW page PROVE page \in Book' <=> page \in Book /\ page.id # id
  <2>1. page \in Book' <=> \E x \in LogIds : LiveLog(x)' /\ logs'[x].sprint # Absent /\ page = PageOf(x)'
    BY DEF Book, LiveLogs
  <2>2. page \in Book' <=>
          \E x \in LogIds \ {id} : LiveLog(x) /\ logs[x].sprint # Absent /\ page = PageOf(x)
    BY <1>1, <2>1 DEF LiveLog, PageOf
  <2>3. \A x \in LogIds : PageOf(x).id = x
    BY DEF PageOf
  <2> QED
    BY <2>2, <2>3, OnPage
<1> QED
  BY <1>2 DEF Pages!Tear

LEMMA PagesLost ==
  ASSUME TypeOK, NEW s \in SprintIds, SprintDeleted(s)
  PROVE  Book' = {page \in Book : page.sprint # s}
<1>1. \A x \in LogIds : /\ LiveLog(x)' <=> LiveLog(x)
                        /\ LiveLog(x) /\ logs[x].sprint = s => logs'[x].sprint = Absent
                        /\ LiveLog(x) /\ logs[x].sprint # s => logs'[x] = logs[x]
  <2>1. logs' = [x \in LogIds |-> IF logs[x] # Absent /\ logs[x].sprint = s
                                  THEN [logs[x] EXCEPT !.sprint = Absent] ELSE logs[x]]
    BY DEF SprintDeleted, Unlink
  <2>2. ASSUME NEW x \in LogIds, logs[x] # Absent, logs[x].sprint = s
        PROVE  logs'[x].sprint = Absent /\ logs'[x] # Absent
    <3>1. logs[x] \in LogRow
      BY <2>2 DEF TypeOK
    <3>2. [logs[x] EXCEPT !.sprint = Absent] \in LogRow
          /\ [logs[x] EXCEPT !.sprint = Absent].sprint = Absent
      BY <3>1 DEF LogRow, SprintLink
    <3> QED
      BY <2>1, <2>2, <3>2, AbsentAssumption
  <2> QED
    BY <2>1, <2>2 DEF LiveLog
<1>2. s # Absent
  BY AbsentAssumption
<1>3. ASSUME NEW page PROVE page \in Book' <=> page \in Book /\ page.sprint # s
  <2>1. page \in Book' <=> \E x \in LogIds : LiveLog(x)' /\ logs'[x].sprint # Absent /\ page = PageOf(x)'
    BY DEF Book, LiveLogs
  <2>2. \A x \in LogIds : PageOf(x).sprint = logs[x].sprint
    BY DEF PageOf
  <2>3. \A x \in LogIds : logs'[x] = logs[x] => PageOf(x)' = PageOf(x)
    BY DEF PageOf
  <2>4. page \in Book' <=>
          \E x \in LogIds : LiveLog(x) /\ logs[x].sprint \notin {s, Absent} /\ page = PageOf(x)
    BY <1>1, <2>1, <2>3
  <2> QED
    BY <2>2, <2>4, OnPage
<1> QED
  BY <1>3

Done(step) == step \in {"readback", "event", "updated", "reply", "answered", "partial", "late"}

LEMMA AppliedAfter ==
  ASSUME TypeOK, NEW r \in Requests, Work(r) \/ Interrupt(r)
  PROVE  /\ Applied' = IF Done(pc'[r]) THEN Applied \cup {r} ELSE Applied \ {r}
         /\ r \in Applied <=> Written(r)
<1>1. Applied = {q \in Requests : Done(pc[q])}
  BY DEF Applied, Done, Written
<1>2. Applied' = {q \in Requests : Done(pc'[q])}
  BY DEF Applied, Done, Written
<1>3. InFlight(r) /\ \A q \in Requests \ {r} : pc'[q] = pc[q]
  BY WorkFrame
<1> QED
  BY <1>1, <1>2, <1>3 DEF InFlight, Steps, Done, Written

LEMMA WorkShows ==
  ASSUME TypeOK, NEW r \in Requests, Agrees(r), Work(r) \/ Interrupt(r)
  PROVE  Pages!Next \/ UNCHANGED shown
<1>1. ASSUME logs' = logs PROVE Book' = Book
  BY <1>1 DEF Book, PageOf, LiveLogs, LiveLog
<1>2. ASSUME Book' = Book, Done(pc'[r]) <=> Written(r) PROVE UNCHANGED shown
  BY <1>2, AppliedAfter DEF shown
<1>3. ASSUME ~Written(r), Done(pc'[r]),
             \/ /\ call[r].op = "log" /\ Pages!Subject(r) \in SprintIds
                /\ Pages!Write(r, Pages!Subject(r), call[r].date)
             \/ call[r].op = "log" /\ Pages!Subject(r) = Absent /\ Book' = Book
             \/ call[r].op = "log_delete" /\ Pages!Tear(call[r].id)
             \/ call[r].op \notin {"log", "log_delete"} /\ Book' = Book
      PROVE  Pages!Next
  <2>1. r \notin Applied /\ Applied' = Applied \cup {r}
    BY <1>3, AppliedAfter
  <2> QED
    BY <1>3, <2>1 DEF Pages!Next, Pages!Apply
<1>4. ASSUME ~Written(r), Done(pc'[r]), NEW id \in LogIds, NEW log \in LogRow, PutLog(id, log),
             LogAllowed(id, log), call[r].op = "log", log.sprint = Subject(r), log.date = call[r].date,
             LiveLog(id) => logs[id].sprint = log.sprint /\ logs[id].date = log.date, log.by = r
      PROVE  Pages!Next
  <2>1. log.sprint \in SprintLink /\ log.sprint = Pages!Subject(r)
    BY <1>4 DEF LogRow, Subject, Pages!Subject
  <2>2. /\ log.sprint = Absent => Book' = Book
        /\ log.sprint # Absent => Pages!Write(r, log.sprint, log.date)
    BY <1>4, PageWritten
  <2> QED
    BY <1>3, <1>4, <2>1, <2>2 DEF SprintLink
<1>5. Ready(r)
  BY DEF TypeOK
<1>6. CASE Refuse(r) \/ Interrupt(r)
  <2>1. /\ pc'[r] \in {"partial", "refused", "cut", "late"} /\ logs' = logs
        /\ pc'[r] \in {"partial", "late"} <=> Written(r)
    BY <1>6 DEF Refuse, Interrupt, End, Goto, TypeOK, store, Written
  <2> QED
    BY <1>1, <1>2, <2>1 DEF Done
<1>7. CASE DefaultSprint(r) \/ FindByDate(r) \/ PickNumber(r) \/ (GetAdr(r) /\ ~Refuse(r))
  <2>1. logs' = logs /\ ~Written(r) /\ pc'[r] \in {"bydate", "update", "insert", "number", "drop"}
    BY <1>7 DEF DefaultSprint, FindByDate, PickNumber, GetAdr, Hold, Goto, TypeOK, store, Written
  <2> QED
    BY <1>1, <1>2, <2>1 DEF Done
<1>8. CASE InsertLog(r) /\ ~Refuse(r)
  <2>1. PICK id \in LogIds : NextId(LiveLogs, id) /\ PutLog(id, row[r]) /\ Hold(r, id, row[r], "readback")
    BY <1>8 DEF InsertLog
  <2>2. ~LiveLog(id)
    BY <2>1, IdsAssumption DEF NextId, LiveLogs
  <2>3. row[r] \in LogRow /\ row[r].by = r /\ ~Written(r) /\ call[r].op = "log"
    BY <1>5, <1>8 DEF InsertLog, Ready, RowsOf, Agrees, Written, Creates, OnLog
  <2>4. Done(pc'[r])
    BY <2>1 DEF Hold, Goto, TypeOK, Done
  <2>5. row[r].sprint = Subject(r) /\ row[r].date = call[r].date
    BY <1>8 DEF InsertLog, Agrees
  <2>6. LogAllowed(id, row[r])
    BY <1>8, AbsentAssumption DEF InsertLog, LogAllowed, LiveLogs
  <2> QED
    BY <1>4, <2>1, <2>2, <2>3, <2>4, <2>5, <2>6
<1>9. CASE UpdateLog(r) /\ ~Refuse(r)
  <2>1. PutLog(target[r], row[r]) /\ target[r] \in LogIds /\ row[r] \in LogRow /\ ~Written(r)
        /\ LogAllowed(target[r], row[r]) /\ call[r].op = "log"
    BY <1>5, <1>9 DEF UpdateLog, Ready, RowsOf, IdsOf, Written, OnLog
  <2>2. OfSprintAndDay(target[r], row[r].sprint, row[r].date) /\ row[r].by = r
        /\ row[r].sprint = Subject(r) /\ row[r].date = call[r].date
    BY <1>9 DEF UpdateLog, Agrees
  <2>3. Done(pc'[r])
    BY <1>9 DEF UpdateLog, Continue, Goto, TypeOK, Done
  <2> QED
    BY <1>4, <2>1, <2>2, <2>3 DEF OfSprintAndDay
<1>10. CASE GetLog(r) /\ ~Refuse(r)
  <2>1. logs' = logs /\ pc[r] \in {"get", "readback"}
        /\ pc'[r] = IF pc[r] = "get" THEN "drop" ELSE "event"
    BY <1>10 DEF GetLog, Hold, Goto, TypeOK, store
  <2> QED
    BY <1>1, <1>2, <2>1 DEF Done, Written
<1>11. CASE DropLog(r) /\ ~Refuse(r)
  <2>1. PutLog(target[r], Absent) /\ target[r] \in LogIds /\ target[r] = call[r].id /\ ~Written(r)
        /\ call[r].op = "log_delete"
    BY <1>5, <1>11 DEF DropLog, Ready, IdsOf, Written, Agrees, Deletes, OnLog
  <2>2. Done(pc'[r])
    BY <1>11 DEF DropLog, Continue, Goto, TypeOK, Done
  <2>3. Pages!Tear(call[r].id)
    BY <2>1, PageTorn
  <2> QED
    BY <1>3, <2>1, <2>2, <2>3
<1>12. CASE (InsertAdr(r) \/ UpdateAdr(r) \/ DropAdr(r)) /\ ~Refuse(r)
  <2>1. logs' = logs /\ ~Written(r) /\ call[r].op \notin {"log", "log_delete"}
    BY <1>12 DEF InsertAdr, UpdateAdr, DropAdr, PutAdr, Written, OnLog
  <2>2. pc'[r] \in {"readback", "updated", "event"}
    BY <1>12 DEF InsertAdr, UpdateAdr, DropAdr, Hold, Continue, Goto, TypeOK
  <2> QED
    BY <1>1, <1>3, <2>1, <2>2 DEF Done
<1>13. CASE (ReadBackAdr(r) \/ LogEvent(r) \/ Reply(r)) /\ ~Refuse(r)
  <2>1. logs' = logs /\ Written(r)
    BY <1>13 DEF ReadBackAdr, LogEvent, Reply, AppendEvent, store, Written
  <2>2. pc'[r] \in {"event", "reply", "answered"}
    BY <1>13 DEF ReadBackAdr, LogEvent, Reply, Hold, Continue, End, Goto, TypeOK
  <2> QED
    BY <1>1, <1>2, <2>1, <2>2 DEF Done
<1> QED
  BY <1>6, <1>7, <1>8, <1>9, <1>10, <1>11, <1>12, <1>13 DEF Work

LEMMA StepShows ==
  ASSUME TypeOK, \A r \in Requests : Agrees(r), [Next]_vars
  PROVE  Pages!Next \/ UNCHANGED shown
<1>1. ASSUME UNCHANGED <<logs, pc>> PROVE UNCHANGED shown
  BY <1>1 DEF shown, Book, PageOf, LiveLogs, LiveLog, Applied, Written
<1>2. ASSUME NEW r \in Requests, NEW c \in Calls, Arrive(r, c) PROVE UNCHANGED shown
  <2>1. pc[r] = "idle" /\ logs' = logs /\ pc'[r] = FirstStep(c)
        /\ \A q \in Requests \ {r} : pc'[q] = pc[q]
    BY <1>2 DEF Arrive, Goto, TypeOK, store
  <2>2. FirstStep(c) \in {"current", "bydate", "number", "insert", "get"}
    BY DEF FirstStep
  <2>3. Applied' = Applied
    BY <2>1, <2>2 DEF Applied, Written
  <2> QED
    BY <2>1, <2>3 DEF shown, Book, PageOf, LiveLogs, LiveLog
<1>3. CASE Elsewhere
  <2>1. Applied' = Applied
    BY <1>3 DEF Elsewhere, Applied, Written
  <2>2. ASSUME NEW s \in sprints, SprintDeleted(s) PROVE Pages!Next
    <3>1. s \in SprintIds
      BY DEF TypeOK
    <3>2. Pages!SprintDeleted(s)
      BY <2>1, <2>2, <3>1, PagesLost DEF Pages!SprintDeleted
    <3> QED
      BY <3>1, <3>2 DEF Pages!Next
  <2> QED
    BY <1>1, <1>3, <2>2 DEF Elsewhere
<1>4. CASE UNCHANGED vars
  BY <1>1, <1>4 DEF vars
<1> QED
  BY <1>2, <1>3, <1>4, WorkShows DEF Next

\* Requests in turn implement the diary: each changes the page it asked for and no
\* other, at once and at most once, wherever requests are cut off and whichever
\* ids come back.
THEOREM SerialImplementsDiary == Spec => DiarySpec
<1>1. Init => Pages!Init
  BY DEF Init, Pages!Init, Book, LiveLogs, LiveLog, Applied, Written
<1>2. TypeOK /\ (~overlap => AgreeInv) /\ [Next]_vars
      => [~overlap => Pages!Next]_<<Book, Applied>>
  BY StepShows DEF AgreeInv, shown
<1> QED
  BY <1>1, <1>2, TypeCorrect, InTurnAgree, PTL DEF Spec, DiarySpec

=============================================================================
