------------------------ MODULE SprintServiceProofs ------------------------
(***************************************************************************)
(* Theorems about SprintService, for any number of requests, row ids,      *)
(* phases and gates.                                                       *)
(***************************************************************************)
EXTENDS SprintService, TLAPS

(***************************************************************************)
(* What the fields of a request are, operation by operation.               *)
(***************************************************************************)
LEMMA CallFields ==
  ASSUME NEW c \in Calls
  PROVE  /\ c.op \in {"create", "phase", "chat_phase", "status", "chat_ship",
                      "retro", "delete", "gate"}
         /\ c.op = "create" => c.status \in CreateStatuses
         /\ MovesPhase(c) => c.phase \in Phases
         /\ SetsStatus(c) => c.status \in Statuses /\ c.url \in BOOLEAN
         /\ c.op = "chat_ship" => c.status = "shipped"
         /\ c.op = "retro" => c.text \in BOOLEAN
         /\ c.op = "gate" => c.done \in BOOLEAN
         /\ c.op \in {"phase", "status", "retro", "delete"} => c.id \in SprintIds
  BY DEF Calls, MovesPhase, SetsStatus, Statuses

(***************************************************************************)
(* Deleting a sprint leaves a well-formed log of the same length.          *)
(***************************************************************************)
LEMMA UnlinkedLog ==
  ASSUME NEW log \in Seq(CareerEvent), NEW id
  PROVE  [i \in 1 .. Len(log) |-> Unlink(log[i], id)] \in Seq(CareerEvent)
<1>1. \A i \in 1 .. Len(log) : log[i] \in CareerEvent
  OBVIOUS
<1>2. \A i \in 1 .. Len(log) : Unlink(log[i], id) \in CareerEvent
  BY <1>1 DEF Unlink, CareerEvent
<1>3. Len(log) \in Nat
  OBVIOUS
<1> QED
  BY <1>2, <1>3

(***************************************************************************)
(* The event a handler logs is well-formed.                                *)
(***************************************************************************)
LEMMA EventType ==
  ASSUME TypeOK, NEW r \in Requests, pc[r] = "event"
  PROVE  EventOf(r) \in CareerEvent
<1>1. /\ call[r] \in Calls /\ target[r] \in SprintIds /\ snap[r] \in Sprint
      /\ call[r].op \in ChangingOps \cup {"create", "delete"}
  BY DEF TypeOK, ServiceTypeOK, Ready
<1>2. EventKind(call[r]) \in EventKinds
  BY <1>1, CallFields DEF EventKind, EventKinds, MovesPhase
<1>3. (IF MovesPhase(call[r]) THEN call[r].phase ELSE 0) \in Phases \cup {0}
  BY <1>1, CallFields
<1>4. snap[r].skill \in Requests
  BY <1>1 DEF Sprint
<1> QED
  BY <1>1, <1>2, <1>3, <1>4 DEF EventOf, CareerEvent

(***************************************************************************)
(* A new sprint is a well-formed row, and so is the altered copy of a row  *)
(* that a handler keeps; it goes on to a step that its operation has.      *)
(***************************************************************************)
LEMMA NewSprintType ==
  ASSUME TypeOK, NEW r \in Requests, pc[r] = "insert"
  PROVE  NewSprint(r) \in Sprint
<1>1. call[r] \in Calls /\ call[r].op = "create"
  BY DEF TypeOK, Ready
<1>2. call[r].status \in Statuses
  BY <1>1, CallFields, CreateStatusesAssumption
<1> QED
  BY <1>2, PhasesAssumption DEF NewSprint, Sprint

LEMMA FetchedRow ==
  ASSUME TypeOK, NEW r \in Requests,
         PhaseGet(r) \/ StatusGet(r) \/ RetroGet(r) \/ DeleteGet(r), ~Refuse(r)
  PROVE  \E row, step : /\ Keep(r, row, step)
                        /\ row \in Sprint
                        /\ step \in {"update", "guard", "delete"}
                        /\ step = "update" => call[r].op \in ChangingOps
                        /\ step = "guard" => call[r].op = "status"
                        /\ step = "delete" => call[r].op = "delete"
<1>1. pc[r] = "get" /\ Live(target[r])
  BY DEF PhaseGet, StatusGet, RetroGet, DeleteGet, Fetch
<1>2. /\ target[r] \in SprintIds /\ call[r] \in Calls
      /\ call[r].op \in ChangingOps \cup {"delete"}
  BY <1>1 DEF TypeOK, Ready
<1>3. sprints[target[r]] \in Sprint
  BY <1>1, <1>2 DEF TypeOK, StoreTypeOK, Live
<1>4. CASE PhaseGet(r)
  <2>1. [sprints[target[r]] EXCEPT !.phase = call[r].phase] \in Sprint
    BY <1>2, <1>3, <1>4, CallFields DEF PhaseGet, Sprint
  <2> QED
    BY <1>4, <2>1 DEF PhaseGet, MovesPhase, ChangingOps
<1>5. CASE StatusGet(r)
  <2> DEFINE row == [sprints[target[r]] EXCEPT
                       !.status = call[r].status,
                       !.url = sprints[target[r]].url \/ call[r].url,
                       !.ended = @ \/ call[r].status = "shipped"]
             step == IF call[r].status = "active" THEN "guard" ELSE "update"
  <2>1. call[r].status \in Statuses /\ call[r].url \in BOOLEAN
    BY <1>2, <1>5, CallFields DEF StatusGet
  <2>2. row \in Sprint
    BY <1>3, <2>1 DEF Sprint
  <2>3. step = "guard" => call[r].op = "status"
    BY <1>2, <1>5, CallFields DEF StatusGet, SetsStatus
  <2>4. Keep(r, row, step)
    BY <1>5 DEF StatusGet
  <2>5. step \in {"update", "guard"} /\ call[r].op \in ChangingOps
    BY <1>5 DEF StatusGet, SetsStatus, ChangingOps
  <2> HIDE DEF row, step
  <2> QED
    BY <2>2, <2>3, <2>4, <2>5
<1>6. CASE RetroGet(r)
  <2>1. [sprints[target[r]] EXCEPT !.retro = call[r].text] \in Sprint
    BY <1>2, <1>3, <1>6, CallFields DEF RetroGet, Sprint
  <2> QED
    BY <1>6, <2>1 DEF RetroGet, ChangingOps
<1>7. CASE DeleteGet(r)
  BY <1>3, <1>7 DEF DeleteGet
<1> QED
  BY <1>4, <1>5, <1>6, <1>7

(***************************************************************************)
(* A step of one handler leaves every other handler as ready as it was.    *)
(***************************************************************************)
LEMMA OthersReady ==
  ASSUME TypeOK, NEW r \in Requests,
         \A q \in Requests \ {r} : /\ pc'[q] = pc[q] /\ call'[q] = call[q]
                                   /\ target'[q] = target[q] /\ snap'[q] = snap[q],
         Ready(r)'
  PROVE  \A q \in Requests : Ready(q)'
<1>1. \A q \in Requests \ {r} : Ready(q)'
  BY DEF TypeOK, Ready
<1> QED
  BY <1>1

(***************************************************************************)
(* Type correctness, which here includes that no handler reaches a store   *)
(* call without the values it passes to it.                                *)
(***************************************************************************)
LEMMA InitTypeOK == Init => TypeOK
  BY DEF Init, StoreInit, TypeOK, StoreTypeOK, ServiceTypeOK, Ready

LEMMA StepTypeOK == TypeOK /\ [Next]_vars => TypeOK'
<1> SUFFICES ASSUME TypeOK, [Next]_vars PROVE TypeOK'
  OBVIOUS
<1>0. overlap' = overlap
  BY DEF Next, vars
<1> USE <1>0 DEF TypeOK
<1>1. ASSUME NEW r \in Requests, NEW c \in Calls, Arrive(r, c) PROVE TypeOK'
  <2>1. StoreTypeOK'
    BY <1>1 DEF StoreTypeOK, Arrive, store
  <2>2. ServiceTypeOK'
    BY <1>1, CallFields DEF ServiceTypeOK, Arrive, Goto, FirstStep, Steps
  <2>3. Ready(r)'
    BY <1>1, CallFields DEF ServiceTypeOK, Arrive, Goto, FirstStep, Ready, ChangingOps
  <2> QED
    BY <1>1, <2>1, <2>2, <2>3, OthersReady DEF Arrive, Goto, ServiceTypeOK
<1>2. ASSUME NEW r \in Requests, Interrupt(r) PROVE TypeOK'
  <2>1. StoreTypeOK'
    BY <1>2 DEF StoreTypeOK, Interrupt, store
  <2>2. ServiceTypeOK'
    BY <1>2 DEF ServiceTypeOK, Interrupt, Goto, Ends
  <2>3. Ready(r)'
    BY <1>2 DEF ServiceTypeOK, Interrupt, Goto, Ready, InFlight, Steps
  <2> QED
    BY <1>2, <2>1, <2>2, <2>3, OthersReady DEF Interrupt, Goto, ServiceTypeOK
<1>3. ASSUME NEW r \in Requests, Refuse(r), pc[r] \in Steps PROVE TypeOK'
  <2>1. StoreTypeOK'
    BY <1>3 DEF StoreTypeOK, Refuse, store
  <2>2. ServiceTypeOK'
    BY <1>3 DEF ServiceTypeOK, Refuse, Goto, Ends
  <2>3. Ready(r)'
    BY <1>3 DEF ServiceTypeOK, Refuse, Goto, Ready, Steps
  <2> QED
    BY <1>3, <2>1, <2>2, <2>3, OthersReady DEF Refuse, Goto, ServiceTypeOK
<1>4. ASSUME NEW r \in Requests, Work(r), ~Refuse(r) PROVE TypeOK'
  <2>1. CASE CreateGuard(r)
    BY <1>4, <2>1, OthersReady
    DEF CreateGuard, Goto, ServiceTypeOK, StoreTypeOK, store, Steps, Ready
  <2>2. CASE CreateInsert(r)
    <3>1. PICK id \in SprintIds : /\ InsertSprint(id, NewSprint(r))
                                  /\ target' = [target EXCEPT ![r] = id]
                                  /\ Goto(r, "readback")
                                  /\ UNCHANGED <<call, snap>>
      BY <1>4, <2>2 DEF CreateInsert
    <3>2. NewSprint(r) \in Sprint
      BY <2>2, NewSprintType DEF CreateInsert
    <3>3. StoreTypeOK'
      BY <3>1, <3>2 DEF StoreTypeOK, InsertSprint
    <3>4. ServiceTypeOK' /\ Ready(r)'
      BY <2>2, <3>1 DEF CreateInsert, ServiceTypeOK, Goto, Steps, Ready
    <3> QED
      BY <3>1, <3>3, <3>4, OthersReady DEF Goto, ServiceTypeOK
  <2>3. CASE CreateReadBack(r)
    BY <1>4, <2>3, OthersReady
    DEF CreateReadBack, Live, Goto, ServiceTypeOK, StoreTypeOK, store, Steps, Ready
  <2>4. CASE CreateSeed(r)
    <3>1. SeedChecklist(target[r], r) /\ target[r] \in SprintIds
      BY <1>4, <2>4 DEF CreateSeed, Ready
    <3>2. [sprint : {target[r]}, by : {r}, gate : Gates, done : {FALSE}] \subseteq ChecklistItem
      BY <3>1 DEF ChecklistItem
    <3>3. StoreTypeOK'
      BY <3>1, <3>2 DEF SeedChecklist, StoreTypeOK
    <3> QED
      BY <1>4, <2>4, <3>3, OthersReady
      DEF CreateSeed, Goto, ServiceTypeOK, Steps, Ready
  <2>5. CASE PickCurrent(r)
    BY <1>4, <2>5, OthersReady
    DEF PickCurrent, Goto, ServiceTypeOK, StoreTypeOK, store, Steps, Ready, ChangingOps
  <2>6. CASE GetMissing(r)
    BY <1>4, <2>6 DEF GetMissing
  <2>7. CASE PhaseGet(r) \/ StatusGet(r) \/ RetroGet(r) \/ DeleteGet(r)
    <3>1. PICK row, step : /\ Keep(r, row, step)
                           /\ row \in Sprint
                           /\ step \in {"update", "guard", "delete"}
                           /\ step = "update" => call[r].op \in ChangingOps
                           /\ step = "guard" => call[r].op = "status"
                           /\ step = "delete" => call[r].op = "delete"
      BY <1>4, <2>7, FetchedRow
    <3> QED
      BY <2>7, <3>1, OthersReady
      DEF PhaseGet, StatusGet, RetroGet, DeleteGet, Fetch, Keep, Goto, ServiceTypeOK,
          StoreTypeOK, store, Steps, Ready, ChangingOps
  <2>8. CASE StatusGuard(r)
    BY <1>4, <2>8, OthersReady
    DEF StatusGuard, SetsStatus, Goto, ServiceTypeOK, StoreTypeOK, store, Steps, Ready, ChangingOps
  <2>9. CASE WriteBack(r)
    <3>1. StoreTypeOK'
      BY <1>4, <2>9 DEF WriteBack, UpdateSprint, StoreTypeOK, Ready
    <3> QED
      BY <1>4, <2>9, <3>1, OthersReady DEF WriteBack, Goto, ServiceTypeOK, Steps, Ready
  <2>10. CASE Reply(r)
    BY <2>10, OthersReady
    DEF Reply, Goto, ServiceTypeOK, StoreTypeOK, store, Ends, Ready
  <2>11. CASE DeleteRows(r)
    <3>1. DeleteSprint(target[r])
      BY <1>4, <2>11 DEF DeleteRows
    <3>2. events' \in Seq(CareerEvent)
      BY <3>1, UnlinkedLog DEF DeleteSprint, StoreTypeOK
    <3>3. StoreTypeOK'
      BY <3>1, <3>2 DEF DeleteSprint, StoreTypeOK
    <3> QED
      BY <1>4, <2>11, <3>3, OthersReady DEF DeleteRows, Goto, ServiceTypeOK, Steps, Ready
  <2>12. CASE ToggleGate(r)
    <3>1. StoreTypeOK'
      BY <1>4, <2>12, CallFields
      DEF ToggleGate, ToggleItem, StoreTypeOK, ChecklistItem, Ready
    <3> QED
      BY <1>4, <2>12, <3>1, OthersReady DEF ToggleGate, Goto, ServiceTypeOK, Ends, Ready
  <2>13. CASE LogEvent(r)
    <3>1. StoreTypeOK'
      BY <2>13, EventType DEF LogEvent, AppendEvent, StoreTypeOK
    <3> QED
      BY <2>13, <3>1, OthersReady
      DEF LogEvent, EventLast, Goto, ServiceTypeOK, Steps, Ends, Ready, ChangingOps
  <2> QED
    BY <1>4, <2>1, <2>2, <2>3, <2>4, <2>5, <2>6, <2>7, <2>8, <2>9, <2>10, <2>11,
       <2>12, <2>13 DEF Work
<1>5. ASSUME NEW r \in Requests, Work(r) PROVE pc[r] \in Steps
  BY <1>5 DEF Work, Steps, CreateGuard, CreateInsert, CreateReadBack, CreateSeed, PickCurrent,
     GetMissing, PhaseGet, StatusGet, StatusGuard, RetroGet, Fetch, WriteBack, Reply,
     DeleteGet, DeleteRows, ToggleGate, LogEvent
<1>6. CASE UNCHANGED vars
  BY <1>6 DEF vars, StoreTypeOK, ServiceTypeOK, Ready
<1> QED
  BY <1>1, <1>2, <1>3, <1>4, <1>5, <1>6 DEF Next

(***************************************************************************)
(* In every reachable state every table and every handler's local state is *)
(* well-formed (store/sprints.go, service/sprint.go).                      *)
(***************************************************************************)
THEOREM TypeCorrect == Spec => []TypeOK
  BY InitTypeOK, StepTypeOK, PTL DEF Spec

(***************************************************************************)
(* What one step of the system can do to the tables.                       *)
(***************************************************************************)
Inserts(r, id) ==
  /\ pc[r] = "insert" /\ pc'[r] = "readback" /\ call' = call
  /\ NextId(id) /\ IndexAllows(id, NewSprint(r))
  /\ InsertSprint(id, NewSprint(r))

Updates(r) ==
  /\ pc[r] = "update" /\ pc'[r] = "event" /\ UNCHANGED <<call, target, snap>>
  /\ target[r] \in SprintIds /\ snap[r] \in Sprint
  /\ Live(target[r]) => IndexAllows(target[r], snap[r])
  /\ UpdateSprint(target[r], snap[r])

Deletes(r) == pc[r] = "delete" /\ target[r] \in SprintIds /\ DeleteSprint(target[r])

Seeds(r) ==
  /\ pc[r] = "seed" /\ target[r] \in SprintIds /\ Live(target[r])
  /\ SeedChecklist(target[r], r)

Toggles(item, done) == item \in checklist /\ ToggleItem(item, done)

Logs(r) == pc[r] = "event" /\ AppendEvent(EventOf(r))

LEMMA StoreSteps ==
  ASSUME TypeOK, [Next]_vars
  PROVE  \/ UNCHANGED store
         \/ \E r \in Requests, id \in SprintIds : Inserts(r, id)
         \/ \E r \in Requests : Updates(r) \/ Deletes(r) \/ Seeds(r) \/ Logs(r)
         \/ \E item \in checklist, done \in BOOLEAN : Toggles(item, done)
<1>1. ASSUME NEW r \in Requests, Refuse(r) \/ Interrupt(r) PROVE UNCHANGED store
  BY <1>1 DEF Refuse, Interrupt, store
<1>2. ASSUME NEW r \in Requests, NEW c \in Calls, Arrive(r, c) PROVE UNCHANGED store
  BY <1>2 DEF Arrive, store
<1>3. ASSUME NEW r \in Requests, CreateInsert(r), ~Refuse(r)
      PROVE  \E id \in SprintIds : Inserts(r, id)
  BY <1>3 DEF CreateInsert, Inserts, Goto, TypeOK, ServiceTypeOK
<1>4. ASSUME NEW r \in Requests, WriteBack(r), ~Refuse(r) PROVE Updates(r)
  BY <1>4 DEF WriteBack, Updates, Goto, TypeOK, ServiceTypeOK, Ready
<1>5. ASSUME NEW r \in Requests, DeleteRows(r), ~Refuse(r) PROVE Deletes(r)
  BY <1>5 DEF DeleteRows, Deletes, TypeOK, Ready
<1>6. ASSUME NEW r \in Requests, CreateSeed(r), ~Refuse(r) PROVE Seeds(r)
  BY <1>6 DEF CreateSeed, Seeds, TypeOK, Ready
<1>7. ASSUME NEW r \in Requests, LogEvent(r) PROVE Logs(r)
  BY <1>7 DEF LogEvent, Logs
<1>8. ASSUME NEW r \in Requests, ToggleGate(r), ~Refuse(r)
      PROVE  \E item \in checklist, done \in BOOLEAN : Toggles(item, done)
  BY <1>8, CallFields DEF ToggleGate, Toggles, TypeOK, Ready
<1>9. ASSUME NEW r \in Requests, ~Refuse(r),
             \/ CreateGuard(r) \/ CreateReadBack(r) \/ PickCurrent(r) \/ GetMissing(r)
             \/ PhaseGet(r) \/ StatusGet(r) \/ StatusGuard(r) \/ RetroGet(r)
             \/ DeleteGet(r) \/ Reply(r)
      PROVE  UNCHANGED store
  BY <1>9 DEF CreateGuard, CreateReadBack, PickCurrent, GetMissing, PhaseGet, StatusGet,
     StatusGuard, RetroGet, DeleteGet, Reply, Keep
<1> QED
  BY <1>1, <1>2, <1>3, <1>4, <1>5, <1>6, <1>7, <1>8, <1>9 DEF Next, Work, vars, store

(***************************************************************************)
(* At most one sprint is active, however the requests that start or        *)
(* activate sprints overlap (ux_sprints_single_active).                    *)
(***************************************************************************)
THEOREM AlwaysOneActive == Spec => []OneActive
<1>1. Init => OneActive
  BY DEF Init, StoreInit, OneActive, Active, Live
<1>2. TypeOK /\ OneActive /\ [Next]_vars => OneActive'
  <2> SUFFICES ASSUME TypeOK, OneActive, [Next]_vars PROVE OneActive'
    OBVIOUS
  <2> USE DEF OneActive, Active, Live
  <2>1. CASE UNCHANGED sprints
    BY <2>1
  <2>2. ASSUME NEW r \in Requests, NEW id \in SprintIds, Inserts(r, id) PROVE OneActive'
    BY <2>2 DEF Inserts, InsertSprint, IndexAllows, TypeOK, StoreTypeOK
  <2>3. ASSUME NEW r \in Requests, Updates(r) PROVE OneActive'
    BY <2>3 DEF Updates, UpdateSprint, IndexAllows, TypeOK, StoreTypeOK
  <2>4. ASSUME NEW r \in Requests, Deletes(r) PROVE OneActive'
    BY <2>4 DEF Deletes, DeleteSprint, TypeOK, StoreTypeOK
  <2> QED
    BY <2>1, <2>2, <2>3, <2>4, StoreSteps
    DEF Seeds, SeedChecklist, Logs, AppendEvent, Toggles, ToggleItem, store
<1> QED
  BY <1>1, <1>2, TypeCorrect, PTL DEF Spec

(***************************************************************************)
(* Checklist items and career events refer to sprints that exist (the      *)
(* foreign keys of 0001_init.sql and 0002_career_events.sql).              *)
(***************************************************************************)
THEOREM AlwaysNoDanglingRefs == Spec => []NoDanglingRefs
<1>1. Init => NoDanglingRefs
  BY DEF Init, StoreInit, NoDanglingRefs
<1>2. TypeOK /\ NoDanglingRefs /\ [Next]_vars => NoDanglingRefs'
  <2> SUFFICES ASSUME TypeOK, NoDanglingRefs, [Next]_vars PROVE NoDanglingRefs'
    OBVIOUS
  <2> USE DEF NoDanglingRefs, Live
  <2>1. CASE UNCHANGED store
    BY <2>1 DEF store
  <2>2. ASSUME NEW r \in Requests, NEW id \in SprintIds, Inserts(r, id)
        PROVE  NoDanglingRefs'
    <3>1. NewSprint(r) # Absent
      BY <2>2, NewSprintType, AbsentAssumption DEF Inserts
    <3> QED
      BY <2>2, <3>1 DEF Inserts, InsertSprint, TypeOK, StoreTypeOK
  <2>3. ASSUME NEW r \in Requests, Updates(r) PROVE NoDanglingRefs'
    BY <2>3, AbsentAssumption DEF Updates, UpdateSprint, TypeOK, StoreTypeOK
  <2>4. ASSUME NEW r \in Requests, Deletes(r) PROVE NoDanglingRefs'
    <3>1. \A item \in checklist' : sprints'[item.sprint] # Absent
      BY <2>4 DEF Deletes, DeleteSprint, TypeOK, StoreTypeOK, ChecklistItem
    <3>2. \A i \in 1 .. Len(events) : events[i] \in CareerEvent
      BY DEF TypeOK, StoreTypeOK
    <3>3. Len(events') = Len(events) /\ \A i \in 1 .. Len(events) : events'[i] = Unlink(events[i], target[r])
      BY <2>4 DEF Deletes, DeleteSprint, TypeOK, StoreTypeOK
    <3>4. \A i \in 1 .. Len(events) :
            events'[i].sprint # Absent => /\ events'[i] = events[i]
                                          /\ events[i].sprint # target[r]
      BY <3>2, <3>3 DEF Unlink, CareerEvent
    <3>5. \A i \in 1 .. Len(events) :
            events'[i].sprint # Absent => sprints'[events'[i].sprint] # Absent
      BY <2>4, <3>2, <3>4 DEF Deletes, DeleteSprint, TypeOK, StoreTypeOK, CareerEvent
    <3> QED
      BY <3>1, <3>3, <3>5
  <2>5. ASSUME NEW r \in Requests, Seeds(r) PROVE NoDanglingRefs'
    BY <2>5 DEF Seeds, SeedChecklist
  <2>6. ASSUME NEW r \in Requests, Logs(r) PROVE NoDanglingRefs'
    BY <2>6, EventType DEF Logs, AppendEvent, TypeOK, StoreTypeOK
  <2>7. ASSUME NEW item \in checklist, NEW done \in BOOLEAN, Toggles(item, done)
        PROVE  NoDanglingRefs'
    BY <2>7 DEF Toggles, ToggleItem, TypeOK, StoreTypeOK, ChecklistItem
  <2> QED
    BY <2>1, <2>2, <2>3, <2>4, <2>5, <2>6, <2>7, StoreSteps
<1> QED
  BY <1>1, <1>2, TypeCorrect, PTL DEF Spec

(***************************************************************************)
(* No event is ever changed or taken out of the log (AppendEvent is the    *)
(* only statement on career_events; a deletion only takes links away).     *)
(***************************************************************************)
THEOREM AlwaysEventsAppendOnly == Spec => EventsAppendOnly
<1> DEFINE Grows ==
      /\ Len(events') >= Len(events)
      /\ \A i \in 1 .. Len(events) :
           \/ events'[i] = events[i]
           \/ events'[i] = [events[i] EXCEPT !.sprint = Absent]
<1>1. TypeOK /\ [Next]_vars => [Grows]_vars
  <2> SUFFICES ASSUME TypeOK, [Next]_vars PROVE Grows
    OBVIOUS
  <2>1. CASE UNCHANGED events
    BY <2>1 DEF TypeOK, StoreTypeOK
  <2>2. ASSUME NEW r \in Requests, Deletes(r) PROVE Grows
    BY <2>2 DEF Deletes, DeleteSprint, Unlink, TypeOK, StoreTypeOK
  <2>3. ASSUME NEW r \in Requests, Logs(r) PROVE Grows
    BY <2>3, EventType DEF Logs, AppendEvent, TypeOK, StoreTypeOK
  <2> QED
    BY <2>1, <2>2, <2>3, StoreSteps
    DEF Inserts, InsertSprint, Updates, UpdateSprint, Seeds, SeedChecklist, Toggles,
        ToggleItem, store
<1> QED
  BY <1>1, TypeCorrect, PTL DEF Spec, EventsAppendOnly

(***************************************************************************)
(* A shipped sprint has its live URL and its end date, provided no sprint  *)
(* is created shipped.  A handler may write a row that it read long ago,   *)
(* so the copies that handlers keep have to satisfy the same condition.    *)
(***************************************************************************)
CopiesProven == \A r \in Requests : snap[r] # Absent => Proven(snap[r])

LEMMA StepCopiesProven ==
  ASSUME TypeOK, ShippedIsProven, CopiesProven, [Next]_vars
  PROVE  CopiesProven'
<1> USE DEF CopiesProven
<1>1. CASE UNCHANGED snap
  BY <1>1 DEF Proven
<1>2. ASSUME NEW r \in Requests, NEW row, NEW step, Keep(r, row, step), Proven(row)
      PROVE  CopiesProven'
  BY <1>2 DEF Keep, TypeOK, ServiceTypeOK, Proven
<1>3. ASSUME NEW r \in Requests, CreateReadBack(r), ~Refuse(r) PROVE CopiesProven'
  <2>1. Proven(sprints[target[r]])
    BY <1>3 DEF CreateReadBack, ShippedIsProven, TypeOK, Ready
  <2> QED
    BY <1>3, <2>1 DEF CreateReadBack, TypeOK, ServiceTypeOK, Proven
<1>4. ASSUME NEW r \in Requests, Fetch(r)
      PROVE  /\ Proven(sprints[target[r]]) /\ sprints[target[r]] \in Sprint
             /\ call[r] \in Calls
  BY <1>4 DEF Fetch, ShippedIsProven, TypeOK, StoreTypeOK, Ready, Live
<1>5. ASSUME NEW r \in Requests, PhaseGet(r) PROVE CopiesProven'
  <2>1. Proven([sprints[target[r]] EXCEPT !.phase = call[r].phase])
    BY <1>4, <1>5 DEF PhaseGet, Proven, Sprint
  <2> QED
    BY <1>2, <1>5, <2>1 DEF PhaseGet
<1>6. ASSUME NEW r \in Requests, StatusGet(r), ~Refuse(r) PROVE CopiesProven'
  <2> DEFINE row == sprints[target[r]]
             c == call[r]
             copy == [row EXCEPT !.status = c.status, !.url = row.url \/ c.url,
                                 !.ended = @ \/ c.status = "shipped"]
             step == IF c.status = "active" THEN "guard" ELSE "update"
  <2>1. c.status = "shipped" => row.url \/ c.url
    BY <1>6 DEF StatusGet
  <2>2. row \in Sprint
    BY <1>4, <1>6 DEF StatusGet
  <2>3. Proven(copy)
    BY <2>1, <2>2 DEF Proven, Sprint
  <2>4. Keep(r, copy, step)
    BY <1>6 DEF StatusGet
  <2> HIDE DEF copy, step
  <2> QED
    BY <1>2, <2>3, <2>4
<1>7. ASSUME NEW r \in Requests, RetroGet(r) PROVE CopiesProven'
  <2>1. Proven([sprints[target[r]] EXCEPT !.retro = call[r].text])
    BY <1>4, <1>7 DEF RetroGet, Proven, Sprint
  <2> QED
    BY <1>2, <1>7, <2>1 DEF RetroGet
<1>8. ASSUME NEW r \in Requests, DeleteGet(r) PROVE CopiesProven'
  BY <1>2, <1>4, <1>8 DEF DeleteGet
<1>9. ASSUME NEW r \in Requests,
             \/ Refuse(r) \/ Interrupt(r) \/ (\E c \in Calls : Arrive(r, c))
             \/ CreateGuard(r) \/ CreateInsert(r) \/ CreateSeed(r) \/ PickCurrent(r)
             \/ GetMissing(r) \/ StatusGuard(r) \/ WriteBack(r) \/ Reply(r)
             \/ DeleteRows(r) \/ ToggleGate(r) \/ LogEvent(r)
      PROVE  UNCHANGED snap
  BY <1>9 DEF Refuse, Interrupt, Arrive, CreateGuard, CreateInsert, CreateSeed, PickCurrent,
     GetMissing, StatusGuard, WriteBack, Reply, DeleteRows, ToggleGate, LogEvent
<1> QED
  BY <1>1, <1>3, <1>5, <1>6, <1>7, <1>8, <1>9 DEF Next, Work, vars

LEMMA StepShippedIsProven ==
  ASSUME "shipped" \notin CreateStatuses, TypeOK, ShippedIsProven, CopiesProven, [Next]_vars
  PROVE  ShippedIsProven'
<1> USE DEF ShippedIsProven, Live
<1>1. CASE UNCHANGED sprints
  BY <1>1 DEF Proven
<1>2. ASSUME NEW r \in Requests, NEW id \in SprintIds, Inserts(r, id)
      PROVE  ShippedIsProven'
  <2>1. call[r].status # "shipped"
    BY <1>2, CallFields DEF Inserts, TypeOK, Ready
  <2>2. Proven(NewSprint(r))
    BY <2>1 DEF Proven, NewSprint
  <2> QED
    BY <1>2, <2>2 DEF Inserts, InsertSprint, TypeOK, StoreTypeOK, Proven
<1>3. ASSUME NEW r \in Requests, Updates(r) PROVE ShippedIsProven'
  <2>1. Proven(snap[r])
    BY <1>3, AbsentAssumption DEF Updates, CopiesProven
  <2> QED
    BY <1>3, <2>1 DEF Updates, UpdateSprint, TypeOK, StoreTypeOK, Proven
<1>4. ASSUME NEW r \in Requests, Deletes(r) PROVE ShippedIsProven'
  BY <1>4 DEF Deletes, DeleteSprint, TypeOK, StoreTypeOK, Proven
<1> QED
  BY <1>1, <1>2, <1>3, <1>4, StoreSteps
  DEF Seeds, SeedChecklist, Logs, AppendEvent, Toggles, ToggleItem, store

(***************************************************************************)
(* A shipped sprint always has its live URL and its end date, whatever     *)
(* overlaps, if no sprint is created shipped (SetStatus, UpdateSprint).    *)
(***************************************************************************)
THEOREM AlwaysShippedIsProven ==
  ASSUME "shipped" \notin CreateStatuses
  PROVE  Spec => []ShippedIsProven
<1>1. Init => ShippedIsProven /\ CopiesProven
  BY DEF Init, StoreInit, ShippedIsProven, CopiesProven, Live
<1>2. TypeOK /\ ShippedIsProven /\ CopiesProven /\ [Next]_vars
        => ShippedIsProven' /\ CopiesProven'
  BY StepShippedIsProven, StepCopiesProven
<1> QED
  BY <1>1, <1>2, TypeCorrect, PTL DEF Spec

(***************************************************************************)
(* Refinement.  While requests do not overlap, a handler works on the row  *)
(* it was asked to work on, the row that it has read is still there when   *)
(* it writes, and its copy differs from the row by the change it was asked *)
(* for and nothing else.                                                   *)
(***************************************************************************)
Altered(c, row, copy) ==
  \/ MovesPhase(c) /\ copy = [row EXCEPT !.phase = c.phase]
  \/ /\ SetsStatus(c)
     /\ c.status = "shipped" => c.url \/ row.url
     /\ copy = [row EXCEPT !.status = c.status, !.url = @ \/ c.url,
                           !.ended = @ \/ c.status = "shipped"]
  \/ c.op = "retro" /\ copy = [row EXCEPT !.retro = c.text]

Fresh(r) ==
  /\ pc[r] \in {"readback", "seed", "update", "delete", "reply"} => Live(target[r])
  /\ pc[r] = "guard" /\ SetsStatus(call[r]) => Live(target[r])
  /\ pc[r] = "update" \/ (pc[r] = "guard" /\ SetsStatus(call[r]))
       => Altered(call[r], sprints[target[r]], snap[r])
  /\ pc[r] = "event" /\ call[r].op # "delete" => Live(target[r])

Aimed(r) ==
  pc[r] \in {"get", "update", "delete"} \/ (pc[r] = "guard" /\ SetsStatus(call[r]))
    => IF call[r].op \in {"chat_phase", "chat_ship"}
       THEN Active(target[r]) ELSE target[r] = call[r].id

Alone == \A r, q \in Requests : InFlight(r) /\ InFlight(q) => r = q

Serial == Alone /\ \A r \in Requests : Fresh(r) /\ Aimed(r)

LEMMA InitSerial == Init => Serial
  BY DEF Init, Serial, Alone, Fresh, Aimed, InFlight, Steps

LEMMA StepAlone ==
  ASSUME ~overlap, TypeOK, Alone, [Next]_vars
  PROVE  Alone'
<1>1. ASSUME NEW r \in Requests, NEW c \in Calls, Arrive(r, c) PROVE Alone'
  BY <1>1 DEF Arrive, Quiet, Goto, Alone, InFlight, TypeOK, ServiceTypeOK
<1>2. ASSUME NEW r \in Requests, Work(r) \/ Interrupt(r)
      PROVE  /\ InFlight(r)
             /\ \A q \in Requests \ {r} : pc'[q] = pc[q]
  BY <1>2 DEF Work, Interrupt, CreateGuard, CreateInsert, CreateReadBack, CreateSeed,
     PickCurrent, GetMissing, PhaseGet, StatusGet, StatusGuard, RetroGet, Fetch, Keep,
     WriteBack, Reply, DeleteGet, DeleteRows, ToggleGate, LogEvent, Refuse, Goto,
     InFlight, Steps, TypeOK, ServiceTypeOK
<1>3. ASSUME NEW r \in Requests, Work(r) \/ Interrupt(r) PROVE Alone'
  BY <1>2, <1>3 DEF Alone, InFlight
<1> QED
  BY <1>1, <1>3 DEF Next, vars, Alone, InFlight

LEMMA StepFresh ==
  ASSUME ~overlap, TypeOK, Serial, [Next]_vars
  PROVE  \A r \in Requests : Fresh(r)'
<1>1. Alone'
  BY StepAlone DEF Serial
<1>2. ASSUME NEW q \in Requests, pc'[q] \notin Steps PROVE Fresh(q)'
  BY <1>2 DEF Fresh, Steps
<1>3. ASSUME NEW r \in Requests, Fresh(r)', pc'[r] \in Steps
      PROVE  \A q \in Requests : Fresh(q)'
  BY <1>1, <1>2, <1>3 DEF Alone, InFlight
<1>4. ASSUME NEW r \in Requests, pc'[r] \in Ends, \A q \in Requests \ {r} : pc'[q] \notin Steps
      PROVE  \A q \in Requests : Fresh(q)'
  BY <1>2, <1>4 DEF Steps, Ends
<1>5. ASSUME NEW r \in Requests, Refuse(r) \/ Interrupt(r), InFlight(r)
      PROVE  \A q \in Requests : Fresh(q)'
  <2>1. pc'[r] \in Ends /\ \A q \in Requests \ {r} : pc'[q] = pc[q]
    BY <1>5 DEF Refuse, Interrupt, Goto, TypeOK, ServiceTypeOK, Ends
  <2> QED
    BY <1>4, <1>5, <2>1 DEF Serial, Alone, InFlight
<1>6. ASSUME NEW r \in Requests, NEW c \in Calls, Arrive(r, c)
      PROVE  \A q \in Requests : Fresh(q)'
  <2>1. Fresh(r)'
    BY <1>6, CallFields DEF Arrive, Goto, FirstStep, Fresh, SetsStatus, TypeOK, ServiceTypeOK
  <2>2. pc'[r] \in Steps
    BY <1>6, CallFields DEF Arrive, Goto, FirstStep, Steps, TypeOK, ServiceTypeOK
  <2> QED
    BY <1>3, <2>1, <2>2
<1>7. ASSUME NEW r \in Requests, Work(r), ~Refuse(r) PROVE \A q \in Requests : Fresh(q)'
  <2> USE DEF TypeOK, ServiceTypeOK, StoreTypeOK, Goto
  <2>1. Fresh(r) /\ Ready(r)
    BY DEF Serial
  <2>2. CASE CreateGuard(r)
    BY <1>3, <1>7, <2>2 DEF CreateGuard, Fresh, SetsStatus, Steps
  <2>3. CASE CreateInsert(r)
    <3>1. PICK id \in SprintIds : /\ sprints' = [sprints EXCEPT ![id] = NewSprint(r)]
                                  /\ target' = [target EXCEPT ![r] = id]
                                  /\ Goto(r, "readback")
      BY <1>7, <2>3 DEF CreateInsert, InsertSprint
    <3>2. NewSprint(r) # Absent
      BY <2>3, NewSprintType, AbsentAssumption DEF CreateInsert
    <3> QED
      BY <1>3, <3>1, <3>2 DEF Fresh, Live, Steps
  <2>4. CASE CreateReadBack(r)
    BY <1>3, <1>7, <2>4 DEF CreateReadBack, Fresh, Live, store, Steps
  <2>5. CASE CreateSeed(r)
    BY <1>3, <1>7, <2>4, <2>5 DEF CreateSeed, SeedChecklist, Fresh, Live, Steps
  <2>6. CASE PickCurrent(r)
    BY <1>3, <1>7, <2>6 DEF PickCurrent, Fresh, Steps
  <2>7. CASE PhaseGet(r)
    BY <1>3, <2>1, <2>7 DEF PhaseGet, Fetch, Keep, Fresh, Live, Altered, MovesPhase, store, Steps
  <2>8. CASE StatusGet(r)
    <3>1. sprints[target[r]] \in Sprint
      BY <2>1, <2>8 DEF StatusGet, Fetch, Live, Ready
    <3>2. Altered(call[r], sprints[target[r]], snap'[r])
      BY <1>7, <2>8, <3>1 DEF StatusGet, Keep, Altered, Sprint
    <3>3. pc'[r] \in {"guard", "update"} /\ UNCHANGED <<sprints, call, target>>
      BY <1>7, <2>8 DEF StatusGet, Keep, store
    <3>4. Live(target[r])
      BY <2>8 DEF StatusGet, Fetch
    <3> QED
      BY <1>3, <3>2, <3>3, <3>4 DEF Fresh, Live, Steps, Altered, MovesPhase, SetsStatus
  <2>9. CASE RetroGet(r)
    BY <1>3, <2>1, <2>9 DEF RetroGet, Fetch, Keep, Fresh, Live, Altered, MovesPhase,
       SetsStatus, store, Steps
  <2>10. CASE StatusGuard(r)
    <3>1. pc' = [pc EXCEPT ![r] = "update"] /\ UNCHANGED <<sprints, call, target, snap>>
      BY <1>7, <2>10 DEF StatusGuard, store
    <3> QED
      BY <1>3, <2>1, <2>10, <3>1
      DEF StatusGuard, Fresh, Live, Altered, MovesPhase, SetsStatus, Steps
  <2>11. CASE WriteBack(r)
    <3>1. /\ pc' = [pc EXCEPT ![r] = "event"] /\ UNCHANGED <<call, target, snap>>
          /\ sprints' = [sprints EXCEPT ![target[r]] = snap[r]]
      BY <1>7, <2>1, <2>11 DEF WriteBack, UpdateSprint, Fresh
    <3>2. target[r] \in SprintIds /\ snap[r] # Absent
      BY <2>1, <2>11, AbsentAssumption DEF WriteBack, Ready
    <3> QED
      BY <1>3, <3>1, <3>2 DEF Fresh, Live, Steps
  <2>12. CASE DeleteGet(r)
    BY <1>3, <2>1, <2>12 DEF DeleteGet, Fetch, Keep, Fresh, Live, SetsStatus, store, Steps
  <2>13. CASE DeleteRows(r)
    BY <1>3, <1>7, <2>1, <2>13 DEF DeleteRows, Fresh, Ready, Steps
  <2>14. CASE LogEvent(r)
    <3>1. pc' = [pc EXCEPT ![r] = IF call[r].op \in EventLast THEN "answered" ELSE "reply"]
          /\ UNCHANGED <<sprints, call, target, snap>>
      BY <2>14 DEF LogEvent, AppendEvent
    <3>2. CASE call[r].op \in EventLast
      BY <1>4, <2>14, <3>1, <3>2 DEF LogEvent, Serial, Alone, InFlight, Steps, Ends
    <3>3. CASE call[r].op \notin EventLast
      BY <1>3, <2>1, <2>14, <3>1, <3>3 DEF LogEvent, EventLast, Fresh, Live, Steps
    <3> QED
      BY <3>2, <3>3
  <2>15. CASE Reply(r) \/ ToggleGate(r)
    <3>1. pc[r] \in Steps /\ pc'[r] \in Ends /\ \A q \in Requests \ {r} : pc'[q] = pc[q]
      BY <1>7, <2>15 DEF Reply, ToggleGate, Steps, Ends
    <3> QED
      BY <1>4, <3>1 DEF Serial, Alone, InFlight
  <2>16. CASE GetMissing(r)
    BY <1>7, <2>16 DEF GetMissing
  <2> QED
    BY <1>7, <2>2, <2>3, <2>4, <2>5, <2>6, <2>7, <2>8, <2>9, <2>10, <2>11, <2>12,
       <2>13, <2>14, <2>15, <2>16 DEF Work
<1>8. ASSUME NEW r \in Requests, Work(r) PROVE InFlight(r)
  BY <1>8 DEF Work, InFlight, Steps, CreateGuard, CreateInsert, CreateReadBack, CreateSeed,
     PickCurrent, GetMissing, PhaseGet, StatusGet, StatusGuard, RetroGet, Fetch, WriteBack,
     Reply, DeleteGet, DeleteRows, ToggleGate, LogEvent
<1>9. CASE UNCHANGED vars
  BY <1>9 DEF vars, Serial, Fresh, Live, Altered, MovesPhase, SetsStatus
<1> QED
  BY <1>5, <1>6, <1>7, <1>8, <1>9 DEF Next, Interrupt

(***************************************************************************)
(* What one statement does to the locals of the request that makes it, and *)
(* to no others.                                                           *)
(***************************************************************************)
Turns(r) ==
  /\ InFlight(r) /\ call' = call
  /\ \A q \in Requests \ {r} : pc'[q] = pc[q] /\ target'[q] = target[q] /\ snap'[q] = snap[q]
  /\ pc'[r] \in Steps \cup Ends
  /\ pc'[r] \in {"guard", "insert"} => pc[r] \in {"guard", "get"}
  /\ pc'[r] = "event" => Updates(r) \/ Seeds(r) \/ Deletes(r)
  /\ pc[r] = "event" => Logs(r) \/ pc'[r] \in {"partial", "late"}
  /\ pc'[r] = "answered" => pc[r] \in {"event", "reply", "toggle"}
  /\ pc'[r] = "partial" => Committed(r)
  /\ pc'[r] = "late" => pc[r] = "event" /\ call[r].op \in EventLast
  /\ pc[r] = "event" \/ pc'[r] \in Ends \cup {"event"} => snap' = snap /\ target' = target

LEMMA Turn ==
  ASSUME TypeOK, NEW r \in Requests, Work(r) \/ Interrupt(r)
  PROVE  Turns(r)
<1> USE DEF TypeOK, ServiceTypeOK, Goto
<1>1. CASE Interrupt(r)
  BY <1>1 DEF Interrupt, Turns, Ends, Steps, InFlight, Committed
<1>2. CASE Work(r) /\ Refuse(r)
  <2>1. InFlight(r) /\ pc[r] # "event"
    BY <1>2 DEF Refuse, Work, InFlight, Steps, CreateGuard, CreateInsert, CreateReadBack,
       CreateSeed, PickCurrent, GetMissing, PhaseGet, StatusGet, StatusGuard, RetroGet, Fetch,
       Keep, WriteBack, Reply, DeleteGet, DeleteRows, ToggleGate, LogEvent
  <2> QED
    BY <1>2, <2>1 DEF Refuse, Turns, Ends, Steps
<1>3. CASE Work(r) /\ ~Refuse(r)
  <2>1. CASE CreateGuard(r) \/ StatusGuard(r)
    BY <1>3, <2>1 DEF CreateGuard, StatusGuard, Turns, InFlight, Steps, Ends
  <2>2. CASE CreateInsert(r) \/ CreateReadBack(r)
    BY <1>3, <2>2 DEF CreateInsert, CreateReadBack, Turns, InFlight, Steps, Ends
  <2>3. CASE CreateSeed(r)
    BY <1>3, <2>3 DEF CreateSeed, Seeds, Ready, Turns, InFlight, Steps, Ends
  <2>4. CASE PickCurrent(r) \/ GetMissing(r)
    BY <1>3, <2>4 DEF PickCurrent, GetMissing, Turns, InFlight, Steps, Ends
  <2>5. CASE PhaseGet(r) \/ StatusGet(r) \/ RetroGet(r) \/ DeleteGet(r)
    <3>1. PICK row, step : Keep(r, row, step) /\ step \in {"update", "guard", "delete"}
      BY <1>3, <2>5, FetchedRow
    <3>2. pc[r] = "get"
      BY <2>5 DEF PhaseGet, StatusGet, RetroGet, DeleteGet, Fetch
    <3> QED
      BY <3>1, <3>2 DEF Keep, Turns, InFlight, Steps, Ends
  <2>6. CASE WriteBack(r)
    BY <1>3, <2>6 DEF WriteBack, Updates, Ready, Turns, InFlight, Steps, Ends
  <2>7. CASE DeleteRows(r)
    BY <1>3, <2>7 DEF DeleteRows, Deletes, Ready, Turns, InFlight, Steps, Ends
  <2>8. CASE ToggleGate(r) \/ Reply(r)
    BY <1>3, <2>8 DEF ToggleGate, Reply, Turns, InFlight, Steps, Ends
  <2>9. CASE LogEvent(r)
    BY <1>3, <2>9 DEF LogEvent, Logs, Turns, InFlight, Steps, Ends
  <2> QED
    BY <1>3, <2>1, <2>2, <2>3, <2>4, <2>5, <2>6, <2>7, <2>8, <2>9 DEF Work
<1> QED
  BY <1>1, <1>2, <1>3

LEMMA StepAimed ==
  ASSUME ~overlap, TypeOK, Serial, [Next]_vars
  PROVE  \A r \in Requests : Aimed(r)'
<1>1. Alone'
  BY StepAlone DEF Serial
<1>2. ASSUME NEW r \in Requests, InFlight(r)', Aimed(r)' PROVE \A q \in Requests : Aimed(q)'
  BY <1>1, <1>2 DEF Alone, Aimed, InFlight, Steps
<1>3. ASSUME NEW r \in Requests, NEW c \in Calls, Arrive(r, c)
      PROVE  \A q \in Requests : Aimed(q)'
  <2> USE DEF TypeOK, ServiceTypeOK
  <2>1. Aimed(r)'
    BY <1>3, CallFields DEF Arrive, Goto, FirstStep, Aimed, SetsStatus
  <2>2. InFlight(r)'
    BY <1>3, CallFields DEF Arrive, Goto, FirstStep, InFlight, Steps
  <2> QED
    BY <1>2, <2>1, <2>2
<1>4. ASSUME NEW r \in Requests, Work(r) \/ Interrupt(r) PROVE \A q \in Requests : Aimed(q)'
  <2> USE DEF TypeOK, ServiceTypeOK, Goto
  <2>1. Aimed(r) /\ Ready(r) /\ InFlight(r) /\ \A q \in Requests \ {r} : pc'[q] = pc[q]
    BY <1>4, Turn DEF Serial, Turns
  <2>2. \A q \in Requests \ {r} : Aimed(q)'
    BY <2>1 DEF Serial, Alone, Aimed, InFlight, Steps
  <2>3. Aimed(r)'
    <3>1. CASE pc'[r] \notin {"guard", "get", "update", "delete"}
      BY <3>1 DEF Aimed
    <3>2. CASE PickCurrent(r) /\ ~Refuse(r)
      <4>1. PICK id \in SprintIds : /\ IsCurrent(id) /\ target' = [target EXCEPT ![r] = id]
                                    /\ UNCHANGED <<sprints, call>>
        BY <3>2 DEF PickCurrent, store
      <4>2. call[r].op \in {"chat_phase", "chat_ship"}
        BY <2>1, <3>2 DEF PickCurrent, Ready
      <4> QED
        BY <4>1, <4>2 DEF Aimed, IsCurrent, Active, Live
    <3>3. CASE (PhaseGet(r) \/ StatusGet(r) \/ RetroGet(r) \/ DeleteGet(r)) /\ ~Refuse(r)
      <4>1. pc[r] = "get" /\ UNCHANGED <<sprints, call, target>>
        BY <3>3, FetchedRow
        DEF PhaseGet, StatusGet, RetroGet, DeleteGet, Fetch, Keep, store
      <4> QED
        BY <2>1, <4>1 DEF Aimed, Active, Live
    <3>4. CASE StatusGuard(r) /\ ~Refuse(r)
      BY <2>1, <3>4 DEF StatusGuard, Aimed, Active, Live, store
    <3>5. Refuse(r) \/ Interrupt(r) => pc'[r] \in Ends
      BY <2>1 DEF Refuse, Interrupt, Ends
    <3>6. \/ CreateGuard(r) \/ CreateInsert(r) \/ CreateReadBack(r) \/ CreateSeed(r)
          \/ WriteBack(r) \/ Reply(r) \/ DeleteRows(r) \/ ToggleGate(r) \/ LogEvent(r)
          => pc'[r] \notin {"guard", "get", "update", "delete"}
      BY <2>1 DEF Refuse, CreateGuard, CreateInsert, CreateReadBack, CreateSeed,
         WriteBack, Reply, DeleteRows, ToggleGate, LogEvent
    <3> QED
      BY <1>4, <3>1, <3>2, <3>3, <3>4, <3>5, <3>6 DEF Work, GetMissing, Ends
  <2> QED
    BY <2>2, <2>3
<1>5. CASE UNCHANGED vars
  BY <1>5 DEF vars, Serial, Aimed, Active, Live, SetsStatus
<1> QED
  BY <1>3, <1>4, <1>5 DEF Next

(***************************************************************************)
(* The steps that change a sprint are steps of the board, the others       *)
(* leave it as it is.                                                      *)
(***************************************************************************)
LEMMA WriteBackIsOnBoard ==
  ASSUME TypeOK, NEW r \in Requests, Fresh(r), Aimed(r), WriteBack(r), ~Refuse(r),
         Applied' = Applied \cup {r}
  PROVE  Board!Next
<1> DEFINE id == target[r]
           row == sprints[id]
<1>1. /\ pc[r] = "update" /\ call[r] \in Calls /\ id \in SprintIds
      /\ Live(id) /\ Altered(call[r], row, snap[r])
      /\ IndexAllows(id, snap[r])
      /\ sprints' = [sprints EXCEPT ![id] = snap[r]]
  <2>1. pc[r] = "update" /\ call[r] \in Calls /\ id \in SprintIds
    BY DEF WriteBack, TypeOK, Ready
  <2>2. Live(id) /\ Altered(call[r], row, snap[r])
    BY <2>1 DEF Fresh
  <2>3. IndexAllows(id, snap[r]) /\ UpdateSprint(id, snap[r])
    BY <2>2 DEF WriteBack
  <2> QED
    BY <2>1, <2>2, <2>3 DEF UpdateSprint
<1>2. r \notin Applied
  BY <1>1 DEF Applied, Committed
<1>3. row \in Sprint /\ sprints[id] # Absent
  BY <1>1 DEF TypeOK, StoreTypeOK, Live
<1>4. Board!Put(id, snap[r]) /\ Board!Subject(r, id)
  BY <1>1, <1>3 DEF Board!Put, Board!Subject, Board!On, Aimed, Active
<1>5. CASE MovesPhase(call[r]) /\ snap[r] = [row EXCEPT !.phase = call[r].phase]
  <2>1. Board!Move(r, id)
    BY <1>4, <1>5 DEF Board!Move, MovesPhase
  <2> QED
    BY <1>1, <1>2, <2>1 DEF Board!Next, Board!Apply
<1>6. CASE /\ SetsStatus(call[r])
           /\ call[r].status = "shipped" => call[r].url \/ row.url
           /\ snap[r] = [row EXCEPT !.status = call[r].status, !.url = @ \/ call[r].url,
                                    !.ended = @ \/ call[r].status = "shipped"]
  <2>2. snap[r].status = call[r].status
    BY <1>3, <1>6 DEF Sprint
  <2>3. call[r].status = "active" => Board!OthersIdle(id)
    BY <1>1, <2>2 DEF IndexAllows, Active, Live, Board!OthersIdle, Board!On
  <2>4. Board!SetStatus(r, id)
    BY <1>4, <1>6, <2>3 DEF Board!SetStatus, SetsStatus
  <2> QED
    BY <1>1, <1>2, <2>4 DEF Board!Next, Board!Apply
<1>7. CASE call[r].op = "retro" /\ snap[r] = [row EXCEPT !.retro = call[r].text]
  <2>1. Board!Retro(r, id)
    BY <1>4, <1>7 DEF Board!Retro
  <2> QED
    BY <1>1, <1>2, <2>1 DEF Board!Next, Board!Apply
<1> QED
  BY <1>1, <1>5, <1>6, <1>7 DEF Altered

LEMMA InsertIsOnBoard ==
  ASSUME TypeOK, NEW r \in Requests, CreateInsert(r), ~Refuse(r),
         Applied' = Applied \cup {r}
  PROVE  Board!Next
<1>1. PICK id \in SprintIds : /\ NextId(id) /\ IndexAllows(id, NewSprint(r))
                              /\ sprints' = [sprints EXCEPT ![id] = NewSprint(r)]
  BY DEF CreateInsert, InsertSprint
<1>2. call[r].op = "create" /\ r \notin Applied
  BY DEF CreateInsert, TypeOK, Ready, Applied, Committed
<1>3. call[r].status = "active" => Board!OthersIdle(id)
  BY <1>1 DEF IndexAllows, NewSprint, Active, Live, Board!OthersIdle, Board!On
<1>4. Board!Start(r, id)
  BY <1>1, <1>2, <1>3 DEF Board!Start, Board!Put, Board!On, NextId, Live, NewSprint
<1> QED
  BY <1>2, <1>4 DEF Board!Next, Board!Apply

LEMMA DeleteIsOnBoard ==
  ASSUME TypeOK, NEW r \in Requests, Fresh(r), Aimed(r), DeleteRows(r), ~Refuse(r),
         Applied' = Applied \cup {r}
  PROVE  Board!Next
<1>1. /\ target[r] \in SprintIds /\ sprints[target[r]] # Absent /\ r \notin Applied
      /\ sprints' = [sprints EXCEPT ![target[r]] = Absent]
  BY DEF DeleteRows, DeleteSprint, Live, TypeOK, Ready, Applied, Committed
<1>2. pc[r] = "delete" /\ call[r].op = "delete"
  BY DEF DeleteRows, TypeOK, Ready
<1>3. Board!Remove(r, target[r])
  BY <1>1, <1>2 DEF Board!Remove, Board!Subject, Board!Put, Board!On, Aimed
<1> QED
  BY <1>1, <1>3 DEF Board!Next, Board!Apply

LEMMA StepOnBoard ==
  ASSUME TypeOK, Serial, [Next]_vars
  PROVE  Board!Next \/ UNCHANGED <<sprints, Applied>>
<1> USE DEF TypeOK, ServiceTypeOK, Goto
<1>1. ASSUME NEW r \in Requests, NEW c \in Calls, Arrive(r, c)
      PROVE  UNCHANGED <<sprints, Applied>>
  <2>1. FirstStep(c) \in {"guard", "insert", "pick", "toggle", "get"}
    BY CallFields DEF FirstStep
  <2> QED
    BY <1>1, <2>1 DEF Arrive, Applied, Committed, store
<1>2. ASSUME NEW r \in Requests, Interrupt(r) PROVE UNCHANGED <<sprints, Applied>>
  BY <1>2 DEF Interrupt, InFlight, Steps, Applied, Committed, store
<1>3. ASSUME NEW r \in Requests, Refuse(r), InFlight(r), ~Committed(r)
      PROVE  UNCHANGED <<sprints, Applied>>
  BY <1>3 DEF Refuse, InFlight, Steps, Applied, Committed, store
<1>4. ASSUME NEW r \in Requests, Work(r), ~Refuse(r)
      PROVE  Board!Next \/ UNCHANGED <<sprints, Applied>>
  <2>1. Fresh(r) /\ Aimed(r) /\ Ready(r)
    BY DEF Serial
  <2>2. CASE CreateInsert(r)
    <3>1. Applied' = Applied \cup {r}
      BY <1>4, <2>2 DEF CreateInsert, Applied, Committed
    <3> QED
      BY <1>4, <2>2, <3>1, InsertIsOnBoard
  <2>3. CASE WriteBack(r)
    <3>1. Applied' = Applied \cup {r}
      BY <1>4, <2>3 DEF WriteBack, Applied, Committed
    <3> QED
      BY <1>4, <2>1, <2>3, <3>1, WriteBackIsOnBoard
  <2>4. CASE DeleteRows(r)
    <3>1. Applied' = Applied \cup {r}
      BY <1>4, <2>4 DEF DeleteRows, Applied, Committed
    <3> QED
      BY <1>4, <2>1, <2>4, <3>1, DeleteIsOnBoard
  <2>5. CASE CreateGuard(r) \/ PickCurrent(r) \/ GetMissing(r) \/ StatusGuard(r)
    BY <1>4, <2>5 DEF CreateGuard, PickCurrent, GetMissing, StatusGuard, store, Applied, Committed
  <2>6. CASE PhaseGet(r) \/ StatusGet(r) \/ RetroGet(r) \/ DeleteGet(r)
    <3>1. PICK row, step : Keep(r, row, step) /\ step \in {"update", "guard", "delete"}
      BY <1>4, <2>6, FetchedRow
    <3>2. pc[r] = "get"
      BY <2>6 DEF PhaseGet, StatusGet, RetroGet, DeleteGet, Fetch
    <3> QED
      BY <3>1, <3>2 DEF Keep, store, Applied, Committed
  <2>7. CASE CreateReadBack(r) \/ CreateSeed(r)
    BY <1>4, <2>7 DEF CreateReadBack, CreateSeed, SeedChecklist, store, Applied, Committed
  <2>8. CASE LogEvent(r)
    BY <2>1, <2>8 DEF LogEvent, EventLast, AppendEvent, Applied, Committed, Ready, ChangingOps
  <2>9. CASE Reply(r)
    BY <2>1, <2>9 DEF Reply, store, Fresh, Applied, Committed, Ready, ChangingOps
  <2>10. CASE ToggleGate(r)
    BY <1>4, <2>1, <2>10 DEF ToggleGate, ToggleItem, Applied, Committed, Ready
  <2> QED
    BY <1>4, <2>2, <2>3, <2>4, <2>5, <2>6, <2>7, <2>8, <2>9, <2>10 DEF Work
<1>5. ASSUME NEW r \in Requests, Work(r), Refuse(r)
      PROVE  InFlight(r) /\ ~Committed(r)
  <2>1. pc'[r] = "refused" /\ UNCHANGED store
    BY <1>5 DEF Refuse
  <2>2. Fresh(r) /\ Ready(r)
    BY DEF Serial
  <2> QED
    BY <1>5, <2>1, <2>2 DEF Work, InFlight, Steps, Committed, Fresh, CreateGuard, CreateInsert,
       CreateReadBack, CreateSeed, PickCurrent, GetMissing, PhaseGet, StatusGet, StatusGuard,
       RetroGet, Fetch, Keep, WriteBack, Reply, DeleteGet, DeleteRows, ToggleGate, LogEvent
<1>6. CASE UNCHANGED vars
  BY <1>6 DEF vars, Applied, Committed
<1> QED
  BY <1>1, <1>2, <1>3, <1>4, <1>5, <1>6 DEF Next

LEMMA InTurnSerial == Spec => [](~overlap => Serial)
<1>1. Init => Serial
  BY InitSerial
<1>2. TypeOK /\ (~overlap => Serial) /\ [Next]_vars => (~overlap => Serial)'
  <2> SUFFICES ASSUME TypeOK, ~overlap => Serial, [Next]_vars, ~overlap' PROVE Serial'
    OBVIOUS
  <2>1. ~overlap
    BY DEF Next, vars
  <2> QED
    BY <2>1, StepAlone, StepFresh, StepAimed DEF Serial
<1> QED
  BY <1>1, <1>2, TypeCorrect, PTL DEF Spec

(***************************************************************************)
(* When requests come in turn, the handlers implement SprintBoard:         *)
(* every request changes the board at once, at most once, and only the     *)
(* sprint and the column it asks for (service/sprint.go).                  *)
(***************************************************************************)
THEOREM SerialImplementsBoard == Spec => BoardSpec
<1>1. Init => Board!Init
  BY DEF Init, StoreInit, Applied, Committed, Board!Init
<1>2. TypeOK /\ (~overlap => Serial) /\ [Next]_vars
      => [~overlap => Board!Next]_<<sprints, Applied>>
  BY StepOnBoard
<1> QED
  BY <1>1, <1>2, InTurnSerial, TypeCorrect, PTL DEF Spec, BoardSpec

(***************************************************************************)
(* The history of ids.  What a request has done: made its sprint, deleted one, filled in the    *)
(* checklist of its own, or changed a phase and not yet said so.           *)
(***************************************************************************)
Created(c) == pc[c] \notin {"idle", "guard", "insert"} /\ call[c].op = "create"
Deleted(r) == pc[r] \in {"event", "answered", "partial", "late"} /\ call[r].op = "delete"
Seeded(c) == pc[c] \in {"event", "answered", "late"} /\ call[c].op = "create"
Telling(r) == pc[r] = "event" /\ MovesPhase(call[r])

LEMMA Deeds ==
  ASSUME TypeOK, [Next]_vars, NEW r \in Requests
  PROVE  /\ Created(r) => Created(r)'
         /\ Deleted(r)' => snap'[r] = snap[r] /\ (Deleted(r) \/ Deletes(r))
         /\ Seeded(r)' => Seeded(r) \/ Seeds(r)
         /\ Telling(r) => \/ Telling(r)' /\ target'[r] = target[r]
                          \/ Logs(r) \/ pc'[r] = "partial"
<1> DEFINE Same == /\ pc'[r] = pc[r] /\ call'[r] = call[r]
                   /\ target'[r] = target[r] /\ snap'[r] = snap[r]
<1> USE DEF Created, Deleted, Seeded, Telling, MovesPhase
<1>1. CASE Same
  BY <1>1
<1>2. ASSUME NEW c \in Calls, Arrive(r, c) PROVE pc[r] = "idle" /\ pc'[r] = FirstStep(c)
  BY <1>2 DEF Arrive, Goto, TypeOK, ServiceTypeOK
<1>3. ASSUME NEW c \in Calls
      PROVE  FirstStep(c) \notin {"event", "answered", "partial", "late"}
  BY CallFields DEF FirstStep
<1>4. CASE Turns(r)
  <2>1. Ready(r) /\ pc[r] \in Steps
    BY <1>4 DEF TypeOK, Turns, InFlight
  <2>2. Created(r) => Created(r)'
    BY <1>4, <2>1 DEF Turns, Ready, ChangingOps, Steps, Ends
  <2>3. call'[r].op = "delete" /\ pc'[r] = "event" => Deletes(r) /\ snap'[r] = snap[r]
    BY <1>4, <2>1 DEF Turns, Updates, Seeds, Ready, ChangingOps, Ends
  <2>4. call'[r].op = "delete" /\ pc'[r] \in {"answered", "partial", "late"}
         => pc[r] = "event" /\ snap'[r] = snap[r]
    BY <1>4, <2>1 DEF Turns, Committed, Ready, ChangingOps, Ends
  <2>5. Seeded(r)' => Seeded(r) \/ Seeds(r)
    BY <1>4, <2>1 DEF Turns, Updates, Deletes, Ready, ChangingOps, Ends
  <2>6. Telling(r) => Logs(r) \/ pc'[r] = "partial"
    BY <1>4, <2>1 DEF Turns, EventLast
  <2>7. Deleted(r)' => snap'[r] = snap[r] /\ (Deleted(r) \/ Deletes(r))
    BY <1>4, <2>3, <2>4 DEF Turns
  <2> QED
    BY <2>2, <2>5, <2>6, <2>7
<1>5. ASSUME NEW q \in Requests, q # r, Turns(q) \/ \E c \in Calls : Arrive(q, c) PROVE Same
  BY <1>5 DEF Turns, Arrive, Goto, TypeOK, ServiceTypeOK
<1> QED
  BY <1>1, <1>2, <1>3, <1>4, <1>5, Turn DEF Next, vars

(***************************************************************************)
(* What the request that is under way has in hand, while it is alone.      *)
(***************************************************************************)
InHand(r) ==
  LET row == sprints[target[r]]
  IN /\ pc[r] \in {"readback", "seed"} => row.skill = r
     /\ pc[r] \in {"seed", "delete"} => snap[r].skill = row.skill
     /\ pc[r] = "event" =>
          IF call[r].op = "delete" THEN ~Live(target[r]) ELSE snap[r].skill = row.skill
     /\ Telling(r) => row.phase = call[r].phase

LEMMA AlteredKeeps ==
  ASSUME NEW c \in Calls, NEW row \in Sprint, NEW copy, Altered(c, row, copy)
  PROVE  /\ copy.skill = row.skill
         /\ copy.phase = IF MovesPhase(c) THEN c.phase ELSE row.phase
  BY DEF Altered, Sprint, MovesPhase, SetsStatus

LEMMA StepInHand ==
  ASSUME ~overlap, TypeOK, Serial, \A r \in Requests : InHand(r), [Next]_vars
  PROVE  \A r \in Requests : InHand(r)'
<1> USE DEF Goto
<1>1. ASSUME NEW q \in Requests, pc'[q] \notin {"readback", "seed", "delete", "event"} PROVE InHand(q)'
  BY <1>1 DEF InHand, Telling
<1>2. ASSUME NEW r \in Requests, InHand(r)', InFlight(r), \A q \in Requests \ {r} : pc'[q] = pc[q]
      PROVE  \A q \in Requests : InHand(q)'
  <2>1. ASSUME NEW q \in Requests, q # r PROVE pc'[q] \notin Steps
    BY <1>2, <2>1 DEF Serial, Alone, InFlight
  <2> QED
    BY <1>1, <1>2, <2>1 DEF Steps
<1>3. ASSUME NEW r \in Requests, NEW c \in Calls, Arrive(r, c) PROVE \A q \in Requests : InHand(q)'
  <2>1. FirstStep(c) \in {"guard", "insert", "pick", "toggle", "get"}
    BY CallFields DEF FirstStep
  <2>2. ASSUME NEW q \in Requests PROVE pc'[q] \notin {"readback", "seed", "delete", "event"}
    BY <1>3, <2>1 DEF Arrive, Quiet, InFlight, Steps, TypeOK, ServiceTypeOK
  <2> QED
    BY <1>1, <2>2
<1>4. ASSUME NEW r \in Requests, Work(r) \/ Interrupt(r) PROVE InHand(r)'
  <2> USE DEF TypeOK, ServiceTypeOK, StoreTypeOK
  <2>1. Turns(r) /\ Fresh(r) /\ Ready(r) /\ InHand(r)
    BY <1>4, Turn DEF Serial
  <2>2. CASE Interrupt(r) \/ Refuse(r)
    BY <1>1, <2>2 DEF Interrupt, Refuse
  <2>3. CASE CreateInsert(r) /\ ~Refuse(r)
    <3>1. PICK id \in SprintIds : /\ sprints' = [sprints EXCEPT ![id] = NewSprint(r)]
                                  /\ target' = [target EXCEPT ![r] = id]
                                  /\ Goto(r, "readback")
      BY <2>3 DEF CreateInsert, InsertSprint
    <3> QED
      BY <3>1 DEF InHand, Telling, NewSprint
  <2>4. CASE CreateReadBack(r) /\ ~Refuse(r)
    BY <2>1, <2>4 DEF CreateReadBack, InHand, Telling, store, Ready
  <2>5. CASE CreateSeed(r) /\ ~Refuse(r)
    BY <2>1, <2>5 DEF CreateSeed, SeedChecklist, InHand, Telling, MovesPhase, Ready
  <2>6. CASE DeleteGet(r)
    BY <2>1, <2>6 DEF DeleteGet, Fetch, Keep, store, InHand, Telling
  <2>7. CASE WriteBack(r) /\ ~Refuse(r)
    <3>1. /\ target[r] \in SprintIds /\ call[r] \in Calls /\ call[r].op \in ChangingOps
          /\ Live(target[r]) /\ Altered(call[r], sprints[target[r]], snap[r])
      BY <2>1, <2>7 DEF WriteBack, Ready, Fresh
    <3>2. /\ snap[r].skill = sprints[target[r]].skill
          /\ MovesPhase(call[r]) => snap[r].phase = call[r].phase
      BY <3>1, AlteredKeeps DEF Live
    <3>3. sprints'[target[r]] = snap[r] /\ UNCHANGED <<call, target, snap>> /\ pc'[r] = "event"
      BY <2>7, <3>1 DEF WriteBack, UpdateSprint
    <3> QED
      BY <3>1, <3>2, <3>3 DEF InHand, Telling, ChangingOps
  <2>8. CASE DeleteRows(r) /\ ~Refuse(r)
    BY <2>1, <2>8 DEF DeleteRows, DeleteSprint, InHand, Live, Telling, MovesPhase, Ready
  <2>9. CASE /\ \/ CreateGuard(r) \/ StatusGuard(r) \/ PickCurrent(r) \/ PhaseGet(r) \/ StatusGet(r)
                \/ RetroGet(r) \/ Reply(r) \/ ToggleGate(r) \/ LogEvent(r)
             /\ ~Refuse(r)
    <3>1. pc'[r] \notin {"readback", "seed", "delete", "event"}
      BY <2>9 DEF CreateGuard, StatusGuard, PickCurrent, PhaseGet, StatusGet, RetroGet, Reply,
         ToggleGate, LogEvent, Keep, Fetch
    <3> QED
      BY <1>1, <3>1
  <2> QED
    BY <1>4, <2>2, <2>3, <2>4, <2>5, <2>6, <2>7, <2>8, <2>9 DEF Work, GetMissing
<1>5. CASE UNCHANGED vars
  BY <1>5 DEF vars, InHand, Telling, Live
<1> QED
  BY <1>2, <1>3, <1>4, <1>5, Turn DEF Next, Turns

(***************************************************************************)
(* Every row was made by the one request whose skill it has, and a deleted *)
(* sprint's skill is on no row again, although its id may be.              *)
(***************************************************************************)
Origins ==
  /\ \A id \in SprintIds : Live(id) => Created(sprints[id].skill)
  /\ \A i, j \in SprintIds : Live(i) /\ Live(j) /\ sprints[i].skill = sprints[j].skill => i = j

Gone ==
  \A r \in Requests : Deleted(r) =>
    /\ snap[r] \in Sprint /\ Created(snap[r].skill)
    /\ \A id \in SprintIds : Live(id) => sprints[id].skill # snap[r].skill

\* No statement gives a row another skill, but the one that makes it.
LEMMA SkillsStay ==
  ASSUME TypeOK, Serial, [Next]_vars
  PROVE  \/ \A id \in SprintIds : Live(id)' => Live(id) /\ sprints'[id].skill = sprints[id].skill
         \/ \E r \in Requests, id \in SprintIds : Inserts(r, id)
<1> USE DEF TypeOK, StoreTypeOK, Live
<1>1. ASSUME NEW r \in Requests, Updates(r)
      PROVE  \A id \in SprintIds : Live(id)' => Live(id) /\ sprints'[id].skill = sprints[id].skill
  <2>1. Live(target[r]) /\ call[r] \in Calls /\ Altered(call[r], sprints[target[r]], snap[r])
    BY <1>1 DEF Updates, Serial, Fresh, Ready
  <2>2. snap[r].skill = sprints[target[r]].skill
    BY <1>1, <2>1, AlteredKeeps DEF Updates
  <2> QED
    BY <1>1, <2>1, <2>2 DEF Updates, UpdateSprint
<1>2. ASSUME NEW r \in Requests, Deletes(r)
      PROVE  \A id \in SprintIds : Live(id)' => Live(id) /\ sprints'[id].skill = sprints[id].skill
  BY <1>2 DEF Deletes, DeleteSprint
<1> QED
  BY <1>1, <1>2, StoreSteps
  DEF Seeds, SeedChecklist, Logs, AppendEvent, Toggles, ToggleItem, store

LEMMA StepOrigins ==
  ASSUME TypeOK, Serial, Origins, Gone, \A r \in Requests : InHand(r), [Next]_vars
  PROVE  Origins' /\ Gone'
<1>1. \A id \in SprintIds : Live(id) => sprints[id].skill \in Requests
  BY DEF TypeOK, StoreTypeOK, Live, Sprint
<1>2. ASSUME NEW c \in Requests, Created(c) PROVE Created(c)'
  BY <1>2, Deeds
<1>3. ASSUME NEW r \in Requests, Deleted(r)', Deleted(r)
      PROVE  snap'[r] \in Sprint /\ Created(snap[r].skill)' /\ snap'[r] = snap[r]
  <2>1. snap[r].skill \in Requests
    BY <1>3 DEF Gone, Sprint
  <2> QED
    BY <1>2, <1>3, <2>1, Deeds DEF Gone
<1>4. CASE \A id \in SprintIds : Live(id)' => Live(id) /\ sprints'[id].skill = sprints[id].skill
  <2>1. Origins'
    BY <1>1, <1>2, <1>4 DEF Origins
  <2>2. ASSUME NEW r \in Requests, Deleted(r)'
        PROVE  /\ snap'[r] \in Sprint /\ Created(snap[r].skill)'
               /\ \A id \in SprintIds : Live(id)' => sprints'[id].skill # snap'[r].skill
    <3>1. CASE Deleted(r)
      BY <1>3, <1>4, <2>2, <3>1 DEF Gone
    <3>2. CASE Deletes(r)
      <4>1. /\ target[r] \in SprintIds /\ Live(target[r]) /\ snap'[r] = snap[r]
            /\ snap[r].skill = sprints[target[r]].skill /\ snap[r] \in Sprint
        BY <2>2, <3>2, Deeds DEF Deletes, Serial, Fresh, InHand, TypeOK, Ready
      <4>2. sprints'[target[r]] = Absent
        BY <3>2, <4>1 DEF Deletes, DeleteSprint, Live, TypeOK, StoreTypeOK
      <4> QED
        BY <1>1, <1>2, <1>4, <4>1, <4>2 DEF Origins, Live
    <3> QED
      BY <2>2, <3>1, <3>2, Deeds
  <2> QED
    BY <2>1, <2>2 DEF Gone
<1>5. ASSUME NEW r \in Requests, NEW id \in SprintIds, Inserts(r, id) PROVE Origins' /\ Gone'
  <2>1. /\ sprints'[id] = NewSprint(r) /\ Live(id)' /\ ~Created(r) /\ ~Live(id)
        /\ \A other \in SprintIds \ {id} : sprints'[other] = sprints[other]
    BY <1>5, NewSprintType, AbsentAssumption, SprintIdsAssumption
    DEF Inserts, InsertSprint, NextId, Created, Live, TypeOK, StoreTypeOK
  <2>2. sprints'[id].skill = r /\ \A other \in SprintIds \ {id} : Live(other)' <=> Live(other)
    BY <2>1 DEF NewSprint, Live
  <2>3. Created(r)'
    BY <1>5 DEF Inserts, Created, TypeOK, Ready
  <2>4. Origins'
    BY <1>1, <1>2, <2>1, <2>2, <2>3 DEF Origins
  <2>5. \A q \in Requests : Deleted(q)' => Deleted(q)
    BY <2>1, Deeds DEF Deletes, DeleteSprint, Live, TypeOK, StoreTypeOK
  <2> QED
    BY <1>3, <2>1, <2>2, <2>4, <2>5 DEF Gone
<1> QED
  BY <1>4, <1>5, SkillsStay

(***************************************************************************)
(* The checklists.  Items are those of the skill whose id they have, and a *)
(* sprint whose creation has seeded its checklist has all the gates.       *)
(***************************************************************************)
HasGates(id) == \A gate \in Gates : \E item \in checklist : item.sprint = id /\ item.gate = gate

Lists ==
  /\ \A item \in checklist : item.by = sprints[item.sprint].skill
  /\ \A id \in SprintIds : Live(id) /\ Seeded(sprints[id].skill) => HasGates(id)

LEMMA StepLists ==
  ASSUME TypeOK, Serial, NoDanglingRefs, NoDanglingRefs', Origins, Lists,
         \A r \in Requests : InHand(r), [Next]_vars
  PROVE  Lists'
<1>1. \A item \in checklist : item \in ChecklistItem /\ item.sprint \in SprintIds /\ Live(item.sprint)
  BY DEF TypeOK, StoreTypeOK, ChecklistItem, NoDanglingRefs
<1>2. \A id \in SprintIds : Live(id) => sprints[id].skill \in Requests
  BY DEF TypeOK, StoreTypeOK, Live, Sprint
<1>3. CASE \E r \in Requests : Seeds(r)
  <2>1. PICK r \in Requests : Seeds(r)
    BY <1>3
  <2>2. /\ checklist' = checklist \cup [sprint : {target[r]}, by : {r}, gate : Gates, done : {FALSE}]
        /\ UNCHANGED sprints /\ target[r] \in SprintIds /\ Live(target[r])
        /\ sprints[target[r]].skill = r
    BY <2>1 DEF Seeds, SeedChecklist, InHand
  <2>3. \A item \in checklist' : item.by = sprints'[item.sprint].skill
    BY <2>2 DEF Lists
  <2>4. ASSUME NEW id \in SprintIds, NEW c \in Requests, c = sprints[id].skill,
               Live(id), Seeded(c)'
        PROVE  \A gate \in Gates : \E item \in checklist' : item.sprint = id /\ item.gate = gate
    <3>1. CASE c = r
      <4>1. id = target[r]
        BY <2>2, <2>4, <3>1 DEF Origins
      <4>2. ASSUME NEW gate \in Gates
            PROVE  [sprint |-> id, by |-> r, gate |-> gate, done |-> FALSE] \in checklist'
        BY <2>2, <4>1
      <4> QED
        BY <4>2
    <3>2. CASE c # r
      <4>1. ~Seeds(c)
        BY <1>2, <2>1, <2>4, <3>2 DEF Seeds, Serial, Alone, InFlight, Steps
      <4>2. Seeded(c)
        BY <1>2, <2>4, <4>1, Deeds
      <4>3. HasGates(id)
        BY <2>4, <4>2 DEF Lists
      <4> QED
        BY <2>2, <4>3 DEF HasGates
    <3> QED
      BY <3>1, <3>2
  <2> QED
    BY <1>2, <2>2, <2>3, <2>4 DEF Lists, HasGates, Live
<1>4. CASE \A r \in Requests : ~Seeds(r)
  <2>1. \A c \in Requests : Seeded(c)' => Seeded(c)
    BY <1>4, Deeds
  <2>2. ASSUME NEW r \in Requests, NEW id \in SprintIds, Inserts(r, id) PROVE Lists'
    <3>1. /\ ~Live(id) /\ sprints'[id].skill = r /\ UNCHANGED checklist
          /\ pc'[r] = "readback"
          /\ \A other \in SprintIds \ {id} : sprints'[other] = sprints[other]
      BY <2>2, SprintIdsAssumption
      DEF Inserts, InsertSprint, NewSprint, NextId, Live, TypeOK, StoreTypeOK
    <3>2. ~Seeded(r)'
      BY <3>1 DEF Seeded
    <3> QED
      BY <1>1, <1>2, <2>1, <3>1, <3>2 DEF Lists, HasGates, Live
  <2>3. CASE \A id \in SprintIds : Live(id)' => Live(id) /\ sprints'[id].skill = sprints[id].skill
    <3>1. ASSUME NEW r \in Requests, Deletes(r)
          PROVE  checklist' = {item \in checklist : item.sprint # target[r]} /\ ~(sprints'[target[r]] # Absent)
      BY <3>1 DEF Deletes, DeleteSprint, TypeOK, StoreTypeOK
    <3>2. ASSUME NEW item \in checklist'
          PROVE  \E old \in checklist : item.sprint = old.sprint /\ item.by = old.by
      <4>1. ASSUME NEW old \in checklist, NEW done \in BOOLEAN, Toggles(old, done)
            PROVE  \E o \in checklist : item.sprint = o.sprint /\ item.by = o.by
        <5>1. [old EXCEPT !.done = done].sprint = old.sprint /\ [old EXCEPT !.done = done].by = old.by
          BY <1>1 DEF ChecklistItem
        <5> QED
          BY <4>1, <5>1 DEF Toggles, ToggleItem
      <4> QED
        BY <1>4, <3>1, <4>1, StoreSteps
        DEF Updates, UpdateSprint, Logs, AppendEvent, Inserts, InsertSprint, store
    <3>3. \A item \in checklist' : item.by = sprints'[item.sprint].skill
      BY <1>1, <2>3, <3>2 DEF Lists, NoDanglingRefs, Live
    <3>4. ASSUME NEW id \in SprintIds, Live(id)', HasGates(id), NEW gate \in Gates
          PROVE  \E item \in checklist' : item.sprint = id /\ item.gate = gate
      <4>1. PICK old \in checklist : old.sprint = id /\ old.gate = gate
        BY <3>4 DEF HasGates
      <4>2. CASE old \in checklist'
        BY <4>1, <4>2
      <4>3. ASSUME NEW item \in checklist, NEW done \in BOOLEAN, Toggles(item, done), old \notin checklist'
            PROVE  \E o \in checklist' : o.sprint = id /\ o.gate = gate
        <5>1. old = item
          BY <4>3 DEF Toggles, ToggleItem
        <5>2. [item EXCEPT !.done = done].sprint = id /\ [item EXCEPT !.done = done].gate = gate
          BY <1>1, <4>1, <5>1 DEF ChecklistItem
        <5> QED
          BY <4>3, <5>2 DEF Toggles, ToggleItem
      <4> QED
        BY <1>4, <3>1, <3>4, <4>1, <4>2, <4>3, StoreSteps
        DEF Updates, UpdateSprint, Logs, AppendEvent, Inserts, InsertSprint, store, Live
    <3> QED
      BY <1>2, <2>1, <2>3, <3>3, <3>4 DEF Lists, HasGates
  <2> QED
    BY <2>2, <2>3, SkillsStay
<1> QED
  BY <1>3, <1>4

(***************************************************************************)
(* The log of a sprint.  A statement leaves the phase events of an id as   *)
(* they are, or takes them away with the sprint, or adds the next one.     *)
(***************************************************************************)
Adds(r, id) ==
  /\ Logs(r) /\ Telling(r) /\ target[r] = id
  /\ PhaseEvents(id)' = PhaseEvents(id) \cup {Len(events) + 1}
  /\ events'[Len(events) + 1].to = call[r].phase

Keeps(id) ==
  /\ PhaseEvents(id)' = PhaseEvents(id)
  /\ \A i \in PhaseEvents(id) : events'[i].to = events[i].to

\* An event that is logged of a sprint that is there is the next of its phase
\* events, or none of any sprint's.
LEMMA LogAdds ==
  ASSUME TypeOK, NEW r \in Requests, Logs(r), Live(target[r]), NEW id \in SprintIds
  PROVE  IF Telling(r) /\ target[r] = id THEN Adds(r, id) ELSE Keeps(id)
<1>1. /\ events' = Append(events, EventOf(r)) /\ events \in Seq(CareerEvent)
      /\ EventOf(r) \in CareerEvent /\ call[r] \in Calls /\ Len(events) \in Nat
  BY EventType DEF Logs, AppendEvent, EventOf, Live, TypeOK, StoreTypeOK, Ready
<1>2. /\ Len(events') = Len(events) + 1 /\ events'[Len(events) + 1] = EventOf(r)
      /\ \A i \in 1 .. Len(events) : events'[i] = events[i]
  BY <1>1
<1>3. EventOf(r).kind = "sprint.phase_changed" <=> MovesPhase(call[r])
  BY <1>1, CallFields DEF EventOf, EventKind, MovesPhase
<1>4. EventOf(r).sprint = target[r] /\ (MovesPhase(call[r]) => EventOf(r).to = call[r].phase)
  BY DEF EventOf
<1>5. CASE MovesPhase(call[r]) /\ target[r] = id
  <2>1. PhaseEvents(id)' = PhaseEvents(id) \cup {Len(events) + 1}
    BY <1>1, <1>2, <1>3, <1>4, <1>5 DEF PhaseEvents
  <2> QED
    BY <1>2, <1>4, <1>5, <2>1 DEF Adds, Logs, Telling
<1>6. CASE ~(MovesPhase(call[r]) /\ target[r] = id)
  <2>1. PhaseEvents(id)' = PhaseEvents(id)
    BY <1>1, <1>2, <1>3, <1>4, <1>6 DEF PhaseEvents
  <2>2. \A i \in PhaseEvents(id) : events'[i] = events[i]
    BY <1>2 DEF PhaseEvents
  <2> QED
    BY <1>6, <2>1, <2>2 DEF Keeps, Telling
<1> QED
  BY <1>5, <1>6

LEMMA LogStep ==
  ASSUME TypeOK, Serial, [Next]_vars, NEW id \in SprintIds
  PROVE  \/ Keeps(id)
         \/ ~Live(id)' /\ PhaseEvents(id)' = {}
         \/ \E r \in Requests : Adds(r, id)
<1>1. events \in Seq(CareerEvent) /\ \A i \in 1 .. Len(events) : events[i] \in CareerEvent
  BY DEF TypeOK, StoreTypeOK
<1>2. CASE UNCHANGED events
  BY <1>2 DEF PhaseEvents, Keeps
<1>3. ASSUME NEW r \in Requests, Deletes(r), target[r] # id PROVE Keeps(id)
  <2>1. /\ Len(events') = Len(events)
        /\ \A i \in 1 .. Len(events) : events'[i] = Unlink(events[i], target[r])
    BY <1>1, <1>3 DEF Deletes, DeleteSprint
  <2>2. \A i \in 1 .. Len(events) : /\ events'[i].kind = events[i].kind /\ events'[i].to = events[i].to
                                    /\ events'[i].sprint = id <=> events[i].sprint = id
    BY <1>1, <1>3, <2>1, AbsentAssumption DEF Unlink, CareerEvent
  <2> QED
    BY <2>1, <2>2 DEF PhaseEvents, Keeps
<1>4. ASSUME NEW r \in Requests, Deletes(r), target[r] = id
      PROVE  ~Live(id)' /\ PhaseEvents(id)' = {}
  <2>1. /\ Len(events') = Len(events)
        /\ \A i \in 1 .. Len(events) : events'[i] = Unlink(events[i], id)
    BY <1>1, <1>4 DEF Deletes, DeleteSprint
  <2>2. \A i \in 1 .. Len(events) : events'[i].sprint # id
    BY <1>1, <2>1, AbsentAssumption DEF Unlink, CareerEvent
  <2>3. ~Live(id)'
    BY <1>4 DEF Deletes, DeleteSprint, Live, TypeOK, StoreTypeOK
  <2> QED
    BY <2>1, <2>2, <2>3 DEF PhaseEvents
<1>5. ASSUME NEW r \in Requests, Logs(r), events' # events PROVE Keeps(id) \/ Adds(r, id)
  <2>1. Live(target[r])
    BY <1>5 DEF Logs, AppendEvent, EventOf, Live
  <2> QED
    BY <1>5, <2>1, LogAdds
<1> QED
  BY <1>2, <1>3, <1>4, <1>5, StoreSteps
  DEF Inserts, InsertSprint, Updates, UpdateSprint, Seeds, SeedChecklist, Toggles, ToggleItem, store

(***************************************************************************)
(* As no induction over sets is at hand, that the phase events of a sprint *)
(* have a last one is kept as an invariant too.                            *)
(***************************************************************************)
Latest(i, id) == i \in PhaseEvents(id) /\ \A j \in PhaseEvents(id) : j <= i

HasLatest == \A id \in SprintIds : PhaseEvents(id) # {} => \E i \in PhaseEvents(id) : Latest(i, id)

LEMMA Greatest ==
  ASSUME NEW S \in SUBSET Nat, NEW i \in S, \A j \in S : j <= i
  PROVE  (CHOOSE k \in S : \A j \in S : j <= k) = i
<1> DEFINE last == CHOOSE k \in S : \A j \in S : j <= k
<1>1. last \in S /\ \A j \in S : j <= last
  OBVIOUS
<1> HIDE DEF last
<1>2. last = i
  BY <1>1
<1> QED
  BY <1>2 DEF last

LEMMA LatestTells ==
  ASSUME NEW id, NEW i
  PROVE  /\ Latest(i, id) => LoggedPhase(id) = events[i].to
         /\ Latest(i, id)' => LoggedPhase(id)' = events'[i].to
<1>1. ASSUME Latest(i, id) PROVE LoggedPhase(id) = events[i].to
  <2>1. PhaseEvents(id) \in SUBSET Nat
    BY DEF PhaseEvents
  <2> QED
    BY <1>1, <2>1, Greatest DEF LoggedPhase, Latest
<1>2. ASSUME Latest(i, id)' PROVE LoggedPhase(id)' = events'[i].to
  <2>1. PhaseEvents(id)' \in SUBSET Nat
    BY DEF PhaseEvents
  <2> QED
    BY <1>2, <2>1, Greatest DEF LoggedPhase, Latest
<1> QED
  BY <1>1, <1>2

LEMMA StepHasLatest ==
  ASSUME TypeOK, Serial, HasLatest, [Next]_vars
  PROVE  HasLatest'
<1> SUFFICES ASSUME NEW id \in SprintIds, PhaseEvents(id)' # {} PROVE \E i \in PhaseEvents(id)' : Latest(i, id)'
  BY DEF HasLatest
<1>1. CASE Keeps(id)
  BY <1>1 DEF Keeps, HasLatest, Latest
<1>2. ASSUME NEW r \in Requests, Adds(r, id) PROVE \E i \in PhaseEvents(id)' : Latest(i, id)'
  <2>1. PhaseEvents(id) \subseteq 1 .. Len(events) /\ Len(events) \in Nat
    BY DEF PhaseEvents, TypeOK, StoreTypeOK
  <2>2. PICK n : n = Len(events) + 1
    OBVIOUS
  <2>3. Latest(n, id)'
    BY <1>2, <2>1, <2>2 DEF Adds, Latest
  <2> QED
    BY <2>3 DEF Latest
<1> QED
  BY <1>1, <1>2, LogStep

\* A log that is left as it is, or is added to, tells the phase.
LEMMA LoggedPhaseStep ==
  ASSUME TypeOK, Serial, HasLatest, HasLatest', [Next]_vars, NEW id \in SprintIds, Live(id)'
  PROVE  \/ LoggedPhase(id)' = LoggedPhase(id) /\ \A r \in Requests : ~Adds(r, id)
         \/ \E r \in Requests : Adds(r, id) /\ UNCHANGED sprints /\ LoggedPhase(id)' = call[r].phase
<1>1. ASSUME Keeps(id) PROVE LoggedPhase(id)' = LoggedPhase(id)
  <2> USE DEF Keeps
  <2>1. CASE PhaseEvents(id) = {}
    BY <1>1, <2>1 DEF LoggedPhase
  <2>2. CASE PhaseEvents(id) # {}
    <3>1. PICK i \in PhaseEvents(id) : Latest(i, id)
      BY <2>2 DEF HasLatest
    <3>2. Latest(i, id)'
      BY <1>1, <3>1 DEF Latest
    <3>3. LoggedPhase(id)' = events'[i].to
      BY <3>2, LatestTells
    <3> QED
      BY <1>1, <3>1, <3>3, LatestTells
  <2> QED
    BY <2>1, <2>2
<1>2. ASSUME NEW r \in Requests, Adds(r, id)
      PROVE  LoggedPhase(id)' = call[r].phase /\ UNCHANGED sprints
  <2>1. PhaseEvents(id) \subseteq 1 .. Len(events) /\ Len(events) \in Nat
    BY DEF PhaseEvents, TypeOK, StoreTypeOK
  <2>2. PICK n : n = Len(events) + 1
    OBVIOUS
  <2>3. Latest(n, id)'
    BY <1>2, <2>1, <2>2 DEF Adds, Latest
  <2>4. LoggedPhase(id)' = events'[n].to
    BY <2>3, LatestTells
  <2> QED
    BY <1>2, <2>2, <2>4 DEF Adds, Logs, AppendEvent
<1> QED
  BY <1>1, <1>2, LogStep

(***************************************************************************)
(* Every event speaks of the skill of the sprint it is linked to, and a    *)
(* log that does not end in its sprint's phase has a request under way     *)
(* that is going to add to it, or one was cut off.                         *)
(***************************************************************************)
OwnEvents ==
  \A i \in 1 .. Len(events) :
    events[i].sprint # Absent => events[i].skill = sprints[events[i].sprint].skill

Told ==
  (\A r \in Requests : pc[r] # "partial") =>
    \A id \in SprintIds : Live(id) =>
      \/ LoggedPhase(id) = sprints[id].phase
      \/ \E r \in Requests : Telling(r) /\ target[r] = id

LEMMA StepOwnEvents ==
  ASSUME TypeOK, Serial, NoDanglingRefs, NoDanglingRefs', OwnEvents,
         \A r \in Requests : InHand(r), [Next]_vars
  PROVE  OwnEvents'
<1>1. /\ events \in Seq(CareerEvent) /\ events' \in Seq(CareerEvent)
      /\ \A i \in 1 .. Len(events) : events[i] \in CareerEvent
  BY StepTypeOK DEF TypeOK, StoreTypeOK
<1>2. ASSUME NEW id \in SprintIds, Live(id), Live(id)' PROVE sprints'[id].skill = sprints[id].skill
  <2>1. ASSUME NEW r \in Requests, NEW new \in SprintIds, Inserts(r, new)
        PROVE  ~Live(new) /\ \A other \in SprintIds \ {new} : sprints'[other] = sprints[other]
    BY <2>1, SprintIdsAssumption DEF Inserts, InsertSprint, NextId, Live, TypeOK, StoreTypeOK
  <2> QED
    BY <1>2, <2>1, SkillsStay
<1>3. ASSUME NEW i \in 1 .. Len(events), i \in 1 .. Len(events'), events'[i].sprint # Absent,
             events'[i].sprint = events[i].sprint, events'[i].skill = events[i].skill
      PROVE  events'[i].skill = sprints'[events'[i].sprint].skill
  <2>1. events[i].sprint \in SprintIds /\ Live(events[i].sprint)
    BY <1>1, <1>3 DEF CareerEvent, NoDanglingRefs
  <2>2. PICK id \in SprintIds : id = events[i].sprint
    BY <2>1
  <2>3. Live(id)'
    BY <1>3, <2>2 DEF NoDanglingRefs
  <2> QED
    BY <1>2, <1>3, <2>1, <2>2, <2>3 DEF OwnEvents
<1>4. CASE UNCHANGED events
  BY <1>1, <1>3, <1>4 DEF OwnEvents
<1>5. ASSUME NEW r \in Requests, Deletes(r) PROVE OwnEvents'
  <2>1. /\ Len(events') = Len(events)
        /\ \A i \in 1 .. Len(events) : events'[i] = Unlink(events[i], target[r])
    BY <1>1, <1>5 DEF Deletes, DeleteSprint
  <2>2. \A i \in 1 .. Len(events) :
          /\ events'[i].skill = events[i].skill
          /\ events'[i].sprint # Absent => events'[i].sprint = events[i].sprint
    BY <1>1, <2>1 DEF Unlink, CareerEvent
  <2> QED
    BY <1>3, <2>1, <2>2 DEF OwnEvents
<1>6. ASSUME NEW r \in Requests, Logs(r), events' # events PROVE OwnEvents'
  <2>1. /\ events' = Append(events, EventOf(r)) /\ Live(target[r]) /\ UNCHANGED sprints
        /\ EventOf(r).sprint = target[r] /\ EventOf(r).skill = snap[r].skill
    BY <1>6 DEF Logs, AppendEvent, EventOf
  <2>2. snap[r].skill = sprints[target[r]].skill
    BY <1>6, <2>1 DEF Logs, InHand
  <2>3. Len(events') = Len(events) + 1 /\ events'[Len(events) + 1] = EventOf(r)
        /\ \A i \in 1 .. Len(events) : events'[i] = events[i]
    BY <1>1, <2>1
  <2> QED
    BY <1>1, <2>1, <2>2, <2>3 DEF OwnEvents
<1> QED
  BY <1>4, <1>5, <1>6, StoreSteps
  DEF Inserts, InsertSprint, Updates, UpdateSprint, Seeds, SeedChecklist, Toggles, ToggleItem, store

\* No statement moves a sprint to another phase, but the one that sets it.
LEMMA PhasesStay ==
  ASSUME TypeOK, Serial, [Next]_vars, NEW id \in SprintIds, Live(id)'
  PROVE  \/ Live(id) /\ sprints'[id].phase = sprints[id].phase
         \/ ~Live(id) /\ sprints'[id].phase = 1 /\ \A r \in Requests : ~Adds(r, id)
         \/ \E r \in Requests : Telling(r)' /\ target'[r] = id
<1> USE DEF TypeOK, StoreTypeOK, Live
<1>1. ASSUME NEW r \in Requests, Updates(r)
      PROVE  \/ Live(id) /\ sprints'[id].phase = sprints[id].phase
             \/ Telling(r)' /\ target'[r] = id
  <2>1. CASE target[r] = id
    <3>1. Live(id) /\ call[r] \in Calls /\ Altered(call[r], sprints[id], snap[r])
      BY <1>1, <2>1 DEF Updates, Serial, Fresh, Ready
    <3>2. snap[r].phase = IF MovesPhase(call[r]) THEN call[r].phase ELSE sprints[id].phase
      BY <3>1, AlteredKeeps
    <3>3. sprints'[id] = snap[r] /\ pc'[r] = "event" /\ UNCHANGED <<call, target>>
      BY <1>1, <2>1, <3>1 DEF Updates, UpdateSprint
    <3> QED
      BY <2>1, <3>1, <3>2, <3>3 DEF Telling, MovesPhase
  <2>2. CASE target[r] # id
    BY <1>1, <2>2 DEF Updates, UpdateSprint
  <2> QED
    BY <2>1, <2>2
<1>2. ASSUME NEW r \in Requests, NEW new \in SprintIds, Inserts(r, new), new # id
      PROVE  Live(id) /\ sprints'[id].phase = sprints[id].phase
  BY <1>2 DEF Inserts, InsertSprint
<1>3. ASSUME NEW r \in Requests, Inserts(r, id)
      PROVE  ~Live(id) /\ sprints'[id].phase = 1 /\ \A q \in Requests : ~Adds(q, id)
  <2>1. ~Live(id) /\ sprints'[id] = NewSprint(r)
    BY <1>3, SprintIdsAssumption DEF Inserts, InsertSprint, NextId
  <2>2. \A q \in Requests : ~Adds(q, id)
    BY <1>3 DEF Inserts, Adds, Logs, Serial, Alone, InFlight, Steps
  <2> QED
    BY <2>1, <2>2 DEF NewSprint
<1>4. ASSUME NEW r \in Requests, Deletes(r)
      PROVE  Live(id) /\ sprints'[id].phase = sprints[id].phase
  BY <1>4 DEF Deletes, DeleteSprint
<1> QED
  BY <1>1, <1>2, <1>3, <1>4, StoreSteps
  DEF Seeds, SeedChecklist, Logs, AppendEvent, Toggles, ToggleItem, store

LEMMA StepTold ==
  ASSUME TypeOK, Serial, NoDanglingRefs, HasLatest, HasLatest', Told,
         \A r \in Requests : InHand(r), [Next]_vars
  PROVE  Told'
<1> SUFFICES ASSUME (\A r \in Requests : pc[r] # "partial")', NEW id \in SprintIds, Live(id)'
             PROVE  \/ LoggedPhase(id)' = sprints'[id].phase
                    \/ \E r \in Requests : Telling(r)' /\ target'[r] = id
  BY DEF Told
<1>0. \A r \in Requests : pc'[r] # "partial"
  OBVIOUS
<1>1. ASSUME NEW r \in Requests PROVE pc[r] # "partial"
  BY <1>0, Turn DEF Next, vars, Turns, InFlight, Steps, Arrive, Goto, TypeOK, ServiceTypeOK
<1>2. ASSUME NEW r \in Requests, Adds(r, id), UNCHANGED sprints, LoggedPhase(id)' = call[r].phase
      PROVE  LoggedPhase(id)' = sprints'[id].phase
  BY <1>2 DEF Adds, InHand
<1>3. CASE LoggedPhase(id)' = LoggedPhase(id) /\ \A r \in Requests : ~Adds(r, id)
  <2>1. CASE Live(id) /\ sprints'[id].phase = sprints[id].phase
    <3>1. CASE LoggedPhase(id) = sprints[id].phase
      BY <1>3, <2>1, <3>1
    <3>2. ASSUME NEW r \in Requests, Telling(r), target[r] = id
          PROVE  Telling(r)' /\ target'[r] = id
      <4>1. ~Logs(r)
        BY <1>3, <2>1, <3>2, LogAdds
      <4> QED
        BY <1>0, <3>2, <4>1, Deeds
    <3> QED
      BY <1>1, <2>1, <3>1, <3>2 DEF Told
  <2>2. CASE ~Live(id) /\ sprints'[id].phase = 1
    <3>1. PhaseEvents(id) = {}
      BY <2>2, AbsentAssumption DEF PhaseEvents, NoDanglingRefs
    <3> QED
      BY <1>3, <2>2, <3>1 DEF LoggedPhase
  <2> QED
    BY <2>1, <2>2, PhasesStay
<1> QED
  BY <1>2, <1>3, LoggedPhaseStep

(***************************************************************************)
(* The history of ids, of requests in turn.                                *)
(***************************************************************************)
Story ==
  /\ \A r \in Requests : InHand(r)
  /\ Origins /\ Gone /\ Lists /\ OwnEvents /\ HasLatest /\ Told

LEMMA InTurnStory == Spec => [](~overlap => Story)
<1>1. Init => Story
  <2> SUFFICES ASSUME Init PROVE Story
    OBVIOUS
  <2>1. /\ \A id \in SprintIds : ~Live(id)
        /\ checklist = {} /\ Len(events) = 0
        /\ \A r \in Requests : pc[r] = "idle"
    BY DEF Init, StoreInit, Live
  <2>2. \A id \in SprintIds : PhaseEvents(id) = {}
    BY <2>1 DEF PhaseEvents
  <2> QED
    BY <2>1, <2>2 DEF Story, InHand, Telling, Origins, Gone, Deleted, Lists, OwnEvents, HasLatest, Told
<1>2. TypeOK /\ (~overlap => Serial) /\ NoDanglingRefs /\ NoDanglingRefs'
      /\ (~overlap => Story) /\ [Next]_vars => (~overlap => Story)'
  <2> SUFFICES ASSUME TypeOK, ~overlap => Serial, NoDanglingRefs, NoDanglingRefs',
                      ~overlap => Story, [Next]_vars, ~overlap'
               PROVE  Story'
    OBVIOUS
  <2>1. ~overlap /\ Serial /\ Story
    BY DEF Next, vars
  <2>2. (\A r \in Requests : InHand(r)') /\ Origins' /\ Gone' /\ HasLatest'
    BY <2>1, StepInHand, StepOrigins, StepHasLatest DEF Story
  <2>3. Lists' /\ OwnEvents' /\ Told'
    BY <2>1, <2>2, StepLists, StepOwnEvents, StepTold DEF Story
  <2> QED
    BY <2>2, <2>3 DEF Story
<1> QED
  BY <1>1, <1>2, InTurnSerial, TypeCorrect, AlwaysNoDanglingRefs, PTL DEF Spec

(***************************************************************************)
(* In turn, a deleted sprint is gone for good: no later request brings its *)
(* row back, although its id is handed out again (store/sprints.go).       *)
(***************************************************************************)
THEOREM SerialDeletedStaysDeleted == Spec => []DeletedStaysDeleted
<1>1. (~overlap => Story) => DeletedStaysDeleted
  BY DEF Story, Gone, Deleted, DeletedStaysDeleted
<1> QED
  BY <1>1, InTurnStory, PTL

(***************************************************************************)
(* In turn, a checklist item sits on the sprint it was seeded for, and a   *)
(* sprint whose creation was answered has its whole template, wherever     *)
(* requests are cut off and ids come back (CreateSprint, SeedChecklist).   *)
(***************************************************************************)
THEOREM SerialChecklistBelongs == Spec => []ChecklistBelongs
<1>1. NoDanglingRefs /\ (~overlap => Story) => ChecklistBelongs
  <2> SUFFICES ASSUME NoDanglingRefs, Story PROVE ChecklistBelongs
    BY DEF ChecklistBelongs
  <2>1. \A item \in checklist : Live(item.sprint) /\ item.by = sprints[item.sprint].skill
    BY DEF Story, Lists, NoDanglingRefs
  <2>2. ASSUME NEW id \in SprintIds, Live(id), pc[sprints[id].skill] \in {"answered", "late"}
        PROVE  \A gate \in Gates : \E item \in checklist : item.sprint = id /\ item.gate = gate
    <3>1. Seeded(sprints[id].skill)
      BY <2>2 DEF Story, Origins, Created, Seeded
    <3> QED
      BY <2>2, <3>1 DEF Story, Lists, HasGates
  <2> QED
    BY <2>1, <2>2 DEF ChecklistBelongs
<1> QED
  BY <1>1, InTurnStory, AlwaysNoDanglingRefs, PTL

(***************************************************************************)
(* In turn, every event linked to a sprint speaks of its skill, and when   *)
(* nothing is under way and no request was cut off between its change and  *)
(* its event, the log ends in the phase of the row (SetPhase, appendEvent). *)
(***************************************************************************)
THEOREM SerialLogTellsPhase == Spec => []LogTellsPhase
<1>1. TypeOK /\ NoDanglingRefs /\ (~overlap => Story) => LogTellsPhase
  <2> SUFFICES ASSUME NoDanglingRefs, Story PROVE LogTellsPhase
    BY DEF LogTellsPhase
  <2>1. \A i \in 1 .. Len(events) :
          events[i].sprint # Absent =>
            Live(events[i].sprint) /\ events[i].skill = sprints[events[i].sprint].skill
    BY DEF Story, OwnEvents, NoDanglingRefs
  <2>2. ASSUME Quiet, \A r \in Requests : pc[r] # "partial", NEW id \in SprintIds, Live(id)
        PROVE  LoggedPhase(id) = sprints[id].phase
    <3>1. \A r \in Requests : ~Telling(r)
      BY <2>2 DEF Quiet, InFlight, Steps, Telling
    <3> QED
      BY <2>2, <3>1 DEF Story, Told
  <2> QED
    BY <2>1, <2>2 DEF LogTellsPhase
<1> QED
  BY <1>1, InTurnStory, TypeCorrect, AlwaysNoDanglingRefs, PTL

=============================================================================
