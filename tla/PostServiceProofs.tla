------------------------- MODULE PostServiceProofs -------------------------
(***************************************************************************)
(* Theorems about PostService, for any number of requests, posts, sprints, *)
(* days, tiers and decision records.                                       *)
(***************************************************************************)
EXTENDS PostService, TLAPS

(***************************************************************************)
(* What the fields of a request are, operation by operation.               *)
(***************************************************************************)
LEMMA CallFields ==
  ASSUME NEW c \in Calls
  PROVE  /\ c.op \in {"create", "chat_draft", "chat_publish", "draft", "publish", "visual",
                      "delete", "retro", "sprint_delete", "adr_delete"}
         /\ c.op = "create" => c.sprint \in SprintIds \cup {Absent} /\ c.declares \in BOOLEAN
         /\ Creates(c) => c.date \in Dates
         /\ WorksOnTier(c) => c.tier \in Tiers
         /\ c.op = "visual" => c.adr \in AdrIds \cup {Absent}
         /\ WorksOnTier(c) /\ ~Chats(c) => c.id \in PostIds
         /\ c.op = "delete" => c.id \in PostIds
         /\ WorksOnSprint(c) => c.id \in SprintIds
         /\ c.op = "adr_delete" => c.id \in AdrIds
  BY DEF Calls, Creates, Chats, WorksOnTier, Drafts, Publishes, WorksOnSprint

(***************************************************************************)
(* A step of one handler leaves every other handler as ready as it was.    *)
(***************************************************************************)
LEMMA OthersReady ==
  ASSUME TypeOK, NEW r \in Requests,
         \A q \in Requests \ {r} : /\ pc'[q] = pc[q] /\ call'[q] = call[q]
                                   /\ target'[q] = target[q] /\ post'[q] = post[q]
                                   /\ row'[q] = row[q],
         Ready(r)'
  PROVE  \A q \in Requests : Ready(q)'
<1>1. \A q \in Requests \ {r} : Ready(q)'
  BY DEF TypeOK, Ready
<1> QED
  BY <1>1

LocalTypeOK ==
  /\ pc \in [Requests -> {"idle"} \cup Steps \cup Ends]
  /\ call \in [Requests -> Calls \cup {Absent}]
  /\ target \in [Requests -> PostIds \cup SprintIds \cup AdrIds \cup {Absent}]
  /\ sprint \in [Requests -> SprintIds \cup {Absent}]
  /\ post \in [Requests -> Post \cup {Absent}]
  /\ row \in [Requests -> TierRow \cup SprintRow \cup {Absent}]

(***************************************************************************)
(* A handler that ends, or goes on with what it has, leaves all handlers   *)
(* ready if the next step finds what it needs.                             *)
(***************************************************************************)
LEMMA EndReady ==
  ASSUME TypeOK, NEW r \in Requests, NEW how \in Ends, End(r, how), pc[r] # "idle"
  PROVE  LocalTypeOK' /\ \A q \in Requests : Ready(q)'
<1>1. LocalTypeOK'
  BY DEF TypeOK, LocalTypeOK, End, Goto
<1>2. Ready(r)'
  BY DEF TypeOK, Ready, End, Goto, Ends, CreateSteps
<1> QED
  BY <1>1, <1>2, OthersReady DEF TypeOK, End, Goto

LEMMA ContinueReady ==
  ASSUME TypeOK, NEW r \in Requests, NEW step \in Steps, Continue(r, step), Ready(r)'
  PROVE  LocalTypeOK' /\ \A q \in Requests : Ready(q)'
<1>1. LocalTypeOK'
  BY DEF TypeOK, LocalTypeOK, Continue, Goto
<1> QED
  BY <1>1, OthersReady DEF TypeOK, Continue, Goto

LEMMA TakeReady ==
  ASSUME TypeOK, NEW r \in Requests, NEW id \in PostIds, NEW step \in {"get", "readback"},
         Take(r, id, step), Creates(call[r]), pc[r] # "idle",
         step = "get" => Chats(call[r])
  PROVE  LocalTypeOK' /\ \A q \in Requests : Ready(q)'
<1>1. LocalTypeOK'
  BY DEF TypeOK, LocalTypeOK, Take, Goto, Steps, CreateSteps
<1>2. Ready(r)'
  BY CallFields DEF TypeOK, Ready, Take, Goto, CreateSteps, Chats, WorksOnTier, WorksOnSprint,
     Drafts, Publishes
<1> QED
  BY <1>1, <1>2, OthersReady DEF TypeOK, Take, Goto

LEMMA CreatedReady ==
  ASSUME TypeOK, NEW r \in Requests, Created(r), Creates(call[r]), pc[r] # "idle",
         target[r] \in PostIds
  PROVE  LocalTypeOK' /\ \A q \in Requests : Ready(q)'
<1>1. CASE Chats(call[r])
  <2>1. Continue(r, "get")
    BY <1>1 DEF Created
  <2>2. Ready(r)'
    BY <1>1, <2>1 DEF TypeOK, Ready, Continue, Goto, CreateSteps, Chats, WorksOnTier,
       WorksOnSprint, Drafts, Publishes
  <2> QED
    BY <2>1, <2>2, ContinueReady DEF Steps
<1>2. CASE ~Chats(call[r])
  BY <1>2, EndReady DEF Created, Ends
<1> QED
  BY <1>1, <1>2

(***************************************************************************)
(* The rows and events that handlers write are well-formed.                *)
(***************************************************************************)
LEMMA NewPostType ==
  ASSUME TypeOK, NEW r \in Requests, pc[r] = "insert"
  PROVE  NewPost(r) \in Post
<1>1. call[r] \in Calls /\ Creates(call[r]) /\ sprint[r] \in SprintIds \cup {Absent}
  BY DEF TypeOK, Ready, CreateSteps
<1> QED
  BY <1>1, CallFields DEF NewPost, Post

LEMMA NewTierType == NewTier \in TierRow
  BY DEF NewTier, TierRow, TierStatuses

LEMMA AlteredType ==
  ASSUME NEW r \in Requests, call[r] \in Calls, WorksOnTier(call[r]), NEW tier \in TierRow
  PROVE  Altered(r, tier) \in TierRow
<1>1. ~Drafts(call[r]) /\ ~Publishes(call[r]) => call[r].adr \in AdrIds \cup {Absent}
  BY CallFields DEF WorksOnTier
<1> QED
  BY <1>1 DEF Altered, TierRow, TierStatuses

LEMMA EventType ==
  ASSUME TypeOK, NEW r \in Requests, pc[r] = "event"
  PROVE  EventOf(r) \in PostEvent
<1> DEFINE c == call[r]
<1>1. /\ c \in Calls
      /\ WorksOnTier(c) \/ WorksOnSprint(c) \/ Deletes(c)
      /\ WorksOnSprint(c) => target[r] \in SprintIds
      /\ c.op = "delete" => post[r] \in Post
      /\ WorksOnTier(c) \/ c.op = "delete" => target[r] \in PostIds
  BY DEF TypeOK, Ready, WorksOnTier, WorksOnSprint, Drafts, Publishes
<1>2. EventKind(c) \in EventKinds
  BY <1>1 DEF EventKind, EventKinds, WorksOnTier, WorksOnSprint, Deletes
<1> HIDE DEF c
<1>3. EventOf(r).sprint \in SprintIds \cup {Absent} /\ EventOf(r).date \in Dates \cup {Absent}
  BY <1>1 DEF EventOf, Post, c
<1> QED
  BY <1>1, <1>2, <1>3 DEF EventOf, PostEvent, c

(***************************************************************************)
(* What one step of the system can do to the tables, and with what in hand.*)
(***************************************************************************)
Inserts(r, id) ==
  /\ pc[r] = "insert" /\ NextPostId(id) /\ PostAllowed(NewPost(r)) /\ InsertPost(id, NewPost(r))

PutsTier(r) ==
  /\ pc[r] = "put" /\ WorksOnTier(call[r])
  /\ KeyOf(r) \in Keys /\ row[r] \in TierRow /\ LiveTier(KeyOf(r)) /\ AdrRef(row[r].adr)
  /\ UpdateTier(KeyOf(r), row[r])

PutsSprint(r, id) ==
  /\ \/ pc[r] = "link" /\ id = post[r].sprint
     \/ pc[r] = "put" /\ call[r].op = "retro" /\ id = target[r]
  /\ row[r] \in SprintRow /\ SprintAllowed(id, row[r]) /\ UpdateSprint(id, row[r])

Tells(r, event) ==
  \/ pc[r] = "created" /\ event.post = target[r] /\ event.date = post[r].date
  \/ pc[r] = "declared" /\ event.date = Absent
  \/ pc[r] = "event" /\ event = EventOf(r)

Logs(event) ==
  /\ event \in PostEvent /\ AppendEvent(event)
  /\ \E r \in Requests : Tells(r, event)

LEMMA StoreSteps ==
  ASSUME TypeOK, [Next]_vars
  PROVE  \/ UNCHANGED store
         \/ \E r \in Requests, id \in PostIds : Inserts(r, id)
         \/ \E r \in Requests : PutsTier(r)
         \/ \E r \in Requests, id \in SprintIds : PutsSprint(r, id)
         \/ \E id \in PostIds : DeletePost(id)
         \/ \E id \in SprintIds : DeleteSprint(id)
         \/ \E id \in AdrIds : DeleteAdr(id)
         \/ \E event \in PostEvent : Logs(event)
<1>1. ASSUME NEW r \in Requests, Refuse(r) \/ Interrupt(r) PROVE UNCHANGED store
  BY <1>1 DEF Refuse, Interrupt
<1>2. ASSUME NEW r \in Requests, NEW c \in Calls, Arrive(r, c) PROVE UNCHANGED store
  BY <1>2 DEF Arrive, store
<1>3. ASSUME NEW r \in Requests, Insert(r), ~Refuse(r)
      PROVE  \E id \in PostIds : Inserts(r, id)
  BY <1>3 DEF Insert, Inserts
<1>4. ASSUME NEW r \in Requests, PutTier(r), ~Refuse(r) PROVE PutsTier(r)
  <2>1. /\ call[r] \in Calls /\ target[r] \in PostIds /\ row[r] \in TierRow
    BY <1>4 DEF PutTier, TypeOK, Ready, WorksOnTier, WorksOnSprint, Drafts, Publishes
  <2>2. KeyOf(r) \in Keys
    BY <1>4, <2>1, CallFields DEF PutTier, KeyOf, Keys
  <2> QED
    BY <1>4, <2>1, <2>2 DEF PutTier, PutsTier
<1>5. ASSUME NEW r \in Requests, PutSprint(r), ~Refuse(r)
      PROVE  \E id \in SprintIds : PutsSprint(r, id)
  <2>1. target[r] \in SprintIds /\ row[r] \in SprintRow
    BY <1>5 DEF PutSprint, TypeOK, Ready, WorksOnTier, WorksOnSprint, Drafts, Publishes
  <2> QED
    BY <1>5, <2>1 DEF PutSprint, PutsSprint
<1>6. ASSUME NEW r \in Requests, Link(r), ~Refuse(r)
      PROVE  \E id \in SprintIds : PutsSprint(r, id)
  BY <1>6 DEF Link, PutsSprint, TypeOK, Ready
<1>7. ASSUME NEW r \in Requests, DropPost(r), ~Refuse(r)
      PROVE  \E id \in PostIds : DeletePost(id)
  BY <1>7 DEF DropPost, TypeOK, Ready, WorksOnSprint
<1>8. ASSUME NEW r \in Requests, DropSprint(r), ~Refuse(r)
      PROVE  \E id \in SprintIds : DeleteSprint(id)
  BY <1>8 DEF DropSprint, TypeOK, Ready, WorksOnSprint
<1>9. ASSUME NEW r \in Requests, DropAdr(r), ~Refuse(r)
      PROVE  \E id \in AdrIds : DeleteAdr(id)
  BY <1>9 DEF DropAdr, TypeOK, Ready, WorksOnSprint
<1>10. ASSUME NEW r \in Requests, LogEvent(r) PROVE \E event \in PostEvent : Logs(event)
  BY <1>10, EventType DEF LogEvent, Logs, Tells
<1>11. ASSUME NEW r \in Requests, LogCreated(r) PROVE \E event \in PostEvent : Logs(event)
  <2> DEFINE event == [kind |-> "post.created", sprint |-> sprint[r],
                       post |-> target[r], date |-> post[r].date]
  <2>1. event \in PostEvent
    BY <1>11 DEF LogCreated, TypeOK, Ready, PostEvent, EventKinds, Post
  <2> QED
    BY <1>11, <2>1 DEF LogCreated, Logs, Tells
<1>12. ASSUME NEW r \in Requests, LogDeclared(r) PROVE \E event \in PostEvent : Logs(event)
  <2> DEFINE event == [kind |-> "sprint.declared", sprint |-> post[r].sprint,
                       post |-> target[r], date |-> Absent]
  <2>1. event \in PostEvent
    BY <1>12 DEF LogDeclared, TypeOK, Ready, PostEvent, EventKinds
  <2> QED
    BY <1>12, <2>1 DEF LogDeclared, Logs, Tells
<1>13. ASSUME NEW r \in Requests, ~Refuse(r),
              \/ EnsureToday(r) \/ FindByDate(r) \/ DefaultSprint(r) \/ ReadBack(r)
              \/ GetDeclared(r) \/ GetTier(r) \/ GetSprint(r) \/ GetPost(r) \/ GetAdr(r)
              \/ Reply(r)
       PROVE  UNCHANGED store
  BY <1>13 DEF EnsureToday, FindByDate, DefaultSprint, ReadBack, GetDeclared, GetTier,
     GetSprint, GetPost, GetAdr, Reply, Keep
<1> QED
  BY <1>1, <1>2, <1>3, <1>4, <1>5, <1>6, <1>7, <1>8, <1>9, <1>10, <1>11, <1>12, <1>13
  DEF Next, Work, vars, store

(***************************************************************************)
(* Type correctness, which here includes that no handler reaches a store   *)
(* call without the values it passes to it.                                *)
(***************************************************************************)
LEMMA InitTypeOK == Init => TypeOK
  BY ModesAssumption DEF Init, StoreInit, TypeOK, StoreTypeOK, Ready, Nothing, SprintRow, Steps, CreateSteps

LEMMA StepStoreTypeOK ==
  ASSUME TypeOK, [Next]_vars
  PROVE  StoreTypeOK'
<1> USE DEF TypeOK, StoreTypeOK
<1>1. CASE UNCHANGED store
  BY <1>1 DEF store
<1>2. ASSUME NEW r \in Requests, NEW id \in PostIds, Inserts(r, id) PROVE StoreTypeOK'
  <2>1. NewPost(r) \in Post
    BY <1>2, NewPostType DEF Inserts
  <2> QED
    BY <1>2, <2>1, NewTierType DEF Inserts, InsertPost
<1>3. ASSUME NEW r \in Requests, PutsTier(r) PROVE StoreTypeOK'
  BY <1>3 DEF PutsTier, UpdateTier
<1>4. ASSUME NEW r \in Requests, NEW id \in SprintIds, PutsSprint(r, id) PROVE StoreTypeOK'
  BY <1>4 DEF PutsSprint, UpdateSprint
<1>5. ASSUME NEW id \in PostIds, DeletePost(id) PROVE StoreTypeOK'
  <2>1. sprints' \in [SprintIds -> SprintRow \cup {Absent}]
    BY <1>5 DEF DeletePost, LiveSprint, SprintRow
  <2>2. events' \subseteq PostEvent
    BY <1>5 DEF DeletePost, PostEvent
  <2>3. tiers' \in [Keys -> TierRow \cup {Absent}] /\ posts' \in [PostIds -> Post \cup {Absent}]
    BY <1>5 DEF DeletePost
  <2> QED
    BY <1>5, <2>1, <2>2, <2>3 DEF DeletePost
<1>6. ASSUME NEW id \in SprintIds, DeleteSprint(id) PROVE StoreTypeOK'
  <2>1. posts' \in [PostIds -> Post \cup {Absent}]
    BY <1>6 DEF DeleteSprint, LivePost, Post
  <2>2. events' \subseteq PostEvent
    BY <1>6 DEF DeleteSprint, PostEvent
  <2> QED
    BY <1>6, <2>1, <2>2 DEF DeleteSprint
<1>7. ASSUME NEW id \in AdrIds, DeleteAdr(id) PROVE StoreTypeOK'
  <2>1. tiers' \in [Keys -> TierRow \cup {Absent}]
    BY <1>7 DEF DeleteAdr, LiveTier, TierRow
  <2> QED
    BY <1>7, <2>1 DEF DeleteAdr
<1>8. ASSUME NEW event \in PostEvent, Logs(event) PROVE StoreTypeOK'
  BY <1>8 DEF Logs, AppendEvent
<1> QED
  BY <1>1, <1>2, <1>3, <1>4, <1>5, <1>6, <1>7, <1>8, StoreSteps

(***************************************************************************)
(* Each action leaves every handler with what its next step needs.         *)
(***************************************************************************)
LEMMA StepReady ==
  ASSUME TypeOK, NEW r \in Requests, Work(r)
  PROVE  LocalTypeOK' /\ \A q \in Requests : Ready(q)'
<1> DEFINE Good == LocalTypeOK' /\ \A q \in Requests : Ready(q)'
<1>1. CASE Refuse(r)
  <2>1. pc[r] # "idle"
    BY DEF Work, EnsureToday, FindByDate, DefaultSprint, Insert, ReadBack, LogCreated,
       GetDeclared, Link, LogDeclared, GetTier, PutTier, GetSprint, PutSprint, DropSprint,
       GetPost, DropPost, GetAdr, DropAdr, LogEvent, Reply
  <2> QED
    BY <1>1, <2>1, EndReady DEF Refuse, Ends
<1>2. CASE EnsureToday(r)
  <2>1. CASE Continue(r, "bydate")
    BY <1>2, <2>1, ContinueReady
    DEF EnsureToday, Continue, Goto, Steps, CreateSteps, TypeOK, Ready, Creates
  <2> QED
    BY <1>2, <2>1, TakeReady DEF EnsureToday, TypeOK, Ready, Creates
<1>3. CASE FindByDate(r)
  <2>1. Creates(call[r]) /\ call[r] \in Calls
    BY <1>3 DEF FindByDate, TypeOK, Ready, CreateSteps
  <2>2. ASSUME NEW step \in {"current", "insert"}, Continue(r, step) PROVE Good
    BY <2>1, <2>2, ContinueReady
    DEF Continue, Goto, Steps, CreateSteps, TypeOK, Ready
  <2> QED
    BY <1>3, <2>1, <2>2, TakeReady, EndReady DEF FindByDate, Ends
<1>4. CASE DefaultSprint(r)
  <2>1. LocalTypeOK'
    BY <1>4 DEF DefaultSprint, LocalTypeOK, TypeOK, Goto, Steps, CreateSteps
  <2>2. Ready(r)'
    BY <1>4 DEF DefaultSprint, TypeOK, Goto, Ready, CreateSteps
  <2> QED
    BY <1>4, <2>1, <2>2, OthersReady DEF DefaultSprint, Goto, TypeOK
<1>5. CASE Insert(r)
  BY <1>1, <1>5, TakeReady DEF Insert, TypeOK, Ready, CreateSteps
<1>6. CASE ReadBack(r)
  <2>1. CASE ~Refuse(r)
    <3>1. LocalTypeOK'
      BY <1>6, <2>1 DEF ReadBack, LivePost, LocalTypeOK, TypeOK, StoreTypeOK, Goto, Steps,
         CreateSteps, Ready
    <3>2. Ready(r)'
      BY <1>6, <2>1 DEF ReadBack, LivePost, TypeOK, StoreTypeOK, Goto, Ready, CreateSteps
    <3> QED
      BY <1>6, <2>1, <3>1, <3>2, OthersReady DEF ReadBack, Goto, TypeOK
  <2> QED
    BY <1>1, <2>1
<1>7. CASE LogCreated(r)
  <2>1. /\ Creates(call[r]) /\ call[r] \in Calls /\ target[r] \in PostIds
        /\ post[r] \in Post
    BY <1>7 DEF LogCreated, TypeOK, Ready, CreateSteps
  <2>2. CASE Created(r)
    BY <1>7, <2>1, <2>2, CreatedReady DEF LogCreated
  <2>3. CASE Continue(r, "getsprint") /\ post[r].sprint # Absent
    <3>1. Ready(r)'
      BY <2>1, <2>3 DEF Continue, Goto, CreateSteps, TypeOK, Ready, Post
    <3> QED
      BY <2>3, <3>1, ContinueReady DEF Steps, CreateSteps
  <2> QED
    BY <1>7, <2>2, <2>3 DEF LogCreated
<1>8. CASE GetDeclared(r)
  <2>1. /\ Creates(call[r]) /\ call[r] \in Calls /\ target[r] \in PostIds
        /\ post[r] \in Post /\ post[r].sprint \in SprintIds
    BY <1>8 DEF GetDeclared, TypeOK, Ready, CreateSteps
  <2>2. CASE Created(r)
    BY <1>8, <2>1, <2>2, CreatedReady DEF GetDeclared
  <2>3. CASE LiveSprint(post[r].sprint) /\ ~Created(r)
    <3> DEFINE copy == [sprints[post[r].sprint] EXCEPT !.declaration = target[r]]
    <3>1. copy \in SprintRow
      BY <2>1, <2>3 DEF LiveSprint, TypeOK, StoreTypeOK, SprintRow
    <3>2. /\ row' = [row EXCEPT ![r] = copy] /\ Goto(r, "link")
          /\ UNCHANGED <<call, target, sprint, post>>
      BY <1>8, <2>3 DEF GetDeclared
    <3> HIDE DEF copy
    <3>3. LocalTypeOK'
      BY <3>1, <3>2 DEF LocalTypeOK, TypeOK, Goto, Steps, CreateSteps
    <3>4. Ready(r)'
      BY <2>1, <3>1, <3>2 DEF TypeOK, Goto, Ready, CreateSteps
    <3> QED
      BY <3>2, <3>3, <3>4, OthersReady DEF Goto, TypeOK
  <2> QED
    BY <1>8, <2>2, <2>3 DEF GetDeclared
<1>9. CASE Link(r) /\ ~Refuse(r)
  <2>1. Continue(r, "declared") /\ pc[r] = "link"
    BY <1>9 DEF Link
  <2>2. Ready(r)'
    BY <2>1 DEF Continue, Goto, CreateSteps, TypeOK, Ready
  <2> QED
    BY <2>1, <2>2, ContinueReady DEF Steps, CreateSteps
<1>10. CASE LogDeclared(r)
  BY <1>10, CreatedReady DEF LogDeclared, TypeOK, Ready, CreateSteps
<1>11. CASE GetTier(r) /\ ~Refuse(r)
  <2> DEFINE copy == Altered(r, tiers[KeyOf(r)])
  <2>1. /\ WorksOnTier(call[r]) /\ call[r] \in Calls /\ target[r] \in PostIds
    BY <1>11 DEF GetTier, TypeOK, Ready, WorksOnTier, WorksOnSprint, Drafts, Publishes
  <2>2. tiers[KeyOf(r)] \in TierRow
    BY <1>11, <2>1, CallFields DEF GetTier, LiveTier, KeyOf, Keys, TypeOK, StoreTypeOK
  <2>3. copy \in TierRow
    BY <2>1, <2>2, AlteredType
  <2>4. Keep(r, copy, "put")
    BY <1>11 DEF GetTier
  <2> HIDE DEF copy
  <2>5. LocalTypeOK'
    BY <2>3, <2>4 DEF Keep, LocalTypeOK, TypeOK, Goto, Steps
  <2>6. Ready(r)'
    BY <1>11, <2>1, <2>3, <2>4 DEF Keep, TypeOK, Goto, Ready, CreateSteps, GetTier
  <2> QED
    BY <2>4, <2>5, <2>6, OthersReady DEF Keep, Goto, TypeOK
<1>12. CASE (PutTier(r) \/ PutSprint(r)) /\ ~Refuse(r)
  <2>1. Continue(r, "event") /\ pc[r] = "put"
    BY <1>12 DEF PutTier, PutSprint
  <2>2. Ready(r)'
    BY <1>12, <2>1 DEF Continue, Goto, CreateSteps, TypeOK, Ready, PutTier, PutSprint,
       WorksOnTier, WorksOnSprint, Drafts, Publishes
  <2> QED
    BY <2>1, <2>2, ContinueReady DEF Steps
<1>13. CASE GetSprint(r) /\ ~Refuse(r)
  <2>1. /\ call[r] \in Calls /\ target[r] \in SprintIds /\ WorksOnSprint(call[r])
        /\ sprints[target[r]] \in SprintRow
    BY <1>13 DEF GetSprint, TypeOK, StoreTypeOK, Ready, LiveSprint
  <2>2. CASE call[r].op = "retro"
    <3>1. Keep(r, sprints[target[r]], "put")
      BY <1>13, <2>2 DEF GetSprint
    <3>2. LocalTypeOK'
      BY <2>1, <3>1 DEF Keep, LocalTypeOK, TypeOK, Goto, Steps
    <3>3. Ready(r)'
      BY <2>1, <2>2, <3>1 DEF Keep, TypeOK, Goto, Ready, CreateSteps, WorksOnTier, Drafts,
         Publishes
    <3> QED
      BY <3>1, <3>2, <3>3, OthersReady DEF Keep, Goto, TypeOK
  <2>3. CASE call[r].op # "retro"
    <3>1. Continue(r, "drop")
      BY <1>13, <2>3 DEF GetSprint
    <3>2. Ready(r)'
      BY <2>1, <2>3, <3>1 DEF Continue, Goto, CreateSteps, TypeOK, Ready, WorksOnSprint, Deletes
    <3> QED
      BY <3>1, <3>2, ContinueReady DEF Steps
  <2> QED
    BY <2>2, <2>3
<1>14. CASE (DropSprint(r) \/ DropPost(r) \/ DropAdr(r)) /\ ~Refuse(r)
  <2>1. Continue(r, "event") /\ pc[r] = "drop"
    BY <1>14 DEF DropSprint, DropPost, DropAdr
  <2>2. Ready(r)'
    BY <1>14, <2>1 DEF Continue, Goto, CreateSteps, TypeOK, Ready
  <2> QED
    BY <2>1, <2>2, ContinueReady DEF Steps
<1>15. CASE GetPost(r) /\ ~Refuse(r)
  <2>1. /\ call[r] \in Calls /\ target[r] \in PostIds /\ posts[target[r]] \in Post
    BY <1>15 DEF GetPost, TypeOK, StoreTypeOK, Ready, LivePost, WorksOnSprint
  <2>2. /\ post' = [post EXCEPT ![r] = posts[target[r]]] /\ Goto(r, "drop")
        /\ UNCHANGED <<call, target, sprint, row>>
    BY <1>15 DEF GetPost
  <2>3. LocalTypeOK'
    BY <2>1, <2>2 DEF LocalTypeOK, TypeOK, Goto, Steps
  <2>4. Ready(r)'
    BY <1>15, <2>1, <2>2 DEF GetPost, TypeOK, Goto, Ready, CreateSteps, WorksOnSprint, Deletes
  <2> QED
    BY <2>2, <2>3, <2>4, OthersReady DEF Goto, TypeOK
<1>16. CASE GetAdr(r) /\ ~Refuse(r)
  <2>1. Continue(r, "drop") /\ pc[r] = "get" /\ call[r].op = "adr_delete"
    BY <1>16 DEF GetAdr
  <2>2. Ready(r)'
    BY <2>1 DEF Continue, Goto, CreateSteps, TypeOK, Ready, Deletes
  <2> QED
    BY <2>1, <2>2, ContinueReady DEF Steps
<1>17. CASE LogEvent(r)
  <2>1. CASE ~Deletes(call[r])
    <3>1. Continue(r, "reply") /\ pc[r] = "event"
      BY <1>17, <2>1 DEF LogEvent
    <3>2. Ready(r)'
      BY <2>1, <3>1 DEF Continue, Goto, CreateSteps, TypeOK, Ready, Deletes, WorksOnSprint
    <3> QED
      BY <3>1, <3>2, ContinueReady DEF Steps
  <2> QED
    BY <1>17, <2>1, EndReady DEF LogEvent, Ends
<1>18. CASE Reply(r)
  <2>1. pc[r] # "idle" /\ (End(r, "answered") \/ End(r, "refused"))
    BY <1>18 DEF Reply
  <2> QED
    BY <2>1, EndReady DEF Ends
<1> QED
  BY <1>1, <1>2, <1>3, <1>4, <1>5, <1>6, <1>7, <1>8, <1>9, <1>10, <1>11, <1>12, <1>13, <1>14,
     <1>15, <1>16, <1>17, <1>18 DEF Work

LEMMA StepTypeOK == TypeOK /\ [Next]_vars => TypeOK'
<1> SUFFICES ASSUME TypeOK, [Next]_vars PROVE TypeOK'
  OBVIOUS
<1>1. StoreTypeOK'
  BY StepStoreTypeOK
<1>2. LocalTypeOK' /\ \A q \in Requests : Ready(q)'
  <2>1. ASSUME NEW r \in Requests, NEW c \in Calls, Arrive(r, c)
        PROVE  LocalTypeOK' /\ \A q \in Requests : Ready(q)'
    <3>1. LocalTypeOK'
      BY <2>1, CallFields
      DEF Arrive, LocalTypeOK, TypeOK, Goto, FirstStep, Steps, CreateSteps, Creates, Chats,
          WorksOnTier, WorksOnSprint, Drafts, Publishes
    <3>2. Ready(r)'
      BY <2>1, CallFields
      DEF Arrive, TypeOK, Goto, FirstStep, Ready, CreateSteps, Creates, Chats,
          WorksOnTier, WorksOnSprint, Drafts, Publishes, Deletes
    <3> QED
      BY <2>1, <3>1, <3>2, OthersReady DEF Arrive, Goto, TypeOK
  <2>2. ASSUME NEW r \in Requests, Interrupt(r)
        PROVE  LocalTypeOK' /\ \A q \in Requests : Ready(q)'
    BY <2>2, EndReady DEF Interrupt, InFlight, Steps, CreateSteps, Ends
  <2>3. CASE UNCHANGED vars
    BY <2>3 DEF vars, TypeOK, LocalTypeOK, Ready
  <2> QED
    BY <2>1, <2>2, <2>3, StepReady DEF Next
<1>3. overlap' = overlap
  BY DEF Next, vars
<1> QED
  BY <1>1, <1>2, <1>3 DEF TypeOK, LocalTypeOK

(***************************************************************************)
(* In every reachable state every table and every handler's local state is *)
(* well-formed (store/posts.go, service/content.go).                       *)
(***************************************************************************)
THEOREM TypeCorrect == Spec => []TypeOK
  BY InitTypeOK, StepTypeOK, PTL DEF Spec

(***************************************************************************)
(* Two posts never share a day, though any number of creations may have    *)
(* found the day free before they insert (ux_posts_date).                  *)
(***************************************************************************)
THEOREM AlwaysOnePostPerDay == Spec => []OnePostPerDay
<1>1. Init => OnePostPerDay
  BY DEF Init, StoreInit, OnePostPerDay, LivePost
<1>2. TypeOK /\ OnePostPerDay /\ [Next]_vars => OnePostPerDay'
  <2> SUFFICES ASSUME TypeOK, OnePostPerDay, [Next]_vars PROVE OnePostPerDay'
    OBVIOUS
  <2> USE DEF OnePostPerDay, LivePost, TypeOK, StoreTypeOK
  <2>1. CASE UNCHANGED posts
    BY <2>1
  <2>2. ASSUME NEW r \in Requests, NEW id \in PostIds, Inserts(r, id) PROVE OnePostPerDay'
    BY <2>2 DEF Inserts, InsertPost, PostAllowed, NoneOfDate, OfDate
  <2>3. ASSUME NEW id \in PostIds, DeletePost(id) PROVE OnePostPerDay'
    BY <2>3 DEF DeletePost
  <2>4. ASSUME NEW id \in SprintIds, DeleteSprint(id) PROVE OnePostPerDay'
    <3>1. \A p \in PostIds : posts'[p] # Absent =>
            posts[p] # Absent /\ posts'[p].date = posts[p].date
      BY <2>4 DEF DeleteSprint, Post
    <3> QED
      BY <3>1
  <2> QED
    BY <2>1, <2>2, <2>3, <2>4, StoreSteps
    DEF PutsTier, UpdateTier, PutsSprint, UpdateSprint, DeleteAdr, Logs, AppendEvent, store
<1> QED
  BY <1>1, <1>2, TypeCorrect, PTL DEF Spec

(***************************************************************************)
(* Posts and tiers come and go together: no crash or overlap leaves a post *)
(* with tiers missing, or tiers for the next post of that id to inherit    *)
(* (the transactions of InsertPost and DeletePost).                        *)
(***************************************************************************)
THEOREM AlwaysTiersOfPosts == Spec => []TiersOfPosts
<1>1. Init => TiersOfPosts
  BY DEF Init, StoreInit, TiersOfPosts, LivePost, LiveTier, Keys
<1>2. TypeOK /\ TiersOfPosts /\ [Next]_vars => TiersOfPosts'
  <2> SUFFICES ASSUME TypeOK, TiersOfPosts, [Next]_vars PROVE TiersOfPosts'
    OBVIOUS
  <2> USE DEF TiersOfPosts, LivePost, LiveTier, TypeOK, StoreTypeOK
  <2>1. CASE UNCHANGED <<posts, tiers>>
    BY <2>1
  <2>2. ASSUME NEW r \in Requests, NEW id \in PostIds, Inserts(r, id) PROVE TiersOfPosts'
    <3>1. NewPost(r) # Absent
      BY <2>2, NewPostType, AbsentAssumption DEF Inserts
    <3>2. NewTier # Absent
      BY NewTierType, AbsentAssumption
    <3> QED
      BY <2>2, <3>1, <3>2 DEF Inserts, InsertPost, Keys
  <2>3. ASSUME NEW r \in Requests, PutsTier(r) PROVE TiersOfPosts'
    BY <2>3, AbsentAssumption DEF PutsTier, UpdateTier
  <2>4. ASSUME NEW id \in PostIds, DeletePost(id) PROVE TiersOfPosts'
    BY <2>4 DEF DeletePost, Keys
  <2>5. ASSUME NEW id \in SprintIds, DeleteSprint(id) PROVE TiersOfPosts'
    <3>1. \A p \in PostIds : posts'[p] # Absent <=> posts[p] # Absent
      <4>1. \A p \in PostIds : posts[p] # Absent => [posts[p] EXCEPT !.sprint = Absent] \in Post
        BY DEF Post
      <4> QED
        BY <2>5, <4>1, AbsentAssumption DEF DeleteSprint
    <3> QED
      BY <2>5, <3>1 DEF DeleteSprint, Keys
  <2>6. ASSUME NEW id \in AdrIds, DeleteAdr(id) PROVE TiersOfPosts'
    <3>1. \A key \in Keys : tiers[key] # Absent => [tiers[key] EXCEPT !.adr = Absent] \in TierRow
      BY DEF TierRow
    <3> QED
      BY <2>6, <3>1, AbsentAssumption DEF DeleteAdr
  <2> QED
    BY <2>1, <2>2, <2>3, <2>4, <2>5, <2>6, StoreSteps
    DEF PutsSprint, UpdateSprint, Logs, AppendEvent, store
<1> QED
  BY <1>1, <1>2, TypeCorrect, PTL DEF Spec

(***************************************************************************)
(* No row refers to a post, sprint or record that is gone, however the     *)
(* deletions fall between the calls of other handlers (the foreign keys of *)
(* 0001_init.sql to 0007_career_ops.sql, ON DELETE SET NULL).              *)
(***************************************************************************)
THEOREM AlwaysLinksAreLive == Spec => []LinksAreLive
<1>1. Init => LinksAreLive
  BY DEF Init, StoreInit, LinksAreLive, LivePost, LiveTier, LiveSprint, SprintRef, PostRef,
     AdrRef
<1>2. TypeOK /\ LinksAreLive /\ [Next]_vars => LinksAreLive'
  <2> SUFFICES ASSUME TypeOK, LinksAreLive, [Next]_vars PROVE LinksAreLive'
    OBVIOUS
  <2> USE DEF LinksAreLive, LivePost, LiveTier, LiveSprint, SprintRef, PostRef, AdrRef,
              TypeOK, StoreTypeOK
  <2>1. CASE UNCHANGED store
    BY <2>1 DEF store
  <2>2. ASSUME NEW r \in Requests, NEW id \in PostIds, Inserts(r, id) PROVE LinksAreLive'
    <3>1. NewPost(r) # Absent
      BY <2>2, NewPostType, AbsentAssumption DEF Inserts
    <3> QED
      BY <2>2, <3>1 DEF Inserts, InsertPost, PostAllowed, NewTier
  <2>3. ASSUME NEW r \in Requests, PutsTier(r) PROVE LinksAreLive'
    BY <2>3 DEF PutsTier, UpdateTier
  <2>4. ASSUME NEW r \in Requests, NEW id \in SprintIds, PutsSprint(r, id)
        PROVE  LinksAreLive'
    BY <2>4, AbsentAssumption DEF PutsSprint, SprintAllowed, UpdateSprint
  <2>5. ASSUME NEW id \in PostIds, DeletePost(id) PROVE LinksAreLive'
    <3>1. \A s \in SprintIds : sprints[s] # Absent => sprints'[s] # Absent
      <4>1. \A s \in SprintIds : sprints[s] # Absent =>
              [sprints[s] EXCEPT !.declaration = Absent] \in SprintRow
        BY DEF SprintRow
      <4> QED
        BY <2>5, <4>1, AbsentAssumption DEF DeletePost
    <3>2. \A s \in SprintIds : sprints'[s] # Absent =>
            sprints'[s].declaration = Absent \/ posts'[sprints'[s].declaration] # Absent
      BY <2>5 DEF DeletePost, SprintRow
    <3>3. \A p \in PostIds : posts'[p] # Absent => posts'[p] = posts[p]
      BY <2>5 DEF DeletePost
    <3>4. \A p \in PostIds : posts'[p] # Absent =>
            posts'[p].sprint = Absent \/ sprints'[posts'[p].sprint] # Absent
      BY <3>1, <3>3 DEF Post
    <3>5. \A e \in events' : /\ e.sprint = Absent \/ sprints'[e.sprint] # Absent
                             /\ e.post = Absent \/ posts'[e.post] # Absent
      <4>1. TAKE e \in events'
      <4>2. PICK old \in events : e = IF old.post = id THEN [old EXCEPT !.post = Absent] ELSE old
        BY <2>5 DEF DeletePost
      <4>3. e.sprint = old.sprint /\ (e.post = Absent \/ (e.post = old.post /\ e.post # id))
        BY <4>2 DEF PostEvent
      <4>4. old.sprint \in SprintIds \cup {Absent} /\ old.post \in PostIds \cup {Absent}
        BY DEF PostEvent
      <4> QED
        BY <2>5, <3>1, <4>3, <4>4 DEF DeletePost
    <3>6. \A key \in Keys : tiers'[key] # Absent => tiers'[key] = tiers[key]
      BY <2>5 DEF DeletePost
    <3>7. adrs' = adrs
      BY <2>5 DEF DeletePost
    <3> QED
      BY <3>2, <3>4, <3>5, <3>6, <3>7
  <2>6. ASSUME NEW id \in SprintIds, DeleteSprint(id) PROVE LinksAreLive'
    <3>1. \A p \in PostIds : posts[p] # Absent => posts'[p] # Absent
      <4>1. \A p \in PostIds : posts[p] # Absent => [posts[p] EXCEPT !.sprint = Absent] \in Post
        BY DEF Post
      <4> QED
        BY <2>6, <4>1, AbsentAssumption DEF DeleteSprint
    <3>2. \A p \in PostIds : posts'[p] # Absent =>
            posts'[p].sprint = Absent \/ sprints'[posts'[p].sprint] # Absent
      BY <2>6 DEF DeleteSprint, Post
    <3>3. \A s \in SprintIds : sprints'[s] # Absent => sprints'[s] = sprints[s]
      BY <2>6 DEF DeleteSprint
    <3>4. \A s \in SprintIds : sprints'[s] # Absent =>
            sprints'[s].declaration = Absent \/ posts'[sprints'[s].declaration] # Absent
      BY <3>1, <3>3 DEF SprintRow
    <3>5. \A e \in events' : /\ e.sprint = Absent \/ sprints'[e.sprint] # Absent
                             /\ e.post = Absent \/ posts'[e.post] # Absent
      <4>1. TAKE e \in events'
      <4>2. PICK old \in events :
              e = IF old.sprint = id THEN [old EXCEPT !.sprint = Absent] ELSE old
        BY <2>6 DEF DeleteSprint
      <4>3. e.post = old.post /\ (e.sprint = Absent \/ (e.sprint = old.sprint /\ e.sprint # id))
        BY <4>2 DEF PostEvent
      <4>4. old.sprint \in SprintIds \cup {Absent} /\ old.post \in PostIds \cup {Absent}
        BY DEF PostEvent
      <4> QED
        BY <2>6, <3>1, <4>3, <4>4 DEF DeleteSprint
    <3> QED
      BY <2>6, <3>2, <3>4, <3>5 DEF DeleteSprint
  <2>7. ASSUME NEW id \in AdrIds, DeleteAdr(id) PROVE LinksAreLive'
    BY <2>7 DEF DeleteAdr, TierRow
  <2>8. ASSUME NEW event \in PostEvent, Logs(event) PROVE LinksAreLive'
    BY <2>8 DEF Logs, AppendEvent
  <2> QED
    BY <2>1, <2>2, <2>3, <2>4, <2>5, <2>6, <2>7, <2>8, StoreSteps
<1> QED
  BY <1>1, <1>2, TypeCorrect, PTL DEF Spec

(***************************************************************************)
(* What PublishedHasURL needs to be inductive: the row a handler is about  *)
(* to write back has its URL and date if it says it is published.          *)
(***************************************************************************)
Stamped(tier) == tier.status = "published" => tier.url /\ tier.dated

CopiesStamped ==
  \A r \in Requests : pc[r] = "put" /\ WorksOnTier(call[r]) => Stamped(row[r])

LEMMA AlteredStamped ==
  ASSUME NEW r \in Requests, NEW tier \in TierRow, Stamped(tier)
  PROVE  Stamped(Altered(r, tier))
  BY DEF Altered, Stamped, TierRow, TierStatuses

LEMMA CopiesStep ==
  ASSUME TypeOK, PublishedHasURL, CopiesStamped, [Next]_vars
  PROVE  CopiesStamped'
<1> SUFFICES ASSUME NEW q \in Requests, pc'[q] = "put", WorksOnTier(call'[q])
             PROVE  Stamped(row'[q])
  BY DEF CopiesStamped, Stamped
<1>1. ASSUME NEW r \in Requests, GetTier(r), ~Refuse(r), q = r PROVE Stamped(row'[q])
  <2>1. WorksOnTier(call[r]) /\ call[r] \in Calls /\ target[r] \in PostIds
    BY <1>1 DEF GetTier, TypeOK, Ready, WorksOnTier, WorksOnSprint, Drafts, Publishes
  <2>2. KeyOf(r) \in Keys /\ tiers[KeyOf(r)] \in TierRow /\ LiveTier(KeyOf(r))
    BY <1>1, <2>1, CallFields DEF GetTier, LiveTier, KeyOf, Keys, TypeOK, StoreTypeOK
  <2>3. row'[r] = Altered(r, tiers[KeyOf(r)])
    BY <1>1 DEF GetTier, Keep, TypeOK
  <2> QED
    BY <1>1, <2>2, <2>3, AlteredStamped DEF PublishedHasURL, Stamped
<1>2. CASE pc'[q] = pc[q] /\ call'[q] = call[q] /\ row'[q] = row[q]
  BY <1>2 DEF CopiesStamped, Stamped
<1>3. ASSUME NEW r \in Requests, \E c \in Calls : Arrive(r, c) PROVE Stamped(row'[q])
  BY <1>2, <1>3 DEF Arrive, Goto, FirstStep, TypeOK
<1>4. ASSUME NEW r \in Requests, NEW how \in Ends, End(r, how) PROVE Stamped(row'[q])
  BY <1>2, <1>4 DEF End, Goto, Ends, TypeOK
<1>5. ASSUME NEW r \in Requests, NEW step \in Steps \ {"put"}, Continue(r, step)
      PROVE  Stamped(row'[q])
  BY <1>2, <1>5 DEF Continue, Goto, TypeOK
<1>6. ASSUME NEW r \in Requests, Created(r) PROVE Stamped(row'[q])
  BY <1>4, <1>5, <1>6 DEF Created, Steps, Ends
<1>7. ASSUME NEW r \in Requests, NEW id \in PostIds, NEW step \in {"get", "readback"},
             Take(r, id, step)
      PROVE  Stamped(row'[q])
  BY <1>2, <1>7 DEF Take, Goto, TypeOK
<1>8. ASSUME NEW r \in Requests, Refuse(r) PROVE Stamped(row'[q])
  BY <1>4, <1>8 DEF Refuse, Ends
<1>9. ASSUME NEW r \in Requests, Work(r), ~Refuse(r), pc[r] \notin {"get", "getsprint"}
      PROVE  Stamped(row'[q])
  <2>1. CASE EnsureToday(r) \/ FindByDate(r) \/ Insert(r) \/ LogCreated(r) \/ LogDeclared(r)
             \/ Link(r) \/ LogEvent(r) \/ Reply(r)
    BY <1>4, <1>5, <1>6, <1>7, <1>9, <2>1
    DEF EnsureToday, FindByDate, Insert, LogCreated, LogDeclared, Link, LogEvent, Reply,
        Steps, CreateSteps, Ends
  <2>2. CASE PutTier(r) \/ PutSprint(r) \/ DropSprint(r) \/ DropPost(r) \/ DropAdr(r)
    BY <1>5, <1>9, <2>2 DEF PutTier, PutSprint, DropSprint, DropPost, DropAdr, Steps
  <2>3. CASE DefaultSprint(r) \/ ReadBack(r)
    BY <1>2, <1>9, <2>3 DEF DefaultSprint, ReadBack, Goto, TypeOK
  <2> QED
    BY <1>9, <2>1, <2>2, <2>3
    DEF Work, GetDeclared, GetTier, GetSprint, GetPost, GetAdr
<1>10. ASSUME NEW r \in Requests, Work(r), ~Refuse(r), pc[r] \in {"get", "getsprint"}
       PROVE  Stamped(row'[q])
  <2>1. CASE GetTier(r)
    BY <1>1, <1>2, <1>10, <2>1 DEF GetTier, Keep, Goto, TypeOK
  <2>2. CASE GetSprint(r)
    <3>1. ~WorksOnTier(call[r])
      BY <2>2 DEF GetSprint, WorksOnTier, WorksOnSprint, Drafts, Publishes
    <3>2. CASE q # r
      BY <1>2, <1>10, <2>2, <3>2 DEF GetSprint, Keep, Continue, Goto, TypeOK
    <3> QED
      BY <1>10, <2>2, <3>1, <3>2 DEF GetSprint, Keep, Continue
  <2>3. CASE GetDeclared(r)
    <3>1. CASE Created(r)
      BY <1>6, <3>1
    <3> QED
      BY <1>2, <1>10, <2>3, <3>1 DEF GetDeclared, Goto, TypeOK
  <2>4. CASE GetPost(r) \/ GetAdr(r)
    BY <1>2, <1>5, <1>10, <2>4 DEF GetPost, GetAdr, Goto, TypeOK, Steps
  <2> QED
    BY <1>10, <2>1, <2>2, <2>3, <2>4
    DEF Work, EnsureToday, FindByDate, DefaultSprint, Insert, ReadBack, LogCreated, Link,
        LogDeclared, PutTier, PutSprint, DropSprint, DropPost, DropAdr, LogEvent, Reply
<1> QED
  BY <1>2, <1>3, <1>4, <1>8, <1>9, <1>10 DEF Next, Interrupt, Ends, vars

(***************************************************************************)
(* A published tier has its URL and its date, although every change of a   *)
(* tier writes back a whole row read some calls earlier (GetTier and       *)
(* UpdateTier of store/posts.go, as service/content.go uses them).         *)
(***************************************************************************)
THEOREM AlwaysPublishedHasURL == Spec => []PublishedHasURL
<1>1. Init => PublishedHasURL /\ CopiesStamped
  BY DEF Init, StoreInit, PublishedHasURL, CopiesStamped, LiveTier
<1>2. TypeOK /\ PublishedHasURL /\ CopiesStamped /\ [Next]_vars => PublishedHasURL'
  <2> SUFFICES ASSUME TypeOK, PublishedHasURL, CopiesStamped, [Next]_vars
               PROVE  PublishedHasURL'
    OBVIOUS
  <2> USE DEF PublishedHasURL, LiveTier, TypeOK, StoreTypeOK
  <2>1. CASE UNCHANGED tiers
    BY <2>1
  <2>2. ASSUME NEW r \in Requests, NEW id \in PostIds, Inserts(r, id) PROVE PublishedHasURL'
    BY <2>2 DEF Inserts, InsertPost, NewTier
  <2>3. ASSUME NEW r \in Requests, PutsTier(r) PROVE PublishedHasURL'
    BY <2>3 DEF PutsTier, UpdateTier, CopiesStamped, Stamped
  <2>4. ASSUME NEW id \in PostIds, DeletePost(id) PROVE PublishedHasURL'
    BY <2>4 DEF DeletePost
  <2>5. ASSUME NEW id \in AdrIds, DeleteAdr(id) PROVE PublishedHasURL'
    <3>1. \A key \in Keys : tiers'[key] # Absent =>
            /\ tiers[key] # Absent
            /\ tiers'[key].status = tiers[key].status
            /\ tiers'[key].url = tiers[key].url /\ tiers'[key].dated = tiers[key].dated
      BY <2>5 DEF DeleteAdr, TierRow
    <3> QED
      BY <3>1
  <2> QED
    BY <2>1, <2>2, <2>3, <2>4, <2>5, StoreSteps
    DEF PutsSprint, UpdateSprint, DeleteSprint, Logs, AppendEvent, store
<1>3. TypeOK /\ PublishedHasURL /\ CopiesStamped /\ [Next]_vars => CopiesStamped'
  BY CopiesStep
<1> QED
  BY <1>1, <1>2, <1>3, TypeCorrect, PTL DEF Spec

(***************************************************************************)
(* One request at a time.  A step of a handler changes nothing of another  *)
(* handler's.                                                              *)
(***************************************************************************)
Only(r) ==
  /\ call' = call
  /\ \A q \in Requests \ {r} : pc'[q] = pc[q]

LEMMA OnlyOne ==
  ASSUME TypeOK, NEW r \in Requests, Work(r) \/ Interrupt(r)
  PROVE  Only(r) /\ InFlight(r)
<1>1. CASE Work(r)
  <2>1. Only(r)
    BY <1>1
    DEF Only, TypeOK, Work, EnsureToday, FindByDate, DefaultSprint, Insert, ReadBack, LogCreated,
        GetDeclared, Link, LogDeclared, GetTier, PutTier, GetSprint, PutSprint, DropSprint, GetPost,
        DropPost, GetAdr, DropAdr, LogEvent, Reply, Refuse, End, Continue, Created, Take, Keep, Goto
  <2>2. InFlight(r)
    BY <1>1
    DEF InFlight, Steps, CreateSteps, Work, EnsureToday, FindByDate, DefaultSprint, Insert, ReadBack,
        LogCreated, GetDeclared, Link, LogDeclared, GetTier, PutTier, GetSprint, PutSprint, DropSprint,
        GetPost, DropPost, GetAdr, DropAdr, LogEvent, Reply
  <2> QED
    BY <2>1, <2>2
<1>2. CASE Interrupt(r)
  BY <1>2 DEF Interrupt, End, Goto, Only, TypeOK
<1> QED
  BY <1>1, <1>2

OneAtATime == \A q, r \in Requests : InFlight(q) /\ InFlight(r) => q = r

LEMMA StepOneAtATime ==
  ASSUME TypeOK, ~overlap, OneAtATime, [Next]_vars
  PROVE  OneAtATime'
<1>1. ASSUME NEW r \in Requests, Work(r) \/ Interrupt(r) PROVE OneAtATime'
  <2>1. Only(r) /\ InFlight(r)
    BY <1>1, OnlyOne
  <2> QED
    BY <2>1 DEF Only, OneAtATime, InFlight
<1>2. ASSUME NEW r \in Requests, NEW c \in Calls, Arrive(r, c) PROVE OneAtATime'
  BY <1>2 DEF Arrive, Goto, Quiet, OneAtATime, InFlight, TypeOK
<1>3. CASE UNCHANGED vars
  BY <1>3 DEF vars, OneAtATime, InFlight
<1> QED
  BY <1>1, <1>2, <1>3 DEF Next

(***************************************************************************)
(* What the one handler has in hand is what the tables say: nobody else    *)
(* has changed them since it read them.                                    *)
(***************************************************************************)
PostInHand(r) ==
  /\ pc[r] \in {"created", "getsprint", "link"} /\ LivePost(target[r]) => posts[target[r]] = post[r]
  /\ pc[r] \in {"getsprint", "link"} => post[r].declares
  /\ pc[r] = "link" => row[r].declaration = target[r]
  /\ pc[r] = "event" /\ call[r].op = "delete" => ~LivePost(target[r])

RowInHand(r) ==
  /\ pc[r] = "put" /\ WorksOnTier(call[r]) => row[r] = Altered(r, tiers[KeyOf(r)])
  /\ pc[r] = "put" /\ call[r].op = "retro" /\ LiveSprint(target[r]) => row[r] = sprints[target[r]]

InHand == \A r \in Requests : PostInHand(r) /\ RowInHand(r)

LEMMA StepInHand ==
  ASSUME TypeOK, ~overlap, OneAtATime, InHand, [Next]_vars
  PROVE  InHand'
<1> DEFINE Late == {"created", "getsprint", "link", "event", "put"}
<1>1. ASSUME NEW q \in Requests, pc'[q] \notin Late PROVE (PostInHand(q) /\ RowInHand(q))'
  BY <1>1 DEF PostInHand, RowInHand
<1>2. ASSUME NEW r \in Requests, NEW c \in Calls, Arrive(r, c) PROVE InHand'
  <2>1. pc'[r] \notin Late
    BY <1>2 DEF Arrive, Goto, FirstStep, TypeOK
  <2>2. \A q \in Requests \ {r} : pc'[q] = pc[q] /\ ~InFlight(q)
    BY <1>2 DEF Arrive, Goto, Quiet, TypeOK
  <2>3. \A q \in Requests \ {r} : pc'[q] \notin Late
    BY <2>2 DEF InFlight, Steps, CreateSteps
  <2> QED
    BY <1>1, <2>1, <2>3 DEF InHand
<1>3. ASSUME NEW r \in Requests, Work(r) \/ Interrupt(r) PROVE InHand'
  <2>1. Only(r) /\ InFlight(r)
    BY <1>3, OnlyOne
  <2>2. \A q \in Requests \ {r} : pc'[q] \notin Late
    BY <2>1 DEF Only, OneAtATime, InFlight, Steps, CreateSteps
  <2>3. ASSUME PostInHand(r)', RowInHand(r)' PROVE InHand'
    BY <1>1, <2>2, <2>3 DEF InHand
  <2>4. CASE pc'[r] \notin Late
    BY <1>1, <2>2, <2>4 DEF InHand
  <2>5. ASSUME Refuse(r) \/ Interrupt(r) \/ (\E how \in Ends : End(r, how)) PROVE InHand'
    BY <2>4, <2>5 DEF Refuse, Interrupt, End, Goto, Ends, TypeOK
  <2>6. ASSUME Created(r) PROVE InHand'
    BY <2>4, <2>6 DEF Created, End, Continue, Goto, TypeOK
  <2>7. CASE EnsureToday(r) \/ FindByDate(r) \/ DefaultSprint(r) \/ Insert(r)
    <3>1. pc'[r] \notin Late
      BY <2>7 DEF EnsureToday, FindByDate, DefaultSprint, Insert, Continue, Take, Refuse, End, Goto,
         TypeOK
    <3> QED
      BY <2>4, <3>1
  <2>8. CASE ReadBack(r) /\ ~Refuse(r)
    <3>1. /\ post'[r] = posts[target[r]] /\ pc'[r] = "created"
          /\ UNCHANGED <<posts, target>>
      BY <2>8 DEF ReadBack, Goto, TypeOK, store
    <3> QED
      BY <2>3, <3>1 DEF PostInHand, RowInHand, LivePost
  <2>9. CASE LogCreated(r) /\ ~Created(r)
    <3>1. /\ post[r].declares /\ pc[r] = "created" /\ pc'[r] = "getsprint"
          /\ UNCHANGED <<posts, target, post>>
      BY <2>9 DEF LogCreated, AppendEvent, Continue, Goto, TypeOK
    <3>2. PostInHand(r)
      BY DEF InHand
    <3> QED
      BY <2>3, <3>1, <3>2 DEF PostInHand, RowInHand, LivePost
  <2>10. CASE GetDeclared(r) /\ ~Created(r)
    <3>1. /\ pc[r] = "getsprint" /\ pc'[r] = "link" /\ LiveSprint(post[r].sprint)
          /\ row'[r] = [sprints[post[r].sprint] EXCEPT !.declaration = target[r]]
          /\ UNCHANGED <<posts, target, post>>
      BY <2>10 DEF GetDeclared, Goto, TypeOK, store
    <3>2. sprints[post[r].sprint] \in SprintRow
      BY <3>1 DEF LiveSprint, TypeOK, StoreTypeOK, Ready
    <3>3. row'[r].declaration = target[r]
      BY <3>1, <3>2 DEF SprintRow
    <3>4. PostInHand(r)
      BY DEF InHand
    <3> QED
      BY <2>3, <3>1, <3>3, <3>4 DEF PostInHand, RowInHand, LivePost
  <2>11. CASE (Link(r) /\ ~Refuse(r)) \/ LogDeclared(r) \/ LogEvent(r) \/ Reply(r)
    <3>1. pc'[r] \notin Late
      BY <2>11 DEF Link, LogDeclared, LogEvent, Reply, Created, Continue, End, Goto, TypeOK
    <3> QED
      BY <2>4, <3>1
  <2>12. CASE GetTier(r) /\ ~Refuse(r)
    <3>1. /\ row'[r] = Altered(r, tiers[KeyOf(r)]) /\ pc'[r] = "put" /\ WorksOnTier(call[r])
          /\ UNCHANGED <<tiers, call, target>>
      BY <2>12 DEF GetTier, Keep, Goto, TypeOK, store
    <3>2. call[r].op # "retro"
      BY <3>1 DEF WorksOnTier, Drafts, Publishes
    <3>3. row'[r] = Altered(r, tiers[KeyOf(r)])'
      BY <3>1 DEF Altered, KeyOf, Drafts, Publishes
    <3> QED
      BY <2>3, <3>1, <3>2, <3>3 DEF PostInHand, RowInHand
  <2>13. CASE GetSprint(r) /\ ~Refuse(r)
    <3>1. CASE call[r].op = "retro"
      <4>1. /\ row'[r] = sprints[target[r]] /\ pc'[r] = "put" /\ UNCHANGED <<sprints, call, target>>
        BY <2>13, <3>1 DEF GetSprint, Keep, Goto, TypeOK, store
      <4>2. ~WorksOnTier(call'[r])
        BY <3>1, <4>1 DEF WorksOnTier, Drafts, Publishes
      <4> QED
        BY <2>3, <4>1, <4>2 DEF PostInHand, RowInHand
    <3>2. CASE call[r].op # "retro"
      BY <2>4, <2>13, <3>2 DEF GetSprint, Continue, Goto, TypeOK
    <3> QED
      BY <3>1, <3>2
  <2>14. CASE (PutTier(r) \/ PutSprint(r) \/ DropSprint(r) \/ DropAdr(r)) /\ ~Refuse(r)
    <3>1. pc'[r] = "event" /\ call' = call /\ call[r].op # "delete"
      BY <2>14 DEF PutTier, PutSprint, DropSprint, DropAdr, Continue, Goto, WorksOnTier, Drafts,
         Publishes, TypeOK
    <3> QED
      BY <2>3, <3>1 DEF PostInHand, RowInHand
  <2>15. CASE DropPost(r) /\ ~Refuse(r)
    <3>1. pc'[r] = "event" /\ target' = target /\ DeletePost(target[r]) /\ target[r] \in PostIds
      BY <2>15 DEF DropPost, Continue, Goto, TypeOK, Ready, WorksOnSprint
    <3>2. ~LivePost(target[r])'
      BY <3>1 DEF DeletePost, LivePost, TypeOK, StoreTypeOK
    <3> QED
      BY <2>3, <3>1, <3>2 DEF PostInHand, RowInHand
  <2>16. CASE (GetPost(r) \/ GetAdr(r)) /\ ~Refuse(r)
    <3>1. pc'[r] \notin Late
      BY <2>16 DEF GetPost, GetAdr, Continue, Goto, TypeOK
    <3> QED
      BY <2>4, <3>1
  <2> QED
    BY <1>3, <2>5, <2>6, <2>7, <2>8, <2>9, <2>10, <2>11, <2>12, <2>13, <2>14, <2>15, <2>16 DEF Work
<1>4. CASE UNCHANGED vars
  BY <1>4 DEF vars, InHand, PostInHand, RowInHand, LivePost, LiveSprint, Altered, KeyOf, WorksOnTier,
     Drafts, Publishes
<1> QED
  BY <1>2, <1>3, <1>4 DEF Next

LEMMA NewIdIsFree ==
  ASSUME NEW r \in Requests, NEW id \in PostIds, Inserts(r, id)
  PROVE  ~LivePost(id)
BY PostIdsAssumption DEF Inserts, NextPostId

(***************************************************************************)
(* A link is written with the post that was just read back in hand, and no *)
(* other write gives a sprint another declaration.                         *)
(***************************************************************************)
LEMMA StepDeclarationIsOwn ==
  ASSUME TypeOK, ~overlap, InHand, LinksAreLive, DeclarationIsOwn, [Next]_vars
  PROVE  DeclarationIsOwn'
<1> DEFINE Own(s, p) == LivePost(p) /\ posts[p].declares /\ posts[p].sprint = s
<1>1. SUFFICES ASSUME NEW s \in SprintIds, LiveSprint(s)', sprints'[s].declaration # Absent,
                      NEW p \in PostIds, p = sprints'[s].declaration
               PROVE  LivePost(p)' /\ posts'[p].declares /\ posts'[p].sprint = s
  <2>1. StoreTypeOK'
    BY StepTypeOK DEF TypeOK
  <2>2. \A s \in SprintIds : LiveSprint(s)' /\ sprints'[s].declaration # Absent =>
          sprints'[s].declaration \in PostIds
    BY <2>1 DEF StoreTypeOK, LiveSprint, SprintRow
  <2> QED
    BY <2>2 DEF DeclarationIsOwn, LivePost
<1>2. LiveSprint(s) /\ sprints[s].declaration = p => Own(s, p)
  BY <1>1, AbsentAssumption DEF DeclarationIsOwn
<1>3. CASE UNCHANGED <<posts, sprints>>
  BY <1>1, <1>2, <1>3 DEF LiveSprint, LivePost
<1>4. ASSUME NEW r \in Requests, NEW id \in PostIds, Inserts(r, id)
      PROVE  LivePost(p)' /\ posts'[p].declares /\ posts'[p].sprint = s
  <2>1. ~LivePost(id) /\ UNCHANGED sprints
    BY <1>4, NewIdIsFree DEF Inserts, InsertPost
  <2>2. Own(s, p)
    BY <1>1, <1>2, <2>1 DEF LiveSprint
  <2>3. p # id
    BY <2>1, <2>2
  <2> QED
    BY <1>4, <2>2, <2>3 DEF Inserts, InsertPost, LivePost, TypeOK, StoreTypeOK
<1>5. ASSUME NEW r \in Requests, NEW id \in SprintIds, PutsSprint(r, id)
      PROVE  LivePost(p)' /\ posts'[p].declares /\ posts'[p].sprint = s
  <2>1. UNCHANGED posts /\ LiveSprint(s) /\ (s # id => sprints'[s] = sprints[s])
    BY <1>1, <1>5 DEF PutsSprint, UpdateSprint, TypeOK, StoreTypeOK, LiveSprint
  <2>2. CASE s # id
    BY <1>1, <1>2, <2>1, <2>2 DEF LivePost
  <2>3. CASE s = id
    <3>1. sprints'[s] = row[r] /\ p = row[r].declaration /\ LivePost(p)
      BY <1>1, <1>5, <2>1, <2>3, AbsentAssumption
      DEF PutsSprint, UpdateSprint, SprintAllowed, PostRef, TypeOK, StoreTypeOK, LiveSprint
    <3>2. PostInHand(r) /\ RowInHand(r)
      BY DEF InHand
    <3>3. CASE pc[r] = "link" /\ id = post[r].sprint
      <4>1. p = target[r] /\ posts[p] = post[r] /\ post[r].declares
        BY <3>1, <3>2, <3>3 DEF PostInHand
      <4> QED
        BY <2>1, <2>3, <3>1, <3>3, <4>1 DEF LivePost
    <3>4. CASE pc[r] = "put" /\ call[r].op = "retro" /\ id = target[r]
      <4>1. row[r] = sprints[s]
        BY <2>1, <2>3, <3>2, <3>4 DEF RowInHand
      <4>2. Own(s, p)
        BY <1>2, <2>1, <3>1, <4>1
      <4> QED
        BY <2>1, <4>2 DEF LivePost
    <3> QED
      BY <1>5, <3>3, <3>4 DEF PutsSprint
  <2> QED
    BY <2>2, <2>3
<1>6. ASSUME NEW id \in PostIds, DeletePost(id)
      PROVE  LivePost(p)' /\ posts'[p].declares /\ posts'[p].sprint = s
  <2>1. LiveSprint(s) /\ sprints[s].declaration = p /\ p # id
    BY <1>1, <1>6 DEF DeletePost, LiveSprint, TypeOK, StoreTypeOK, SprintRow
  <2> QED
    BY <1>2, <1>6, <2>1 DEF DeletePost, LivePost, TypeOK, StoreTypeOK
<1>7. ASSUME NEW id \in SprintIds, DeleteSprint(id)
      PROVE  LivePost(p)' /\ posts'[p].declares /\ posts'[p].sprint = s
  <2>1. LiveSprint(s) /\ sprints[s].declaration = p /\ s # id
    BY <1>1, <1>7 DEF DeleteSprint, LiveSprint, TypeOK, StoreTypeOK
  <2>2. Own(s, p)
    BY <1>2, <2>1
  <2>3. posts'[p] = posts[p]
    BY <1>7, <2>1, <2>2 DEF DeleteSprint, LivePost, TypeOK, StoreTypeOK
  <2> QED
    BY <2>2, <2>3 DEF LivePost
<1> QED
  BY <1>3, <1>4, <1>5, <1>6, <1>7, StoreSteps
  DEF PutsTier, UpdateTier, DeleteAdr, Logs, AppendEvent, store

(***************************************************************************)
(* The event of a creation names the post in hand; the event of a deletion *)
(* is refused, as its post is gone and no other has its id yet.            *)
(***************************************************************************)
LEMMA StepLogNamesItsPost ==
  ASSUME TypeOK, ~overlap, InHand, LinksAreLive, LogNamesItsPost, [Next]_vars
  PROVE  LogNamesItsPost'
<1>1. SUFFICES ASSUME NEW e \in events', e.post # Absent, e.date # Absent
               PROVE  LivePost(e.post)' /\ posts'[e.post].date = e.date
  BY DEF LogNamesItsPost, LivePost
<1>2. \A old \in events : old.post # Absent /\ old.date # Absent =>
        LivePost(old.post) /\ posts[old.post].date = old.date
  BY DEF LogNamesItsPost
<1>3. \A old \in events : old \in PostEvent
  BY DEF TypeOK, StoreTypeOK
<1>4. CASE UNCHANGED <<posts, events>>
  BY <1>1, <1>2, <1>4 DEF LivePost
<1>5. ASSUME NEW r \in Requests, NEW id \in PostIds, Inserts(r, id)
      PROVE  LivePost(e.post)' /\ posts'[e.post].date = e.date
  <2>1. ~LivePost(id) /\ e \in events /\ posts' = [posts EXCEPT ![id] = NewPost(r)]
    BY <1>5, NewIdIsFree DEF Inserts, InsertPost
  <2>2. e.post \in PostIds /\ LivePost(e.post) /\ posts[e.post].date = e.date
    BY <1>1, <1>2, <1>3, <2>1 DEF PostEvent
  <2>3. e.post # id
    BY <2>1, <2>2
  <2> QED
    BY <2>1, <2>2, <2>3 DEF LivePost, TypeOK, StoreTypeOK
<1>6. ASSUME NEW id \in PostIds, DeletePost(id)
      PROVE  LivePost(e.post)' /\ posts'[e.post].date = e.date
  <2>1. PICK old \in events : e = IF old.post = id THEN [old EXCEPT !.post = Absent] ELSE old
    BY <1>6 DEF DeletePost
  <2>2. e = old /\ e.post # id /\ e.post \in PostIds
    BY <1>1, <1>3, <2>1 DEF PostEvent
  <2>3. LivePost(e.post) /\ posts[e.post].date = e.date
    BY <1>1, <1>2, <2>2
  <2> QED
    BY <1>6, <2>2, <2>3 DEF DeletePost, LivePost, TypeOK, StoreTypeOK
<1>7. ASSUME NEW id \in SprintIds, DeleteSprint(id)
      PROVE  LivePost(e.post)' /\ posts'[e.post].date = e.date
  <2>1. PICK old \in events : e = IF old.sprint = id THEN [old EXCEPT !.sprint = Absent] ELSE old
    BY <1>7 DEF DeleteSprint
  <2>2. e.post = old.post /\ e.date = old.date /\ e.post \in PostIds
    BY <1>1, <1>3, <2>1 DEF PostEvent
  <2>3. LivePost(e.post) /\ posts[e.post].date = e.date
    BY <1>1, <1>2, <2>2
  <2>4. \A p \in PostIds : LivePost(p) => LivePost(p)' /\ posts'[p].date = posts[p].date
    <3>1. ASSUME NEW p \in PostIds, LivePost(p) PROVE LivePost(p)' /\ posts'[p].date = posts[p].date
      <4>1. posts[p] \in Post
        BY <3>1 DEF LivePost, TypeOK, StoreTypeOK
      <4>2. posts'[p] \in {posts[p], [posts[p] EXCEPT !.sprint = Absent]}
        BY <1>7 DEF DeleteSprint
      <4>3. posts'[p] \in Post /\ posts'[p].date = posts[p].date
        BY <4>1, <4>2 DEF Post
      <4> QED
        BY <4>3, AbsentAssumption DEF LivePost
    <3> QED
      BY <3>1
  <2> QED
    BY <2>2, <2>3, <2>4 DEF LivePost
<1>8. ASSUME NEW event \in PostEvent, Logs(event)
      PROVE  LivePost(e.post)' /\ posts'[e.post].date = e.date
  <2>1. UNCHANGED posts /\ (e \in events \/ (e = event /\ PostRef(event.post)))
    BY <1>8 DEF Logs, AppendEvent
  <2>2. CASE e \in events
    BY <1>1, <1>2, <2>1, <2>2 DEF LivePost
  <2>3. CASE e = event /\ LivePost(event.post)
    <3>1. PICK r \in Requests : Tells(r, event)
      BY <1>8 DEF Logs
    <3>2. PostInHand(r)
      BY DEF InHand
    <3>3. CASE pc[r] = "created" /\ event.post = target[r] /\ event.date = post[r].date
      <4>1. posts[target[r]] = post[r]
        BY <2>3, <3>2, <3>3 DEF PostInHand
      <4> QED
        BY <2>1, <2>3, <3>3, <4>1 DEF LivePost
    <3>4. CASE pc[r] = "event" /\ event = EventOf(r)
      <4>1. call[r].op = "delete" /\ event.post = target[r]
        BY <1>1, <2>3, <3>4 DEF EventOf
      <4> QED
        BY <2>3, <3>2, <3>4, <4>1 DEF PostInHand
    <3> QED
      BY <1>1, <2>3, <3>1, <3>3, <3>4 DEF Tells
  <2> QED
    BY <1>1, <2>1, <2>2, <2>3 DEF PostRef
<1> QED
  BY <1>4, <1>5, <1>6, <1>7, <1>8, StoreSteps
  DEF PutsTier, UpdateTier, PutsSprint, UpdateSprint, DeleteAdr, store

(***************************************************************************)
(* The inductive invariant of requests in turn.                            *)
(***************************************************************************)
TurnInv == ~overlap => OneAtATime /\ InHand

LEMMA SpecTurnInv == Spec => []TurnInv
<1>1. Init => TurnInv
  BY DEF Init, Nothing, TurnInv, OneAtATime, InFlight, Steps, CreateSteps, InHand, PostInHand, RowInHand
<1>2. TypeOK /\ TurnInv /\ [Next]_vars => TurnInv'
  <2> SUFFICES ASSUME TypeOK, TurnInv, [Next]_vars, ~overlap' PROVE OneAtATime' /\ InHand'
    BY DEF TurnInv
  <2>1. ~overlap
    BY DEF Next, vars
  <2> QED
    BY <2>1, StepOneAtATime, StepInHand DEF TurnInv
<1> QED
  BY <1>1, <1>2, TypeCorrect, PTL DEF Spec

(***************************************************************************)
(* While requests do not overlap, a sprint's declaration is a post that    *)
(* declares that very sprint, although the link is a later call than the   *)
(* post and ids of posts come back (service/content.go:60).                *)
(***************************************************************************)
THEOREM SerialDeclarationIsOwn == Spec => []DeclarationIsOwn
<1>1. Init => DeclarationIsOwn
  BY DEF Init, StoreInit, DeclarationIsOwn
<1>2. TypeOK /\ TurnInv /\ LinksAreLive /\ DeclarationIsOwn /\ [Next]_vars => DeclarationIsOwn'
  <2> SUFFICES ASSUME TypeOK, TurnInv, LinksAreLive, DeclarationIsOwn, [Next]_vars PROVE DeclarationIsOwn'
    OBVIOUS
  <2>1. CASE overlap
    BY <2>1 DEF Next, vars, DeclarationIsOwn
  <2>2. CASE ~overlap
    BY <2>2, StepDeclarationIsOwn DEF TurnInv
  <2> QED
    BY <2>1, <2>2
<1> QED
  BY <1>1, <1>2, TypeCorrect, SpecTurnInv, AlwaysLinksAreLive, PTL DEF Spec

(***************************************************************************)
(* While requests do not overlap, no event of one post passes to the next  *)
(* one with its id, though the event of a deletion is written when the     *)
(* post is gone (service/content.go:230).                                  *)
(***************************************************************************)
THEOREM SerialLogNamesItsPost == Spec => []LogNamesItsPost
<1>1. Init => LogNamesItsPost
  BY DEF Init, StoreInit, LogNamesItsPost
<1>2. TypeOK /\ TurnInv /\ LinksAreLive /\ LogNamesItsPost /\ [Next]_vars => LogNamesItsPost'
  <2> SUFFICES ASSUME TypeOK, TurnInv, LinksAreLive, LogNamesItsPost, [Next]_vars PROVE LogNamesItsPost'
    OBVIOUS
  <2>1. CASE overlap
    BY <2>1 DEF Next, vars, LogNamesItsPost
  <2>2. CASE ~overlap
    BY <2>2, StepLogNamesItsPost DEF TurnInv
  <2> QED
    BY <2>1, <2>2
<1> QED
  BY <1>1, <1>2, TypeCorrect, SpecTurnInv, AlwaysLinksAreLive, PTL DEF Spec

(***************************************************************************)
(* While requests do not overlap, what is published stays so until its     *)
(* post is deleted: a draft leaves the status of the row it read, and that *)
(* row is the one it writes over (service/content.go:102).                 *)
(***************************************************************************)
THEOREM SerialPublishedStays == Spec => PublishedStays
<1>1. ASSUME TypeOK, TurnInv, TiersOfPosts, PublishedHasURL, [Next]_vars
      PROVE  [\A key \in Keys :
                ~overlap /\ LiveTier(key) /\ tiers[key].status = "published" =>
                  \/ tiers'[key] = Absent
                  \/ (tiers'[key].status = "published" /\ tiers'[key].url)]_vars
  <2> DEFINE Stays(key) == \/ tiers'[key] = Absent
                           \/ (tiers'[key].status = "published" /\ tiers'[key].url)
  <2>1. SUFFICES ASSUME NEW key \in Keys, ~overlap, LiveTier(key), tiers[key].status = "published"
                 PROVE  Stays(key)
    OBVIOUS
  <2>2. tiers[key] \in TierRow /\ tiers[key].url
    BY <1>1, <2>1 DEF TypeOK, StoreTypeOK, LiveTier, PublishedHasURL
  <2>3. CASE UNCHANGED tiers
    BY <2>1, <2>2, <2>3
  <2>4. ASSUME NEW r \in Requests, NEW id \in PostIds, Inserts(r, id) PROVE Stays(key)
    <3>1. key[1] # id
      BY <1>1, <2>1, <2>4, NewIdIsFree DEF TiersOfPosts
    <3> QED
      BY <2>1, <2>2, <2>4, <3>1 DEF Inserts, InsertPost
  <2>5. ASSUME NEW r \in Requests, PutsTier(r) PROVE Stays(key)
    <3>1. tiers' = [tiers EXCEPT ![KeyOf(r)] = row[r]] /\ row[r] = Altered(r, tiers[KeyOf(r)])
      BY <1>1, <2>1, <2>5 DEF PutsTier, UpdateTier, TurnInv, InHand, RowInHand
    <3>2. CASE KeyOf(r) = key
      BY <1>1, <2>1, <2>2, <3>1, <3>2 DEF Altered, TierRow, TypeOK, StoreTypeOK
    <3>3. CASE KeyOf(r) # key
      BY <1>1, <2>1, <2>2, <3>1, <3>3 DEF TypeOK, StoreTypeOK
    <3> QED
      BY <3>2, <3>3
  <2>6. ASSUME NEW id \in PostIds, DeletePost(id) PROVE Stays(key)
    BY <2>1, <2>2, <2>6 DEF DeletePost
  <2>7. ASSUME NEW id \in AdrIds, DeleteAdr(id) PROVE Stays(key)
    BY <2>1, <2>2, <2>7 DEF DeleteAdr, TierRow
  <2> QED
    BY <1>1, <2>3, <2>4, <2>5, <2>6, <2>7, StoreSteps
    DEF PutsSprint, UpdateSprint, DeleteSprint, Logs, AppendEvent, store
<1> QED
  BY <1>1, TypeCorrect, SpecTurnInv, AlwaysTiersOfPosts, AlwaysPublishedHasURL, PTL
  DEF Spec, PublishedStays

=============================================================================
