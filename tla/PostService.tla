---------------------------- MODULE PostService ----------------------------
(***************************************************************************)
(* The post handlers of service/content.go and the post intents of         *)
(* service/intents.go, with the handlers of other parts that write a row   *)
(* posts refer to, or a reference to a post: RecordRetro stands for all    *)
(* handlers that write back a whole sprint, and sprints and decision       *)
(* records are deleted.                                                    *)
(*                                                                         *)
(* As in SprintService, every store call is a step of its own, any request *)
(* may run between two of them, and a request may be cut off at any point. *)
(* The second SELECT of GetPost, which only loads the tiers for the page,  *)
(* is part of the first.                                                   *)
(***************************************************************************)
EXTENDS PostStore

CONSTANTS
  Operations,   \* the operations the callers use
  Modes         \* may requests overlap: the cases to look at

ASSUME ModesAssumption == Modes \subseteq BOOLEAN

VARIABLES
  overlap,  \* may a request arrive while another is being served?
  pc,       \* request -> the store call it makes next, or how it ended
  call,     \* request -> what was asked
  target,   \* request -> the id of the post, sprint or record it works on
  sprint,   \* request -> in.SprintID of a creation
  post,     \* request -> its copy of a post
  row       \* request -> its copy of a tier or of a sprint

locals == <<target, sprint, post, row>>
vars == <<posts, tiers, sprints, adrs, events, overlap, pc, call, target, sprint, post, row>>

Calls ==
  [op : {"create"}, date : Dates, sprint : SprintIds \cup {Absent}, declares : BOOLEAN]
  \cup [op : {"chat_draft", "chat_publish"}, date : Dates, tier : Tiers]
  \cup [op : {"draft", "publish"}, id : PostIds, tier : Tiers]
  \cup [op : {"visual"}, id : PostIds, tier : Tiers, adr : AdrIds \cup {Absent}]
  \cup [op : {"delete"}, id : PostIds]
  \cup [op : {"retro", "sprint_delete"}, id : SprintIds]
  \cup [op : {"adr_delete"}, id : AdrIds]

Chats(c) == c.op \in {"chat_draft", "chat_publish"}
Creates(c) == c.op = "create" \/ Chats(c)
Drafts(c) == c.op \in {"draft", "chat_draft"}
Publishes(c) == c.op \in {"publish", "chat_publish"}
WorksOnTier(c) == Drafts(c) \/ Publishes(c) \/ c.op = "visual"
WorksOnSprint(c) == c.op \in {"retro", "sprint_delete"}
Deletes(c) == c.op \in {"delete", "sprint_delete", "adr_delete"}

CreateSteps == {"bydate", "current", "insert", "readback", "created",
                "getsprint", "link", "declared"}
Steps == CreateSteps \cup {"today", "get", "put", "drop", "event", "reply"}
Ends == {"answered", "refused", "cut", "late"}

InFlight(r) == pc[r] \in Steps
Quiet == \A r \in Requests : ~InFlight(r)

\* What a handler is doing, and has in hand, at each of its steps.
Ready(r) ==
  LET at == pc[r]
      c == call[r]
  IN /\ at # "idle" => c \in Calls
     /\ at = "today" => Chats(c)
     /\ at \in CreateSteps => Creates(c)
     /\ at \in {"put", "reply"} => WorksOnTier(c) \/ c.op = "retro"
     /\ at = "drop" => Deletes(c)
     /\ at \in {"readback", "created", "getsprint", "link", "declared"} => target[r] \in PostIds
     /\ at \in {"get", "put", "drop", "event", "reply"} =>
          /\ WorksOnTier(c) \/ WorksOnSprint(c) \/ Deletes(c)
          /\ target[r] \in IF WorksOnSprint(c) THEN SprintIds
                           ELSE IF c.op = "adr_delete" THEN AdrIds ELSE PostIds
     /\ at \in {"created", "getsprint", "link", "declared"} => post[r] \in Post
     /\ at \in {"getsprint", "link", "declared"} => post[r].sprint \in SprintIds
     /\ at = "link" => row[r] \in SprintRow
     /\ at = "put" => row[r] \in IF WorksOnTier(c) THEN TierRow ELSE SprintRow
     /\ at \in {"drop", "event"} /\ c.op = "delete" => post[r] \in Post

\* Every table and every handler's local state has the shape the code gives it,
\* and no handler reaches a store call without the values it passes to it.
TypeOK ==
  /\ StoreTypeOK
  /\ overlap \in BOOLEAN
  /\ pc \in [Requests -> {"idle"} \cup Steps \cup Ends]
  /\ call \in [Requests -> Calls \cup {Absent}]
  /\ target \in [Requests -> PostIds \cup SprintIds \cup AdrIds \cup {Absent}]
  /\ sprint \in [Requests -> SprintIds \cup {Absent}]
  /\ post \in [Requests -> Post \cup {Absent}]
  /\ row \in [Requests -> TierRow \cup SprintRow \cup {Absent}]
  /\ \A r \in Requests : Ready(r)

Nothing == [r \in Requests |-> Absent]

Init ==
  /\ StoreInit
  /\ overlap \in Modes
  /\ pc = [r \in Requests |-> "idle"]
  /\ call = Nothing /\ target = Nothing /\ sprint = Nothing /\ post = Nothing /\ row = Nothing

-----------------------------------------------------------------------------
(* Control *)

Goto(r, step) == pc' = [pc EXCEPT ![r] = step]

\* The goroutine ends and its locals with it.  "cut" is an end without an answer,
\* "late" one with the answer of a success though the context ended on the way.
End(r, how) ==
  /\ Goto(r, how)
  /\ target' = [target EXCEPT ![r] = Absent]
  /\ sprint' = [sprint EXCEPT ![r] = Absent]
  /\ post' = [post EXCEPT ![r] = Absent]
  /\ row' = [row EXCEPT ![r] = Absent]
  /\ UNCHANGED call

Refuse(r) == End(r, "refused") /\ UNCHANGED store

Continue(r, step) == Goto(r, step) /\ UNCHANGED <<call, target, sprint, post, row>>

\* CreatePost returns to its caller.
Created(r) == IF Chats(call[r]) THEN Continue(r, "get") ELSE End(r, "answered")

FirstStep(c) == IF Chats(c) THEN "today" ELSE IF c.op = "create" THEN "bydate" ELSE "get"

Arrive(r, c) ==
  /\ pc[r] = "idle"
  /\ c.op \in Operations
  /\ overlap \/ Quiet
  /\ Goto(r, FirstStep(c))
  /\ call' = [call EXCEPT ![r] = c]
  /\ target' = [target EXCEPT ![r] = IF Creates(c) THEN Absent ELSE c.id]
  /\ sprint' = [sprint EXCEPT ![r] = IF c.op = "create" THEN c.sprint ELSE Absent]
  /\ UNCHANGED <<store, post, row>>

\* All the store calls a handler still has to make are those whose errors it drops:
\* an event, or the look at the sprint that a new post declares.
AnswersAnyway(r) ==
  \/ pc[r] = "event" /\ Deletes(call[r])
  \/ pc[r] \in {"created", "getsprint", "declared"} /\ call[r].op = "create"

\* The browser leaves, the turn times out or the process dies.
Interrupt(r) ==
  /\ InFlight(r)
  /\ End(r, "cut") \/ (AnswersAnyway(r) /\ End(r, "late"))
  /\ UNCHANGED store

-----------------------------------------------------------------------------
(* CreatePost, and ensureTodayPost before it *)

Take(r, id, step) ==
  /\ target' = [target EXCEPT ![r] = id]
  /\ Goto(r, step)
  /\ UNCHANGED <<call, sprint, post, row>>

EnsureToday(r) ==
  /\ pc[r] = "today"
  /\ UNCHANGED store
  /\ \/ NoneOfDate(call[r].date) /\ Continue(r, "bydate")
     \/ \E id \in PostIds : OfDate(id, call[r].date) /\ Take(r, id, "get")

\* A post of that day is returned as it is, whatever else was asked for.
FindByDate(r) ==
  /\ pc[r] = "bydate"
  /\ UNCHANGED store
  /\ \/ /\ NoneOfDate(call[r].date)
        /\ Continue(r, IF sprint[r] = Absent THEN "current" ELSE "insert")
     \/ \E id \in PostIds :
          /\ OfDate(id, call[r].date)
          /\ IF Chats(call[r]) THEN Take(r, id, "get") ELSE End(r, "answered")

DefaultSprint(r) ==
  /\ pc[r] = "current"
  /\ \/ NoCurrent /\ UNCHANGED sprint
     \/ \E id \in SprintIds : Current(id) /\ sprint' = [sprint EXCEPT ![r] = id]
  /\ Goto(r, "insert")
  /\ UNCHANGED <<store, call, target, post, row>>

NewPost(r) == [date |-> call[r].date, sprint |-> sprint[r],
               declares |-> call[r].op = "create" /\ call[r].declares]

Insert(r) ==
  /\ pc[r] = "insert"
  /\ IF PostAllowed(NewPost(r))
     THEN \E id \in PostIds :
            /\ NextPostId(id)
            /\ InsertPost(id, NewPost(r))
            /\ Take(r, id, "readback")
     ELSE Refuse(r)

ReadBack(r) ==
  /\ pc[r] = "readback"
  /\ IF LivePost(target[r])
     THEN /\ post' = [post EXCEPT ![r] = posts[target[r]]]
          /\ Goto(r, "created")
          /\ UNCHANGED <<store, call, target, sprint, row>>
     ELSE Refuse(r)

LogCreated(r) ==
  /\ pc[r] = "created"
  /\ AppendEvent([kind |-> "post.created", sprint |-> sprint[r],
                  post |-> target[r], date |-> post[r].date])
  /\ IF post[r].declares /\ post[r].sprint # Absent
     THEN Continue(r, "getsprint")
     ELSE Created(r)

\* mutant: the link is set on the current sprint, not on the post's
LinkCurrent(r) ==
  /\ pc[r] = "getsprint"
  /\ UNCHANGED store
  /\ IF NoCurrent THEN Created(r)
     ELSE \E id \in SprintIds :
            /\ Current(id)
            /\ row' = [row EXCEPT ![r] = [sprints[id] EXCEPT !.declaration = target[r]]]
            /\ post' = [post EXCEPT ![r].sprint = id]
            /\ Goto(r, "link")
            /\ UNCHANGED <<call, target, sprint>>

GetDeclared(r) ==
  /\ pc[r] = "getsprint"
  /\ UNCHANGED store
  /\ LET id == post[r].sprint
     IN IF LiveSprint(id)
        THEN /\ row' = [row EXCEPT ![r] = [sprints[id] EXCEPT !.declaration = target[r]]]
             /\ Goto(r, "link")
             /\ UNCHANGED <<call, target, sprint, post>>
        ELSE Created(r)

Link(r) ==
  /\ pc[r] = "link"
  /\ IF SprintAllowed(post[r].sprint, row[r])
     THEN UpdateSprint(post[r].sprint, row[r]) /\ Continue(r, "declared")
     ELSE Refuse(r)

LogDeclared(r) ==
  /\ pc[r] = "declared"
  /\ AppendEvent([kind |-> "sprint.declared", sprint |-> post[r].sprint,
                  post |-> target[r], date |-> Absent])
  /\ Created(r)

-----------------------------------------------------------------------------
(* DraftTier, MarkPublished, SetTierVisual: read the tier, write it back. *)

KeyOf(r) == <<target[r], call[r].tier>>

\* mutant: the draft sets the status whatever it was
AlteredAlways(r, tier) ==
  IF Drafts(call[r]) THEN [tier EXCEPT !.draft = r, !.status = "drafted"]
  ELSE IF Publishes(call[r]) THEN [tier EXCEPT !.status = "published", !.url = TRUE, !.dated = TRUE]
  ELSE [tier EXCEPT !.adr = call[r].adr]

Altered(r, tier) ==
  IF Drafts(call[r])
  THEN [tier EXCEPT !.draft = r, !.status = IF @ = "none" THEN "drafted" ELSE @]
  ELSE IF Publishes(call[r])
  THEN [tier EXCEPT !.status = "published", !.url = TRUE, !.dated = TRUE]
  ELSE [tier EXCEPT !.adr = call[r].adr]

Keep(r, copy, step) ==
  /\ row' = [row EXCEPT ![r] = copy]
  /\ Goto(r, step)
  /\ UNCHANGED <<store, call, target, sprint, post>>

GetTier(r) ==
  /\ pc[r] = "get" /\ WorksOnTier(call[r])
  /\ IF LiveTier(KeyOf(r)) THEN Keep(r, Altered(r, tiers[KeyOf(r)]), "put") ELSE Refuse(r)

PutTier(r) ==
  /\ pc[r] = "put" /\ WorksOnTier(call[r])
  /\ IF LiveTier(KeyOf(r)) /\ AdrRef(row[r].adr)
     THEN UpdateTier(KeyOf(r), row[r]) /\ Continue(r, "event")
     ELSE Refuse(r)

-----------------------------------------------------------------------------
(* RecordRetro, and the three deletions *)

GetSprint(r) ==
  /\ pc[r] = "get" /\ WorksOnSprint(call[r])
  /\ IF LiveSprint(target[r])
     THEN IF call[r].op = "retro"
          THEN Keep(r, sprints[target[r]], "put")
          ELSE Continue(r, "drop") /\ UNCHANGED store
     ELSE Refuse(r)

PutSprint(r) ==
  /\ pc[r] = "put" /\ call[r].op = "retro"
  /\ IF SprintAllowed(target[r], row[r])
     THEN UpdateSprint(target[r], row[r]) /\ Continue(r, "event")
     ELSE Refuse(r)

DropSprint(r) ==
  /\ pc[r] = "drop" /\ call[r].op = "sprint_delete"
  /\ IF LiveSprint(target[r]) THEN DeleteSprint(target[r]) /\ Continue(r, "event") ELSE Refuse(r)

GetPost(r) ==
  /\ pc[r] = "get" /\ call[r].op = "delete"
  /\ IF LivePost(target[r])
     THEN /\ post' = [post EXCEPT ![r] = posts[target[r]]]
          /\ Goto(r, "drop")
          /\ UNCHANGED <<store, call, target, sprint, row>>
     ELSE Refuse(r)

DropPost(r) ==
  /\ pc[r] = "drop" /\ call[r].op = "delete"
  /\ IF LivePost(target[r]) THEN DeletePost(target[r]) /\ Continue(r, "event") ELSE Refuse(r)

GetAdr(r) ==
  /\ pc[r] = "get" /\ call[r].op = "adr_delete"
  /\ IF target[r] \in adrs THEN Continue(r, "drop") /\ UNCHANGED store ELSE Refuse(r)

DropAdr(r) ==
  /\ pc[r] = "drop" /\ call[r].op = "adr_delete"
  /\ IF target[r] \in adrs THEN DeleteAdr(target[r]) /\ Continue(r, "event") ELSE Refuse(r)

EventKind(c) ==
  CASE Drafts(c) -> "post.tier_drafted"
    [] Publishes(c) -> "post.published"
    [] c.op = "visual" -> "post.visual_set"
    [] c.op = "delete" -> "post.deleted"
    [] c.op = "retro" -> "sprint.retro"
    [] c.op = "sprint_delete" -> "sprint.deleted"
    [] c.op = "adr_delete" -> "adr.deleted"

EventOf(r) ==
  LET c == call[r]
  IN [kind |-> EventKind(c),
      sprint |-> IF WorksOnSprint(c) THEN target[r]
                 ELSE IF c.op = "delete" THEN post[r].sprint ELSE Absent,
      post |-> IF WorksOnTier(c) \/ c.op = "delete" THEN target[r] ELSE Absent,
      date |-> IF c.op = "delete" THEN post[r].date ELSE Absent]

LogEvent(r) ==
  /\ pc[r] = "event"
  /\ AppendEvent(EventOf(r))
  /\ IF Deletes(call[r]) THEN End(r, "answered") ELSE Continue(r, "reply")

Reply(r) ==
  /\ pc[r] = "reply"
  /\ End(r, IF IF WorksOnTier(call[r]) THEN LiveTier(KeyOf(r)) ELSE LiveSprint(target[r])
            THEN "answered" ELSE "refused")
  /\ UNCHANGED store

-----------------------------------------------------------------------------
Work(r) ==
  \/ EnsureToday(r) \/ FindByDate(r) \/ DefaultSprint(r) \/ Insert(r) \/ ReadBack(r)
  \/ LogCreated(r) \/ GetDeclared(r) \/ Link(r) \/ LogDeclared(r)
  \/ GetTier(r) \/ PutTier(r) \/ GetSprint(r) \/ PutSprint(r) \/ DropSprint(r)
  \/ GetPost(r) \/ DropPost(r) \/ GetAdr(r) \/ DropAdr(r) \/ LogEvent(r) \/ Reply(r)

Next ==
  /\ \E r \in Requests : (\E c \in Calls : Arrive(r, c)) \/ Work(r) \/ Interrupt(r)
  /\ UNCHANGED overlap

Spec == Init /\ [][Next]_vars

-----------------------------------------------------------------------------
(* Safety that must survive any overlap and any interruption. *)

\* One post per day, though two creations may both have found none of that day.
OnePostPerDay ==
  \A i, j \in PostIds : LivePost(i) /\ LivePost(j) /\ posts[i].date = posts[j].date => i = j

\* A post has all its tiers from the moment it can be seen, and no tier outlives
\* its post, to be taken for one of the next post with that id.
TiersOfPosts == \A key \in Keys : LiveTier(key) <=> LivePost(key[1])

\* A published tier has its URL and its date, though drafts, visuals and
\* publications write back whole rows they read some calls ago, maybe over the
\* tier of another post.
PublishedHasURL ==
  \A key \in Keys : LiveTier(key) /\ tiers[key].status = "published" =>
                      tiers[key].url /\ tiers[key].dated

\* Nothing refers to a post, sprint or record that is gone, whatever is deleted
\* between the calls of a handler that is still to write a reference to it.
LinksAreLive ==
  /\ \A p \in PostIds : LivePost(p) => SprintRef(posts[p].sprint)
  /\ \A s \in SprintIds : LiveSprint(s) => PostRef(sprints[s].declaration)
  /\ \A key \in Keys : LiveTier(key) => AdrRef(tiers[key].adr)
  /\ \A e \in events : SprintRef(e.sprint) /\ PostRef(e.post)

-----------------------------------------------------------------------------
(* Safety of requests that do not overlap, interruptions included. *)

\* A sprint's declaration is a post that declares that very sprint: a later call of
\* the handler links the post, and ids of posts come back.
DeclarationIsOwn ==
  ~overlap => \A s \in SprintIds :
    LiveSprint(s) /\ sprints[s].declaration # Absent =>
      LET p == sprints[s].declaration
      IN LivePost(p) /\ posts[p].declares /\ posts[p].sprint = s

\* An event that names a day is linked, if at all, to the post of that day: it is
\* written after the change, and ids of posts come back.
LogNamesItsPost ==
  ~overlap => \A e \in events :
    e.post # Absent /\ e.date # Absent => LivePost(e.post) /\ posts[e.post].date = e.date

\* What is published stays published, with its URL, until its post is deleted: no
\* draft or visual takes it back, though each writes the whole row it read.
PublishedStays ==
  [][\A key \in Keys :
       ~overlap /\ LiveTier(key) /\ tiers[key].status = "published" =>
         \/ tiers'[key] = Absent
         \/ (tiers'[key].status = "published" /\ tiers'[key].url)]_vars

-----------------------------------------------------------------------------
(* What the comments in the code say and the code does not keep. *)

\* content.go:221: DeletePost "Records a career event."
DeletionIsRecorded ==
  \A r \in Requests :
    pc[r] = "answered" /\ call[r].op = "delete" => \E e \in events : e.kind = "post.deleted"

\* content.go:60: a declaration post "links back to its sprint", "so the sprint
\* knows which post announced it"; here of requests none of which lost its context.
DeclarationsAreLinked ==
  Quiet /\ (\A r \in Requests : pc[r] \notin {"cut", "late"}) =>
    \A p \in PostIds :
      LivePost(p) /\ posts[p].declares /\ posts[p].sprint # Absent =>
        sprints[posts[p].sprint].declaration # Absent

=============================================================================
