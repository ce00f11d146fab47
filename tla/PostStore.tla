----------------------------- MODULE PostStore -----------------------------
(***************************************************************************)
(* The tables posts and post_tiers, what refers to them and what they      *)
(* refer to, and the statements of store/posts.go that write them.  Each   *)
(* operator is one statement or one transaction on the single connection.  *)
(*                                                                         *)
(* Of a sprint only what posts can see is here: whether it is the active   *)
(* one, and its column declaration_post_id.  Of a decision record, whether *)
(* it exists.  A post's type, title and source log are never read back by  *)
(* an operation and are left out.                                          *)
(***************************************************************************)
EXTENDS Naturals

CONSTANTS
  Requests,     \* the calls that ever reach the service layer
  PostIds,      \* bound: the post row ids the model has room for, 1..n
  SprintIds,    \* the sprints
  Dates,        \* the days posts are written for
  Tiers,        \* domain.AllTiers
  AdrIds,       \* the decision records
  Absent        \* no row, no value

ASSUME PostIdsAssumption == PostIds \subseteq Nat \ {0}

VARIABLES
  posts,        \* table posts: id -> row, or Absent
  tiers,        \* table post_tiers: <<post id, tier>> -> row, or Absent
  sprints,      \* table sprints: id -> what posts see of the row, or Absent
  adrs,         \* table adrs: the ids in it
  events        \* table career_events, its rows without their order

store == <<posts, tiers, sprints, adrs, events>>

TierStatuses == {"none", "drafted", "published"}

Post == [date : Dates, sprint : SprintIds \cup {Absent}, declares : BOOLEAN]

\* "draft" is the request whose text the content column holds.
TierRow == [status : TierStatuses, url : BOOLEAN, dated : BOOLEAN,
            draft : Requests \cup {Absent}, adr : AdrIds \cup {Absent}]

SprintRow == [active : BOOLEAN, declaration : PostIds \cup {Absent}]

ASSUME AbsentAssumption ==
  Absent \notin PostIds \cup SprintIds \cup AdrIds \cup Requests \cup Post \cup TierRow \cup SprintRow

EventKinds == {"post.created", "sprint.declared", "post.tier_drafted", "post.published",
               "post.visual_set", "post.deleted", "sprint.retro", "sprint.deleted", "adr.deleted"}

\* "date" is the day the summary names, Absent when it names none.
PostEvent == [kind : EventKinds, sprint : SprintIds \cup {Absent},
              post : PostIds \cup {Absent}, date : Dates \cup {Absent}]

Keys == PostIds \X Tiers

StoreTypeOK ==
  /\ posts \in [PostIds -> Post \cup {Absent}]
  /\ tiers \in [Keys -> TierRow \cup {Absent}]
  /\ sprints \in [SprintIds -> SprintRow \cup {Absent}]
  /\ adrs \subseteq AdrIds
  /\ events \subseteq PostEvent

\* No post yet; some sprints, at most one of them active, and some records.
StoreInit ==
  /\ posts = [id \in PostIds |-> Absent]
  /\ tiers = [key \in Keys |-> Absent]
  /\ \E current \in SprintIds \cup {Absent} :
       sprints = [id \in SprintIds |-> [active |-> id = current, declaration |-> Absent]]
  /\ adrs = AdrIds
  /\ events = {}

-----------------------------------------------------------------------------
(* Reading *)

LivePost(id) == posts[id] # Absent
LiveSprint(id) == sprints[id] # Absent
LiveTier(key) == tiers[key] # Absent

OfDate(id, date) == LivePost(id) /\ posts[id].date = date
NoneOfDate(date) == \A id \in PostIds : ~OfDate(id, date)

Current(id) == LiveSprint(id) /\ sprints[id].active
NoCurrent == \A id \in SprintIds : ~Current(id)

\* A reference is accepted when it is NULL or its row is there.
SprintRef(id) == id = Absent \/ LiveSprint(id)
PostRef(id) == id = Absent \/ LivePost(id)
AdrRef(id) == id = Absent \/ id \in adrs

-----------------------------------------------------------------------------
(* Writing *)

\* INTEGER PRIMARY KEY without AUTOINCREMENT.
NextPostId(id) ==
  /\ \A other \in PostIds : LivePost(other) => other < id
  /\ id = 1 \/ \E below \in PostIds : LivePost(below) /\ id = below + 1

\* ux_posts_date and the reference to the sprint.
NoDateIndex(row) == SprintRef(row.sprint)    \* mutant: the index was never created

PostAllowed(row) == NoneOfDate(row.date) /\ SprintRef(row.sprint)

NewTier == [status |-> "none", url |-> FALSE, dated |-> FALSE, draft |-> Absent, adr |-> Absent]

\* The post and its tiers, in one transaction.
InsertPost(id, row) ==
  /\ posts' = [posts EXCEPT ![id] = row]
  /\ tiers' = [key \in Keys |-> IF key[1] = id THEN NewTier ELSE tiers[key]]
  /\ UNCHANGED <<sprints, adrs, events>>

\* mutant: url is missing from the columns of the UPDATE
UpdateTierWithoutURL(key, row) ==
  /\ tiers' = [tiers EXCEPT ![key] = [row EXCEPT !.url = @ /\ tiers[key].url]]
  /\ UNCHANGED <<posts, sprints, adrs, events>>

UpdateTier(key, row) ==
  /\ tiers' = [tiers EXCEPT ![key] = row]
  /\ UNCHANGED <<posts, sprints, adrs, events>>

\* mutants: the tiers stay behind; the sprint keeps its link; the events keep theirs
DeletePostOnly(id) ==
  /\ posts' = [posts EXCEPT ![id] = Absent]
  /\ sprints' = [s \in SprintIds |->
       IF LiveSprint(s) /\ sprints[s].declaration = id
       THEN [sprints[s] EXCEPT !.declaration = Absent] ELSE sprints[s]]
  /\ events' = {IF e.post = id THEN [e EXCEPT !.post = Absent] ELSE e : e \in events}
  /\ UNCHANGED <<tiers, adrs>>

DeletePostKeepingLinks(id) ==
  /\ posts' = [posts EXCEPT ![id] = Absent]
  /\ tiers' = [key \in Keys |-> IF key[1] = id THEN Absent ELSE tiers[key]]
  /\ UNCHANGED <<sprints, adrs, events>>

\* The tiers, then the post; ON DELETE SET NULL for the declaration links and
\* the events that refer to it.
DeletePost(id) ==
  /\ posts' = [posts EXCEPT ![id] = Absent]
  /\ tiers' = [key \in Keys |-> IF key[1] = id THEN Absent ELSE tiers[key]]
  /\ sprints' = [s \in SprintIds |->
       IF LiveSprint(s) /\ sprints[s].declaration = id
       THEN [sprints[s] EXCEPT !.declaration = Absent] ELSE sprints[s]]
  /\ events' = {IF e.post = id THEN [e EXCEPT !.post = Absent] ELSE e : e \in events}
  /\ UNCHANGED adrs

UpdateUnchecked(id, row) == TRUE    \* mutant: foreign keys are switched off

\* The reference of declaration_post_id, looked at only if there is a row.
SprintAllowed(id, row) == LiveSprint(id) => PostRef(row.declaration)

UpdateSprint(id, row) ==
  /\ sprints' = IF LiveSprint(id) THEN [sprints EXCEPT ![id] = row] ELSE sprints
  /\ UNCHANGED <<posts, tiers, adrs, events>>

\* The sprint, and every reference to it.
DeleteSprint(id) ==
  /\ sprints' = [sprints EXCEPT ![id] = Absent]
  /\ posts' = [p \in PostIds |->
       IF LivePost(p) /\ posts[p].sprint = id
       THEN [posts[p] EXCEPT !.sprint = Absent] ELSE posts[p]]
  /\ events' = {IF e.sprint = id THEN [e EXCEPT !.sprint = Absent] ELSE e : e \in events}
  /\ UNCHANGED <<tiers, adrs>>

DeleteAdr(id) ==
  /\ adrs' = adrs \ {id}
  /\ tiers' = [key \in Keys |->
       IF LiveTier(key) /\ tiers[key].adr = id
       THEN [tiers[key] EXCEPT !.adr = Absent] ELSE tiers[key]]
  /\ UNCHANGED <<posts, sprints, events>>

\* An event with a reference to a row that is not there is lost.
AppendEvent(event) ==
  /\ events' = IF SprintRef(event.sprint) /\ PostRef(event.post)
               THEN events \cup {event} ELSE events
  /\ UNCHANGED <<posts, tiers, sprints, adrs>>

=============================================================================
