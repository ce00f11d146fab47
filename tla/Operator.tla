------------------------------ MODULE Operator ------------------------------
(***************************************************************************)
(* The operator's account, sessions, first-run wizard and blocks: tables   *)
(* users, sessions, onboarding_state, user_blocks and user_platforms, the  *)
(* statements of auth/service.go, onboarding/service.go and                *)
(* block/service.go, and the handlers of web/auth_handlers.go and          *)
(* web/onboarding_handlers.go that call them.                              *)
(*                                                                         *)
(* Every statement is a step of its own; any request may run between two   *)
(* of them, and a request may be cut off at any point.  Hashes, salts and  *)
(* cookie values are opaque: a stored hash is the password it was made     *)
(* from, a session's id is the request that opened it.  The role, the      *)
(* display name and the initials are only shown and are left out, and so   *)
(* are API keys, which no route makes.                                     *)
(***************************************************************************)
EXTENDS Naturals, FiniteSets

CONSTANTS
  Requests,     \* the calls that ever pass the router and the form's checks
  Earlier,      \* the session that is open when an established system is met
  UserIds,      \* bound: the user ids the model has room for, 1..n
  Admin,        \* "admin", the name a first-run setup gives
  Names,        \* the names a profile may be given
  Passwords,
  Age,          \* sessionMaxAge, in ticks
  MaxClock,     \* bound: the ticks the clock may make
  Keys,         \* the registry of blocks, numbered in its order
  Platforms,
  Operations,   \* the operations the callers use
  Modes,        \* may requests overlap: the cases to look at
  Absent        \* no row, no value

ASSUME IdsAssumption == UserIds \subseteq Nat \ {0} /\ 1 \in UserIds
ASSUME NamesAssumption == Admin \in Names
ASSUME ClockAssumption == Age \in Nat /\ MaxClock \in Nat
ASSUME KeysAssumption == Keys \subseteq Nat /\ Keys # {}
ASSUME ModesAssumption == Modes \subseteq BOOLEAN
ASSUME EarlierAssumption == Earlier \notin Requests

VARIABLES
  users,        \* table users: id -> row, or Absent
  sessions,     \* table sessions: id -> row, or Absent
  wizard,       \* table onboarding_state: user -> status, or Absent
  blocks,       \* table user_blocks: user -> the keys that are enabled
  platforms,    \* table user_platforms: user -> the platforms chosen
  clock,        \* now()
  overlap,      \* may a request arrive while another is being served?
  pc,           \* request -> the statement it makes next, or how it ended
  call,         \* request -> what was asked
  who,          \* request -> the user it has found, or Absent
  todo          \* request -> the keys or platforms it still has to write

store == <<users, sessions, wizard, blocks, platforms>>
vars == <<users, sessions, wizard, blocks, platforms, clock, overlap, pc, call, who, todo>>

Statuses == {"pending", "role_done", "blocks_done", "complete"}
SessionIds == Requests \cup {Earlier}
User == [name : Names, password : Passwords]
Session == [user : UserIds, password : Passwords, expires : Nat, seen : Nat]

Calls ==
  [op : {"setup"}, password : Passwords]
  \cup [op : {"login"}, name : Names, password : Passwords]
  \cup [op : {"logout", "use", "role", "confirm"}, session : SessionIds]
  \cup [op : {"profile"}, session : SessionIds, name : Names]
  \cup [op : {"password"}, session : SessionIds, old : Passwords, new : Passwords]
  \cup [op : {"blocks"}, session : SessionIds, keys : SUBSET Keys \ {{}}, on : SUBSET Platforms]
  \cup [op : {"toggle"}, session : SessionIds, key : Keys]

ASSUME AbsentAssumption ==
  Absent \notin User \cup Session \cup Statuses \cup UserIds \cup Calls

Opens(c) == c.op \in {"setup", "login"}

\* Behind requireAuth, and asking for the session once more.
AsksTwice(c) == c.op \in {"profile", "password", "toggle"}
Chooses(c) == c.op \in {"blocks", "toggle"}

Steps == {"count", "adduser", "lookup", "open", "validate", "bump", "revalidate", "rebump", "purge",
          "close", "rename", "getuser", "getpass", "setpass", "endothers", "role", "block", "clear",
          "platform", "chosen", "getstate", "addstate", "complete", "isenabled", "setblock"}
Ends == {"answered", "refused", "cut", "partial"}

InFlight(r) == pc[r] \in Steps
Quiet == \A r \in Requests : ~InFlight(r)

\* It has changed what it was asked to change, or some of it.
Written(r) ==
  \/ pc[r] \in {"getuser", "endothers", "clear", "platform", "chosen"}
  \/ pc[r] = "block" /\ todo[r] # Keys
  \/ pc[r] \in {"lookup", "open"} /\ call[r].op = "setup"
  \/ pc[r] \in {"getstate", "addstate"} /\ call[r].op = "login"

\* What a handler is doing, and has in hand, at each of its steps.
Ready(r) ==
  LET at == pc[r]
      c == call[r]
  IN /\ at # "idle" => c \in Calls
     /\ at \in {"count", "adduser"} => c.op = "setup"
     /\ at \in {"lookup", "open"} => Opens(c)
     /\ at \in {"validate", "bump", "purge"} => ~Opens(c) /\ c.op # "logout"
     /\ at \in {"revalidate", "rebump"} => AsksTwice(c)
     /\ at = "close" => c.op = "logout"
     /\ at \in {"rename", "getuser"} => c.op = "profile"
     /\ at \in {"getpass", "setpass", "endothers"} => c.op = "password"
     /\ at = "role" => c.op = "role"
     /\ at \in {"block", "clear", "platform", "chosen"} => c.op = "blocks"
     /\ at = "complete" => c.op = "confirm"
     /\ at \in {"getstate", "addstate"} => c.op \in {"login", "confirm"}
     /\ at \in {"isenabled", "setblock"} => c.op = "toggle"
     /\ at \in Steps \ {"count", "adduser", "lookup", "validate", "purge", "close"} =>
          who[r] \in UserIds
     /\ at \in {"block", "setblock"} => todo[r] \subseteq Keys
     /\ at = "platform" => todo[r] \subseteq Platforms

\* The tables and every handler's local state have the shape the code gives
\* them, and no handler gets past the session check without a user.
TypeOK ==
  /\ users \in [UserIds -> User \cup {Absent}]
  /\ sessions \in [SessionIds -> Session \cup {Absent}]
  /\ wizard \in [UserIds -> Statuses \cup {Absent}]
  /\ blocks \in [UserIds -> SUBSET Keys]
  /\ platforms \in [UserIds -> SUBSET Platforms]
  /\ clock \in Nat /\ overlap \in BOOLEAN
  /\ pc \in [Requests -> {"idle"} \cup Steps \cup Ends]
  /\ call \in [Requests -> Calls \cup {Absent}]
  /\ who \in [Requests -> UserIds \cup {Absent}]
  /\ todo \in [Requests -> SUBSET (Keys \cup Platforms)]
  /\ \A r \in Requests : Ready(r)

LiveUser(u) == users[u] # Absent
LiveSession(s) == sessions[s] # Absent
NewSession(u, password) == [user |-> u, password |-> password, expires |-> clock + Age, seen |-> clock]

\* A new installation, or one that was set up and logged in to some time ago,
\* with the wizard left anywhere.
Fresh ==
  /\ users = [u \in UserIds |-> Absent]
  /\ sessions = [s \in SessionIds |-> Absent]
  /\ wizard = [u \in UserIds |-> Absent]

Established ==
  \E password \in Passwords, status \in Statuses \cup {Absent} :
    /\ users = [u \in UserIds |-> IF u = 1 THEN [name |-> Admin, password |-> password] ELSE Absent]
    /\ sessions = [s \in SessionIds |-> IF s = Earlier THEN NewSession(1, password) ELSE Absent]
    /\ wizard = [u \in UserIds |-> IF u = 1 THEN status ELSE Absent]

Init ==
  /\ clock = 0
  /\ Fresh \/ Established
  /\ overlap \in Modes
  /\ blocks = [u \in UserIds |-> {}] /\ platforms = [u \in UserIds |-> {}]
  /\ pc = [r \in Requests |-> "idle"]
  /\ call = [r \in Requests |-> Absent]
  /\ who = [r \in Requests |-> Absent]
  /\ todo = [r \in Requests |-> {}]

-----------------------------------------------------------------------------
(* Control *)

Goto(r, step) == pc' = [pc EXCEPT ![r] = step]
Continue(r, step) == Goto(r, step) /\ UNCHANGED <<clock, overlap, call, who, todo>>
Find(r, user, step) ==
  who' = [who EXCEPT ![r] = user] /\ Goto(r, step) /\ UNCHANGED <<clock, overlap, call, todo>>
Carry(r, rest, step) ==
  todo' = [todo EXCEPT ![r] = rest] /\ Goto(r, step) /\ UNCHANGED <<clock, overlap, call, who>>

\* The goroutine ends and its locals with it.
End(r, how) ==
  /\ Goto(r, how)
  /\ who' = [who EXCEPT ![r] = Absent]
  /\ todo' = [todo EXCEPT ![r] = {}]
  /\ UNCHANGED <<clock, overlap, call>>

Refuse(r) == End(r, IF Written(r) THEN "partial" ELSE "refused") /\ UNCHANGED store

FirstStep(c) ==
  CASE c.op = "setup" -> "count" [] c.op = "login" -> "lookup" [] c.op = "logout" -> "close"
    [] OTHER -> "validate"

\* The first statement behind the session checks.
WorkStep(c) ==
  CASE c.op = "profile" -> "rename" [] c.op = "password" -> "getpass" [] c.op = "toggle" -> "isenabled"
    [] c.op = "role" -> "role" [] c.op = "blocks" -> "block" [] c.op = "confirm" -> "getstate"
    [] OTHER -> "answered"

\* A browser has the cookie of a session when it was told so.
Opened(s) == s \in Requests => pc[s] = "answered" /\ Opens(call[s])

Arrive(r, c) ==
  /\ pc[r] = "idle"
  /\ c.op \in Operations
  /\ overlap \/ Quiet
  /\ ~Opens(c) => Opened(c.session)
  /\ Goto(r, FirstStep(c))
  /\ call' = [call EXCEPT ![r] = c]
  /\ UNCHANGED <<store, clock, overlap, who, todo>>

\* The browser leaves or the process dies.
Interrupt(r) ==
  InFlight(r) /\ End(r, IF Written(r) THEN "partial" ELSE "cut") /\ UNCHANGED store

Tick ==
  /\ clock < MaxClock
  /\ clock' = clock + 1
  /\ UNCHANGED <<store, overlap, pc, call, who, todo>>

-----------------------------------------------------------------------------
(* Set-up, log-in and log-out *)

NoUser == \A u \in UserIds : ~LiveUser(u)

\* SetupAdmin's count; the two that come before it, in the middleware and in the
\* handler, can only refuse what it refuses, as users are never deleted.
CountUsers(r) ==
  /\ pc[r] = "count"
  /\ IF NoUser THEN Continue(r, "adduser") /\ UNCHANGED store ELSE Refuse(r)

\* mutant: names need not differ
AnyName(u, name) == TRUE

\* users.username is UNIQUE.
NameFree(u, name) == \A other \in UserIds \ {u} : LiveUser(other) => users[other].name # name

NextUser(u) == ~LiveUser(u) /\ \A v \in UserIds : v < u <=> LiveUser(v)

AddUser(r) ==
  /\ pc[r] = "adduser"
  /\ IF NameFree(Absent, Admin)
     THEN /\ \E u \in UserIds :
               NextUser(u) /\ users' = [users EXCEPT ![u] = [name |-> Admin, password |-> call[r].password]]
          /\ Continue(r, "lookup")
          /\ UNCHANGED <<sessions, wizard, blocks, platforms>>
     ELSE Refuse(r)

Matching(c) ==
  {u \in UserIds : LiveUser(u) /\ users[u] = [name |-> IF c.op = "setup" THEN Admin ELSE c.name,
                                              password |-> c.password]}

Lookup(r) ==
  /\ pc[r] = "lookup"
  /\ IF Matching(call[r]) = {} THEN Refuse(r)
     ELSE UNCHANGED store /\ \E u \in Matching(call[r]) : Find(r, u, "open")

OpenSession(r) ==
  /\ pc[r] = "open"
  /\ sessions' = [sessions EXCEPT ![r] = NewSession(who[r], call[r].password)]
  /\ IF call[r].op = "setup" THEN End(r, "answered") ELSE Continue(r, "getstate")
  /\ UNCHANGED <<users, wizard, blocks, platforms>>

CloseSession(r) ==
  /\ pc[r] = "close"
  /\ sessions' = [sessions EXCEPT ![call[r].session] = Absent]
  /\ End(r, "answered")
  /\ UNCHANGED <<users, wizard, blocks, platforms>>

-----------------------------------------------------------------------------
(* ValidateSession *)

Validate(r) ==
  LET s == call[r].session
      again == pc[r] = "revalidate"
  IN /\ pc[r] \in {"validate", "revalidate"}
     /\ \/ ~LiveSession(s) /\ Refuse(r)
        \/ /\ LiveSession(s) /\ UNCHANGED store
           /\ IF clock > sessions[s].expires THEN Continue(r, "purge")
              ELSE Find(r, sessions[s].user, IF again THEN "rebump" ELSE "bump")

Purge(r) ==
  /\ pc[r] = "purge"
  /\ sessions' = [sessions EXCEPT ![call[r].session] = Absent]
  /\ End(r, "refused")
  /\ UNCHANGED <<users, wizard, blocks, platforms>>

StartWork(r) ==
  LET step == WorkStep(call[r])
  IN IF step = "answered" THEN End(r, "answered")
     ELSE Carry(r, IF step = "block" THEN Keys ELSE {}, step)

\* mutant: a row is written whether there is one or not
SeenOrMade(r) ==
  [sessions EXCEPT ![call[r].session] = NewSession(who[r], users[who[r]].password)]

Seen(r) ==
  LET s == call[r].session
  IN IF LiveSession(s) THEN [sessions EXCEPT ![s].seen = clock] ELSE sessions

Bump(r) ==
  /\ pc[r] \in {"bump", "rebump"}
  /\ sessions' = Seen(r)
  /\ IF pc[r] = "bump" /\ AsksTwice(call[r]) THEN Continue(r, "revalidate") ELSE StartWork(r)
  /\ UNCHANGED <<users, wizard, blocks, platforms>>

-----------------------------------------------------------------------------
(* Profile and password *)

Rename(r) ==
  /\ pc[r] = "rename"
  /\ IF NameFree(who[r], call[r].name)
     THEN /\ users' = [users EXCEPT ![who[r]].name = call[r].name]
          /\ Continue(r, "getuser")
          /\ UNCHANGED <<sessions, wizard, blocks, platforms>>
     ELSE Refuse(r)

GetUser(r) == pc[r] = "getuser" /\ End(r, "answered") /\ UNCHANGED store

CheckPassword(r) ==
  /\ pc[r] = "getpass"
  /\ IF users[who[r]].password = call[r].old /\ call[r].old # call[r].new
     THEN Continue(r, "setpass") /\ UNCHANGED store
     ELSE Refuse(r)

SetPassword(r) ==
  /\ pc[r] = "setpass"
  /\ users' = [users EXCEPT ![who[r]].password = call[r].new]
  /\ Continue(r, "endothers")
  /\ UNCHANGED <<sessions, wizard, blocks, platforms>>

\* mutant: the comparison with the own session is the wrong way round
OwnSession(r, s) == LiveSession(s) /\ sessions[s].user = who[r] /\ s = call[r].session

OtherSession(r, s) == LiveSession(s) /\ sessions[s].user = who[r] /\ s # call[r].session

EndOthers(r) ==
  /\ pc[r] = "endothers"
  /\ sessions' = [s \in SessionIds |-> IF OtherSession(r, s) THEN Absent ELSE sessions[s]]
  /\ End(r, "answered")
  /\ UNCHANGED <<users, wizard, blocks, platforms>>

-----------------------------------------------------------------------------
(* The wizard: its state row is made by the first log-in or confirmation. *)

\* An UPDATE, which does nothing when there is no row.
Advance(u, status) == IF wizard[u] = Absent THEN wizard ELSE [wizard EXCEPT ![u] = status]

SubmitRole(r) ==
  /\ pc[r] = "role"
  /\ wizard' = Advance(who[r], "role_done")
  /\ End(r, "answered")
  /\ UNCHANGED <<users, sessions, blocks, platforms>>

\* What State found goes to the log-in, which asks no more, or to Complete.
Proceed(r) == IF call[r].op = "login" THEN End(r, "answered") ELSE Continue(r, "complete")

GetState(r) ==
  LET status == wizard[who[r]]
  IN /\ pc[r] = "getstate"
     /\ \/ status = Absent /\ Continue(r, "addstate") /\ UNCHANGED store
        \/ status # Absent /\ (call[r].op = "confirm" => status # "complete") /\ Proceed(r) /\ UNCHANGED store
        \/ status = "complete" /\ call[r].op = "confirm" /\ Refuse(r)

\* mutant: INSERT OR REPLACE
NoStateYet(u) == TRUE

StateFree(u) == wizard[u] = Absent

AddState(r) ==
  /\ pc[r] = "addstate"
  /\ \/ /\ StateFree(who[r])
        /\ wizard' = [wizard EXCEPT ![who[r]] = "pending"]
        /\ Proceed(r)
        /\ UNCHANGED <<users, sessions, blocks, platforms>>
     \/ ~StateFree(who[r]) /\ call[r].op = "confirm" /\ Refuse(r)
     \/ ~StateFree(who[r]) /\ call[r].op = "login" /\ Proceed(r) /\ UNCHANGED store

Complete(r) ==
  /\ pc[r] = "complete"
  /\ wizard' = Advance(who[r], "complete")
  /\ End(r, "answered")
  /\ UNCHANGED <<users, sessions, blocks, platforms>>

-----------------------------------------------------------------------------
(* Blocks and platforms *)

\* mutant: the blocks that were not selected are left as they are
EnableOnly(enabled, key, on) == IF on THEN enabled \cup {key} ELSE enabled

\* INSERT ... ON CONFLICT DO UPDATE.
Switch(enabled, key, on) == IF on THEN enabled \cup {key} ELSE enabled \ {key}

\* block.SetBlocks: one statement for each entry of the registry, in its order.
SetBlocks(r) ==
  LET c == call[r]
      AfterBlocks == IF c.on = {} THEN "chosen" ELSE "clear"
  IN /\ pc[r] = "block"
     /\ \E key \in todo[r] :
          /\ \A other \in todo[r] : key <= other
          /\ blocks' = [blocks EXCEPT ![who[r]] = Switch(@, key, key \in c.keys)]
          /\ Carry(r, todo[r] \ {key}, IF todo[r] = {key} THEN AfterBlocks ELSE "block")
     /\ UNCHANGED <<users, sessions, wizard, platforms>>

ClearPlatforms(r) ==
  /\ pc[r] = "clear"
  /\ platforms' = [platforms EXCEPT ![who[r]] = {}]
  /\ Carry(r, call[r].on, "platform")
  /\ UNCHANGED <<users, sessions, wizard, blocks>>

\* One that is there already ends the loop; the handler drops the error.
PutPlatform(r) ==
  /\ pc[r] = "platform"
  /\ \E p \in todo[r] :
       IF p \in platforms[who[r]] THEN Continue(r, "chosen") /\ UNCHANGED platforms
       ELSE /\ platforms' = [platforms EXCEPT ![who[r]] = @ \cup {p}]
            /\ Carry(r, todo[r] \ {p}, IF todo[r] = {p} THEN "chosen" ELSE "platform")
  /\ UNCHANGED <<users, sessions, wizard, blocks>>

SubmitBlocks(r) ==
  /\ pc[r] = "chosen"
  /\ wizard' = Advance(who[r], "blocks_done")
  /\ End(r, "answered")
  /\ UNCHANGED <<users, sessions, blocks, platforms>>

\* Toggle: todo is the set of what it is going to enable.
ReadBlock(r) ==
  /\ pc[r] = "isenabled"
  /\ Carry(r, {call[r].key} \ blocks[who[r]], "setblock")
  /\ UNCHANGED store

SetBlock(r) ==
  LET key == call[r].key
  IN /\ pc[r] = "setblock"
     /\ blocks' = [blocks EXCEPT ![who[r]] = Switch(@, key, key \in todo[r])]
     /\ End(r, "answered")
     /\ UNCHANGED <<users, sessions, wizard, platforms>>

-----------------------------------------------------------------------------
Work(r) ==
  \/ CountUsers(r) \/ AddUser(r) \/ Lookup(r) \/ OpenSession(r) \/ CloseSession(r)
  \/ Validate(r) \/ Purge(r) \/ Bump(r)
  \/ Rename(r) \/ GetUser(r) \/ CheckPassword(r) \/ SetPassword(r) \/ EndOthers(r)
  \/ SubmitRole(r) \/ GetState(r) \/ AddState(r) \/ Complete(r)
  \/ SetBlocks(r) \/ ClearPlatforms(r) \/ PutPlatform(r) \/ SubmitBlocks(r)
  \/ ReadBlock(r) \/ SetBlock(r)

Next == Tick \/ \E r \in Requests : (\E c \in Calls : Arrive(r, c)) \/ Work(r) \/ Interrupt(r)

Spec == Init /\ [][Next]_vars

-----------------------------------------------------------------------------
(* Whether requests overlap or not. *)

\* A session that has ended does not come back: only a log-in makes one, though
\* requests that passed the check go on to write last_seen_at after it is gone.
EndedStaysEnded ==
  [][\A s \in SessionIds :
       ~LiveSession(s) /\ LiveSession(s)' => s \in Requests /\ pc[s] = "open"]_vars

Renamed(r) == call[r] # Absent /\ call[r].op = "profile" /\ (pc[r] = "getuser" \/ pc[r] \in {"answered", "partial"})

\* "Single operator account" (README.md): a second set-up, begun before the first
\* has inserted its user, makes no second user - unless it sleeps so long that the
\* first user has meanwhile been given another name.
OneOperator ==
  (\A r \in Requests : ~Renamed(r)) =>
    \A u, v \in UserIds : LiveUser(u) /\ LiveUser(v) => u = v

\* The row that is made when none is found never takes back what a wizard step
\* has written in between.
ProgressIsKept ==
  [][\A u \in UserIds : wizard[u] \notin {Absent, "pending"} => wizard'[u] \notin {Absent, "pending"}]_vars

-----------------------------------------------------------------------------
(* When requests do not overlap. *)

Alone == ~overlap /\ Quiet

\* After a password change the sessions opened with an older password are gone,
\* but for those that made a change; a change that was cut off may leave them.
OldSessionsEnd ==
  Alone /\ (\A r \in Requests : pc[r] # "partial") =>
    \A s \in SessionIds :
      LiveSession(s) =>
        \/ sessions[s].password = users[sessions[s].user].password
        \/ \E r \in Requests :
             pc[r] = "answered" /\ call[r].op = "password" /\ call[r].session = s

\* The enabled blocks are those of one submission, not a mix of two or a part of
\* one, and so are the platforms, which a submission without any leaves as they were;
\* a submission that was cut off, and a toggle, may leave a mix.
ChoiceIsWhole ==
  Alone /\ (\A r \in Requests : pc[r] # "partial" /\ (call[r] # Absent => call[r].op # "toggle")) =>
    \A u \in UserIds :
      \/ blocks[u] = {} /\ platforms[u] = {}
      \/ \E q, r \in Requests :
           /\ call[q] # Absent /\ call[q].op = "blocks" /\ blocks[u] = call[q].keys
           /\ call[r] # Absent /\ call[r].op = "blocks" /\ platforms[u] = call[r].on

=============================================================================
