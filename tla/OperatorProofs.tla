--------------------------- MODULE OperatorProofs ---------------------------
(***************************************************************************)
(* Theorems about Operator, for any number of requests, users, names,      *)
(* passwords, blocks and platforms, however far the clock may go and       *)
(* whether requests overlap or not.                                        *)
(***************************************************************************)
EXTENDS Operator, TLAPS

(***************************************************************************)
(* What the fields of a request are, operation by operation.               *)
(***************************************************************************)
LEMMA CallFields ==
  ASSUME NEW c \in Calls
  PROVE  /\ c.op \in {"setup", "login", "logout", "use", "role", "confirm", "profile", "password",
                      "blocks", "toggle"}
         /\ Opens(c) => c.password \in Passwords
         /\ ~Opens(c) => c.session \in SessionIds
         /\ c.op = "profile" => c.name \in Names
         /\ c.op = "password" => c.new \in Passwords
         /\ c.op = "blocks" => c.keys \subseteq Keys /\ c.on \subseteq Platforms
         /\ c.op = "toggle" => c.key \in Keys
  BY DEF Calls, Opens

StoreTypeOK ==
  /\ users \in [UserIds -> User \cup {Absent}]
  /\ sessions \in [SessionIds -> Session \cup {Absent}]
  /\ wizard \in [UserIds -> Statuses \cup {Absent}]
  /\ blocks \in [UserIds -> SUBSET Keys]
  /\ platforms \in [UserIds -> SUBSET Platforms]

LocalTypeOK ==
  /\ clock \in Nat /\ overlap \in BOOLEAN
  /\ pc \in [Requests -> {"idle"} \cup Steps \cup Ends]
  /\ call \in [Requests -> Calls \cup {Absent}]
  /\ who \in [Requests -> UserIds \cup {Absent}]
  /\ todo \in [Requests -> SUBSET (Keys \cup Platforms)]

(***************************************************************************)
(* Type correctness alone is not inductive: a handler writes to the row of *)
(* a user it found earlier, which must be there.                           *)
(***************************************************************************)
UsersLive ==
  /\ \A s \in SessionIds : LiveSession(s) => LiveUser(sessions[s].user)
  /\ \A r \in Requests : who[r] # Absent => LiveUser(who[r])

TypeInv == TypeOK /\ UsersLive

(***************************************************************************)
(* What one step can do to the tables, and with what in hand.              *)
(***************************************************************************)
PutsUser(u, user) ==
  /\ users' = [users EXCEPT ![u] = user]
  /\ UNCHANGED <<sessions, wizard, blocks, platforms>>

AddsUser(u, user) ==
  /\ NextUser(u) /\ NameFree(Absent, Admin) /\ user.name = Admin /\ PutsUser(u, user)

Renames(u, user) ==
  /\ LiveUser(u) /\ NameFree(u, user.name) /\ PutsUser(u, user)
  /\ \E r \in Requests : Renamed(r)'

KeepsName(u, user) == LiveUser(u) /\ user.name = users[u].name /\ PutsUser(u, user)

OpensSession(s, session) ==
  /\ s \in Requests /\ pc[s] = "open" /\ LiveUser(session.user)
  /\ sessions' = [sessions EXCEPT ![s] = session]
  /\ UNCHANGED <<users, wizard, blocks, platforms>>

\* Sessions end, or are marked as seen.
TouchesSessions ==
  /\ sessions' \in [SessionIds -> Session \cup {Absent}]
  /\ \A s \in SessionIds :
       sessions'[s] # Absent => sessions[s] # Absent /\ sessions'[s].user = sessions[s].user
  /\ UNCHANGED <<users, wizard, blocks, platforms>>

Advances(u, status) ==
  wizard' = Advance(u, status) /\ UNCHANGED <<users, sessions, blocks, platforms>>

Begins(u) ==
  /\ StateFree(u) /\ wizard' = [wizard EXCEPT ![u] = "pending"]
  /\ UNCHANGED <<users, sessions, blocks, platforms>>

Configures ==
  /\ blocks' \in [UserIds -> SUBSET Keys]
  /\ platforms' \in [UserIds -> SUBSET Platforms]
  /\ UNCHANGED <<users, sessions, wizard>>

StoreStep ==
  \/ UNCHANGED store
  \/ \E u \in UserIds, user \in User : AddsUser(u, user) \/ Renames(u, user) \/ KeepsName(u, user)
  \/ \E s \in Requests, session \in Session : OpensSession(s, session)
  \/ TouchesSessions
  \/ \E u \in UserIds, status \in {"role_done", "blocks_done", "complete"} : Advances(u, status)
  \/ \E u \in UserIds : Begins(u)
  \/ Configures

(***************************************************************************)
(* A handler past the session check works for a user that is there.        *)
(***************************************************************************)
LEMMA WhoLive ==
  ASSUME TypeInv, NEW r \in Requests,
         pc[r] \in Steps \ {"count", "adduser", "lookup", "validate", "purge", "close"}
  PROVE  who[r] \in UserIds /\ LiveUser(who[r]) /\ users[who[r]] \in User
<1>1. who[r] \in UserIds
  BY DEF TypeInv, TypeOK, Ready
<1>2. who[r] # Absent
  BY <1>1, AbsentAssumption
<1> QED
  BY <1>1, <1>2 DEF TypeInv, TypeOK, UsersLive, LiveUser

LEMMA NewSessionType ==
  ASSUME clock \in Nat, NEW u \in UserIds, NEW password \in Passwords
  PROVE  /\ NewSession(u, password) \in Session
         /\ NewSession(u, password).user = u
<1>1. clock + Age \in Nat
  BY ClockAssumption
<1> QED
  BY <1>1 DEF NewSession, Session

LEMMA SessionNotAbsent == Absent \notin Session /\ Absent \notin User /\ Absent \notin Statuses
  BY AbsentAssumption

(***************************************************************************)
(* Statement by statement.                                                 *)
(***************************************************************************)
LEMMA UserSteps ==
  ASSUME TypeInv, NEW r \in Requests, AddUser(r) \/ Rename(r) \/ SetPassword(r), ~Refuse(r)
  PROVE  StoreStep
<1>1. CASE AddUser(r)
  <2> DEFINE user == [name |-> Admin, password |-> call[r].password]
  <2>1. call[r].password \in Passwords
    BY <1>1, CallFields DEF AddUser, TypeInv, TypeOK, Ready, Opens
  <2>2. user \in User
    BY <2>1, NamesAssumption DEF User
  <2>3. PICK u \in UserIds : NextUser(u) /\ users' = [users EXCEPT ![u] = user]
    BY <1>1 DEF AddUser
  <2>4. AddsUser(u, user)
    BY <1>1, <2>3 DEF AddUser, AddsUser, PutsUser
  <2> QED
    BY <2>2, <2>4 DEF StoreStep
<1>2. CASE Rename(r)
  <2> DEFINE user == [users[who[r]] EXCEPT !.name = call[r].name]
  <2>1. who[r] \in UserIds /\ LiveUser(who[r]) /\ users[who[r]] \in User
    BY <1>2, WhoLive DEF Rename, Steps
  <2>2. call[r] \in Calls /\ call[r].op = "profile" /\ call[r].name \in Names
    BY <1>2, CallFields DEF Rename, TypeInv, TypeOK, Ready
  <2>3. user \in User /\ user.name = call[r].name
    BY <2>1, <2>2 DEF User
  <2>4. PutsUser(who[r], user) /\ NameFree(who[r], call[r].name) /\ Continue(r, "getuser")
    BY <1>2 DEF Rename, PutsUser
  <2>5. Renamed(r)'
    <3>1. pc'[r] = "getuser" /\ call'[r] = call[r]
      BY <2>4 DEF Continue, Goto, TypeInv, TypeOK
    <3> QED
      BY <2>2, <3>1, AbsentAssumption DEF Renamed
  <2>6. Renames(who[r], user)
    BY <2>1, <2>3, <2>4, <2>5 DEF Renames
  <2> QED
    BY <2>1, <2>3, <2>6 DEF StoreStep
<1>3. CASE SetPassword(r)
  <2> DEFINE user == [users[who[r]] EXCEPT !.password = call[r].new]
  <2>1. who[r] \in UserIds /\ LiveUser(who[r]) /\ users[who[r]] \in User
    BY <1>3, WhoLive DEF SetPassword, Steps
  <2>2. call[r].new \in Passwords
    BY <1>3, CallFields DEF SetPassword, TypeInv, TypeOK, Ready
  <2>3. user \in User /\ user.name = users[who[r]].name
    BY <2>1, <2>2 DEF User
  <2>4. KeepsName(who[r], user)
    BY <1>3, <2>1, <2>3 DEF SetPassword, KeepsName, PutsUser
  <2> QED
    BY <2>1, <2>3, <2>4 DEF StoreStep
<1> QED
  BY <1>1, <1>2, <1>3

LEMMA SessionSteps ==
  ASSUME TypeInv, NEW r \in Requests,
         OpenSession(r) \/ CloseSession(r) \/ Purge(r) \/ Bump(r) \/ EndOthers(r)
  PROVE  StoreStep
<1>1. CASE OpenSession(r)
  <2>1. who[r] \in UserIds /\ LiveUser(who[r])
    BY <1>1, WhoLive DEF OpenSession, Steps
  <2>2. call[r].password \in Passwords
    BY <1>1, CallFields DEF OpenSession, TypeInv, TypeOK, Ready
  <2>3. NewSession(who[r], call[r].password) \in Session
        /\ NewSession(who[r], call[r].password).user = who[r]
    BY <2>1, <2>2, NewSessionType DEF TypeInv, TypeOK
  <2>4. OpensSession(r, NewSession(who[r], call[r].password))
    BY <1>1, <2>1, <2>3 DEF OpenSession, OpensSession
  <2> QED
    BY <2>3, <2>4 DEF StoreStep
<1>2. CASE CloseSession(r) \/ Purge(r)
  <2>1. TouchesSessions
    BY <1>2 DEF CloseSession, Purge, TouchesSessions, TypeInv, TypeOK
  <2> QED
    BY <2>1 DEF StoreStep
<1>3. CASE Bump(r)
  <2>1. Seen(r) \in [SessionIds -> Session \cup {Absent}]
    BY DEF Seen, TypeInv, TypeOK, Session, LiveSession
  <2>2. \A s \in SessionIds :
          Seen(r)[s] # Absent => sessions[s] # Absent /\ Seen(r)[s].user = sessions[s].user
    BY DEF Seen, TypeInv, TypeOK, Session, LiveSession
  <2>3. TouchesSessions
    BY <1>3, <2>1, <2>2 DEF Bump, TouchesSessions
  <2> QED
    BY <2>3 DEF StoreStep
<1>4. CASE EndOthers(r)
  <2>1. TouchesSessions
    BY <1>4 DEF EndOthers, TouchesSessions, TypeInv, TypeOK
  <2> QED
    BY <2>1 DEF StoreStep
<1> QED
  BY <1>1, <1>2, <1>3, <1>4

LEMMA WizardSteps ==
  ASSUME TypeInv, NEW r \in Requests, ~Refuse(r),
         \/ SubmitRole(r) \/ AddState(r) \/ Complete(r) \/ SubmitBlocks(r)
         \/ SetBlocks(r) \/ ClearPlatforms(r) \/ PutPlatform(r) \/ SetBlock(r)
  PROVE  StoreStep
<1>1. who[r] \in UserIds
  BY WhoLive DEF SubmitRole, AddState, Complete, SubmitBlocks, SetBlocks, ClearPlatforms, PutPlatform,
     SetBlock, Steps
<1>2. CASE SubmitRole(r) \/ Complete(r) \/ SubmitBlocks(r)
  <2>1. \E status \in {"role_done", "blocks_done", "complete"} : Advances(who[r], status)
    BY <1>2 DEF SubmitRole, Complete, SubmitBlocks, Advances
  <2> QED
    BY <1>1, <2>1 DEF StoreStep
<1>3. CASE AddState(r)
  <2>1. Begins(who[r]) \/ UNCHANGED store
    BY <1>3 DEF AddState, Begins
  <2> QED
    BY <1>1, <2>1 DEF StoreStep
<1>4. CASE SetBlocks(r) \/ SetBlock(r)
  <2>1. ASSUME NEW key \in Keys, NEW on PROVE Switch(blocks[who[r]], key, on) \in SUBSET Keys
    BY <1>1 DEF Switch, TypeInv, TypeOK
  <2>2. SetBlocks(r) => todo[r] \subseteq Keys
    BY DEF SetBlocks, TypeInv, TypeOK, Ready
  <2>3. SetBlock(r) => call[r].key \in Keys
    BY CallFields DEF SetBlock, TypeInv, TypeOK, Ready
  <2>4. \E some \in SUBSET Keys : blocks' = [blocks EXCEPT ![who[r]] = some]
    <3>1. CASE SetBlocks(r)
      <4>1. PICK key \in todo[r] :
              blocks' = [blocks EXCEPT ![who[r]] = Switch(blocks[who[r]], key, key \in call[r].keys)]
        BY <3>1, <1>1 DEF SetBlocks, TypeInv, TypeOK
      <4> QED
        BY <3>1, <2>1, <2>2, <4>1
    <3>2. CASE SetBlock(r)
      <4>1. blocks' = [blocks EXCEPT ![who[r]] =
                         Switch(blocks[who[r]], call[r].key, call[r].key \in todo[r])]
        BY <3>2, <1>1 DEF SetBlock, TypeInv, TypeOK
      <4> QED
        BY <3>2, <2>1, <2>3, <4>1
    <3> QED
      BY <1>4, <3>1, <3>2
  <2>5. UNCHANGED <<users, sessions, wizard, platforms>>
    BY <1>4 DEF SetBlocks, SetBlock
  <2>6. Configures
    BY <1>1, <2>4, <2>5 DEF Configures, TypeInv, TypeOK
  <2> QED
    BY <2>6 DEF StoreStep
<1>5. CASE ClearPlatforms(r) \/ PutPlatform(r)
  <2>1. PutPlatform(r) => todo[r] \subseteq Platforms
    BY DEF PutPlatform, TypeInv, TypeOK, Ready
  <2>2. \/ UNCHANGED platforms
        \/ \E some \in SUBSET Platforms : platforms' = [platforms EXCEPT ![who[r]] = some]
    <3>1. CASE ClearPlatforms(r)
      BY <3>1 DEF ClearPlatforms
    <3>2. CASE PutPlatform(r)
      <4>1. PICK p \in todo[r] :
              \/ UNCHANGED platforms
              \/ platforms' = [platforms EXCEPT ![who[r]] = platforms[who[r]] \cup {p}]
        BY <3>2, <1>1 DEF PutPlatform, TypeInv, TypeOK
      <4>2. platforms[who[r]] \cup {p} \in SUBSET Platforms
        BY <1>1, <3>2, <2>1 DEF TypeInv, TypeOK
      <4> QED
        BY <4>1, <4>2
    <3> QED
      BY <1>5, <3>1, <3>2
  <2>3. UNCHANGED <<users, sessions, wizard, blocks>>
    BY <1>5 DEF ClearPlatforms, PutPlatform
  <2>4. Configures
    BY <1>1, <2>2, <2>3 DEF Configures, TypeInv, TypeOK
  <2> QED
    BY <2>4 DEF StoreStep
<1> QED
  BY <1>2, <1>3, <1>4, <1>5

LEMMA StoreSteps ==
  ASSUME TypeInv, [Next]_vars
  PROVE  StoreStep
<1>1. ASSUME NEW r \in Requests, Work(r) PROVE StoreStep
  <2>1. CASE Refuse(r)
    BY <2>1 DEF Refuse, StoreStep
  <2>2. CASE \/ CountUsers(r) \/ Lookup(r) \/ Validate(r) \/ GetUser(r) \/ CheckPassword(r)
             \/ GetState(r) \/ ReadBlock(r)
    BY <2>2 DEF CountUsers, Lookup, Validate, GetUser, CheckPassword, GetState, ReadBlock, Refuse,
       StoreStep
  <2> QED
    BY <1>1, <2>1, <2>2, UserSteps, SessionSteps, WizardSteps DEF Work
<1>2. CASE Tick \/ UNCHANGED vars
  BY <1>2 DEF Tick, vars, store, StoreStep
<1>3. CASE Next
  <2>1. CASE Tick
    BY <1>2, <2>1
  <2>2. CASE \E r \in Requests : (\E c \in Calls : Arrive(r, c)) \/ Work(r) \/ Interrupt(r)
    <3>1. PICK r \in Requests : (\E c \in Calls : Arrive(r, c)) \/ Work(r) \/ Interrupt(r)
      BY <2>2
    <3>2. CASE Work(r)
      BY <1>1, <3>2
    <3>3. CASE Interrupt(r) \/ \E c \in Calls : Arrive(r, c)
      BY <3>3 DEF Arrive, Interrupt, StoreStep
    <3> QED
      BY <3>1, <3>2, <3>3
  <2> QED
    BY <1>3, <2>1, <2>2 DEF Next
<1> QED
  BY <1>2, <1>3

(***************************************************************************)
(* The tables keep their shape, users stay, and sessions are of users.     *)
(***************************************************************************)
LEMMA StepTables ==
  ASSUME TypeInv, StoreStep
  PROVE  /\ StoreTypeOK'
         /\ \A u \in UserIds : LiveUser(u) => LiveUser(u)'
         /\ \A s \in SessionIds : LiveSession(s)' => LiveUser(sessions[s].user)'
<1> DEFINE Good == /\ StoreTypeOK'
                   /\ \A u \in UserIds : LiveUser(u) => LiveUser(u)'
                   /\ \A s \in SessionIds : LiveSession(s)' => LiveUser(sessions[s].user)'
<1>1. StoreTypeOK /\ UsersLive
  BY DEF TypeInv, TypeOK, StoreTypeOK
<1>2. \A s \in SessionIds : LiveSession(s) => sessions[s].user \in UserIds
  BY <1>1 DEF StoreTypeOK, LiveSession, Session
<1>3. CASE UNCHANGED store
  BY <1>1, <1>3 DEF store, StoreTypeOK, UsersLive, LiveUser, LiveSession
<1>4. ASSUME NEW u \in UserIds, NEW user \in User, PutsUser(u, user) PROVE Good
  <2>1. users' \in [UserIds -> User \cup {Absent}]
    BY <1>1, <1>4 DEF PutsUser, StoreTypeOK
  <2>2. \A v \in UserIds : LiveUser(v) => LiveUser(v)'
    BY <1>1, <1>4, SessionNotAbsent DEF PutsUser, StoreTypeOK, LiveUser
  <2>3. \A s \in SessionIds : LiveSession(s)' => LiveUser(sessions[s].user)'
    BY <1>1, <1>2, <1>4, <2>2 DEF PutsUser, UsersLive, LiveSession
  <2> QED
    BY <1>1, <1>4, <2>1, <2>2, <2>3 DEF PutsUser, StoreTypeOK
<1>5. ASSUME NEW s \in Requests, NEW session \in Session, OpensSession(s, session) PROVE Good
  <2>1. sessions' \in [SessionIds -> Session \cup {Absent}]
    BY <1>1, <1>5 DEF OpensSession, StoreTypeOK
  <2>2. \A u \in UserIds : LiveUser(u) => LiveUser(u)'
    BY <1>5 DEF OpensSession, LiveUser
  <2>3. \A x \in SessionIds : LiveSession(x)' => LiveUser(sessions[x].user)'
    BY <1>1, <1>5 DEF OpensSession, StoreTypeOK, UsersLive, LiveSession, LiveUser
  <2> QED
    BY <1>1, <1>5, <2>1, <2>2, <2>3 DEF OpensSession, StoreTypeOK
<1>6. CASE TouchesSessions
  BY <1>1, <1>6 DEF TouchesSessions, StoreTypeOK, UsersLive, LiveSession, LiveUser
<1>7. ASSUME NEW u \in UserIds, NEW status \in {"role_done", "blocks_done", "complete"}, Advances(u, status)
      PROVE  Good
  BY <1>1, <1>7 DEF Advances, Advance, Statuses, StoreTypeOK, UsersLive, LiveSession, LiveUser
<1>8. ASSUME NEW u \in UserIds, Begins(u) PROVE Good
  BY <1>1, <1>8 DEF Begins, Statuses, StoreTypeOK, UsersLive, LiveSession, LiveUser
<1>9. CASE Configures
  BY <1>1, <1>9 DEF Configures, StoreTypeOK, UsersLive, LiveSession, LiveUser
<1> QED
  BY <1>3, <1>4, <1>5, <1>6, <1>7, <1>8, <1>9 DEF StoreStep, AddsUser, Renames, KeepsName

(***************************************************************************)
(* A step of one handler leaves every other handler as ready as it was.    *)
(***************************************************************************)
LEMMA OthersReady ==
  ASSUME TypeOK, NEW r \in Requests,
         \A q \in Requests \ {r} : /\ pc'[q] = pc[q] /\ call'[q] = call[q]
                                   /\ who'[q] = who[q] /\ todo'[q] = todo[q],
         Ready(r)'
  PROVE  \A q \in Requests : Ready(q)'
<1>1. \A q \in Requests \ {r} : Ready(q)'
  BY DEF TypeOK, Ready
<1> QED
  BY <1>1

(***************************************************************************)
(* A handler that ends, goes on with what it has, has found its user or    *)
(* has something to write leaves all handlers as they should be if its     *)
(* next step finds what it needs.                                          *)
(***************************************************************************)
Handlers ==
  /\ LocalTypeOK
  /\ \A q \in Requests : Ready(q)

LEMMA EndReady ==
  ASSUME TypeOK, NEW r \in Requests, NEW how \in Ends, End(r, how), call[r] \in Calls
  PROVE  Handlers' /\ \A q \in Requests : who'[q] \in {who[q], Absent}
<1>1. LocalTypeOK'
  BY DEF TypeOK, LocalTypeOK, End, Goto
<1>2. Ready(r)'
  BY DEF TypeOK, Ready, End, Goto, Ends, Steps
<1> QED
  BY <1>1, <1>2, OthersReady DEF TypeOK, Handlers, End, Goto

LEMMA ContinueReady ==
  ASSUME TypeOK, NEW r \in Requests, NEW step \in Steps, Continue(r, step), Ready(r)'
  PROVE  Handlers' /\ \A q \in Requests : who'[q] \in {who[q], Absent}
<1>1. LocalTypeOK'
  BY DEF TypeOK, LocalTypeOK, Continue, Goto
<1> QED
  BY <1>1, OthersReady DEF TypeOK, Handlers, Continue, Goto

LEMMA FindReady ==
  ASSUME TypeOK, NEW r \in Requests, NEW u \in UserIds, NEW step \in Steps, Find(r, u, step), Ready(r)'
  PROVE  Handlers' /\ \A q \in Requests : who'[q] \in {who[q], Absent, u}
<1>1. LocalTypeOK'
  BY DEF TypeOK, LocalTypeOK, Find, Goto
<1> QED
  BY <1>1, OthersReady DEF TypeOK, Handlers, Find, Goto

LEMMA CarryReady ==
  ASSUME TypeOK, NEW r \in Requests, NEW rest \in SUBSET (Keys \cup Platforms), NEW step \in Steps,
         Carry(r, rest, step), Ready(r)'
  PROVE  Handlers' /\ \A q \in Requests : who'[q] \in {who[q], Absent}
<1>1. LocalTypeOK'
  BY DEF TypeOK, LocalTypeOK, Carry, Goto
<1> QED
  BY <1>1, OthersReady DEF TypeOK, Handlers, Carry, Goto

WhoFound ==
  \A q \in Requests : who'[q] \in {who[q], Absent} \cup {u \in UserIds : LiveUser(u)}

LEMMA Working ==
  ASSUME TypeOK, NEW r \in Requests, Work(r)
  PROVE  pc[r] \in Steps /\ call[r] \in Calls
<1>1. pc[r] \in Steps
  BY DEF Work, CountUsers, AddUser, Lookup, OpenSession, CloseSession, Validate, Purge, Bump, Rename,
     GetUser, CheckPassword, SetPassword, EndOthers, SubmitRole, GetState, AddState, Complete,
     SetBlocks, ClearPlatforms, PutPlatform, SubmitBlocks, ReadBlock, SetBlock, Steps
<1>2. pc[r] # "idle"
  BY <1>1 DEF Steps
<1> QED
  BY <1>1, <1>2 DEF TypeOK, Ready

(***************************************************************************)
(* Each action leaves every handler with what its next step needs.         *)
(***************************************************************************)
LEMMA StepHandlers ==
  ASSUME TypeInv, NEW r \in Requests, Work(r)
  PROVE  Handlers' /\ WhoFound
<1> DEFINE Good == Handlers' /\ WhoFound
<1>1. TypeOK /\ pc[r] \in Steps /\ call[r] \in Calls /\ Ready(r)
  BY Working DEF TypeInv, TypeOK
<1>2. pc[r] \notin {"count", "adduser", "lookup", "validate", "purge", "close"} => who[r] \in UserIds
  BY <1>1 DEF Ready
<1>3. ASSUME NEW how \in Ends, End(r, how) PROVE Good
  BY <1>1, <1>3, EndReady DEF WhoFound
<1>4. ASSUME NEW step \in Steps, Continue(r, step), Ready(r)' PROVE Good
  BY <1>1, <1>4, ContinueReady DEF WhoFound
<1>5. ASSUME NEW u \in UserIds, LiveUser(u), NEW step \in Steps, Find(r, u, step), Ready(r)' PROVE Good
  BY <1>1, <1>5, FindReady DEF WhoFound
<1>6. ASSUME NEW rest \in SUBSET (Keys \cup Platforms), NEW step \in Steps,
             Carry(r, rest, step), Ready(r)'
      PROVE  Good
  BY <1>1, <1>6, CarryReady DEF WhoFound
<1>7. CASE Refuse(r)
  BY <1>3, <1>7 DEF Refuse, Ends
<1>8. CASE \/ CloseSession(r) \/ Purge(r) \/ GetUser(r) \/ EndOthers(r) \/ SubmitRole(r)
           \/ Complete(r) \/ SubmitBlocks(r) \/ SetBlock(r)
  BY <1>3, <1>8 DEF CloseSession, Purge, GetUser, EndOthers, SubmitRole, Complete, SubmitBlocks,
     SetBlock, Ends
<1>9. CASE CountUsers(r) /\ ~Refuse(r)
  <2>1. Ready(r)'
    BY <1>1, <1>9 DEF CountUsers, Continue, Goto, TypeOK, Ready, Steps, Opens, AsksTwice
  <2> QED
    BY <1>4, <1>9, <2>1 DEF CountUsers, Steps
<1>10. CASE AddUser(r) /\ ~Refuse(r)
  <2>1. Ready(r)'
    BY <1>1, <1>10 DEF AddUser, Continue, Goto, TypeOK, Ready, Steps, Opens, AsksTwice
  <2> QED
    BY <1>4, <1>10, <2>1 DEF AddUser, Steps
<1>11. CASE Lookup(r) /\ ~Refuse(r)
  <2>1. PICK u \in UserIds : LiveUser(u) /\ Find(r, u, "open")
    BY <1>11 DEF Lookup, Matching
  <2>2. Ready(r)'
    BY <1>1, <1>11, <2>1 DEF Lookup, Find, Goto, TypeOK, Ready, Steps, Opens, AsksTwice
  <2> QED
    BY <1>5, <2>1, <2>2 DEF Steps
<1>12. CASE OpenSession(r)
  <2>1. CASE End(r, "answered")
    BY <1>3, <2>1 DEF Ends
  <2>2. CASE call[r].op # "setup" /\ Continue(r, "getstate")
    <3>1. call[r].op = "login"
      BY <1>1, <1>12, <2>2 DEF OpenSession, Ready, Opens
    <3>2. Ready(r)'
      BY <1>1, <1>2, <1>12, <2>2, <3>1
      DEF OpenSession, Continue, Goto, TypeOK, Ready, Steps, Opens, AsksTwice
    <3> QED
      BY <1>4, <2>2, <3>2 DEF Steps
  <2> QED
    BY <1>12, <2>1, <2>2 DEF OpenSession
<1>13. CASE Validate(r) /\ ~Refuse(r)
  <2>1. call[r].session \in SessionIds /\ LiveSession(call[r].session)
    BY <1>1, <1>13, CallFields DEF Validate, Ready, Opens, AsksTwice
  <2>2. ~Opens(call[r]) /\ call[r].op # "logout"
    BY <1>1, <1>13 DEF Validate, Ready, Opens, AsksTwice
  <2>3. CASE Continue(r, "purge")
    <3>1. Ready(r)'
      BY <1>1, <2>2, <2>3 DEF Continue, Goto, TypeOK, Ready, Steps, Opens, AsksTwice
    <3> QED
      BY <1>4, <2>3, <3>1 DEF Steps
  <2>4. CASE Find(r, sessions[call[r].session].user, IF pc[r] = "revalidate" THEN "rebump" ELSE "bump")
    <3> DEFINE u == sessions[call[r].session].user
               step == IF pc[r] = "revalidate" THEN "rebump" ELSE "bump"
    <3>1. u \in UserIds /\ LiveUser(u)
      BY <1>1, <2>1 DEF TypeInv, TypeOK, UsersLive, LiveSession, Session
    <3>2. pc[r] = "revalidate" => AsksTwice(call[r])
      BY <1>1 DEF Ready
    <3>3. Find(r, u, step)
      BY <2>4
    <3> HIDE DEF u
    <3>4. Ready(r)'
      BY <1>1, <2>2, <3>1, <3>2, <3>3 DEF Find, Goto, TypeOK, Ready, Steps, Opens, AsksTwice
    <3> QED
      BY <1>5, <3>1, <3>3, <3>4 DEF Steps
  <2> QED
    BY <1>13, <2>3, <2>4 DEF Validate
<1>14. CASE Bump(r)
  <2>1. who[r] \in UserIds /\ ~Opens(call[r]) /\ call[r].op # "logout"
        /\ (pc[r] = "rebump" => AsksTwice(call[r]))
    BY <1>1, <1>2, <1>14 DEF Bump, Ready, Opens, AsksTwice
  <2>2. CASE AsksTwice(call[r]) /\ Continue(r, "revalidate")
    <3>1. Ready(r)'
      BY <1>1, <2>1, <2>2 DEF Continue, Goto, TypeOK, Ready, Steps, Opens, AsksTwice
    <3> QED
      BY <1>4, <2>2, <3>1 DEF Steps
  <2>3. CASE End(r, "answered")
    BY <1>3, <2>3 DEF Ends
  <2> DEFINE step == WorkStep(call[r])
             rest == IF step = "block" THEN Keys ELSE {}
  <2>4. CASE step # "answered" /\ Carry(r, rest, step)
    <3>1. step \in Steps /\ rest \in SUBSET Keys
      BY <2>4 DEF WorkStep, Steps
    <3>2. /\ step = "rename" => call[r].op = "profile"
          /\ step = "getpass" => call[r].op = "password"
          /\ step = "isenabled" => call[r].op = "toggle"
          /\ step = "role" => call[r].op = "role"
          /\ step = "block" => call[r].op = "blocks"
          /\ step = "getstate" => call[r].op = "confirm"
          /\ step \in {"rename", "getpass", "isenabled", "role", "block", "getstate"}
      BY <1>1, <2>4, CallFields DEF WorkStep
    <3>3. Carry(r, rest, step)
      BY <2>4
    <3> HIDE DEF step, rest
    <3>4. Ready(r)'
      BY <1>1, <2>1, <3>1, <3>2, <3>3 DEF Carry, Goto, TypeOK, Ready, Steps, Opens, AsksTwice
    <3> QED
      BY <1>6, <3>1, <3>3, <3>4
  <2> QED
    BY <1>14, <2>2, <2>3, <2>4 DEF Bump, StartWork
<1>15. CASE Rename(r) /\ ~Refuse(r)
  <2>1. Ready(r)'
    BY <1>1, <1>2, <1>15 DEF Rename, Continue, Goto, TypeOK, Ready, Steps, Opens, AsksTwice
  <2> QED
    BY <1>4, <1>15, <2>1 DEF Rename, Steps
<1>16. CASE (CheckPassword(r) \/ SetPassword(r)) /\ ~Refuse(r)
  <2>1. Ready(r)'
    BY <1>1, <1>2, <1>16
    DEF CheckPassword, SetPassword, Continue, Goto, TypeOK, Ready, Steps, Opens, AsksTwice
  <2> QED
    BY <1>4, <1>16, <2>1 DEF CheckPassword, SetPassword, Steps
<1>17. CASE (GetState(r) \/ AddState(r)) /\ ~Refuse(r)
  <2>1. call[r].op \in {"login", "confirm"} /\ who[r] \in UserIds
    BY <1>1, <1>2, <1>17 DEF GetState, AddState, Ready
  <2>2. CASE Continue(r, "addstate")
    <3>1. Ready(r)'
      BY <1>1, <2>1, <2>2 DEF Continue, Goto, TypeOK, Ready, Steps, Opens, AsksTwice
    <3> QED
      BY <1>4, <2>2, <3>1 DEF Steps
  <2>3. CASE call[r].op # "login" /\ Continue(r, "complete")
    <3>1. Ready(r)'
      BY <1>1, <2>1, <2>3 DEF Continue, Goto, TypeOK, Ready, Steps, Opens, AsksTwice
    <3> QED
      BY <1>4, <2>3, <3>1 DEF Steps
  <2>4. CASE End(r, "answered")
    BY <1>3, <2>4 DEF Ends
  <2> QED
    BY <1>17, <2>2, <2>3, <2>4 DEF GetState, AddState, Proceed
<1>18. CASE SetBlocks(r)
  <2>1. call[r].op = "blocks" /\ who[r] \in UserIds /\ todo[r] \subseteq Keys
    BY <1>1, <1>2, <1>18 DEF SetBlocks, Ready
  <2>2. PICK key \in todo[r], step \in {"chosen", "clear", "block"} : Carry(r, todo[r] \ {key}, step)
    BY <1>18 DEF SetBlocks
  <2>3. Ready(r)'
    BY <1>1, <2>1, <2>2 DEF Carry, Goto, TypeOK, Ready, Steps, Opens, AsksTwice
  <2> QED
    BY <1>6, <2>1, <2>2, <2>3 DEF Steps
<1>19. CASE ClearPlatforms(r)
  <2>1. call[r].op = "blocks" /\ who[r] \in UserIds /\ call[r].on \subseteq Platforms
    BY <1>1, <1>2, <1>19, CallFields DEF ClearPlatforms, Ready
  <2>2. Ready(r)'
    BY <1>1, <1>19, <2>1 DEF ClearPlatforms, Carry, Goto, TypeOK, Ready, Steps, Opens, AsksTwice
  <2>3. Carry(r, call[r].on, "platform")
    BY <1>19 DEF ClearPlatforms
  <2>4. call[r].on \in SUBSET (Keys \cup Platforms)
    BY <2>1
  <2> QED
    BY <1>6, <2>2, <2>3, <2>4 DEF Steps
<1>20. CASE PutPlatform(r)
  <2>1. call[r].op = "blocks" /\ who[r] \in UserIds /\ todo[r] \subseteq Platforms
    BY <1>1, <1>2, <1>20 DEF PutPlatform, Ready
  <2>2. CASE Continue(r, "chosen")
    <3>1. Ready(r)'
      BY <1>1, <2>1, <2>2 DEF Continue, Goto, TypeOK, Ready, Steps, Opens, AsksTwice
    <3> QED
      BY <1>4, <2>2, <3>1 DEF Steps
  <2>3. CASE ~Continue(r, "chosen")
    <3>1. PICK p \in todo[r], step \in {"chosen", "platform"} : Carry(r, todo[r] \ {p}, step)
      BY <1>20, <2>3 DEF PutPlatform
    <3>2. Ready(r)'
      BY <1>1, <2>1, <3>1 DEF Carry, Goto, TypeOK, Ready, Steps, Opens, AsksTwice
    <3>3. todo[r] \ {p} \in SUBSET (Keys \cup Platforms)
      BY <2>1
    <3> QED
      BY <1>6, <3>1, <3>2, <3>3 DEF Steps
  <2> QED
    BY <2>2, <2>3
<1>21. CASE ReadBlock(r)
  <2> DEFINE rest == {call[r].key} \ blocks[who[r]]
  <2>1. call[r].op = "toggle" /\ who[r] \in UserIds /\ call[r].key \in Keys
    BY <1>1, <1>2, <1>21, CallFields DEF ReadBlock, Ready
  <2>2. rest \in SUBSET Keys /\ Carry(r, rest, "setblock")
    BY <1>21, <2>1 DEF ReadBlock
  <2> HIDE DEF rest
  <2>3. Ready(r)'
    BY <1>1, <2>1, <2>2 DEF Carry, Goto, TypeOK, Ready, Steps, Opens, AsksTwice
  <2> QED
    BY <1>6, <2>2, <2>3 DEF Steps
<1> QED
  BY <1>7, <1>8, <1>9, <1>10, <1>11, <1>12, <1>13, <1>14, <1>15, <1>16, <1>17, <1>18, <1>19, <1>20,
     <1>21
  DEF Work

LEMMA StepTypeInv ==
  ASSUME TypeInv, [Next]_vars
  PROVE  TypeInv'
<1>1. StoreStep
  BY StoreSteps
<1>2. /\ StoreTypeOK'
      /\ \A u \in UserIds : LiveUser(u) => LiveUser(u)'
      /\ \A s \in SessionIds : LiveSession(s)' => LiveUser(sessions[s].user)'
  BY <1>1, StepTables
<1>3. Handlers' /\ WhoFound
  <2>1. ASSUME NEW r \in Requests, Work(r) PROVE Handlers' /\ WhoFound
    BY <2>1, StepHandlers
  <2>2. ASSUME NEW r \in Requests, Interrupt(r) PROVE Handlers' /\ WhoFound
    <3>1. call[r] \in Calls
      BY <2>2 DEF Interrupt, InFlight, TypeInv, TypeOK, Ready, Steps
    <3>2. PICK how \in Ends : End(r, how)
      BY <2>2 DEF Interrupt, Ends
    <3> QED
      BY <3>1, <3>2, EndReady DEF TypeInv, WhoFound
  <2>3. ASSUME NEW r \in Requests, NEW c \in Calls, Arrive(r, c) PROVE Handlers' /\ WhoFound
    <3>1. FirstStep(c) \in Steps
      BY CallFields DEF FirstStep, Steps
    <3>2. LocalTypeOK'
      BY <2>3, <3>1 DEF Arrive, Goto, TypeInv, TypeOK, LocalTypeOK
    <3>3. pc' = [pc EXCEPT ![r] = FirstStep(c)] /\ call' = [call EXCEPT ![r] = c] /\ UNCHANGED <<who, todo>>
      BY <2>3 DEF Arrive, Goto
    <3>4. Ready(r)'
      BY <3>3, CallFields DEF FirstStep, TypeInv, TypeOK, Ready, Steps, Opens, AsksTwice
    <3> QED
      BY <3>2, <3>3, <3>4, OthersReady DEF TypeInv, TypeOK, Handlers, WhoFound
  <2>4. CASE Tick
    <3>1. LocalTypeOK' /\ UNCHANGED <<pc, call, who, todo>>
      BY <2>4 DEF Tick, TypeInv, TypeOK, LocalTypeOK
    <3> QED
      BY <3>1 DEF TypeInv, TypeOK, Ready, Handlers, WhoFound
  <2>5. CASE UNCHANGED vars
    BY <2>5 DEF vars, TypeInv, TypeOK, LocalTypeOK, Ready, Handlers, WhoFound
  <2>6. CASE Next
    <3>1. CASE \E r \in Requests : (\E c \in Calls : Arrive(r, c)) \/ Work(r) \/ Interrupt(r)
      BY <3>1, <2>1, <2>2, <2>3
    <3> QED
      BY <2>4, <2>6, <3>1 DEF Next
  <2> QED
    BY <2>5, <2>6
<1>4. UsersLive'
  <2>1. ASSUME NEW r \in Requests, who'[r] # Absent PROVE LiveUser(who[r])'
    <3>1. who'[r] \in UserIds /\ LiveUser(who'[r])
      BY <1>3, <2>1 DEF WhoFound, TypeInv, TypeOK, UsersLive
    <3> QED
      BY <1>2, <3>1 DEF LiveUser
  <2> QED
    BY <1>2, <2>1 DEF UsersLive
<1> QED
  BY <1>2, <1>3, <1>4 DEF Handlers, LocalTypeOK, StoreTypeOK, TypeInv, TypeOK

LEMMA InitTypeInv == Init => TypeInv
<1> SUFFICES ASSUME Init PROVE TypeInv
  OBVIOUS
<1>1. CASE Fresh
  BY <1>1, ModesAssumption DEF Init, Fresh, TypeInv, TypeOK, Ready, UsersLive, LiveSession, Steps
<1>2. CASE Established
  <2>1. PICK password \in Passwords, status \in Statuses \cup {Absent} :
          /\ users = [u \in UserIds |-> IF u = 1 THEN [name |-> Admin, password |-> password] ELSE Absent]
          /\ sessions = [s \in SessionIds |-> IF s = Earlier THEN NewSession(1, password) ELSE Absent]
          /\ wizard = [u \in UserIds |-> IF u = 1 THEN status ELSE Absent]
    BY <1>2 DEF Established
  <2>2. clock \in Nat /\ 1 \in UserIds
    BY IdsAssumption DEF Init
  <2>3. NewSession(1, password) \in Session /\ NewSession(1, password).user = 1
    BY <2>2, NewSessionType
  <2>4. [name |-> Admin, password |-> password] \in User
    BY NamesAssumption DEF User
  <2>5. StoreTypeOK
    BY <2>1, <2>3, <2>4 DEF Init, StoreTypeOK
  <2>6. UsersLive
    BY <2>1, <2>2, <2>3, <2>4, SessionNotAbsent DEF Init, UsersLive, LiveSession, LiveUser
  <2> QED
    BY <2>5, <2>6, ModesAssumption DEF Init, StoreTypeOK, TypeInv, TypeOK, Ready, Steps
<1> QED
  BY <1>1, <1>2 DEF Init

LEMMA SpecTypeInv == Spec => []TypeInv
  BY InitTypeInv, StepTypeInv, PTL DEF Spec

(***************************************************************************)
(* The tables and the handlers keep their shape, and no handler gets past  *)
(* the session check without a user (auth/service.go:145).                 *)
(***************************************************************************)
THEOREM TypeCorrect == Spec => []TypeOK
  BY SpecTypeInv, PTL DEF TypeInv

(***************************************************************************)
(* A session that has ended does not come back, though requests go on to   *)
(* write last_seen_at after it is gone (auth/service.go:175).              *)
(***************************************************************************)
THEOREM AlwaysEndedStaysEnded == Spec => EndedStaysEnded
<1>1. ASSUME TypeInv, [Next]_vars
      PROVE  [\A s \in SessionIds :
                ~LiveSession(s) /\ LiveSession(s)' => s \in Requests /\ pc[s] = "open"]_vars
  <2>1. SUFFICES ASSUME NEW s \in SessionIds, ~LiveSession(s), LiveSession(s)'
                 PROVE  s \in Requests /\ pc[s] = "open"
    OBVIOUS
  <2>2. CASE UNCHANGED sessions
    BY <2>1, <2>2 DEF LiveSession
  <2>3. CASE TouchesSessions
    BY <2>1, <2>3 DEF TouchesSessions, LiveSession
  <2>4. ASSUME NEW r \in Requests, NEW session \in Session, OpensSession(r, session)
        PROVE  s \in Requests /\ pc[s] = "open"
    BY <1>1, <2>1, <2>4 DEF OpensSession, LiveSession, TypeInv, TypeOK
  <2> QED
    BY <1>1, <2>2, <2>3, <2>4, StoreSteps
    DEF StoreStep, store, AddsUser, Renames, KeepsName, PutsUser, Advances, Begins, Configures
<1> QED
  BY <1>1, SpecTypeInv, PTL DEF Spec, EndedStaysEnded

(***************************************************************************)
(* The row that onboarding's State makes when it finds none                *)
(* (onboarding/service.go:46) takes back no step of the wizard.            *)
(***************************************************************************)
THEOREM AlwaysProgressIsKept == Spec => ProgressIsKept
<1>1. ASSUME TypeInv, [Next]_vars
      PROVE  [\A u \in UserIds :
                wizard[u] \notin {Absent, "pending"} => wizard'[u] \notin {Absent, "pending"}]_vars
  <2>1. SUFFICES ASSUME NEW u \in UserIds, wizard[u] \notin {Absent, "pending"}
                 PROVE  wizard'[u] \notin {Absent, "pending"}
    OBVIOUS
  <2>2. CASE UNCHANGED wizard
    BY <2>1, <2>2
  <2>3. ASSUME NEW v \in UserIds, NEW status \in {"role_done", "blocks_done", "complete"},
               Advances(v, status)
        PROVE  wizard'[u] \notin {Absent, "pending"}
    BY <1>1, <2>1, <2>3, AbsentAssumption DEF Advances, Advance, TypeInv, TypeOK, Statuses
  <2>4. ASSUME NEW v \in UserIds, Begins(v) PROVE wizard'[u] \notin {Absent, "pending"}
    BY <1>1, <2>1, <2>4 DEF Begins, StateFree, TypeInv, TypeOK
  <2> QED
    BY <1>1, <2>2, <2>3, <2>4, StoreSteps
    DEF StoreStep, store, AddsUser, Renames, KeepsName, PutsUser, OpensSession, TouchesSessions, Configures
<1> QED
  BY <1>1, SpecTypeInv, PTL DEF Spec, ProgressIsKept

(***************************************************************************)
(* One operator.  The unique index makes it so, as long as every user has  *)
(* the name a set-up would give: that is the strengthening.                *)
(***************************************************************************)
NoneRenamed == \A r \in Requests : ~Renamed(r)

NamesInv ==
  NoneRenamed => /\ \A u \in UserIds : LiveUser(u) => users[u].name = Admin
                 /\ \A u, v \in UserIds : LiveUser(u) /\ LiveUser(v) => u = v

LEMMA RenamedStays ==
  ASSUME TypeInv, [Next]_vars, NEW r \in Requests, Renamed(r)
  PROVE  Renamed(r)'
<1>1. pc[r] \in {"getuser", "answered", "partial"} /\ call[r] # Absent /\ call[r].op = "profile"
  BY DEF Renamed
<1>2. call'[r] = call[r] /\ pc'[r] \in {"getuser", "answered", "partial"}
  <2>1. CASE UNCHANGED <<pc, call>>
    BY <1>1, <2>1
  <2>2. ASSUME NEW q \in Requests, Work(q) PROVE call'[r] = call[r] /\ (q # r => pc'[r] = pc[r])
    BY <2>2 DEF TypeInv, TypeOK, Work, CountUsers, AddUser, Lookup, OpenSession, CloseSession,
       Validate, Purge, Bump, StartWork, Rename, GetUser, CheckPassword, SetPassword, EndOthers, SubmitRole,
       GetState, AddState, Proceed, Complete, SetBlocks, ClearPlatforms, PutPlatform, SubmitBlocks,
       ReadBlock, SetBlock, Refuse, End, Continue, Find, Carry, Goto
  <2>3. CASE Work(r)
    <3>1. GetUser(r)
      BY <1>1, <2>3, Working DEF TypeInv, Steps, Work, CountUsers, AddUser, Lookup, OpenSession,
         CloseSession, Validate, Purge, Bump, Rename, CheckPassword, SetPassword, EndOthers,
         SubmitRole, GetState, AddState, Complete, SetBlocks, ClearPlatforms, PutPlatform,
         SubmitBlocks, ReadBlock, SetBlock
    <3> QED
      BY <3>1 DEF GetUser, End, Goto, TypeInv, TypeOK
  <2>4. ASSUME NEW q \in Requests, NEW c \in Calls, Arrive(q, c)
        PROVE  call'[r] = call[r] /\ pc'[r] = pc[r]
    BY <1>1, <2>4 DEF Arrive, Goto, TypeInv, TypeOK
  <2>5. ASSUME NEW q \in Requests, Interrupt(q)
        PROVE  call'[r] = call[r] /\ pc'[r] \in {pc[r], "partial"}
    BY <1>1, <2>5 DEF Interrupt, InFlight, Steps, Written, End, Goto, TypeInv, TypeOK
  <2>6. CASE Next
    <3>1. CASE Tick
      BY <2>1, <3>1 DEF Tick
    <3>2. PICK q \in Requests : Tick \/ (\E c \in Calls : Arrive(q, c)) \/ Work(q) \/ Interrupt(q)
      BY <2>6, <3>1 DEF Next
    <3> QED
      BY <1>1, <2>2, <2>3, <2>4, <2>5, <3>1, <3>2
  <2> QED
    BY <2>1, <2>6 DEF vars
<1> QED
  BY <1>1, <1>2 DEF Renamed

LEMMA StepNamesInv ==
  ASSUME TypeInv, NamesInv, [Next]_vars
  PROVE  NamesInv'
<1> SUFFICES ASSUME NoneRenamed'
             PROVE  /\ \A u \in UserIds : LiveUser(u)' => users'[u].name = Admin
                    /\ \A u, v \in UserIds : LiveUser(u)' /\ LiveUser(v)' => u = v
  BY DEF NamesInv
<1>1. NoneRenamed
  BY RenamedStays DEF NoneRenamed
<1>2. /\ \A u \in UserIds : LiveUser(u) => users[u].name = Admin
      /\ \A u, v \in UserIds : LiveUser(u) /\ LiveUser(v) => u = v
  BY <1>1 DEF NamesInv
<1>3. CASE UNCHANGED users
  BY <1>2, <1>3 DEF LiveUser
<1>4. ASSUME NEW u \in UserIds, NEW user \in User, AddsUser(u, user)
      PROVE  /\ \A v \in UserIds : LiveUser(v)' => v = u
             /\ users'[u].name = Admin
  <2>1. \A v \in UserIds : ~LiveUser(v)
    BY <1>2, <1>4, AbsentAssumption DEF AddsUser, NameFree
  <2> QED
    BY <1>4, <2>1 DEF AddsUser, PutsUser, LiveUser, TypeInv, TypeOK
<1>5. ASSUME NEW u \in UserIds, NEW user \in User, KeepsName(u, user)
      PROVE  \A v \in UserIds : (LiveUser(v)' => LiveUser(v)) /\ users'[v].name = users[v].name
  BY <1>5 DEF KeepsName, PutsUser, LiveUser, TypeInv, TypeOK
<1>6. ASSUME NEW u \in UserIds, NEW user \in User PROVE ~Renames(u, user)
  BY <1>1 DEF Renames, NoneRenamed
<1> QED
  BY <1>2, <1>3, <1>4, <1>5, <1>6, StoreSteps
  DEF StoreStep, store, OpensSession, TouchesSessions, Advances, Begins, Configures

LEMMA InitNamesInv == Init => NamesInv
  BY DEF Init, Fresh, Established, NamesInv, LiveUser

(***************************************************************************)
(* "Single operator account" (README.md:130): however many set-ups overlap *)
(* and wherever they are cut off, there is one user, unless the operator   *)
(* is renamed while one of them is in flight.                              *)
(***************************************************************************)
THEOREM AlwaysOneOperator == Spec => []OneOperator
<1>1. NamesInv => OneOperator
  BY DEF NamesInv, NoneRenamed, OneOperator
<1> QED
  BY <1>1, InitNamesInv, StepNamesInv, SpecTypeInv, PTL DEF Spec

(***************************************************************************)
(* One request at a time.  A step of a handler changes nothing of another  *)
(* handler's, and it changes nobody's request.                             *)
(***************************************************************************)
Only(r) ==
  /\ UNCHANGED <<call, overlap>>
  /\ \A q \in Requests \ {r} : pc'[q] = pc[q] /\ who'[q] = who[q] /\ todo'[q] = todo[q]

LEMMA OnlyOne ==
  ASSUME TypeInv, NEW r \in Requests, Work(r) \/ Interrupt(r)
  PROVE  Only(r) /\ InFlight(r) /\ pc'[r] # "idle"
<1>1. TypeOK
  BY DEF TypeInv
<1>2. CASE Work(r)
  <2>1. Only(r)
    BY <1>1, <1>2
    DEF Only, TypeOK, Work, CountUsers, AddUser, Lookup, OpenSession, CloseSession, Validate, Purge,
        Bump, StartWork, Rename, GetUser, CheckPassword, SetPassword, EndOthers, SubmitRole, GetState,
        AddState, Proceed, Complete, SetBlocks, ClearPlatforms, PutPlatform, SubmitBlocks, ReadBlock,
        SetBlock, Refuse, End, Continue, Find, Carry, Goto
  <2>2. InFlight(r) /\ call[r] \in Calls
    BY <1>1, <1>2, Working DEF InFlight
  <2>3. WorkStep(call[r]) # "idle"
    BY <2>2, CallFields DEF WorkStep
  <2>4. pc'[r] # "idle"
    BY <1>1, <1>2, <2>3
    DEF TypeOK, Work, CountUsers, AddUser, Lookup, OpenSession, CloseSession, Validate, Purge, Bump,
        StartWork, Rename, GetUser, CheckPassword, SetPassword, EndOthers, SubmitRole, GetState,
        AddState, Proceed, Complete, SetBlocks, ClearPlatforms, PutPlatform, SubmitBlocks, ReadBlock,
        SetBlock, Refuse, End, Continue, Find, Carry, Goto
  <2> QED
    BY <2>1, <2>2, <2>4
<1>3. CASE Interrupt(r)
  BY <1>1, <1>3 DEF Only, Interrupt, End, Goto, TypeOK
<1> QED
  BY <1>2, <1>3

OneAtATime == \A q, r \in Requests : InFlight(q) /\ InFlight(r) => q = r

TurnInv ==
  /\ \A r \in Requests : pc[r] = "idle" => call[r] = Absent
  /\ ~overlap => OneAtATime

LEMMA StepTurnInv ==
  ASSUME TypeInv, TurnInv, [Next]_vars
  PROVE  TurnInv' /\ overlap' = overlap
<1>1. TypeOK
  BY DEF TypeInv
<1>2. ASSUME NEW r \in Requests, Work(r) \/ Interrupt(r) PROVE TurnInv' /\ overlap' = overlap
  <2>1. Only(r) /\ InFlight(r) /\ pc'[r] # "idle"
    BY <1>2, OnlyOne
  <2>2. ~overlap => OneAtATime'
    BY <2>1 DEF TurnInv, OneAtATime, Only, InFlight
  <2> QED
    BY <2>1, <2>2 DEF TurnInv, Only
<1>3. ASSUME NEW r \in Requests, NEW c \in Calls, Arrive(r, c) PROVE TurnInv' /\ overlap' = overlap
  <2>1. /\ pc' = [pc EXCEPT ![r] = FirstStep(c)] /\ call' = [call EXCEPT ![r] = c]
        /\ UNCHANGED overlap /\ (overlap \/ Quiet)
    BY <1>3 DEF Arrive, Goto
  <2>2. FirstStep(c) # "idle"
    BY CallFields DEF FirstStep
  <2>3. ~overlap => OneAtATime'
    BY <1>1, <2>1 DEF OneAtATime, Quiet, InFlight, TypeOK
  <2>4. \A q \in Requests : pc'[q] = "idle" => call'[q] = Absent
    BY <1>1, <2>1, <2>2 DEF TurnInv, TypeOK
  <2> QED
    BY <2>1, <2>3, <2>4 DEF TurnInv
<1>4. CASE Tick \/ UNCHANGED vars
  BY <1>4 DEF Tick, vars, TurnInv, OneAtATime, InFlight
<1> QED
  BY <1>2, <1>3, <1>4 DEF Next

LEMMA InitTurnInv == Init => TurnInv
  BY DEF Init, TurnInv, OneAtATime, InFlight, Steps

(***************************************************************************)
(* What has been cut off halfway stays so, and so does what was asked.     *)
(***************************************************************************)
NonePartial == \A r \in Requests : pc[r] # "partial"
NoToggle == \A r \in Requests : call[r] # Absent => call[r].op # "toggle"

LEMMA PartialStays ==
  ASSUME TypeInv, TurnInv, [Next]_vars
  PROVE  /\ NonePartial' => NonePartial
         /\ \A r \in Requests : call[r] # Absent => call'[r] = call[r]
         /\ NoToggle' => NoToggle
<1>1. TypeOK
  BY DEF TypeInv
<1>2. ASSUME NEW q \in Requests
      PROVE  /\ pc[q] = "partial" => pc'[q] = "partial"
             /\ call[q] # Absent => call'[q] = call[q]
  <2>1. ASSUME NEW r \in Requests, Work(r) \/ Interrupt(r)
        PROVE  call' = call /\ (pc[q] = "partial" => pc'[q] = "partial")
    <3>1. Only(r) /\ InFlight(r)
      BY <2>1, OnlyOne
    <3> QED
      BY <3>1 DEF Only, InFlight, Steps
  <2>2. ASSUME NEW r \in Requests, NEW c \in Calls, Arrive(r, c)
        PROVE  (pc[q] = "partial" => pc'[q] = "partial") /\ (call[q] # Absent => call'[q] = call[q])
    BY <1>1, <2>2 DEF Arrive, Goto, TurnInv, TypeOK
  <2>3. CASE Tick \/ UNCHANGED vars
    BY <2>3 DEF Tick, vars
  <2> QED
    BY <2>1, <2>2, <2>3 DEF Next
<1> QED
  BY <1>2 DEF NonePartial, NoToggle

(***************************************************************************)
(* Sessions.  A session was opened with the password its user has now, or  *)
(* it is the one a password change was asked from, or that change is about *)
(* to end it; and a session that is about to be opened gets the password   *)
(* that was found in the table.                                            *)
(***************************************************************************)
Known(s) == sessions[s].password = users[sessions[s].user].password

Changing(r, s) ==
  pc[r] \in {"endothers", "answered"} /\ call[r].op = "password" /\ call[r].session = s

Excused(s) ==
  \E r \in Requests : Changing(r, s) \/ (pc[r] = "endothers" /\ OtherSession(r, s))

Opening(r) == pc[r] = "open" => users[who[r]].password = call[r].password

SessionsInv ==
  /\ \A r \in Requests : Opening(r)
  /\ NonePartial => \A s \in SessionIds : LiveSession(s) => Known(s) \/ Excused(s)

\* A step that opens no session and changes no password.
KeepsKnown ==
  /\ \A u \in UserIds : LiveUser(u) => users'[u].password = users[u].password
  /\ \A s \in SessionIds :
       LiveSession(s)' => /\ LiveSession(s)
                          /\ sessions'[s].user = sessions[s].user
                          /\ sessions'[s].password = sessions[s].password

LEMMA SessionKinds ==
  ASSUME TypeInv, NEW r \in Requests, Work(r) \/ Interrupt(r)
  PROVE  \/ pc'[r] = "partial" /\ KeepsKnown
         \/ OpenSession(r) \/ SetPassword(r) \/ EndOthers(r)
         \/ /\ KeepsKnown /\ pc[r] # "endothers" /\ pc'[r] # "endothers"
            /\ pc'[r] = "open" => users'[who'[r]].password = call[r].password
<1> DEFINE Quietly == /\ KeepsKnown /\ pc[r] # "endothers" /\ pc'[r] # "endothers"
                      /\ pc'[r] = "open" => users'[who'[r]].password = call[r].password
<1>1. TypeOK
  BY DEF TypeInv
<1>2. ASSUME UNCHANGED <<users, sessions>> PROVE KeepsKnown
  BY <1>2 DEF KeepsKnown, LiveSession
<1>3. CASE Refuse(r) /\ pc[r] # "endothers"
  BY <1>1, <1>2, <1>3 DEF Refuse, End, Goto, store, TypeOK
<1>4. CASE Interrupt(r)
  <2>1. KeepsKnown
    BY <1>2, <1>4 DEF Interrupt, store
  <2>2. pc'[r] \in {"partial", "cut"} /\ (pc[r] = "endothers" => pc'[r] = "partial")
    BY <1>1, <1>4 DEF Interrupt, Written, End, Goto, TypeOK
  <2> QED
    BY <2>1, <2>2
<1>5. CASE \/ CountUsers(r) \/ Validate(r) \/ GetUser(r) \/ CheckPassword(r) \/ SubmitRole(r)
           \/ GetState(r) \/ AddState(r) \/ Complete(r) \/ SetBlocks(r) \/ ClearPlatforms(r)
           \/ PutPlatform(r) \/ SubmitBlocks(r) \/ ReadBlock(r) \/ SetBlock(r)
  <2>1. UNCHANGED <<users, sessions>>
    BY <1>5
    DEF CountUsers, Validate, GetUser, CheckPassword, SubmitRole, GetState, AddState, Complete,
        SetBlocks, ClearPlatforms, PutPlatform, SubmitBlocks, ReadBlock, SetBlock, Refuse, store
  <2>2. pc[r] # "endothers" /\ pc'[r] \notin {"endothers", "open"}
    BY <1>1, <1>5
    DEF CountUsers, Validate, GetUser, CheckPassword, SubmitRole, GetState, AddState, Proceed, Complete,
        SetBlocks, ClearPlatforms, PutPlatform, SubmitBlocks, ReadBlock, SetBlock, Refuse, End,
        Continue, Find, Carry, Goto, TypeOK
  <2> QED
    BY <1>2, <2>1, <2>2
<1>6. CASE AddUser(r) /\ ~Refuse(r)
  <2>1. PICK u \in UserIds : /\ NextUser(u) /\ UNCHANGED sessions
                             /\ \E user : users' = [users EXCEPT ![u] = user]
    BY <1>6 DEF AddUser
  <2>2. KeepsKnown
    BY <1>1, <2>1 DEF KeepsKnown, LiveSession, NextUser, TypeOK
  <2>3. pc[r] = "adduser" /\ pc'[r] = "lookup"
    BY <1>1, <1>6 DEF AddUser, Continue, Goto, TypeOK
  <2> QED
    BY <2>2, <2>3
<1>7. CASE Lookup(r) /\ ~Refuse(r)
  <2>1. PICK u \in Matching(call[r]) : Find(r, u, "open") /\ UNCHANGED store
    BY <1>7 DEF Lookup
  <2>2. users[u].password = call[r].password
    BY <2>1 DEF Matching
  <2>3. pc[r] = "lookup" /\ pc'[r] = "open" /\ who'[r] = u /\ UNCHANGED <<users, sessions>>
    BY <1>1, <1>7, <2>1 DEF Lookup, Find, Goto, store, TypeOK
  <2> QED
    BY <1>2, <2>2, <2>3
<1>8. CASE CloseSession(r) \/ Purge(r)
  <2>1. KeepsKnown
    BY <1>1, <1>8 DEF CloseSession, Purge, KeepsKnown, LiveSession, TypeOK
  <2>2. pc[r] # "endothers" /\ pc'[r] \notin {"endothers", "open"}
    BY <1>1, <1>8 DEF CloseSession, Purge, End, Goto, TypeOK
  <2> QED
    BY <2>1, <2>2
<1>9. CASE Bump(r)
  <2>1. KeepsKnown
    <3>1. UNCHANGED users /\ sessions' = Seen(r)
      BY <1>9 DEF Bump
    <3>2. ASSUME NEW s \in SessionIds, Seen(r)[s] # Absent
          PROVE  /\ sessions[s] # Absent /\ Seen(r)[s].user = sessions[s].user
                 /\ Seen(r)[s].password = sessions[s].password
      BY <1>1, <3>2 DEF Seen, TypeOK, Session, LiveSession
    <3> QED
      BY <3>1, <3>2 DEF KeepsKnown, LiveSession
  <2>2. WorkStep(call[r]) \notin {"endothers", "open"}
    <3>1. call[r] \in Calls
      BY <1>1, <1>9 DEF Bump, TypeOK, Ready
    <3> QED
      BY <3>1, CallFields DEF WorkStep
  <2>3. pc[r] # "endothers" /\ pc'[r] \notin {"endothers", "open"}
    BY <1>1, <1>9, <2>2 DEF Bump, StartWork, End, Continue, Carry, Goto, TypeOK
  <2> QED
    BY <2>1, <2>3
<1>10. CASE Rename(r) /\ ~Refuse(r)
  <2>1. users' = [users EXCEPT ![who[r]].name = call[r].name] /\ UNCHANGED sessions
    BY <1>10 DEF Rename
  <2>2. who[r] \in UserIds /\ users[who[r]] \in User
    BY <1>10, WhoLive DEF Rename, Steps
  <2>3. KeepsKnown
    BY <1>1, <2>1, <2>2 DEF KeepsKnown, LiveSession, LiveUser, User, TypeOK
  <2>4. pc[r] # "endothers" /\ pc'[r] = "getuser"
    BY <1>1, <1>10 DEF Rename, Continue, Goto, TypeOK
  <2> QED
    BY <2>3, <2>4
<1>11. Work(r) => pc[r] # "endothers" \/ EndOthers(r)
  BY DEF Work, CountUsers, AddUser, Lookup, OpenSession, CloseSession, Validate, Purge, Bump, Rename,
     GetUser, CheckPassword, SetPassword, SubmitRole, GetState, AddState, Complete, SetBlocks,
     ClearPlatforms, PutPlatform, SubmitBlocks, ReadBlock, SetBlock
<1> QED
  BY <1>3, <1>4, <1>5, <1>6, <1>7, <1>8, <1>9, <1>10, <1>11 DEF Work

LEMMA ArriveFacts ==
  ASSUME TypeInv, NEW r \in Requests, NEW c \in Calls, Arrive(r, c)
  PROVE  /\ pc[r] = "idle" /\ UNCHANGED <<users, sessions, wizard, blocks, platforms, who, todo>>
         /\ \A q \in Requests \ {r} : pc'[q] = pc[q] /\ call'[q] = call[q]
         /\ pc'[r] \in {"count", "lookup", "close", "validate"}
<1>1. FirstStep(c) \in {"count", "lookup", "close", "validate"}
  BY CallFields DEF FirstStep
<1> QED
  BY <1>1 DEF Arrive, Goto, store, TypeInv, TypeOK

LEMMA StepSessionsInv ==
  ASSUME TypeInv, TurnInv, ~overlap, SessionsInv, [Next]_vars
  PROVE  SessionsInv'
<1> DEFINE Fair == /\ \A q \in Requests : Opening(q)'
                   /\ NonePartial' => \A s \in SessionIds : LiveSession(s)' => Known(s)' \/ Excused(s)'
<1>1. TypeOK /\ OneAtATime /\ UsersLive /\ (NonePartial' => NonePartial)
  BY PartialStays DEF TypeInv, TurnInv
<1>2. CASE Tick \/ UNCHANGED vars
  <2>1. UNCHANGED <<users, sessions, pc, call, who>>
    BY <1>2 DEF Tick, vars, store
  <2> QED
    BY <2>1 DEF SessionsInv, NonePartial, LiveSession, Known, Excused, Changing, OtherSession, Opening
<1>3. ASSUME NEW r \in Requests, NEW c \in Calls, Arrive(r, c) PROVE Fair
  <2>1. /\ pc[r] = "idle" /\ UNCHANGED <<users, sessions, who>>
        /\ \A q \in Requests \ {r} : pc'[q] = pc[q] /\ call'[q] = call[q]
        /\ pc'[r] \in {"count", "lookup", "close", "validate"}
    BY <1>3, ArriveFacts
  <2>2. \A q \in Requests : Opening(q)'
    BY <2>1 DEF SessionsInv, Opening
  <2>3. \A s \in SessionIds : Excused(s) => Excused(s)'
    BY <2>1 DEF Excused, Changing, OtherSession, LiveSession
  <2> QED
    BY <1>1, <2>1, <2>2, <2>3 DEF SessionsInv, LiveSession, Known
<1>4. ASSUME NEW r \in Requests, Work(r) \/ Interrupt(r) PROVE Fair
  <2>1. Only(r) /\ InFlight(r)
    BY <1>4, OnlyOne
  <2>2. \A q \in Requests \ {r} : ~InFlight(q) /\ pc'[q] = pc[q] /\ call'[q] = call[q]
    BY <1>1, <2>1 DEF OneAtATime, Only
  <2>3. \A q \in Requests \ {r} : pc[q] # "open" /\ pc[q] # "endothers"
    BY <2>2 DEF InFlight, Steps
  <2>4. ASSUME pc'[r] = "open" => users'[who'[r]].password = call[r].password
        PROVE  \A q \in Requests : Opening(q)'
    BY <2>1, <2>2, <2>3, <2>4 DEF Opening, Only
  <2>5. ASSUME NEW s \in SessionIds, Excused(s), pc[r] # "endothers" PROVE Excused(s)'
    <3>1. PICK q \in Requests \ {r} : Changing(q, s)
      BY <2>1, <2>3, <2>5 DEF Excused, Changing, InFlight, Steps
    <3> QED
      BY <2>2, <3>1 DEF Excused, Changing
  <2>6. ASSUME KeepsKnown, NEW s \in SessionIds, Known(s), LiveSession(s)' PROVE Known(s)'
    BY <1>1, <2>6 DEF KeepsKnown, UsersLive, Known, TypeOK, Session, LiveSession
  <2>7. CASE pc'[r] = "partial" /\ KeepsKnown
    BY <2>4, <2>7 DEF NonePartial
  <2>8. CASE /\ KeepsKnown /\ pc[r] # "endothers" /\ pc'[r] # "endothers"
             /\ pc'[r] = "open" => users'[who'[r]].password = call[r].password
    BY <1>1, <2>4, <2>5, <2>6, <2>8 DEF SessionsInv, KeepsKnown
  <2>9. CASE OpenSession(r)
    <3>1. /\ pc[r] = "open" /\ UNCHANGED users /\ pc'[r] \in {"answered", "getstate"}
          /\ sessions' = [sessions EXCEPT ![r] = NewSession(who[r], call[r].password)]
      BY <1>1, <2>9 DEF OpenSession, End, Continue, Goto, TypeOK
    <3>2. users[who[r]].password = call[r].password
      BY <3>1 DEF SessionsInv, Opening
    <3>3. r \in SessionIds
      BY DEF SessionIds
    <3>4. Known(r)'
      BY <1>1, <3>1, <3>2, <3>3 DEF Known, NewSession, TypeOK
    <3>5. \A s \in SessionIds \ {r} : sessions'[s] = sessions[s]
      BY <1>1, <3>1, <3>3 DEF TypeOK
    <3>6. \A s \in SessionIds \ {r} :
            (LiveSession(s)' => LiveSession(s)) /\ (Known(s) => Known(s)') /\ (Excused(s) => Excused(s)')
      BY <2>5, <3>1, <3>5 DEF LiveSession, Known
    <3> QED
      BY <1>1, <2>4, <3>1, <3>4, <3>6 DEF SessionsInv
  <2>10. CASE SetPassword(r)
    <3>1. /\ pc[r] = "setpass" /\ pc'[r] = "endothers" /\ UNCHANGED <<sessions, who, call>>
          /\ users' = [users EXCEPT ![who[r]].password = call[r].new]
      BY <1>1, <2>10 DEF SetPassword, Continue, Goto, TypeOK
    <3>2. call[r].op = "password"
      BY <1>1, <3>1 DEF TypeOK, Ready
    <3>3. ASSUME NEW s \in SessionIds, LiveSession(s)', NonePartial' PROVE Known(s)' \/ Excused(s)'
      <4>1. LiveSession(s)
        BY <3>1, <3>3 DEF LiveSession
      <4>2. CASE s = call[r].session
        BY <3>1, <3>2, <4>2 DEF Excused, Changing
      <4>3. CASE s # call[r].session /\ sessions[s].user = who[r]
        <5>1. OtherSession(r, s)'
          BY <3>1, <4>1, <4>3 DEF OtherSession, LiveSession
        <5> QED
          BY <3>1, <5>1 DEF Excused
      <4>4. CASE sessions[s].user # who[r]
        <5>1. Known(s) \/ Excused(s)
          BY <1>1, <3>3, <4>1 DEF SessionsInv
        <5>2. Known(s) => Known(s)'
          BY <1>1, <3>1, <4>1, <4>4 DEF Known, UsersLive, TypeOK, LiveSession, Session
        <5> QED
          BY <2>5, <3>1, <5>1, <5>2
      <4> QED
        BY <4>2, <4>3, <4>4
    <3> QED
      BY <2>4, <3>1, <3>3
  <2>11. CASE EndOthers(r)
    <3>1. /\ pc[r] = "endothers" /\ pc'[r] = "answered" /\ UNCHANGED <<users, call>>
          /\ \A s \in SessionIds : sessions'[s] = IF OtherSession(r, s) THEN Absent ELSE sessions[s]
      BY <1>1, <2>11 DEF EndOthers, End, Goto, TypeOK
    <3>2. ASSUME NEW s \in SessionIds, LiveSession(s)', NonePartial' PROVE Known(s)' \/ Excused(s)'
      <4>1. LiveSession(s) /\ ~OtherSession(r, s) /\ sessions'[s] = sessions[s]
        BY <3>1, <3>2 DEF LiveSession
      <4>2. Known(s) => Known(s)'
        BY <3>1, <4>1 DEF Known
      <4>3. ASSUME Excused(s) PROVE Excused(s)'
        <5>1. PICK q \in Requests : Changing(q, s)
          BY <2>3, <4>1, <4>3 DEF Excused
        <5> QED
          BY <2>2, <3>1, <5>1 DEF Excused, Changing
      <4> QED
        BY <1>1, <3>2, <4>1, <4>2, <4>3 DEF SessionsInv
    <3> QED
      BY <2>4, <3>1, <3>2
  <2> QED
    BY <1>4, <2>7, <2>8, <2>9, <2>10, <2>11, SessionKinds
<1> QED
  BY <1>2, <1>3, <1>4 DEF Next, SessionsInv

LEMMA InitSessionsInv == Init => SessionsInv
<1> SUFFICES ASSUME Init PROVE SessionsInv
  OBVIOUS
<1>1. \A r \in Requests : Opening(r)
  BY DEF Init, Opening
<1>2. CASE Fresh
  BY <1>1, <1>2 DEF Fresh, SessionsInv, LiveSession
<1>3. CASE Established
  <2>1. PICK password \in Passwords :
          /\ users = [u \in UserIds |-> IF u = 1 THEN [name |-> Admin, password |-> password] ELSE Absent]
          /\ sessions = [s \in SessionIds |-> IF s = Earlier THEN NewSession(1, password) ELSE Absent]
    BY <1>3 DEF Established
  <2>2. \A s \in SessionIds : LiveSession(s) => Known(s)
    BY <2>1, IdsAssumption DEF LiveSession, Known, NewSession
  <2> QED
    BY <1>1, <2>2 DEF SessionsInv
<1> QED
  BY <1>2, <1>3 DEF Init

(***************************************************************************)
(* As long as requests do not overlap, a finished password change leaves   *)
(* no session that was opened with an older password, but for the ones a   *)
(* change was asked from (auth/service.go:226).                            *)
(***************************************************************************)
THEOREM SerialOldSessionsEnd == Spec => []OldSessionsEnd
<1> DEFINE Sessions == ~overlap => SessionsInv
<1>1. Init => Sessions
  BY InitSessionsInv
<1>2. TypeInv /\ TurnInv /\ Sessions /\ [Next]_vars => Sessions'
  BY StepSessionsInv, StepTurnInv
<1>3. TypeInv /\ TurnInv /\ [Next]_vars => TurnInv'
  BY StepTurnInv
<1>4. Sessions => OldSessionsEnd
  <2> SUFFICES ASSUME SessionsInv, Quiet, NonePartial, NEW s \in SessionIds, LiveSession(s)
               PROVE  \/ Known(s)
                      \/ \E r \in Requests :
                           pc[r] = "answered" /\ call[r].op = "password" /\ call[r].session = s
    BY DEF OldSessionsEnd, Alone, NonePartial, Known
  <2>1. \A r \in Requests : pc[r] # "endothers"
    BY DEF Quiet, InFlight, Steps
  <2> QED
    BY <2>1 DEF SessionsInv, Excused, Changing
<1> HIDE DEF Sessions
<1> QED
  BY <1>1, <1>2, <1>3, <1>4, InitTurnInv, SpecTypeInv, PTL DEF Spec

(***************************************************************************)
(* Blocks and platforms.  A submission that is under way has written the   *)
(* entries of the registry that are behind it and none of those ahead, and *)
(* then the same of its platforms; where no submission is under way the    *)
(* choice is whole.                                                        *)
(***************************************************************************)
Submits(r) == call[r] # Absent /\ call[r].op = "blocks"
Chosen(u) == \E r \in Requests : Submits(r) /\ platforms[u] = call[r].on

Whole(u) ==
  \/ blocks[u] = {} /\ platforms[u] = {}
  \/ Chosen(u) /\ \E r \in Requests : Submits(r) /\ blocks[u] = call[r].keys

Choosing(r) == pc[r] \in {"block", "clear", "platform", "chosen"}

Choice(r) ==
  LET u == who[r]
  IN /\ pc[r] = "block" =>
          /\ blocks[u] \ todo[r] = call[r].keys \ todo[r]
          /\ platforms[u] = {} \/ Chosen(u)
          /\ todo[r] = Keys => Whole(u)
     /\ pc[r] \in {"clear", "platform", "chosen"} => blocks[u] = call[r].keys
     /\ pc[r] = "platform" => platforms[u] \cap todo[r] = {} /\ platforms[u] \cup todo[r] = call[r].on
     /\ pc[r] = "chosen" => Chosen(u)

ChoiceInv ==
  NonePartial /\ NoToggle =>
    /\ \A r \in Requests : Choice(r)
    /\ \A u \in UserIds : Whole(u) \/ \E r \in Requests : Choosing(r) /\ who[r] = u

(***************************************************************************)
(* What a step means for a choice.                                         *)
(***************************************************************************)
LEMMA ChoiceKinds ==
  ASSUME TypeInv, NEW r \in Requests, Work(r) \/ Interrupt(r)
  PROVE  \/ pc'[r] = "partial"
         \/ SetBlocks(r) \/ ClearPlatforms(r) \/ PutPlatform(r)
         \/ call[r] # Absent /\ call[r].op = "toggle"
         \/ /\ UNCHANGED <<blocks, platforms>>
            /\ \/ ~Choosing(r) /\ ~Choosing(r)'
               \/ ~Choosing(r) /\ pc'[r] = "block" /\ todo'[r] = Keys /\ who'[r] = who[r]
               \/ pc[r] = "chosen" /\ ~Choosing(r)'
               \/ pc[r] = "block" /\ todo[r] = Keys /\ ~Choosing(r)'
<1>1. TypeOK
  BY DEF TypeInv
<1>2. CASE Interrupt(r)
  <2>1. UNCHANGED <<blocks, platforms>>
    BY <1>2 DEF Interrupt, store
  <2>2. pc'[r] = IF Written(r) THEN "partial" ELSE "cut"
    BY <1>1, <1>2 DEF Interrupt, End, Goto, TypeOK
  <2> QED
    BY <2>1, <2>2 DEF Written, Choosing
<1>3. CASE ReadBlock(r) \/ SetBlock(r)
  <2>1. pc[r] \in {"isenabled", "setblock"}
    BY <1>3 DEF ReadBlock, SetBlock
  <2>2. call[r] \in Calls /\ call[r].op = "toggle"
    BY <1>1, <2>1 DEF TypeOK, Ready
  <2> QED
    BY <2>2, AbsentAssumption
<1>4. CASE SubmitBlocks(r)
  BY <1>1, <1>4 DEF SubmitBlocks, End, Goto, Choosing, TypeOK
<1>5. CASE Bump(r)
  <2>1. UNCHANGED <<blocks, platforms, who>> \/ pc'[r] = "answered"
    BY <1>1, <1>5 DEF Bump, StartWork, End, Continue, Carry, Goto, TypeOK
  <2>2. ~Choosing(r) /\ UNCHANGED <<blocks, platforms>>
    BY <1>5 DEF Bump, Choosing
  <2>3. \/ pc'[r] \in {"revalidate", "answered"}
        \/ /\ pc'[r] = WorkStep(call[r]) /\ who'[r] = who[r]
           /\ WorkStep(call[r]) = "block" => todo'[r] = Keys
    BY <1>1, <1>5 DEF Bump, StartWork, End, Continue, Carry, Goto, TypeOK
  <2>4. WorkStep(call[r]) \in {"rename", "getpass", "isenabled", "role", "block", "getstate", "answered"}
    <3>1. call[r] \in Calls
      BY <1>1, <1>5 DEF Bump, TypeOK, Ready
    <3> QED
      BY <3>1, CallFields DEF WorkStep
  <2> QED
    BY <2>2, <2>3, <2>4 DEF Choosing
<1>6. CASE \/ CountUsers(r) \/ AddUser(r) \/ Lookup(r) \/ OpenSession(r) \/ CloseSession(r)
           \/ Validate(r) \/ Purge(r) \/ Rename(r) \/ GetUser(r) \/ CheckPassword(r)
           \/ SetPassword(r) \/ EndOthers(r) \/ SubmitRole(r) \/ GetState(r) \/ AddState(r) \/ Complete(r)
  <2>1. UNCHANGED <<blocks, platforms>> /\ ~Choosing(r)
    BY <1>6
    DEF CountUsers, AddUser, Lookup, OpenSession, CloseSession, Validate, Purge, Rename, GetUser,
        CheckPassword, SetPassword, EndOthers, SubmitRole, GetState, AddState, Complete, Refuse, store,
        Choosing
  <2>2. ~Choosing(r)'
    BY <1>1, <1>6
    DEF CountUsers, AddUser, Lookup, OpenSession, CloseSession, Validate, Purge, Rename, GetUser,
        CheckPassword, SetPassword, EndOthers, SubmitRole, GetState, AddState, Proceed, Complete,
        Refuse, End, Continue, Find, Goto, Choosing, TypeOK
  <2> QED
    BY <2>1, <2>2
<1> QED
  BY <1>2, <1>3, <1>4, <1>5, <1>6 DEF Work

LEMMA StepChoiceInv ==
  ASSUME TypeInv, TurnInv, ~overlap, ChoiceInv, [Next]_vars, NonePartial', NoToggle'
  PROVE  /\ \A r \in Requests : Choice(r)'
         /\ \A u \in UserIds : Whole(u)' \/ \E r \in Requests : Choosing(r)' /\ who'[r] = u
<1> DEFINE Good == /\ \A r \in Requests : Choice(r)'
                   /\ \A u \in UserIds : Whole(u)' \/ \E r \in Requests : Choosing(r)' /\ who'[r] = u
<1>1. /\ TypeOK /\ OneAtATime /\ NonePartial /\ NoToggle
      /\ \A r \in Requests : call[r] # Absent => call'[r] = call[r]
  BY PartialStays DEF TypeInv, TurnInv
<1>2. /\ \A r \in Requests : Choice(r)
      /\ \A u \in UserIds : Whole(u) \/ \E r \in Requests : Choosing(r) /\ who[r] = u
  BY <1>1 DEF ChoiceInv
<1>3. ASSUME NEW u, platforms'[u] = platforms[u] PROVE Chosen(u) => Chosen(u)'
  BY <1>1, <1>3 DEF Chosen, Submits
<1>4. ASSUME NEW u, platforms'[u] = platforms[u], blocks'[u] = blocks[u] PROVE Whole(u) => Whole(u)'
  BY <1>1, <1>3, <1>4 DEF Whole, Submits
<1>5. CASE Tick \/ UNCHANGED vars
  BY <1>2, <1>5 DEF Tick, vars, store, Choice, Chosen, Submits, Whole, Choosing
<1>6. ASSUME NEW r \in Requests, NEW c \in Calls, Arrive(r, c) PROVE Good
  <2>1. /\ pc[r] = "idle" /\ UNCHANGED <<blocks, platforms, who, todo>>
        /\ \A q \in Requests \ {r} : pc'[q] = pc[q] /\ call'[q] = call[q]
        /\ pc'[r] \in {"count", "lookup", "close", "validate"}
    BY <1>6, ArriveFacts
  <2>2. \A u \in UserIds : (Chosen(u) => Chosen(u)') /\ (Whole(u) => Whole(u)')
    BY <1>3, <1>4, <2>1
  <2>3. \A q \in Requests : Choice(q)'
    <3>1. Choice(r)'
      BY <2>1 DEF Choice
    <3>2. ASSUME NEW q \in Requests \ {r}, Choosing(q) PROVE Choice(q)'
      <4>1. PICK u \in UserIds : u = who[q]
        BY <1>1, <3>2 DEF Choosing, TypeOK, Ready, Steps
      <4>2. (Chosen(u) => Chosen(u)') /\ (Whole(u) => Whole(u)')
        BY <2>2
      <4>3. Choice(q)
        BY <1>2
      <4>4. who'[q] = u /\ todo'[q] = todo[q] /\ pc'[q] = pc[q] /\ call'[q] = call[q]
        BY <2>1, <4>1
      <4>5. blocks'[u] = blocks[u] /\ platforms'[u] = platforms[u]
        BY <2>1
      <4> QED
        BY <4>1, <4>2, <4>3, <4>4, <4>5 DEF Choice
    <3>3. ASSUME NEW q \in Requests \ {r}, ~Choosing(q) PROVE Choice(q)'
      BY <2>1, <3>3 DEF Choice, Choosing
    <3> QED
      BY <3>1, <3>2, <3>3
  <2> QED
    BY <1>2, <2>1, <2>2, <2>3 DEF Choosing
<1>7. ASSUME NEW r \in Requests, Work(r) \/ Interrupt(r) PROVE Good
  <2>1. Only(r) /\ InFlight(r)
    BY <1>7, OnlyOne
  <2>2. \A q \in Requests \ {r} : ~Choosing(q) /\ ~Choosing(q)' /\ Choice(q)'
    BY <1>1, <2>1 DEF OneAtATime, Only, InFlight, Steps, Choosing, Choice
  <2>3. \A u \in UserIds : Whole(u) \/ (Choosing(r) /\ who[r] = u)
    BY <1>2, <2>2
  <2>4. ASSUME Choice(r)', \A u \in UserIds : Whole(u)' \/ (Choosing(r)' /\ who'[r] = u) PROVE Good
    BY <2>2, <2>4
  <2>5. Choosing(r) => /\ call[r] \in Calls /\ Submits(r) /\ who[r] \in UserIds
                       /\ call[r].keys \subseteq Keys /\ call[r].on \subseteq Platforms
    BY <1>1, CallFields, AbsentAssumption DEF Choosing, Submits, TypeOK, Ready, Steps
  <2>6. Choice(r)
    BY <1>2
  <2>7. CASE /\ UNCHANGED <<blocks, platforms>> /\ ~Choosing(r)'
             /\ ~Choosing(r) \/ pc[r] = "chosen" \/ (pc[r] = "block" /\ todo[r] = Keys)
    <3>1. \A u \in UserIds : Whole(u) => Whole(u)'
      BY <1>4, <2>7
    <3>2. Choice(r)'
      BY <2>7 DEF Choice, Choosing
    <3>3. CASE ~Choosing(r)
      BY <2>3, <2>4, <3>1, <3>2, <3>3
    <3>4. CASE pc[r] = "chosen" \/ (pc[r] = "block" /\ todo[r] = Keys)
      <4>1. Choosing(r)
        BY <3>4 DEF Choosing
      <4>2. Whole(who[r])
        BY <2>5, <2>6, <3>4, <4>1 DEF Choice, Whole
      <4> QED
        BY <2>3, <2>4, <3>1, <3>2, <4>2
    <3> QED
      BY <2>7, <3>3, <3>4
  <2>8. CASE /\ UNCHANGED <<blocks, platforms>> /\ ~Choosing(r)
             /\ pc'[r] = "block" /\ todo'[r] = Keys /\ who'[r] = who[r]
    <3>1. TypeOK'
      BY StepTypeInv DEF TypeInv
    <3>2. PICK u \in UserIds : u = who'[r]
      BY <2>8, <3>1 DEF TypeOK, Ready, Steps
    <3>3. Whole(u) /\ Whole(u)'
      BY <1>4, <2>3, <2>8
    <3>4. call'[r].keys \subseteq Keys /\ blocks'[u] \subseteq Keys
      <4>1. call'[r] \in Calls /\ call'[r].op = "blocks"
        BY <2>8, <3>1 DEF TypeOK, Ready
      <4> QED
        BY <3>1, <4>1, CallFields DEF TypeOK
    <3>5. platforms'[u] = {} \/ Chosen(u)'
      BY <3>3 DEF Whole
    <3>6. blocks'[u] \ todo'[r] = call'[r].keys \ todo'[r]
      BY <2>8, <3>4
    <3>7. Choice(r)'
      BY <2>8, <3>2, <3>3, <3>5, <3>6 DEF Choice
    <3> QED
      BY <1>4, <2>3, <2>4, <2>8, <3>7
  <2>9. ASSUME SetBlocks(r) \/ ClearPlatforms(r) \/ PutPlatform(r) PROVE Good
    <3>1. Choosing(r)
      BY <2>9 DEF SetBlocks, ClearPlatforms, PutPlatform, Choosing
    <3>2. PICK u \in UserIds : u = who[r]
      BY <2>5, <3>1
    <3>3. who'[r] = u /\ call'[r] = call[r]
      BY <1>1, <2>1, <2>9, <3>2
      DEF SetBlocks, ClearPlatforms, PutPlatform, Carry, Continue, Only
    <3>4. Submits(r) /\ Submits(r)' /\ call[r].keys \subseteq Keys
      BY <1>1, <2>5, <3>1, <3>3 DEF Submits
    <3>5. \A v \in UserIds \ {u} : blocks'[v] = blocks[v] /\ platforms'[v] = platforms[v]
      BY <1>1, <2>9, <3>2 DEF SetBlocks, ClearPlatforms, PutPlatform, TypeOK
    <3>6. \A v \in UserIds \ {u} : Whole(v)'
      BY <1>4, <2>3, <3>2, <3>5
    <3>7. ASSUME Choice(r)', Choosing(r)' PROVE Good
      BY <2>4, <3>3, <3>6, <3>7
    <3>8. CASE SetBlocks(r)
      <4>1. PICK key \in todo[r] :
              /\ blocks'[u] = Switch(blocks[u], key, key \in call[r].keys)
              /\ todo'[r] = todo[r] \ {key}
              /\ pc'[r] = IF todo[r] = {key} THEN (IF call[r].on = {} THEN "chosen" ELSE "clear") ELSE "block"
        BY <1>1, <3>2, <3>8 DEF SetBlocks, Carry, Goto, TypeOK
      <4>2. pc[r] = "block" /\ platforms'[u] = platforms[u] /\ key \in Keys
        BY <1>1, <3>8 DEF SetBlocks, TypeOK, Ready
      <4>3. blocks[u] \ todo[r] = call[r].keys \ todo[r] /\ (platforms[u] = {} \/ Chosen(u))
        BY <2>6, <3>2, <4>2 DEF Choice
      <4>4. blocks'[u] \ todo'[r] = call[r].keys \ todo'[r]
        BY <4>1, <4>3 DEF Switch
      <4>5. platforms'[u] = {} \/ Chosen(u)'
        BY <1>3, <4>2, <4>3
      <4>6. todo'[r] # Keys
        BY <4>1, <4>2
      <4>7. CASE pc'[r] = "block"
        BY <3>3, <3>7, <4>4, <4>5, <4>6, <4>7 DEF Choice, Choosing
      <4>8. CASE pc'[r] \in {"clear", "chosen"}
        <5>1. blocks'[u] = call'[r].keys
          BY <3>3, <4>1, <4>4, <4>8
        <5>2. pc'[r] = "chosen" => Chosen(u)'
          BY <3>3, <3>4, <4>1, <4>5 DEF Chosen
        <5> QED
          BY <3>3, <3>7, <4>8, <5>1, <5>2 DEF Choice, Choosing
      <4> QED
        BY <4>1, <4>7, <4>8
    <3>9. CASE ClearPlatforms(r)
      <4>1. /\ platforms'[u] = {} /\ blocks'[u] = blocks[u] /\ pc[r] = "clear" /\ pc'[r] = "platform"
            /\ todo'[r] = call[r].on
        BY <1>1, <3>2, <3>9 DEF ClearPlatforms, Carry, Goto, TypeOK
      <4>2. blocks'[u] = call'[r].keys
        BY <2>6, <3>2, <3>3, <4>1 DEF Choice
      <4> QED
        BY <3>3, <3>7, <4>1, <4>2 DEF Choice, Choosing
    <3>10. CASE PutPlatform(r)
      <4>1. pc[r] = "platform" /\ blocks'[u] = blocks[u]
        BY <3>10 DEF PutPlatform
      <4>2. /\ blocks[u] = call[r].keys /\ platforms[u] \cap todo[r] = {}
            /\ platforms[u] \cup todo[r] = call[r].on
        BY <2>6, <3>2, <4>1 DEF Choice
      <4>3. PICK p \in todo[r] :
              /\ platforms'[u] = platforms[u] \cup {p} /\ todo'[r] = todo[r] \ {p}
              /\ pc'[r] = IF todo[r] = {p} THEN "chosen" ELSE "platform"
        BY <1>1, <3>2, <3>10, <4>2 DEF PutPlatform, Carry, Goto, TypeOK
      <4>4. platforms'[u] \cap todo'[r] = {} /\ platforms'[u] \cup todo'[r] = call'[r].on
        BY <3>3, <4>2, <4>3
      <4>5. pc'[r] = "chosen" => Chosen(u)'
        <5>1. pc'[r] = "chosen" => platforms'[u] = call'[r].on
          BY <4>3, <4>4
        <5> QED
          BY <3>4, <5>1 DEF Chosen
      <4>6. blocks'[u] = call'[r].keys
        BY <3>3, <4>1, <4>2
      <4> QED
        BY <3>3, <3>7, <4>3, <4>4, <4>5, <4>6 DEF Choice, Choosing
    <3> QED
      BY <2>9, <3>8, <3>9, <3>10
  <2> QED
    BY <1>1, <1>7, <2>5, <2>7, <2>8, <2>9, ChoiceKinds DEF NonePartial, NoToggle
<1> QED
  BY <1>5, <1>6, <1>7 DEF Next

LEMMA InitChoiceInv == Init => ChoiceInv
  BY DEF Init, ChoiceInv, Choice, Whole

(***************************************************************************)
(* As long as requests do not overlap, none was cut off halfway and none   *)
(* was a toggle, the enabled blocks and the platforms are each those of    *)
(* one submission (block/service.go:123, onboarding/service.go:112).       *)
(***************************************************************************)
THEOREM SerialChoiceIsWhole == Spec => []ChoiceIsWhole
<1> DEFINE Choices == ~overlap => ChoiceInv
<1>1. Init => Choices
  BY InitChoiceInv
<1>2. TypeInv /\ TurnInv /\ Choices /\ [Next]_vars => Choices'
  <2> SUFFICES ASSUME TypeInv, TurnInv, Choices, [Next]_vars, ~overlap', NonePartial', NoToggle'
               PROVE  /\ \A r \in Requests : Choice(r)'
                      /\ \A u \in UserIds :
                           Whole(u)' \/ \E r \in Requests : Choosing(r)' /\ who'[r] = u
    BY DEF ChoiceInv
  <2>1. ~overlap
    BY StepTurnInv
  <2> QED
    BY <2>1, StepChoiceInv
<1>3. TypeInv /\ TurnInv /\ [Next]_vars => TurnInv'
  BY StepTurnInv
<1>4. Choices => ChoiceIsWhole
  <2> SUFFICES ASSUME ChoiceInv, Quiet, NonePartial, NoToggle, NEW u \in UserIds
               PROVE  \/ blocks[u] = {} /\ platforms[u] = {}
                      \/ \E q, r \in Requests :
                           /\ call[q] # Absent /\ call[q].op = "blocks" /\ blocks[u] = call[q].keys
                           /\ call[r] # Absent /\ call[r].op = "blocks" /\ platforms[u] = call[r].on
    BY DEF ChoiceIsWhole, Alone, NonePartial, NoToggle
  <2>1. \A r \in Requests : ~Choosing(r)
    BY DEF Quiet, InFlight, Steps, Choosing
  <2> QED
    BY <2>1 DEF ChoiceInv, Whole, Chosen, Submits
<1> HIDE DEF Choices
<1> QED
  BY <1>1, <1>2, <1>3, <1>4, InitTurnInv, SpecTypeInv, PTL DEF Spec

=============================================================================
