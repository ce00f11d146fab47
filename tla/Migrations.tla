----------------------------- MODULE Migrations ----------------------------
(***************************************************************************)
(* The schema of the database and the commands that change it: the service *)
(* itself, --migrate-only, --migrate-status and --migrate-down.  Each is a *)
(* process that opens the store, which applies the pending migrations, and *)
(* may stop anywhere: killed, interrupted, or refused by the database.     *)
(*                                                                         *)
(* A migration is one transaction, and its effect here is the version; all *)
(* but 0009, which rebuilds two tables statement by statement, outside any *)
(* transaction, to let their rows have one more source or tier.            *)
(***************************************************************************)
EXTENDS Integers, FiniteSets, Sequences

CONSTANTS
  Procs,        \* the processes
  Rows,         \* the rows that may be written, each once
  ApiRows,      \* those of the source api
  MaxStarts     \* bound: the commands run

ASSUME RowsAssumption == ApiRows \subseteq Rows
ASSUME MaxStartsAssumption == MaxStarts \in Nat

VARIABLES
  version,      \* table goose_db_version
  tables,       \* those of the two that are rebuilt and their copies: name -> contents
  pc,           \* where each process is
  command,      \* what each was started as
  at,           \* the version each read
  line,         \* the statement of 0009 each is at
  starts,       \* the commands run so far
  overlap,      \* bound: may a process start while another is there?
  kept,         \* history: <<table, row>> written while none rebuilt, and not rolled back
  cutDown       \* history: a rollback of 0009 was cut off

vars == <<version, tables, pc, command, at, line, starts, overlap, kept, cutDown>>
schema == <<version, tables>>

Newest == 9
Commands == {"serve", "migrate", "status", "down"}
Rebuilt == {"career_events", "post_tiers"}

New(t) == IF t = "career_events" THEN "career_events_new" ELSE "post_tiers_new"
Old(t) == IF t = "career_events" THEN "career_events_old" ELSE "post_tiers_old"
Names == UNION {{t, New(t), Old(t)} : t \in Rebuilt}

\* The version since which there is such a table.
Since(t) == IF t = "career_events" THEN 2 ELSE 1

Contents == [wide : BOOLEAN, rows : SUBSET Rows, indexed : BOOLEAN]

Empty(wide) == [wide |-> wide, rows |-> {}, indexed |-> FALSE]

\* mutant: the old table goes before its rows are copied
RebuildDroppingFirst(t, copy, wide) ==
  [i \in 1 .. 5 |-> [do |-> <<"create", "drop", "copy", "rename", "index">>[i],
                     table |-> t, copy |-> copy, wide |-> wide]]

\* The statements that rebuild a table; its indexes are created as one.
Rebuild(t, copy, wide) ==
  [i \in 1 .. 5 |-> [do |-> <<"create", "copy", "drop", "rename", "index">>[i],
                     table |-> t, copy |-> copy, wide |-> wide]]

Up9 == Rebuild("career_events", New("career_events"), TRUE)
         \o Rebuild("post_tiers", New("post_tiers"), TRUE)
Down9 == Rebuild("career_events", Old("career_events"), FALSE)
           \o Rebuild("post_tiers", Old("post_tiers"), FALSE)

Init ==
  /\ version \in {0, Newest}
  /\ tables = [t \in {t \in Rebuilt : version >= Since(t)} |->
                 [wide |-> version = Newest, rows |-> {}, indexed |-> TRUE]]
  /\ pc = [p \in Procs |-> "off"]
  /\ command = [p \in Procs |-> "serve"]
  /\ at = [p \in Procs |-> 0] /\ line = [p \in Procs |-> 1]
  /\ starts = 0 /\ overlap \in BOOLEAN
  /\ kept = {} /\ cutDown = FALSE

-----------------------------------------------------------------------------
(* Processes *)

Goto(p, place) == pc' = [pc EXCEPT ![p] = place]

Start(p, c) ==
  /\ pc[p] = "off" /\ starts < MaxStarts
  /\ overlap \/ \A q \in Procs : pc[q] = "off"
  /\ starts' = starts + 1
  /\ command' = [command EXCEPT ![p] = c]
  /\ Goto(p, "opening")
  /\ UNCHANGED <<schema, at, line, overlap, kept, cutDown>>

\* Killed, interrupted, or at its end; nothing is undone.
Stop(p) ==
  /\ pc[p] # "off"
  /\ Goto(p, "off")
  /\ cutDown' = (cutDown \/ pc[p] = "down")
  /\ UNCHANGED <<schema, command, at, line, starts, overlap, kept>>

\* An error of the database ends the process, as a kill does.
Refused(p) == Stop(p)

\* mutant: a rollback does not apply what is pending first
PendingUnlessDown(p) == version < Newest /\ command[p] # "down"

Pending(p) == version < Newest

\* Goose reads the version before each migration and is done if none is left;
\* then the store is open.
NextMigration(p) ==
  /\ pc[p] = "opening"
  /\ at' = [at EXCEPT ![p] = version]
  /\ line' = [line EXCEPT ![p] = 1]
  /\ Goto(p, CASE Pending(p) -> "up"
               [] ~Pending(p) /\ command[p] = "serve" -> "serving"
               [] ~Pending(p) /\ command[p] = "down" -> "rollback"
               [] OTHER -> "off")
  /\ UNCHANGED <<schema, command, starts, overlap, kept, cutDown>>

\* A migration in a transaction: what it creates must not be there.
MigrateUp(p) ==
  LET created == {t \in Rebuilt : Since(t) = at[p] + 1}
      possible == version = at[p] /\ created \cap DOMAIN tables = {}
  IN /\ pc[p] = "up" /\ at[p] < Newest - 1
     /\ \/ /\ possible
           /\ version' = version + 1
           /\ tables' = [t \in DOMAIN tables \cup created |->
                           IF t \in created THEN [Empty(FALSE) EXCEPT !.indexed = TRUE] ELSE tables[t]]
           /\ Goto(p, "opening")
           /\ UNCHANGED <<command, at, line, starts, overlap, kept, cutDown>>
        \/ ~possible /\ Refused(p)

-----------------------------------------------------------------------------
(* 0009, statement by statement *)

Script(p) == IF pc[p] = "up" THEN Up9 ELSE Down9

\* What the database makes of a statement that it does not refuse.
Possible(s) ==
  CASE s.do = "create" -> s.copy \notin DOMAIN tables
    [] s.do = "copy" -> /\ {s.table, s.copy} \subseteq DOMAIN tables
                        /\ tables[s.table].rows \cap tables[s.copy].rows = {}
    [] s.do = "drop" -> s.table \in DOMAIN tables
    [] s.do = "rename" -> s.copy \in DOMAIN tables /\ s.table \notin DOMAIN tables
    [] s.do = "index" -> s.table \in DOMAIN tables /\ ~tables[s.table].indexed

Without(t) == DOMAIN tables \ {t}

\* Rolling back leaves out the rows whose source the narrow table does not have.
Effect(s) ==
  CASE s.do = "create" ->
         [t \in DOMAIN tables \cup {s.copy} |-> IF t = s.copy THEN Empty(s.wide) ELSE tables[t]]
    [] s.do = "copy" ->
         [tables EXCEPT ![s.copy].rows =
            @ \cup IF s.wide THEN tables[s.table].rows ELSE tables[s.table].rows \ ApiRows]
    [] s.do = "drop" -> [t \in Without(s.table) |-> tables[t]]
    [] s.do = "rename" ->
         [t \in Without(s.copy) \cup {s.table} |-> IF t = s.table THEN tables[s.copy] ELSE tables[t]]
    [] s.do = "index" -> [tables EXCEPT ![s.table].indexed = TRUE]

AtScript(p) == pc[p] \in {"up", "down"} /\ at[p] >= Newest - 1

Statement(p) ==
  /\ AtScript(p) /\ line[p] <= Len(Script(p))
  /\ LET s == Script(p)[line[p]] IN
       \/ /\ Possible(s)
          /\ tables' = Effect(s)
          /\ line' = [line EXCEPT ![p] = @ + 1]
          /\ kept' = IF s.do = "drop" /\ ~s.wide
                     THEN {k \in kept : ~(k[1] = s.table /\ k[2] \in ApiRows)} ELSE kept
          /\ UNCHANGED <<version, pc, command, at, starts, overlap, cutDown>>
       \/ ~Possible(s) /\ Refused(p)

\* mutant: the version is not recorded
RecordNothing(p) ==
  /\ AtScript(p) /\ line[p] > Len(Script(p))
  /\ Goto(p, IF pc[p] = "up" THEN "opening" ELSE "off")
  /\ UNCHANGED <<schema, command, at, line, starts, overlap, kept, cutDown>>

\* mutant: a rollback goes on with the migration before
RecordAndGoOn(p) ==
  /\ AtScript(p) /\ line[p] > Len(Script(p))
  /\ version' = IF pc[p] = "up" THEN Newest ELSE IF version = Newest THEN Newest - 1 ELSE version
  /\ Goto(p, IF pc[p] = "up" THEN "opening" ELSE "rollback")
  /\ UNCHANGED <<tables, command, at, line, starts, overlap, kept, cutDown>>

\* The version is recorded by a statement of its own, after the last.
RecordVersion(p) ==
  /\ AtScript(p) /\ line[p] > Len(Script(p))
  /\ version' = IF pc[p] = "up" THEN Newest ELSE IF version = Newest THEN Newest - 1 ELSE version
  /\ Goto(p, IF pc[p] = "up" THEN "opening" ELSE "off")
  /\ UNCHANGED <<tables, command, at, line, starts, overlap, kept, cutDown>>

-----------------------------------------------------------------------------
(* Rolling back, and serving *)

\* The version is read again; only a migration other than 0009 is one transaction.
MigrateDown(p) ==
  /\ pc[p] = "rollback"
  /\ at' = [at EXCEPT ![p] = version]
  /\ line' = [line EXCEPT ![p] = 1]
  /\ IF version = Newest
     THEN Goto(p, "down") /\ UNCHANGED <<schema, kept>>
     ELSE /\ Goto(p, "off")
          /\ version' = IF version > 0 THEN version - 1 ELSE 0
          /\ tables' = [t \in {t \in DOMAIN tables : t \in Rebuilt => Since(t) <= version'} |-> tables[t]]
          /\ kept' = {k \in kept : Since(k[1]) <= version'}
  /\ UNCHANGED <<command, starts, overlap, cutDown>>

Rebuilding == \E p \in Procs : AtScript(p)

\* A request to the service writes an event or a tier.
Write(p, t, row) ==
  /\ pc[p] = "serving"
  /\ t \in DOMAIN tables /\ \A u \in DOMAIN tables : row \notin tables[u].rows
  /\ row \in ApiRows => t = "career_events" /\ tables[t].wide
  /\ tables' = [tables EXCEPT ![t].rows = @ \cup {row}]
  /\ kept' = IF Rebuilding THEN kept ELSE kept \cup {<<t, row>>}
  /\ UNCHANGED <<version, pc, command, at, line, starts, overlap, cutDown>>

Step(p) == NextMigration(p) \/ MigrateUp(p) \/ Statement(p) \/ RecordVersion(p) \/ MigrateDown(p)

Next ==
  \E p \in Procs :
    \/ \E c \in Commands : Start(p, c)
    \/ Stop(p)
    \/ Step(p)
    \/ \E t \in Rebuilt, row \in Rows : Write(p, t, row)

\* A process that is not stopped goes on; nothing says that any is started.
Spec == Init /\ [][Next]_vars /\ \A p \in Procs : WF_vars(Step(p))

-----------------------------------------------------------------------------
\* Everything is of its type.
TypeOK ==
  /\ version \in 0 .. Newest
  /\ tables \in UNION {[names -> Contents] : names \in SUBSET Names}
  /\ pc \in [Procs -> {"off", "opening", "up", "serving", "rollback", "down"}]
  /\ command \in [Procs -> Commands] /\ at \in [Procs -> 0 .. Newest]
  /\ line \in [Procs -> 1 .. 11]
  /\ starts \in 0 .. MaxStarts /\ overlap \in BOOLEAN
  /\ kept \subseteq Rebuilt \X Rows /\ cutDown \in BOOLEAN

\* Wherever commands were cut off, whatever was run next or at the same time: a
\* row that was written while no process rebuilt tables is in its table or in the
\* copy that 0009 makes of it, but for the api events of a rollback.
RowsSurvive ==
  \A k \in kept : \E t \in DOMAIN tables \cap {k[1], New(k[1]), Old(k[1])} : k[2] \in tables[t].rows

\* The service and the rollback only get to a database with the newest schema,
\* whatever was cut off on its way up: an open store has both tables, wide and
\* with their indexes.  A rollback that was cut off spoils this, as the version it
\* was to take back is still there.
OpenIsNewest ==
  ~overlap /\ ~cutDown =>
    \A p \in Procs : pc[p] \in {"serving", "rollback"} =>
      /\ version = Newest
      /\ \A t \in Rebuilt : t \in DOMAIN tables /\ tables[t].wide /\ tables[t].indexed
      /\ DOMAIN tables = Rebuilt

\* However often a rollback is run, one command after the other, only the last
\* migration is ever taken back, since each command first applies it again.
OneStepBack == [][~overlap /\ version' < version => version = Newest /\ version' = Newest - 1]_vars

\* Every command gets to its end or serves, even if the database refuses it.
CommandsEnd == \A p \in Procs : pc[p] # "off" ~> pc[p] \in {"off", "serving"}

=============================================================================
