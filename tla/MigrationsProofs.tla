-------------------------- MODULE MigrationsProofs -------------------------
(***************************************************************************)
(* Theorems about Migrations, for any number of processes, rows and        *)
(* commands.                                                               *)
(***************************************************************************)
EXTENDS Migrations, SequenceTheorems, TLAPS

(***************************************************************************)
(* The scripts of 0009.                                                    *)
(***************************************************************************)
Verb(i) == <<"create", "copy", "drop", "rename", "index">>[i]

Says(i, t, copy, wide) == [do |-> Verb(i), table |-> t, copy |-> copy, wide |-> wide]

Verbs == {"create", "copy", "drop", "rename", "index"}
Statements == [do : Verbs, table : Rebuilt, copy : Names, wide : BOOLEAN]

LEMMA VerbIs ==
  /\ Verb(1) = "create" /\ Verb(2) = "copy" /\ Verb(3) = "drop"
  /\ Verb(4) = "rename" /\ Verb(5) = "index"
  /\ \A i \in 1 .. 5 : Verb(i) \in Verbs
BY DEF Verb, Verbs

LEMMA RebuildIs ==
  ASSUME NEW t \in Rebuilt, NEW copy \in Names, NEW wide \in BOOLEAN
  PROVE  /\ Rebuild(t, copy, wide) \in Seq(Statements)
         /\ Len(Rebuild(t, copy, wide)) = 5
         /\ \A i \in 1 .. 5 : Rebuild(t, copy, wide)[i] = Says(i, t, copy, wide)
<1>1. Rebuild(t, copy, wide) = [i \in 1 .. 5 |-> Says(i, t, copy, wide)]
  BY DEF Rebuild, Says, Verb
<1>2. \A i \in 1 .. 5 : Says(i, t, copy, wide) \in Statements
  BY VerbIs DEF Says, Statements
<1> QED
  BY <1>1, <1>2

LEMMA NamesAre ==
  /\ "career_events" \in Rebuilt /\ "post_tiers" \in Rebuilt
  /\ Names = {"career_events", "career_events_new", "career_events_old",
              "post_tiers", "post_tiers_new", "post_tiers_old"}
BY DEF Names, Rebuilt, New, Old

LEMMA Joined ==
  ASSUME NEW a \in Seq(Statements), NEW b \in Seq(Statements), Len(a) = 5, Len(b) = 5
  PROVE  /\ a \o b \in Seq(Statements) /\ Len(a \o b) = 10
         /\ \A i \in 1 .. 10 : (a \o b)[i] = IF i <= 5 THEN a[i] ELSE b[i - 5]
<1>1. a \o b \in Seq(Statements) /\ Len(a \o b) = Len(a) + Len(b)
  BY ConcatProperties
<1>2. \A i \in 1 .. Len(a) + Len(b) : (a \o b)[i] = IF i <= Len(a) THEN a[i] ELSE b[i - Len(a)]
  BY ConcatProperties
<1> QED
  BY <1>1, <1>2

LEMMA TwoRebuilt ==
  ASSUME NEW ce \in Names, NEW pt \in Names, NEW wide \in BOOLEAN
  PROVE  LET both == Rebuild("career_events", ce, wide) \o Rebuild("post_tiers", pt, wide)
         IN /\ Len(both) = 10
            /\ \A i \in 1 .. 10 : /\ both[i] \in Statements
                                   /\ both[i] = IF i <= 5 THEN Says(i, "career_events", ce, wide)
                                                ELSE Says(i - 5, "post_tiers", pt, wide)
<1> DEFINE a == Rebuild("career_events", ce, wide)
           b == Rebuild("post_tiers", pt, wide)
<1>1. a \in Seq(Statements) /\ Len(a) = 5 /\ \A i \in 1 .. 5 : a[i] = Says(i, "career_events", ce, wide)
  BY RebuildIs, NamesAre
<1>2. b \in Seq(Statements) /\ Len(b) = 5 /\ \A i \in 1 .. 5 : b[i] = Says(i, "post_tiers", pt, wide)
  BY RebuildIs, NamesAre
<1> HIDE DEF a, b
<1>3. /\ a \o b \in Seq(Statements) /\ Len(a \o b) = 10
      /\ \A i \in 1 .. 10 : (a \o b)[i] = IF i <= 5 THEN a[i] ELSE b[i - 5]
  BY <1>1, <1>2, Joined
<1>4. ASSUME NEW i \in 1 .. 10
      PROVE  /\ (a \o b)[i] \in Statements
             /\ (a \o b)[i] = IF i <= 5 THEN Says(i, "career_events", ce, wide)
                               ELSE Says(i - 5, "post_tiers", pt, wide)
  <2>1. (a \o b)[i] \in Statements
    BY <1>3, ElementOfSeq
  <2>2. CASE i <= 5
    <3>1. i \in 1 .. 5
      BY <2>2
    <3> QED
      BY <1>1, <1>3, <2>1, <2>2, <3>1
  <2>3. CASE ~(i <= 5)
    <3>1. i - 5 \in 1 .. 5
      BY <2>3
    <3> QED
      BY <1>2, <1>3, <2>1, <2>3, <3>1
  <2> QED
    BY <2>2, <2>3
<1> QED
  BY <1>3, <1>4 DEF a, b

LEMMA ScriptsAre ==
  /\ Len(Up9) = 10 /\ Len(Down9) = 10
  /\ \A i \in 1 .. 10 :
       /\ Up9[i] \in Statements /\ Down9[i] \in Statements
       /\ Up9[i] = IF i <= 5 THEN Says(i, "career_events", "career_events_new", TRUE)
                    ELSE Says(i - 5, "post_tiers", "post_tiers_new", TRUE)
       /\ Down9[i] = IF i <= 5 THEN Says(i, "career_events", "career_events_old", FALSE)
                      ELSE Says(i - 5, "post_tiers", "post_tiers_old", FALSE)
<1>1. Up9 = Rebuild("career_events", "career_events_new", TRUE)
              \o Rebuild("post_tiers", "post_tiers_new", TRUE)
  BY DEF Up9, New
<1>2. Down9 = Rebuild("career_events", "career_events_old", FALSE)
                \o Rebuild("post_tiers", "post_tiers_old", FALSE)
  BY DEF Down9, Old
<1>3. /\ "career_events_new" \in Names /\ "post_tiers_new" \in Names
      /\ "career_events_old" \in Names /\ "post_tiers_old" \in Names
  BY NamesAre
<1>4. Len(Up9) = 10 /\ \A i \in 1 .. 10 :
        /\ Up9[i] \in Statements
        /\ Up9[i] = IF i <= 5 THEN Says(i, "career_events", "career_events_new", TRUE)
                     ELSE Says(i - 5, "post_tiers", "post_tiers_new", TRUE)
  BY <1>1, <1>3, TwoRebuilt, Zenon
<1>5. Len(Down9) = 10 /\ \A i \in 1 .. 10 :
        /\ Down9[i] \in Statements
        /\ Down9[i] = IF i <= 5 THEN Says(i, "career_events", "career_events_old", FALSE)
                       ELSE Says(i - 5, "post_tiers", "post_tiers_old", FALSE)
  BY <1>2, <1>3, TwoRebuilt, Zenon
<1> QED
  BY <1>4, <1>5

(***************************************************************************)
(* Type correctness.                                                       *)
(***************************************************************************)
Tables == UNION {[names -> Contents] : names \in SUBSET Names}

LEMMA TablesAre ==
  ASSUME NEW f
  PROVE  f \in Tables <=>
           /\ f = [t \in DOMAIN f |-> f[t]]
           /\ DOMAIN f \subseteq Names
           /\ \A t \in DOMAIN f : f[t] \in Contents
BY DEF Tables

LEMMA EffectType ==
  ASSUME TypeOK, NEW s \in Statements, Possible(s)
  PROVE  Effect(s) \in Tables
<1>1. /\ tables = [t \in DOMAIN tables |-> tables[t]]
      /\ DOMAIN tables \subseteq Names
      /\ \A t \in DOMAIN tables : tables[t] \in Contents
  BY TablesAre DEF TypeOK, Tables
<1>2. s.copy \in Names /\ s.table \in Names /\ s.wide \in BOOLEAN /\ s.do \in Verbs
  BY NamesAre DEF Statements, Rebuilt
<1>3. CASE s.do = "create"
  <2>1. Empty(s.wide) \in Contents
    BY <1>2 DEF Empty, Contents
  <2> QED
    BY <1>1, <1>2, <1>3, <2>1, TablesAre DEF Effect
<1>4. CASE s.do = "copy"
  <2>1. {s.table, s.copy} \subseteq DOMAIN tables
    BY <1>4 DEF Possible
  <2> DEFINE more == IF s.wide THEN tables[s.table].rows ELSE tables[s.table].rows \ ApiRows
             f == [tables EXCEPT ![s.copy].rows = @ \cup more]
  <2>2. Effect(s) = f
    BY <1>4 DEF Effect
  <2>3. more \subseteq Rows
    BY <1>1, <2>1 DEF Contents
  <2> HIDE DEF more
  <2>4. f \in [DOMAIN tables -> Contents]
    BY <1>1, <2>1, <2>3 DEF Contents
  <2> QED
    BY <1>1, <2>2, <2>4 DEF Tables
<1>5. CASE s.do = "drop"
  BY <1>1, <1>5, TablesAre DEF Effect, Without
<1>6. CASE s.do = "rename"
  <2>1. s.copy \in DOMAIN tables
    BY <1>6 DEF Possible
  <2> QED
    BY <1>1, <1>2, <1>6, <2>1, TablesAre DEF Effect, Without
<1>7. CASE s.do = "index"
  <2>1. s.table \in DOMAIN tables
    BY <1>7 DEF Possible
  <2>2. [tables EXCEPT ![s.table].indexed = TRUE] \in [DOMAIN tables -> Contents]
    BY <1>1, <2>1 DEF Contents
  <2> QED
    BY <1>1, <1>7, <2>2 DEF Effect, Tables
<1> QED
  BY <1>2, <1>3, <1>4, <1>5, <1>6, <1>7 DEF Verbs

LEMMA ScriptStatement ==
  ASSUME TypeOK, NEW p \in Procs, line[p] <= Len(Script(p))
  PROVE  line[p] \in 1 .. 10 /\ Script(p)[line[p]] \in Statements
<1>1. Script(p) \in {Up9, Down9}
  BY DEF Script
<1>2. Len(Script(p)) = 10 /\ \A i \in 1 .. 10 : Script(p)[i] \in Statements
  BY <1>1, ScriptsAre
<1>3. line[p] \in 1 .. 10
  BY <1>2 DEF TypeOK
<1> QED
  BY <1>2, <1>3

LEMMA StepTypeOK ==
  ASSUME TypeOK, [Next]_vars
  PROVE  TypeOK'
<1> USE DEF TypeOK, Tables
<1>1. ASSUME NEW p \in Procs, NEW c \in Commands, Start(p, c) PROVE TypeOK'
  BY <1>1, MaxStartsAssumption DEF Start, Goto, schema
<1>2. ASSUME NEW p \in Procs, Stop(p) PROVE TypeOK'
  BY <1>2 DEF Stop, Goto, schema
<1>3. ASSUME NEW p \in Procs, NextMigration(p) PROVE TypeOK'
  BY <1>3 DEF NextMigration, Goto, schema
<1>4. ASSUME NEW p \in Procs, MigrateUp(p), ~Refused(p) PROVE TypeOK'
  <2>1. version = at[p] /\ at[p] < Newest - 1 /\ version' = version + 1 /\ Goto(p, "opening")
        /\ UNCHANGED <<command, at, line, starts, overlap, kept, cutDown>>
    BY <1>4 DEF MigrateUp
  <2>2. [Empty(FALSE) EXCEPT !.indexed = TRUE] \in Contents
    BY DEF Empty, Contents
  <2>3. tables' \in Tables
    <3> DEFINE created == {t \in Rebuilt : Since(t) = at[p] + 1}
    <3>1. created \subseteq Names
      BY NamesAre DEF Rebuilt
    <3>2. tables' = [t \in DOMAIN tables \cup created |->
                       IF t \in created THEN [Empty(FALSE) EXCEPT !.indexed = TRUE] ELSE tables[t]]
      BY <1>4 DEF MigrateUp
    <3> HIDE DEF created
    <3> QED
      BY <2>2, <3>1, <3>2, TablesAre
  <2> QED
    BY <2>1, <2>3 DEF Goto, Newest
<1>5. ASSUME NEW p \in Procs, Statement(p), ~Refused(p) PROVE TypeOK'
  <2>1. Possible(Script(p)[line[p]]) /\ tables' = Effect(Script(p)[line[p]])
        /\ line[p] <= Len(Script(p)) /\ line' = [line EXCEPT ![p] = @ + 1]
        /\ kept' \subseteq kept
        /\ UNCHANGED <<version, pc, command, at, starts, overlap, cutDown>>
    BY <1>5 DEF Statement
  <2>2. line[p] \in 1 .. 10 /\ tables' \in Tables
    BY <2>1, ScriptStatement, EffectType
  <2> QED
    BY <2>1, <2>2
<1>6. ASSUME NEW p \in Procs, RecordVersion(p) PROVE TypeOK'
  BY <1>6 DEF RecordVersion, Goto, Newest
<1>7. ASSUME NEW p \in Procs, MigrateDown(p) PROVE TypeOK'
  <2>1. version' \in 0 .. Newest /\ pc' \in [Procs -> {"off", "opening", "up", "serving", "rollback", "down"}]
        /\ kept' \subseteq kept
    BY <1>7 DEF MigrateDown, Goto, schema, Newest
  <2>2. tables' \in Tables
    BY <1>7, TablesAre DEF MigrateDown, schema
  <2>3. UNCHANGED <<command, starts, overlap, cutDown>> /\ at' \in [Procs -> 0 .. Newest]
        /\ line' \in [Procs -> 1 .. 11]
    BY <1>7 DEF MigrateDown
  <2> QED
    BY <2>1, <2>2, <2>3
<1>8. ASSUME NEW p \in Procs, NEW t \in Rebuilt, NEW row \in Rows, Write(p, t, row) PROVE TypeOK'
  <2>1. tables' \in [DOMAIN tables -> Contents]
    BY <1>8 DEF Write, Contents
  <2> QED
    BY <1>8, <2>1 DEF Write
<1> QED
  BY <1>1, <1>2, <1>3, <1>4, <1>5, <1>6, <1>7, <1>8 DEF Next, Step, Refused, vars, schema

\* However many processes migrate, roll back and serve at once, the version stays
\* between none and the newest, there are no tables but the two and their copies,
\* and their rows are rows.
THEOREM TypeCorrect == Spec => []TypeOK
<1>1. Init => TypeOK
  <2> SUFFICES ASSUME Init PROVE TypeOK
    OBVIOUS
  <2>1. tables \in Tables
    BY NamesAre DEF Init, Tables, Rebuilt, Contents
  <2>2. version \in 0 .. Newest /\ starts \in 0 .. MaxStarts
    BY MaxStartsAssumption DEF Init, Newest
  <2>3. pc \in [Procs -> {"off", "opening", "up", "serving", "rollback", "down"}]
    BY DEF Init
  <2>4. command \in [Procs -> Commands] /\ at \in [Procs -> 0 .. Newest] /\ line \in [Procs -> 1 .. 11]
    BY DEF Init, Commands, Newest
  <2> QED
    BY <2>1, <2>2, <2>3, <2>4 DEF Init, TypeOK, Tables
<1> QED
  BY <1>1, StepTypeOK, PTL DEF Spec

(***************************************************************************)
(* Commands in turn.                                                       *)
(*                                                                         *)
(* One process at most is there, and the version is what it last read.     *)
(***************************************************************************)
Alone == \A p, q \in Procs : pc[p] # "off" /\ pc[q] # "off" => p = q

Reads(p) ==
  /\ pc[p] \in {"serving", "rollback"} => version = Newest
  /\ pc[p] = "up" => at[p] = version /\ version < Newest
  /\ pc[p] = "down" => at[p] = version /\ version = Newest

TurnInv == Alone /\ \A p \in Procs : Reads(p)

\* What a step of one process changes of the processes.
LEMMA OnlyOne ==
  ASSUME TypeOK, NEW p \in Procs, ~overlap, Alone,
         \/ \E c \in Commands : Start(p, c)
         \/ Stop(p) \/ Step(p)
         \/ \E t \in Rebuilt, row \in Rows : Write(p, t, row)
  PROVE  /\ \A q \in Procs \ {p} : pc[q] = "off" /\ pc'[q] = "off"
         /\ overlap' = overlap
<1>1. pc[p] = "off" => \A q \in Procs : pc[q] = "off"
  BY DEF Start, Stop, Step, NextMigration, MigrateUp, Statement, AtScript, RecordVersion, MigrateDown, Write
<1>2. \A q \in Procs \ {p} : pc[q] = "off"
  BY <1>1 DEF Alone
<1>3. \A q \in Procs \ {p} : pc'[q] = pc[q]
  BY DEF Start, Stop, Refused, Step, NextMigration, MigrateUp, Statement, RecordVersion, MigrateDown,
     Write, Goto, TypeOK
<1>4. overlap' = overlap
  BY DEF Start, Stop, Refused, Step, NextMigration, MigrateUp, Statement, RecordVersion, MigrateDown, Write
<1> QED
  BY <1>2, <1>3, <1>4

LEMMA StepTurn ==
  ASSUME TypeOK, TurnInv, ~overlap, [Next]_vars
  PROVE  TurnInv'
<1>1. CASE UNCHANGED vars
  BY <1>1 DEF vars, TurnInv, Alone, Reads
<1>2. ASSUME NEW p \in Procs, Reads(p)', \A q \in Procs \ {p} : pc'[q] = "off" PROVE TurnInv'
  BY <1>2 DEF TurnInv, Alone, Reads
<1>3. ASSUME NEW p \in Procs, NEW c \in Commands, Start(p, c) PROVE TurnInv'
  <2>1. pc'[p] = "opening"
    BY <1>3 DEF Start, Goto, TypeOK
  <2> QED
    BY <1>2, <1>3, <2>1, OnlyOne DEF Reads, TurnInv
<1>4. ASSUME NEW p \in Procs, Stop(p) PROVE TurnInv'
  <2>1. pc'[p] = "off"
    BY <1>4 DEF Stop, Goto, TypeOK
  <2> QED
    BY <1>2, <1>4, <2>1, OnlyOne DEF Reads, TurnInv
<1>5. ASSUME NEW p \in Procs, Step(p), ~Refused(p) PROVE TurnInv'
  <2>1. \A q \in Procs \ {p} : pc'[q] = "off"
    BY <1>5, OnlyOne DEF TurnInv
  <2>2. Reads(p)
    BY DEF TurnInv
  <2>3. CASE NextMigration(p)
    BY <1>2, <2>1, <2>3 DEF NextMigration, Goto, Pending, TypeOK, Reads, schema, Newest
  <2>4. CASE MigrateUp(p)
    <3>1. pc'[p] = "opening"
      BY <1>5, <2>4 DEF MigrateUp, Goto, TypeOK
    <3> QED
      BY <1>2, <2>1, <3>1 DEF Reads
  <2>5. CASE Statement(p)
    BY <1>2, <1>5, <2>1, <2>2, <2>5 DEF Statement, Reads
  <2>6. CASE RecordVersion(p)
    <3>1. pc'[p] \in {"opening", "off"}
      BY <2>6 DEF RecordVersion, Goto, TypeOK
    <3> QED
      BY <1>2, <2>1, <3>1 DEF Reads
  <2>7. CASE MigrateDown(p)
    <3>1. version = Newest /\ Goto(p, "down") /\ UNCHANGED schema /\ at' = [at EXCEPT ![p] = version]
      BY <2>2, <2>7 DEF MigrateDown, Reads
    <3> QED
      BY <1>2, <2>1, <3>1 DEF Goto, TypeOK, Reads, schema
  <2> QED
    BY <1>5, <2>3, <2>4, <2>5, <2>6, <2>7 DEF Step
<1>6. ASSUME NEW p \in Procs, NEW t \in Rebuilt, NEW row \in Rows, Write(p, t, row) PROVE TurnInv'
  BY <1>1, <1>6 DEF Write, TurnInv, Alone, Reads
<1> QED
  BY <1>1, <1>3, <1>4, <1>5, <1>6 DEF Next, Refused

LEMMA InTurn == Spec => [](~overlap => TurnInv)
<1>1. Init => TurnInv
  BY DEF Init, TurnInv, Alone, Reads
<1>2. TypeOK /\ (~overlap => TurnInv) /\ [Next]_vars => (~overlap => TurnInv)'
  <2>1. [Next]_vars => overlap' = overlap
    BY DEF Next, vars, Start, Stop, Refused, Step, NextMigration, MigrateUp, Statement,
       RecordVersion, MigrateDown, Write
  <2> QED
    BY <2>1, StepTurn
<1> QED
  BY <1>1, <1>2, TypeCorrect, PTL DEF Spec

\* In turn, the version only ever goes back by one from the newest, however many
\* rollbacks are run and wherever they are cut off.
THEOREM SerialOneStepBack == Spec => OneStepBack
<1>1. TypeOK /\ (~overlap => TurnInv) /\ [Next]_vars
      => [~overlap /\ version' < version => version = Newest /\ version' = Newest - 1]_vars
  <2> SUFFICES ASSUME TypeOK, TurnInv, NEW p \in Procs, version' < version,
                      Step(p) \/ Stop(p) \/ (\E c \in Commands : Start(p, c))
                      \/ \E t \in Rebuilt, row \in Rows : Write(p, t, row)
               PROVE  version = Newest /\ version' = Newest - 1
    BY DEF Next
  <2>1. ~(version < version) /\ ~(version + 1 < version) /\ Reads(p)
    BY DEF TypeOK, TurnInv
  <2>2. RecordVersion(p) \/ MigrateDown(p)
    BY <2>1 DEF Step, Stop, Refused, Start, Write, NextMigration, MigrateUp, Statement, schema
  <2>3. CASE RecordVersion(p)
    BY <2>1, <2>3 DEF RecordVersion, Reads, AtScript, TypeOK, Newest
  <2>4. CASE MigrateDown(p)
    BY <2>1, <2>4 DEF MigrateDown, Reads, schema
  <2> QED
    BY <2>2, <2>3, <2>4
<1> QED
  BY <1>1, TypeCorrect, InTurn, PTL DEF Spec, OneStepBack

(***************************************************************************)
(* Where a script is: line i of the part that rebuilds one table.          *)
(***************************************************************************)
Base(t) == IF t = "career_events" THEN 0 ELSE 5
Copy(p, t) == IF pc[p] = "up" THEN New(t) ELSE Old(t)
Place(p, t) == line[p] - Base(t)

LEMMA LineIs ==
  ASSUME TypeOK, NEW p \in Procs, line[p] <= Len(Script(p)), pc[p] \in {"up", "down"}
  PROVE  \E t \in Rebuilt, i \in 1 .. 5 :
           Place(p, t) = i /\ Script(p)[line[p]] = Says(i, t, Copy(p, t), pc[p] = "up")
<1> DEFINE l == line[p]
<1>1. l \in 1 .. 10
  BY ScriptStatement
<1>2. CASE l <= 5
  <2>1. l \in 1 .. 5 /\ Place(p, "career_events") = l
    BY <1>1, <1>2 DEF Place, Base
  <2>2. Script(p)[l] = Says(l, "career_events", Copy(p, "career_events"), pc[p] = "up")
    BY <1>1, <1>2, ScriptsAre DEF Script, Copy, New, Old
  <2> QED
    BY <2>1, <2>2, NamesAre
<1>3. CASE ~(l <= 5)
  <2>1. l - 5 \in 1 .. 5 /\ Place(p, "post_tiers") = l - 5
    BY <1>1, <1>3 DEF Place, Base
  <2>2. Script(p)[l] = Says(l - 5, "post_tiers", Copy(p, "post_tiers"), pc[p] = "up")
    BY <1>1, <1>3, ScriptsAre DEF Script, Copy, New, Old
  <2> QED
    BY <2>1, <2>2, NamesAre
<1> QED
  BY <1>2, <1>3

\* No two of the six names are the same.
LEMMA NamesDiffer ==
  ASSUME NEW t \in Rebuilt, NEW u \in Rebuilt
  PROVE  /\ New(t) \notin Rebuilt /\ Old(t) \notin Rebuilt /\ New(t) # Old(u)
         /\ t # u => New(t) # New(u) /\ Old(t) # Old(u)
BY DEF Rebuilt, New, Old

\* A statement touches its table and its copy only.
LEMMA EffectFrame ==
  ASSUME NEW s \in Statements, NEW x, x \notin {s.table, s.copy}, tables' = Effect(s), TypeOK
  PROVE  /\ x \in DOMAIN tables' <=> x \in DOMAIN tables
         /\ x \in DOMAIN tables => tables'[x] = tables[x]
<1>1. s.do \in Verbs
  BY DEF Statements
<1>2. tables = [t \in DOMAIN tables |-> tables[t]]
  BY TablesAre DEF TypeOK, Tables
<1> QED
  BY <1>1, <1>2 DEF Effect, Without, Verbs

Holds(t, wide) == t \in DOMAIN tables /\ tables[t].wide = wide

(***************************************************************************)
(* The shape of the tables, as long as no rollback was cut off.            *)
(***************************************************************************)
Whole == DOMAIN tables = Rebuilt /\ \A t \in Rebuilt : tables[t].wide /\ tables[t].indexed

UpShape(t, i) ==
  /\ i \in 2 .. 4 => Holds(New(t), TRUE)
  /\ i >= 5 => Holds(t, TRUE) /\ New(t) \notin DOMAIN tables
  /\ i >= 6 => tables[t].indexed

DownShape(t, i) == Old(t) \in DOMAIN tables => i \in 2 .. 4

Shape ==
  /\ (\A p \in Procs : pc[p] # "down") =>
       /\ \A t \in Rebuilt : Old(t) \notin DOMAIN tables
       /\ version = Newest => Whole
  /\ \A p \in Procs, t \in Rebuilt :
       /\ AtScript(p) /\ pc[p] = "up" => UpShape(t, Place(p, t))
       /\ pc[p] = "down" => DownShape(t, Place(p, t))

LEMMA UpStatement ==
  ASSUME TypeOK, NEW t \in Rebuilt, NEW i \in 1 .. 5, UpShape(t, i),
         Possible(Says(i, t, New(t), TRUE)), tables' = Effect(Says(i, t, New(t), TRUE))
  PROVE  UpShape(t, i + 1)'
<1>1. New(t) # t
  BY NamesDiffer
<1>2. tables = [x \in DOMAIN tables |-> tables[x]] /\ \A x \in DOMAIN tables : tables[x] \in Contents
  BY TablesAre DEF TypeOK, Tables
<1>3. CASE i = 1
  <2>1. tables' = [x \in DOMAIN tables \cup {New(t)} |-> IF x = New(t) THEN Empty(TRUE) ELSE tables[x]]
    BY <1>3, VerbIs DEF Effect, Says
  <2>2. New(t) \in DOMAIN tables' /\ tables'[New(t)] = Empty(TRUE)
    BY <2>1
  <2>3. Empty(TRUE).wide = TRUE
    BY DEF Empty
  <2>4. Holds(New(t), TRUE)'
    BY <2>2, <2>3 DEF Holds
  <2> QED
    <3>1. ~(i + 1 >= 5) /\ ~(i + 1 >= 6)
      BY <1>3
    <3> QED
      BY <2>4, <3>1, Zenon DEF UpShape
<1>4. CASE i = 2
  BY <1>2, <1>4, VerbIs DEF UpShape, Holds, Possible, Effect, Says, Contents
<1>5. CASE i = 3
  BY <1>1, <1>5, VerbIs DEF UpShape, Holds, Possible, Effect, Says, Without
<1>6. CASE i = 4
  BY <1>1, <1>6, VerbIs DEF UpShape, Holds, Possible, Effect, Says, Without
<1>7. CASE i = 5
  BY <1>1, <1>2, <1>7, VerbIs DEF UpShape, Holds, Possible, Effect, Says, Contents
<1> QED
  BY <1>3, <1>4, <1>5, <1>6, <1>7

LEMMA DownStatement ==
  ASSUME TypeOK, NEW t \in Rebuilt, NEW i \in 1 .. 5, DownShape(t, i),
         Possible(Says(i, t, Old(t), FALSE)), tables' = Effect(Says(i, t, Old(t), FALSE))
  PROVE  DownShape(t, i + 1)'
<1>1. Old(t) # t
  BY NamesDiffer
<1>2. tables = [x \in DOMAIN tables |-> tables[x]]
  BY TablesAre DEF TypeOK, Tables
<1>3. CASE i \in 1 .. 3
  BY <1>3 DEF DownShape
<1>4. CASE i = 4
  BY <1>1, <1>4, VerbIs DEF DownShape, Possible, Effect, Says, Without
<1>5. CASE i = 5
  BY <1>1, <1>2, <1>5, VerbIs DEF DownShape, Possible, Effect, Says
<1> QED
  BY <1>3, <1>4, <1>5

\* The part of the script that a statement is not in has no shape to keep or keeps it.
LEMMA OtherPlace ==
  ASSUME TypeOK, NEW p \in Procs, NEW t \in Rebuilt, NEW u \in Rebuilt, t # u,
         Place(p, t) \in 1 .. 5, line' = [line EXCEPT ![p] = @ + 1]
  PROVE  /\ Place(p, t)' = Place(p, t) + 1 /\ Place(p, u)' = Place(p, u) + 1
         /\ Place(p, u) \in -4 .. 0 \/ Place(p, u) \in 6 .. 10
<1>1. line[p] \in Nat /\ line'[p] = line[p] + 1
  BY DEF TypeOK
<1>2. t \in {"career_events", "post_tiers"} /\ u \in {"career_events", "post_tiers"}
  BY DEF Rebuilt
<1> QED
  BY <1>1, <1>2 DEF Place, Base

LEMMA StatementShape ==
  ASSUME TypeOK, NEW p \in Procs, NEW t \in Rebuilt, NEW i \in 1 .. 5, NEW u \in Rebuilt,
         pc[p] \in {"up", "down"}, pc' = pc, line' = [line EXCEPT ![p] = @ + 1], Place(p, t) = i,
         Possible(Says(i, t, Copy(p, t), pc[p] = "up")),
         tables' = Effect(Says(i, t, Copy(p, t), pc[p] = "up"))
  PROVE  /\ pc[p] = "up" /\ UpShape(u, Place(p, u)) => UpShape(u, Place(p, u))'
         /\ pc[p] = "down" /\ DownShape(u, Place(p, u)) => DownShape(u, Place(p, u))'
         /\ pc[p] = "up" => (Old(u) \in DOMAIN tables' => Old(u) \in DOMAIN tables)
<1> DEFINE s == Says(i, t, Copy(p, t), pc[p] = "up")
<1>1. s \in Statements /\ s.table = t /\ s.copy = Copy(p, t)
  <2>1. Copy(p, t) \in Names
    BY NamesAre DEF Copy, New, Old
  <2> QED
    BY <2>1, VerbIs DEF Statements, Says
<1>2. pc[p] = "up" => Old(u) \notin {s.table, s.copy}
  BY <1>1, NamesDiffer DEF Copy
<1>3. pc[p] = "up" => (Old(u) \in DOMAIN tables' => Old(u) \in DOMAIN tables)
  BY <1>1, <1>2, EffectFrame
<1>4. CASE u = t
  <2>1. Place(p, t)' = i + 1
    BY DEF Place, Base, TypeOK
  <2>2. ASSUME pc[p] = "up", UpShape(t, i) PROVE UpShape(t, i + 1)'
    <3>1. s = Says(i, t, New(t), TRUE)
      BY <2>2 DEF Copy
    <3> QED
      BY <2>2, <3>1, UpStatement
  <2>3. ASSUME pc[p] = "down", DownShape(t, i) PROVE DownShape(t, i + 1)'
    <3>1. s = Says(i, t, Old(t), FALSE)
      BY <2>3 DEF Copy
    <3> QED
      BY <2>3, <3>1, DownStatement
  <2>4. UpShape(t, i + 1)' => UpShape(t, Place(p, t))'
    BY <2>1 DEF UpShape
  <2>5. DownShape(t, i + 1)' => DownShape(t, Place(p, t))'
    BY <2>1 DEF DownShape
  <2> QED
    BY <1>3, <1>4, <2>2, <2>3, <2>4, <2>5
<1>5. CASE u # t
  <2>1. /\ Place(p, u)' = Place(p, u) + 1
        /\ Place(p, u) \in -4 .. 0 \/ Place(p, u) \in 6 .. 10
    BY <1>5, OtherPlace
  <2>2. u \notin {s.table, s.copy} /\ New(u) \notin {s.table, s.copy} /\ Old(u) \notin {s.table, s.copy}
    BY <1>1, <1>5, NamesDiffer DEF Copy
  <2>3. \A x \in {u, New(u), Old(u)} : /\ x \in DOMAIN tables' <=> x \in DOMAIN tables
                                       /\ x \in DOMAIN tables => tables'[x] = tables[x]
    BY <1>1, <2>2, EffectFrame
  <2>4. UpShape(u, Place(p, u)) => UpShape(u, Place(p, u))'
    BY <2>1, <2>3 DEF UpShape, Holds
  <2>5. DownShape(u, Place(p, u)) => DownShape(u, Place(p, u))'
    BY <2>1, <2>3 DEF DownShape
  <2> QED
    BY <1>3, <2>4, <2>5
<1> QED
  BY <1>4, <1>5

LEMMA StepShape ==
  ASSUME TypeOK, TypeOK', TurnInv, Shape, ~overlap, ~cutDown', [Next]_vars
  PROVE  Shape'
<1> DEFINE Mine(p) ==
      /\ pc'[p] # "down" => /\ \A t \in Rebuilt : Old(t) \notin DOMAIN tables'
                            /\ version' = Newest => Whole'
      /\ \A t \in Rebuilt :
           /\ AtScript(p)' /\ pc'[p] = "up" => UpShape(t, Place(p, t))'
           /\ pc'[p] = "down" => DownShape(t, Place(p, t))'
<1>1. ASSUME NEW p \in Procs, \A q \in Procs \ {p} : pc'[q] = "off", Mine(p) PROVE Shape'
  BY <1>1 DEF Shape, AtScript
<1>2. CASE UNCHANGED vars
  BY <1>2 DEF vars, Shape, Whole, AtScript, UpShape, DownShape, Holds, Place
<1>3. SUFFICES ASSUME NEW p \in Procs,
                      \/ \E c \in Commands : Start(p, c)
                      \/ Stop(p) \/ Step(p)
                      \/ \E t \in Rebuilt, row \in Rows : Write(p, t, row)
               PROVE  Shape'
  BY <1>2 DEF Next
<1>4. \A q \in Procs \ {p} : pc[q] = "off" /\ pc'[q] = "off"
  BY <1>3, OnlyOne DEF TurnInv
<1>5. ASSUME pc[p] # "down"
      PROVE  (\A t \in Rebuilt : Old(t) \notin DOMAIN tables) /\ (version = Newest => Whole)
  BY <1>4, <1>5 DEF Shape
<1>6. Reads(p)
  BY DEF TurnInv
<1>7. ASSUME pc[p] # "down", UNCHANGED schema, pc'[p] \notin {"up", "down"} PROVE Shape'
  <2>1. Mine(p)
    BY <1>5, <1>7 DEF schema, Whole, AtScript
  <2> QED
    BY <1>1, <1>4, <2>1
<1>8. CASE Stop(p) \/ \E c \in Commands : Start(p, c)
  <2>1. pc[p] # "down" /\ UNCHANGED schema /\ pc'[p] \in {"off", "opening"}
    BY <1>8 DEF Start, Stop, Goto, TypeOK
  <2> QED
    BY <1>7, <2>1
<1>9. CASE NextMigration(p)
  <2>1. pc[p] # "down" /\ pc'[p] # "down" /\ UNCHANGED schema /\ line'[p] = 1
    BY <1>9 DEF NextMigration, Goto, TypeOK
  <2>2. \A t \in Rebuilt : UpShape(t, Place(p, t))'
    BY <2>1 DEF UpShape, Place, Base
  <2>3. Mine(p)
    BY <1>5, <2>1, <2>2 DEF schema, Whole
  <2> QED
    BY <1>1, <1>4, <2>3
<1>10. CASE MigrateUp(p) /\ ~Refused(p)
  <2>1. pc[p] # "down" /\ pc'[p] = "opening" /\ version' # Newest
    <3>1. pc[p] = "up" /\ at[p] < Newest - 1 /\ version = at[p] /\ version' = version + 1
          /\ Goto(p, "opening")
      BY <1>10 DEF MigrateUp
    <3>2. version \in 0 .. 9
      BY DEF TypeOK, Newest
    <3>3. pc'[p] = "opening"
      BY <3>1 DEF Goto, TypeOK
    <3> QED
      BY <3>1, <3>2, <3>3 DEF Newest
  <2>2. \A t \in Rebuilt : Old(t) \notin DOMAIN tables'
    BY <1>5, <1>10, <2>1, NamesDiffer DEF MigrateUp
  <2>3. Mine(p)
    BY <2>1, <2>2 DEF AtScript
  <2> QED
    BY <1>1, <1>4, <2>3
<1>11. CASE Statement(p) /\ ~Refused(p)
  <2>1. /\ AtScript(p) /\ line[p] <= Len(Script(p))
        /\ Possible(Script(p)[line[p]]) /\ tables' = Effect(Script(p)[line[p]])
        /\ line' = [line EXCEPT ![p] = @ + 1]
        /\ UNCHANGED <<version, pc, at>>
    BY <1>11 DEF Statement
  <2>2. pc[p] \in {"up", "down"}
    BY <2>1 DEF AtScript
  <2>3. PICK t \in Rebuilt, i \in 1 .. 5 :
          Place(p, t) = i /\ Script(p)[line[p]] = Says(i, t, Copy(p, t), pc[p] = "up")
    BY <2>1, <2>2, LineIs
  <2>4. \A u \in Rebuilt :
          /\ pc[p] = "up" /\ UpShape(u, Place(p, u)) => UpShape(u, Place(p, u))'
          /\ pc[p] = "down" /\ DownShape(u, Place(p, u)) => DownShape(u, Place(p, u))'
          /\ pc[p] = "up" => (Old(u) \in DOMAIN tables' => Old(u) \in DOMAIN tables)
    BY <2>1, <2>2, <2>3, StatementShape
  <2>5. \A u \in Rebuilt : /\ pc[p] = "up" => UpShape(u, Place(p, u))
                           /\ pc[p] = "down" => DownShape(u, Place(p, u))
    BY <2>1 DEF Shape
  <2>6. pc[p] # "down" => version' # Newest
    BY <1>6, <2>1, <2>2 DEF Reads, Newest, TypeOK
  <2>7. Mine(p)
    BY <1>5, <2>1, <2>2, <2>4, <2>5, <2>6
  <2> QED
    BY <1>1, <1>4, <2>7
<1>12. CASE RecordVersion(p)
  <2>1. AtScript(p) /\ UNCHANGED tables /\ pc'[p] \in {"opening", "off"} /\ line[p] = 11
    <3>1. Len(Script(p)) = 10
      BY ScriptsAre DEF Script
    <3> QED
      BY <1>12, <3>1 DEF RecordVersion, Goto, TypeOK
  <2>2. Place(p, "career_events") = 11 /\ Place(p, "post_tiers") = 6
    BY <2>1 DEF Place, Base
  <2>3. \A t \in Rebuilt : Place(p, t) >= 6
    BY <2>2 DEF Rebuilt
  <2>4. CASE pc[p] = "up"
    <3>1. \A t \in Rebuilt : UpShape(t, Place(p, t)) /\ Old(t) \notin DOMAIN tables
      BY <1>5, <2>1, <2>4 DEF Shape
    <3>2. \A t \in Rebuilt : /\ Holds(t, TRUE) /\ New(t) \notin DOMAIN tables
                             /\ tables[t].indexed
      <4> SUFFICES ASSUME NEW t \in Rebuilt
                   PROVE  Holds(t, TRUE) /\ New(t) \notin DOMAIN tables /\ tables[t].indexed
        OBVIOUS
      <4>1. Place(p, t) >= 6 /\ Place(p, t) >= 5
        BY <2>2 DEF Rebuilt
      <4> QED
        BY <3>1, <4>1, Zenon DEF UpShape
    <3>3. DOMAIN tables \subseteq Names
      BY TablesAre DEF TypeOK, Tables
    <3>4. DOMAIN tables = Rebuilt
      BY <3>1, <3>2, <3>3 DEF Names, Holds
    <3>5. Whole
      BY <3>2, <3>4 DEF Whole, Holds
    <3>6. Mine(p)
      BY <2>1, <3>1, <3>5 DEF Whole, AtScript
    <3> QED
      BY <1>1, <1>4, <3>6
  <2>5. CASE pc[p] = "down"
    <3>1. version' # Newest
      BY <1>6, <1>12, <2>5 DEF RecordVersion, Reads, Newest
    <3>2. \A t \in Rebuilt : Old(t) \notin DOMAIN tables
      BY <2>3, <2>5, <2>2 DEF Shape, DownShape, Rebuilt
    <3>3. Mine(p)
      BY <2>1, <3>1, <3>2 DEF AtScript
    <3> QED
      BY <1>1, <1>4, <3>3
  <2> QED
    BY <2>1, <2>4, <2>5 DEF AtScript
<1>13. CASE MigrateDown(p)
  <2>1. pc[p] = "rollback" /\ pc'[p] = "down" /\ UNCHANGED schema
    BY <1>6, <1>13 DEF MigrateDown, Reads, Goto, TypeOK
  <2>2. Mine(p)
    BY <1>5, <2>1 DEF DownShape, schema
  <2> QED
    BY <1>1, <1>4, <2>2
<1>14. ASSUME NEW t \in Rebuilt, NEW row \in Rows, Write(p, t, row) PROVE Shape'
  <2>1. pc[p] = "serving" /\ pc' = pc /\ version' = version /\ DOMAIN tables' = DOMAIN tables
        /\ \A x \in DOMAIN tables : /\ tables'[x].wide = tables[x].wide
                                    /\ tables'[x].indexed = tables[x].indexed
    <3>1. tables' = [tables EXCEPT ![t].rows = @ \cup {row}]
      BY <1>14 DEF Write
    <3>2. \A x \in DOMAIN tables : tables[x] \in Contents
      BY TablesAre DEF TypeOK, Tables
    <3> QED
      BY <1>14, <3>1, <3>2 DEF Write, Contents
  <2>2. Mine(p)
    BY <1>5, <2>1 DEF AtScript, Whole
  <2> QED
    BY <1>1, <1>4, <2>2
<1> QED
  BY <1>3, <1>8, <1>9, <1>10, <1>11, <1>12, <1>13, <1>14 DEF Step, Refused

\* In turn, and unless a rollback was cut off, the service and the rollback only
\* get to a database of the newest schema, wherever migrations were cut off.
THEOREM SerialOpenIsNewest == Spec => []OpenIsNewest
<1> DEFINE Inv == ~overlap /\ ~cutDown => Shape
<1>1. Init => Inv
  <2> SUFFICES ASSUME Init PROVE Shape
    OBVIOUS
  <2>1. DOMAIN tables \subseteq Rebuilt
    BY DEF Init
  <2>2. ASSUME version = Newest PROVE Whole
    <3>1. tables = [t \in Rebuilt |-> [wide |-> TRUE, rows |-> {}, indexed |-> TRUE]]
      <4>1. {t \in Rebuilt : version >= Since(t)} = Rebuilt
        BY <2>2 DEF Newest, Since
      <4>2. (version = Newest) = TRUE
        BY <2>2
      <4> QED
        BY <4>1, <4>2 DEF Init
    <3> QED
      BY <3>1, Zenon DEF Whole
  <2> QED
    BY <2>1, <2>2, NamesDiffer DEF Init, Shape, AtScript
<1>2. TypeOK /\ TypeOK' /\ (~overlap => TurnInv) /\ Inv /\ [Next]_vars => Inv'
  <2>1. [Next]_vars => overlap' = overlap
    BY DEF Next, vars, Start, Stop, Refused, Step, NextMigration, MigrateUp, Statement,
       RecordVersion, MigrateDown, Write
  <2>2. ASSUME NEW p \in Procs, Stop(p), cutDown PROVE cutDown'
    <3>1. cutDown' = (cutDown \/ pc[p] = "down")
      BY <2>2 DEF Stop
    <3> QED
      BY <2>2, <3>1
  <2>3. [Next]_vars => cutDown' = cutDown \/ \E p \in Procs : Stop(p)
    BY DEF Next, vars, Start, Refused, Step, NextMigration, MigrateUp, Statement,
       RecordVersion, MigrateDown, Write
  <2>4. [Next]_vars => (cutDown => cutDown')
    BY <2>2, <2>3
  <2> QED
    BY <2>1, <2>4, StepShape
<1>3. TypeOK /\ (~overlap => TurnInv) /\ Inv => OpenIsNewest
  <2> SUFFICES ASSUME TurnInv, Shape, NEW p \in Procs, pc[p] \in {"serving", "rollback"}
               PROVE  version = Newest /\ Whole
    BY DEF OpenIsNewest, Whole
  <2>1. version = Newest
    BY DEF TurnInv, Reads
  <2>2. \A q \in Procs : pc[q] # "down"
    BY DEF TurnInv, Alone
  <2> QED
    BY <2>1, <2>2 DEF Shape
<1> QED
  BY <1>1, <1>2, <1>3, TypeCorrect, InTurn, PTL DEF Spec

(***************************************************************************)
(* The rows, whoever migrates, rolls back and serves at once.              *)
(*                                                                         *)
(* A table that is there has all that was kept of it.  While it is gone    *)
(* one of its copies has it.  A copy that a script has created and not yet *)
(* renamed is that script's alone; it has the rows once they are copied,   *)
(* on the way down without the api rows until they are given up.           *)
(***************************************************************************)
Carries(name, t, all) ==
  /\ name \in DOMAIN tables
  /\ \A k \in kept : k[1] = t /\ (all \/ k[2] \notin ApiRows) => k[2] \in tables[name].rows

NoneKept(t) == \A k \in kept : k[1] # t

Owns(p, t) == AtScript(p) /\ Place(p, t) \in 2 .. 4

TableRows(t) ==
  /\ t \in DOMAIN tables => Carries(t, t, TRUE)
  /\ t \notin DOMAIN tables => NoneKept(t) \/ Carries(New(t), t, TRUE) \/ Carries(Old(t), t, TRUE)
  /\ version < Since(t) /\ (Rebuilding \/ t \notin DOMAIN tables) => NoneKept(t)

CopyRows(p, t) ==
  Owns(p, t) =>
    /\ Copy(p, t) \in DOMAIN tables
    /\ Place(p, t) = 3 => Carries(Copy(p, t), t, pc[p] = "up")
    /\ Place(p, t) = 4 => Carries(Copy(p, t), t, TRUE)

OneOwner(t) ==
  \A p, q \in Procs : Owns(p, t) /\ Owns(q, t) /\ Copy(p, t) = Copy(q, t) => p = q

RowInv ==
  \A t \in Rebuilt : TableRows(t) /\ OneOwner(t) /\ \A p \in Procs : CopyRows(p, t)

KeptAfter(s) ==
  IF s.do = "drop" /\ ~s.wide THEN {k \in kept : ~(k[1] = s.table /\ k[2] \in ApiRows)} ELSE kept

SameName(x) == /\ x \in DOMAIN tables' <=> x \in DOMAIN tables
               /\ x \in DOMAIN tables => tables'[x].rows = tables[x].rows

\* A statement that the database makes, and the table it rebuilds.
LEMMA StatementRows ==
  ASSUME TypeOK, NEW t \in Rebuilt, NEW i \in 1 .. 5, NEW c \in {New(t), Old(t)}, NEW up \in BOOLEAN,
         TableRows(t), Rebuilding, Rebuilding', version' = version,
         i = 3 => Carries(c, t, up), i = 4 => Carries(c, t, TRUE),
         Possible(Says(i, t, c, up)), tables' = Effect(Says(i, t, c, up)),
         kept' = KeptAfter(Says(i, t, c, up))
  PROVE  /\ TableRows(t)' /\ kept' \subseteq kept
         /\ \A x \in {New(t), Old(t)} : x # c => SameName(x)
         /\ i = 1 => c \notin DOMAIN tables /\ c \in DOMAIN tables'
         /\ i = 2 => Carries(c, t, up)'
         /\ i = 3 => Carries(c, t, TRUE)'
         /\ i = 5 => SameName(c)
<1>1. c # t /\ New(t) # t /\ Old(t) # t /\ New(t) # Old(t)
  BY NamesDiffer
<1>2. tables = [x \in DOMAIN tables |-> tables[x]] /\ \A x \in DOMAIN tables : tables[x] \in Contents
  BY TablesAre DEF TypeOK, Tables
<1>3. kept' \subseteq kept
  BY DEF KeptAfter
<1>4. version' < Since(t) => NoneKept(t)'
  BY <1>3 DEF TableRows, NoneKept
<1>5. CASE i = 1
  <2>1. /\ c \notin DOMAIN tables /\ kept' = kept
        /\ tables' = [x \in DOMAIN tables \cup {c} |-> IF x = c THEN Empty(up) ELSE tables[x]]
    BY <1>5, VerbIs DEF Possible, Effect, KeptAfter, Says
  <2>2. \A x : x # c => SameName(x)
    BY <2>1 DEF SameName
  <2>3. \A x, all : Carries(x, t, all) => Carries(x, t, all)'
    BY <2>1 DEF Carries
  <2>4. TableRows(t)'
    BY <1>1, <1>4, <2>1, <2>2, <2>3 DEF TableRows, NoneKept, SameName
  <2> QED
    BY <1>3, <1>5, <2>1, <2>2, <2>4
<1>6. CASE i = 2
  <2> DEFINE more == IF up THEN tables[t].rows ELSE tables[t].rows \ ApiRows
  <2>1. /\ t \in DOMAIN tables /\ c \in DOMAIN tables /\ kept' = kept
        /\ tables' = [tables EXCEPT ![c].rows = @ \cup more]
    BY <1>6, VerbIs DEF Possible, Effect, KeptAfter, Says
  <2>2. /\ DOMAIN tables' = DOMAIN tables
        /\ \A x \in DOMAIN tables : x # c => tables'[x] = tables[x]
        /\ more \subseteq tables'[c].rows
    BY <1>2, <2>1 DEF Contents
  <2>3. Carries(c, t, up)'
    <3>1. \A k \in kept : k[1] = t /\ (up \/ k[2] \notin ApiRows) => k[2] \in more
      BY <2>1 DEF TableRows, Carries
    <3> QED
      BY <2>1, <2>2, <3>1 DEF Carries
  <2>4. TableRows(t)'
    BY <1>1, <1>4, <2>1, <2>2 DEF TableRows, Carries
  <2>5. \A x : x # c => SameName(x)
    BY <2>2 DEF SameName
  <2> QED
    BY <1>3, <1>6, <2>1, <2>2, <2>3, <2>4, <2>5
<1>7. CASE i = 3
  <2>1. /\ kept' = IF up THEN kept ELSE {k \in kept : ~(k[1] = t /\ k[2] \in ApiRows)}
        /\ tables' = [x \in DOMAIN tables \ {t} |-> tables[x]]
    BY <1>7, VerbIs DEF Effect, Without, KeptAfter, Says
  <2>2. Carries(c, t, TRUE)'
    BY <1>1, <1>7, <2>1 DEF Carries
  <2>3. \A x : x # t => SameName(x)
    BY <2>1 DEF SameName
  <2>4. TableRows(t)'
    BY <1>4, <2>1, <2>2 DEF TableRows, Carries
  <2>5. \A x \in {New(t), Old(t)} : SameName(x)
    BY <1>1, <2>3
  <2>6. i # 1 /\ i # 2 /\ i # 5
    BY <1>7
  <2> QED
    BY <1>3, <2>2, <2>4, <2>5, <2>6, Zenon
<1>8. CASE i = 4
  <2>1. /\ c \in DOMAIN tables /\ kept' = kept
        /\ tables' = [x \in (DOMAIN tables \ {c}) \cup {t} |-> IF x = t THEN tables[c] ELSE tables[x]]
    BY <1>8, VerbIs DEF Possible, Effect, Without, KeptAfter, Says
  <2>2. Carries(t, t, TRUE)'
    BY <1>8, <2>1 DEF Carries
  <2>3. TableRows(t)'
    BY <1>4, <2>1, <2>2 DEF TableRows
  <2>4. \A x : x # t /\ x # c => SameName(x)
    BY <2>1 DEF SameName
  <2> QED
    BY <1>1, <1>3, <1>8, <2>3, <2>4
<1>9. CASE i = 5
  <2>1. kept' = kept /\ tables' = [tables EXCEPT ![t].indexed = TRUE] /\ t \in DOMAIN tables
    BY <1>9, VerbIs DEF Possible, Effect, KeptAfter, Says
  <2>2. DOMAIN tables' = DOMAIN tables /\ \A x \in DOMAIN tables : tables'[x].rows = tables[x].rows
    BY <1>2, <2>1 DEF Contents
  <2>3. \A x : SameName(x)
    BY <2>2 DEF SameName
  <2>4. TableRows(t)'
    BY <1>4, <2>1, <2>2 DEF TableRows, Carries
  <2> QED
    BY <1>3, <1>9, <2>3, <2>4
<1>10. i = 1 \/ i = 2 \/ i = 3 \/ i = 4 \/ i = 5
  OBVIOUS
<1> QED
  BY <1>5, <1>6, <1>7, <1>8, <1>9, <1>10, Zenon

\* What a process does leaves the others where they are.
LEMMA OthersStand ==
  ASSUME TypeOK, NEW p \in Procs,
         \/ \E c \in Commands : Start(p, c)
         \/ Stop(p) \/ Step(p)
         \/ \E t \in Rebuilt, row \in Rows : Write(p, t, row),
         NEW q \in Procs, q # p, NEW t \in Rebuilt
  PROVE  /\ Owns(q, t)' = Owns(q, t) /\ AtScript(q)' = AtScript(q)
         /\ Copy(q, t)' = Copy(q, t) /\ Place(q, t)' = Place(q, t) /\ pc'[q] = pc[q]
<1>1. pc'[q] = pc[q] /\ at'[q] = at[q] /\ line'[q] = line[q]
  BY DEF Start, Stop, Refused, Step, NextMigration, MigrateUp, Statement, RecordVersion, MigrateDown,
     Write, Goto, TypeOK, schema
<1> QED
  BY <1>1 DEF Owns, AtScript, Copy, Place

\* The others keep the copies they own through a step that leaves copies alone.
LEMMA CopiesStand ==
  ASSUME TypeOK, RowInv, NEW p \in Procs,
         \/ \E c \in Commands : Start(p, c)
         \/ Stop(p) \/ Step(p)
         \/ \E t \in Rebuilt, row \in Rows : Write(p, t, row),
         NEW t \in Rebuilt, ~Owns(p, t)', SameName(New(t)), SameName(Old(t)),
         Rebuilding => kept' \subseteq kept
  PROVE  OneOwner(t)' /\ \A q \in Procs : CopyRows(q, t)'
<1>1. ASSUME NEW q \in Procs, q # p
      PROVE  /\ Owns(q, t)' = Owns(q, t)
             /\ Copy(q, t)' = Copy(q, t) /\ Place(q, t)' = Place(q, t) /\ pc'[q] = pc[q]
  BY <1>1, OthersStand
<1>2. OneOwner(t)'
  BY <1>1 DEF RowInv, OneOwner
<1>3. ASSUME NEW q \in Procs, Owns(q, t)' PROVE CopyRows(q, t)'
  <2>1. q # p /\ Owns(q, t)
    BY <1>1, <1>3
  <2>2. kept' \subseteq kept
    BY <2>1 DEF Owns, Rebuilding
  <2>3. PICK c \in {New(t), Old(t)}, up \in BOOLEAN : c = Copy(q, t) /\ up = (pc[q] = "up")
    BY DEF Copy
  <2>4. /\ c \in DOMAIN tables
        /\ Place(q, t) = 3 => Carries(c, t, up)
        /\ Place(q, t) = 4 => Carries(c, t, TRUE)
    BY <2>1, <2>3 DEF RowInv, CopyRows
  <2>5. SameName(c)
    BY <2>3
  <2>6. /\ c \in DOMAIN tables'
        /\ Place(q, t) = 3 => Carries(c, t, up)'
        /\ Place(q, t) = 4 => Carries(c, t, TRUE)'
    BY <2>2, <2>4, <2>5 DEF SameName, Carries
  <2>7. Copy(q, t)' = c /\ (pc'[q] = "up") = up /\ Place(q, t)' = Place(q, t)
    BY <1>1, <2>1, <2>3
  <2> QED
    BY <2>6, <2>7 DEF CopyRows
<1> QED
  BY <1>2, <1>3 DEF CopyRows

\* A table and its copies that a statement is not about.
LEMMA OtherRows ==
  ASSUME TypeOK, RowInv, NEW p \in Procs, Statement(p), NEW t \in Rebuilt, NEW u \in Rebuilt, u # t,
         NEW s \in Statements, s.table = t, s.copy = Copy(p, t), Place(p, t) \in 1 .. 5,
         version' = version, tables' = Effect(s), kept' = KeptAfter(s),
         line' = [line EXCEPT ![p] = @ + 1]
  PROVE  TableRows(u)' /\ OneOwner(u)' /\ \A q \in Procs : CopyRows(q, u)'
<1>1. u \notin {s.table, s.copy} /\ New(u) \notin {s.table, s.copy} /\ Old(u) \notin {s.table, s.copy}
  BY NamesDiffer DEF Copy
<1>2. SameName(u) /\ SameName(New(u)) /\ SameName(Old(u))
  BY <1>1, EffectFrame DEF SameName
<1>3. kept' \subseteq kept /\ Rebuilding
  BY DEF KeptAfter, Statement, Rebuilding
<1>4. TableRows(u)'
  <2>1. \A x \in {u, New(u), Old(u)} : Carries(x, u, TRUE) => Carries(x, u, TRUE)'
    BY <1>2, <1>3 DEF Carries, SameName
  <2>2. NoneKept(u) => NoneKept(u)'
    BY <1>3 DEF NoneKept
  <2>3. u \in DOMAIN tables' <=> u \in DOMAIN tables
    BY <1>2 DEF SameName
  <2>4. TableRows(u)
    BY DEF RowInv
  <2> QED
    BY <1>3, <2>1, <2>2, <2>3, <2>4 DEF TableRows
<1>5. ~Owns(p, u)'
  <2>1. /\ Place(p, u)' = Place(p, u) + 1
        /\ Place(p, u) \in -4 .. 0 \/ Place(p, u) \in 6 .. 10
    BY OtherPlace
  <2>2. ~(Place(p, u)' \in 2 .. 4)
    BY <2>1
  <2> QED
    BY <2>2 DEF Owns
<1>6. OneOwner(u)' /\ \A q \in Procs : CopyRows(q, u)'
  BY <1>2, <1>3, <1>5, CopiesStand DEF Step
<1> QED
  BY <1>4, <1>6

LEMMA StatementKeepsRows ==
  ASSUME TypeOK, RowInv, NEW p \in Procs, Statement(p), ~Refused(p)
  PROVE  RowInv'
<1>1. /\ AtScript(p) /\ line[p] <= Len(Script(p)) /\ pc[p] \in {"up", "down"}
      /\ Possible(Script(p)[line[p]]) /\ tables' = Effect(Script(p)[line[p]])
      /\ line' = [line EXCEPT ![p] = @ + 1] /\ kept' = KeptAfter(Script(p)[line[p]])
      /\ UNCHANGED <<version, pc, at>>
  BY DEF Statement, AtScript, KeptAfter
<1>2. PICK t \in Rebuilt, i \in 1 .. 5 :
        Place(p, t) = i /\ Script(p)[line[p]] = Says(i, t, Copy(p, t), pc[p] = "up")
  BY <1>1, LineIs
<1>3. PICK c \in {New(t), Old(t)}, up \in BOOLEAN : c = Copy(p, t) /\ up = (pc[p] = "up")
  BY DEF Copy
<1> DEFINE s == Says(i, t, c, up)
<1>4. s \in Statements /\ s.table = t /\ s.copy = c
  <2>1. c \in Names
    BY NamesAre DEF New, Old
  <2> QED
    BY <2>1, VerbIs DEF Statements, Says
<1>5. Possible(s) /\ tables' = Effect(s) /\ kept' = KeptAfter(s)
  BY <1>1, <1>2, <1>3
<1> HIDE DEF s
<1>6. ASSUME NEW u \in Rebuilt, u # t
      PROVE  TableRows(u)' /\ OneOwner(u)' /\ \A q \in Procs : CopyRows(q, u)'
  BY <1>1, <1>2, <1>3, <1>4, <1>5, <1>6, OtherRows
<1>7. AtScript(p)' /\ Rebuilding /\ Rebuilding'
  BY <1>1 DEF AtScript, Rebuilding
<1>8. /\ Place(p, t)' = i + 1 /\ Copy(p, t)' = c /\ (pc'[p] = "up") = up
      /\ Owns(p, t) <=> i \in 2 .. 4
      /\ Owns(p, t)' <=> i \in 1 .. 3
  <2>1. pc'[p] = pc[p] /\ line[p] \in Int /\ line'[p] = line[p] + 1
    <3>1. line \in [Procs -> 1 .. 11] /\ pc' = pc /\ line' = [line EXCEPT ![p] = @ + 1]
      BY <1>1 DEF TypeOK
    <3> QED
      BY <3>1
  <2>2. Place(p, t)' = i + 1
    BY <1>2, <2>1 DEF Place, Base
  <2>3. i + 1 \in 2 .. 4 <=> i \in 1 .. 3
    OBVIOUS
  <2> QED
    BY <1>1, <1>2, <1>3, <1>7, <2>1, <2>2, <2>3 DEF Copy, Owns
<1>9. /\ TableRows(t)' /\ kept' \subseteq kept
      /\ \A x \in {New(t), Old(t)} : x # c => SameName(x)
      /\ i = 1 => c \notin DOMAIN tables /\ c \in DOMAIN tables'
      /\ i = 2 => Carries(c, t, up)'
      /\ i = 3 => Carries(c, t, TRUE)'
      /\ i = 5 => SameName(c)
  <2>1. (i = 3 => Carries(c, t, up)) /\ (i = 4 => Carries(c, t, TRUE)) /\ TableRows(t)
    <3>1. TableRows(t) /\ CopyRows(p, t)
      BY DEF RowInv
    <3>2. i = 3 \/ i = 4 => Owns(p, t)
      BY <1>8
    <3> QED
      BY <1>2, <1>3, <3>1, <3>2 DEF CopyRows
  <2> QED
    BY <1>1, <1>5, <1>7, <2>1, StatementRows DEF s
<1>10. ASSUME NEW q \in Procs, q # p, Owns(q, t), Copy(q, t) = c PROVE i = 5 /\ ~Owns(p, t)'
  <2>1. ~(i \in 2 .. 4)
    BY <1>3, <1>8, <1>10 DEF RowInv, OneOwner
  <2>2. i # 1
    BY <1>9, <1>10 DEF RowInv, CopyRows
  <2> QED
    BY <1>8, <2>1, <2>2
<1>11. ASSUME NEW q \in Procs, q # p
       PROVE  /\ Owns(q, t)' = Owns(q, t)
              /\ Copy(q, t)' = Copy(q, t) /\ Place(q, t)' = Place(q, t) /\ pc'[q] = pc[q]
  BY <1>11, OthersStand DEF Step
<1>12. OneOwner(t)'
  BY <1>8, <1>10, <1>11 DEF RowInv, OneOwner
<1>13. ASSUME NEW q \in Procs, Owns(q, t)' PROVE CopyRows(q, t)'
  <2>1. CASE q = p
    BY <1>8, <1>9, <1>13, <2>1 DEF CopyRows, Carries
  <2>2. CASE q # p
    <3>1. PICK d \in {New(t), Old(t)}, rising \in BOOLEAN : d = Copy(q, t) /\ rising = (pc[q] = "up")
      BY DEF Copy
    <3>2. SameName(d)
      BY <1>9, <1>10, <1>11, <1>13, <2>2, <3>1
    <3>3. /\ d \in DOMAIN tables
          /\ Place(q, t) = 3 => Carries(d, t, rising)
          /\ Place(q, t) = 4 => Carries(d, t, TRUE)
      BY <1>11, <1>13, <2>2, <3>1 DEF RowInv, CopyRows
    <3>4. /\ d \in DOMAIN tables'
          /\ Place(q, t) = 3 => Carries(d, t, rising)'
          /\ Place(q, t) = 4 => Carries(d, t, TRUE)'
      BY <1>9, <3>2, <3>3 DEF SameName, Carries
    <3>5. Copy(q, t)' = d /\ (pc'[q] = "up") = rising /\ Place(q, t)' = Place(q, t)
      BY <1>11, <2>2, <3>1
    <3> QED
      BY <3>4, <3>5 DEF CopyRows
  <2> QED
    BY <2>1, <2>2
<1>14. \A q \in Procs : CopyRows(q, t)'
  BY <1>13 DEF CopyRows
<1> QED
  BY <1>6, <1>9, <1>12, <1>14 DEF RowInv

\* Every step keeps this: a statement as above, the others by what they do to tables.
LEMMA StepRows ==
  ASSUME TypeOK, TypeOK', RowInv, [Next]_vars
  PROVE  RowInv'
<1>1. CASE UNCHANGED vars
  BY <1>1 DEF vars, RowInv, TableRows, CopyRows, OneOwner, Owns, Carries, NoneKept, Copy, Place,
     AtScript, Rebuilding
<1>2. SUFFICES ASSUME NEW p \in Procs,
                      \/ \E c \in Commands : Start(p, c)
                      \/ Stop(p) \/ Step(p)
                      \/ \E t \in Rebuilt, row \in Rows : Write(p, t, row)
               PROVE  RowInv'
  BY <1>1 DEF Next
<1>3. \A t \in Rebuilt : Since(t) \in 1 .. 2 /\ New(t) \notin Rebuilt /\ Old(t) \notin Rebuilt
  BY NamesDiffer DEF Since
<1>4. ASSUME NEW q \in Procs, AtScript(q)', q # p PROVE Rebuilding
  BY <1>2, <1>4, OthersStand, NamesAre DEF Rebuilding
<1>5. ASSUME \A t \in Rebuilt : ~Owns(p, t)' /\ TableRows(t)',
             \A x : x \notin Rebuilt => SameName(x), Rebuilding => kept' \subseteq kept
      PROVE  RowInv'
  BY <1>2, <1>3, <1>5, CopiesStand DEF RowInv
<1>6. ASSUME UNCHANGED <<tables, kept>>, AtScript(p)' => line'[p] = 1,
             \A t \in Rebuilt : version' < Since(t) => version < Since(t) /\ ~AtScript(p)'
      PROVE  RowInv'
  <2>1. ASSUME NEW t \in Rebuilt PROVE ~Owns(p, t)'
    <3>1. line'[p] = 1 => ~(Place(p, t)' \in 2 .. 4)
      BY DEF Place, Base
    <3> QED
      BY <1>6, <3>1 DEF Owns
  <2>2. ASSUME NEW t \in Rebuilt PROVE TableRows(t)'
    <3>1. version' < Since(t) /\ Rebuilding' => Rebuilding
      BY <1>4, <1>6 DEF Rebuilding
    <3>2. TableRows(t)
      BY DEF RowInv
    <3> QED
      BY <1>6, <3>1, <3>2 DEF TableRows, Carries, NoneKept
  <2> QED
    BY <1>5, <1>6, <2>1, <2>2 DEF SameName
<1>7. CASE Stop(p) \/ \E c \in Commands : Start(p, c)
  <2>1. UNCHANGED <<version, tables, kept>> /\ pc'[p] \in {"off", "opening"}
    BY <1>7 DEF Start, Stop, Goto, TypeOK, schema
  <2> QED
    BY <1>6, <2>1 DEF AtScript
<1>8. CASE NextMigration(p)
  <2>1. UNCHANGED <<version, tables, kept>> /\ line'[p] = 1 /\ at'[p] = version /\ version \in Nat
    BY <1>8 DEF NextMigration, schema, TypeOK
  <2>2. AtScript(p)' => version >= 8
    BY <2>1 DEF AtScript, Newest
  <2> QED
    BY <1>3, <1>6, <2>1, <2>2
<1>9. CASE RecordVersion(p)
  <2>1. /\ UNCHANGED <<tables, kept>> /\ pc'[p] \in {"opening", "off"}
        /\ version' = version \/ version' >= 8
    BY <1>9 DEF RecordVersion, Goto, TypeOK, Newest
  <2>2. ~AtScript(p)'
    BY <2>1 DEF AtScript
  <2>3. \A t \in Rebuilt : version' < Since(t) => version < Since(t)
    BY <1>3, <2>1 DEF TypeOK
  <2> QED
    BY <1>6, <2>1, <2>2, <2>3
<1>10. CASE MigrateDown(p) /\ version = Newest
  <2>1. UNCHANGED <<version, tables, kept>> /\ line'[p] = 1 /\ version = 9
    BY <1>10 DEF MigrateDown, schema, TypeOK, Newest
  <2> QED
    BY <1>3, <1>6, <2>1
<1>11. CASE MigrateDown(p) /\ version # Newest
  <2>1. /\ pc'[p] = "off" /\ version' <= version
        /\ tables' = [x \in {x \in DOMAIN tables : x \in Rebuilt => Since(x) <= version'} |-> tables[x]]
        /\ kept' = {k \in kept : Since(k[1]) <= version'}
    BY <1>11 DEF MigrateDown, Goto, TypeOK
  <2>2. ~AtScript(p)'
    BY <2>1 DEF AtScript
  <2>3. \A x : x \notin Rebuilt => SameName(x)
    BY <2>1 DEF SameName
  <2>4. ASSUME NEW t \in Rebuilt, version' < Since(t) PROVE NoneKept(t)' /\ t \notin DOMAIN tables'
    <3>1. version' \in Int /\ Since(t) \in Int
      BY <1>3 DEF TypeOK
    <3>2. ~(Since(t) <= version')
      BY <2>4, <3>1
    <3> QED
      BY <2>1, <3>2 DEF NoneKept
  <2>5. ASSUME NEW t \in Rebuilt, ~(version' < Since(t)) PROVE TableRows(t)'
    <3>1. version' \in Int /\ Since(t) \in Int
      BY <1>3 DEF TypeOK
    <3>2. SameName(t)
      BY <2>1, <2>5, <3>1 DEF SameName
    <3>3. SameName(New(t)) /\ SameName(Old(t))
      BY <1>3, <2>3
    <3>4. \A x \in {t, New(t), Old(t)} : Carries(x, t, TRUE) => Carries(x, t, TRUE)'
      BY <2>1, <3>2, <3>3 DEF Carries, SameName
    <3>5. NoneKept(t) => NoneKept(t)'
      BY <2>1 DEF NoneKept
    <3>6. TableRows(t)
      BY DEF RowInv
    <3> QED
      BY <2>5, <3>2, <3>4, <3>5, <3>6 DEF TableRows, SameName
  <2>6. \A t \in Rebuilt : TableRows(t)'
    BY <2>4, <2>5 DEF TableRows
  <2> QED
    BY <1>5, <2>1, <2>2, <2>3, <2>6 DEF Owns
<1>12. CASE MigrateUp(p) /\ ~Refused(p)
  <2> DEFINE created == {t \in Rebuilt : Since(t) = at[p] + 1}
  <2>1. /\ pc'[p] = "opening" /\ kept' = kept /\ version' = version + 1 /\ at[p] = version
        /\ created \cap DOMAIN tables = {}
        /\ tables' = [t \in DOMAIN tables \cup created |->
                        IF t \in created THEN [Empty(FALSE) EXCEPT !.indexed = TRUE] ELSE tables[t]]
    BY <1>12 DEF MigrateUp, Goto, TypeOK
  <2>2. ~AtScript(p)' /\ (Rebuilding' => Rebuilding)
    BY <1>4, <2>1 DEF AtScript, Rebuilding
  <2>3. \A x : x \notin created => SameName(x)
    BY <2>1 DEF SameName
  <2>4. ASSUME NEW t \in created PROVE TableRows(t)'
    <3>1. version < Since(t) /\ t \notin DOMAIN tables /\ t \in DOMAIN tables' /\ ~(version' < Since(t))
      BY <2>1 DEF TypeOK
    <3>2. NoneKept(t)
      BY <3>1 DEF RowInv, TableRows
    <3> QED
      BY <2>1, <3>1, <3>2 DEF TableRows, Carries, NoneKept
  <2>5. ASSUME NEW t \in Rebuilt, t \notin created PROVE TableRows(t)'
    <3>1. SameName(t) /\ SameName(New(t)) /\ SameName(Old(t))
      BY <1>3, <2>3, <2>5
    <3>2. \A x \in {t, New(t), Old(t)} : Carries(x, t, TRUE) => Carries(x, t, TRUE)'
      BY <2>1, <3>1 DEF Carries, SameName
    <3>3. NoneKept(t) => NoneKept(t)'
      BY <2>1 DEF NoneKept
    <3>4. version' < Since(t) => version < Since(t)
      BY <1>3, <2>1 DEF TypeOK
    <3>5. TableRows(t)
      BY DEF RowInv
    <3> QED
      BY <2>2, <3>1, <3>2, <3>3, <3>4, <3>5 DEF TableRows, SameName
  <2> QED
    BY <1>5, <2>1, <2>2, <2>3, <2>4, <2>5 DEF Owns
<1>13. CASE Statement(p) /\ ~Refused(p)
  BY <1>13, StatementKeepsRows
<1>14. ASSUME NEW t \in Rebuilt, NEW row \in Rows, Write(p, t, row) PROVE RowInv'
  <2>1. /\ version' = version /\ pc' = pc /\ pc[p] = "serving"
        /\ t \in DOMAIN tables /\ tables' = [tables EXCEPT ![t].rows = @ \cup {row}]
        /\ kept' \subseteq kept \cup {<<t, row>>} /\ (Rebuilding => kept' = kept)
    BY <1>14 DEF Write
  <2>2. \A x \in DOMAIN tables : tables[x] \in Contents
    BY TablesAre DEF TypeOK, Tables
  <2>3. /\ DOMAIN tables' = DOMAIN tables /\ row \in tables'[t].rows
        /\ tables[t].rows \subseteq tables'[t].rows
        /\ \A x : x # t => SameName(x)
    BY <2>1, <2>2 DEF Contents, SameName
  <2>4. ~AtScript(p)' /\ (Rebuilding' => Rebuilding)
    BY <1>4, <2>1 DEF AtScript, Rebuilding
  <2>5. TableRows(t)'
    <3>1. TableRows(t)
      BY DEF RowInv
    <3>2. Carries(t, t, TRUE)'
      BY <2>1, <2>3, <3>1 DEF TableRows, Carries
    <3> QED
      BY <2>1, <2>3, <2>4, <3>1, <3>2 DEF TableRows, NoneKept
  <2>6. ASSUME NEW u \in Rebuilt, u # t PROVE TableRows(u)'
    <3>1. SameName(u) /\ SameName(New(u)) /\ SameName(Old(u))
      BY <1>3, <2>3, <2>6
    <3>2. \A k \in kept' : k[1] = u => k \in kept
      BY <2>1, <2>6
    <3>3. \A x \in {u, New(u), Old(u)} : Carries(x, u, TRUE) => Carries(x, u, TRUE)'
      BY <3>1, <3>2 DEF Carries, SameName
    <3>4. NoneKept(u) => NoneKept(u)'
      BY <3>2 DEF NoneKept
    <3>5. TableRows(u)
      BY DEF RowInv
    <3> QED
      BY <2>1, <2>4, <3>1, <3>3, <3>4, <3>5 DEF TableRows, SameName
  <2> QED
    BY <1>5, <2>1, <2>3, <2>4, <2>5, <2>6 DEF Owns
<1> QED
  BY <1>2, <1>7, <1>8, <1>9, <1>10, <1>11, <1>12, <1>13, <1>14 DEF Step, Refused

\* However many processes migrate, roll back and serve at once, and wherever each is
\* cut off: a row written while none rebuilt tables is in its table or in one of the
\* two copies that 0009 makes of it, but for those a rollback gives up.
THEOREM AlwaysRowsSurvive == Spec => []RowsSurvive
<1>1. Init => RowInv
  BY DEF Init, RowInv, TableRows, CopyRows, OneOwner, Owns, NoneKept, Carries, AtScript
<1>2. TypeOK /\ RowInv => RowsSurvive
  <2> SUFFICES ASSUME TypeOK, RowInv, NEW k \in kept
               PROVE  \E x \in DOMAIN tables \cap {k[1], New(k[1]), Old(k[1])} : k[2] \in tables[x].rows
    BY DEF RowsSurvive
  <2>1. k[1] \in Rebuilt
    BY DEF TypeOK
  <2>2. TableRows(k[1])
    BY <2>1 DEF RowInv
  <2> QED
    BY <2>2 DEF TableRows, NoneKept, Carries
<1> QED
  BY <1>1, <1>2, StepRows, TypeCorrect, PTL DEF Spec

=============================================================================
