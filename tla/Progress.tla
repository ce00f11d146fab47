----------------------------- MODULE Progress ------------------------------
(***************************************************************************)
(* One sprint as its pages show it, computed on each read: the trace of    *)
(* service/traces.go, the uptime of service/metrics.go, and the banner of  *)
(* web/handlers.go.                                                        *)
(*                                                                         *)
(* Time is in units of the clock, UTC, DayLength of them a day; dates are  *)
(* those of the server's time zone, whose local clock is put on and back   *)
(* at any time.  How requests that change a sprint interleave is in        *)
(* SprintService; here each is one step, and the event of a phase change   *)
(* may be lost.                                                            *)
(***************************************************************************)
EXTENDS Integers, FiniteSets, SequencesExt

CONSTANTS
  DayLength,    \* the units of a day
  Zones,        \* the time zones: the offsets, in units, that the local clock of each has
  LastInstant,  \* bound: the instants are DayLength..LastInstant
  MaxChanges,   \* bound: the phase changes
  MaxItems,     \* bound: the items of a checklist
  Lengths,      \* the days a sprint should take: 7, as no request sets duration_days
  Never         \* no instant, no date

ASSUME ClockAssumption ==
  /\ DayLength \in Nat \ {0} /\ LastInstant \in Nat
  /\ \A clocks \in Zones : /\ clocks \subseteq 1 - DayLength .. DayLength - 1
                           /\ \A a, b \in clocks : a - b < DayLength
ASSUME LengthsAssumption == Lengths \subseteq Nat \ {0}
ASSUME NeverAssumption == Never \notin Int
ASSUME BoundsAssumption == MaxChanges \in Nat /\ MaxItems \in Nat

VARIABLES
  now,          \* the clock
  zone,         \* the time zone: the offsets its clock has
  offset,       \* the one it has now
  created,      \* when the sprint was created
  started,      \* column started_on, the local date then
  dawn,         \* the offset with which that date is read as local midnight
  phase,        \* column current_phase
  status,       \* column status
  ended,        \* column ended_on, or Never
  changes,      \* the events sprint.phase_changed of the sprint: [to, at]
  spent,        \* history: the time that each phase has taken
  since,        \* history: when the sprint came to its phase
  lost          \* history: how many of their events were lost

birth == <<zone, created, started, dawn>>
progress == <<now, offset, birth, phase, status, ended, changes, spent, since, lost>>

Phases == 1 .. 4
Statuses == {"planned", "active", "shipped", "abandoned"}
Finished == status \in {"shipped", "abandoned"}

\* Service.Today
Today == (now + offset) \div DayLength

\* A length of time in whole days, as int() makes it: cut towards zero.
WholeDays(time) == IF time < 0 THEN -((-time) \div DayLength) ELSE time \div DayLength

\* The sprint is of its type.
ProgressTypeOK ==
  /\ now \in Nat /\ zone \in Zones /\ offset \in zone
  /\ created \in Nat /\ created <= now /\ started \in Int /\ dawn \in zone
  /\ phase \in Phases /\ status \in Statuses /\ (ended = Never \/ ended \in Int)
  /\ changes \in Seq([to : Phases, at : Nat])
  /\ spent \in [Phases -> Nat] /\ since \in Nat /\ lost \in Nat

\* A sprint may be created in any status, and has no end then.  Which of the
\* offsets was in force at midnight, or is taken for a midnight that the clock
\* skips or strikes twice, is left open.
ProgressInit ==
  /\ now \in DayLength .. 2 * DayLength - 1
  /\ created = now /\ since = now
  /\ zone \in Zones /\ offset \in zone /\ dawn \in zone /\ started = Today
  /\ phase = 1 /\ status \in Statuses /\ ended = Never
  /\ changes = <<>> /\ spent = [p \in Phases |-> 0] /\ lost = 0

Tick ==
  /\ now < LastInstant
  /\ now' = now + 1
  /\ spent' = [spent EXCEPT ![phase] = @ + 1]
  /\ UNCHANGED <<offset, birth, phase, status, ended, changes, since, lost>>

\* Summer time begins or ends.
SetClock(o) ==
  /\ offset' = o
  /\ UNCHANGED <<now, birth, phase, status, ended, changes, spent, since, lost>>

\* The phase it is in already may be set again, and is logged again.
SetPhase(p) ==
  /\ Len(changes) + lost < MaxChanges
  /\ phase' = p
  /\ since' = IF p = phase THEN since ELSE now
  /\ \/ changes' = Append(changes, [to |-> p, at |-> now]) /\ UNCHANGED lost
     \/ lost' = lost + 1 /\ UNCHANGED changes
  /\ UNCHANGED <<now, offset, birth, status, ended, spent>>

\* Only shipping stamps ended_on, and nothing clears it.
SetStatus(s) ==
  /\ status' = s
  /\ ended' = IF s = "shipped" THEN Today ELSE ended
  /\ UNCHANGED <<now, offset, birth, phase, changes, spent, since, lost>>

ProgressNext ==
  \/ Tick
  \/ \E o \in zone : SetClock(o)
  \/ \E p \in Phases : SetPhase(p)
  \/ \E s \in Statuses : SetStatus(s)

ProgressSpec == ProgressInit /\ [][ProgressNext]_progress

-----------------------------------------------------------------------------
(* SprintTrace *)

Entries(p) == {i \in DOMAIN changes : changes[i].to = p}

\* mutant: the last entry counts, not the first
LastStart(p) ==
  IF p = 1 THEN created ELSE IF Entries(p) = {} THEN Never ELSE changes[Max(Entries(p))].at

\* A phase starts when it is first entered, the first with the sprint.
PhaseStart(p) ==
  IF p = 1 THEN created ELSE IF Entries(p) = {} THEN Never ELSE changes[Min(Entries(p))].at

Entered(p) == p <= phase /\ PhaseStart(p) # Never

\* The end of the date ended_on, a second before midnight, taken as UTC.
DayEnd == (ended + 1) * DayLength - 1

TraceEnd == IF Finished /\ ended # Never /\ DayEnd > created THEN DayEnd ELSE now

Later(p) == {q \in Phases : q > p /\ Entered(q)}

\* mutant: a span may end before it starts
UnclampedEnd(p) == IF Later(p) = {} THEN TraceEnd ELSE PhaseStart(Min(Later(p)))

\* mutant: a span lasts until the last phase entered, not the next
LastEnd(p) == Max({PhaseStart(p), IF Later(p) = {} THEN TraceEnd ELSE PhaseStart(Max(Later(p)))})

\* A span ends where the next begins, or with the trace, and not before it starts.
SpanEnd(p) ==
  Max({PhaseStart(p), IF Later(p) = {} THEN TraceEnd ELSE PhaseStart(Min(Later(p)))})

Duration(p) == IF Entered(p) THEN SpanEnd(p) - PhaseStart(p) ELSE 0

TotalDuration == Duration(1) + Duration(2) + Duration(3) + Duration(4)

-----------------------------------------------------------------------------
(* CurrentSprintUptime *)

UptimePhaseStart == IF changes = <<>> THEN created ELSE Last(changes).at

DaysInPhase == WholeDays(now - UptimePhaseStart) + 1

\* Local midnight of started_on, as an instant.
FirstMidnight == started * DayLength - dawn

\* The time since then in days of DayLength, whatever the clock was put on or back.
DaysActive == WholeDays(now - FirstMidnight) + 1

-----------------------------------------------------------------------------
(* computeSprintHealthBanner, of an active sprint *)

\* From the start of the date started_on as one of UTC to now, cut towards zero.
DaysSince == WholeDays(now - started * DayLength)

AtLeast(part, whole, percent) == part * 100 >= whole * percent

\* mutant: a finished checklist is not looked at once the sprint is overdue
BannerOverdue(done, total, length, elapsed) ==
  LET behind(percent) == total = 0 \/ ~AtLeast(done, total, percent)
  IN IF elapsed > length THEN "critical"
     ELSE IF AtLeast(elapsed, length, 80) /\ behind(50) THEN "critical"
     ELSE IF AtLeast(elapsed, length, 50) /\ behind(25) THEN "warning"
     ELSE IF total > 0 THEN "success" ELSE "none"

\* Progress is 0 if there is nothing to do.
Banner(done, total, length, elapsed) ==
  LET behind(percent) == total = 0 \/ ~AtLeast(done, total, percent)
  IN IF elapsed > length /\ behind(100) THEN "critical"
     ELSE IF AtLeast(elapsed, length, 80) /\ behind(50) THEN "critical"
     ELSE IF AtLeast(elapsed, length, 50) /\ behind(25) THEN "warning"
     ELSE IF total > 0 THEN "success" ELSE "none"

-----------------------------------------------------------------------------
(* What they should be *)

PhaseBefore(i) == IF i = 1 THEN 1 ELSE changes[i - 1].to

\* No event is missing, and the sprint never went back to an earlier phase.
NeverBack == lost = 0 /\ \A i \in DOMAIN changes : changes[i].to >= PhaseBefore(i)

\* Nor was the phase set that it was in.
OnlyForward == NeverBack /\ \A i \in DOMAIN changes : changes[i].to # PhaseBefore(i)

\* However a sprint jumped between phases, was finished, or lost its events, and
\* whatever the time zone makes of ended_on, no span is negative and none is drawn
\* for a phase ahead; spans of a sprint that never went back leave no gap.
TraceFits ==
  /\ \A p \in Phases : Duration(p) >= 0 /\ (p > phase => Duration(p) = 0)
  /\ lost = 0 => Entered(phase)
  /\ NeverBack => created + TotalDuration = Max({TraceEnd, PhaseStart(phase)})

LocalDays == Today - started

\* The days of a sprint are the local ones as long as the clock stands as it did on
\* its first midnight.  A clock that has been put on since makes them a day short at
\* times, and one put back a day ahead, never more and never the other way round.
\* A sprint is not longer in a phase than it is at all, but for a first midnight
\* that strikes twice, the second time after the sprint was created.
DaysFollowTheClock ==
  /\ DaysActive - (Max({0, LocalDays}) + 1) \in
       CASE offset = dawn -> {0} [] offset > dawn -> {-1, 0} [] offset < dawn -> {0, 1}
  /\ FirstMidnight <= created => DaysInPhase <= DaysActive

\* Trace and uptime panel tell what happened, one from the first event of each
\* phase and one from the last of all.  As long as a sprint never went back and
\* nothing has stopped its trace, a phase has as its span the time it took; and of
\* one that only went forward both know when it came to its phase.  Its days follow
\* the local clock as far as days of a fixed length can.
ProgressIsTrue ==
  /\ NeverBack /\ TraceEnd = now => \A p \in Phases : Duration(p) = spent[p]
  /\ OnlyForward => UptimePhaseStart = since /\ PhaseStart(phase) = since
  /\ DaysFollowTheClock

Rank == [none |-> 0, success |-> 0, warning |-> 1, critical |-> 2]

\* Whatever the time zone, the banner's age of a sprint is a day off its local
\* age at most, a sprint is not called overdue before its days are over, and the
\* verdict gets better only by what is done and never by that.
BannerIsFair ==
  /\ DaysSince - LocalDays \in {-1, 0, 1}
  /\ \A length \in Lengths, total \in 0 .. MaxItems : \A done \in 0 .. total :
       LET rank(n, age) == Rank[Banner(n, total, length, age)]
       IN /\ DaysSince > length => LocalDays >= length
          /\ rank(done, DaysSince) <= rank(done, DaysSince + 1)
          /\ done < total => rank(done + 1, DaysSince) <= rank(done, DaysSince)
          /\ done = total /\ total > 0 => rank(done, DaysSince) = 0

\* What a sprint has left behind stands: once a span is followed by another, no
\* time, no new phase or one set again, no lost event, no change of its status or
\* of the clock alters it, unless the sprint goes back.
PastStands ==
  [][phase' >= phase =>
       \A p \in Phases : Later(p) # {} => Duration(p)' = Duration(p)]_progress

=============================================================================
