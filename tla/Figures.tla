------------------------------ MODULE Figures ------------------------------
(***************************************************************************)
(* The figures of the overview, metrics and habits pages, computed on each *)
(* read by service/metrics.go and store/habits.go from posts and habit     *)
(* entries, which users add, date as they like, and delete.                *)
(*                                                                         *)
(* Days are numbers and day 1 is a Thursday.  A post is what is published of *)
(* it; days before the first have none.                                    *)
(***************************************************************************)
EXTENDS Integers, FiniteSets, SequencesExt

CONSTANTS
  LastDay,      \* bound: the days are 1..LastDay
  Tiers,        \* the tiers of a post
  Credibility,  \* those that count for cadence: Tier.IsCredibility
  Windows,      \* the lengths of the windows the pages ask for
  StreakLimit   \* HabitStreak looks at that many entries, the newest

ASSUME TiersAssumption == Credibility \subseteq Tiers /\ IsFiniteSet(Tiers)
ASSUME LimitsAssumption ==
  Windows \subseteq Nat \ {0} /\ StreakLimit \in Nat /\ LastDay \in Nat \ {0}

VARIABLES
  today,        \* Service.Today
  posts,        \* day -> the published tiers of its post
  entries       \* the days one habit is marked for

figures == <<today, posts, entries>>

Days == 1 .. LastDay

FiguresTypeOK ==
  today \in Days /\ posts \in [Days -> SUBSET Tiers] /\ entries \subseteq Days

FiguresInit ==
  today = 1 /\ posts = [d \in Days |-> {}] /\ entries = {}

Publish(d, t) ==
  posts' = [posts EXCEPT ![d] = @ \cup {t}] /\ UNCHANGED <<today, entries>>

Unpublish(d) == posts' = [posts EXCEPT ![d] = {}] /\ UNCHANGED <<today, entries>>

\* Nothing keeps a date in the query from lying ahead.
Toggle(d) == entries' = SymDiff(entries, {d}) /\ UNCHANGED <<today, posts>>

Midnight == today + 1 \in Days /\ today' = today + 1 /\ UNCHANGED <<posts, entries>>

FiguresNext ==
  \/ Midnight
  \/ \E d \in Days : Toggle(d) \/ Unpublish(d) \/ \E t \in Tiers : Publish(d, t)

FiguresSpec == FiguresInit /\ [][FiguresNext]_figures

-----------------------------------------------------------------------------
(* The queries *)

Weekday(d) == (d + 3) % 7
IsFriday(d) == Weekday(d) = 5

Out(d) == IF d \in Days THEN posts[d] ELSE {}

Published(d) == Cardinality(Out(d))
HasCredibility(d) == Out(d) \cap Credibility # {}

PublishedTierCount(t, from, to) == Cardinality({d \in from .. to : t \in Out(d)})

-----------------------------------------------------------------------------
(* The figures of service/metrics.go *)

Window(w) == [i \in 1 .. w |-> today - w + i]
WindowDays(w) == ToSet(Window(w))
CadenceDays(w) == {d \in WindowDays(w) : ~IsFriday(d)}

CadenceRate(w) ==
  [expected |-> Cardinality(CadenceDays(w)),
   hit |-> Cardinality({d \in CadenceDays(w) : HasCredibility(d)})]

\* mutant: a Friday without a post breaks the run
ForwardOverFriday(acc, d) ==
  IF HasCredibility(d)
  THEN [run |-> acc.run + 1, longest |-> Max({acc.longest, acc.run + 1})]
  ELSE [acc EXCEPT !.run = 0]

Forward(acc, d) ==
  CASE IsFriday(d) -> acc
    [] ~IsFriday(d) /\ HasCredibility(d) ->
         [run |-> acc.run + 1, longest |-> Max({acc.longest, acc.run + 1})]
    [] OTHER -> [acc EXCEPT !.run = 0]

Backward(acc, d) ==
  CASE IsFriday(d) -> acc
    [] ~IsFriday(d) /\ HasCredibility(d) ->
         IF acc.broken THEN acc ELSE [acc EXCEPT !.current = @ + 1]
    [] OTHER -> [acc EXCEPT !.broken = TRUE]

\* The loops are functions: what they have come to after so many days.
Streaks(w) ==
  LET forward[i \in 0 .. w] ==
        IF i = 0 THEN [run |-> 0, longest |-> 0] ELSE Forward(forward[i - 1], Window(w)[i])
      backward[i \in 0 .. w] ==
        IF i = 0 THEN [current |-> 0, broken |-> FALSE]
        ELSE Backward(backward[i - 1], Window(w)[w + 1 - i])
  IN [current |-> backward[w].current, longest |-> forward[w].longest]

CadenceHeatmap(w) ==
  [i \in 1 .. w |-> [day |-> Window(w)[i], published |-> Published(Window(w)[i])]]

TierMix(w) == [t \in Tiers |-> PublishedTierCount(t, today - w + 1, today)]

\* mutant: weeks begin on Sunday
MondayIsSunday == today - Weekday(today)

Monday == today - ((Weekday(today) + 6) % 7)

WeeklyTierGoals == [t \in Tiers |-> PublishedTierCount(t, Monday, today)]

Snapshot ==
  [isBufferDay |-> IsFriday(today), credibilityUp |-> HasCredibility(today)]

-----------------------------------------------------------------------------
(* The streak of a habit *)

\* mutant: the walk skips days without an entry
StreakSkipping == Min({Cardinality(entries), StreakLimit})

\* The rows of the query, the newest entry first.
Dates ==
  [k \in 1 .. Min({Cardinality(entries), StreakLimit}) |->
     CHOOSE d \in entries : Cardinality({e \in entries : e > d}) = k - 1]

Walk(acc, d) ==
  IF d = acc.checkDate /\ ~acc.stopped
  THEN [streak |-> acc.streak + 1, checkDate |-> d - 1, stopped |-> FALSE]
  ELSE [acc EXCEPT !.stopped = TRUE]

\* The day to check is the newest entry's, whether that is today or not.
HabitStreak ==
  LET walk[k \in 0 .. Len(Dates)] ==
        IF k = 0 THEN [streak |-> 0, checkDate |-> Dates[1], stopped |-> FALSE]
        ELSE Walk(walk[k - 1], Dates[k])
  IN IF Len(Dates) = 0 THEN 0 ELSE walk[Len(Dates)].streak

-----------------------------------------------------------------------------
(* What they should be *)

\* The cadence days of an interval without a gap, or none if it has one.
Unbroken(a, b) ==
  LET days == {d \in a .. b : ~IsFriday(d)}
  IN IF \A d \in days : HasCredibility(d) THEN Cardinality(days) ELSE 0

\* The runs in the days of a window, and those of them that reach today.
Runs(w) == {Unbroken(a, b) : a, b \in today - w + 1 .. today}
RunsToToday(w) == {Unbroken(a, today) : a \in today - w + 1 .. today}

\* The streaks of the two loops are the longest unbroken run in the window, and
\* the longest that reaches today: Fridays neither count nor break one.
StreaksAreRuns ==
  \A w \in Windows : Streaks(w) = [current |-> Max(RunsToToday(w)), longest |-> Max(Runs(w))]

SumOver(f) == MapThenSumSet(LAMBDA i : f[i], DOMAIN f)

\* The panels of a page, each from a query of its own, do not contradict each
\* other as long as nothing happens in between: the heatmap adds up to the tier
\* mix, a perfect rate is a streak of the whole window, a post that is up today
\* shows in rate and streak, and a week's goals are the mix of its days so far.
PanelsAgree ==
  \A w \in Windows :
    LET rate == CadenceRate(w)
        streaks == Streaks(w)
        cells == CadenceHeatmap(w)
    IN /\ SumOver([i \in DOMAIN cells |-> cells[i].published]) = SumOver(TierMix(w))
       /\ streaks.current <= streaks.longest /\ streaks.longest <= rate.hit
       /\ rate.hit = rate.expected <=> streaks.current = rate.expected
       /\ Snapshot.credibilityUp /\ ~Snapshot.isBufferDay => streaks.current > 0
       /\ w = 1 + (today - Monday) /\ Weekday(Monday) = 1 =>
            \A t \in Tiers : WeeklyTierGoals[t] = TierMix(w)[t]
       /\ Monday \in today - 6 .. today /\ Weekday(Monday) = 1

\* A habit marked today or yesterday, and for no later day, has as its streak the
\* days up to there that were all marked.
RecentStreakIsARun ==
  entries # {} /\ Max(entries) \in {today - 1, today} =>
    HabitStreak = Min({StreakLimit,
                       Cardinality({a \in Days : a .. Max(entries) # {} /\ a .. Max(entries) \subseteq entries})})

=============================================================================
