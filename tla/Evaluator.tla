------------------------------ MODULE Evaluator ------------------------------
(***************************************************************************)
(* crates/scheduler/src/evaluator.rs: when a trigger occurs next.          *)
(*                                                                         *)
(* evaluate_next_occurrence is a function of the trigger kind and of an    *)
(* instant, except for Fuzzy, which draws a random point of its window; so *)
(* every operator here returns the SET of results the code may return.     *)
(* Instants are integers; a day is DayLength instants, a week WeekLength   *)
(* days.  A time zone has one transition, at which its clock is put        *)
(* forward (a gap of local times that do not exist) or back (an overlap    *)
(* of local times that exist twice).                                       *)
(***************************************************************************)
EXTENDS Integers

CONSTANTS None,        \* Rust's Option::None
          DayLength,   \* instants of a day
          WeekLength,  \* days of a week (7 in the code)
          Zones,       \* time zones: the instant of the transition, and its size
          GapStep,     \* how resolve_candidate leaves a gap: by steps of 15 minutes,
          GapTries,    \* 8 of them
          CronStep,    \* how cron_next_occurrence does: by steps of an hour,
          CronTries    \* 240 tries

ASSUME NoneAssumption == None \notin Int
ASSUME CalendarAssumption == /\ DayLength \in Nat \ {0}
                             /\ WeekLength \in Nat \ {0}
\* A gap is no longer than the steps out of it (2 hours), and a pattern that
\* matches every day does so while the tries last (10 days).
ASSUME ZoneAssumption ==
    /\ Zones \subseteq [switch : Int, shift : (1 - DayLength) .. (DayLength - 1)]
    /\ GapStep \in Nat \ {0} /\ GapTries \in Nat
    /\ \A z \in Zones : z.shift <= GapTries * GapStep
    /\ CronStep \in Nat /\ CronTries \in Nat /\ CronStep * (CronTries - 1) >= 2 * DayLength

Instant == Int
Option(S) == S \cup {None}

\* with_timezone: what the clocks of the zone show.
Local(z, t) == IF t < z.switch THEN t ELSE t + z.shift

\* from_local_datetime (chrono): the instants at which they show l: one, none in
\* a gap, two in an overlap.
Instants(z, l) == {t \in {l, l - z.shift} : Local(z, t) = l}

DayOf(l) == l \div DayLength
TimeOfDay(l) == l % DayLength
WeekdayOf(d) == d % WeekLength

\* The first candidate of a search loop, None when the loop finds nothing.
Earliest(S) == IF S = {} THEN {None}
                         ELSE {t \in S : \A u \in S : t <= u}

\* Out of a gap: the first of the steps from l that exists.
GapExit(z, l) ==
    {m \in {l + k * GapStep : k \in 1 .. GapTries} :
        Instants(z, m) # {} /\ Instants(z, m - GapStep) = {}}

\* The instants a local time stands for.
Resolved(z, l) == IF Instants(z, l) # {} THEN Instants(z, l)
                  ELSE UNION {Instants(z, m) : m \in GapExit(z, l)}

\* Fault: an occurrence at `after` itself counts as the next one.
CandidatesInclusive(z, days, time, after) ==
    {c \in UNION {Resolved(z, d * DayLength + time) : d \in days} : c >= after}

\* resolve_candidate for a set of days: the instants strictly after `after`.
Candidates(z, days, time, after) ==
    {c \in UNION {Resolved(z, d * DayLength + time) : d \in days} : c > after}

OnceNext(fire_at, after) == IF fire_at > after THEN {fire_at} ELSE {None}

\* start_at aligns the grid; without it the grid starts at `after`.
IntervalNext(every, start_at, after) ==
    LET base == IF start_at = None THEN after ELSE start_at
    IN  IF every = 0 THEN {None}
        ELSE IF after < base THEN {base}
        ELSE {base + (((after - base) \div every) + 1) * every}

\* The days a search from local day d looks at.
Days(d, n) == d .. (d + n - 1)

DailyNext(z, time, after) ==
    Earliest(Candidates(z, Days(DayOf(Local(z, after)), 4), time, after))

WeeklyNext(z, days_of_week, time, after) ==
    Earliest(Candidates(z, {d \in Days(DayOf(Local(z, after)), 2 * WeekLength) :
                               WeekdayOf(d) \in days_of_week}, time, after))

\* A standard cron pattern, reduced to the times of day it matches: the local
\* times after l at which it does, of two days.
CronMatches(matches, l) == {m \in (l + 1) .. (l + 2 * DayLength) : TimeOfDay(m) \in matches}

\* croner's instant of a local time, of two the earlier.
CronInstant(z, l) == {t \in Instants(z, l) : \A u \in Instants(z, l) : t <= u}

\* The next match from an anchor on; one that is not after `after` is the next
\* anchor.
CronFrom(z, matches, anchor, after) ==
    Earliest({c \in UNION {CronInstant(z, m) : m \in CronMatches(matches, Local(z, anchor))} :
                 c > after})

\* croner finds that the next match lies in a gap.
InGap(z, matches, anchor) ==
    \E m \in Earliest(CronMatches(matches, Local(z, anchor))) : Instants(z, m) = {}

\* croner takes such a match for the end of the gap or reports InvalidTime,
\* upon which the anchor moves on; which of the two is left open.
CronNext(z, matches, after) ==
    LET anchors == {a \in {after + k * CronStep : k \in 0 .. (CronTries - 1)} :
                       ~InGap(z, matches, a)}
    IN  IF matches = {} \/ anchors = {} THEN {None}
        ELSE (UNION {CronFrom(z, matches, a, after) : a \in Earliest(anchors)})
             \cup {t \in {z.switch} : InGap(z, matches, after)}

\* Fault: a window that has started may be drawn from again.
FuzzyDaysOpenWindow(days_of_week, window_start, local_after) ==
    {d \in Days(DayOf(local_after), 2 * WeekLength) : WeekdayOf(d) \in days_of_week}

\* The days whose window has not started yet; a window that has started is
\* skipped even if it has not ended.
FuzzyDays(days_of_week, window_start, local_after) ==
    {d \in Days(DayOf(local_after), 2 * WeekLength) :
        /\ WeekdayOf(d) \in days_of_week
        /\ d > DayOf(local_after) \/ window_start > TimeOfDay(local_after)}

\* A point of the window of a day, resolved.
Drawn(z, d, window_start, window_end, after) ==
    UNION {Earliest(Candidates(z, {d}, picked, after)) :
             picked \in window_start .. (window_end - 1)}

\* The first day is the one, since each point of its window is after `after`.
FuzzyNext(z, days_of_week, window_start, window_end, after) ==
    LET days == FuzzyDays(days_of_week, window_start, Local(z, after))
    IN  IF window_end <= window_start \/ days = {} THEN {None}
        ELSE UNION {Drawn(z, d, window_start, window_end, after) : d \in Earliest(days)}

EvaluateNext(kind, after) ==
    CASE kind.type = "Once"     -> OnceNext(kind.fire_at, after)
      [] kind.type = "Interval" -> IntervalNext(kind.interval, kind.start_at, after)
      [] kind.type = "Daily"    -> DailyNext(kind.zone, kind.time, after)
      [] kind.type = "Weekly"   -> WeeklyNext(kind.zone, kind.days_of_week, kind.time, after)
      [] kind.type = "Cron"     -> CronNext(kind.zone, kind.matches, after)
      [] kind.type = "Fuzzy"    -> FuzzyNext(kind.zone, kind.days_of_week, kind.window_start,
                                             kind.window_end, after)
      [] OTHER                  -> {None}    \* Network, AgentStarted

TimesOfDay == 0 .. (DayLength - 1)
Weekdays == 0 .. (WeekLength - 1)

TriggerKinds ==
    [type : {"Once"}, fire_at : Instant]
    \cup [type : {"Interval"}, interval : Nat, start_at : Option(Instant)]
    \cup [type : {"Daily"}, time : TimesOfDay, zone : Zones]
    \cup [type : {"Weekly"}, days_of_week : SUBSET Weekdays, time : TimesOfDay, zone : Zones]
    \cup [type : {"Cron"}, matches : SUBSET TimesOfDay, zone : Zones]
    \cup [type : {"Fuzzy"}, days_of_week : SUBSET Weekdays,
          window_start : TimesOfDay, window_end : TimesOfDay, zone : Zones]
    \cup [type : {"Network", "AgentStarted"}]
=============================================================================
