--------------------------- MODULE SchedulerProofs ---------------------------
(***************************************************************************)
(* Theorems about the scheduler for every set of tasks, triggers,          *)
(* definitions and requests, and every capacity and bound; and what it     *)
(* relies on: evaluate_next_occurrence returns None or an instant strictly *)
(* after the one it is asked about (without it the loop would find the     *)
(* requeued item due at once and fire it again), a recurring kind always   *)
(* has a next occurrence, and where no clock is put back one drawn from a  *)
(* window sends the next evaluation to another day.                        *)
(***************************************************************************)
EXTENDS Scheduler, TLAPS

-----------------------------------------------------------------------------
(* The evaluator.                                                          *)

\* Division with remainder, for the calendar.
LEMMA DivMod ==
    ASSUME NEW a \in Int, NEW b \in Nat \ {0}
    PROVE  /\ a \div b \in Int
           /\ a % b \in 0 .. (b - 1)
           /\ a = (a \div b) * b + (a % b)
  BY Z3

\* Multiplication by a positive number is monotone.
LEMMA MulMono ==
    ASSUME NEW a \in Int, NEW b \in Int, a <= b, NEW c \in Nat
    PROVE  a * c <= b * c /\ a * c \in Int /\ b * c \in Int
  BY Z3

\* The first multiple of `every` above e.
LEMMA NextMultiple ==
    ASSUME NEW e \in Int, NEW every \in Nat \ {0}
    PROVE  /\ ((e \div every) + 1) * every \in Int
           /\ ((e \div every) + 1) * every > e
  <1>1. PICK q \in Int : q = e \div every
    BY DivMod
  <1>2. e % every \in 0 .. (every - 1) /\ e = q * every + (e % every)
    BY <1>1, DivMod
  <1>3. PICK r \in 0 .. (every - 1) : e = q * every + r
    BY <1>2
  <1>4. (q + 1) * every = q * every + every /\ q * every \in Int
    BY Z3
  <1>5. (q + 1) * every \in Int /\ (q + 1) * every > e
    BY <1>3, <1>4
  <1> QED BY <1>1, <1>5

\* The remainder is the only one in its range.
LEMMA ModUnique ==
    ASSUME NEW k \in Int, NEW b \in Nat \ {0}, NEW r \in 0 .. (b - 1), NEW a \in Int,
           a = k * b + r
    PROVE  a % b = r /\ a \div b = k
  <1>1. PICK q \in Int, s \in 0 .. (b - 1) :
           q = a \div b /\ s = a % b /\ a = q * b + s
    BY DivMod
  <1>2. k * b \in Int /\ q * b \in Int
    BY Z3
  <1>3. CASE k < q
    <2>1. (k + 1) * b <= q * b
      BY <1>3, MulMono
    <2>2. (k + 1) * b = k * b + b
      BY Z3
    <2> QED BY <1>1, <1>2, <2>1, <2>2
  <1>4. CASE q < k
    <2>1. (q + 1) * b <= k * b
      BY <1>4, MulMono
    <2>2. (q + 1) * b = q * b + b
      BY Z3
    <2> QED BY <1>1, <1>2, <2>1, <2>2
  <1>5. CASE q = k
    BY <1>1, <1>2, <1>5
  <1> QED BY <1>3, <1>4, <1>5

\* Every remainder occurs among b numbers in a row.
LEMMA EveryRemainder ==
    ASSUME NEW a \in Int, NEW b \in Nat \ {0}, NEW m \in 0 .. (b - 1)
    PROVE  \E t \in (a + 1) .. (a + b) : t % b = m
  <1>1. PICK q \in Int, s \in 0 .. (b - 1) : a = q * b + s
    BY DivMod
  <1>2. q * b \in Int /\ (q + 1) * b = q * b + b /\ q + 1 \in Int
    BY Z3
  <1>3. CASE m > s
    <2>1. q * b + m \in (a + 1) .. (a + b)
      BY <1>1, <1>2, <1>3
    <2>2. (q * b + m) % b = m
      BY <1>2, ModUnique
    <2> QED BY <2>1, <2>2
  <1>4. CASE m <= s
    <2>1. (q + 1) * b + m \in (a + 1) .. (a + b)
      BY <1>1, <1>2, <1>4
    <2>2. ((q + 1) * b + m) % b = m
      BY <1>2, ModUnique
    <2> QED BY <2>1, <2>2
  <1> QED BY <1>3, <1>4

LEMMA EarliestSubset ==
    ASSUME NEW S
    PROVE  Earliest(S) \subseteq S \cup {None}
  BY DEF Earliest

\* The result of an Interval evaluation is later than the instant asked about.
LEMMA IntervalLater ==
    ASSUME NEW every \in Nat, NEW start_at \in Option(Instant), NEW after \in Int
    PROVE  \A n \in IntervalNext(every, start_at, after) :
              n = None \/ (n \in Int /\ n > after)
  <1> DEFINE base == IF start_at = None THEN after ELSE start_at
             e == after - base
  <1>1. base \in Int /\ e \in Int
    BY NoneAssumption DEF Option, Instant
  <1>2. CASE every = 0
    BY <1>2 DEF IntervalNext
  <1>3. CASE every # 0 /\ after < base
    BY <1>1, <1>3 DEF IntervalNext
  <1>4. CASE every # 0 /\ ~(after < base)
    <2> DEFINE q == e \div every
    <2>1. every \in Nat \ {0}
      BY <1>4
    <2>4. (q + 1) * every > e /\ (q + 1) * every \in Int
      BY <1>1, <2>1, NextMultiple
    <2>5. base + (q + 1) * every \in Int /\ base + (q + 1) * every > after
      <3> HIDE DEF q
      <3> QED BY <2>4, <1>1
    <2>6. IntervalNext(every, start_at, after) = {base + (q + 1) * every}
      BY <1>4 DEF IntervalNext
    <2> QED BY <2>5, <2>6
  <1> QED BY <1>2, <1>3, <1>4

-----------------------------------------------------------------------------
(* Local times.                                                            *)

LEMMA ZoneShape ==
    ASSUME NEW z \in Zones
    PROVE  /\ z.switch \in Int /\ z.shift \in Int
           /\ z.shift < DayLength /\ -z.shift < DayLength
           /\ DayLength \in Nat \ {0} /\ WeekLength \in Nat \ {0}
           /\ GapStep \in Nat \ {0} /\ GapTries \in Nat /\ z.shift <= GapTries * GapStep
  BY ZoneAssumption, CalendarAssumption

LEMMA LocalIsInt ==
    ASSUME NEW z \in Zones, NEW t \in Int
    PROVE  Local(z, t) \in Int
  BY ZoneShape DEF Local

\* from_local_datetime inverts with_timezone.
LEMMA InstantsInvertLocal ==
    ASSUME NEW z \in Zones, NEW l \in Int
    PROVE  Instants(z, l) = {t \in Int : Local(z, t) = l}
  BY ZoneShape DEF Instants, Local

\* Only the local times of a gap do not exist.
LEMMA Gap ==
    ASSUME NEW z \in Zones, NEW l \in Int
    PROVE  Instants(z, l) = {} <=> z.switch <= l /\ l < z.switch + z.shift
  <1> DEFINE s == z.switch
             h == z.shift
  <1>1. s \in Int /\ h \in Int
    BY ZoneShape
  <1>2. /\ l \in Instants(z, l) <=> (l < s \/ h = 0)
        /\ l - h \in Instants(z, l) <=> (h = 0 \/ ~(l - h < s))
    BY <1>1 DEF Instants, Local
  <1>3. Instants(z, l) \subseteq {l, l - h}
    BY DEF Instants
  <1> HIDE DEF s, h
  <1>4. Instants(z, l) = {} <=> s <= l /\ l < s + h
    BY <1>1, <1>2, <1>3
  <1> QED BY <1>4 DEF s, h

\* A local time that exists and that the clocks at `after` have not reached yet
\* comes after it, though an earlier time may come after it as well.
LEMMA LaterInstant ==
    ASSUME NEW z \in Zones, NEW l \in Int, NEW after \in Int, l > Local(z, after),
           Instants(z, l) # {}
    PROVE  \E t \in Instants(z, l) : t > after
  <1> DEFINE s == z.switch
             h == z.shift
  <1>1. s \in Int /\ h \in Int
    BY ZoneShape
  <1>2. /\ l < s \/ h = 0 => l \in Instants(z, l)
        /\ h = 0 \/ ~(l - h < s) => l - h \in Instants(z, l)
    BY <1>1 DEF Instants, Local
  <1>3. IF after < s THEN l > after ELSE l > after + h
    BY <1>1 DEF Local
  <1>4. ~(s <= l /\ l < s + h)
    BY Gap
  <1> HIDE DEF s, h
  <1>5. CASE after < s /\ l < s
    BY <1>1, <1>2, <1>3, <1>5
  <1>6. CASE ~(l < s /\ after < s)
    BY <1>1, <1>2, <1>3, <1>4, <1>6
  <1> QED BY <1>5, <1>6

\* What resolve_candidate takes for a time in a gap is later and exists, and it
\* overshoots the gap by less than a step.
LEMMA ExitIsLater ==
    ASSUME NEW z \in Zones, NEW l \in Int, NEW m \in GapExit(z, l)
    PROVE  m \in Int /\ m > l /\ Instants(z, m) # {} /\ m - GapStep < z.switch + z.shift
  <1>1. PICK k \in 1 .. GapTries : m = l + k * GapStep
    BY DEF GapExit
  <1>2. GapStep \in Nat \ {0} /\ GapTries \in Nat /\ z.switch \in Int /\ z.shift \in Int
    BY ZoneShape
  <1>3. k \in Int /\ 1 <= k
    BY <1>2
  <1>4. 1 * GapStep <= k * GapStep /\ k * GapStep \in Int
    BY <1>2, <1>3, MulMono
  <1>5. m \in Int /\ m > l
    BY <1>1, <1>2, <1>4
  <1>6. Instants(z, m) # {} /\ Instants(z, m - GapStep) = {}
    BY DEF GapExit
  <1>7. m - GapStep \in Int
    BY <1>2, <1>5
  <1> QED BY <1>5, <1>6, <1>7, Gap

\* There is always a way out of a gap.
LEMMA ExitExists ==
    ASSUME NEW z \in Zones, NEW l \in Int, Instants(z, l) = {}
    PROVE  GapExit(z, l) # {}
  <1> DEFINE e == z.switch + z.shift
             q == (e - 1 - l) \div GapStep
             m == l + (q + 1) * GapStep
  <1>1. /\ z.switch \in Int /\ z.shift \in Int /\ GapStep \in Nat \ {0} /\ GapTries \in Nat
        /\ z.shift <= GapTries * GapStep /\ z.switch <= l /\ l < e /\ e \in Int
    BY ZoneShape, Gap
  <1>2. q \in Int /\ \E r \in 0 .. (GapStep - 1) : e - 1 - l = q * GapStep + r
    <2>1. e - 1 - l \in Int
      BY <1>1
    <2> HIDE DEF e
    <2> QED BY <1>1, <2>1, DivMod
  <1>3. (q + 1) * GapStep = q * GapStep + GapStep /\ q * GapStep \in Int
    BY <1>1, <1>2, Z3
  <1>4. m \in Int /\ m >= e /\ m - GapStep = l + q * GapStep /\ m - GapStep < e
    <2> HIDE DEF e, q
    <2> QED BY <1>1, <1>2, <1>3
  <1>5. 0 <= q
    <2>1. CASE q < 0
      <3>1. (q + 1) * GapStep <= 0 * GapStep
        <4> HIDE DEF q
        <4> QED BY <1>1, <1>2, <2>1, MulMono
      <3>2. m <= l
        <4> HIDE DEF q, e
        <4> QED BY <1>1, <1>2, <1>3, <3>1
      <3> QED BY <1>1, <1>4, <3>2
    <2> HIDE DEF q
    <2> QED BY <1>2, <2>1
  <1>6. q < GapTries
    <2>1. CASE GapTries <= q
      <3>1. GapTries * GapStep <= q * GapStep
        <4> HIDE DEF q
        <4> QED BY <1>1, <1>2, <2>1, MulMono
      <3> HIDE DEF q, m
      <3> QED BY <1>1, <1>3, <1>4, <3>1 DEF e
    <2> HIDE DEF q
    <2> QED BY <1>1, <1>2, <2>1
  <1>7. 0 <= q * GapStep
    <2>1. 0 * GapStep <= q * GapStep
      <3> HIDE DEF q
      <3> QED BY <1>1, <1>2, <1>5, MulMono
    <2> HIDE DEF q
    <2> QED BY <1>1, <2>1
  <1>8. Instants(z, m) # {} /\ Instants(z, m - GapStep) = {}
    <2>1. m - GapStep \in Int /\ z.switch <= m - GapStep
      <3> HIDE DEF q, e, m
      <3> QED BY <1>1, <1>3, <1>4, <1>7
    <2> HIDE DEF q, m
    <2> QED BY <1>1, <1>4, <2>1, Gap DEF e
  <1>9. q + 1 \in 1 .. GapTries
    <2> HIDE DEF q
    <2> QED BY <1>1, <1>2, <1>5, <1>6
  <1> HIDE DEF q, e
  <1>10. m \in GapExit(z, l)
    BY <1>8, <1>9 DEF GapExit
  <1> QED BY <1>10

\* resolve_candidate finds an instant after `after` for every local time that
\* the clocks at `after` have not reached.
LEMMA ResolvedLater ==
    ASSUME NEW z \in Zones, NEW l \in Int, NEW after \in Int, l > Local(z, after)
    PROVE  \E c \in Resolved(z, l) : c > after
  <1>1. CASE Instants(z, l) # {}
    BY <1>1, LaterInstant DEF Resolved
  <1>2. CASE Instants(z, l) = {}
    <2>1. PICK m \in GapExit(z, l) : m \in Int /\ m > l /\ Instants(z, m) # {}
      BY <1>2, ExitExists, ExitIsLater
    <2>2. m > Local(z, after)
      BY <2>1, LocalIsInt
    <2>3. PICK t \in Instants(z, m) : t > after
      BY <2>1, <2>2, LaterInstant
    <2> QED BY <1>2, <2>1, <2>3 DEF Resolved
  <1> QED BY <1>1, <1>2

LEMMA ResolvedIsInt ==
    ASSUME NEW z \in Zones, NEW l \in Int
    PROVE  Resolved(z, l) \subseteq Int
  <1>1. CASE Instants(z, l) # {}
    BY <1>1, InstantsInvertLocal DEF Resolved
  <1>2. CASE Instants(z, l) = {}
    <2>1. \A m \in GapExit(z, l) : Instants(z, m) \subseteq Int
      BY ExitIsLater, InstantsInvertLocal
    <2> QED BY <1>2, <2>1 DEF Resolved
  <1> QED BY <1>1, <1>2

\* The calendar searches only keep instants later than `after`.
LEMMA CandidatesLater ==
    ASSUME NEW z \in Zones, NEW days \in SUBSET Int, NEW time \in Int, NEW after \in Int
    PROVE  \A c \in Candidates(z, days, time, after) : c \in Int /\ c > after
  <1>1. \A d \in days : d * DayLength + time \in Int
    BY CalendarAssumption, Z3
  <1>2. \A d \in days : Resolved(z, d * DayLength + time) \subseteq Int
    BY <1>1, ResolvedIsInt
  <1> QED BY <1>2 DEF Candidates

\* A search that offers a local time the clocks have not reached finds something.
LEMMA CandidateFound ==
    ASSUME NEW z \in Zones, NEW days \in SUBSET Int, NEW time \in Int, NEW after \in Int,
           NEW d \in days, d * DayLength + time > Local(z, after)
    PROVE  None \notin Earliest(Candidates(z, days, time, after))
  <1>1. d * DayLength + time \in Int
    BY CalendarAssumption, Z3
  <1>2. \E c \in Candidates(z, days, time, after) : TRUE
    BY <1>1, ResolvedLater DEF Candidates
  <1>3. None \notin Candidates(z, days, time, after)
    BY CandidatesLater, NoneAssumption
  <1> QED BY <1>2, <1>3 DEF Earliest

\* An instant of a later day is later, whatever the times of day.
LEMMA LaterDay ==
    ASSUME NEW after \in Int, NEW d \in Int, d > DayOf(after), NEW time \in TimesOfDay
    PROVE  d * DayLength + time \in Int /\ d * DayLength + time > after
  <1>1. DayLength \in Nat \ {0} /\ time \in 0 .. (DayLength - 1)
    BY CalendarAssumption DEF TimesOfDay
  <1>2. PICK q \in Int, s \in 0 .. (DayLength - 1) : q = DayOf(after) /\ after = q * DayLength + s
    BY <1>1, DivMod DEF DayOf
  <1>3. /\ (q + 1) * DayLength <= d * DayLength /\ d * DayLength \in Int
        /\ (q + 1) * DayLength \in Int
    BY <1>1, <1>2, MulMono
  <1>4. (q + 1) * DayLength = q * DayLength + DayLength /\ q * DayLength \in Int
    BY <1>1, Z3
  <1> QED BY <1>1, <1>2, <1>3, <1>4

\* Days and times of day are ordered as the instants are.
LEMMA DaysAreOrdered ==
    ASSUME NEW a \in Int, NEW b \in Int, a <= b
    PROVE  \/ DayOf(a) < DayOf(b)
           \/ DayOf(a) = DayOf(b) /\ TimeOfDay(a) <= TimeOfDay(b)
  <1>1. DayLength \in Nat \ {0}
    BY CalendarAssumption
  <1>2. PICK q \in Int, s \in 0 .. (DayLength - 1) :
           q = DayOf(a) /\ s = TimeOfDay(a) /\ a = q * DayLength + s
    BY <1>1, DivMod DEF DayOf, TimeOfDay
  <1>3. PICK p \in Int, r \in 0 .. (DayLength - 1) :
           p = DayOf(b) /\ r = TimeOfDay(b) /\ b = p * DayLength + r
    BY <1>1, DivMod DEF DayOf, TimeOfDay
  <1>4. CASE p < q
    <2>1. (p + 1) * DayLength <= q * DayLength
      BY <1>1, <1>4, MulMono
    <2>2. (p + 1) * DayLength = p * DayLength + DayLength
      BY <1>1, Z3
    <2>3. p * DayLength \in Int /\ q * DayLength \in Int
      BY <1>1, Z3
    <2> QED BY <1>1, <1>2, <1>3, <2>1, <2>2, <2>3
  <1>5. CASE p = q
    <2>1. q * DayLength \in Int
      BY <1>1, Z3
    <2> QED BY <1>2, <1>3, <1>5, <2>1
  <1>6. CASE q < p
    BY <1>2, <1>3, <1>6
  <1> QED BY <1>4, <1>5, <1>6

-----------------------------------------------------------------------------
(* Cron.                                                                   *)

\* A pattern matches every day.
LEMMA MatchFound ==
    ASSUME NEW matches \in SUBSET TimesOfDay, matches # {}, NEW l \in Int
    PROVE  \E m \in (l + 1) .. (l + DayLength) : TimeOfDay(m) \in matches
  <1>1. PICK r \in matches : r \in 0 .. (DayLength - 1)
    BY DEF TimesOfDay
  <1>2. \E m \in (l + 1) .. (l + DayLength) : m % DayLength = r
    BY <1>1, EveryRemainder, CalendarAssumption
  <1> QED BY <1>1, <1>2 DEF TimeOfDay

\* A day later it is the same time of day.
LEMMA NextDay ==
    ASSUME NEW l \in Int
    PROVE  TimeOfDay(l + DayLength) = TimeOfDay(l)
  <1>1. DayLength \in Nat \ {0}
    BY CalendarAssumption
  <1>2. PICK q \in Int, s \in 0 .. (DayLength - 1) : s = l % DayLength /\ l = q * DayLength + s
    BY <1>1, DivMod
  <1>3. (q + 1) * DayLength = q * DayLength + DayLength /\ q * DayLength \in Int
    BY <1>1, <1>2, Z3
  <1>4. PICK k \in Int : k = q + 1
    BY <1>2
  <1>5. l + DayLength \in Int /\ l + DayLength = k * DayLength + s
    BY <1>1, <1>2, <1>3, <1>4
  <1>6. (l + DayLength) % DayLength = s
    <2>1. k * DayLength \in Int
      BY <1>1, Z3
    <2>2. (k * DayLength + s) % DayLength = s
      BY <1>1, <2>1, ModUnique
    <2> QED BY <1>5, <2>2
  <1> QED BY <1>2, <1>6 DEF TimeOfDay

\* An anchor whose next match lies in the gap comes before it, by a day at most.
LEMMA InGapBefore ==
    ASSUME NEW z \in Zones, NEW matches \in SUBSET TimesOfDay, matches # {},
           NEW a \in Int, InGap(z, matches, a)
    PROVE  a < z.switch /\ z.switch <= a + DayLength
  <1> DEFINE found == CronMatches(matches, Local(z, a))
  <1>1. /\ Local(z, a) \in Int /\ DayLength \in Nat \ {0}
        /\ z.switch \in Int /\ z.shift \in Int
    BY LocalIsInt, ZoneShape
  <1>2. PICK u \in (Local(z, a) + 1) .. (Local(z, a) + DayLength) : TimeOfDay(u) \in matches
    BY <1>1, MatchFound
  <1>3. u \in found
    BY <1>1, <1>2 DEF CronMatches
  <1>4. PICK m \in Earliest(found) : Instants(z, m) = {}
    BY DEF InGap
  <1>5. m \in found /\ m <= u
    BY <1>3, <1>4 DEF Earliest
  <1>6. m \in Int /\ m > Local(z, a)
    BY <1>1, <1>5 DEF CronMatches
  <1>7. z.switch <= m /\ m < z.switch + z.shift
    BY <1>4, <1>6, Gap
  <1> HIDE DEF found
  <1>8. a < z.switch
    BY <1>1, <1>6, <1>7 DEF Local
  <1>9. Local(z, a) = a
    BY <1>8 DEF Local
  <1> QED BY <1>1, <1>2, <1>5, <1>6, <1>7, <1>8, <1>9

\* The earlier of the instants of a local time that exists.
LEMMA CronInstantIs ==
    ASSUME NEW z \in Zones, NEW l \in Int, Instants(z, l) # {}
    PROVE  \E t \in CronInstant(z, l) : t \in Instants(z, l)
  <1>1. l \in Int /\ l - z.shift \in Int
    BY ZoneShape
  <1>2. Instants(z, l) \subseteq {l, l - z.shift}
    BY DEF Instants
  <1>3. CASE l \in Instants(z, l) /\ l - z.shift \in Instants(z, l)
    BY <1>1, <1>2, <1>3 DEF CronInstant
  <1>4. CASE ~(l \in Instants(z, l) /\ l - z.shift \in Instants(z, l))
    <2>1. PICK t \in Instants(z, l) : t \in Int /\ \A u \in Instants(z, l) : u = t
      BY <1>1, <1>2, <1>4
    <2> QED BY <2>1 DEF CronInstant
  <1> QED BY <1>3, <1>4

\* A match that the search from an anchor takes, later than the anchor.
LEMMA CronMatchAfter ==
    ASSUME NEW z \in Zones, NEW matches \in SUBSET TimesOfDay, matches # {}, NEW a \in Int
    PROVE  \E m \in CronMatches(matches, Local(z, a)) : \E t \in CronInstant(z, m) : t > a
  <1> DEFINE L == Local(z, a)
             s == z.switch
             h == z.shift
  <1>1. /\ L \in Int /\ DayLength \in Nat \ {0} /\ s \in Int /\ h \in Int
        /\ h < DayLength /\ -h < DayLength /\ L = IF a < s THEN a ELSE a + h
    BY LocalIsInt, ZoneShape DEF Local
  <1>2. CASE h <= 0
    <2>1. L + DayLength \in Int
      BY <1>1
    <2>2. PICK m \in (L + DayLength + 1) .. (L + DayLength + DayLength) : TimeOfDay(m) \in matches
      <3> HIDE DEF L
      <3> QED BY <2>1, MatchFound
    <2>3. m \in Int /\ m > L + DayLength
      BY <1>1, <2>2
    <2>4. m \in CronMatches(matches, Local(z, a))
      BY <1>1, <2>2 DEF CronMatches
    <2>5. Instants(z, m) # {}
      BY <1>1, <1>2, <2>3, Gap
    <2>6. PICK t \in CronInstant(z, m) : t \in Instants(z, m)
      BY <2>3, <2>5, CronInstantIs
    <2>7. t \in Int /\ Local(z, t) = m
      BY <2>3, <2>6, InstantsInvertLocal
    <2>8. t > a
      BY <1>1, <1>2, <2>3, <2>7 DEF Local
    <2> QED BY <2>4, <2>8
  <1>3. CASE h > 0
    <2>1. PICK m1 \in (L + 1) .. (L + DayLength) : TimeOfDay(m1) \in matches
      <3> HIDE DEF L
      <3> QED BY <1>1, MatchFound
    <2>2. m1 \in Int
      BY <1>1, <2>1
    <2>3. \E m \in CronMatches(matches, Local(z, a)) : m \in Int /\ m > L /\ Instants(z, m) # {}
      <3>1. m1 \in CronMatches(matches, Local(z, a)) /\ m1 > L
        BY <1>1, <2>1 DEF CronMatches
      <3>2. m1 + DayLength \in CronMatches(matches, Local(z, a)) /\ m1 + DayLength > L
        BY <1>1, <2>1, <2>2, NextDay DEF CronMatches
      <3>3. Instants(z, m1) # {} \/ Instants(z, m1 + DayLength) # {}
        <4>1. m1 + DayLength \in Int
          BY <1>1, <2>2
        <4> HIDE DEF L
        <4> QED BY <1>1, <2>2, <4>1, Gap
      <3> QED BY <1>1, <2>2, <3>1, <3>2, <3>3
    <2>4. PICK m \in CronMatches(matches, Local(z, a)) :
             m \in Int /\ m > L /\ Instants(z, m) # {}
      BY <2>3
    <2>5. PICK t \in Instants(z, m) : t > a
      BY <2>4, LaterInstant
    <2>6. \A u \in Instants(z, m) : u \in Int /\ u = t
      BY <1>1, <1>3, <2>4, <2>5, InstantsInvertLocal DEF Local
    <2>7. t \in CronInstant(z, m)
      BY <2>5, <2>6 DEF CronInstant
    <2> QED BY <2>4, <2>5, <2>7
  <1> HIDE DEF h
  <1> QED BY <1>1, <1>2, <1>3

LEMMA CronFromLater ==
    ASSUME NEW z \in Zones, NEW matches, NEW anchor \in Int, NEW after \in Int
    PROVE  /\ \A n \in CronFrom(z, matches, anchor, after) :
                 n = None \/ (n \in Int /\ n > after)
           /\ matches \in SUBSET TimesOfDay /\ matches # {} /\ anchor >= after
                 => None \notin CronFrom(z, matches, anchor, after)
  <1> DEFINE found == {c \in UNION {CronInstant(z, m) :
                                      m \in CronMatches(matches, Local(z, anchor))} : c > after}
  <1>1. Local(z, anchor) \in Int /\ DayLength \in Nat
    BY LocalIsInt, ZoneShape
  <1>2. \A m \in CronMatches(matches, Local(z, anchor)) : m \in Int
    BY <1>1 DEF CronMatches
  <1>3. \A m \in CronMatches(matches, Local(z, anchor)) : CronInstant(z, m) \subseteq Int
    BY <1>2, InstantsInvertLocal DEF CronInstant
  <1>4. \A c \in found : c \in Int /\ c > after
    BY <1>3
  <1>5. CronFrom(z, matches, anchor, after) = Earliest(found)
    BY DEF CronFrom
  <1>6. ASSUME matches \in SUBSET TimesOfDay, matches # {}, anchor >= after
        PROVE  found # {}
    <2>0. PICK m \in CronMatches(matches, Local(z, anchor)) :
             \E t \in CronInstant(z, m) : t > anchor
      BY <1>6, CronMatchAfter
    <2>1. PICK t \in CronInstant(z, m) : t > anchor
      BY <2>0
    <2>2. t \in Int
      BY <1>3, <2>1
    <2>3. t > after
      BY <1>6, <2>1, <2>2
    <2> QED BY <2>1, <2>3
  <1> HIDE DEF found
  <1> QED BY <1>4, <1>5, <1>6, EarliestSubset, NoneAssumption DEF Earliest

\* Of the anchors, one has its next match outside the gap: `after` itself, or the
\* last one, which lies beyond the gap.
LEMMA AnchorFound ==
    ASSUME NEW z \in Zones, NEW matches \in SUBSET TimesOfDay, matches # {}, NEW after \in Int
    PROVE  \E a \in {after + k * CronStep : k \in 0 .. (CronTries - 1)} :
              ~InGap(z, matches, a)
  <1>1. /\ CronStep \in Nat /\ CronTries \in Nat /\ DayLength \in Nat \ {0}
        /\ CronStep * (CronTries - 1) >= 2 * DayLength
    BY ZoneAssumption, CalendarAssumption
  <1>2. CronTries # 0
    <2>1. CronStep * (0 - 1) <= 0
      BY <1>1
    <2> QED BY <1>1, <2>1
  <1>3. CronTries - 1 \in 0 .. (CronTries - 1) /\ 0 \in 0 .. (CronTries - 1)
    BY <1>1, <1>2
  <1>4. CASE ~InGap(z, matches, after)
    <2>1. after + 0 * CronStep = after
      BY <1>1
    <2> QED BY <1>3, <1>4, <2>1
  <1>5. CASE InGap(z, matches, after)
    <2> DEFINE a == after + (CronTries - 1) * CronStep
    <2>1. (CronTries - 1) * CronStep = CronStep * (CronTries - 1)
          /\ (CronTries - 1) * CronStep \in Int
      BY <1>1, Z3
    <2>2. a \in Int /\ a >= after + 2 * DayLength
      BY <1>1, <2>1
    <2>3. z.switch <= after + DayLength /\ z.switch \in Int
      BY <1>5, InGapBefore, ZoneShape
    <2> HIDE DEF a
    <2>4. ~(a < z.switch)
      BY <1>1, <2>2, <2>3
    <2>5. ~InGap(z, matches, a)
      BY <2>2, <2>4, InGapBefore
    <2> QED BY <1>3, <2>5 DEF a
  <1> QED BY <1>4, <1>5

\* cron_next_occurrence: strictly after `after`, and there always is one.
LEMMA CronNextIs ==
    ASSUME NEW z \in Zones, NEW matches \in SUBSET TimesOfDay, NEW after \in Int
    PROVE  /\ \A n \in CronNext(z, matches, after) : n = None \/ (n \in Int /\ n > after)
           /\ matches # {} => None \notin CronNext(z, matches, after)
  <1> DEFINE anchors == {a \in {after + k * CronStep : k \in 0 .. (CronTries - 1)} :
                            ~InGap(z, matches, a)}
  <1>1. CASE matches = {}
    BY <1>1 DEF CronNext
  <1>2. CASE matches # {}
    <2>1. anchors # {}
      BY <1>2, AnchorFound
    <2>2. \A a \in Earliest(anchors) : a \in Int /\ a >= after
      <3>1. \A k \in 0 .. (CronTries - 1) : k * CronStep \in Int /\ 0 <= k * CronStep
        <4> SUFFICES ASSUME NEW k \in 0 .. (CronTries - 1)
                     PROVE  k * CronStep \in Int /\ 0 <= k * CronStep
          OBVIOUS
        <4>1. k \in Int /\ 0 <= k /\ CronStep \in Nat
          BY ZoneAssumption
        <4>2. 0 * CronStep <= k * CronStep /\ k * CronStep \in Int
          BY <4>1, MulMono
        <4> QED BY <4>1, <4>2
      <3>2. \A a \in anchors : a \in Int /\ a >= after
        BY <3>1
      <3>3. Earliest(anchors) \subseteq anchors
        BY <2>1 DEF Earliest
      <3> QED BY <3>2, <3>3
    <2>3. InGap(z, matches, after) => z.switch \in Int /\ z.switch > after
      BY <1>2, InGapBefore, ZoneShape
    <2> DEFINE A == UNION {CronFrom(z, matches, a, after) : a \in Earliest(anchors)}
               B == {t \in {z.switch} : InGap(z, matches, after)}
    <2>4. CronNext(z, matches, after) = A \cup B
      BY <1>2, <2>1 DEF CronNext
    <2>5. ASSUME NEW n \in A
          PROVE  n # None /\ (n \in Int /\ n > after)
      <3> HIDE DEF anchors
      <3>1. PICK a \in Earliest(anchors) : n \in CronFrom(z, matches, a, after)
        OBVIOUS
      <3>2. a \in Int /\ a >= after
        BY <2>2
      <3>3. n = None \/ (n \in Int /\ n > after)
        BY <3>1, <3>2, CronFromLater
      <3>4. None \notin CronFrom(z, matches, a, after)
        BY <1>2, <3>2, CronFromLater
      <3> QED BY <3>1, <3>3, <3>4
    <2>6. ASSUME NEW n \in B
          PROVE  n # None /\ (n \in Int /\ n > after)
      <3>1. n = z.switch /\ InGap(z, matches, after)
        BY Zenon
      <3> QED BY <2>3, <3>1, NoneAssumption
    <2> HIDE DEF A, B
    <2>7. \A n \in CronNext(z, matches, after) : n # None /\ (n \in Int /\ n > after)
      BY <2>4, <2>5, <2>6
    <2> QED BY <2>7
  <1> QED BY <1>1, <1>2

-----------------------------------------------------------------------------
(* Every kind.                                                             *)

\* The days a search looks at.
LEMMA DaysAreInt ==
    ASSUME NEW z \in Zones, NEW after \in Int, NEW n \in Int
    PROVE  /\ DayOf(Local(z, after)) \in Int
           /\ Days(DayOf(Local(z, after)), n) \in SUBSET Int
           /\ \A d \in Days(DayOf(Local(z, after)), n) : d >= DayOf(Local(z, after))
  <1>1. DayOf(Local(z, after)) \in Int
    BY LocalIsInt, DivMod, CalendarAssumption DEF DayOf
  <1> QED BY <1>1 DEF Days

\* The windows evaluate_fuzzy draws from have not started when it draws.
LEMMA FuzzyTaken ==
    ASSUME NEW z \in Zones, NEW days_of_week, NEW start \in TimesOfDay, NEW after \in Int,
           NEW d \in FuzzyDays(days_of_week, start, Local(z, after)), NEW picked \in Int,
           picked >= start
    PROVE  /\ d \in Int
           /\ \/ d > DayOf(Local(z, after))
              \/ d = DayOf(Local(z, after)) /\ start > TimeOfDay(Local(z, after))
           /\ d * DayLength + picked > Local(z, after)
  <1>1. DayLength \in Nat \ {0} /\ WeekLength \in Nat \ {0} /\ start \in Int /\ start >= 0
    BY CalendarAssumption DEF TimesOfDay
  <1>2. PICK L \in Int : L = Local(z, after)
    BY LocalIsInt
  <1>3. PICK q \in Int, s \in 0 .. (DayLength - 1) :
           q = DayOf(L) /\ s = TimeOfDay(L) /\ L = q * DayLength + s
    BY <1>1, <1>2, DivMod DEF DayOf, TimeOfDay
  <1>4. d \in Int /\ d >= q /\ (d > q \/ start > s)
    BY <1>1, <1>2, <1>3 DEF FuzzyDays, Days
  <1>5. d * DayLength + picked > L
    <2>1. d * DayLength \in Int /\ q * DayLength \in Int
      BY <1>1, <1>3, <1>4, Z3
    <2>2. CASE d > q
      <3>1. (q + 1) * DayLength <= d * DayLength
        BY <1>1, <1>3, <1>4, <2>2, MulMono
      <3>2. (q + 1) * DayLength = q * DayLength + DayLength
        BY <1>1, <1>3, Z3
      <3> QED BY <1>1, <1>3, <2>1, <3>1, <3>2
    <2>3. CASE d = q /\ start > s
      <3>1. PICK e \in Int : e = q * DayLength
        BY <2>1
      <3>2. L = e + s
        BY <1>3, <3>1
      <3>3. s \in Int /\ picked > s
        BY <1>1, <1>3, <2>3
      <3>4. e + picked > L
        BY <1>2, <3>2, <3>3
      <3> QED BY <2>3, <3>1, <3>4
    <2>4. d > q \/ (d = q /\ start > s)
      BY <1>3, <1>4
    <2> QED BY <2>2, <2>3, <2>4
  <1> QED BY <1>1, <1>2, <1>3, <1>4, <1>5

\* The points evaluate_fuzzy draws from, day by day.
LEMMA FuzzyNextIs ==
    ASSUME NEW z \in Zones, NEW days_of_week, NEW start \in Int, NEW end \in Int,
           NEW after \in Int, NEW n \in FuzzyNext(z, days_of_week, start, end, after),
           NEW days, days = FuzzyDays(days_of_week, start, Local(z, after))
    PROVE  \/ n = None /\ (end <= start \/ days = {})
           \/ \E d \in days, picked \in start .. (end - 1) :
                 n \in Earliest(Candidates(z, {d}, picked, after))
  <1>1. FuzzyNext(z, days_of_week, start, end, after) =
           IF end <= start \/ days = {} THEN {None}
           ELSE UNION {Drawn(z, d, start, end, after) : d \in Earliest(days)}
    BY DEF FuzzyNext
  <1>2. days # {} => Earliest(days) \subseteq days
    BY DEF Earliest
  <1>3. CASE end <= start \/ days = {}
    BY <1>1, <1>3
  <1>4. CASE ~(end <= start \/ days = {})
    <2>1. PICK d \in Earliest(days) : n \in Drawn(z, d, start, end, after)
      BY <1>1, <1>4
    <2>2. PICK picked \in start .. (end - 1) : n \in Earliest(Candidates(z, {d}, picked, after))
      BY <2>1 DEF Drawn
    <2> QED BY <1>2, <1>4, <2>1, <2>2
  <1> QED BY <1>3, <1>4

\* evaluate_next_occurrence, for every trigger kind and zone: the next occurrence
\* is strictly after the instant it is evaluated from.
THEOREM EvaluateNextIsLater ==
    ASSUME NEW kind \in TriggerKinds, NEW after \in Int
    PROVE  \A n \in EvaluateNext(kind, after) : n = None \/ (n \in Int /\ n > after)
  <1>0. \A z \in Zones : \A days \in SUBSET Int, time \in Int :
           \A n \in Earliest(Candidates(z, days, time, after)) :
              n = None \/ (n \in Int /\ n > after)
    BY CandidatesLater, EarliestSubset
  <1>1. CASE kind \in [type : {"Once"}, fire_at : Instant]
    BY <1>1 DEF EvaluateNext, OnceNext, Instant
  <1>2. CASE kind \in [type : {"Interval"}, interval : Nat, start_at : Option(Instant)]
    <2>1. EvaluateNext(kind, after) = IntervalNext(kind.interval, kind.start_at, after)
      BY <1>2 DEF EvaluateNext
    <2> QED BY <1>2, <2>1, IntervalLater
  <1>3. CASE kind \in [type : {"Daily"}, time : TimesOfDay, zone : Zones]
    <2> DEFINE days == Days(DayOf(Local(kind.zone, after)), 4)
    <2>1. kind.zone \in Zones /\ kind.time \in Int
      BY <1>3, CalendarAssumption DEF TimesOfDay
    <2>2. EvaluateNext(kind, after) = Earliest(Candidates(kind.zone, days, kind.time, after))
      BY <1>3 DEF EvaluateNext, DailyNext
    <2>3. days \in SUBSET Int
      BY <2>1, DaysAreInt
    <2> HIDE DEF days
    <2> QED BY <1>0, <2>1, <2>2, <2>3
  <1>4. CASE kind \in [type : {"Weekly"}, days_of_week : SUBSET Weekdays, time : TimesOfDay,
                       zone : Zones]
    <2> DEFINE days == {d \in Days(DayOf(Local(kind.zone, after)), 2 * WeekLength) :
                            WeekdayOf(d) \in kind.days_of_week}
    <2>1. kind.zone \in Zones /\ kind.time \in Int /\ 2 * WeekLength \in Int
      BY <1>4, CalendarAssumption DEF TimesOfDay
    <2>2. EvaluateNext(kind, after) = Earliest(Candidates(kind.zone, days, kind.time, after))
      BY <1>4 DEF EvaluateNext, WeeklyNext
    <2>3. Days(DayOf(Local(kind.zone, after)), 2 * WeekLength) \in SUBSET Int
      BY <2>1, DaysAreInt
    <2>4. days \in SUBSET Int
      BY <2>3
    <2> HIDE DEF days
    <2> QED BY <1>0, <2>1, <2>2, <2>4
  <1>5. CASE kind \in [type : {"Cron"}, matches : SUBSET TimesOfDay, zone : Zones]
    <2>1. EvaluateNext(kind, after) = CronNext(kind.zone, kind.matches, after)
      BY <1>5 DEF EvaluateNext
    <2> QED BY <1>5, <2>1, CronNextIs
  <1>6. CASE kind \in [type : {"Fuzzy"}, days_of_week : SUBSET Weekdays,
                       window_start : TimesOfDay, window_end : TimesOfDay, zone : Zones]
    <2> DEFINE days == FuzzyDays(kind.days_of_week, kind.window_start,
                                 Local(kind.zone, after))
    <2>1. EvaluateNext(kind, after) = FuzzyNext(kind.zone, kind.days_of_week,
                                                kind.window_start, kind.window_end, after)
      BY <1>6 DEF EvaluateNext
    <2>2. kind.zone \in Zones /\ kind.window_start \in TimesOfDay
          /\ kind.window_start \in Int /\ kind.window_end \in Int
      BY <1>6, CalendarAssumption DEF TimesOfDay
    <2>3. SUFFICES ASSUME NEW n \in EvaluateNext(kind, after), n # None
                   PROVE  n \in Int /\ n > after
      OBVIOUS
    <2>4. PICK d \in days, picked \in kind.window_start .. (kind.window_end - 1) :
             n \in Earliest(Candidates(kind.zone, {d}, picked, after))
      <3>1. n \in FuzzyNext(kind.zone, kind.days_of_week, kind.window_start,
                            kind.window_end, after)
        BY <2>1
      <3>2. days = FuzzyDays(kind.days_of_week, kind.window_start, Local(kind.zone, after))
        OBVIOUS
      <3> HIDE DEF days
      <3> QED BY <2>2, <2>3, <3>1, <3>2, FuzzyNextIs, Zenon
    <2>5. picked \in Int /\ picked >= kind.window_start
      BY <2>2
    <2>6. d \in Int
      BY <2>2, <2>5, FuzzyTaken
    <2> HIDE DEF days
    <2> QED BY <1>0, <2>2, <2>3, <2>4, <2>5, <2>6
  <1>7. CASE kind \in [type : {"Network", "AgentStarted"}]
    BY <1>7 DEF EvaluateNext
  <1> QED BY <1>1, <1>2, <1>3, <1>4, <1>5, <1>6, <1>7 DEF TriggerKinds

-----------------------------------------------------------------------------
(* A recurring kind always has a next occurrence.                          *)

\* The second week of a search over two weeks has every weekday.
LEMMA WeekdayFound ==
    ASSUME NEW w \in Weekdays, NEW after \in Int
    PROVE  \E d \in DayOf(after) .. (DayOf(after) + 2 * WeekLength - 1) :
              d > DayOf(after) /\ WeekdayOf(d) = w
  <1>1. PICK q \in Int : q = DayOf(after)
    BY DivMod, CalendarAssumption DEF DayOf
  <1>2. WeekLength \in Nat \ {0} /\ w \in 0 .. (WeekLength - 1) /\ q + WeekLength - 1 \in Int
    BY CalendarAssumption DEF Weekdays
  <1>3. PICK d \in (q + WeekLength - 1 + 1) .. (q + WeekLength - 1 + WeekLength) :
           d % WeekLength = w
    BY <1>2, EveryRemainder
  <1>4. d \in q .. (q + 2 * WeekLength - 1) /\ d > q
    BY <1>2, <1>3
  <1> QED BY <1>1, <1>3, <1>4 DEF WeekdayOf

\* A kind that recurs: the search of its next occurrence never comes back empty,
\* in any zone; the days and the anchors it looks at are always enough.
THEOREM RecurringHasNext ==
    ASSUME NEW kind \in TriggerKinds, NEW after \in Int,
           \/ kind.type = "Interval" /\ kind.interval > 0
           \/ kind.type = "Daily"
           \/ kind.type = "Weekly" /\ kind.days_of_week # {}
           \/ kind.type = "Cron" /\ kind.matches # {}
           \/ kind.type = "Fuzzy" /\ kind.days_of_week # {}
                                  /\ kind.window_start < kind.window_end
    PROVE  None \notin EvaluateNext(kind, after)
  <1>0. DayLength \in Nat \ {0} /\ WeekLength \in Nat \ {0}
    BY CalendarAssumption
  <1>1. CASE kind.type = "Interval" /\ kind.interval > 0
    <2>1. kind.interval \in Nat \ {0} /\ kind.start_at \in Option(Instant)
      BY <1>1 DEF TriggerKinds
    <2>2. EvaluateNext(kind, after) = IntervalNext(kind.interval, kind.start_at, after)
      BY <1>1 DEF EvaluateNext
    <2> DEFINE base == IF kind.start_at = None THEN after ELSE kind.start_at
    <2>3. base \in Int
      BY <2>1 DEF Option, Instant
    <2>4. base + (((after - base) \div kind.interval) + 1) * kind.interval \in Int
      <3>1. after - base \in Int
        BY <2>3
      <3>2. (((after - base) \div kind.interval) + 1) * kind.interval \in Int
        BY <2>1, <3>1, NextMultiple
      <3> QED BY <2>3, <3>2
    <2>5. IntervalNext(kind.interval, kind.start_at, after) \subseteq Int
      BY <2>1, <2>3, <2>4 DEF IntervalNext
    <2> QED BY <2>2, <2>5, NoneAssumption
  <1>2. CASE kind.type = "Daily"
    <2> DEFINE today == DayOf(Local(kind.zone, after))
               days == Days(today, 4)
    <2>1. kind.time \in TimesOfDay /\ kind.zone \in Zones
      BY <1>2 DEF TriggerKinds
    <2>2. EvaluateNext(kind, after) = Earliest(Candidates(kind.zone, days, kind.time, after))
      BY <1>2 DEF EvaluateNext, DailyNext
    <2>3. today \in Int /\ days \in SUBSET Int
      BY <2>1, DaysAreInt
    <2>4. today + 1 \in days /\ today + 1 \in Int /\ today + 1 > today
      <3> HIDE DEF today
      <3> QED BY <2>3 DEF Days
    <2>5. (today + 1) * DayLength + kind.time > Local(kind.zone, after)
      <3> DEFINE d == today + 1
      <3>1. d \in Int /\ d > DayOf(Local(kind.zone, after))
        BY <2>4
      <3> HIDE DEF d
      <3>2. d * DayLength + kind.time > Local(kind.zone, after)
        BY <2>1, <3>1, LocalIsInt, LaterDay
      <3> QED BY <3>2 DEF d
    <2>6. kind.time \in Int
      BY <1>0, <2>1 DEF TimesOfDay
    <2> HIDE DEF today, days
    <2> QED BY <2>1, <2>2, <2>3, <2>4, <2>5, <2>6, CandidateFound
  <1>3. CASE kind.type = "Weekly" /\ kind.days_of_week # {}
    <2> DEFINE today == DayOf(Local(kind.zone, after))
               days == {d \in Days(today, 2 * WeekLength) : WeekdayOf(d) \in kind.days_of_week}
    <2>1. /\ kind.time \in TimesOfDay /\ kind.days_of_week \subseteq Weekdays
          /\ kind.zone \in Zones /\ Local(kind.zone, after) \in Int /\ kind.time \in Int
      BY <1>0, <1>3, LocalIsInt DEF TriggerKinds, TimesOfDay
    <2>2. EvaluateNext(kind, after) = Earliest(Candidates(kind.zone, days, kind.time, after))
      BY <1>3 DEF EvaluateNext, WeeklyNext
    <2>3. PICK d \in today .. (today + 2 * WeekLength - 1) :
             d > today /\ WeekdayOf(d) \in kind.days_of_week
      BY <1>3, <2>1, WeekdayFound
    <2>4. today \in Int /\ 2 * WeekLength \in Int
      BY <1>0, <2>1, DaysAreInt
    <2>5. d \in days /\ days \in SUBSET Int /\ d \in Int
      <3> HIDE DEF today
      <3> QED BY <1>0, <2>3, <2>4 DEF Days
    <2>6. d * DayLength + kind.time > Local(kind.zone, after)
      BY <2>1, <2>3, <2>5, LaterDay
    <2> HIDE DEF days, today
    <2> QED BY <2>1, <2>2, <2>5, <2>6, CandidateFound
  <1>4. CASE kind.type = "Cron" /\ kind.matches # {}
    <2>1. kind.matches \in SUBSET TimesOfDay /\ kind.zone \in Zones
      BY <1>4 DEF TriggerKinds
    <2>2. EvaluateNext(kind, after) = CronNext(kind.zone, kind.matches, after)
      BY <1>4 DEF EvaluateNext
    <2> QED BY <1>4, <2>1, <2>2, CronNextIs
  <1>5. CASE /\ kind.type = "Fuzzy" /\ kind.days_of_week # {}
             /\ kind.window_start < kind.window_end
    <2> DEFINE today == DayOf(Local(kind.zone, after))
               days == FuzzyDays(kind.days_of_week, kind.window_start,
                                 Local(kind.zone, after))
    <2>1. /\ kind.days_of_week \subseteq Weekdays /\ kind.zone \in Zones
          /\ kind.window_start \in TimesOfDay /\ kind.window_start \in Int
          /\ kind.window_end \in Int /\ Local(kind.zone, after) \in Int
      BY <1>0, <1>5, LocalIsInt DEF TriggerKinds, TimesOfDay
    <2>2. EvaluateNext(kind, after) = FuzzyNext(kind.zone, kind.days_of_week,
                                                kind.window_start, kind.window_end, after)
      BY <1>5 DEF EvaluateNext
    <2>3. PICK d \in today .. (today + 2 * WeekLength - 1) :
             d > today /\ WeekdayOf(d) \in kind.days_of_week
      BY <1>5, <2>1, WeekdayFound
    <2>4. days # {}
      BY <2>3 DEF FuzzyDays, Days
    <2>5. ~(kind.window_end <= kind.window_start)
      BY <1>5, <2>1
    <2>6. ASSUME NEW e \in days, NEW picked \in kind.window_start .. (kind.window_end - 1)
          PROVE  None \notin Earliest(Candidates(kind.zone, {e}, picked, after))
      <3>1. picked \in Int /\ picked >= kind.window_start
        BY <2>1
      <3>2. e \in Int /\ e * DayLength + picked > Local(kind.zone, after)
        BY <2>1, <3>1, FuzzyTaken
      <3> QED BY <2>1, <3>1, <3>2, CandidateFound
    <2>7. days = FuzzyDays(kind.days_of_week, kind.window_start, Local(kind.zone, after))
      OBVIOUS
    <2> HIDE DEF days
    <2>8. ASSUME None \in EvaluateNext(kind, after)
          PROVE  \E e \in days, picked \in kind.window_start .. (kind.window_end - 1) :
                    None \in Earliest(Candidates(kind.zone, {e}, picked, after))
      <3>1. None \in FuzzyNext(kind.zone, kind.days_of_week, kind.window_start,
                               kind.window_end, after)
        BY <2>2, <2>8
      <3> QED BY <2>1, <2>4, <2>5, <2>7, <3>1, FuzzyNextIs, Zenon
    <2> QED BY <2>6, <2>8
  <1> QED BY <1>1, <1>2, <1>3, <1>4, <1>5

-----------------------------------------------------------------------------
(* A window is drawn from once.                                            *)

\* Where no clock is put back, local times are ordered as the instants are.
LEMMA LocalIsOrdered ==
    ASSUME NEW z \in Zones, GoesForward(z), NEW a \in Int, NEW b \in Int, a <= b
    PROVE  Local(z, a) <= Local(z, b)
  BY ZoneShape DEF Local, GoesForward

\* There, what resolve_candidate takes for a time in the gap is of the same day.
LEMMA ExitIsSameDay ==
    ASSUME NEW z \in Zones, GoesForward(z), NEW l \in Int, Instants(z, l) = {},
           NEW m \in GapExit(z, l)
    PROVE  DayOf(m) = DayOf(l) /\ TimeOfDay(m) >= TimeOfDay(l)
  <1> DEFINE last == z.switch + z.shift + GapStep - 1
  <1>1. /\ z.switch \in Int /\ z.shift \in Int /\ GapStep \in Nat \ {0}
        /\ DayLength \in Nat \ {0}
    BY ZoneShape
  <1>2. z.switch <= l /\ l < z.switch + z.shift
    BY Gap
  <1>3. m \in Int /\ m > l /\ m <= last /\ last \in Int
    BY <1>1, ExitIsLater
  <1>4. DayOf(last) = DayOf(z.switch)
    BY <1>1, <1>2 DEF GoesForward
  <1>5. /\ DayOf(z.switch) \in Int /\ DayOf(l) \in Int /\ DayOf(m) \in Int
        /\ TimeOfDay(m) \in Int /\ TimeOfDay(l) \in Int
    <2> HIDE DEF last
    <2>1. \A t \in Int : DayOf(t) \in Int /\ TimeOfDay(t) \in Int
      <3>1. \A t \in Int : t \div DayLength \in Int /\ t % DayLength \in 0 .. (DayLength - 1)
        BY <1>1, DivMod
      <3> QED BY <1>1, <3>1 DEF DayOf, TimeOfDay
    <2> QED BY <1>1, <1>3, <2>1
  <1>6. DayOf(z.switch) <= DayOf(l)
    BY <1>1, <1>2, <1>5, DaysAreOrdered
  <1>7. DayOf(m) <= DayOf(last)
    <2> HIDE DEF last
    <2> QED BY <1>3, <1>4, <1>5, DaysAreOrdered
  <1>8. \/ DayOf(l) < DayOf(m)
        \/ DayOf(l) = DayOf(m) /\ TimeOfDay(l) <= TimeOfDay(m)
    BY <1>3, DaysAreOrdered
  <1> HIDE DEF last
  <1> QED BY <1>4, <1>5, <1>6, <1>7, <1>8

\* What evaluate_fuzzy draws lies in the window of a day whose window has not
\* started at `after`, or where a gap takes the window's end, right after it.
LEMMA FuzzyWindow ==
    ASSUME NEW kind \in TriggerKinds, kind.type = "Fuzzy", GoesForward(kind.zone),
           NEW after \in Int, NEW n \in EvaluateNext(kind, after), n # None
    PROVE  /\ n \in Int /\ n > after
           /\ TimeOfDay(Local(kind.zone, n)) >= kind.window_start
           /\ \/ DayOf(Local(kind.zone, n)) > DayOf(Local(kind.zone, after))
              \/ /\ DayOf(Local(kind.zone, n)) = DayOf(Local(kind.zone, after))
                 /\ kind.window_start > TimeOfDay(Local(kind.zone, after))
  <1> DEFINE days == FuzzyDays(kind.days_of_week, kind.window_start, Local(kind.zone, after))
  <1>1. /\ kind.window_start \in TimesOfDay /\ kind.window_end \in TimesOfDay
        /\ kind.zone \in Zones /\ DayLength \in Nat \ {0}
    BY CalendarAssumption DEF TriggerKinds
  <1>2. EvaluateNext(kind, after) = FuzzyNext(kind.zone, kind.days_of_week,
                                              kind.window_start, kind.window_end, after)
    BY DEF EvaluateNext
  <1>3. kind.window_start \in Int /\ kind.window_end \in Int
    BY <1>1 DEF TimesOfDay
  <1>4. PICK d \in days, picked \in kind.window_start .. (kind.window_end - 1) :
           n \in Earliest(Candidates(kind.zone, {d}, picked, after))
    <2>1. n \in FuzzyNext(kind.zone, kind.days_of_week, kind.window_start,
                          kind.window_end, after)
      BY <1>2
    <2>2. days = FuzzyDays(kind.days_of_week, kind.window_start, Local(kind.zone, after))
      OBVIOUS
    <2> HIDE DEF days
    <2> QED BY <1>1, <1>3, <2>1, <2>2, FuzzyNextIs, Zenon
  <1>5. picked \in 0 .. (DayLength - 1) /\ picked >= kind.window_start
        /\ kind.window_start \in Int /\ picked \in Int
    BY <1>1 DEF TimesOfDay
  <1>6. /\ d \in Int
        /\ \/ d > DayOf(Local(kind.zone, after))
           \/ /\ d = DayOf(Local(kind.zone, after))
              /\ kind.window_start > TimeOfDay(Local(kind.zone, after))
    BY <1>1, <1>4, <1>5, FuzzyTaken
  <1>7. PICK l \in Int : l = d * DayLength + picked
    BY <1>1, <1>5, <1>6, Z3
  <1>8. DayOf(l) = d /\ TimeOfDay(l) = picked
    BY <1>1, <1>5, <1>6, <1>7, ModUnique DEF DayOf, TimeOfDay
  <1>9. n \in Resolved(kind.zone, l) /\ n \in Int /\ n > after
    BY <1>1, <1>4, <1>5, <1>6, <1>7, EvaluateNextIsLater DEF Candidates, Earliest
  <1>10. /\ DayOf(Local(kind.zone, n)) = d
         /\ TimeOfDay(Local(kind.zone, n)) >= kind.window_start
    <2>1. CASE Instants(kind.zone, l) # {}
      <3>1. Local(kind.zone, n) = l
        BY <1>1, <1>9, <2>1, InstantsInvertLocal DEF Resolved
      <3> QED BY <1>5, <1>8, <3>1
    <2>2. CASE Instants(kind.zone, l) = {}
      <3>1. PICK m \in GapExit(kind.zone, l) : n \in Instants(kind.zone, m)
        BY <1>9, <2>2 DEF Resolved
      <3>2. Local(kind.zone, n) = m /\ m \in Int
        BY <1>1, <3>1, ExitIsLater, InstantsInvertLocal
      <3>3. DayOf(m) = DayOf(l) /\ TimeOfDay(m) >= TimeOfDay(l) /\ TimeOfDay(m) \in Int
        <4>1. TimeOfDay(m) \in Int
          BY <1>1, <3>2, DivMod DEF TimeOfDay
        <4> QED BY <1>1, <2>2, <4>1, ExitIsSameDay
      <3> QED BY <1>5, <1>8, <3>2, <3>3
    <2> QED BY <2>1, <2>2
  <1> QED BY <1>6, <1>9, <1>10

\* A Fuzzy occurrence drawn after one of the same trigger is of a later day.
LEMMA FuzzyLaterDay ==
    ASSUME NEW kind \in TriggerKinds, kind.type = "Fuzzy", GoesForward(kind.zone),
           NEW after \in Int, NEW n \in EvaluateNext(kind, after), n # None,
           NEW at \in Int, at <= after,
           TimeOfDay(Local(kind.zone, at)) >= kind.window_start
    PROVE  DayOf(Local(kind.zone, n)) > DayOf(Local(kind.zone, at))
  <1> DEFINE Ln == Local(kind.zone, n)
             La == Local(kind.zone, after)
             Lt == Local(kind.zone, at)
  <1>0. kind.zone \in Zones /\ kind.window_start \in TimesOfDay /\ DayLength \in Nat \ {0}
    BY CalendarAssumption DEF TriggerKinds
  <1>1. /\ \/ DayOf(Ln) > DayOf(La)
           \/ DayOf(Ln) = DayOf(La) /\ kind.window_start > TimeOfDay(La)
        /\ n \in Int
    BY FuzzyWindow
  <1>2. Ln \in Int /\ La \in Int /\ Lt \in Int /\ Lt <= La
    BY <1>0, <1>1, LocalIsInt, LocalIsOrdered
  <1>3. TimeOfDay(Lt) >= kind.window_start
    OBVIOUS
  <1> HIDE DEF Ln, La, Lt
  <1>4. DayOf(Lt) < DayOf(La) \/ (DayOf(Lt) = DayOf(La) /\ TimeOfDay(Lt) <= TimeOfDay(La))
    BY <1>2, DaysAreOrdered
  <1>5. /\ DayOf(Ln) \in Int /\ DayOf(Lt) \in Int /\ DayOf(La) \in Int
        /\ TimeOfDay(Lt) \in Int /\ TimeOfDay(La) \in Int /\ kind.window_start \in Int
    <2>1. \A t \in Int : t \div DayLength \in Int /\ t % DayLength \in 0 .. (DayLength - 1)
      BY <1>0, DivMod
    <2>2. \A t \in Int : DayOf(t) \in Int /\ TimeOfDay(t) \in Int
      BY <1>0, <2>1 DEF DayOf, TimeOfDay
    <2> QED BY <1>0, <1>2, <2>2 DEF TimesOfDay
  <1>6. DayOf(Ln) > DayOf(Lt)
    BY <1>1, <1>3, <1>4, <1>5
  <1> QED BY <1>6 DEF Ln, Lt

-----------------------------------------------------------------------------
(* The queue and the loop.                                                 *)

\* The triggers of a live pair have a well-formed kind.
LEMMA LiveKind ==
    ASSUME NEW def \in Option(TaskDefs), NEW r, Live(def, r)
    PROVE  /\ def \in TaskDefs
           /\ r \in Triggers
           /\ def.triggers[r].kind \in TriggerKinds
  <1>1. def \in TaskDefs
    BY DEF Live, Option
  <1>2. r \in DOMAIN def.triggers /\ def.triggers[r] \in Trigger
    BY <1>1, TaskDefsAssumption DEF Live
  <1> QED BY <1>1, <1>2, TaskDefsAssumption DEF Trigger

\* What the evaluation of a live pair may return.
LEMMA EvaluateLive ==
    ASSUME NEW reg \in [Tasks -> Option(TaskDefs)], NEW t \in Tasks, NEW r,
           Live(reg[t], r), NEW after \in Int,
           NEW n \in EvaluateNext(KindOf(reg, <<t, r>>), after), n # None
    PROVE  n \in Int /\ n > after /\ r \in Triggers
  <1>1. KindOf(reg, <<t, r>>) \in TriggerKinds /\ r \in Triggers
    BY LiveKind DEF KindOf
  <1> QED BY <1>1, EvaluateNextIsLater

\* The items of a plan: one per live trigger that has a next occurrence.
LEMMA PlanItemsProperties ==
    ASSUME NEW reg \in [Tasks -> Option(TaskDefs)], NEW S \in SUBSET Tasks,
           now \in Int, NEW f \in Plans(reg, S), NEW g \in [Tasks -> Nat],
           NEW i \in PlanItems(f, g)
    PROVE  /\ i \in ScheduledItem
           /\ i.task_id \in S
           /\ i.generation = g[i.task_id]
           /\ Live(reg[i.task_id], i.trigger_id)
           /\ i.next_fire_at > now
           /\ i.next_fire_at = f[<<i.task_id, i.trigger_id>>]
  <1>1. f \in [LivePairs(reg, S) ->
                 UNION {EvaluateNext(KindOf(reg, p), now) : p \in LivePairs(reg, S)}]
        /\ \A p \in LivePairs(reg, S) : f[p] \in EvaluateNext(KindOf(reg, p), now)
    BY DEF Plans
  <1>2. PICK p \in LivePairs(reg, S) : f[p] # None /\ i = Item(p, f[p], g)
    BY <1>1 DEF PlanItems
  <1>3. PICK t \in S, r \in Triggers : p = <<t, r>> /\ Live(reg[t], r)
    BY <1>2 DEF LivePairs
  <1>4. f[p] \in Int /\ f[p] > now
    BY <1>1, <1>2, <1>3, EvaluateLive
  <1>5. i = [task_id |-> t, trigger_id |-> r, next_fire_at |-> f[p], generation |-> g[t]]
    BY <1>2, <1>3 DEF Item
  <1> QED BY <1>3, <1>4, <1>5 DEF ScheduledItem, Instant

-----------------------------------------------------------------------------
(* Type correctness.                                                       *)

LEMMA InitType == Init => TypeOK
  BY ChannelAssumption
     DEF Init, TypeOK, NoGenerations, Option, RequestState, Pairs, Instant

LEMMA BeginType ==
    ASSUME TypeOK, NEW c \in Requests, NEW cmd \in Commands, Begin(c, cmd)
    PROVE  TypeOK'
  <1>1. req' \in [Requests -> RequestState]
    BY DEF TypeOK, Begin, RequestState
  <1>2. cmds' \in Seq(Requests \cup {"Shutdown"}) /\ Len(cmds') <= CmdCap
    <2>1. CASE cmds' = Append(cmds, c) /\ Len(cmds) < CmdCap
      BY <2>1, ChannelAssumption DEF TypeOK
    <2>2. CASE cmds' = cmds
      BY <2>2 DEF TypeOK
    <2> QED BY <2>1, <2>2 DEF Begin
  <1> QED BY <1>1, <1>2 DEF TypeOK, Begin, queueVars, loopVars, clockVars

LEMMA EnqueueType ==
    ASSUME TypeOK, NEW c \in Requests, Enqueue(c)
    PROVE  TypeOK'
  <1>1. req' \in [Requests -> RequestState]
    BY DEF TypeOK, Enqueue, RequestState
  <1>2. cmds' \in Seq(Requests \cup {"Shutdown"}) /\ Len(cmds') <= CmdCap
    BY ChannelAssumption DEF TypeOK, Enqueue
  <1> QED BY <1>1, <1>2 DEF TypeOK, Enqueue, queueVars, loopVars, clockVars

LEMMA ChannelType ==
    ASSUME TypeOK, ReceiveEvent \/ StopDispatcher \/ SendShutdown
    PROVE  TypeOK'
  <1>1. CASE ReceiveEvent
    <2>1. events' \in Seq(TriggerEvent)
          /\ Len(events') <= EventCap
      BY <1>1, ChannelAssumption DEF TypeOK, ReceiveEvent
    <2> QED BY <1>1, <2>1 DEF TypeOK, ReceiveEvent, queueVars, loopVars, clockVars
  <1>2. CASE StopDispatcher
    <2>1. events' \in Seq(TriggerEvent)
          /\ Len(events') <= EventCap
      BY <1>2, ChannelAssumption DEF StopDispatcher
    <2> QED BY <1>2, <2>1 DEF TypeOK, StopDispatcher, queueVars, loopVars, clockVars
  <1>3. CASE SendShutdown
    <2>1. cmds' \in Seq(Requests \cup {"Shutdown"}) /\ Len(cmds') <= CmdCap
      BY <1>3, ChannelAssumption DEF TypeOK, SendShutdown
    <2> QED BY <1>3, <2>1 DEF TypeOK, SendShutdown, queueVars, loopVars, clockVars
  <1> QED BY <1>1, <1>2, <1>3

LEMMA LoopType ==
    ASSUME TypeOK, Loop
    PROVE  TypeOK'
  <1>1. heap' \subseteq ScheduledItem
    BY DEF TypeOK, Loop, DropStale
  <1>2. timer' \in Option(Nat)
    BY DEF TypeOK, Loop, Option, SleepDuration, FirstValid, ValidItems,
           ScheduledItem, Instant
  <1> QED BY <1>1, <1>2 DEF TypeOK, Loop, clockVars

\* The part of the state every command handler changes in the same way.
LEMMA ReceivesType ==
    ASSUME TypeOK, NEW c \in Requests, NEW op, Receives(c, op)
    PROVE  /\ cmds' \in Seq(Requests \cup {"Shutdown"}) /\ Len(cmds') <= CmdCap
           /\ timer' \in Option(Nat)
           /\ req[c].cmd \in Commands /\ req[c].cmd.op = op
  <1>1. req[c] \in RequestState
    BY DEF TypeOK
  <1> QED BY <1>1, ChannelAssumption DEF TypeOK, Receives, Option, RequestState

LEMMA SettleType ==
    ASSUME TypeOK, NEW c \in Requests, NEW st \in {"done", "refused"}, Settle(c, st)
    PROVE  req' \in [Requests -> RequestState]
  BY DEF TypeOK, Settle, RequestState

\* A command's parameters have the types its operation requires.
LEMMA CommandTypes ==
    ASSUME NEW cmd \in Commands
    PROVE  /\ cmd.task_id \in Tasks
           /\ cmd.op = "AddTask" => cmd.task \in TaskDefs
           /\ cmd.op = "RerollTrigger" => cmd.trigger_id \in Triggers
  BY DEF Commands

LEMMA AddTaskType ==
    ASSUME TypeOK, NEW c \in Requests, AddTask(c)
    PROVE  TypeOK'
  <1> DEFINE t == req[c].cmd.task_id
  <1>1. /\ cmds' \in Seq(Requests \cup {"Shutdown"}) /\ Len(cmds') <= CmdCap
        /\ timer' \in Option(Nat)
        /\ req[c].cmd \in Commands /\ req[c].cmd.op = "AddTask"
    BY ReceivesType DEF AddTask
  <1>2. t \in Tasks /\ req[c].cmd.task \in TaskDefs
    BY <1>1, CommandTypes
  <1>3. req' \in [Requests -> RequestState]
    BY SettleType DEF AddTask
  <1>4. generations' \in [Tasks -> Nat]
    BY <1>2 DEF TypeOK, AddTask, BumpGeneration
  <1>5. registered' \in [Tasks -> Option(TaskDefs)]
    BY <1>2 DEF TypeOK, AddTask, Option
  <1>6. heap' \subseteq ScheduledItem
    <2>1. PICK f \in Plans(registered', {t}) :
             heap' = Push(heap, generations', PlanItems(f, generations'))
      BY DEF AddTask
    <2>2. now \in Int /\ {t} \in SUBSET Tasks
      BY <1>2 DEF TypeOK
    <2>3. PlanItems(f, generations') \subseteq ScheduledItem
      BY <1>4, <1>5, <2>2, PlanItemsProperties
    <2> QED BY <2>1, <2>3 DEF Push, TypeOK
  <1> QED BY <1>1, <1>3, <1>4, <1>5, <1>6 DEF TypeOK, AddTask, clockVars

LEMMA RemoveTaskType ==
    ASSUME TypeOK, NEW c \in Requests, RemoveTask(c)
    PROVE  TypeOK'
  <1>1. /\ cmds' \in Seq(Requests \cup {"Shutdown"}) /\ Len(cmds') <= CmdCap
        /\ timer' \in Option(Nat)
        /\ req[c].cmd \in Commands
    BY ReceivesType DEF RemoveTask
  <1>2. req[c].cmd.task_id \in Tasks
    BY <1>1, CommandTypes
  <1>3. req' \in [Requests -> RequestState]
    BY SettleType DEF RemoveTask
  <1>4. generations' \in [Tasks -> Nat] /\ registered' \in [Tasks -> Option(TaskDefs)]
    BY <1>2 DEF TypeOK, RemoveTask, BumpGeneration, Option
  <1> QED BY <1>1, <1>3, <1>4 DEF TypeOK, RemoveTask, clockVars

LEMMA TriggerNowType ==
    ASSUME TypeOK, NEW c \in Requests, TriggerNow(c)
    PROVE  TypeOK'
  <1>1. /\ cmds' \in Seq(Requests \cup {"Shutdown"}) /\ Len(cmds') <= CmdCap
        /\ timer' \in Option(Nat)
        /\ req[c].cmd \in Commands
    BY ReceivesType DEF TriggerNow
  <1>2. req[c].cmd.task_id \in Tasks
    BY <1>1, CommandTypes
  <1>3. req' \in [Requests -> RequestState]
    BY SettleType DEF TriggerNow
  <1>4. sending' \in TriggerEvent /\ sending' # None
    BY <1>2, NoTaskAssumption DEF TriggerNow, Option, TriggerEvent
  <1> QED BY <1>1, <1>3, <1>4 DEF TypeOK, TriggerNow, queueVars, clockVars, Option

\* The queue after a reroll holds well-formed items only.
LEMMA RerolledType ==
    ASSUME TypeOK, NEW t \in Tasks, NEW r \in Triggers,
           NEW next \in Option(Int), NEW g \in [Tasks -> Nat]
    PROVE  Rerolled(<<t, r>>, next, g) \subseteq ScheduledItem
  <1>1. \A i \in heap : [i EXCEPT !.generation = g[t]] \in ScheduledItem
    BY DEF TypeOK, ScheduledItem
  <1>2. next # None => Item(<<t, r>>, next, g) \in ScheduledItem
    BY DEF Item, ScheduledItem, Instant, Option
  <1> QED BY <1>1, <1>2 DEF Rerolled, Push, ItemsOfTask, TypeOK

LEMMA RerollTriggerType ==
    ASSUME TypeOK, NEW c \in Requests, RerollTrigger(c)
    PROVE  TypeOK'
  <1> DEFINE t == req[c].cmd.task_id
             r == req[c].cmd.trigger_id
  <1>1. /\ cmds' \in Seq(Requests \cup {"Shutdown"}) /\ Len(cmds') <= CmdCap
        /\ timer' \in Option(Nat)
        /\ req[c].cmd \in Commands /\ req[c].cmd.op = "RerollTrigger"
    BY ReceivesType DEF RerollTrigger
  <1>2. t \in Tasks /\ r \in Triggers
    BY <1>1, CommandTypes
  <1>3. req' \in [Requests -> RequestState]
    BY SettleType DEF RerollTrigger
  <1>4. generations' \in [Tasks -> Nat]
    BY <1>2 DEF TypeOK, RerollTrigger, BumpGeneration
  <1>5. heap' \subseteq ScheduledItem
    <2>1. CASE heap' = heap
      BY <2>1 DEF TypeOK
    <2>2. ASSUME Live(registered[t], r),
                 NEW next \in EvaluateNext(KindOf(registered, <<t, r>>), now),
                 heap' = Rerolled(<<t, r>>, next, generations')
          PROVE  heap' \subseteq ScheduledItem
      <3>1. next \in Option(Int)
        BY <2>2, <1>2, EvaluateLive DEF TypeOK, Option
      <3> QED BY <2>2, <3>1, <1>2, <1>4, RerolledType
    <2> QED BY <2>1, <2>2 DEF RerollTrigger
  <1> QED BY <1>1, <1>3, <1>4, <1>5 DEF TypeOK, RerollTrigger, clockVars

LEMMA ShutdownType ==
    ASSUME TypeOK, Shutdown
    PROVE  TypeOK'
  <1>1. req' \in [Requests -> RequestState]
    BY DEF TypeOK, Shutdown, RequestState
  <1>2. cmds' \in Seq(Requests \cup {"Shutdown"}) /\ Len(cmds') <= CmdCap
    BY ChannelAssumption DEF Shutdown
  <1> QED BY <1>1, <1>2 DEF TypeOK, Shutdown, queueVars, clockVars, Option

\* The item that the timer fires, and what replaces it in the queue.
LEMMA FireItem ==
    ASSUME TypeOK, NEW item \in FirstValid(heap, generations),
           NEW next \in Renewals(item), next # None
    PROVE  /\ next \in Int /\ next > now
           /\ Item(<<item.task_id, item.trigger_id>>, next, generations) \in ScheduledItem
           /\ Live(registered[item.task_id], item.trigger_id)
  <1>1. item \in ScheduledItem
    BY DEF TypeOK, FirstValid, ValidItems
  <1>2. item.task_id \in Tasks /\ item.trigger_id \in Triggers
    BY <1>1 DEF ScheduledItem
  <1>3. /\ Live(registered[item.task_id], item.trigger_id)
        /\ next \in EvaluateNext(KindOf(registered, <<item.task_id, item.trigger_id>>), now)
    BY DEF Renewals
  <1>4. next \in Int /\ next > now
    BY <1>2, <1>3, EvaluateLive DEF TypeOK
  <1> QED BY <1>2, <1>3, <1>4 DEF Item, ScheduledItem, Instant, TypeOK

LEMMA FireType ==
    ASSUME TypeOK, Fire
    PROVE  TypeOK'
  <1>1. PICK item \in FirstValid(heap, generations) :
          /\ \E next \in Renewals(item) :
               heap' = IF next = None THEN Pop(heap, generations, item)
                       ELSE Push(Pop(heap, generations, item), generations,
                                 {Item(<<item.task_id, item.trigger_id>>, next, generations)})
          /\ sending' = [task_id |-> item.task_id, trigger_id |-> item.trigger_id]
          /\ lastFired' = [lastFired EXCEPT ![<<item.task_id, item.trigger_id>>] =
                 [at |-> item.next_fire_at, def |-> registered[item.task_id]]]
    BY DEF Fire
  <1>2. item \in ScheduledItem
    BY DEF TypeOK, FirstValid, ValidItems
  <1>3. heap' \subseteq ScheduledItem
    <2>1. PICK next \in Renewals(item) :
               heap' = IF next = None THEN Pop(heap, generations, item)
                       ELSE Push(Pop(heap, generations, item), generations,
                                 {Item(<<item.task_id, item.trigger_id>>, next, generations)})
      BY <1>1
    <2>2. Pop(heap, generations, item) \subseteq ScheduledItem
      BY DEF Pop, DropStale, TypeOK
    <2>3. next # None =>
            Item(<<item.task_id, item.trigger_id>>, next, generations) \in ScheduledItem
      BY FireItem
    <2> QED BY <2>1, <2>2, <2>3 DEF Push
  <1>4. sending' \in TriggerEvent /\ sending' # None
    BY <1>1, <1>2, NoTaskAssumption DEF ScheduledItem, Option, TriggerEvent
  <1>5. lastFired' \in [Pairs -> Option([at : Instant, def : Option(TaskDefs)])]
    BY <1>1, <1>2 DEF ScheduledItem, Option, TypeOK, Pairs
  <1> QED BY <1>3, <1>4, <1>5 DEF TypeOK, Fire, clockVars, Option

LEMMA SendEventType ==
    ASSUME TypeOK, SendEvent
    PROVE  TypeOK'
  <1>1. events' \in Seq(TriggerEvent)
        /\ Len(events') <= EventCap
    <2>1. CASE events' = events
      BY <2>1 DEF TypeOK
    <2>2. CASE events' = Append(events, sending) /\ Len(events) < EventCap
      <3>1. sending \in TriggerEvent
        BY DEF TypeOK, SendEvent, Option
      <3> QED BY <2>2, <3>1, ChannelAssumption DEF TypeOK
    <2> QED BY <2>1, <2>2 DEF SendEvent
  <1> QED BY <1>1 DEF TypeOK, SendEvent, queueVars, clockVars, Option

LEMMA JumpCheckType ==
    ASSUME TypeOK, JumpCheck
    PROVE  TypeOK'
  <1>1. heap' \subseteq ScheduledItem
    <2>1. ASSUME NEW f \in Plans(registered, Tasks),
                 heap' = Push({}, generations, PlanItems(f, generations))
          PROVE  heap' \subseteq ScheduledItem
      <3>1. PlanItems(f, generations) \subseteq ScheduledItem
        BY PlanItemsProperties DEF TypeOK
      <3> QED BY <2>1, <3>1 DEF Push
    <2>2. CASE heap' = heap
      BY <2>2 DEF TypeOK
    <2> QED BY <2>1, <2>2 DEF JumpCheck
  <1> QED BY <1>1 DEF TypeOK, JumpCheck, clockVars, Option

LEMMA TimeType ==
    ASSUME TypeOK, Tick \/ (\E d \in WallSteps : WallStep(d))
    PROVE  TypeOK'
  <1>1. CASE Tick
    <2>1. timer' \in Option(Nat) /\ now' \in Int
      BY <1>1 DEF TypeOK, Tick, Option
    <2> QED BY <1>1, <2>1 DEF TypeOK, Tick, queueVars
  <1>2. ASSUME NEW d \in WallSteps, WallStep(d)
        PROVE  TypeOK'
    <2>1. now' \in Int /\ drift' \in Int
      BY <1>2, ClockAssumption DEF TypeOK, WallStep
    <2> QED BY <1>2, <2>1 DEF TypeOK, WallStep, queueVars, loopVars
  <1> QED BY <1>1, <1>2

LEMMA NextType ==
    ASSUME TypeOK, [Next]_vars
    PROVE  TypeOK'
  <1>1. CASE Next
    <2>1. ASSUME NEW c \in Requests, Command(c) PROVE TypeOK'
      BY <2>1, AddTaskType, RemoveTaskType, TriggerNowType, RerollTriggerType DEF Command
    <2> QED BY <1>1, <2>1, BeginType, EnqueueType, ChannelType, LoopType, ShutdownType,
               FireType, SendEventType, JumpCheckType, TimeType DEF Next
  <1>2. CASE UNCHANGED vars
    BY <1>2 DEF TypeOK, vars
  <1> QED BY <1>1, <1>2

\* The state of the scheduler is well typed: in particular a request that waits
\* in the command channel carries a command, and the channels keep their bounds.
THEOREM TypeCorrect == Spec => []TypeOK
  <1> QED BY InitType, NextType, PTL DEF Spec

-----------------------------------------------------------------------------
(* The queue.                                                              *)

\* The inductive invariant: an item is of the current or of an earlier
\* generation (so that a bump cancels all of them), an occurrence is queued
\* once, and the valid items are those of live triggers.
QueueInv == FreshGenerations /\ OneEntryPerTrigger /\ ValidItemsAreLive

LEMMA InitQueue == Init => QueueInv
  BY DEF Init, QueueInv, FreshGenerations, OneEntryPerTrigger, ValidItemsAreLive, ValidItems

\* Removing items of the heap preserves the invariant.
LEMMA ShrinkQueue ==
    ASSUME QueueInv, heap' \subseteq heap, UNCHANGED <<generations, registered>>
    PROVE  QueueInv'
  BY DEF QueueInv, FreshGenerations, OneEntryPerTrigger, ValidItemsAreLive,
         ValidItems, IsValid

\* Items are records: equal fields, equal items.
LEMMA SameItem ==
    ASSUME NEW i \in ScheduledItem, NEW j \in ScheduledItem,
           i.task_id = j.task_id, i.trigger_id = j.trigger_id,
           i.generation = j.generation, i.next_fire_at = j.next_fire_at
    PROVE  i = j
  BY DEF ScheduledItem

LEMMA AddTaskQueue ==
    ASSUME TypeOK, TypeOK', QueueInv, NEW c \in Requests, AddTask(c)
    PROVE  QueueInv'
  <1>1. PICK t \in Tasks : t = req[c].cmd.task_id
    BY ReceivesType, CommandTypes DEF AddTask
  <1>2. PICK f \in Plans(registered', {t}) :
           heap' = Push(heap, generations', PlanItems(f, generations'))
    BY <1>1 DEF AddTask
  <1>3. /\ generations' = [generations EXCEPT ![t] = @ + 1]
        /\ registered' = [registered EXCEPT ![t] = req[c].cmd.task]
    BY <1>1 DEF AddTask, BumpGeneration
  <1>4. \A i \in PlanItems(f, generations') :
           /\ i \in ScheduledItem
           /\ i.task_id = t
           /\ i.generation = generations'[t]
           /\ Live(registered'[t], i.trigger_id)
           /\ i.next_fire_at = f[<<t, i.trigger_id>>]
    <2>1. registered' \in [Tasks -> Option(TaskDefs)] /\ generations' \in [Tasks -> Nat]
          /\ now \in Int /\ {t} \in SUBSET Tasks
      BY <1>1 DEF TypeOK
    <2>2. ASSUME NEW i \in PlanItems(f, generations')
          PROVE
             /\ i \in ScheduledItem
             /\ i.task_id \in {t}
             /\ i.generation = generations'[i.task_id]
             /\ Live(registered'[i.task_id], i.trigger_id)
             /\ i.next_fire_at = f[<<i.task_id, i.trigger_id>>]
      BY <2>1, PlanItemsProperties
    <2> QED BY <2>2
  <1>5. \A i \in heap : /\ i \in ScheduledItem
                        /\ i.generation <= generations[i.task_id]
                        /\ i.task_id = t => i.generation < generations'[t]
    BY <1>1, <1>3 DEF TypeOK, QueueInv, FreshGenerations, ScheduledItem
  <1>6. \A i \in heap' : i \in heap \/ i \in PlanItems(f, generations')
    BY <1>2 DEF Push
  <1>7. FreshGenerations'
    <2> SUFFICES ASSUME NEW i \in heap'
                 PROVE  i.generation <= generations'[i.task_id]
      BY DEF FreshGenerations
    <2>1. CASE i \in PlanItems(f, generations')
      <3>1. i.generation = generations'[i.task_id] /\ i \in ScheduledItem
        BY <2>1, <1>4
      <3> QED BY <3>1 DEF ScheduledItem
    <2>2. CASE i \in heap
      <3>1. CASE i.task_id = t
        BY <2>2, <3>1, <1>5 DEF TypeOK, ScheduledItem
      <3>2. CASE i.task_id # t
        BY <2>2, <3>2, <1>5, <1>3 DEF TypeOK, ScheduledItem
      <3> QED BY <3>1, <3>2
    <2> QED BY <1>6, <2>1, <2>2
  <1>8. OneEntryPerTrigger'
    <2> SUFFICES ASSUME NEW i \in heap', NEW j \in heap',
                        i.task_id = j.task_id, i.trigger_id = j.trigger_id,
                        i.generation = j.generation
                 PROVE  i = j
      BY DEF OneEntryPerTrigger
    <2>1. CASE i \in heap /\ j \in heap
      BY <2>1 DEF QueueInv, OneEntryPerTrigger
    <2>2. CASE i \in PlanItems(f, generations') /\ j \in PlanItems(f, generations')
      BY <2>2, <1>4, SameItem
    <2>3. CASE i \in heap /\ j \in PlanItems(f, generations')
      <3>1. i.generation < generations'[t] /\ j.generation = generations'[t]
        BY <2>3, <1>4, <1>5
      <3> QED BY <3>1 DEF TypeOK
    <2>4. CASE j \in heap /\ i \in PlanItems(f, generations')
      <3>1. j.generation < generations'[t] /\ i.generation = generations'[t]
        BY <2>4, <1>4, <1>5
      <3> QED BY <3>1 DEF TypeOK
    <2> QED BY <1>6, <2>1, <2>2, <2>3, <2>4
  <1>9. ValidItemsAreLive'
    <2> SUFFICES ASSUME NEW i \in heap', generations'[i.task_id] = i.generation
                 PROVE  Live(registered'[i.task_id], i.trigger_id)
      BY DEF ValidItemsAreLive, ValidItems, IsValid
    <2>1. CASE i \in PlanItems(f, generations')
      BY <2>1, <1>4
    <2>2. CASE i \in heap
      <3>1. i.task_id # t /\ i.task_id \in Tasks
        BY <2>2, <1>5, <1>1, <1>3 DEF TypeOK, ScheduledItem
      <3>2. Live(registered[i.task_id], i.trigger_id)
        BY <2>2, <3>1, <1>3 DEF QueueInv, ValidItemsAreLive, ValidItems, IsValid, TypeOK
      <3> QED BY <3>1, <3>2, <1>3 DEF TypeOK
    <2> QED BY <1>6, <2>1, <2>2
  <1> QED BY <1>7, <1>8, <1>9 DEF QueueInv

LEMMA RemoveTaskQueue ==
    ASSUME TypeOK, TypeOK', QueueInv, NEW c \in Requests, RemoveTask(c)
    PROVE  QueueInv'
  <1>1. PICK t \in Tasks : t = req[c].cmd.task_id
    BY ReceivesType, CommandTypes DEF RemoveTask
  <1>2. /\ generations' = [generations EXCEPT ![t] = @ + 1]
        /\ registered' = [registered EXCEPT ![t] = None]
        /\ heap' = heap
    BY <1>1 DEF RemoveTask, BumpGeneration
  <1>3. \A i \in heap : /\ i \in ScheduledItem
                        /\ i.generation <= generations[i.task_id]
                        /\ i.task_id = t => i.generation < generations'[t]
    BY <1>2 DEF TypeOK, QueueInv, FreshGenerations, ScheduledItem
  <1>4. FreshGenerations'
    <2> SUFFICES ASSUME NEW i \in heap
                 PROVE  i.generation <= generations'[i.task_id]
      BY <1>2 DEF FreshGenerations
    <2>1. CASE i.task_id = t
      BY <2>1, <1>3 DEF TypeOK, ScheduledItem
    <2>2. CASE i.task_id # t
      BY <2>2, <1>3, <1>2 DEF TypeOK, ScheduledItem
    <2> QED BY <2>1, <2>2
  <1>5. OneEntryPerTrigger'
    BY <1>2 DEF QueueInv, OneEntryPerTrigger
  <1>6. ValidItemsAreLive'
    <2> SUFFICES ASSUME NEW i \in heap, generations'[i.task_id] = i.generation
                 PROVE  Live(registered'[i.task_id], i.trigger_id)
      BY <1>2 DEF ValidItemsAreLive, ValidItems, IsValid
    <2>1. i.task_id # t /\ i.task_id \in Tasks
      BY <1>3, <1>2 DEF TypeOK, ScheduledItem
    <2>2. Live(registered[i.task_id], i.trigger_id)
      BY <2>1, <1>2 DEF QueueInv, ValidItemsAreLive, ValidItems, IsValid, TypeOK
    <2> QED BY <2>1, <2>2, <1>2 DEF TypeOK
  <1> QED BY <1>4, <1>5, <1>6 DEF QueueInv

\* The items of the queue after a reroll of the trigger r of the task t: those
\* of other tasks, the valid siblings with their times, and the target.
LEMMA RerolledItems ==
    ASSUME TypeOK, NEW t \in Tasks, NEW r \in Triggers, NEW next \in Option(Int),
           NEW g \in [Tasks -> Nat], NEW i \in Rerolled(<<t, r>>, next, g)
    PROVE  \/ i \in heap /\ i.task_id # t
           \/ \E j \in heap : /\ j.task_id = t /\ j.trigger_id # r
                               /\ j.generation = generations[t]
                               /\ i.task_id = t /\ i.trigger_id = j.trigger_id
                               /\ i.next_fire_at = j.next_fire_at
                               /\ i.generation = g[t]
           \/ /\ next # None /\ i.task_id = t /\ i.trigger_id = r
              /\ i.next_fire_at = next /\ i.generation = g[t]
  <1> DEFINE kept == {j \in ItemsOfTask(heap, t) : IsValid(generations, j) /\ j.trigger_id # r}
             moved == {[j EXCEPT !.generation = g[t]] : j \in kept}
             target == IF next = None THEN {} ELSE {Item(<<t, r>>, next, g)}
  <1>1. i \in heap \ ItemsOfTask(heap, t) \/ i \in moved \/ i \in target
    BY DEF Rerolled, Push
  <1>2. CASE i \in heap \ ItemsOfTask(heap, t)
    BY <1>2 DEF ItemsOfTask
  <1>3. CASE i \in moved
    <2>1. PICK j \in kept : i = [j EXCEPT !.generation = g[t]]
      BY <1>3
    <2>2. /\ j \in heap /\ j \in ScheduledItem /\ j.task_id = t /\ j.trigger_id # r
          /\ j.generation = generations[t]
      BY DEF TypeOK, ItemsOfTask, IsValid
    <2>3. /\ i.task_id = t /\ i.trigger_id = j.trigger_id
          /\ i.next_fire_at = j.next_fire_at /\ i.generation = g[t]
      BY <2>1, <2>2 DEF ScheduledItem
    <2> QED BY <2>2, <2>3
  <1>4. CASE i \in target
    BY <1>4 DEF Item
  <1> QED BY <1>1, <1>2, <1>3, <1>4

LEMMA RerollTriggerQueue ==
    ASSUME TypeOK, TypeOK', QueueInv, NEW c \in Requests, RerollTrigger(c)
    PROVE  QueueInv'
  <1>1. PICK t \in Tasks : t = req[c].cmd.task_id
    BY ReceivesType, CommandTypes DEF RerollTrigger
  <1>2. PICK r \in Triggers : r = req[c].cmd.trigger_id
    BY ReceivesType, CommandTypes DEF RerollTrigger
  <1>3. CASE UNCHANGED <<heap, generations>>
    BY <1>3, ShrinkQueue DEF RerollTrigger
  <1>4. ASSUME Live(registered[t], r),
               generations' = BumpGeneration(generations, t),
               NEW next \in EvaluateNext(KindOf(registered, <<t, r>>), now),
               heap' = Rerolled(<<t, r>>, next, generations')
        PROVE  QueueInv'
    <2>1. next \in Option(Int)
      BY <1>4, EvaluateLive DEF TypeOK, Option
    <2>2. generations' = [generations EXCEPT ![t] = @ + 1] /\ registered' = registered
      BY <1>4 DEF BumpGeneration, RerollTrigger
    <2>3. generations' \in [Tasks -> Nat]
      BY DEF TypeOK
    <2> DEFINE Kept(i) == \E j \in heap : /\ j.task_id = t /\ j.trigger_id # r
                               /\ j.generation = generations[t]
                               /\ i.task_id = t /\ i.trigger_id = j.trigger_id
                               /\ i.next_fire_at = j.next_fire_at
                               /\ i.generation = generations'[t]
               Target(i) == /\ next # None /\ i.task_id = t /\ i.trigger_id = r
                            /\ i.next_fire_at = next /\ i.generation = generations'[t]
    <2>4. ASSUME NEW i \in heap'
          PROVE  (i \in heap /\ i.task_id # t) \/ Kept(i) \/ Target(i)
      BY <1>4, <2>1, <2>3, RerolledItems
    <2>5. \A i \in heap' : i \in ScheduledItem
      BY DEF TypeOK
    <2>6. FreshGenerations'
      <3> SUFFICES ASSUME NEW i \in heap'
                   PROVE  i.generation <= generations'[i.task_id]
        BY DEF FreshGenerations
      <3>1. CASE i \in heap /\ i.task_id # t
        BY <3>1, <2>2, <2>5 DEF QueueInv, FreshGenerations, TypeOK, ScheduledItem
      <3>2. CASE Kept(i) \/ Target(i)
        BY <3>2, <2>5, <2>3 DEF ScheduledItem
      <3> QED BY <2>4, <3>1, <3>2
    <2>7. OneEntryPerTrigger'
      <3> SUFFICES ASSUME NEW i \in heap', NEW k \in heap',
                          i.task_id = k.task_id, i.trigger_id = k.trigger_id,
                          i.generation = k.generation
                   PROVE  i = k
        BY DEF OneEntryPerTrigger
      <3>1. CASE i.task_id # t
        <4>1. i \in heap /\ k \in heap
          BY <3>1, <2>4
        <4> QED BY <4>1 DEF QueueInv, OneEntryPerTrigger
      <3>2. CASE i.task_id = t /\ i.trigger_id # r
        <4>1. Kept(i) /\ Kept(k)
          BY <3>2, <2>4
        <4>2. i.next_fire_at = k.next_fire_at
          BY <4>1 DEF QueueInv, OneEntryPerTrigger
        <4> QED BY <4>2, <2>5, SameItem
      <3>3. CASE i.task_id = t /\ i.trigger_id = r
        <4>1. Target(i) /\ Target(k)
          BY <3>3, <2>4
        <4> QED BY <4>1, <2>5, SameItem
      <3> QED BY <3>1, <3>2, <3>3
    <2>8. ValidItemsAreLive'
      <3> SUFFICES ASSUME NEW i \in heap', generations'[i.task_id] = i.generation
                   PROVE  Live(registered[i.task_id], i.trigger_id)
        BY <2>2 DEF ValidItemsAreLive, ValidItems, IsValid
      <3>1. CASE i \in heap /\ i.task_id # t
        <4>1. generations[i.task_id] = i.generation
          BY <3>1, <2>2, <2>5 DEF TypeOK, ScheduledItem
        <4> QED BY <3>1, <4>1 DEF QueueInv, ValidItemsAreLive, ValidItems, IsValid
      <3>2. CASE Kept(i)
        BY <3>2 DEF QueueInv, ValidItemsAreLive, ValidItems, IsValid
      <3>3. CASE Target(i)
        BY <3>3, <1>4
      <3> QED BY <2>4, <3>1, <3>2, <3>3
    <2> QED BY <2>6, <2>7, <2>8 DEF QueueInv
  <1>5. CASE ~Live(registered[t], r)
    BY <1>1, <1>2, <1>3, <1>5 DEF RerollTrigger
  <1>6. CASE Live(registered[t], r)
    BY <1>1, <1>2, <1>4, <1>6 DEF RerollTrigger
  <1> QED BY <1>5, <1>6

\* The items of the queue after the timer fired `item`.
LEMMA FiredItems ==
    ASSUME TypeOK, QueueInv, NEW item \in FirstValid(heap, generations),
           NEW next \in Renewals(item),
           heap' = IF next = None THEN Pop(heap, generations, item)
                   ELSE Push(Pop(heap, generations, item), generations,
                             {Item(<<item.task_id, item.trigger_id>>, next, generations)}),
           NEW i \in heap'
    PROVE  \/ i \in heap /\ i # item
           \/ /\ next # None /\ next \in Int /\ next > now
              /\ i \in ScheduledItem
              /\ i.task_id = item.task_id /\ i.trigger_id = item.trigger_id
              /\ i.next_fire_at = next /\ i.generation = generations[item.task_id]
              /\ Live(registered[item.task_id], item.trigger_id)
  <1> DEFINE new == Item(<<item.task_id, item.trigger_id>>, next, generations)
  <1>1. Pop(heap, generations, item) \subseteq heap \ {item}
    BY DEF Pop, DropStale
  <1>2. CASE i \in Pop(heap, generations, item)
    BY <1>2, <1>1
  <1>3. CASE next # None /\ i = new
    <2>1. /\ next \in Int /\ next > now /\ new \in ScheduledItem
          /\ Live(registered[item.task_id], item.trigger_id)
      BY <1>3, FireItem
    <2>2. /\ new.task_id = item.task_id /\ new.trigger_id = item.trigger_id
          /\ new.next_fire_at = next /\ new.generation = generations[item.task_id]
      BY DEF Item
    <2> QED BY <1>3, <2>1, <2>2
  <1> QED BY <1>2, <1>3 DEF Push

LEMMA FireQueue ==
    ASSUME TypeOK, TypeOK', QueueInv, Fire
    PROVE  QueueInv'
  <1>0. PICK item \in FirstValid(heap, generations) :
           \E next \in Renewals(item) :
              heap' = IF next = None THEN Pop(heap, generations, item)
                      ELSE Push(Pop(heap, generations, item), generations,
                                {Item(<<item.task_id, item.trigger_id>>, next, generations)})
    BY DEF Fire
  <1>1. PICK next \in Renewals(item) :
           heap' = IF next = None THEN Pop(heap, generations, item)
                   ELSE Push(Pop(heap, generations, item), generations,
                             {Item(<<item.task_id, item.trigger_id>>, next, generations)})
    BY <1>0
  <1>2. generations' = generations /\ registered' = registered
    BY DEF Fire
  <1>3. item \in heap /\ item \in ScheduledItem /\ item.generation = generations[item.task_id]
    BY DEF FirstValid, ValidItems, IsValid, TypeOK
  <1> DEFINE New(i) == /\ i.task_id = item.task_id /\ i.trigger_id = item.trigger_id
                       /\ i.next_fire_at = next /\ i.generation = generations[item.task_id]
                       /\ Live(registered[item.task_id], item.trigger_id)
  <1>4. ASSUME NEW i \in heap'
        PROVE  (i \in heap /\ i # item) \/ New(i)
    <2>1. \/ i \in heap /\ i # item
          \/ /\ next # None /\ next \in Int /\ next > now
             /\ i \in ScheduledItem
             /\ i.task_id = item.task_id /\ i.trigger_id = item.trigger_id
             /\ i.next_fire_at = next /\ i.generation = generations[item.task_id]
             /\ Live(registered[item.task_id], item.trigger_id)
      BY <1>1, FiredItems
    <2> QED BY <2>1
  <1>5. FreshGenerations'
    <2> SUFFICES ASSUME NEW i \in heap'
                 PROVE  i.generation <= generations[i.task_id]
      BY <1>2 DEF FreshGenerations
    <2>1. CASE New(i)
      BY <2>1, <1>3 DEF ScheduledItem
    <2> QED BY <2>1, <1>4 DEF QueueInv, FreshGenerations
  <1>6. OneEntryPerTrigger'
    <2> SUFFICES ASSUME NEW i \in heap', NEW k \in heap',
                        i.task_id = k.task_id, i.trigger_id = k.trigger_id,
                        i.generation = k.generation
                 PROVE  i = k
      BY DEF OneEntryPerTrigger
    <2>1. CASE i \in heap /\ k \in heap
      BY <2>1 DEF QueueInv, OneEntryPerTrigger
    <2>2. CASE New(i) /\ New(k)
      BY <2>2, SameItem DEF TypeOK
    <2>3. CASE New(i) /\ k \in heap /\ k # item
      BY <2>3, <1>3 DEF QueueInv, OneEntryPerTrigger
    <2>4. CASE New(k) /\ i \in heap /\ i # item
      BY <2>4, <1>3 DEF QueueInv, OneEntryPerTrigger
    <2> QED BY <1>4, <2>1, <2>2, <2>3, <2>4
  <1>7. ValidItemsAreLive'
    BY <1>2, <1>4 DEF QueueInv, ValidItemsAreLive, ValidItems, IsValid
  <1> QED BY <1>5, <1>6, <1>7 DEF QueueInv

LEMMA JumpCheckQueue ==
    ASSUME TypeOK, TypeOK', QueueInv, JumpCheck
    PROVE  QueueInv'
  <1>1. generations' = generations /\ registered' = registered
    BY DEF JumpCheck
  <1>2. CASE heap' = heap
    BY <1>1, <1>2, ShrinkQueue
  <1>3. ASSUME NEW f \in Plans(registered, Tasks),
               heap' = Push({}, generations, PlanItems(f, generations))
        PROVE  QueueInv'
    <2>1. ASSUME NEW i \in heap'
          PROVE  /\ i \in ScheduledItem
                 /\ i.generation = generations[i.task_id]
                 /\ Live(registered[i.task_id], i.trigger_id)
                 /\ i.next_fire_at = f[<<i.task_id, i.trigger_id>>]
      <3>1. i \in PlanItems(f, generations)
        BY <1>3 DEF Push
      <3>2. /\ registered \in [Tasks -> Option(TaskDefs)] /\ Tasks \in SUBSET Tasks
            /\ now \in Int /\ generations \in [Tasks -> Nat]
        BY DEF TypeOK
      <3> QED BY <3>1, <3>2, PlanItemsProperties
    <2>2. FreshGenerations'
      <3> SUFFICES ASSUME NEW i \in heap'
                   PROVE  i.generation <= generations[i.task_id]
        BY <1>1 DEF FreshGenerations
      <3>1. i \in ScheduledItem /\ i.generation = generations[i.task_id]
        BY <2>1
      <3> QED BY <3>1 DEF ScheduledItem
    <2>3. OneEntryPerTrigger'
      <3> SUFFICES ASSUME NEW i \in heap', NEW k \in heap',
                          i.task_id = k.task_id, i.trigger_id = k.trigger_id,
                          i.generation = k.generation
                   PROVE  i = k
        BY DEF OneEntryPerTrigger
      <3>1. i.next_fire_at = k.next_fire_at /\ i \in ScheduledItem /\ k \in ScheduledItem
        BY <2>1
      <3> QED BY <3>1, SameItem
    <2>4. ValidItemsAreLive'
      BY <1>1, <2>1 DEF ValidItemsAreLive, ValidItems
    <2> QED BY <2>2, <2>3, <2>4 DEF QueueInv
  <1> QED BY <1>2, <1>3 DEF JumpCheck

LEMMA NextQueue ==
    ASSUME TypeOK, TypeOK', QueueInv, [Next]_vars
    PROVE  QueueInv'
  <1>1. CASE UNCHANGED queueVars
    BY <1>1, ShrinkQueue DEF queueVars
  <1>2. CASE Loop
    BY <1>2, ShrinkQueue DEF Loop, DropStale
  <1>3. ASSUME NEW c \in Requests, Command(c) PROVE QueueInv'
    BY <1>1, <1>3, AddTaskQueue, RemoveTaskQueue, RerollTriggerQueue DEF Command, TriggerNow
  <1>4. CASE Fire
    BY <1>4, FireQueue
  <1>5. CASE JumpCheck
    BY <1>5, JumpCheckQueue
  <1>6. ASSUME \/ \E c \in Requests, cmd \in Commands : Begin(c, cmd)
               \/ \E c \in Requests : Enqueue(c)
               \/ ReceiveEvent \/ StopDispatcher \/ SendShutdown \/ Shutdown \/ SendEvent
               \/ Tick \/ (\E d \in WallSteps : WallStep(d)) \/ UNCHANGED vars
        PROVE  UNCHANGED queueVars
    BY <1>6 DEF Begin, Enqueue, ReceiveEvent, StopDispatcher, SendShutdown, Shutdown,
                SendEvent, Tick, WallStep, vars, queueVars
  <1> QED BY <1>1, <1>2, <1>3, <1>4, <1>5, <1>6 DEF Next

\* For every task, trigger and definition, however requests, firings and clock
\* steps interleave: a trigger is queued at most once per generation, and what
\* is valid in the queue belongs to an enabled trigger of an enabled task that
\* is still registered.
THEOREM QueueCorrect == Spec => [](FreshGenerations /\ OneEntryPerTrigger /\ ValidItemsAreLive)
  <1>1. Init => TypeOK /\ QueueInv
    BY InitType, InitQueue
  <1>2. TypeOK /\ QueueInv /\ [Next]_vars => TypeOK' /\ QueueInv'
    BY NextType, NextQueue
  <1>3. QueueInv => FreshGenerations /\ OneEntryPerTrigger /\ ValidItemsAreLive
    BY DEF QueueInv
  <1> QED BY <1>1, <1>2, <1>3, PTL DEF Spec

\* A generation, once bumped, is not queued for any more: no item of the heap
\* is of a later one than its task's (bump_generation).
THEOREM GenerationsAreFresh == Spec => []FreshGenerations
BY QueueCorrect, PTL

\* Whatever the order of requests, firings and clock jumps, what is valid in the
\* queue belongs to an enabled trigger of a registered, enabled task.
THEOREM QueuedIsLive == Spec => []ValidItemsAreLive
BY QueueCorrect, PTL
=============================================================================
