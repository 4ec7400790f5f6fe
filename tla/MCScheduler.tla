----------------------------- MODULE MCScheduler -----------------------------
(* Instances of Scheduler for TLC: task definitions and clock steps.       *)
EXTENDS Scheduler, TLC

Once(t) == [type |-> "Once", fire_at |-> t]
Every(n) == [type |-> "Interval", interval |-> n, start_at |-> None]
Grid(n, s) == [type |-> "Interval", interval |-> n, start_at |-> s]
Daily(t, z) == [type |-> "Daily", time |-> t, zone |-> z]
Weekly(d, t, z) == [type |-> "Weekly", days_of_week |-> d, time |-> t, zone |-> z]
Cron(m, z) == [type |-> "Cron", matches |-> m, zone |-> z]
Fuzzy(d, s, e, z) == [type |-> "Fuzzy", days_of_week |-> d, window_start |-> s,
                      window_end |-> e, zone |-> z]
NetworkTrigger == [type |-> "Network"]

On(kind) == [enabled |-> TRUE, kind |-> kind]
Off(kind) == [enabled |-> FALSE, kind |-> kind]
Enabled(trs) == [enabled |-> TRUE, triggers |-> trs]
Disabled(trs) == [enabled |-> FALSE, triggers |-> trs]

\* A Once beside an Interval; a disabled trigger beside an event-driven one; a
\* disabled task.
MixedDefs == {Enabled(1 :> On(Once(2)) @@ 2 :> On(Every(1))),
              Enabled(1 :> Off(Every(1)) @@ 2 :> On(NetworkTrigger)),
              Disabled(1 :> On(Every(1)))}

\* A clock that is put forward in the window of a day, one that is put back, and
\* one that is left alone.
Spring == [switch |-> 5, shift |-> 1]
Autumn == [switch |-> 6, shift |-> -2]
UTC == [switch |-> 0, shift |-> 0]
TimeZones == {Spring, Autumn, UTC}

\* Every kind that searches over days, in a gap and in an overlap.
CalendarDefs ==
    {Enabled(1 :> On(Fuzzy({0, 1}, 1, 3, Spring)) @@ 2 :> On(Cron({0, 2}, Autumn))),
     Enabled(1 :> On(Daily(1, Autumn)) @@ 2 :> On(Weekly({1}, 1, Spring))),
     Enabled(1 :> On(Grid(2, 1)) @@ 2 :> On(Fuzzy({1}, 0, 2, UTC))),
     Enabled(1 :> On(Cron({1}, Spring)) @@ 2 :> On(Daily(1, Spring)))}

\* A window in an overlap.
AutumnDefs == {Enabled(1 :> On(Fuzzy({0, 1}, 1, 2, Autumn)))}

\* The definitions for the instance with two tasks, to follow requests and firings
\* to their end.
PairDefs == {Enabled(1 :> On(Once(1)) @@ 2 :> On(Every(1))),
             Disabled(1 :> On(Every(1)))}

BothWays == {-1, 2}
Forward == {2}

Symmetry == Permutations(Requests)
=============================================================================
