---------------------------- MODULE ScheduleTable ----------------------------
(***************************************************************************)
(* What the scheduler promises: a table with one row per task and trigger  *)
(* that holds the next time the trigger fires, or None.  There is no heap, *)
(* no generation and no stale item: saving a task replaces its rows,       *)
(* removing it empties them, a firing advances one row, a reroll changes   *)
(* one row and no other.  Scheduler implements this specification.         *)
(***************************************************************************)
EXTENDS Evaluator

CONSTANTS Tasks, Triggers, TaskDefs

VARIABLES next,         \* next[p]: when the trigger p fires next, or None
          registered,   \* the registered definition of each task, or None
          now,          \* wall clock
          lastFired     \* the last occurrence fired of each trigger

vars == <<next, registered, now, lastFired>>

Pairs == Tasks \X Triggers

Live(reg, p) == /\ reg[p[1]] # None
                /\ reg[p[1]].enabled
                /\ p[2] \in DOMAIN reg[p[1]].triggers
                /\ reg[p[1]].triggers[p[2]].enabled

\* The values the row p may take when its trigger is evaluated now.
Evaluated(reg, p) ==
    IF Live(reg, p) THEN EvaluateNext(reg[p[1]].triggers[p[2]].kind, now) ELSE {None}

Init == /\ next = [p \in Pairs |-> None]
        /\ registered = [t \in Tasks |-> None]
        /\ now = 0
        /\ lastFired = [p \in Pairs |-> None]

\* Save or remove a task: its rows, and only its rows, are evaluated anew.
Register(t, def) ==
    /\ UNCHANGED <<now, lastFired>>
    /\ registered' = [registered EXCEPT ![t] = def]
    /\ \A p \in Pairs : IF p[1] = t THEN next'[p] \in Evaluated(registered', p)
                                    ELSE next'[p] = next[p]

\* Reroll a live trigger: its row, and only its row, is evaluated anew.
Reroll(p) ==
    /\ UNCHANGED <<registered, now, lastFired>>
    /\ Live(registered, p)
    /\ \A q \in Pairs : IF q = p THEN next'[q] \in Evaluated(registered, q)
                                 ELSE next'[q] = next[q]

\* Fire the earliest row, with the time the table shows, and advance it.
Fire(p) ==
    /\ UNCHANGED <<registered, now>>
    /\ next[p] # None
    /\ lastFired' = [lastFired EXCEPT ![p] = [at |-> next[p], def |-> registered[p[1]]]]
    /\ \A q \in Pairs : next[q] # None => next[p] <= next[q]
    /\ \A q \in Pairs : IF q = p THEN next'[q] \in Evaluated(registered, q)
                                 ELSE next'[q] = next[q]

\* After a clock jump every row is evaluated anew.
Rebuild ==
    /\ UNCHANGED <<registered, now, lastFired>>
    /\ \A p \in Pairs : next'[p] \in Evaluated(registered, p)

Time == now' # now /\ UNCHANGED <<next, registered, lastFired>>

Next == \/ \E t \in Tasks, def \in TaskDefs \cup {None} : Register(t, def)
        \/ \E p \in Pairs : Reroll(p) \/ Fire(p)
        \/ Rebuild
        \/ Time

Spec == Init /\ [][Next]_vars
=============================================================================
