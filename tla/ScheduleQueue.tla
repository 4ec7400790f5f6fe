---------------------------- MODULE ScheduleQueue ----------------------------
(***************************************************************************)
(* crates/scheduler/src/queue.rs: a heap of scheduled items with lazy      *)
(* deletion.  Items of a task are cancelled together by bumping the task's *)
(* generation; the stale ones stay in the heap until they reach its top.   *)
(*                                                                         *)
(* The heap is the set of its items (h), the generations map is a function *)
(* (g) in which a task without an entry has the default generation 1.  A   *)
(* set loses no multiplicity: no push ever meets an item with the task,    *)
(* trigger and generation of an item in the heap (OneEntryPerTrigger and   *)
(* FreshGenerations in Scheduler).                                         *)
(***************************************************************************)
EXTENDS Evaluator

CONSTANTS Tasks,      \* task ids; ordered, as Uuids are
          Triggers    \* trigger ids; ordered

ASSUME IdsAssumption == Tasks \subseteq Int /\ Triggers \subseteq Int

ScheduledItem == [task_id : Tasks, trigger_id : Triggers,
                  next_fire_at : Instant, generation : Nat]

NoGenerations == [t \in Tasks |-> 1]

IsValid(g, i) == g[i.task_id] = i.generation
ValidItems(h, g) == {i \in h : IsValid(g, i)}

\* Ord for ScheduledItem: i leaves the heap before j.  The earliest time comes
\* first; the ties are not reversed, so the largest ids come first.
Before(i, j) ==
    \/ i.next_fire_at < j.next_fire_at
    \/ /\ i.next_fire_at = j.next_fire_at
       /\ \/ i.task_id > j.task_id
          \/ /\ i.task_id = j.task_id
             /\ \/ i.trigger_id > j.trigger_id
                \/ /\ i.trigger_id = j.trigger_id
                   /\ i.generation > j.generation

\* push: an item of another generation than the current one is not queued.
Push(h, g, items) == h \cup {i \in items : IsValid(g, i)}

\* The valid items that no valid item precedes: the one peek_valid returns.
FirstValid(h, g) == {i \in ValidItems(h, g) :
                        \A j \in ValidItems(h, g) : j = i \/ Before(i, j)}

\* peek_valid discards the stale items above the first valid one.
DropStale(h, g) == {i \in h : \/ IsValid(g, i)
                              \/ \E j \in ValidItems(h, g) : Before(j, i)}

\* pop: the first valid item leaves the heap, the stale ones above it too.
Pop(h, g, item) == DropStale(h, g) \ {item}

BumpGeneration(g, t) == [g EXCEPT ![t] = @ + 1]

ItemsOfTask(h, t) == {i \in h : i.task_id = t}

\* next_fire_by_trigger: the earliest valid time of each trigger.
TimesOf(h, g, p) == {i.next_fire_at : i \in {j \in ValidItems(h, g) :
                                   j.task_id = p[1] /\ j.trigger_id = p[2]}}
NextFireByTrigger(h, g) ==
    [p \in Tasks \X Triggers |->
        LET times == TimesOf(h, g, p)
        IN  IF times = {} THEN None ELSE CHOOSE t \in times : \A u \in times : t <= u]
=============================================================================
