---------------------------- MODULE FiringProofs ----------------------------
(***************************************************************************)
(* What the scheduler's loop keeps of its promises.  Whatever the clocks   *)
(* do: the lazily cleaned queue implements the table of next fire times,   *)
(* and a recurring trigger of an enabled task is always queued.  While the *)
(* wall clock does not run backwards: no occurrence fires early or twice,  *)
(* and a fuzzy window fires once, however the clock jumps forward.         *)
(***************************************************************************)
EXTENDS SchedulerProofs

ForwardClock == WallSteps \subseteq Nat

\* What has fired was due.
FiredWasDue == \A p \in Pairs : lastFired[p] # None => lastFired[p].at <= now

\* The inductive invariant.  NeverEarly makes Fire respect FiredWasDue; since
\* every evaluation lies after now, new items then lie after what has fired.
FiringInv == FiredWasDue /\ NoRefire /\ NeverEarly

LEMMA InitFiring == Init => FiringInv
  BY DEF Init, FiringInv, FiredWasDue, NoRefire, NeverEarly, ValidItems

\* The history, read at the trigger of an item.
LEMMA LastFiredType ==
    ASSUME TypeOK, NEW i \in ScheduledItem, lastFired[<<i.task_id, i.trigger_id>>] # None
    PROVE  /\ <<i.task_id, i.trigger_id>> \in Pairs
           /\ lastFired[<<i.task_id, i.trigger_id>>].at \in Int
  <1>1. <<i.task_id, i.trigger_id>> \in Pairs
    BY DEF ScheduledItem, Pairs
  <1>2. lastFired[<<i.task_id, i.trigger_id>>] \in [at : Instant, def : Option(TaskDefs)]
    BY <1>1 DEF TypeOK, Option
  <1> QED BY <1>1, <1>2 DEF Instant

\* A step that fires nothing keeps NoRefire if each item that is valid after it
\* lies after now, or was valid before with the same time.
LEMMA KeepNoRefire ==
    ASSUME TypeOK, FiringInv, lastFired' = lastFired,
           \A i \in ValidItems(heap', generations') :
               /\ i \in ScheduledItem
               /\ \/ i.next_fire_at > now
                  \/ \E j \in ValidItems(heap, generations) :
                       /\ j.task_id = i.task_id /\ j.trigger_id = i.trigger_id
                       /\ j.next_fire_at = i.next_fire_at
    PROVE  NoRefire'
  <1> SUFFICES ASSUME NEW i \in ValidItems(heap', generations'),
                      lastFired[<<i.task_id, i.trigger_id>>] # None
               PROVE  i.next_fire_at > lastFired[<<i.task_id, i.trigger_id>>].at
    BY DEF NoRefire
  <1>1. i \in ScheduledItem
    OBVIOUS
  <1>2. CASE i.next_fire_at > now
    <2>1. lastFired[<<i.task_id, i.trigger_id>>].at <= now
      BY <1>1, LastFiredType DEF FiringInv, FiredWasDue
    <2>2. lastFired[<<i.task_id, i.trigger_id>>].at \in Int /\ i.next_fire_at \in Int /\ now \in Int
      BY <1>1, LastFiredType DEF TypeOK, ScheduledItem, Instant
    <2> QED BY <2>1, <2>2, <1>2
  <1>3. CASE \E j \in ValidItems(heap, generations) :
                          /\ j.task_id = i.task_id /\ j.trigger_id = i.trigger_id
                          /\ j.next_fire_at = i.next_fire_at
    BY <1>3 DEF FiringInv, NoRefire
  <1> QED BY <1>2, <1>3

\* A step that leaves the clock, the history and the timer alone, or clears it.
LEMMA KeepRest ==
    ASSUME FiringInv, lastFired' = lastFired, now' = now, timer' = None
    PROVE  FiredWasDue' /\ NeverEarly'
  BY DEF FiringInv, FiredWasDue, NeverEarly

LEMMA AddTaskFiring ==
    ASSUME TypeOK, TypeOK', QueueInv, FiringInv, NEW c \in Requests, AddTask(c)
    PROVE  FiringInv'
  <1>1. PICK t \in Tasks : t = req[c].cmd.task_id
    BY ReceivesType, CommandTypes DEF AddTask
  <1>2. PICK f \in Plans(registered', {t}) :
           heap' = Push(heap, generations', PlanItems(f, generations'))
    BY <1>1 DEF AddTask
  <1>3. generations' = [generations EXCEPT ![t] = @ + 1]
    BY <1>1 DEF AddTask, BumpGeneration
  <1>4. ASSUME NEW i \in ValidItems(heap', generations')
        PROVE  /\ i \in ScheduledItem
               /\ i.next_fire_at > now \/ i \in ValidItems(heap, generations)
    <2>1. i \in ScheduledItem /\ i \in heap' /\ generations'[i.task_id] = i.generation
      BY DEF TypeOK, ValidItems, IsValid
    <2>2. CASE i \in PlanItems(f, generations')
      <3>1. /\ registered' \in [Tasks -> Option(TaskDefs)]
            /\ generations' \in [Tasks -> Nat]
            /\ now \in Int /\ {t} \in SUBSET Tasks
        BY <1>1 DEF TypeOK
      <3>2. i.next_fire_at > now
        BY <2>2, <3>1, PlanItemsProperties
      <3> QED BY <2>1, <3>2
    <2>3. CASE i \in heap
      <3>1. i.generation <= generations[i.task_id] /\ i.task_id \in Tasks
            /\ i.generation \in Nat
        BY <2>1, <2>3 DEF QueueInv, FreshGenerations, ScheduledItem
      <3>2. i.task_id # t
        BY <2>1, <3>1, <1>3 DEF TypeOK
      <3> QED BY <2>1, <2>3, <3>1, <3>2, <1>3 DEF TypeOK, ValidItems, IsValid
    <2> QED BY <2>1, <2>2, <2>3, <1>2 DEF Push
  <1>5. lastFired' = lastFired /\ now' = now /\ timer' = None
    BY DEF AddTask, Receives, clockVars
  <1>6. NoRefire'
    BY <1>4, <1>5, KeepNoRefire
  <1> QED BY <1>5, <1>6, KeepRest DEF FiringInv

LEMMA RemoveTaskFiring ==
    ASSUME TypeOK, TypeOK', QueueInv, FiringInv, NEW c \in Requests, RemoveTask(c)
    PROVE  FiringInv'
  <1>1. PICK t \in Tasks : t = req[c].cmd.task_id
    BY ReceivesType, CommandTypes DEF RemoveTask
  <1>2. generations' = [generations EXCEPT ![t] = @ + 1] /\ heap' = heap
    BY <1>1 DEF RemoveTask, BumpGeneration
  <1>3. ASSUME NEW i \in ValidItems(heap', generations')
        PROVE  i \in ScheduledItem /\ i \in ValidItems(heap, generations)
    <2>1. i \in ScheduledItem /\ i \in heap /\ generations'[i.task_id] = i.generation
      BY <1>2 DEF TypeOK, ValidItems, IsValid
    <2>2. i.generation <= generations[i.task_id] /\ i.task_id \in Tasks
          /\ i.generation \in Nat
      BY <2>1 DEF QueueInv, FreshGenerations, ScheduledItem
    <2>3. i.task_id # t
      BY <2>1, <2>2, <1>2 DEF TypeOK
    <2> QED BY <2>1, <2>2, <2>3, <1>2 DEF TypeOK, ValidItems, IsValid
  <1>4. lastFired' = lastFired /\ now' = now /\ timer' = None
    BY DEF RemoveTask, Receives, clockVars
  <1>5. NoRefire'
    BY <1>3, <1>4, KeepNoRefire
  <1> QED BY <1>4, <1>5, KeepRest DEF FiringInv

LEMMA RerollTriggerFiring ==
    ASSUME TypeOK, TypeOK', QueueInv, FiringInv, NEW c \in Requests, RerollTrigger(c)
    PROVE  FiringInv'
  <1>1. PICK t \in Tasks : t = req[c].cmd.task_id
    BY ReceivesType, CommandTypes DEF RerollTrigger
  <1>2. PICK r \in Triggers : r = req[c].cmd.trigger_id
    BY ReceivesType, CommandTypes DEF RerollTrigger
  <1>3. lastFired' = lastFired /\ now' = now /\ timer' = None
    BY DEF RerollTrigger, Receives, clockVars
  <1>4. CASE UNCHANGED <<heap, generations>>
    BY <1>3, <1>4, KeepRest DEF FiringInv, NoRefire
  <1>5. ASSUME Live(registered[t], r),
               generations' = BumpGeneration(generations, t),
               NEW next \in EvaluateNext(KindOf(registered, <<t, r>>), now),
               heap' = Rerolled(<<t, r>>, next, generations')
        PROVE  NoRefire'
    <2>1. next \in Option(Int) /\ (next # None => next > now)
      BY <1>5, EvaluateLive DEF TypeOK, Option
    <2>2. generations' \in [Tasks -> Nat]
      BY DEF TypeOK
    <2>3. ASSUME NEW i \in ValidItems(heap', generations')
          PROVE  /\ i \in ScheduledItem
                 /\ \/ i.next_fire_at > now
                    \/ \E j \in ValidItems(heap, generations) :
                         /\ j.task_id = i.task_id /\ j.trigger_id = i.trigger_id
                         /\ j.next_fire_at = i.next_fire_at
      <3>1. i \in heap' /\ i \in ScheduledItem /\ generations'[i.task_id] = i.generation
        BY DEF TypeOK, ValidItems, IsValid
      <3>2. i \in Rerolled(<<t, r>>, next, generations')
        BY <3>1, <1>5
      <3>3. CASE i \in heap /\ i.task_id # t
        <4>1. generations[i.task_id] = i.generation
          BY <3>1, <3>3, <1>5 DEF BumpGeneration, TypeOK, ScheduledItem
        <4> QED BY <3>1, <3>3, <4>1 DEF ValidItems, IsValid
      <3>4. ASSUME NEW j \in heap, j.task_id = t, j.generation = generations[t],
                   i.task_id = t, i.trigger_id = j.trigger_id,
                   i.next_fire_at = j.next_fire_at
            PROVE  \E k \in ValidItems(heap, generations) :
                         /\ k.task_id = i.task_id /\ k.trigger_id = i.trigger_id
                         /\ k.next_fire_at = i.next_fire_at
        BY <3>4 DEF ValidItems, IsValid
      <3>5. CASE next # None /\ i.next_fire_at = next
        BY <3>1, <3>5, <2>1
      <3> QED BY <3>1, <3>2, <3>3, <3>4, <3>5, <2>1, <2>2, RerolledItems
    <2> QED BY <2>3, <1>3, KeepNoRefire
  <1>6. CASE ~Live(registered[t], r)
    BY <1>1, <1>2, <1>4, <1>6 DEF RerollTrigger
  <1>7. CASE Live(registered[t], r)
    <2>1. NoRefire'
      BY <1>1, <1>2, <1>5, <1>7 DEF RerollTrigger
    <2> QED BY <2>1, <1>3, KeepRest DEF FiringInv
  <1> QED BY <1>6, <1>7

LEMMA FireFiring ==
    ASSUME TypeOK, TypeOK', QueueInv, FiringInv, Fire
    PROVE  FiringInv'
  <1>1. PICK item \in FirstValid(heap, generations) :
           /\ \E next \in Renewals(item) :
              heap' = IF next = None THEN Pop(heap, generations, item)
                      ELSE Push(Pop(heap, generations, item), generations,
                                {Item(<<item.task_id, item.trigger_id>>, next, generations)})
           /\ lastFired' = [lastFired EXCEPT ![<<item.task_id, item.trigger_id>>] =
                 [at |-> item.next_fire_at, def |-> registered[item.task_id]]]
    BY DEF Fire
  <1>2. PICK next \in Renewals(item) :
           heap' = IF next = None THEN Pop(heap, generations, item)
                   ELSE Push(Pop(heap, generations, item), generations,
                             {Item(<<item.task_id, item.trigger_id>>, next, generations)})
    BY <1>1
  <1> DEFINE p == <<item.task_id, item.trigger_id>>
  <1>3. /\ item \in heap /\ item \in ScheduledItem
        /\ item.generation = generations[item.task_id]
    BY DEF FirstValid, ValidItems, IsValid, TypeOK
  <1>4. p \in Pairs /\ item.next_fire_at \in Int
    BY <1>3 DEF ScheduledItem, Pairs, Instant
  <1>5. item.next_fire_at <= now
    <2>1. timer = 0 /\ timer # None
      BY NoneAssumption DEF Fire
    <2>2. item.next_fire_at <= now + 0
      BY <2>1 DEF FiringInv, NeverEarly
    <2> QED BY <2>2, <1>4 DEF TypeOK
  <1>6. now' = now /\ timer' = None /\ generations' = generations
    BY DEF Fire, clockVars
  <1>7. /\ lastFired'[p] = [at |-> item.next_fire_at, def |-> registered[item.task_id]]
        /\ \A q \in Pairs : q # p => lastFired'[q] = lastFired[q]
    BY <1>1, <1>4 DEF TypeOK
  <1>8. FiredWasDue'
    <2> SUFFICES ASSUME NEW q \in Pairs, lastFired'[q] # None
                 PROVE  lastFired'[q].at <= now
      BY <1>6 DEF FiredWasDue
    <2>1. CASE q = p
      BY <2>1, <1>5, <1>7
    <2>2. CASE q # p
      BY <2>2, <1>7 DEF FiringInv, FiredWasDue
    <2> QED BY <2>1, <2>2
  <1>9. NoRefire'
    <2> SUFFICES ASSUME NEW i \in heap', generations[i.task_id] = i.generation,
                        lastFired'[<<i.task_id, i.trigger_id>>] # None
                 PROVE  i.next_fire_at > lastFired'[<<i.task_id, i.trigger_id>>].at
      BY <1>6 DEF NoRefire, ValidItems, IsValid
    <2>1. CASE i \in heap /\ i # item
      <3>1. <<i.task_id, i.trigger_id>> # p
        BY <2>1, <1>3 DEF QueueInv, OneEntryPerTrigger
      <3>2. <<i.task_id, i.trigger_id>> \in Pairs
        BY <2>1 DEF TypeOK, ScheduledItem, Pairs
      <3>3. lastFired'[<<i.task_id, i.trigger_id>>] = lastFired[<<i.task_id, i.trigger_id>>]
        BY <3>1, <3>2, <1>7
      <3> QED BY <2>1, <3>3 DEF FiringInv, NoRefire, ValidItems, IsValid
    <2>2. CASE /\ next \in Int /\ next > now /\ i.next_fire_at = next
               /\ i.task_id = item.task_id /\ i.trigger_id = item.trigger_id
      <3>1. lastFired'[<<i.task_id, i.trigger_id>>].at = item.next_fire_at
        BY <2>2, <1>7
      <3> QED BY <2>2, <3>1, <1>4, <1>5 DEF TypeOK
    <2>3. \/ i \in heap /\ i # item
          \/ /\ next # None /\ next \in Int /\ next > now
             /\ i \in ScheduledItem
             /\ i.task_id = item.task_id /\ i.trigger_id = item.trigger_id
             /\ i.next_fire_at = next /\ i.generation = generations[item.task_id]
             /\ Live(registered[item.task_id], item.trigger_id)
      BY <1>2, FiredItems
    <2> QED BY <2>1, <2>2, <2>3
  <1>10. NeverEarly'
    BY <1>6 DEF NeverEarly
  <1> QED BY <1>8, <1>9, <1>10 DEF FiringInv

LEMMA JumpCheckFiring ==
    ASSUME TypeOK, TypeOK', QueueInv, FiringInv, JumpCheck
    PROVE  FiringInv'
  <1>1. lastFired' = lastFired /\ now' = now /\ timer' = None /\ generations' = generations
    BY DEF JumpCheck
  <1>2. NoRefire'
    <2>1. CASE heap' = heap
      BY <1>1, <2>1 DEF FiringInv, NoRefire
    <2>2. ASSUME NEW f \in Plans(registered, Tasks),
                 heap' = Push({}, generations, PlanItems(f, generations))
          PROVE  NoRefire'
      <3>1. ASSUME NEW i \in ValidItems(heap', generations')
            PROVE  i \in ScheduledItem /\ i.next_fire_at > now
        <4>1. i \in PlanItems(f, generations)
          BY <2>2 DEF Push, ValidItems
        <4>2. /\ registered \in [Tasks -> Option(TaskDefs)] /\ Tasks \in SUBSET Tasks
              /\ now \in Int /\ generations \in [Tasks -> Nat]
          BY DEF TypeOK
        <4> QED BY <4>1, <4>2, PlanItemsProperties
      <3> QED BY <3>1, <1>1, KeepNoRefire
    <2> QED BY <2>1, <2>2 DEF JumpCheck
  <1> QED BY <1>1, <1>2, KeepRest DEF FiringInv

\* Loop arms the timer for the first item of the queue.
LEMMA LoopFiring ==
    ASSUME TypeOK, FiringInv, Loop
    PROVE  FiringInv'
  <1>1. lastFired' = lastFired /\ now' = now /\ generations' = generations
        /\ heap' = DropStale(heap, generations)
    BY DEF Loop, clockVars
  <1>2. ValidItems(heap', generations') = ValidItems(heap, generations)
    BY <1>1 DEF DropStale, ValidItems
  <1>3. FirstValid(heap', generations') = FirstValid(heap, generations)
    BY <1>2 DEF FirstValid
  <1>4. FiredWasDue' /\ NoRefire'
    BY <1>1, <1>2 DEF FiringInv, FiredWasDue, NoRefire
  <1>5. NeverEarly'
    <2> SUFFICES ASSUME timer' # None, NEW i \in FirstValid(heap, generations)
                 PROVE  i.next_fire_at <= now + timer'
      BY <1>1, <1>3 DEF NeverEarly
    <2>1. i \in ValidItems(heap, generations)
      BY DEF FirstValid
    <2>2. PICK top \in FirstValid(heap, generations) :
             timer' = SleepDuration(top.next_fire_at)
      BY <2>1 DEF Loop
    <2>3. i.next_fire_at \in Int /\ top.next_fire_at \in Int /\ now \in Int
      BY DEF FirstValid, ValidItems, TypeOK, ScheduledItem, Instant
    <2>4. i.next_fire_at <= top.next_fire_at
      <3>1. i = top \/ Before(i, top)
        BY DEF FirstValid
      <3> QED BY <3>1, <2>3 DEF Before
    <2> QED BY <2>2, <2>3, <2>4 DEF SleepDuration
  <1> QED BY <1>4, <1>5 DEF FiringInv

\* Time passing never makes a running timer end earlier.
LEMMA TimerEnd ==
    ASSUME NEW m \in Int, NEW n \in Int, NEW s \in Nat, NEW u \in Nat,
           \/ m >= n /\ u = s
           \/ m = n + 1 /\ u = s - 1,
           NEW at \in Int, at <= n + s
    PROVE  at <= m + u
  OBVIOUS

LEMMA TimeFiring ==
    ASSUME TypeOK, TypeOK', FiringInv, ForwardClock,
           Tick \/ (\E d \in WallSteps : WallStep(d))
    PROVE  FiringInv'
  <1>1. lastFired' = lastFired /\ heap' = heap /\ generations' = generations
    BY DEF Tick, WallStep, queueVars
  <1>2. now \in Int /\ now' \in Int /\ now' >= now
    BY DEF Tick, WallStep, TypeOK, ForwardClock
  <1>3. FiredWasDue'
    <2> SUFFICES ASSUME NEW q \in Pairs, lastFired[q] # None
                 PROVE  lastFired[q].at <= now'
      BY <1>1 DEF FiredWasDue
    <2>1. lastFired[q].at <= now /\ lastFired[q].at \in Int
      BY DEF FiringInv, FiredWasDue, TypeOK, Option, Instant
    <2> QED BY <2>1, <1>2
  <1>4. NoRefire'
    BY <1>1 DEF FiringInv, NoRefire
  <1>5. NeverEarly'
    <2> SUFFICES ASSUME timer' # None, NEW i \in FirstValid(heap, generations)
                 PROVE  i.next_fire_at <= now' + timer'
      BY <1>1 DEF NeverEarly
    <2>1. timer # None
      BY DEF Tick, WallStep, loopVars
    <2>2. timer \in Nat /\ timer' \in Nat
      BY <2>1 DEF TypeOK, Option
    <2>3. i.next_fire_at <= now + timer
      BY <2>1 DEF FiringInv, NeverEarly
    <2>4. i.next_fire_at \in Int
      BY DEF FirstValid, ValidItems, TypeOK, ScheduledItem, Instant
    <2>5. \/ now' >= now /\ timer' = timer
          \/ now' = now + 1 /\ timer' = timer - 1
      BY <1>2 DEF Tick, WallStep, loopVars
    <2> QED BY <2>2, <2>3, <2>4, <2>5, <1>2, TimerEnd
  <1> QED BY <1>3, <1>4, <1>5 DEF FiringInv

LEMMA NextFiring ==
    ASSUME TypeOK, TypeOK', QueueInv, FiringInv, ForwardClock, [Next]_vars
    PROVE  FiringInv'
  <1>1. CASE UNCHANGED <<heap, generations, lastFired, now, timer>>
    BY <1>1 DEF FiringInv, FiredWasDue, NoRefire, NeverEarly
  <1>2. ASSUME NEW c \in Requests, TriggerNow(c) PROVE FiringInv'
    <2>1. UNCHANGED <<heap, generations, lastFired, now>> /\ timer' = None
      BY <1>2 DEF TriggerNow, Receives, queueVars, clockVars
    <2> QED BY <2>1, KeepRest DEF FiringInv, NoRefire
  <1>3. ASSUME NEW c \in Requests, Command(c) PROVE FiringInv'
    BY <1>2, <1>3, AddTaskFiring, RemoveTaskFiring, RerollTriggerFiring DEF Command
  <1>4. CASE Shutdown
    <2>1. UNCHANGED <<heap, generations, lastFired, now>> /\ timer' = None
      BY <1>4 DEF Shutdown, queueVars, clockVars
    <2> QED BY <2>1, KeepRest DEF FiringInv, NoRefire
  <1>5. ASSUME \/ \E c \in Requests, cmd \in Commands : Begin(c, cmd)
               \/ \E c \in Requests : Enqueue(c)
               \/ ReceiveEvent \/ StopDispatcher \/ SendShutdown \/ SendEvent
               \/ UNCHANGED vars
        PROVE  UNCHANGED <<heap, generations, lastFired, now, timer>>
    BY <1>5 DEF Begin, Enqueue, ReceiveEvent, StopDispatcher, SendShutdown,
                SendEvent, vars, queueVars, loopVars, clockVars
  <1> QED BY <1>1, <1>3, <1>4, <1>5, LoopFiring, FireFiring, JumpCheckFiring,
             TimeFiring DEF Next

\* If the wall clock never steps backwards, no occurrence fires early and none
\* fires twice, for all tasks, requests, bounds and forward clock jumps.
THEOREM FiringCorrect ==
    ASSUME ForwardClock
    PROVE  Spec => [](NoRefire /\ NeverEarly)
  <1>1. Init => TypeOK /\ QueueInv /\ FiringInv
    BY InitType, InitQueue, InitFiring
  <1>2. TypeOK /\ QueueInv /\ FiringInv /\ [Next]_vars => TypeOK' /\ QueueInv' /\ FiringInv'
    BY NextType, NextQueue, NextFiring
  <1>3. FiringInv => NoRefire /\ NeverEarly
    BY DEF FiringInv
  <1> QED BY <1>1, <1>2, <1>3, PTL DEF Spec

\* If the wall clock never steps backwards, the armed timer never ends before
\* the first item of the queue is due.
THEOREM FiresOnTime ==
    ASSUME ForwardClock
    PROVE  Spec => []NeverEarly
BY FiringCorrect, PTL

-----------------------------------------------------------------------------
(* The table of next fire times.                                           *)

\* The instance of ScheduleTable evaluates as Scheduler does.
LEMMA TableEvaluates ==
    ASSUME NEW kind, NEW after
    PROVE  Table!EvaluateNext(kind, after) = EvaluateNext(kind, after)
  BY DEF Table!Local, Local, Table!Instants, Instants, Table!DayOf, DayOf,
         Table!TimeOfDay, TimeOfDay, Table!WeekdayOf, WeekdayOf, Table!Earliest, Earliest,
         Table!GapExit, GapExit, Table!Resolved, Resolved, Table!Candidates, Candidates,
         Table!OnceNext, OnceNext, Table!IntervalNext, IntervalNext, Table!Days, Days,
         Table!DailyNext, DailyNext, Table!WeeklyNext, WeeklyNext,
         Table!CronMatches, CronMatches, Table!CronInstant, CronInstant,
         Table!CronFrom, CronFrom, Table!InGap, InGap, Table!CronNext, CronNext,
         Table!FuzzyDays, FuzzyDays, Table!Drawn, Drawn, Table!FuzzyNext, FuzzyNext,
         Table!EvaluateNext, EvaluateNext

\* What the row of p may hold when its trigger is evaluated now.
Evaluated(reg, p) == IF Live(reg[p[1]], p[2]) THEN EvaluateNext(KindOf(reg, p), now) ELSE {None}

\* It is what the table specification allows for that row.
LEMMA TableEvaluated ==
    ASSUME NEW reg, NEW p
    PROVE  Table!Evaluated(reg, p) = Evaluated(reg, p) /\ Table!Live(reg, p) = Live(reg[p[1]], p[2])
  <1>1. Table!Live(reg, p) = Live(reg[p[1]], p[2])
    BY DEF Table!Live, Live
  <1> QED BY <1>1, TableEvaluates DEF Table!Evaluated, Evaluated, KindOf

\* The times a trigger has in the queue when its row holds v.
Times(v) == IF v = None THEN {} ELSE {v}
NextAt(p) == NextFireByTrigger(heap, generations)[p]

\* A time is in the queue if a valid item of the trigger has it.
LEMMA TimesMember ==
    ASSUME NEW h, NEW g, NEW p, NEW x
    PROVE  x \in TimesOf(h, g, p) <=>
              \E i \in h : /\ g[i.task_id] = i.generation
                           /\ i.task_id = p[1] /\ i.trigger_id = p[2] /\ i.next_fire_at = x
  BY DEF TimesOf, ValidItems, IsValid

\* next_fire_by_trigger, read from the times.
LEMMA TimesNext ==
    ASSUME NEW h, NEW g, NEW p \in Pairs, NEW v \in Option(Int), TimesOf(h, g, p) = Times(v)
    PROVE  NextFireByTrigger(h, g)[p] = v
  <1>1. NextFireByTrigger(h, g)[p] =
           IF Times(v) = {} THEN None ELSE CHOOSE t \in Times(v) : \A u \in Times(v) : t <= u
    BY DEF NextFireByTrigger, Pairs
  <1>2. CASE v = None
    BY <1>1, <1>2 DEF Times
  <1>3. CASE v # None
    <2>1. v \in Int /\ Times(v) = {v}
      BY <1>3 DEF Times, Option
    <2>2. \E t \in {v} : \A u \in {v} : t <= u
      BY <2>1
    <2>3. NextFireByTrigger(h, g)[p] = CHOOSE t \in {v} : \A u \in {v} : t <= u
      BY <1>1, <2>1
    <2> QED BY <2>2, <2>3
  <1> QED BY <1>2, <1>3

\* Each row holds a time or None, and the queue has that time and no other.
LEMMA NextTimes ==
    ASSUME TypeOK, QueueInv, NEW p \in Pairs
    PROVE  NextAt(p) \in Option(Int) /\ TimesOf(heap, generations, p) = Times(NextAt(p))
  <1>1. CASE TimesOf(heap, generations, p) = {}
    <2>1. TimesOf(heap, generations, p) = Times(None) /\ None \in Option(Int)
      BY <1>1 DEF Times, Option
    <2> QED BY <2>1, TimesNext DEF NextAt
  <1>2. ASSUME NEW x \in TimesOf(heap, generations, p)
        PROVE  NextAt(p) \in Option(Int) /\ TimesOf(heap, generations, p) = Times(NextAt(p))
    <2>1. PICK i \in heap : /\ generations[i.task_id] = i.generation
                            /\ i.task_id = p[1] /\ i.trigger_id = p[2] /\ i.next_fire_at = x
      BY TimesMember
    <2>2. x \in Int /\ x # None /\ x \in Option(Int)
      BY <2>1, NoneAssumption DEF TypeOK, ScheduledItem, Instant, Option
    <2>3. ASSUME NEW y \in TimesOf(heap, generations, p)
          PROVE  y = x
      <3>1. PICK j \in heap : /\ generations[j.task_id] = j.generation
                              /\ j.task_id = p[1] /\ j.trigger_id = p[2] /\ j.next_fire_at = y
        BY TimesMember
      <3>2. i = j
        BY <2>1, <3>1 DEF QueueInv, OneEntryPerTrigger
      <3> QED BY <2>1, <3>1, <3>2
    <2>4. TimesOf(heap, generations, p) = Times(x)
      BY <2>2, <2>3 DEF Times
    <2>5. NextAt(p) = x
      BY <2>2, <2>4, TimesNext DEF NextAt
    <2> QED BY <2>2, <2>4, <2>5
  <1> QED BY <1>1, <1>2

\* A queue with the same times has the same rows.
LEMMA SameTimes ==
    ASSUME NEW h, NEW g, NEW k, NEW f, NEW p \in Pairs, TimesOf(h, g, p) = TimesOf(k, f, p)
    PROVE  NextFireByTrigger(h, g)[p] = NextFireByTrigger(k, f)[p]
  BY DEF NextFireByTrigger, Pairs

\* Tasks whose generation and items are kept have the times they had.
LEMMA OtherTimes ==
    ASSUME NEW h, NEW g, NEW k, NEW f, NEW p \in Pairs, f[p[1]] = g[p[1]],
           \A i : i.task_id = p[1] /\ i.generation = g[p[1]] => (i \in h <=> i \in k)
    PROVE  TimesOf(h, g, p) = TimesOf(k, f, p)
  <1>1. \A x : x \in TimesOf(h, g, p) <=> x \in TimesOf(k, f, p)
    BY TimesMember
  <1> QED BY <1>1 DEF TimesOf

\* After a plan is pushed, a row that had nothing valid left holds what the
\* evaluation of its trigger returned.
LEMMA PlanTimes ==
    ASSUME NEW reg \in [Tasks -> Option(TaskDefs)], NEW S \in SUBSET Tasks,
           now \in Int, NEW f \in Plans(reg, S), NEW g \in [Tasks -> Nat], NEW h,
           NEW p \in Pairs, p[1] \in S,
           \A i \in h : i.task_id = p[1] => i.generation # g[p[1]]
    PROVE  \E v \in Option(Int) : /\ v \in Evaluated(reg, p)
                                  /\ TimesOf(Push(h, g, PlanItems(f, g)), g, p) = Times(v)
  <1> DEFINE k == Push(h, g, PlanItems(f, g))
  <1>1. PICK t \in Tasks, r \in Triggers : p = <<t, r>>
    BY DEF Pairs
  <1>2. ASSUME NEW x \in TimesOf(k, g, p)
        PROVE  Live(reg[t], r) /\ x = f[p] /\ f[p] # None
    <2>1. PICK i \in k : /\ g[i.task_id] = i.generation
                         /\ i.task_id = t /\ i.trigger_id = r /\ i.next_fire_at = x
      BY <1>1, TimesMember
    <2>2. i \in PlanItems(f, g)
      BY <1>1, <2>1 DEF Push
    <2>3. Live(reg[t], r) /\ x = f[p] /\ i \in ScheduledItem
      BY <1>1, <2>1, <2>2, PlanItemsProperties
    <2> QED BY <2>1, <2>3, NoneAssumption DEF ScheduledItem, Instant
  <1>3. CASE ~Live(reg[t], r)
    <2>1. TimesOf(k, g, p) = Times(None)
      BY <1>2, <1>3 DEF Times
    <2>2. None \in Evaluated(reg, p) /\ None \in Option(Int)
      BY <1>1, <1>3 DEF Evaluated, Option
    <2> QED BY <2>1, <2>2
  <1>4. CASE Live(reg[t], r)
    <2>1. p \in LivePairs(reg, S)
      BY <1>1, <1>4 DEF LivePairs
    <2>2. f[p] \in EvaluateNext(KindOf(reg, p), now) /\ DOMAIN f = LivePairs(reg, S)
      BY <2>1 DEF Plans
    <2>3. f[p] \in Evaluated(reg, p)
      BY <1>1, <1>4, <2>2 DEF Evaluated
    <2>4. f[p] \in Option(Int)
      BY <1>1, <1>4, <2>2, EvaluateLive DEF Option
    <2>5. ASSUME f[p] # None
          PROVE  f[p] \in TimesOf(k, g, p)
      <3>1. Item(p, f[p], g) \in k
        BY <2>1, <2>2, <2>5 DEF PlanItems, Push, IsValid, Item
      <3>2. /\ Item(p, f[p], g).task_id = p[1] /\ Item(p, f[p], g).trigger_id = p[2]
            /\ Item(p, f[p], g).next_fire_at = f[p] /\ Item(p, f[p], g).generation = g[p[1]]
        BY DEF Item
      <3> QED BY <3>1, <3>2, TimesMember
    <2>6. TimesOf(k, g, p) = Times(f[p])
      BY <1>2, <2>5 DEF Times
    <2> QED BY <2>3, <2>4, <2>6
  <1> QED BY <1>3, <1>4

\* An item of an older generation than the one a task has now, or gets, is not
\* among its times.
LEMMA BumpedTimes ==
    ASSUME TypeOK, QueueInv, NEW t \in Tasks, NEW g, g = BumpGeneration(generations, t)
    PROVE  /\ g \in [Tasks -> Nat]
           /\ \A i \in heap : i.task_id = t => i.generation # g[t]
           /\ \A u \in Tasks : u # t => g[u] = generations[u]
  <1>1. g \in [Tasks -> Nat] /\ g[t] = generations[t] + 1
        /\ \A u \in Tasks : u # t => g[u] = generations[u]
    BY DEF TypeOK, BumpGeneration
  <1>2. ASSUME NEW i \in heap, i.task_id = t
        PROVE  i.generation # g[t]
    BY <1>1, <1>2 DEF TypeOK, QueueInv, FreshGenerations, ScheduledItem
  <1> QED BY <1>1, <1>2

\* Saving a task replaces its rows and no other.
LEMMA AddTaskTable ==
    ASSUME TypeOK, TypeOK', QueueInv, NEW c \in Requests, AddTask(c)
    PROVE  \E t \in Tasks, def \in TaskDefs : Table!Register(t, def)
  <1>1. PICK t \in Tasks, def \in TaskDefs : t = req[c].cmd.task_id /\ def = req[c].cmd.task
    BY ReceivesType, CommandTypes DEF AddTask
  <1>2. /\ generations' = BumpGeneration(generations, t)
        /\ registered' = [registered EXCEPT ![t] = def]
        /\ UNCHANGED <<now, lastFired>>
    BY <1>1 DEF AddTask, clockVars
  <1>3. PICK f \in Plans(registered', {t}) :
           heap' = Push(heap, generations', PlanItems(f, generations'))
    BY <1>1 DEF AddTask
  <1>4. /\ generations' \in [Tasks -> Nat]
        /\ \A i \in heap : i.task_id = t => i.generation # generations'[t]
        /\ \A u \in Tasks : u # t => generations'[u] = generations[u]
    BY <1>2, BumpedTimes
  <1>5. registered' \in [Tasks -> Option(TaskDefs)] /\ now \in Int
    BY DEF TypeOK
  <1>6. ASSUME NEW p \in Pairs, p[1] = t
        PROVE  NextAt(p)' \in Evaluated(registered', p)
    <2>1. PICK v \in Option(Int) : /\ v \in Evaluated(registered', p)
                                   /\ TimesOf(heap', generations', p) = Times(v)
      BY <1>3, <1>4, <1>5, <1>6, PlanTimes
    <2> QED BY <2>1, TimesNext DEF NextAt
  <1>7. ASSUME NEW p \in Pairs, p[1] # t
        PROVE  NextAt(p)' = NextAt(p)
    <2>1. PICK u \in Tasks : u = p[1]
      BY DEF Pairs
    <2>2. \A i \in PlanItems(f, generations') : i.task_id = t
      <3>1. {t} \in SUBSET Tasks
        OBVIOUS
      <3>2. \A i \in PlanItems(f, generations') : i.task_id \in {t}
        BY <1>3, <1>4, <1>5, <3>1, PlanItemsProperties
      <3> QED BY <3>2
    <2>3. \A i : i.task_id = u => (i \in heap <=> i \in heap')
      BY <1>3, <1>7, <2>1, <2>2 DEF Push
    <2>4. TimesOf(heap', generations', p) = TimesOf(heap, generations, p)
      BY <1>4, <1>7, <2>1, <2>3, OtherTimes
    <2> QED BY <2>4, SameTimes DEF NextAt
  <1>8. Table!Register(t, def)
    BY <1>2, <1>6, <1>7, TableEvaluated DEF Table!Register, Table!Pairs, Pairs, NextAt
  <1> QED BY <1>8

\* Removing a task empties its rows.
LEMMA RemoveTaskTable ==
    ASSUME TypeOK, TypeOK', QueueInv, NEW c \in Requests, RemoveTask(c)
    PROVE  \E t \in Tasks : Table!Register(t, None)
  <1>1. PICK t \in Tasks : t = req[c].cmd.task_id
    BY ReceivesType, CommandTypes DEF RemoveTask
  <1>2. /\ generations' = BumpGeneration(generations, t) /\ heap' = heap
        /\ registered' = [registered EXCEPT ![t] = None]
        /\ UNCHANGED <<now, lastFired>>
    BY <1>1 DEF RemoveTask, clockVars
  <1>3. /\ \A i \in heap : i.task_id = t => i.generation # generations'[t]
        /\ \A u \in Tasks : u # t => generations'[u] = generations[u]
    BY <1>2, BumpedTimes
  <1>4. ASSUME NEW p \in Pairs, p[1] = t
        PROVE  NextAt(p)' \in Evaluated(registered', p)
    <2>1. TimesOf(heap', generations', p) = Times(None)
      <3>1. \A x : x \notin TimesOf(heap', generations', p)
        BY <1>2, <1>3, <1>4, TimesMember
      <3> QED BY <3>1 DEF Times
    <2>2. NextAt(p)' = None
      BY <2>1, TimesNext DEF NextAt, Option
    <2>3. ~Live(registered'[p[1]], p[2])
      BY <1>2, <1>4 DEF Live, TypeOK
    <2> QED BY <2>2, <2>3 DEF Evaluated
  <1>5. ASSUME NEW p \in Pairs, p[1] # t
        PROVE  NextAt(p)' = NextAt(p)
    <2>1. p[1] \in Tasks
      BY DEF Pairs
    <2>2. TimesOf(heap', generations', p) = TimesOf(heap, generations, p)
      BY <1>2, <1>3, <1>5, <2>1, OtherTimes
    <2> QED BY <2>2, SameTimes DEF NextAt
  <1>6. Table!Register(t, None)
    BY <1>2, <1>4, <1>5, TableEvaluated DEF Table!Register, Table!Pairs, Pairs, NextAt
  <1> QED BY <1>6

\* Rerolling a trigger evaluates its row and keeps those of its siblings.
LEMMA RerollTriggerTable ==
    ASSUME TypeOK, TypeOK', QueueInv, NEW c \in Requests, RerollTrigger(c)
    PROVE  \/ \E p \in Pairs : Table!Reroll(p)
           \/ UNCHANGED <<heap, generations, registered, now, lastFired>>
  <1>1. PICK t \in Tasks, r \in Triggers : t = req[c].cmd.task_id /\ r = req[c].cmd.trigger_id
    BY ReceivesType, CommandTypes DEF RerollTrigger
  <1>2. UNCHANGED <<registered, now, lastFired>>
    BY DEF RerollTrigger, clockVars
  <1>3. CASE ~Live(registered[t], r)
    BY <1>1, <1>2, <1>3 DEF RerollTrigger
  <1>4. CASE Live(registered[t], r)
    <2>1. PICK next \in EvaluateNext(KindOf(registered, <<t, r>>), now) :
             heap' = Rerolled(<<t, r>>, next, generations')
      BY <1>1, <1>4 DEF RerollTrigger
    <2>2. generations' = BumpGeneration(generations, t)
      BY <1>1, <1>4 DEF RerollTrigger
    <2>3. /\ generations' \in [Tasks -> Nat]
          /\ \A i \in heap : i.task_id = t => i.generation # generations'[t]
          /\ \A u \in Tasks : u # t => generations'[u] = generations[u]
      BY <2>2, BumpedTimes
    <2>4. next \in Option(Int) /\ <<t, r>> \in Pairs
      BY <1>4, EvaluateLive DEF TypeOK, Option, Pairs
    <2> DEFINE kept == {i \in ItemsOfTask(heap, t) : IsValid(generations, i) /\ i.trigger_id # r}
               target == IF next = None THEN {} ELSE {Item(<<t, r>>, next, generations')}
    <2>5. heap' = Push(heap \ ItemsOfTask(heap, t), generations',
                       {[i EXCEPT !.generation = generations'[t]] : i \in kept} \cup target)
      BY <2>1 DEF Rerolled
    <2>6. NextAt(<<t, r>>)' = next
      <3>1. ASSUME NEW x \in TimesOf(heap', generations', <<t, r>>)
            PROVE  next # None /\ x = next
        <4>1. PICK i \in heap' : /\ generations'[i.task_id] = i.generation
                                 /\ i.task_id = t /\ i.trigger_id = r /\ i.next_fire_at = x
          BY TimesMember
        <4> QED BY <2>1, <2>3, <2>4, <4>1, RerolledItems
      <3>2. ASSUME next # None
            PROVE  next \in TimesOf(heap', generations', <<t, r>>)
        <4> DEFINE new == Item(<<t, r>>, next, generations')
        <4>1. /\ new.task_id = t /\ new.trigger_id = r
              /\ new.next_fire_at = next /\ new.generation = generations'[t]
          BY DEF Item
        <4>2. new \in heap'
          BY <2>5, <3>2, <4>1 DEF Push, IsValid
        <4> QED BY <4>1, <4>2, TimesMember
      <3>3. TimesOf(heap', generations', <<t, r>>) = Times(next)
        BY <3>1, <3>2 DEF Times
      <3> QED BY <2>4, <3>3, TimesNext DEF NextAt
    <2>7. ASSUME NEW s \in Triggers, s # r
          PROVE  NextAt(<<t, s>>)' = NextAt(<<t, s>>)
      <3>1. ASSUME NEW x \in TimesOf(heap', generations', <<t, s>>)
            PROVE  x \in TimesOf(heap, generations, <<t, s>>)
        <4>1. PICK i \in heap' : /\ generations'[i.task_id] = i.generation
                                 /\ i.task_id = t /\ i.trigger_id = s /\ i.next_fire_at = x
          BY TimesMember
        <4>2. \E j \in heap : /\ j.task_id = t /\ j.generation = generations[t]
                              /\ j.trigger_id = s /\ j.next_fire_at = x
          BY <2>1, <2>3, <2>4, <2>7, <4>1, RerolledItems
        <4> QED BY <4>2, TimesMember
      <3>2. ASSUME NEW x \in TimesOf(heap, generations, <<t, s>>)
            PROVE  x \in TimesOf(heap', generations', <<t, s>>)
        <4>1. PICK i \in heap : /\ generations[i.task_id] = i.generation
                                /\ i.task_id = t /\ i.trigger_id = s /\ i.next_fire_at = x
          BY TimesMember
        <4> DEFINE moved == [i EXCEPT !.generation = generations'[t]]
        <4>2. i \in kept /\ i \in ScheduledItem
          BY <2>7, <4>1 DEF ItemsOfTask, IsValid, TypeOK
        <4>3. /\ moved.task_id = t /\ moved.trigger_id = s
              /\ moved.next_fire_at = x /\ moved.generation = generations'[t]
          BY <4>1, <4>2 DEF ScheduledItem
        <4>4. moved \in heap'
          BY <2>5, <4>2, <4>3 DEF Push, IsValid
        <4> HIDE DEF moved
        <4>5. \E j \in heap' : /\ generations'[j.task_id] = j.generation
                                /\ j.task_id = t /\ j.trigger_id = s /\ j.next_fire_at = x
          BY <4>3, <4>4
        <4> QED BY <4>5, TimesMember
      <3>3. TimesOf(heap', generations', <<t, s>>) = TimesOf(heap, generations, <<t, s>>)
        BY <3>1, <3>2
      <3> QED BY <3>3, SameTimes DEF NextAt, Pairs
    <2>8. ASSUME NEW p \in Pairs, p[1] # t
          PROVE  NextAt(p)' = NextAt(p)
      <3>1. p[1] \in Tasks
        BY DEF Pairs
      <3>2. \A i : i.task_id = p[1] => (i \in heap <=> i \in heap')
        <4>1. \A i \in heap' : i.task_id # t => i \in heap
          BY <2>1, <2>3, <2>4, RerolledItems
        <4>2. \A i \in heap : i.task_id # t => i \in heap'
          BY <2>5 DEF Push, ItemsOfTask
        <4> QED BY <2>8, <4>1, <4>2
      <3>3. TimesOf(heap', generations', p) = TimesOf(heap, generations, p)
        BY <2>3, <2>8, <3>1, <3>2, OtherTimes
      <3> QED BY <3>3, SameTimes DEF NextAt
    <2>9. ASSUME NEW p \in Pairs, p # <<t, r>>
          PROVE  NextAt(p)' = NextAt(p)
      <3>1. p[1] # t \/ \E s \in Triggers : s # r /\ p = <<t, s>>
        BY <2>9 DEF Pairs
      <3> QED BY <2>7, <2>8, <3>1
    <2>10. next \in Evaluated(registered, <<t, r>>) /\ Table!Live(registered, <<t, r>>)
      BY <1>4, <2>1, TableEvaluated DEF Evaluated
    <2>11. Table!Reroll(<<t, r>>)
      BY <1>2, <2>6, <2>9, <2>10, TableEvaluated DEF Table!Reroll, Table!Pairs, Pairs, NextAt
    <2> QED BY <2>4, <2>11
  <1> QED BY <1>3, <1>4

\* The timer fires the earliest row, and advances it.
LEMMA FireTable ==
    ASSUME TypeOK, TypeOK', QueueInv, Fire
    PROVE  \E p \in Pairs : Table!Fire(p)
  <1>0. PICK item \in FirstValid(heap, generations) :
           /\ \E next \in Renewals(item) :
                 heap' = IF next = None THEN Pop(heap, generations, item)
                         ELSE Push(Pop(heap, generations, item), generations,
                                   {Item(<<item.task_id, item.trigger_id>>, next, generations)})
           /\ lastFired' = [lastFired EXCEPT ![<<item.task_id, item.trigger_id>>] =
                 [at |-> item.next_fire_at, def |-> registered[item.task_id]]]
    BY DEF Fire
  <1>1. PICK next \in Renewals(item) :
           heap' = IF next = None THEN Pop(heap, generations, item)
                   ELSE Push(Pop(heap, generations, item), generations,
                             {Item(<<item.task_id, item.trigger_id>>, next, generations)})
    BY <1>0
  <1>2. /\ item \in heap /\ item \in ScheduledItem
        /\ item.generation = generations[item.task_id]
    BY DEF FirstValid, ValidItems, IsValid, TypeOK
  <1>3. PICK t \in Tasks, r \in Triggers : t = item.task_id /\ r = item.trigger_id
    BY <1>2 DEF ScheduledItem
  <1>4. PICK p \in Pairs : p = <<t, r>>
    BY DEF Pairs
  <1>5. UNCHANGED <<generations, registered, now>>
    BY DEF Fire, clockVars
  <1>6. NextAt(p) = item.next_fire_at /\ NextAt(p) # None /\ NextAt(p) \in Int
    <2>1. item.next_fire_at \in TimesOf(heap, generations, p)
      BY <1>2, <1>3, <1>4, TimesMember
    <2>2. TimesOf(heap, generations, p) = Times(NextAt(p)) /\ NextAt(p) \in Option(Int)
      BY NextTimes
    <2> QED BY <2>1, <2>2 DEF Times, Option
  <1>7. ASSUME NEW q \in Pairs, NextAt(q) # None
        PROVE  NextAt(p) <= NextAt(q)
    <2>1. NextAt(q) \in TimesOf(heap, generations, q) /\ NextAt(q) \in Int
      BY <1>7, NextTimes DEF Times, Option
    <2>2. PICK j \in heap : /\ generations[j.task_id] = j.generation
                            /\ j.next_fire_at = NextAt(q)
      BY <2>1, TimesMember
    <2>3. j = item \/ Before(item, j)
      BY <2>2 DEF FirstValid, ValidItems, IsValid
    <2> QED BY <1>6, <2>1, <2>2, <2>3 DEF Before
  <1>8. NextAt(p)' = next /\ next \in Evaluated(registered, p)
    <2>1. next \in Evaluated(registered, p) /\ next \in Option(Int)
      <3>1. next \in Evaluated(registered, p)
        BY <1>2, <1>3, <1>4 DEF Renewals, Evaluated
      <3>2. next # None => next \in Int
        BY FireItem
      <3> QED BY <3>1, <3>2 DEF Option
    <2>2. ASSUME NEW x \in TimesOf(heap', generations', p)
          PROVE  next # None /\ x = next
      <3>1. PICK i \in heap' : /\ generations[i.task_id] = i.generation
                               /\ i.task_id = t /\ i.trigger_id = r /\ i.next_fire_at = x
        BY <1>4, <1>5, TimesMember
      <3>2. ~(i \in heap /\ i # item)
        BY <1>2, <1>3, <3>1 DEF QueueInv, OneEntryPerTrigger
      <3>3. \/ i \in heap /\ i # item
            \/ /\ next # None /\ next \in Int /\ next > now
               /\ i \in ScheduledItem
               /\ i.task_id = item.task_id /\ i.trigger_id = item.trigger_id
               /\ i.next_fire_at = next /\ i.generation = generations[item.task_id]
               /\ Live(registered[item.task_id], item.trigger_id)
        BY <1>1, FiredItems
      <3> QED BY <3>1, <3>2, <3>3
    <2>3. ASSUME next # None
          PROVE  next \in TimesOf(heap', generations', p)
      <3> DEFINE new == Item(<<item.task_id, item.trigger_id>>, next, generations)
      <3>1. /\ new.task_id = t /\ new.trigger_id = r
            /\ new.next_fire_at = next /\ new.generation = generations[t]
        BY <1>3 DEF Item
      <3>2. new \in heap'
        BY <1>1, <2>3, <3>1 DEF Push, IsValid
      <3> HIDE DEF new
      <3>3. \E i \in heap' : /\ generations'[i.task_id] = i.generation
                             /\ i.task_id = p[1] /\ i.trigger_id = p[2] /\ i.next_fire_at = next
        BY <1>4, <1>5, <3>1, <3>2
      <3> QED BY <3>3, TimesMember
    <2>4. TimesOf(heap', generations', p) = Times(next)
      BY <2>2, <2>3 DEF Times
    <2> QED BY <2>1, <2>4, TimesNext DEF NextAt
  <1>9. ASSUME NEW q \in Pairs, q # p
        PROVE  NextAt(q)' = NextAt(q)
    <2>1. ~(t = q[1] /\ r = q[2])
      BY <1>4, <1>9 DEF Pairs
    <2>2. ASSUME NEW x \in TimesOf(heap', generations', q)
          PROVE  x \in TimesOf(heap, generations, q)
      <3>1. PICK i \in heap' : /\ generations[i.task_id] = i.generation
                               /\ i.task_id = q[1] /\ i.trigger_id = q[2] /\ i.next_fire_at = x
        BY <1>5, <2>2, TimesMember
      <3>2. i \in heap
        BY <1>1, <1>3, <2>1, <3>1, FiredItems
      <3> QED BY <3>1, <3>2, TimesMember
    <2>3. ASSUME NEW x \in TimesOf(heap, generations, q)
          PROVE  x \in TimesOf(heap', generations', q)
      <3>1. PICK i \in heap : /\ generations[i.task_id] = i.generation
                              /\ i.task_id = q[1] /\ i.trigger_id = q[2] /\ i.next_fire_at = x
        BY <2>3, TimesMember
      <3>2. i \in Pop(heap, generations, item)
        BY <1>3, <2>1, <3>1 DEF Pop, DropStale, IsValid
      <3>3. i \in heap'
        BY <1>1, <3>2 DEF Push
      <3> QED BY <1>5, <3>1, <3>3, TimesMember
    <2>4. TimesOf(heap', generations', q) = TimesOf(heap, generations, q)
      BY <2>2, <2>3
    <2> QED BY <2>4, SameTimes DEF NextAt
  <1>10. lastFired' = [lastFired EXCEPT ![p] = [at |-> NextAt(p), def |-> registered[p[1]]]]
    BY <1>0, <1>3, <1>4, <1>6
  <1>11. Table!Fire(p)
    BY <1>5, <1>6, <1>7, <1>8, <1>9, <1>10, TableEvaluated
       DEF Table!Fire, Table!Pairs, Pairs, NextAt
  <1> QED BY <1>11

\* A clock jump evaluates every row anew; without one the check changes none.
LEMMA JumpCheckTable ==
    ASSUME TypeOK, TypeOK', QueueInv, JumpCheck
    PROVE  Table!Rebuild \/ UNCHANGED <<heap, generations, registered, now, lastFired>>
  <1>1. UNCHANGED <<generations, registered, now, lastFired>>
    BY DEF JumpCheck
  <1>2. CASE heap' = heap
    BY <1>1, <1>2
  <1>3. ASSUME NEW f \in Plans(registered, Tasks),
               heap' = Push({}, generations, PlanItems(f, generations))
        PROVE  Table!Rebuild
    <2>1. ASSUME NEW p \in Pairs
          PROVE  NextAt(p)' \in Evaluated(registered, p)
      <3>1. p[1] \in Tasks /\ Tasks \in SUBSET Tasks
        BY DEF Pairs
      <3>2. /\ registered \in [Tasks -> Option(TaskDefs)] /\ generations \in [Tasks -> Nat]
            /\ now \in Int
        BY DEF TypeOK
      <3>3. PICK v \in Option(Int) : /\ v \in Evaluated(registered, p)
                                     /\ TimesOf(heap', generations, p) = Times(v)
        BY <1>3, <3>1, <3>2, PlanTimes
      <3> QED BY <1>1, <3>3, TimesNext DEF NextAt
    <2> QED BY <1>1, <2>1, TableEvaluated DEF Table!Rebuild, Table!Pairs, Pairs, NextAt
  <1> QED BY <1>2, <1>3 DEF JumpCheck

\* The variables of the table.
tableVars == <<NextFireByTrigger(heap, generations), registered, now, lastFired>>

\* Every step of the scheduler is a step of the table, or none.
LEMMA TableStep ==
    ASSUME TypeOK, TypeOK', QueueInv, [Next]_vars
    PROVE  [Table!Next]_tableVars
  <1>1. CASE UNCHANGED <<heap, generations, registered, now, lastFired>>
    BY <1>1 DEF tableVars
  <1>2. CASE Loop
    <2>1. ValidItems(heap', generations') = ValidItems(heap, generations)
          /\ UNCHANGED <<registered, now, lastFired>>
      BY <1>2 DEF Loop, clockVars, DropStale, ValidItems, IsValid
    <2>2. NextFireByTrigger(heap', generations') = NextFireByTrigger(heap, generations)
      BY <2>1 DEF NextFireByTrigger, TimesOf
    <2> QED BY <2>1, <2>2 DEF tableVars
  <1>3. ASSUME NEW c \in Requests, Command(c)
        PROVE  [Table!Next]_tableVars
    <2>1. CASE TriggerNow(c)
      BY <1>1, <2>1 DEF TriggerNow, queueVars, clockVars
    <2>2. CASE AddTask(c)
      BY <2>2, AddTaskTable DEF Table!Next
    <2>3. CASE RemoveTask(c)
      BY <2>3, RemoveTaskTable DEF Table!Next
    <2>4. CASE RerollTrigger(c)
      BY <1>1, <2>4, RerollTriggerTable DEF Table!Next, Table!Pairs, Pairs
    <2> QED BY <1>3, <2>1, <2>2, <2>3, <2>4 DEF Command
  <1>4. CASE Fire
    BY <1>4, FireTable DEF Table!Next, Table!Pairs, Pairs
  <1>5. CASE JumpCheck
    BY <1>1, <1>5, JumpCheckTable DEF Table!Next
  <1>6. CASE Tick \/ \E d \in WallSteps : WallStep(d)
    <2>1. UNCHANGED <<heap, generations, registered, lastFired>>
      BY <1>6 DEF Tick, WallStep, queueVars
    <2>2. NextFireByTrigger(heap, generations)' = NextFireByTrigger(heap, generations)
      BY <2>1
    <2>3. CASE now' = now
      BY <1>1, <2>1, <2>3
    <2>4. CASE now' # now
      <3>1. Table!Time
        BY <2>1, <2>2, <2>4 DEF Table!Time
      <3> QED BY <3>1 DEF Table!Next
    <2> QED BY <2>3, <2>4
  <1>7. ASSUME \/ \E c \in Requests, cmd \in Commands : Begin(c, cmd)
               \/ \E c \in Requests : Enqueue(c)
               \/ ReceiveEvent \/ StopDispatcher \/ SendShutdown \/ Shutdown \/ SendEvent
               \/ UNCHANGED vars
        PROVE  UNCHANGED <<heap, generations, registered, now, lastFired>>
    BY <1>7 DEF Begin, Enqueue, ReceiveEvent, StopDispatcher, SendShutdown, Shutdown,
                SendEvent, vars, queueVars, clockVars
  <1> QED BY <1>1, <1>2, <1>3, <1>4, <1>5, <1>6, <1>7 DEF Next

\* The heap with its generations, lazy deletion and rebuilds is a table with
\* one next time per trigger: each request, firing and clock jump changes the
\* rows it is about and no other.
THEOREM QueueImplementsTable == Spec => TableSpec
  <1>1. Init => Table!Init
    <2> SUFFICES ASSUME Init
                 PROVE  Table!Init
      OBVIOUS
    <2>1. ASSUME NEW p \in Pairs
          PROVE  NextFireByTrigger(heap, generations)[p] = None
      <3>1. TimesOf(heap, generations, p) = Times(None)
        BY DEF Init, TimesOf, ValidItems, Times
      <3> QED BY <3>1, TimesNext DEF Option
    <2>2. NextFireByTrigger(heap, generations) = [p \in Pairs |-> None]
      BY <2>1 DEF NextFireByTrigger, Pairs
    <2> QED BY <2>2 DEF Init, Table!Init, Table!Pairs, Pairs
  <1>2. TypeOK /\ QueueInv /\ [Next]_vars => [Table!Next]_tableVars
    BY NextType, TableStep
  <1>3. Init => TypeOK /\ QueueInv
    BY InitType, InitQueue
  <1>4. TypeOK /\ QueueInv /\ [Next]_vars => TypeOK' /\ QueueInv'
    BY NextType, NextQueue
  <1>5. Table!Init /\ [][Table!Next]_tableVars => TableSpec
    BY DEF TableSpec, Table!Spec, Table!vars, tableVars
  <1> QED BY <1>1, <1>2, <1>3, <1>4, <1>5, PTL DEF Spec

-----------------------------------------------------------------------------
(* What holds of each row.                                                 *)

\* A step leaves a row alone, or evaluates it; only then may it fire.
LEMMA RowStep ==
    ASSUME TypeOK, TypeOK', QueueInv, [Next]_vars, NEW p \in Pairs
    PROVE  \/ /\ NextAt(p)' = NextAt(p) /\ lastFired'[p] = lastFired[p]
              /\ registered'[p[1]] = registered[p[1]]
           \/ /\ NextAt(p)' \in Evaluated(registered', p) /\ now' = now
              /\ \/ lastFired'[p] = lastFired[p]
                 \/ /\ NextAt(p) # None
                    /\ lastFired'[p] = [at |-> NextAt(p), def |-> registered[p[1]]]
  <1>1. p[1] \in Tasks /\ Table!Pairs = Pairs
    BY DEF Pairs, Table!Pairs
  <1>2. CASE UNCHANGED tableVars
    BY <1>2 DEF tableVars, NextAt
  <1>3. ASSUME NEW t \in Tasks, NEW def, Table!Register(t, def)
        PROVE  \/ /\ NextAt(p)' = NextAt(p) /\ registered'[p[1]] = registered[p[1]]
               \/ NextAt(p)' \in Evaluated(registered', p)
    BY <1>1, <1>3, TableEvaluated DEF Table!Register, NextAt, TypeOK
  <1>4. ASSUME NEW q \in Pairs, Table!Reroll(q)
        PROVE  NextAt(p)' = NextAt(p) \/ NextAt(p)' \in Evaluated(registered', p)
    BY <1>1, <1>4, TableEvaluated DEF Table!Reroll, NextAt
  <1>5. ASSUME NEW q \in Pairs, Table!Fire(q)
        PROVE  \/ q # p /\ NextAt(p)' = NextAt(p) /\ lastFired'[p] = lastFired[p]
               \/ /\ q = p /\ NextAt(p)' \in Evaluated(registered', p) /\ NextAt(p) # None
                  /\ lastFired'[p] = [at |-> NextAt(p), def |-> registered[p[1]]]
    BY <1>1, <1>5, TableEvaluated DEF Table!Fire, NextAt, TypeOK
  <1>6. CASE Table!Rebuild
    BY <1>1, <1>6, TableEvaluated DEF Table!Rebuild, NextAt
  <1>7. CASE Table!Time
    BY <1>7 DEF Table!Time, NextAt
  <1>8. CASE \E t \in Tasks, def \in TaskDefs \cup {None} : Table!Register(t, def)
    BY <1>3, <1>8 DEF Table!Register
  <1>9. CASE \E q \in Pairs : Table!Reroll(q)
    BY <1>4, <1>9 DEF Table!Reroll
  <1>10. CASE \E q \in Pairs : Table!Fire(q)
    BY <1>5, <1>10 DEF Table!Fire
  <1>11. [Table!Next]_tableVars
    BY TableStep
  <1> QED BY <1>1, <1>2, <1>6, <1>7, <1>8, <1>9, <1>10, <1>11 DEF Table!Next

\* What is evaluated is a live trigger of a known kind, or the row is empty.
LEMMA EvaluatedRow ==
    ASSUME NEW reg \in [Tasks -> Option(TaskDefs)], NEW p \in Pairs, NEW n \in Evaluated(reg, p),
           n # None
    PROVE  /\ Live(reg[p[1]], p[2]) /\ n \in EvaluateNext(KindOf(reg, p), now)
           /\ KindOf(reg, p) \in TriggerKinds
  <1>1. Live(reg[p[1]], p[2]) /\ n \in EvaluateNext(KindOf(reg, p), now)
    BY DEF Evaluated
  <1>2. reg[p[1]] \in Option(TaskDefs)
    BY DEF Pairs
  <1> QED BY <1>1, <1>2, LiveKind DEF KindOf

\* A live recurring trigger has a time.
Recurs == \A p \in Pairs : Live(registered[p[1]], p[2]) /\ Recurring(KindOf(registered, p))
                              => NextAt(p) # None

\* Whatever the requests, firings and clock jumps, a live recurring trigger is
\* never lost from the queue (Scheduler::run).
THEOREM RecurringIsNeverLost == Spec => []RecurringStaysQueued
  <1>1. ASSUME TypeOK, TypeOK', QueueInv, Recurs, [Next]_vars
        PROVE  Recurs'
    <2> SUFFICES ASSUME NEW p \in Pairs, Live(registered'[p[1]], p[2]),
                        Recurring(KindOf(registered', p))
                 PROVE  NextAt(p)' # None
      BY DEF Recurs
    <2>1. CASE NextAt(p)' = NextAt(p) /\ registered'[p[1]] = registered[p[1]]
      BY <1>1, <2>1 DEF Recurs, KindOf
    <2>2. CASE NextAt(p)' \in Evaluated(registered', p)
      <3>1. registered'[p[1]] \in Option(TaskDefs) /\ now \in Int
        BY <1>1 DEF TypeOK, Pairs
      <3>2. KindOf(registered', p) \in TriggerKinds
        BY <3>1, LiveKind DEF KindOf
      <3>3. None \notin EvaluateNext(KindOf(registered', p), now)
        BY <3>1, <3>2, RecurringHasNext DEF Recurring
      <3> QED BY <2>2, <3>3 DEF Evaluated
    <2> QED BY <1>1, <2>1, <2>2, RowStep
  <1>2. Init => Recurs
    BY DEF Init, Recurs, Live, Pairs
  <1>3. TypeOK /\ QueueInv /\ Recurs => RecurringStaysQueued
    <2> SUFFICES ASSUME TypeOK, QueueInv, Recurs, NEW p \in LivePairs(registered, Tasks),
                        Recurring(KindOf(registered, p))
                 PROVE  \E i \in ValidItems(heap, generations) : <<i.task_id, i.trigger_id>> = p
      BY DEF RecurringStaysQueued
    <2>1. p \in Pairs /\ NextAt(p) # None
      BY DEF LivePairs, Pairs, Recurs
    <2>2. NextAt(p) \in TimesOf(heap, generations, p)
      BY <2>1, NextTimes DEF Times
    <2>3. PICK i \in heap : /\ generations[i.task_id] = i.generation
                            /\ i.task_id = p[1] /\ i.trigger_id = p[2]
      BY <2>2, TimesMember
    <2> QED BY <2>1, <2>3 DEF ValidItems, IsValid, Pairs
  <1>4. Init => TypeOK /\ QueueInv
    BY InitType, InitQueue
  <1>5. TypeOK /\ QueueInv /\ [Next]_vars => TypeOK' /\ QueueInv'
    BY NextType, NextQueue
  <1> QED BY <1>1, <1>2, <1>3, <1>4, <1>5, PTL DEF Spec

\* A Fuzzy trigger whose clock is never put back.
Steady(kind) == kind.type = "Fuzzy" /\ kind.zone \in {z \in Zones : GoesForward(z)}

\* A time of such a trigger lies behind the start of its window.
InWindow(kind, at) == Steady(kind) => TimeOfDay(Local(kind.zone, at)) >= kind.window_start

\* The local day of an occurrence.
DayIn(kind, at) == DayOf(Local(kind.zone, at))

\* What waits and what has fired lies in its window, and what waits is of a
\* later day than what the same definition fired.
WindowInv ==
    \A p \in Pairs :
        /\ NextAt(p) # None => /\ Live(registered[p[1]], p[2])
                               /\ InWindow(KindOf(registered, p), NextAt(p))
        /\ lastFired[p] # None => InWindow(lastFired[p].def.triggers[p[2]].kind, lastFired[p].at)
        /\ /\ NextAt(p) # None /\ lastFired[p] # None
           /\ lastFired[p].def = registered[p[1]]
           /\ Steady(KindOf(registered, p))
           => DayIn(KindOf(registered, p), NextAt(p))
              > DayIn(KindOf(registered, p), lastFired[p].at)

\* A row changes by its trigger's evaluation or to none; after a firing with an
\* unchanged definition the evaluation is of a later day.
LEMMA WindowStep ==
    ASSUME TypeOK, TypeOK', QueueInv, WindowInv, FiredWasDue', [Next]_vars
    PROVE  WindowInv'
  <1> SUFFICES ASSUME NEW p \in Pairs
               PROVE  /\ NextAt(p)' # None => /\ Live(registered'[p[1]], p[2])
                                              /\ InWindow(KindOf(registered', p), NextAt(p)')
                      /\ lastFired'[p] # None =>
                            InWindow(lastFired'[p].def.triggers[p[2]].kind, lastFired'[p].at)
                      /\ /\ NextAt(p)' # None /\ lastFired'[p] # None
                         /\ lastFired'[p].def = registered'[p[1]]
                         /\ Steady(KindOf(registered', p))
                         => DayIn(KindOf(registered', p), NextAt(p)')
                            > DayIn(KindOf(registered', p), lastFired'[p].at)
    BY DEF WindowInv, InWindow, DayIn, Steady, GoesForward, Local, DayOf, TimeOfDay, Live, KindOf
  <1>1. CASE /\ NextAt(p)' = NextAt(p) /\ lastFired'[p] = lastFired[p]
             /\ registered'[p[1]] = registered[p[1]]
    BY <1>1 DEF WindowInv, KindOf
  <1>2. CASE /\ NextAt(p)' \in Evaluated(registered', p) /\ now' = now
             /\ \/ lastFired'[p] = lastFired[p]
                \/ /\ NextAt(p) # None
                   /\ lastFired'[p] = [at |-> NextAt(p), def |-> registered[p[1]]]
    <2>1. now \in Int /\ registered' \in [Tasks -> Option(TaskDefs)]
      BY DEF TypeOK
    <2>2. NextAt(p)' # None =>
             /\ Live(registered'[p[1]], p[2]) /\ KindOf(registered', p) \in TriggerKinds
             /\ NextAt(p)' \in EvaluateNext(KindOf(registered', p), now)
      BY <1>2, <2>1, EvaluatedRow
    <2>3. NextAt(p)' # None => InWindow(KindOf(registered', p), NextAt(p)')
      BY <2>1, <2>2, FuzzyWindow DEF InWindow, Steady
    <2>4. lastFired'[p] # None =>
             InWindow(lastFired'[p].def.triggers[p[2]].kind, lastFired'[p].at)
      BY <1>2 DEF WindowInv, KindOf
    <2>5. ASSUME NextAt(p)' # None, lastFired'[p] # None,
                 lastFired'[p].def = registered'[p[1]],
                 Steady(KindOf(registered', p))
          PROVE  DayIn(KindOf(registered', p), NextAt(p)')
                 > DayIn(KindOf(registered', p), lastFired'[p].at)
      <3>1. lastFired'[p].at <= now /\ lastFired'[p].at \in Int
        BY <1>2, <2>5 DEF FiredWasDue, TypeOK, Option, Instant
      <3>2. TimeOfDay(Local(KindOf(registered', p).zone, lastFired'[p].at))
            >= KindOf(registered', p).window_start
        BY <2>4, <2>5 DEF InWindow, KindOf
      <3> QED BY <2>1, <2>2, <2>5, <3>1, <3>2, FuzzyLaterDay DEF Steady, DayIn
    <2> QED BY <2>2, <2>3, <2>4, <2>5
  <1> QED BY <1>1, <1>2, RowStep

\* If neither the wall clock nor the clock of its zone is put back, a Fuzzy trigger
\* fires at most once in the window of a day, however often its task is saved again
\* or rerolled.
THEOREM WindowsFireOnce ==
    ASSUME ForwardClock
    PROVE  Spec => []OncePerWindow
  <1>1. Init => TypeOK /\ QueueInv /\ FiringInv /\ WindowInv
    <2>1. ASSUME Init, NEW p \in Pairs
          PROVE  NextAt(p) = None /\ lastFired[p] = None
      <3>1. TimesOf(heap, generations, p) = Times(None)
        BY <2>1 DEF Init, TimesOf, ValidItems, Times
      <3> QED BY <2>1, <3>1, TimesNext DEF NextAt, Option, Init
    <2>2. Init => WindowInv
      BY <2>1 DEF WindowInv
    <2> QED BY <2>2, InitType, InitQueue, InitFiring
  <1>2. /\ TypeOK /\ QueueInv /\ FiringInv /\ WindowInv /\ [Next]_vars
        => TypeOK' /\ QueueInv' /\ FiringInv' /\ WindowInv'
    <2> SUFFICES ASSUME TypeOK, QueueInv, FiringInv, WindowInv, [Next]_vars
                 PROVE  TypeOK' /\ QueueInv' /\ FiringInv' /\ WindowInv'
      OBVIOUS
    <2>1. TypeOK' /\ QueueInv'
      BY NextType, NextQueue
    <2>2. FiringInv' /\ FiredWasDue'
      BY <2>1, NextFiring DEF FiringInv
    <2> QED BY <2>1, <2>2, WindowStep
  <1>3. TypeOK /\ QueueInv /\ WindowInv => OncePerWindow
    <2> SUFFICES ASSUME TypeOK, QueueInv, WindowInv, NEW i \in ValidItems(heap, generations),
                        NEW p, p = <<i.task_id, i.trigger_id>>, lastFired[p] # None,
                        lastFired[p].def = registered[p[1]],
                        Steady(KindOf(registered, p))
                 PROVE  DayIn(KindOf(registered, p), i.next_fire_at)
                        > DayIn(KindOf(registered, p), lastFired[p].at)
      BY DEF OncePerWindow, LaterWindow, Steady, DayIn
    <2>1. i \in heap /\ p \in Pairs /\ generations[i.task_id] = i.generation
      BY DEF ValidItems, IsValid, TypeOK, ScheduledItem, Pairs
    <2>2. i.next_fire_at \in TimesOf(heap, generations, p)
      BY <2>1, TimesMember
    <2>3. NextAt(p) # None /\ i.next_fire_at = NextAt(p)
      BY <2>1, <2>2, NextTimes DEF Times
    <2> QED BY <2>1, <2>3 DEF WindowInv
  <1> QED BY <1>1, <1>2, <1>3, PTL DEF Spec
=============================================================================
