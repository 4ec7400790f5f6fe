------------------------------ MODULE Scheduler ------------------------------
(***************************************************************************)
(* crates/scheduler/src/scheduler.rs: the scheduler loop, with the bounded *)
(* command channel its clients write to and the bounded event channel the  *)
(* dispatcher of the agent reads.                                          *)
(*                                                                         *)
(* One iteration of the loop is Loop (look at the queue, arm the timer)    *)
(* followed by one branch of its select!: a command, the timer, or the     *)
(* clock-jump check.  A branch that sends an event may block on the event  *)
(* channel; the loop is then in "sending" until SendEvent.                 *)
(*                                                                         *)
(* Time: `now` is the wall clock (Utc::now).  Tick advances the wall and   *)
(* the monotonic clock together; WallStep moves the wall clock alone (an   *)
(* adjusted clock, or a suspended machine whose monotonic clock stood      *)
(* still).  The timer of select! runs on the monotonic clock.              *)
(***************************************************************************)
EXTENDS ScheduleQueue, Sequences, FiniteSets

CONSTANTS TaskDefs,     \* the task definitions clients may save
          Requests,     \* client requests, each makes one command
          CmdCap,       \* capacity of the command channel (100 in the code)
          EventCap,     \* capacity of the event channel (100 in the code)
          DriftLimit,   \* tolerated clock drift (30s in the code)
          WallSteps,    \* steps the wall clock may make on its own
          MaxTime,      \* bound: the last instant of the wall clock
          MaxDrift      \* bound: the largest accumulated drift

Trigger == [enabled : BOOLEAN, kind : TriggerKinds]

\* The event of an occurrence; a manual trigger has no trigger id.
TriggerEvent == [task_id : Tasks, trigger_id : Option(Triggers)]

ASSUME TaskDefsAssumption ==
    \A def \in TaskDefs :
        /\ DOMAIN def = {"enabled", "triggers"}
        /\ def.enabled \in BOOLEAN
        /\ DOMAIN def.triggers \subseteq Triggers
        /\ \A r \in DOMAIN def.triggers : def.triggers[r] \in Trigger
ASSUME NoTaskAssumption == None \notin TaskDefs /\ None \notin TriggerEvent
ASSUME ChannelAssumption ==
    /\ CmdCap \in Nat \ {0} /\ EventCap \in Nat \ {0}
    /\ "Shutdown" \notin Requests
ASSUME ClockAssumption ==
    /\ DriftLimit \in Nat /\ MaxTime \in Nat /\ MaxDrift \in Nat
    /\ WallSteps \subseteq Int

VARIABLES
    heap,         \* ScheduleQueue.heap
    generations,  \* ScheduleQueue.generations
    registered,   \* registered_tasks of run(): task id -> definition
    pc,           \* where the loop is
    timer,        \* monotonic time left of the select! sleep, or None
    sending,      \* the TriggerEvent being sent, or None
    cmds,         \* the command channel: requests, and "Shutdown"
    events,       \* the event channel
    rxOpen,       \* the dispatcher still holds the receiver
    req,          \* the state of each client request
    now,          \* wall clock
    drift,        \* wall minus monotonic time since the last jump check
    lastFired     \* history: the last occurrence fired of each trigger

queueVars == <<heap, generations, registered>>
loopVars == <<pc, timer, sending>>
clockVars == <<now, drift>>
vars == <<heap, generations, registered, pc, timer, sending, cmds, events,
          rxOpen, req, now, drift, lastFired>>

Pairs == Tasks \X Triggers

Commands ==
    [op : {"AddTask"}, task_id : Tasks, task : TaskDefs]
    \cup [op : {"RemoveTask", "TriggerNow"}, task_id : Tasks]
    \cup [op : {"RerollTrigger"}, task_id : Tasks, trigger_id : Triggers]

\* A trigger of a definition that is scheduled: task and trigger enabled.
Live(def, r) == /\ def # None
                /\ def.enabled
                /\ r \in DOMAIN def.triggers
                /\ def.triggers[r].enabled

LivePairs(reg, S) == {p \in S \X Triggers : Live(reg[p[1]], p[2])}
KindOf(reg, p) == reg[p[1]].triggers[p[2]].kind

\* All ways to evaluate the live triggers of the tasks S from the instant now.
Plans(reg, S) ==
    LET P == LivePairs(reg, S)
        outcomes == UNION {EvaluateNext(KindOf(reg, p), now) : p \in P}
    IN  {f \in [P -> outcomes] :
            \A p \in P : f[p] \in EvaluateNext(KindOf(reg, p), now)}

Item(p, at, g) == [task_id |-> p[1], trigger_id |-> p[2],
                   next_fire_at |-> at, generation |-> g[p[1]]]
PlanItems(f, g) == {Item(p, f[p], g) : p \in {q \in DOMAIN f : f[q] # None}}

Init ==
    /\ heap = {}
    /\ generations = NoGenerations
    /\ registered = [t \in Tasks |-> None]
    /\ pc = "loop" /\ timer = None /\ sending = None
    /\ cmds = <<>> /\ events = <<>> /\ rxOpen = TRUE
    /\ req = [c \in Requests |-> [st |-> "idle", cmd |-> None]]
    /\ now = 0 /\ drift = 0
    /\ lastFired = [p \in Pairs |-> None]

-----------------------------------------------------------------------------
(* The clients: a handler sends its command, waiting while the channel is  *)
(* full; once the scheduler has stopped the send fails at once.            *)

Begin(c, cmd) ==
    /\ req[c].st = "idle"
    /\ \/ /\ pc # "stopped" /\ Len(cmds) < CmdCap
          /\ cmds' = Append(cmds, c)
          /\ req' = [req EXCEPT ![c] = [st |-> "queued", cmd |-> cmd]]
       \/ /\ pc # "stopped" /\ Len(cmds) >= CmdCap
          /\ req' = [req EXCEPT ![c] = [st |-> "sending", cmd |-> cmd]]
          /\ UNCHANGED cmds
       \/ /\ pc = "stopped"
          /\ req' = [req EXCEPT ![c] = [st |-> "dropped", cmd |-> None]]
          /\ UNCHANGED cmds
    /\ UNCHANGED <<queueVars, loopVars, events, rxOpen, clockVars, lastFired>>

\* Fault: an unbounded command channel.
EnqueueUnbounded(c) ==
    /\ req[c].st = "sending"
    /\ pc # "stopped"
    /\ cmds' = Append(cmds, c)
    /\ req' = [req EXCEPT ![c].st = "queued"]
    /\ UNCHANGED <<queueVars, loopVars, events, rxOpen, clockVars, lastFired>>

Enqueue(c) ==
    /\ req[c].st = "sending"
    /\ pc # "stopped"
    /\ Len(cmds) < CmdCap
    /\ cmds' = Append(cmds, c)
    /\ req' = [req EXCEPT ![c].st = "queued"]
    /\ UNCHANGED <<queueVars, loopVars, events, rxOpen, clockVars, lastFired>>

\* The dispatcher takes an event; what it does with it is Execution.tla.
ReceiveEvent ==
    /\ rxOpen /\ events # <<>>
    /\ events' = Tail(events)
    /\ UNCHANGED <<queueVars, loopVars, cmds, rxOpen, req, clockVars, lastFired>>

\* Shutdown of the agent: the dispatcher ends and drops its receiver, ...
StopDispatcher ==
    /\ rxOpen
    /\ rxOpen' = FALSE
    /\ events' = <<>>
    /\ UNCHANGED <<queueVars, loopVars, cmds, req, clockVars, lastFired>>

ShutdownSent == \E k \in 1 .. Len(cmds) : cmds[k] = "Shutdown"

\* ... then the agent sends Shutdown to the scheduler.
SendShutdown ==
    /\ ~rxOpen /\ pc # "stopped" /\ ~ShutdownSent
    /\ Len(cmds) < CmdCap
    /\ cmds' = Append(cmds, "Shutdown")
    /\ UNCHANGED <<queueVars, loopVars, events, rxOpen, req, clockVars, lastFired>>

-----------------------------------------------------------------------------
(* The loop.                                                               *)

\* Fault: a timer rounded down by one unit.
SleepDurationRounded(at) == IF at <= now + 1 THEN 0 ELSE at - now - 1

\* sleep_duration: zero when the item is due.
SleepDuration(at) == IF at <= now THEN 0 ELSE at - now

Loop ==
    /\ pc = "loop"
    /\ heap' = DropStale(heap, generations)
    /\ \/ /\ ValidItems(heap, generations) = {}
          /\ timer' = None
       \/ \E top \in FirstValid(heap, generations) :
             timer' = SleepDuration(top.next_fire_at)
    /\ pc' = "select"
    /\ UNCHANGED <<generations, registered, sending, cmds, events, rxOpen, req,
                   clockVars, lastFired>>

\* The next command, of kind op, is the request c.
Receives(c, op) ==
    /\ pc = "select"
    /\ cmds # <<>> /\ Head(cmds) = c
    /\ req[c].st = "queued" /\ req[c].cmd.op = op
    /\ cmds' = Tail(cmds)
    /\ timer' = None

Settle(c, st) == req' = [req EXCEPT ![c] = [st |-> st, cmd |-> None]]

AddTask(c) ==
    /\ Receives(c, "AddTask")
    /\ LET t == req[c].cmd.task_id
       IN  /\ generations' = BumpGeneration(generations, t)
           /\ registered' = [registered EXCEPT ![t] = req[c].cmd.task]
           /\ \E f \in Plans(registered', {t}) :
                 heap' = Push(heap, generations', PlanItems(f, generations'))
    /\ Settle(c, "done")
    /\ pc' = "loop"
    /\ UNCHANGED <<sending, events, rxOpen, clockVars, lastFired>>

\* Fault: removing a task does not invalidate its items.
RemoveTaskNoBump(c) ==
    /\ Receives(c, "RemoveTask")
    /\ registered' = [registered EXCEPT ![req[c].cmd.task_id] = None]
    /\ Settle(c, "done")
    /\ pc' = "loop"
    /\ UNCHANGED <<heap, generations, sending, events, rxOpen, clockVars, lastFired>>

RemoveTask(c) ==
    /\ Receives(c, "RemoveTask")
    /\ registered' = [registered EXCEPT ![req[c].cmd.task_id] = None]
    /\ generations' = BumpGeneration(generations, req[c].cmd.task_id)
    /\ Settle(c, "done")
    /\ pc' = "loop"
    /\ UNCHANGED <<heap, sending, events, rxOpen, clockVars, lastFired>>

\* No check that the task is registered: the dispatcher looks it up.
TriggerNow(c) ==
    /\ Receives(c, "TriggerNow")
    /\ sending' = [task_id |-> req[c].cmd.task_id, trigger_id |-> None]
    /\ Settle(c, "done")
    /\ pc' = "sending"
    /\ UNCHANGED <<queueVars, events, rxOpen, clockVars, lastFired>>

\* Fault: a reroll loses the siblings of its target.
RerolledAlone(p, next, g) ==
    Push(heap \ ItemsOfTask(heap, p[1]), g, IF next = None THEN {} ELSE {Item(p, next, g)})

\* Fault: a reroll leaves the old item of its target in place.
RerolledTwice(p, next, g) ==
    LET kept == {i \in ItemsOfTask(heap, p[1]) : IsValid(generations, i)}
    IN  Push(heap \ ItemsOfTask(heap, p[1]), g,
             {[i EXCEPT !.generation = g[p[1]]] : i \in kept}
             \cup IF next = None THEN {} ELSE {Item(p, next, g)})

\* reroll_trigger, the queue after a reroll of p whose new time is `next`:
\* the valid items of the task move to the new generation, the target takes
\* its new time (or leaves the queue), its siblings keep theirs.
Rerolled(p, next, g) ==
    LET t == p[1]
        kept == {i \in ItemsOfTask(heap, t) :
                    IsValid(generations, i) /\ i.trigger_id # p[2]}
        target == IF next = None THEN {} ELSE {Item(p, next, g)}
    IN  Push(heap \ ItemsOfTask(heap, t), g,
             {[i EXCEPT !.generation = g[t]] : i \in kept} \cup target)

RerollTrigger(c) ==
    /\ Receives(c, "RerollTrigger")
    /\ LET p == <<req[c].cmd.task_id, req[c].cmd.trigger_id>>
       IN  \/ /\ Live(registered[p[1]], p[2])
              /\ generations' = BumpGeneration(generations, p[1])
              /\ \E next \in EvaluateNext(KindOf(registered, p), now) :
                    heap' = Rerolled(p, next, generations')
              /\ Settle(c, "done")
           \/ /\ ~Live(registered[p[1]], p[2])
              /\ Settle(c, "refused")
              /\ UNCHANGED <<heap, generations>>
    /\ pc' = "loop"
    /\ UNCHANGED <<registered, sending, events, rxOpen, clockVars, lastFired>>

\* Fault: the loop ends without dropping the queued requests.
ShutdownKeepsQueue ==
    /\ pc = "select"
    /\ cmds # <<>> /\ Head(cmds) = "Shutdown"
    /\ pc' = "stopped"
    /\ cmds' = Tail(cmds)
    /\ timer' = None
    /\ UNCHANGED <<queueVars, sending, events, rxOpen, req, clockVars, lastFired>>

\* Shutdown ends the loop and drops the command channel: a queued request is
\* lost and a waiting one gets an error.
Shutdown ==
    /\ pc = "select"
    /\ cmds # <<>> /\ Head(cmds) = "Shutdown"
    /\ pc' = "stopped"
    /\ cmds' = <<>>
    /\ timer' = None
    /\ req' = [c \in Requests |->
                 IF req[c].st \in {"sending", "queued"}
                 THEN [st |-> "dropped", cmd |-> None] ELSE req[c]]
    /\ UNCHANGED <<queueVars, sending, events, rxOpen, clockVars, lastFired>>

\* What follows the popped item: its trigger evaluated from now, if the task
\* still has it enabled.
Renewals(item) ==
    IF /\ Live(registered[item.task_id], item.trigger_id)
       /\ item.generation = generations[item.task_id]
    THEN EvaluateNext(KindOf(registered, <<item.task_id, item.trigger_id>>), now)
    ELSE {None}

\* The timer elapsed: pop (whatever the wall clock says), requeue, send.
Fire ==
    /\ pc = "select" /\ timer = 0
    /\ \E item \in FirstValid(heap, generations) :
         LET p == <<item.task_id, item.trigger_id>>
             rest == Pop(heap, generations, item)
         IN  /\ \E next \in Renewals(item) :
                  heap' = IF next = None THEN rest
                          ELSE Push(rest, generations, {Item(p, next, generations)})
             /\ sending' = [task_id |-> p[1], trigger_id |-> p[2]]
             /\ lastFired' = [lastFired EXCEPT ![p] =
                    [at |-> item.next_fire_at, def |-> registered[p[1]]]]
    /\ pc' = "sending"
    /\ timer' = None
    /\ UNCHANGED <<generations, registered, cmds, events, rxOpen, req, clockVars>>

\* Fault: the send does not notice that the receiver is gone.
SendEventBlocks ==
    /\ pc = "sending"
    /\ rxOpen /\ Len(events) < EventCap
    /\ events' = Append(events, sending)
    /\ sending' = None
    /\ pc' = "loop"
    /\ UNCHANGED <<queueVars, timer, cmds, rxOpen, req, clockVars, lastFired>>

\* event_tx.send(..).await: waits for room; an error (the receiver is gone)
\* is ignored.
SendEvent ==
    /\ pc = "sending"
    /\ \/ /\ rxOpen /\ Len(events) < EventCap
          /\ events' = Append(events, sending)
       \/ /\ ~rxOpen
          /\ UNCHANGED events
    /\ sending' = None
    /\ pc' = "loop"
    /\ UNCHANGED <<queueVars, timer, cmds, rxOpen, req, clockVars, lastFired>>

Jumped == drift > DriftLimit \/ -drift > DriftLimit

\* Fault: the rebuild does not clear the queue first.
JumpCheckAppends ==
    /\ pc = "select"
    /\ \/ /\ Jumped
          /\ \E f \in Plans(registered, Tasks) :
                heap' = Push(heap, generations, PlanItems(f, generations))
       \/ /\ ~Jumped
          /\ UNCHANGED heap
    /\ drift' = 0
    /\ pc' = "loop"
    /\ timer' = None
    /\ UNCHANGED <<generations, registered, sending, cmds, events, rxOpen, req,
                   now, lastFired>>

\* jump_interval.tick(): rebuild the queue after a clock jump.
JumpCheck ==
    /\ pc = "select"
    /\ \/ /\ Jumped
          /\ \E f \in Plans(registered, Tasks) :
                heap' = Push({}, generations, PlanItems(f, generations))
       \/ /\ ~Jumped
          /\ UNCHANGED heap
    /\ drift' = 0
    /\ pc' = "loop"
    /\ timer' = None
    /\ UNCHANGED <<generations, registered, sending, cmds, events, rxOpen, req,
                   now, lastFired>>

-----------------------------------------------------------------------------
(* Time.                                                                   *)

Tick ==
    /\ now < MaxTime
    /\ pc # "stopped"
    /\ now' = now + 1
    /\ timer' = IF timer \in {None, 0} THEN timer ELSE timer - 1
    /\ UNCHANGED <<queueVars, pc, sending, cmds, events, rxOpen, req, drift, lastFired>>

WallStep(d) ==
    /\ pc # "stopped"
    /\ now + d \in 0 .. MaxTime
    /\ drift + d \in -MaxDrift .. MaxDrift
    /\ now' = now + d
    /\ drift' = drift + d
    /\ UNCHANGED <<queueVars, loopVars, cmds, events, rxOpen, req, lastFired>>

Command(c) == AddTask(c) \/ RemoveTask(c) \/ TriggerNow(c) \/ RerollTrigger(c)

Next ==
    \/ \E c \in Requests, cmd \in Commands : Begin(c, cmd)
    \/ \E c \in Requests : Enqueue(c)
    \/ ReceiveEvent \/ StopDispatcher \/ SendShutdown
    \/ Loop
    \/ \E c \in Requests : Command(c)
    \/ Shutdown \/ Fire \/ SendEvent \/ JumpCheck
    \/ Tick
    \/ \E d \in WallSteps : WallStep(d)

Spec == Init /\ [][Next]_vars
-----------------------------------------------------------------------------
(* Properties.                                                             *)

RequestState == [st : {"idle", "done", "refused", "dropped"}, cmd : {None}]
                \cup [st : {"sending", "queued"}, cmd : Commands]

\* Type correctness of the state of the scheduler loop and its channels.
TypeOK ==
    /\ heap \subseteq ScheduledItem
    /\ generations \in [Tasks -> Nat]
    /\ registered \in [Tasks -> Option(TaskDefs)]
    /\ pc \in {"loop", "select", "sending", "stopped"}
    /\ timer \in Option(Nat)
    /\ sending \in Option(TriggerEvent)
    /\ (pc = "sending") => (sending # None)
    /\ cmds \in Seq(Requests \cup {"Shutdown"}) /\ Len(cmds) <= CmdCap
    /\ events \in Seq(TriggerEvent)
    /\ Len(events) <= EventCap
    /\ rxOpen \in BOOLEAN
    /\ req \in [Requests -> RequestState]
    /\ now \in Int /\ drift \in Int
    /\ lastFired \in [Pairs -> Option([at : Instant, def : Option(TaskDefs)])]

\* No item of a future generation waits in the heap: bumping a generation
\* cancels everything queued before it, for good.
FreshGenerations == \A i \in heap : i.generation <= generations[i.task_id]

\* A trigger is never queued twice: two items of the heap with the same task
\* and trigger are of different generations, so at most one is valid and the
\* task is never run twice for one occurrence.
OneEntryPerTrigger ==
    \A i, j \in heap :
        /\ i.task_id = j.task_id
        /\ i.trigger_id = j.trigger_id
        /\ i.generation = j.generation
        => i = j

\* Whatever the order of saves, removals, rerolls, firings and clock jumps, a
\* valid item belongs to a registered task and trigger that are both enabled:
\* a disabled, changed or removed trigger never fires.
ValidItemsAreLive ==
    \A i \in ValidItems(heap, generations) :
        Live(registered[i.task_id], i.trigger_id)

\* A kind that always has a next occurrence.
Recurring(kind) ==
    \/ kind.type = "Interval" /\ kind.interval > 0
    \/ kind.type = "Daily"
    \/ kind.type = "Weekly" /\ kind.days_of_week # {}
    \/ kind.type = "Cron" /\ kind.matches # {}
    \/ kind.type = "Fuzzy" /\ kind.days_of_week # {} /\ kind.window_start < kind.window_end

\* A live recurring trigger is never lost from the queue: it keeps exactly the
\* one valid item through firings, rerolls of siblings and queue rebuilds.
RecurringStaysQueued ==
    \A p \in LivePairs(registered, Tasks) :
        Recurring(KindOf(registered, p)) =>
            \E i \in ValidItems(heap, generations) : <<i.task_id, i.trigger_id>> = p

\* While the wall clock does not run backwards: the occurrence a trigger has
\* waiting is later than every occurrence it has fired, so no occurrence (a
\* Once in particular) fires twice, even when the task is saved again, its
\* trigger rerolled or the queue rebuilt in between.
NoRefire ==
    \A i \in ValidItems(heap, generations) :
        LET last == lastFired[<<i.task_id, i.trigger_id>>]
        IN  last # None => i.next_fire_at > last.at

\* The clock of the zone is never put back, and a gap ends on the day it begins.
GoesForward(z) ==
    /\ z.shift >= 0
    /\ z.shift > 0 => DayOf(z.switch + z.shift + GapStep - 1) = DayOf(z.switch)

\* A Fuzzy trigger of these zones that fired in the window of a day waits for the
\* window of a later day, as long as its definition is the same.
LaterWindow(i, zones) ==
    LET p == <<i.task_id, i.trigger_id>>
        last == lastFired[p]
        kind == KindOf(registered, p)
    IN  /\ last # None
        /\ last.def = registered[p[1]]
        /\ kind.type = "Fuzzy" /\ kind.zone \in zones
        => DayOf(Local(kind.zone, i.next_fire_at)) > DayOf(Local(kind.zone, last.at))

\* While neither the wall clock nor the clock of the zone is put back: each window
\* fires at most once, however often the task is saved again or rerolled.
OncePerWindow ==
    \A i \in ValidItems(heap, generations) : LaterWindow(i, {z \in Zones : GoesForward(z)})

\* "Guarantees that every matching window fires at most once" (evaluator.rs), in
\* every zone.
EveryWindowFiresAtMostOnce ==
    \A i \in ValidItems(heap, generations) : LaterWindow(i, Zones)

\* While the wall clock does not run backwards: the armed timer never ends before
\* the first item of the queue is due, and no item fires ahead of its time.
NeverEarly ==
    timer # None => \A i \in FirstValid(heap, generations) : i.next_fire_at <= now + timer

\* The queue and its generations implement a plain table of next fire times.
Table == INSTANCE ScheduleTable WITH next <- NextFireByTrigger(heap, generations)
TableSpec == Table!Spec

\* Fairness: the tokio runtime keeps polling the loop, the dispatcher and the
\* blocked senders.  select! picks a ready branch at random, so an elapsed
\* timer is chosen in the long run even if the jump check is ready as well.
Fairness ==
    /\ WF_vars(Loop)
    /\ WF_vars(SendEvent)
    /\ WF_vars(ReceiveEvent)
    /\ SF_vars(Fire)
    /\ WF_vars(JumpCheck)
    /\ SF_vars(\E c \in Requests : Command(c))
    /\ SF_vars(Shutdown)
    /\ \A c \in Requests : SF_vars(Enqueue(c))
    /\ WF_vars(SendShutdown)
    /\ WF_vars(Tick)

FairSpec == Spec /\ Fairness

Due(p) == /\ pc # "stopped"
          /\ \E i \in ValidItems(heap, generations) :
                <<i.task_id, i.trigger_id>> = p /\ i.next_fire_at <= now

\* A due item is fired (or cancelled), it never stays due for ever, even when
\* the event channel fills up or the timer was armed before the clock moved.
DueItemsFire == \A p \in Pairs : Due(p) ~> ~Due(p)

\* Every request a handler makes of the scheduler ends: it is applied, refused
\* or, at shutdown, dropped with an error; no reroll caller waits for ever.
RequestsSettle ==
    \A c \in Requests :
        (req[c].st \in {"sending", "queued"}) ~> (req[c].st \in {"done", "refused", "dropped"})
=============================================================================
