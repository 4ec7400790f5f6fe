------------------------------ MODULE TaskSync ------------------------------
(***************************************************************************)
(* The task table and the copy of it that the scheduler keeps.             *)
(*                                                                         *)
(* The handlers of task.save and task.delete (apps/agent/src/service.rs)   *)
(* commit to SQLite and then send a command to the scheduler: two steps,   *)
(* and one spawned handler per request.  The dispatcher and the network    *)
(* dispatcher read tasks back with find_by_id, three queries without a     *)
(* transaction (crates/persistence/src/task_repo.rs).  The agent may die   *)
(* at any point; its next start reads the enabled tasks again.             *)
(*                                                                         *)
(* The scheduler is reduced to what it knows and sends; Scheduler.tla has  *)
(* its queue and timers.                                                   *)
(***************************************************************************)
EXTENDS Integers, Sequences, FiniteSets

CONSTANTS Tasks,      \* task ids
          Handlers,   \* requests: each saves or deletes one task, once
          TaskDefs,   \* what a client may save
          NetEvents,  \* network events: [kind, ssid]
          CmdCap,     \* capacity of the command channel (100 in the code)
          EventCap,   \* capacity of the event channel (100 in the code)
          MaxStarts,  \* bound: starts of the agent
          MaxNet,     \* bound: network events
          None

ASSUME CapAssumption == CmdCap \in Nat \ {0} /\ EventCap \in Nat \ {0}
ASSUME DefsAssumption == \A d \in TaskDefs : DOMAIN d = {"enabled", "triggers"}
ASSUME NoneAssumption ==
    None \notin Handlers /\ None \notin Tasks /\ None \notin TaskDefs /\ None \notin NetEvents

VARIABLES
    tasksTable,   \* tasks: the saved revision of each task, or None
    trigTable,    \* triggers: the revision whose triggers are stored
    actTable,     \* actions: the revision whose actions are stored
    defOf,        \* the definition each revision saved
    handler,      \* the state of each request
    cmds,         \* the command channel of the scheduler
    registered,   \* the scheduler's registered tasks: a revision, or None
    events,       \* the event channel of the dispatcher
    finder,       \* the find_by_id each dispatcher is executing
    net,          \* what the network dispatcher is doing
    nets,         \* network events so far
    starts,       \* starts of the agent so far
    overlapped,   \* history: tasks with two handlers between commit and send
    dirty         \* history: finders whose task was committed meanwhile

tables == <<tasksTable, trigTable, actTable, defOf>>
channels == <<cmds, events>>
history == <<overlapped, dirty>>
vars == <<tasksTable, trigTable, actTable, defOf, handler, cmds, registered,
          events, finder, net, nets, starts, overlapped, dirty>>

\* The two tasks that load one task after the other.
Finders == {"dispatcher", "network"}

\* A revision is named by the request that saved it.
Revision == Handlers \cup {None}
Enabled(rev) == rev # None /\ defOf[rev].enabled

Commands == [op : {"AddTask"}, task : Tasks, rev : Handlers]
            \cup [op : {"RemoveTask", "TriggerNow"}, task : Tasks]

NoFind == [pc |-> "idle", task |-> None, row |-> None, triggers |-> None, actions |-> None]
NoNet == [pc |-> "idle", ev |-> None, todo |-> {}, hits |-> {}]

Init ==
    /\ tasksTable = [t \in Tasks |-> None]
    /\ trigTable = tasksTable /\ actTable = tasksTable
    /\ defOf = [h \in Handlers |-> None]
    /\ handler = [h \in Handlers |-> [pc |-> "idle", op |-> None, task |-> None]]
    /\ cmds = <<>> /\ events = <<>>
    /\ registered = [t \in Tasks |-> None]
    /\ finder = [f \in Finders |-> NoFind]
    /\ net = NoNet /\ nets = 0 /\ starts = 1
    /\ overlapped = {} /\ dirty = {}

-----------------------------------------------------------------------------
(* The handlers of task.save and task.delete.                              *)

\* Handlers that have committed and not yet sent their command.
Committed(t) == {h \in Handlers : handler[h].pc = "committed" /\ handler[h].task = t}

\* A commit on t: what the histories record of it.
Commits(t) ==
    /\ overlapped' = IF Committed(t) = {} THEN overlapped ELSE overlapped \cup {t}
    /\ dirty' = dirty \cup {f \in Finders : finder[f].pc # "idle" /\ finder[f].task = t}

Refuse(h, op, t) ==
    /\ handler' = [handler EXCEPT ![h] = [pc |-> "failed", op |-> op, task |-> t]]
    /\ UNCHANGED <<tables, history>>

\* task_repo.save: one transaction over the three tables, or an error.
Save(h, t, d) ==
    /\ handler[h].pc = "idle"
    /\ \/ /\ tasksTable' = [tasksTable EXCEPT ![t] = h]
          /\ trigTable' = [trigTable EXCEPT ![t] = h]
          /\ actTable' = [actTable EXCEPT ![t] = h]
          /\ defOf' = [defOf EXCEPT ![h] = d]
          /\ handler' = [handler EXCEPT ![h] = [pc |-> "committed", op |-> "save", task |-> t]]
          /\ Commits(t)
       \/ Refuse(h, "save", t)
    /\ UNCHANGED <<channels, registered, finder, net, nets, starts>>

\* task_repo.delete: the triggers and actions go with the row (cascade).
Delete(h, t) ==
    /\ handler[h].pc = "idle"
    /\ \/ /\ tasksTable' = [tasksTable EXCEPT ![t] = None]
          /\ trigTable' = [trigTable EXCEPT ![t] = None]
          /\ actTable' = [actTable EXCEPT ![t] = None]
          /\ handler' = [handler EXCEPT ![h] = [pc |-> "committed", op |-> "delete", task |-> t]]
          /\ Commits(t)
          /\ UNCHANGED defOf
       \/ Refuse(h, "delete", t)
    /\ UNCHANGED <<channels, registered, finder, net, nets, starts>>

CommandOf(h) ==
    IF handler[h].op = "save"
    THEN [op |-> "AddTask", task |-> handler[h].task, rev |-> h]
    ELSE [op |-> "RemoveTask", task |-> handler[h].task]

\* Fault: only saves of enabled tasks are passed on.
SendSkipsDisabled(h) ==
    /\ handler[h].pc = "committed"
    /\ Len(cmds) < CmdCap
    /\ cmds' = IF handler[h].op = "save" /\ ~Enabled(h) THEN cmds
               ELSE Append(cmds, CommandOf(h))
    /\ handler' = [handler EXCEPT ![h].pc = "done"]
    /\ UNCHANGED <<tables, registered, events, finder, net, nets, starts, history>>

\* scheduler_tx.send(..).await, then the response.
Send(h) ==
    /\ handler[h].pc = "committed"
    /\ Len(cmds) < CmdCap
    /\ cmds' = Append(cmds, CommandOf(h))
    /\ handler' = [handler EXCEPT ![h].pc = "done"]
    /\ UNCHANGED <<tables, registered, events, finder, net, nets, starts, history>>

-----------------------------------------------------------------------------
(* The scheduler.                                                          *)

Apply ==
    /\ cmds # <<>>
    /\ LET c == Head(cmds)
       IN  \/ /\ c.op = "AddTask"
              /\ registered' = [registered EXCEPT ![c.task] = c.rev]
              /\ UNCHANGED events
           \/ /\ c.op = "RemoveTask"
              /\ registered' = [registered EXCEPT ![c.task] = None]
              /\ UNCHANGED events
           \/ /\ c.op = "TriggerNow"
              /\ Len(events) < EventCap
              /\ events' = Append(events, c.task)
              /\ UNCHANGED registered
    /\ cmds' = Tail(cmds)
    /\ UNCHANGED <<tables, handler, finder, net, nets, starts, history>>

\* A time trigger of an enabled registered task comes due.
Fire(t) ==
    /\ Enabled(registered[t])
    /\ Len(events) < EventCap
    /\ events' = Append(events, t)
    /\ UNCHANGED <<tables, handler, cmds, registered, finder, net, nets, starts, history>>

-----------------------------------------------------------------------------
(* find_by_id: the row, the triggers and the actions in three queries.     *)

Set(f, x) == finder' = [finder EXCEPT ![f] = x]

FindRow(f) ==
    /\ finder[f].pc = "row"
    /\ Set(f, [finder[f] EXCEPT !.row = tasksTable[finder[f].task],
                                !.pc = IF tasksTable[finder[f].task] = None THEN "none"
                                       ELSE "triggers"])
    /\ UNCHANGED <<tables, handler, channels, registered, net, nets, starts, history>>

FindTriggers(f) ==
    /\ finder[f].pc = "triggers"
    /\ Set(f, [finder[f] EXCEPT !.triggers = trigTable[finder[f].task], !.pc = "actions"])
    /\ UNCHANGED <<tables, handler, channels, registered, net, nets, starts, history>>

FindActions(f) ==
    /\ finder[f].pc = "actions"
    /\ Set(f, [finder[f] EXCEPT !.actions = actTable[finder[f].task], !.pc = "loaded"])
    /\ UNCHANGED <<tables, handler, channels, registered, net, nets, starts, history>>

Finish(f) ==
    /\ Set(f, NoFind)
    /\ dirty' = dirty \ {f}

\* A query or the decoding of a column fails: the dispatcher goes on to the
\* next event, dispatch_network_event gives the whole event up.
FindFails(f) ==
    /\ finder[f].pc \in {"row", "triggers", "actions"}
    /\ Finish(f)
    /\ net' = IF f = "network" THEN NoNet ELSE net
    /\ UNCHANGED <<tables, handler, channels, registered, nets, starts, overlapped>>

\* The dispatcher receives an event and looks its task up.
Dispatch ==
    /\ finder["dispatcher"].pc = "idle" /\ events # <<>>
    /\ Set("dispatcher", [NoFind EXCEPT !.pc = "row", !.task = Head(events)])
    /\ events' = Tail(events)
    /\ UNCHANGED <<tables, handler, cmds, registered, net, nets, starts, history>>

\* Fault: the dispatcher ends at a task it does not find.
DispatchedOrEnds ==
    /\ finder["dispatcher"].pc = "loaded"
    /\ Finish("dispatcher")
    /\ UNCHANGED <<tables, handler, channels, registered, net, nets, starts, overlapped>>

\* It runs what it found (Execution.tla), or skips the event.
Dispatched ==
    /\ finder["dispatcher"].pc \in {"loaded", "none"}
    /\ Finish("dispatcher")
    /\ UNCHANGED <<tables, handler, channels, registered, net, nets, starts, overlapped>>

-----------------------------------------------------------------------------
(* dispatch_network_event.                                                 *)

event_matches(ev, tr) == ev.kind \in tr.events
name_matches(ev, tr) == tr.network_name = None \/ ev.ssid = tr.network_name

Hit(ev, rev) == /\ rev # None
                /\ \E tr \in defOf[rev].triggers :
                      tr.enabled /\ event_matches(ev, tr) /\ name_matches(ev, tr)

\* find_all_enabled begins: the ids of the enabled rows.
NetworkEvent(ev) ==
    /\ nets < MaxNet /\ net.pc = "idle"
    /\ nets' = nets + 1
    /\ net' = [pc |-> "finding", ev |-> ev, hits |-> {},
               todo |-> {t \in Tasks : Enabled(tasksTable[t])}]
    /\ UNCHANGED <<tables, handler, channels, registered, finder, starts, history>>

\* ... each id is looked up in turn ...
FindNext(t) ==
    /\ net.pc = "finding" /\ t \in net.todo
    /\ finder["network"].pc = "idle"
    /\ Set("network", [NoFind EXCEPT !.pc = "row", !.task = t])
    /\ net' = [net EXCEPT !.todo = @ \ {t}]
    /\ UNCHANGED <<tables, handler, channels, registered, nets, starts, history>>

Collect ==
    /\ finder["network"].pc \in {"loaded", "none"}
    /\ net' = [net EXCEPT !.hits =
                 IF finder["network"].pc = "loaded" /\ Hit(net.ev, finder["network"].triggers)
                 THEN @ \cup {finder["network"].task} ELSE @]
    /\ Finish("network")
    /\ UNCHANGED <<tables, handler, channels, registered, nets, starts, overlapped>>

\* ... and then one TriggerNow is sent for each task that matches.
SendHits ==
    /\ net.pc = "finding" /\ net.todo = {} /\ finder["network"].pc = "idle"
    /\ net' = [net EXCEPT !.pc = "sending"]
    /\ UNCHANGED <<tables, handler, channels, registered, finder, nets, starts, history>>

TriggerHit(t) ==
    /\ net.pc = "sending" /\ t \in net.hits
    /\ Len(cmds) < CmdCap
    /\ cmds' = Append(cmds, [op |-> "TriggerNow", task |-> t])
    /\ net' = [net EXCEPT !.hits = @ \ {t}]
    /\ UNCHANGED <<tables, handler, events, registered, finder, nets, starts, history>>

EventDone ==
    /\ net.pc = "sending" /\ net.hits = {}
    /\ net' = NoNet
    /\ UNCHANGED <<tables, handler, channels, registered, finder, nets, starts, history>>

-----------------------------------------------------------------------------
\* The agent dies, with everything in memory, and is started again:
\* init_shared registers the tasks of find_all_enabled.
Restart ==
    /\ starts < MaxStarts
    /\ starts' = starts + 1
    /\ handler' = [h \in Handlers |->
                     IF handler[h].pc = "committed" THEN [handler[h] EXCEPT !.pc = "lost"]
                     ELSE handler[h]]
    /\ cmds' = <<>> /\ events' = <<>>
    /\ registered' = [t \in Tasks |-> IF Enabled(tasksTable[t]) THEN tasksTable[t] ELSE None]
    /\ finder' = [f \in Finders |-> NoFind] /\ net' = NoNet
    /\ overlapped' = {} /\ dirty' = {}
    /\ UNCHANGED <<tables, nets>>

Find(f) == FindRow(f) \/ FindTriggers(f) \/ FindActions(f)
NetStep == Collect \/ SendHits \/ EventDone \/ \E t \in Tasks : FindNext(t) \/ TriggerHit(t)

Next ==
    \/ \E h \in Handlers, t \in Tasks, d \in TaskDefs : Save(h, t, d)
    \/ \E h \in Handlers, t \in Tasks : Delete(h, t)
    \/ \E h \in Handlers : Send(h)
    \/ Apply
    \/ \E t \in Tasks : Fire(t)
    \/ \E f \in Finders : Find(f) \/ FindFails(f)
    \/ Dispatch \/ Dispatched
    \/ \E ev \in NetEvents : NetworkEvent(ev)
    \/ NetStep
    \/ Restart

Spec == Init /\ [][Next]_vars
-----------------------------------------------------------------------------
(* Properties.                                                             *)

\* Type correctness of the tables, the channels and the states of their users.
TypeOK ==
    /\ tasksTable \in [Tasks -> Revision]
    /\ trigTable \in [Tasks -> Revision] /\ actTable \in [Tasks -> Revision]
    /\ defOf \in [Handlers -> TaskDefs \cup {None}]
    /\ handler \in [Handlers -> [pc : {"idle", "committed", "done", "failed", "lost"},
                                 op : {"save", "delete", None}, task : Tasks \cup {None}]]
    /\ cmds \in Seq(Commands) /\ Len(cmds) <= CmdCap
    /\ events \in Seq(Tasks) /\ Len(events) <= EventCap
    /\ registered \in [Tasks -> Revision]
    /\ finder \in [Finders -> [pc : {"idle", "row", "none", "triggers", "actions", "loaded"},
                               task : Tasks \cup {None}, row : Revision,
                               triggers : Revision, actions : Revision]]
    /\ net \in [pc : {"idle", "finding", "sending"}, ev : NetEvents \cup {None},
                todo : SUBSET Tasks, hits : SUBSET Tasks]
    /\ nets \in Nat /\ starts \in Nat
    /\ overlapped \subseteq Tasks /\ dirty \subseteq Finders

\* No request on t is between its commit and the scheduler.
Quiet(t) == /\ Committed(t) = {}
            /\ \A k \in 1 .. Len(cmds) : cmds[k].task = t => cmds[k].op = "TriggerNow"

\* What the scheduler should have: the saved revision, if it is enabled.
Scheduled(rev) == IF Enabled(rev) THEN rev ELSE None
Agrees(t) == Scheduled(registered[t]) = Scheduled(tasksTable[t])

\* Once the requests on a task have drained the scheduler works on the saved
\* revision, and on none if the task is deleted or disabled, whatever failed
\* and wherever the agent died, as long as no two requests on the task were
\* between commit and send at the same time.
SchedulerFollows == \A t \in Tasks : Quiet(t) /\ t \notin overlapped => Agrees(t)

\* A task is loaded as one saved revision, not as a mixture, unless a request
\* on it commits while the three queries of find_by_id run.
WholeUnlessSavedMeanwhile ==
    \A f \in Finders :
        finder[f].pc = "loaded" /\ f \notin dirty =>
            /\ finder[f].triggers = finder[f].row
            /\ finder[f].actions = finder[f].row

\* The three of them.
SyncInv == TypeOK /\ SchedulerFollows /\ WholeUnlessSavedMeanwhile

\* Fairness: the handlers, the scheduler and both dispatchers are polled; a
\* bounded channel serves its waiting senders in order, and the scheduler's
\* select! does not pass over a waiting command for ever.
Fairness ==
    /\ \A h \in Handlers : SF_vars(Send(h))
    /\ SF_vars(Apply)
    /\ \A f \in Finders : WF_vars(Find(f))
    /\ WF_vars(Dispatch) /\ WF_vars(Dispatched)
    /\ SF_vars(NetStep)

\* A request that has committed is answered (or dies with the agent), although
\* it waits for the scheduler, the scheduler for the dispatcher, and the
\* network dispatcher competes for the same channel.
CommittedIsAnswered ==
    \A h \in Handlers : (handler[h].pc = "committed") ~> (handler[h].pc \in {"done", "lost"})
=============================================================================
