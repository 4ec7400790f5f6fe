---------------------------- MODULE AgentStartup ----------------------------
(***************************************************************************)
(* AgentService::init_shared of apps/agent/src/service.rs, against the     *)
(* scheduler loop it has just spawned.  init loads the enabled tasks: for  *)
(* each it sends AddTask, and TriggerNow if the task has an enabled        *)
(* AgentStarted trigger, over the bounded command channel.  The scheduler  *)
(* turns each TriggerNow into an event on the bounded event channel, whose *)
(* only reader is the dispatcher, and that starts once init has returned.  *)
(*                                                                         *)
(* Occurrences that come due while init runs are left out; they would only *)
(* fill the event channel further.                                         *)
(***************************************************************************)
EXTENDS Naturals, Sequences, FiniteSets

CONSTANTS NumTasks,    \* enabled tasks in the database, loaded in order
          MaxStarted,  \* at most so many have an AgentStarted trigger
          CmdCap,      \* capacity of the command channel (100 in the code)
          EventCap     \* capacity of the event channel (100 in the code)

StoredTasks == 1 .. NumTasks

VARIABLES
    started,    \* the tasks with an enabled AgentStarted trigger
    toSend,     \* the commands init has still to send
    cmds,       \* the command channel
    added,      \* tasks the scheduler has registered
    sending,    \* the event the scheduler is sending: <<t>>, or <<>>
    events,     \* the event channel
    running,    \* init has returned: IPC is bound, the dispatcher runs
    received    \* the events the dispatcher has received, in order

vars == <<started, toSend, cmds, added, sending, events, running, received>>

\* The commands init sends for the first n tasks.
Load[n \in 0 .. NumTasks] ==
    IF n = 0 THEN <<>>
    ELSE Load[n - 1] \o <<[op |-> "AddTask", task_id |-> n]>>
                     \o IF n \in started THEN <<[op |-> "TriggerNow", task_id |-> n]>>
                        ELSE <<>>

Init ==
    /\ started \in {S \in SUBSET StoredTasks : Cardinality(S) <= MaxStarted}
    /\ toSend = Load[NumTasks]
    /\ cmds = <<>> /\ added = {} /\ sending = <<>>
    /\ events = <<>> /\ running = FALSE /\ received = <<>>

\* scheduler_tx.send(..).await, in a loop.
SendCommand ==
    /\ toSend # <<>> /\ Len(cmds) < CmdCap
    /\ cmds' = Append(cmds, Head(toSend))
    /\ toSend' = Tail(toSend)
    /\ UNCHANGED <<started, added, sending, events, running, received>>

\* Fault: the dispatcher starts on a new event channel.
StartServiceAnew ==
    /\ toSend = <<>> /\ ~running
    /\ running' = TRUE
    /\ events' = <<>>
    /\ UNCHANGED <<started, toSend, cmds, added, sending, received>>

\* init returns and run() spawns the dispatcher.
StartService ==
    /\ toSend = <<>> /\ ~running
    /\ running' = TRUE
    /\ UNCHANGED <<started, toSend, cmds, added, sending, events, received>>

\* The scheduler takes a command, if it is not blocked on the event channel.
AddTask ==
    /\ sending = <<>> /\ cmds # <<>> /\ Head(cmds).op = "AddTask"
    /\ added' = added \cup {Head(cmds).task_id}
    /\ cmds' = Tail(cmds)
    /\ UNCHANGED <<started, toSend, sending, events, running, received>>

TriggerNow ==
    /\ sending = <<>> /\ cmds # <<>> /\ Head(cmds).op = "TriggerNow"
    /\ sending' = <<Head(cmds).task_id>>
    /\ cmds' = Tail(cmds)
    /\ UNCHANGED <<started, toSend, added, events, running, received>>

SendEvent ==
    /\ sending # <<>> /\ Len(events) < EventCap
    /\ events' = events \o sending
    /\ sending' = <<>>
    /\ UNCHANGED <<started, toSend, cmds, added, running, received>>

ReceiveEvent ==
    /\ running /\ events # <<>>
    /\ received' = Append(received, Head(events))
    /\ events' = Tail(events)
    /\ UNCHANGED <<started, toSend, cmds, added, sending, running>>

Next == SendCommand \/ StartService \/ AddTask \/ TriggerNow \/ SendEvent \/ ReceiveEvent

\* Every task of the runtime that can take a step is polled.
Fairness == WF_vars(SendCommand) /\ WF_vars(StartService) /\ WF_vars(AddTask)
            /\ WF_vars(TriggerNow) /\ WF_vars(SendEvent) /\ WF_vars(ReceiveEvent)

FairSpec == Init /\ [][Next]_vars /\ Fairness
-----------------------------------------------------------------------------
(* Properties.                                                             *)

\* The agent comes up: loading never deadlocks on the two bounded channels.
StartupCompletes == <>running

\* Every task is registered, and every one with an enabled AgentStarted trigger is
\* dispatched, once: no event sent before the dispatcher runs is lost.
StartedTasksRun ==
    <>[](/\ {received[k] : k \in 1 .. Len(received)} = started
         /\ Len(received) = Cardinality(started)
         /\ added = StoredTasks)
=============================================================================
