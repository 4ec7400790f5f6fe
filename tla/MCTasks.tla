------------------------------- MODULE MCTasks -------------------------------
(***************************************************************************)
(* How tasks get to the scheduler: the requests on them (TaskSync, which   *)
(* this module extends) and the loading of them all at the start of the    *)
(* agent (AgentStartup).  Requests are served once the agent has started:  *)
(* a behaviour is either a start, with no request, or begins with a start  *)
(* that is complete.                                                       *)
(***************************************************************************)
EXTENDS TaskSync, TLC

CONSTANTS NumTasks, MaxStarted, BootCmdCap, BootEventCap

ASSUME BootAssumption == /\ NumTasks \in Nat /\ MaxStarted \in Nat
                         /\ {BootCmdCap, BootEventCap} \subseteq Nat \ {0}

VARIABLES booting,   \* whether the behaviour is a start
          started, toSend, bootCmds, added, sending, bootEvents, running, received

bootVars == <<started, toSend, bootCmds, added, sending, bootEvents, running, received>>
Boot == INSTANCE AgentStartup WITH CmdCap <- BootCmdCap, EventCap <- BootEventCap,
                                   cmds <- bootCmds, events <- bootEvents

\* A start without AgentStarted triggers, at its end.
Booted == /\ started = {} /\ toSend = <<>> /\ bootCmds = <<>> /\ added = Boot!StoredTasks
          /\ sending = <<>> /\ bootEvents = <<>> /\ running = TRUE /\ received = <<>>

TasksInit == /\ Init
             /\ \/ booting = TRUE /\ Boot!Init
                \/ booting = FALSE /\ Booted

TasksNext == \/ booting /\ Boot!Next /\ UNCHANGED <<booting, vars>>
             \/ ~booting /\ Next /\ UNCHANGED <<booting, bootVars>>

TasksSpec == TasksInit /\ [][TasksNext]_<<booting, vars, bootVars>> /\ Fairness /\ Boot!Fairness

\* The agent comes up, every task is registered, and every one with an enabled
\* AgentStarted trigger is dispatched, once (AgentStartup).
StartedTasksRun == Boot!StartedTasksRun

OnConnect == [enabled |-> TRUE, events |-> {"Connect"}, network_name |-> None]
AtHome == [enabled |-> TRUE, events |-> {"Connect", "Online"}, network_name |-> "home"]

Defs == {[enabled |-> TRUE, triggers |-> {OnConnect}],
         [enabled |-> FALSE, triggers |-> {AtHome}]}
Connect == {[kind |-> "Connect", ssid |-> "office"]}
===============================================================================
