------------------------------ MODULE TaskProofs ------------------------------
(***************************************************************************)
(* Theorems about TaskSync, for any sets of tasks, requests, definitions   *)
(* and network events and any capacities of the two channels:              *)
(*                                                                         *)
(*   TasksTyped   every step keeps the types and the capacities;           *)
(*   SyncCorrect  the scheduler follows the task table, and a task is      *)
(*                loaded as one saved revision (SyncInv);                  *)
(*   TasksFollow  it does so beside the start of the agent (MCTasks).      *)
(*                                                                         *)
(* The argument looks at the last command on a task that is still in the   *)
(* channel.  Unless two requests on the task have overlapped, either one   *)
(* request holds what the table says and will send it, or the last command *)
(* in the channel says it, or the scheduler has it already.                *)
(***************************************************************************)
EXTENDS MCTasks, TLAPS

-----------------------------------------------------------------------------
(* The inductive invariant.                                                *)

\* save and delete write the three tables in one transaction.
OneRevision == trigTable = tasksTable /\ actTable = tasksTable

\* What a request that has not begun would save is nowhere yet.
Fresh ==
    \A h \in Handlers : handler[h].pc = "idle" =>
        /\ \A t \in Tasks : tasksTable[t] # h /\ registered[t] # h
        /\ \A k \in 1 .. Len(cmds) : cmds[k].op = "AddTask" => cmds[k].rev # h

\* A request that is not idle is about a task.
Requested == \A h \in Handlers : handler[h].pc # "idle" => handler[h].task \in Tasks

\* A request between its commit and its send holds what the table says, alone.
Alone(t) ==
    /\ \A h, g \in Committed(t) : h = g
    /\ \A h \in Committed(t) :
          /\ handler[h].op \in {"save", "delete"}
          /\ handler[h].op = "save" => tasksTable[t] = h
          /\ handler[h].op = "delete" => tasksTable[t] = None

\* A command that changes what is registered for t.
Changes(c, t) == c.task = t /\ c.op # "TriggerNow"

\* The k-th command is the last that changes t.
LastChange(k, t) ==
    /\ k \in 1 .. Len(cmds) /\ Changes(cmds[k], t)
    /\ \A j \in 1 .. Len(cmds) : j > k => ~Changes(cmds[j], t)

\* The command registers the revision, or unregisters the task if it is None.
Tells(c, rev) ==
    \/ c.op = "AddTask" /\ c.rev = rev
    \/ c.op = "RemoveTask" /\ rev = None

\* With no request between commit and send the last command on its way says
\* what the table says; with none on its way the scheduler knows it.
Told(t) ==
    Committed(t) = {} =>
        /\ \A k \in 1 .. Len(cmds) : LastChange(k, t) => Tells(cmds[k], tasksTable[t])
        /\ (\A k \in 1 .. Len(cmds) : ~Changes(cmds[k], t)) => Agrees(t)

Following == \A t \in Tasks : t \notin overlapped => Alone(t) /\ Told(t)

\* A find_by_id that no commit has disturbed has read what the tables say.
ReadsOne ==
    \A f \in Finders :
        /\ finder[f].pc # "idle" => finder[f].task \in Tasks
        /\ f \notin dirty =>
              /\ finder[f].pc \in {"triggers", "actions", "loaded"}
                    => finder[f].row = tasksTable[finder[f].task]
              /\ finder[f].pc \in {"actions", "loaded"} => finder[f].triggers = finder[f].row
              /\ finder[f].pc = "loaded" => finder[f].actions = finder[f].row

SyncIndInv ==
    TypeOK /\ OneRevision /\ Fresh /\ Requested /\ Following /\ ReadsOne

-----------------------------------------------------------------------------
(* Channels.                                                               *)

\* What appending to a channel gives.
LEMMA Appended ==
    ASSUME NEW S, NEW s \in Seq(S), NEW e \in S
    PROVE  /\ Append(s, e) \in Seq(S) /\ Len(s) \in Nat /\ Len(Append(s, e)) = Len(s) + 1
           /\ \A k \in 1 .. Len(s) : Append(s, e)[k] = s[k]
           /\ Append(s, e)[Len(s) + 1] = e
<1>1. Append(s, e) \in Seq(S) /\ Len(s) \in Nat /\ Len(Append(s, e)) = Len(s) + 1
  OBVIOUS
<1>2. \A k \in 1 .. Len(s) : Append(s, e)[k] = s[k]
  OBVIOUS
<1>3. Append(s, e)[Len(s) + 1] = e
  OBVIOUS
<1> QED
  BY <1>1, <1>2, <1>3

\* What receiving from a channel gives.
LEMMA Received ==
    ASSUME NEW S, NEW s \in Seq(S), s # <<>>
    PROVE  /\ Head(s) \in S /\ Head(s) = s[1] /\ Tail(s) \in Seq(S)
           /\ Len(s) \in Nat /\ Len(s) > 0 /\ Len(Tail(s)) = Len(s) - 1
           /\ \A k \in 1 .. Len(s) - 1 : Tail(s)[k] = s[k + 1]
<1>1. Head(s) \in S /\ Head(s) = s[1] /\ Tail(s) \in Seq(S)
  OBVIOUS
<1>2. Len(s) \in Nat /\ Len(s) > 0 /\ Len(Tail(s)) = Len(s) - 1
  OBVIOUS
<1>3. \A k \in 1 .. Len(s) - 1 : Tail(s)[k] = s[k + 1]
  OBVIOUS
<1> QED
  BY <1>1, <1>2, <1>3

-----------------------------------------------------------------------------
(* Type correctness.                                                       *)

HandlerState == [pc : {"idle", "committed", "done", "failed", "lost"},
                 op : {"save", "delete", None}, task : Tasks \cup {None}]
FinderState == [pc : {"idle", "row", "none", "triggers", "actions", "loaded"},
                task : Tasks \cup {None}, row : Revision,
                triggers : Revision, actions : Revision]
NetState == [pc : {"idle", "finding", "sending"}, ev : NetEvents \cup {None},
             todo : SUBSET Tasks, hits : SUBSET Tasks]

\* The three parts of the type invariant.
TableTypes ==
    /\ tasksTable \in [Tasks -> Revision]
    /\ trigTable \in [Tasks -> Revision] /\ actTable \in [Tasks -> Revision]
    /\ defOf \in [Handlers -> TaskDefs \cup {None}]
    /\ handler \in [Handlers -> HandlerState]
    /\ overlapped \subseteq Tasks /\ dirty \subseteq Finders
ChannelTypes ==
    /\ cmds \in Seq(Commands) /\ Len(cmds) <= CmdCap
    /\ events \in Seq(Tasks) /\ Len(events) <= EventCap
    /\ registered \in [Tasks -> Revision]
ReaderTypes ==
    /\ finder \in [Finders -> FinderState]
    /\ net \in NetState /\ nets \in Nat /\ starts \in Nat

\* Together they are the type invariant.
LEMMA TypeParts == TypeOK <=> TableTypes /\ ChannelTypes /\ ReaderTypes
BY DEF TypeOK, TableTypes, ChannelTypes, ReaderTypes, HandlerState, FinderState, NetState

\* A step is one of the actions.
LEMMA StepCases ==
    ASSUME [Next]_vars
    PROVE  \/ \E h \in Handlers, t \in Tasks : (\E d \in TaskDefs : Save(h, t, d)) \/ Delete(h, t)
           \/ \E h \in Handlers : Send(h)
           \/ Apply \/ \E t \in Tasks : Fire(t)
           \/ \E f \in Finders : FindRow(f) \/ FindTriggers(f) \/ FindActions(f) \/ FindFails(f)
           \/ Dispatch \/ Dispatched \/ \E ev \in NetEvents : NetworkEvent(ev)
           \/ Collect \/ SendHits \/ EventDone \/ \E t \in Tasks : FindNext(t) \/ TriggerHit(t)
           \/ Restart \/ UNCHANGED vars
BY DEF Next, Find, NetStep

\* Every step keeps the types of the tables and of the requests.
LEMMA TableTypesStep ==
    ASSUME TableTypes, [Next]_vars
    PROVE  TableTypes'
<1> USE DEF tables, channels, history, TableTypes, Revision
<1>1. ASSUME NEW h \in Handlers, NEW t \in Tasks, NEW d \in TaskDefs, Save(h, t, d)
      PROVE  TableTypes'
  <2>1. /\ [pc |-> "failed", op |-> "save", task |-> t] \in HandlerState
        /\ [pc |-> "committed", op |-> "save", task |-> t] \in HandlerState
    BY DEF HandlerState
  <2> QED
    BY <1>1, <2>1 DEF Save, Refuse, Commits
<1>2. ASSUME NEW h \in Handlers, NEW t \in Tasks, Delete(h, t)
      PROVE  TableTypes'
  <2>1. /\ [pc |-> "failed", op |-> "delete", task |-> t] \in HandlerState
        /\ [pc |-> "committed", op |-> "delete", task |-> t] \in HandlerState
    BY DEF HandlerState
  <2> QED
    BY <1>2, <2>1 DEF Delete, Refuse, Commits
<1>3. ASSUME NEW h \in Handlers, Send(h)
      PROVE  TableTypes'
  <2>1. handler' \in [Handlers -> HandlerState]
    BY <1>3 DEF Send, HandlerState
  <2> QED
    BY <1>3, <2>1 DEF Send
<1>4. CASE Restart
  <2>1. \A x \in HandlerState : [x EXCEPT !.pc = "lost"] \in HandlerState
    BY DEF HandlerState
  <2>2. handler' \in [Handlers -> HandlerState]
    BY <1>4, <2>1 DEF Restart
  <2> QED
    BY <1>4, <2>2 DEF Restart
<1>5. CASE UNCHANGED <<tables, handler, overlapped>> /\ dirty' \subseteq dirty
  BY <1>5
<1>6. \/ UNCHANGED <<tables, handler, overlapped>> /\ dirty' \subseteq dirty
      \/ \E h \in Handlers, t \in Tasks : (\E d \in TaskDefs : Save(h, t, d)) \/ Delete(h, t)
      \/ \E h \in Handlers : Send(h)
      \/ Restart
  BY StepCases DEF Apply, Fire, FindRow, FindTriggers, FindActions, FindFails, Dispatch,
     Dispatched, NetworkEvent, Collect, SendHits, EventDone, FindNext, TriggerHit, Finish, vars
<1> QED
  BY <1>1, <1>2, <1>3, <1>4, <1>5, <1>6

\* The command of a request that has committed.
LEMMA CommandType ==
    ASSUME TableTypes, NEW h \in Handlers, handler[h].task \in Tasks
    PROVE  /\ CommandOf(h) \in Commands /\ CommandOf(h).task = handler[h].task
           /\ handler[h].op = "save" => CommandOf(h).op = "AddTask" /\ CommandOf(h).rev = h
           /\ handler[h].op # "save" => CommandOf(h).op = "RemoveTask"
BY DEF CommandOf, Commands

\* Every request that begins is about a task, and stays so.
LEMMA RequestedStep ==
    ASSUME TableTypes, Requested, [Next]_vars
    PROVE  Requested'
<1> USE DEF tables, channels, history, TableTypes, HandlerState
<1>1. ASSUME NEW h \in Handlers, NEW t \in Tasks,
             (\E d \in TaskDefs : Save(h, t, d)) \/ Delete(h, t)
      PROVE  Requested'
  <2>1. PICK x \in HandlerState : x.task = t /\ handler' = [handler EXCEPT ![h] = x]
    BY <1>1 DEF Save, Delete, Refuse
  <2> QED
    BY <2>1 DEF Requested
<1>2. ASSUME NEW h \in Handlers, Send(h)
      PROVE  Requested'
  BY <1>2 DEF Send, Requested
<1>3. CASE Restart
  <2>1. \A h \in Handlers : /\ handler'[h].task = handler[h].task
                            /\ handler'[h].pc # "idle" => handler[h].pc # "idle"
    BY <1>3 DEF Restart
  <2> QED
    BY <2>1 DEF Requested
<1>4. CASE UNCHANGED handler
  BY <1>4 DEF Requested
<1>5. \/ UNCHANGED handler
      \/ \E h \in Handlers, t \in Tasks : (\E d \in TaskDefs : Save(h, t, d)) \/ Delete(h, t)
      \/ \E h \in Handlers : Send(h)
      \/ Restart
  BY StepCases DEF Apply, Fire, FindRow, FindTriggers, FindActions, FindFails, Dispatch,
     Dispatched, NetworkEvent, Collect, SendHits, EventDone, FindNext, TriggerHit, vars
<1> QED
  BY <1>1, <1>2, <1>3, <1>4, <1>5

\* A command enters the channel.
LEMMA CommandAppended ==
    ASSUME ChannelTypes, NEW c \in Commands, Len(cmds) < CmdCap, cmds' = Append(cmds, c)
    PROVE  cmds' \in Seq(Commands) /\ Len(cmds') <= CmdCap
BY Appended, CapAssumption DEF ChannelTypes

\* An event enters the channel.
LEMMA EventAppended ==
    ASSUME ChannelTypes, NEW t \in Tasks, Len(events) < EventCap, events' = Append(events, t)
    PROVE  events' \in Seq(Tasks) /\ Len(events') <= EventCap
BY Appended, CapAssumption DEF ChannelTypes

\* What a command is, by its operation.
LEMMA CommandFields ==
    ASSUME NEW c \in Commands
    PROVE  /\ c.task \in Tasks /\ c.op \in {"AddTask", "RemoveTask", "TriggerNow"}
           /\ c.op = "AddTask" => c.rev \in Handlers
BY DEF Commands

\* Every step keeps the types of the channels and of what the scheduler knows.
LEMMA ChannelTypesStep ==
    ASSUME TableTypes, Requested, ChannelTypes, ReaderTypes, [Next]_vars
    PROVE  ChannelTypes'
<1> USE DEF tables, channels, history
<1>1. ASSUME NEW h \in Handlers, Send(h)
      PROVE  ChannelTypes'
  <2>1. handler[h].task \in Tasks /\ Len(cmds) < CmdCap /\ cmds' = Append(cmds, CommandOf(h))
    BY <1>1 DEF Send, Requested
  <2>2. CommandOf(h) \in Commands
    BY <2>1, CommandType
  <2>3. cmds' \in Seq(Commands) /\ Len(cmds') <= CmdCap
    BY <2>1, <2>2, CommandAppended
  <2> QED
    BY <1>1, <2>3 DEF Send, ChannelTypes
<1>2. CASE Apply
  <2> DEFINE c == Head(cmds)
  <2>1. cmds \in Seq(Commands) /\ cmds # <<>> /\ Len(cmds) <= CmdCap /\ CmdCap \in Nat /\ cmds' = Tail(cmds)
    BY <1>2, CapAssumption DEF Apply, ChannelTypes
  <2>2. c \in Commands /\ cmds' \in Seq(Commands) /\ Len(cmds') <= CmdCap
    BY <2>1, Received
  <2>3. /\ c.task \in Tasks
        /\ \/ c.op = "AddTask" /\ registered' = [registered EXCEPT ![c.task] = c.rev] /\ events' = events
           \/ registered' = [registered EXCEPT ![c.task] = None] /\ events' = events
           \/ Len(events) < EventCap /\ events' = Append(events, c.task) /\ registered' = registered
    BY <1>2, <2>2, CommandFields DEF Apply
  <2>4. c.op = "AddTask" => c.rev \in Handlers
    BY <2>2, CommandFields
  <2> HIDE DEF c
  <2>5. registered' \in [Tasks -> Revision]
    BY <2>3, <2>4 DEF ChannelTypes, Revision
  <2>6. events' \in Seq(Tasks) /\ Len(events') <= EventCap
    BY <2>3, EventAppended DEF ChannelTypes
  <2> QED
    BY <2>2, <2>5, <2>6 DEF ChannelTypes
<1>3. ASSUME NEW t \in Tasks, Fire(t)
      PROVE  ChannelTypes'
  <2>1. events' \in Seq(Tasks) /\ Len(events') <= EventCap
    BY <1>3, EventAppended DEF Fire
  <2> QED
    BY <1>3, <2>1 DEF Fire, ChannelTypes
<1>4. CASE Dispatch
  <2>1. events \in Seq(Tasks) /\ events # <<>> /\ Len(events) <= EventCap /\ EventCap \in Nat
        /\ events' = Tail(events)
    BY <1>4, CapAssumption DEF Dispatch, ChannelTypes
  <2>2. events' \in Seq(Tasks) /\ Len(events') <= EventCap
    BY <2>1, Received
  <2> QED
    BY <1>4, <2>2 DEF Dispatch, ChannelTypes
<1>5. ASSUME NEW t \in Tasks, TriggerHit(t)
      PROVE  ChannelTypes'
  <2>1. [op |-> "TriggerNow", task |-> t] \in Commands
    BY DEF Commands
  <2>2. Len(cmds) < CmdCap /\ cmds' = Append(cmds, [op |-> "TriggerNow", task |-> t])
    BY <1>5 DEF TriggerHit
  <2>3. cmds' \in Seq(Commands) /\ Len(cmds') <= CmdCap
    BY <2>1, <2>2, CommandAppended
  <2> QED
    BY <1>5, <2>3 DEF TriggerHit, ChannelTypes
<1>6. CASE Restart
  <2>1. /\ cmds' \in Seq(Commands) /\ Len(cmds') <= CmdCap
        /\ events' \in Seq(Tasks) /\ Len(events') <= EventCap
    <3>1. cmds' = <<>> /\ events' = <<>>
      BY <1>6 DEF Restart
    <3>2. /\ <<>> \in Seq(Commands) /\ <<>> \in Seq(Tasks) /\ Len(<<>>) = 0
          /\ CmdCap \in Nat /\ EventCap \in Nat
      BY CapAssumption
    <3> QED
      BY <3>1, <3>2
  <2>2. registered' \in [Tasks -> Revision]
    BY <1>6 DEF Restart, TableTypes, Revision
  <2> QED
    BY <2>1, <2>2 DEF ChannelTypes
<1>7. CASE UNCHANGED <<cmds, events, registered>>
  BY <1>7 DEF ChannelTypes
<1>8. \/ UNCHANGED <<cmds, events, registered>>
      \/ \E h \in Handlers : Send(h)
      \/ Apply \/ Dispatch \/ Restart \/ \E t \in Tasks : Fire(t) \/ TriggerHit(t)
  BY StepCases DEF Save, Delete, FindRow, FindTriggers, FindActions, FindFails,
     Dispatched, NetworkEvent, Collect, SendHits, EventDone, FindNext, vars
<1> QED
  BY <1>1, <1>2, <1>3, <1>4, <1>5, <1>6, <1>7, <1>8

\* What a finder does: it is set to another state, or nothing happens to it.
LEMMA NoFindType == NoFind \in FinderState /\ NoNet \in NetState
BY DEF NoFind, NoNet, FinderState, NetState, Revision

\* Every step keeps the types of the finders and of the network dispatcher.
LEMMA ReaderTypesStep ==
    ASSUME TableTypes, ChannelTypes, ReaderTypes, ReadsOne, [Next]_vars
    PROVE  ReaderTypes'
<1> USE DEF tables, channels, history
<1>0. /\ finder \in [Finders -> FinderState] /\ net \in NetState
      /\ "dispatcher" \in Finders /\ "network" \in Finders
  BY DEF ReaderTypes, Finders
<1>1. ASSUME NEW f \in Finders, NEW x \in FinderState, Set(f, x)
      PROVE  finder' \in [Finders -> FinderState]
  BY <1>0, <1>1 DEF Set
<1>2. ASSUME NEW f \in Finders, FindRow(f) \/ FindTriggers(f) \/ FindActions(f)
      PROVE  ReaderTypes'
  <2>1. finder[f].task \in Tasks /\ finder[f] \in FinderState
    BY <1>0, <1>2 DEF ReadsOne, FindRow, FindTriggers, FindActions
  <2>2. \A rev \in Revision, pc \in {"none", "triggers", "actions", "loaded"} :
           /\ [finder[f] EXCEPT !.row = rev, !.pc = pc] \in FinderState
           /\ [finder[f] EXCEPT !.triggers = rev, !.pc = pc] \in FinderState
           /\ [finder[f] EXCEPT !.actions = rev, !.pc = pc] \in FinderState
    BY <2>1 DEF FinderState
  <2>3. /\ tasksTable[finder[f].task] \in Revision /\ trigTable[finder[f].task] \in Revision
        /\ actTable[finder[f].task] \in Revision
    BY <2>1 DEF TableTypes
  <2>4. finder' \in [Finders -> FinderState]
    BY <1>1, <1>2, <2>2, <2>3 DEF FindRow, FindTriggers, FindActions
  <2> QED
    BY <1>2, <2>4 DEF FindRow, FindTriggers, FindActions, ReaderTypes
<1>3. ASSUME NEW f \in Finders, NEW t \in Tasks, Set(f, [NoFind EXCEPT !.pc = "row", !.task = t])
      PROVE  finder' \in [Finders -> FinderState]
  <2>1. [NoFind EXCEPT !.pc = "row", !.task = t] \in FinderState
    BY DEF NoFind, FinderState, Revision
  <2> QED
    BY <1>1, <1>3, <2>1
<1>4. CASE Dispatch
  <2>1. Head(events) \in Tasks
    BY <1>4, Received DEF Dispatch, ChannelTypes
  <2> QED
    BY <1>0, <1>3, <1>4, <2>1 DEF Dispatch, ReaderTypes
<1>5. ASSUME NEW t \in Tasks, FindNext(t)
      PROVE  ReaderTypes'
  <2>1. [net EXCEPT !.todo = @ \ {t}] \in NetState
    BY <1>0 DEF NetState
  <2> QED
    BY <1>0, <1>3, <1>5, <2>1 DEF FindNext, ReaderTypes
<1>6. CASE Dispatched \/ \E f \in Finders : FindFails(f)
  BY <1>0, <1>1, <1>6, NoFindType DEF Dispatched, FindFails, Finish, ReaderTypes
<1>7. CASE Collect
  <2>1. /\ finder["network"].task \in Tasks
    BY <1>0, <1>7 DEF Collect, ReadsOne
  <2>2. \A hits \in SUBSET Tasks : [net EXCEPT !.hits = hits] \in NetState
    BY <1>0 DEF NetState
  <2>3. net.hits \in SUBSET Tasks /\ net.hits \cup {finder["network"].task} \in SUBSET Tasks
    BY <1>0, <2>1 DEF NetState
  <2>4. net' = [net EXCEPT !.hits = net.hits] \/
        net' = [net EXCEPT !.hits = net.hits \cup {finder["network"].task}]
    BY <1>7 DEF Collect
  <2>5. net' \in NetState
    BY <2>2, <2>3, <2>4
  <2> QED
    BY <1>0, <1>1, <1>7, <2>5, NoFindType DEF Collect, Finish, ReaderTypes
<1>8. ASSUME NEW ev \in NetEvents, NetworkEvent(ev)
      PROVE  ReaderTypes'
  <2>1. [pc |-> "finding", ev |-> ev, hits |-> {},
         todo |-> {t \in Tasks : Enabled(tasksTable[t])}] \in NetState
    BY DEF NetState
  <2> QED
    BY <1>8, <2>1 DEF NetworkEvent, ReaderTypes
<1>9. CASE SendHits \/ EventDone
  <2>1. [net EXCEPT !.pc = "sending"] \in NetState
    BY <1>0 DEF NetState
  <2> QED
    BY <1>9, <2>1, NoFindType DEF SendHits, EventDone, ReaderTypes
<1>10. ASSUME NEW t \in Tasks, TriggerHit(t)
       PROVE  ReaderTypes'
  <2>1. [net EXCEPT !.hits = @ \ {t}] \in NetState
    BY <1>0 DEF NetState
  <2> QED
    BY <1>10, <2>1 DEF TriggerHit, ReaderTypes
<1>11. CASE Restart
  BY <1>11, NoFindType DEF Restart, ReaderTypes
<1>12. CASE UNCHANGED <<finder, net, nets, starts>>
  BY <1>12 DEF ReaderTypes
<1>13. \/ UNCHANGED <<finder, net, nets, starts>>
       \/ \E f \in Finders : FindRow(f) \/ FindTriggers(f) \/ FindActions(f) \/ FindFails(f)
       \/ Dispatch \/ Dispatched \/ \E ev \in NetEvents : NetworkEvent(ev)
       \/ Collect \/ SendHits \/ EventDone \/ \E t \in Tasks : FindNext(t) \/ TriggerHit(t)
       \/ Restart
  BY StepCases DEF Save, Delete, Send, Apply, Fire, vars
<1> QED
  BY <1>2, <1>4, <1>5, <1>6, <1>7, <1>8, <1>9, <1>10, <1>11, <1>12, <1>13

-----------------------------------------------------------------------------
(* The tables hold one revision, and a fresh request is nowhere.           *)

\* No step separates the three tables.
LEMMA OneRevisionStep ==
    ASSUME OneRevision, [Next]_vars
    PROVE  OneRevision'
<1>1. \/ \E t \in Tasks, rev \in Handlers \cup {None} :
            /\ tasksTable' = [tasksTable EXCEPT ![t] = rev]
            /\ trigTable' = [trigTable EXCEPT ![t] = rev]
            /\ actTable' = [actTable EXCEPT ![t] = rev]
      \/ UNCHANGED <<tasksTable, trigTable, actTable>>
  BY StepCases DEF Save, Delete, Refuse, Send, Apply, Fire, FindRow, FindTriggers, FindActions,
     FindFails, Dispatch, Dispatched, NetworkEvent, Collect, SendHits, EventDone, FindNext,
     TriggerHit, Restart, tables, vars
<1> QED
  BY <1>1 DEF OneRevision

\* No request begins twice, and a request writes its own revision as it begins.
LEMMA FreshStep ==
    ASSUME TableTypes, ChannelTypes, Requested, Fresh, [Next]_vars
    PROVE  Fresh'
<1> USE DEF tables, channels, history
<1> DEFINE Unsent(h) == \A k \in 1 .. Len(cmds) : cmds[k].op = "AddTask" => cmds[k].rev # h
           Unknown(h) == \A t \in Tasks : tasksTable[t] # h /\ registered[t] # h
<1>0. \A h \in Handlers : handler[h].pc = "idle" => Unknown(h) /\ Unsent(h)
  BY DEF Fresh
<1>1. SUFFICES ASSUME NEW g \in Handlers, handler'[g].pc = "idle"
               PROVE  Unknown(g)' /\ Unsent(g)'
  BY DEF Fresh
<1>2. ASSUME NEW h \in Handlers, NEW t \in Tasks,
             (\E d \in TaskDefs : Save(h, t, d)) \/ Delete(h, t)
      PROVE  Unknown(g)' /\ Unsent(g)'
  <2>1. PICK x \in HandlerState : x.pc # "idle" /\ handler' = [handler EXCEPT ![h] = x]
    BY <1>2 DEF Save, Delete, Refuse, HandlerState
  <2>2. g # h /\ handler[g].pc = "idle"
    BY <1>1, <2>1 DEF TableTypes
  <2>3. /\ cmds' = cmds /\ registered' = registered
        /\ \/ tasksTable' = tasksTable
           \/ tasksTable' = [tasksTable EXCEPT ![t] = h]
           \/ tasksTable' = [tasksTable EXCEPT ![t] = None]
    BY <1>2 DEF Save, Delete, Refuse
  <2>4. Unknown(g)'
    BY <1>0, <2>2, <2>3, NoneAssumption DEF TableTypes
  <2> QED
    BY <1>0, <2>2, <2>3, <2>4
<1>3. ASSUME NEW h \in Handlers, Send(h)
      PROVE  Unknown(g)' /\ Unsent(g)'
  <2>1. /\ handler[h].pc = "committed" /\ handler[h].task \in Tasks /\ g # h
        /\ handler[g].pc = "idle"
    BY <1>1, <1>3 DEF Send, Requested, TableTypes, HandlerState
  <2>2. /\ cmds' = Append(cmds, CommandOf(h)) /\ UNCHANGED <<tasksTable, registered>>
        /\ CommandOf(h) \in Commands /\ (CommandOf(h).op = "AddTask" => CommandOf(h).rev = h)
        /\ cmds \in Seq(Commands)
    BY <1>3, <2>1, CommandType DEF Send, ChannelTypes
  <2>3. \A k \in 1 .. Len(cmds') : \/ k \in 1 .. Len(cmds) /\ cmds'[k] = cmds[k]
                                   \/ cmds'[k] = CommandOf(h)
    BY <2>2, Appended
  <2> QED
    BY <1>0, <2>1, <2>2, <2>3
<1>4. CASE Apply
  <2>1. /\ cmds \in Seq(Commands) /\ cmds # <<>> /\ cmds' = Tail(cmds) /\ handler' = handler
        /\ UNCHANGED tasksTable
    BY <1>4 DEF Apply, ChannelTypes
  <2>2. Unsent(g)'
    <3>1. \A k \in 1 .. Len(cmds') : k + 1 \in 1 .. Len(cmds) /\ cmds'[k] = cmds[k + 1]
      BY <2>1, Received
    <3> QED
      BY <1>0, <1>1, <2>1, <3>1
  <2>3. Head(cmds) \in Commands /\ Head(cmds) = cmds[1] /\ 1 \in 1 .. Len(cmds)
    BY <2>1, Received
  <2>4. \E rev : \/ registered' = registered
                 \/ registered' = [registered EXCEPT ![Head(cmds).task] = rev] /\ rev # g
    <3>1. Head(cmds).op = "AddTask" => Head(cmds).rev # g
      BY <1>0, <1>1, <2>1, <2>3
    <3> QED
      BY <1>4, <3>1, NoneAssumption DEF Apply
  <2> QED
    BY <1>0, <1>1, <2>1, <2>2, <2>4 DEF ChannelTypes
<1>5. ASSUME NEW t \in Tasks, TriggerHit(t)
      PROVE  Unknown(g)' /\ Unsent(g)'
  <2> DEFINE c == [op |-> "TriggerNow", task |-> t]
  <2>1. c \in Commands /\ c.op # "AddTask"
    BY DEF Commands
  <2>2. cmds' = Append(cmds, c) /\ UNCHANGED <<handler, tasksTable, registered>>
    BY <1>5 DEF TriggerHit
  <2> HIDE DEF c
  <2>3. \A k \in 1 .. Len(cmds') : (k \in 1 .. Len(cmds) /\ cmds'[k] = cmds[k]) \/ cmds'[k] = c
    BY <2>1, <2>2, Appended DEF ChannelTypes
  <2> QED
    BY <1>0, <1>1, <2>1, <2>2, <2>3
<1>6. CASE Restart
  <2>1. /\ handler[g].pc = "idle" /\ UNCHANGED tasksTable /\ cmds' = <<>>
        /\ \A t \in Tasks : registered'[t] \in {tasksTable[t], None}
    BY <1>1, <1>6 DEF Restart, TableTypes
  <2>2. Unknown(g)'
    BY <1>0, <2>1, NoneAssumption
  <2>3. Len(cmds') = 0
    BY <2>1
  <2>4. Unsent(g)'
    BY <2>3
  <2> QED
    BY <2>2, <2>4
<1>7. CASE UNCHANGED <<handler, tasksTable, registered, cmds>>
  BY <1>0, <1>1, <1>7
<1>8. \/ UNCHANGED <<handler, tasksTable, registered, cmds>>
      \/ \E h \in Handlers, t \in Tasks : (\E d \in TaskDefs : Save(h, t, d)) \/ Delete(h, t)
      \/ \E h \in Handlers : Send(h)
      \/ Apply \/ Restart \/ \E t \in Tasks : TriggerHit(t)
  BY StepCases DEF Fire, FindRow, FindTriggers, FindActions, FindFails, Dispatch,
     Dispatched, NetworkEvent, Collect, SendHits, EventDone, FindNext, vars
<1> QED
  BY <1>2, <1>3, <1>4, <1>5, <1>6, <1>7, <1>8

-----------------------------------------------------------------------------
(* The scheduler follows the table.                                        *)

\* What the channel says of t, and what the scheduler has when it is silent.
Says(t) == \A k \in 1 .. Len(cmds) : LastChange(k, t) => Tells(cmds[k], tasksTable[t])
Silent(t) == \A k \in 1 .. Len(cmds) : ~Changes(cmds[k], t)

\* The terms in which Told is defined.
LEMMA ToldParts ==
    ASSUME NEW t \in Tasks
    PROVE  Told(t) <=> (Committed(t) = {} => Says(t) /\ (Silent(t) => Agrees(t)))
BY DEF Told, Says, Silent

\* A command that does not change t leaves what the channel says of t alone.
LEMMA AppendSays ==
    ASSUME NEW t \in Tasks, ChannelTypes, NEW c \in Commands, cmds' = Append(cmds, c),
           ~Changes(c, t), tasksTable'[t] = tasksTable[t]
    PROVE  (Says(t) => Says(t)') /\ (Silent(t)' => Silent(t))
<1>1. /\ Len(cmds) \in Nat /\ Len(cmds') = Len(cmds) + 1
      /\ \A k \in 1 .. Len(cmds) : cmds'[k] = cmds[k]
      /\ cmds'[Len(cmds) + 1] = c
  BY Appended DEF ChannelTypes
<1>2. ASSUME NEW k \in 1 .. Len(cmds'), LastChange(k, t)'
      PROVE  k \in 1 .. Len(cmds) /\ LastChange(k, t) /\ cmds'[k] = cmds[k]
  <2>1. k \in 1 .. Len(cmds) /\ cmds'[k] = cmds[k]
    BY <1>1, <1>2 DEF LastChange, Changes
  <2> QED
    BY <1>1, <1>2, <2>1 DEF LastChange, Changes
<1>3. Says(t) => Says(t)'
  BY <1>2 DEF Says, Tells
<1>4. Silent(t)' => Silent(t)
  BY <1>1 DEF Silent, Changes
<1> QED
  BY <1>3, <1>4

\* The channel says of t what the last command appended tells.
LEMMA AppendTells ==
    ASSUME NEW t \in Tasks, ChannelTypes, NEW c \in Commands, cmds' = Append(cmds, c),
           Changes(c, t), Tells(c, tasksTable[t]), tasksTable'[t] = tasksTable[t]
    PROVE  Says(t)' /\ ~Silent(t)'
<1>1. /\ Len(cmds) \in Nat /\ Len(cmds') = Len(cmds) + 1
      /\ cmds'[Len(cmds) + 1] = c
  BY Appended DEF ChannelTypes
<1>2. ASSUME NEW k \in 1 .. Len(cmds'), LastChange(k, t)'
      PROVE  k = Len(cmds) + 1
  BY <1>1, <1>2 DEF LastChange, Changes
<1>3. Says(t)'
  BY <1>1, <1>2 DEF Says, Tells
<1>4. ~Silent(t)'
  BY <1>1 DEF Silent, Changes
<1> QED
  BY <1>3, <1>4

\* The scheduler takes the first command: the rest says of t what it said.
LEMMA TailSays ==
    ASSUME NEW t \in Tasks, ChannelTypes, cmds # <<>>, cmds' = Tail(cmds),
           tasksTable'[t] = tasksTable[t], Says(t)
    PROVE  /\ Says(t)'
           /\ Silent(t)' => \/ Silent(t)
                            \/ /\ Changes(Head(cmds), t)
                               /\ Tells(Head(cmds), tasksTable[t])
<1>1. /\ Len(cmds) \in Nat /\ Len(cmds) > 0 /\ Len(cmds') = Len(cmds) - 1
      /\ \A k \in 1 .. Len(cmds) - 1 : cmds'[k] = cmds[k + 1]
      /\ Head(cmds) = cmds[1]
  BY Received DEF ChannelTypes
<1>2. ASSUME NEW k \in 1 .. Len(cmds'), LastChange(k, t)'
      PROVE  k + 1 \in 1 .. Len(cmds) /\ LastChange(k + 1, t) /\ cmds'[k] = cmds[k + 1]
  <2>1. k + 1 \in 1 .. Len(cmds) /\ cmds'[k] = cmds[k + 1]
    BY <1>1, <1>2
  <2>2. ASSUME NEW j \in 1 .. Len(cmds), j > k + 1
        PROVE  ~Changes(cmds[j], t)
    <3>1. j - 1 \in 1 .. Len(cmds') /\ j - 1 > k /\ cmds'[j - 1] = cmds[j]
      BY <1>1, <2>2
    <3> QED
      BY <1>2, <3>1 DEF LastChange, Changes
  <2>3. Changes(cmds[k + 1], t)
    BY <1>2, <2>1 DEF LastChange, Changes
  <2> QED
    BY <2>1, <2>2, <2>3 DEF LastChange
<1>3. Says(t)'
  BY <1>2 DEF Says, Tells
<1>4. ASSUME Silent(t)', ~Silent(t)
      PROVE  Changes(Head(cmds), t) /\ Tells(Head(cmds), tasksTable[t])
  <2>1. \A j \in 1 .. Len(cmds) : j > 1 => ~Changes(cmds[j], t)
    <3>1. ASSUME NEW j \in 1 .. Len(cmds), j > 1
          PROVE  j - 1 \in 1 .. Len(cmds') /\ cmds'[j - 1] = cmds[j]
      BY <1>1, <3>1
    <3> QED
      BY <1>4, <3>1 DEF Silent, Changes
  <2>2. 1 \in 1 .. Len(cmds) /\ Changes(cmds[1], t)
    BY <1>1, <1>4, <2>1 DEF Silent
  <2>3. LastChange(1, t)
    BY <2>1, <2>2 DEF LastChange
  <2> QED
    BY <1>1, <2>2, <2>3 DEF Says
<1> QED
  BY <1>3, <1>4

\* What the argument needs of one task: with the histories left out.
Follows(t) == Alone(t) /\ Told(t)

\* A task that no part of the step is about is followed as before.
LEMMA FollowsUnchanged ==
    ASSUME NEW t \in Tasks, Follows(t), Committed(t)' = Committed(t),
           \A h \in Committed(t) : handler'[h].op = handler[h].op,
           tasksTable'[t] = tasksTable[t],
           Says(t) => Says(t)', Silent(t)' => Silent(t), Agrees(t) => Agrees(t)'
    PROVE  Follows(t)'
<1>1. Alone(t)'
  BY DEF Follows, Alone
<1>2. (Committed(t) = {} => Says(t) /\ (Silent(t) => Agrees(t)))'
  BY ToldParts DEF Follows
<1>3. Told(t)'
  BY <1>2 DEF Told, Says, Silent
<1> QED
  BY <1>1, <1>3 DEF Follows

\* A command received for another task, or that starts a run, changes nothing
\* about t; a commit on another task does neither.
LEMMA AgreesUnchanged ==
    ASSUME NEW t \in Tasks, registered'[t] = registered[t], tasksTable'[t] = tasksTable[t],
           \A rev \in {registered[t], tasksTable[t]} \ {None} : defOf'[rev] = defOf[rev]
    PROVE  Agrees(t) => Agrees(t)'
BY DEF Agrees, Scheduled, Enabled

\* A request commits or fails: the task it is about, and the others.
LEMMA CommitFollows ==
    ASSUME TableTypes, ChannelTypes, Fresh, Following,
           NEW h \in Handlers, NEW t \in Tasks,
           (\E d \in TaskDefs : Save(h, t, d)) \/ Delete(h, t)
    PROVE  Following'
<1> USE DEF tables, channels, history
<1>0. handler[h].pc = "idle" /\ UNCHANGED <<cmds, registered>>
  BY DEF Save, Delete
<1>1. CASE Refuse(h, "save", t) \/ Refuse(h, "delete", t)
  <2>1. /\ UNCHANGED <<tasksTable, defOf, overlapped>>
        /\ handler'[h].pc = "failed"
        /\ \A g \in Handlers \ {h} : handler'[g] = handler[g]
    BY <1>1 DEF Refuse, TableTypes
  <2>2. \A u \in Tasks : /\ Committed(u)' = Committed(u)
                         /\ \A g \in Committed(u) : handler'[g].op = handler[g].op
    BY <1>0, <2>1 DEF Committed
  <2>3. ASSUME NEW u \in Tasks
        PROVE  (Says(u) => Says(u)') /\ (Silent(u)' => Silent(u)) /\ (Agrees(u) => Agrees(u)')
    BY <1>0, <2>1 DEF Says, Silent, LastChange, Changes, Tells, Agrees, Scheduled, Enabled
  <2>4. \A u \in Tasks : Follows(u) => Follows(u)'
    BY <2>1, <2>2, <2>3, FollowsUnchanged
  <2> QED
    BY <2>1, <2>4 DEF Following, Follows
<1>2. CASE ~(Refuse(h, "save", t) \/ Refuse(h, "delete", t))
  <2>1. PICK x \in HandlerState :
           /\ x.pc = "committed" /\ x.task = t /\ handler' = [handler EXCEPT ![h] = x]
           /\ \/ x.op = "save" /\ tasksTable' = [tasksTable EXCEPT ![t] = h]
              \/ x.op = "delete" /\ tasksTable' = [tasksTable EXCEPT ![t] = None]
    <3>1. /\ [pc |-> "committed", op |-> "save", task |-> t] \in HandlerState
          /\ [pc |-> "committed", op |-> "delete", task |-> t] \in HandlerState
      BY DEF HandlerState
    <3> QED
      BY <1>2, <3>1 DEF Save, Delete
  <2>2. /\ overlapped' = IF Committed(t) = {} THEN overlapped ELSE overlapped \cup {t}
        /\ \A g \in Handlers \ {h} : defOf'[g] = defOf[g]
    BY <1>2 DEF Save, Delete, Commits, TableTypes
  <2>3. handler'[h] = x /\ \A g \in Handlers \ {h} : handler'[g] = handler[g]
    BY <2>1 DEF TableTypes
  <2>4. ASSUME t \notin overlapped'
        PROVE  Follows(t)'
    <3>1. Committed(t) = {}
      BY <2>2, <2>4
    <3>2. Committed(t)' = {h}
      BY <2>1, <2>3, <3>1 DEF Committed
    <3>3. Alone(t)'
      BY <2>1, <2>3, <3>2 DEF Alone, TableTypes
    <3>4. Told(t)'
      BY <3>2 DEF Told
    <3> QED
      BY <3>3, <3>4 DEF Follows
  <2>5. ASSUME NEW u \in Tasks, u # t, u \notin overlapped'
        PROVE  Follows(u)'
    <3>1. Follows(u)
      BY <2>2, <2>5 DEF Following, Follows
    <3>2. tasksTable'[u] = tasksTable[u]
      BY <2>1, <2>5 DEF TableTypes
    <3>3. /\ Committed(u)' = Committed(u)
          /\ \A g \in Committed(u) : handler'[g].op = handler[g].op
      BY <1>0, <2>1, <2>3, <2>5 DEF Committed
    <3>4. (Says(u) => Says(u)') /\ (Silent(u)' => Silent(u))
      BY <1>0, <3>2 DEF Says, Silent, LastChange, Changes, Tells
    <3>5. Agrees(u) => Agrees(u)'
      <4>1. registered[u] # h /\ tasksTable[u] # h
        BY <1>0 DEF Fresh
      <4>2. registered[u] \in Revision /\ tasksTable[u] \in Revision /\ registered'[u] = registered[u]
        BY <1>0 DEF TableTypes, ChannelTypes
      <4>3. \A rev \in {registered[u], tasksTable[u]} \ {None} : defOf'[rev] = defOf[rev]
        BY <2>2, <4>1, <4>2 DEF Revision
      <4> QED
        BY <3>2, <4>2, <4>3, AgreesUnchanged
    <3> QED
      BY <3>1, <3>2, <3>3, <3>4, <3>5, FollowsUnchanged
  <2> QED
    BY <2>4, <2>5 DEF Following, Follows
<1> QED
  BY <1>1, <1>2

\* A request sends its command: it was alone, so the channel says what the
\* table says.
LEMMA SendFollows ==
    ASSUME TableTypes, ChannelTypes, Requested, Following, NEW h \in Handlers, Send(h)
    PROVE  Following'
<1> USE DEF tables, channels, history
<1>0. PICK t \in Tasks, c \in Commands : t = handler[h].task /\ c = CommandOf(h)
  BY CommandType DEF Send, Requested
<1>1. /\ handler[h].pc = "committed" /\ cmds' = Append(cmds, c)
      /\ UNCHANGED <<tasksTable, defOf, registered, overlapped>>
  BY <1>0 DEF Send
<1>2. /\ handler'[h].pc = "done"
      /\ \A g \in Handlers \ {h} : handler'[g] = handler[g]
  BY DEF Send, TableTypes, HandlerState
<1>3. /\ c.task = t
      /\ handler[h].op = "save" => c.op = "AddTask" /\ c.rev = h
      /\ handler[h].op # "save" => c.op = "RemoveTask"
  BY <1>0, CommandType
<1>4. ASSUME t \notin overlapped
      PROVE  Follows(t)'
  <2>1. Alone(t)
    BY <1>1, <1>4 DEF Following
  <2>2. h \in Committed(t)
    BY <1>0, <1>1 DEF Committed
  <2>3. Committed(t)' = {}
    BY <1>2, <2>1, <2>2 DEF Committed, Alone
  <2>4. Changes(c, t) /\ Tells(c, tasksTable[t])
    BY <1>3, <2>1, <2>2 DEF Alone, Changes, Tells
  <2>5. Says(t)' /\ ~Silent(t)'
    BY <1>1, <1>3, <2>4, AppendTells
  <2>6. Alone(t)'
    BY <2>3 DEF Alone
  <2>7. Told(t)'
    BY <2>5 DEF Told, Says, Silent
  <2> QED
    BY <2>6, <2>7 DEF Follows
<1>5. ASSUME NEW u \in Tasks, u # t, Follows(u)
      PROVE  Follows(u)'
  <2>1. ~Changes(c, u)
    BY <1>3, <1>5 DEF Changes
  <2>2. (Says(u) => Says(u)') /\ (Silent(u)' => Silent(u))
    BY <1>1, <1>3, <2>1, AppendSays
  <2>3. /\ Committed(u)' = Committed(u)
        /\ \A g \in Committed(u) : handler'[g].op = handler[g].op
    BY <1>0, <1>2, <1>5 DEF Committed
  <2>4. Agrees(u) => Agrees(u)'
    BY <1>1, AgreesUnchanged
  <2> QED
    BY <1>1, <1>5, <2>2, <2>3, <2>4, FollowsUnchanged
<1> QED
  BY <1>1, <1>4, <1>5 DEF Following, Follows

\* The scheduler applies a command: if it was the last on its task, what it
\* registers is what the table says.
LEMMA ApplyFollows ==
    ASSUME TableTypes, ChannelTypes, Following, Apply
    PROVE  Following'
<1> USE DEF tables, channels, history
<1> DEFINE c == Head(cmds)
<1>1. /\ cmds # <<>> /\ cmds' = Tail(cmds)
      /\ UNCHANGED <<tasksTable, defOf, handler, overlapped>>
  BY DEF Apply
<1>2. c \in Commands /\ c.task \in Tasks
  BY <1>1, Received, CommandFields DEF ChannelTypes
<1>3. \/ c.op = "AddTask" /\ registered' = [registered EXCEPT ![c.task] = c.rev]
      \/ c.op = "RemoveTask" /\ registered' = [registered EXCEPT ![c.task] = None]
      \/ c.op = "TriggerNow" /\ registered' = registered
  BY DEF Apply
<1> HIDE DEF c
<1>4. ASSUME NEW u \in Tasks, Follows(u)
      PROVE  Follows(u)'
  <2>1. Committed(u)' = Committed(u) /\ Alone(u)'
    BY <1>1, <1>4 DEF Committed, Alone, Follows
  <2>2. CASE Committed(u) # {}
    <3>1. Told(u)'
      BY <2>1, <2>2 DEF Told
    <3> QED
      BY <2>1, <3>1 DEF Follows
  <2>3. CASE Committed(u) = {}
    <3>1. Says(u) /\ (Silent(u) => Agrees(u))
      BY <1>4, <2>3, ToldParts DEF Follows
    <3>2. /\ Says(u)'
          /\ Silent(u)' => Silent(u) \/ (Changes(c, u) /\ Tells(c, tasksTable[u]))
      BY <1>1, <3>1, TailSays DEF c
    <3>3. ASSUME Silent(u)'
          PROVE  Agrees(u)'
      <4>1. CASE Changes(c, u) /\ Tells(c, tasksTable[u])
        <5>1. registered'[u] = tasksTable[u]
          BY <1>2, <1>3, <4>1 DEF Changes, Tells, ChannelTypes
        <5> QED
          BY <1>1, <5>1 DEF Agrees
      <4>2. CASE Silent(u) /\ ~Changes(c, u)
        <5>1. registered'[u] = registered[u]
          BY <1>2, <1>3, <4>2 DEF Changes, ChannelTypes
        <5> QED
          BY <1>1, <3>1, <4>2, <5>1, AgreesUnchanged
      <4>3. Silent(u) => ~Changes(c, u)
        <5>1. c = cmds[1] /\ 1 \in 1 .. Len(cmds)
          BY <1>1, Received DEF ChannelTypes, c
        <5> QED
          BY <5>1 DEF Silent
      <4> QED
        BY <3>2, <3>3, <4>1, <4>2, <4>3
    <3>4. Told(u)'
      BY <3>2, <3>3 DEF Told, Says, Silent
    <3> QED
      BY <2>1, <3>4 DEF Follows
  <2> QED
    BY <2>2, <2>3
<1> QED
  BY <1>1, <1>4 DEF Following, Follows

\* The agent starts again: nothing is on its way, and the scheduler has read
\* the table.
LEMMA RestartFollows ==
    ASSUME TableTypes, Restart
    PROVE  Following'
<1> USE DEF tables
<1>1. UNCHANGED <<tasksTable, defOf>> /\ Len(cmds') = 0
  BY DEF Restart
<1>2. \A t \in Tasks : Committed(t)' = {}
  BY DEF Restart, Committed
<1>3. ASSUME NEW t \in Tasks
      PROVE  Agrees(t)'
  <2>1. registered'[t] = IF Enabled(tasksTable[t]) THEN tasksTable[t] ELSE None
    BY DEF Restart
  <2> QED
    BY <1>1, <2>1 DEF Agrees, Scheduled, Enabled
<1>4. ASSUME NEW t \in Tasks
      PROVE  Alone(t)' /\ Told(t)'
  <2>1. Alone(t)'
    BY <1>2 DEF Alone
  <2>2. Told(t)'
    BY <1>1, <1>3 DEF Told
  <2> QED
    BY <2>1, <2>2
<1> QED
  BY <1>4 DEF Following

\* Every step keeps the scheduler behind the table.
LEMMA FollowingStep ==
    ASSUME TableTypes, ChannelTypes, Fresh, Requested, Following, [Next]_vars
    PROVE  Following'
<1> USE DEF tables, channels, history
<1>1. ASSUME NEW t \in Tasks, TriggerHit(t)
      PROVE  Following'
  <2>1. PICK c \in Commands : c.op = "TriggerNow" /\ cmds' = Append(cmds, c)
    <3>1. [op |-> "TriggerNow", task |-> t] \in Commands
      BY DEF Commands
    <3> QED
      BY <1>1, <3>1 DEF TriggerHit
  <2>2. UNCHANGED <<tasksTable, defOf, handler, registered, overlapped>>
    BY <1>1 DEF TriggerHit
  <2>3. ASSUME NEW u \in Tasks, Follows(u)
        PROVE  Follows(u)'
    <3>1. (Says(u) => Says(u)') /\ (Silent(u)' => Silent(u))
      BY <2>1, <2>2, AppendSays DEF Changes
    <3>2. Committed(u)' = Committed(u) /\ (Agrees(u) => Agrees(u)')
      BY <2>2, AgreesUnchanged DEF Committed
    <3> QED
      BY <2>2, <2>3, <3>1, <3>2, FollowsUnchanged
  <2> QED
    BY <2>2, <2>3 DEF Following, Follows
<1>2. CASE UNCHANGED <<tasksTable, defOf, handler, cmds, registered, overlapped>>
  BY <1>2 DEF Following, Alone, Told, Committed, LastChange, Changes, Tells, Agrees,
     Scheduled, Enabled
<1>3. \/ UNCHANGED <<tasksTable, defOf, handler, cmds, registered, overlapped>>
      \/ \E h \in Handlers, t \in Tasks : (\E d \in TaskDefs : Save(h, t, d)) \/ Delete(h, t)
      \/ \E h \in Handlers : Send(h)
      \/ Apply \/ Restart \/ \E t \in Tasks : TriggerHit(t)
  BY StepCases DEF Fire, FindRow, FindTriggers, FindActions, FindFails, Dispatch,
     Dispatched, NetworkEvent, Collect, SendHits, EventDone, FindNext, vars
<1> QED
  BY <1>1, <1>2, <1>3, CommitFollows, SendFollows, ApplyFollows, RestartFollows

-----------------------------------------------------------------------------
(* A task is loaded as one revision.                                       *)

\* What ReadsOne says of one finder.
ReadsAs(f) ==
    /\ finder[f].pc # "idle" => finder[f].task \in Tasks
    /\ f \notin dirty =>
          /\ finder[f].pc \in {"triggers", "actions", "loaded"}
                => finder[f].row = tasksTable[finder[f].task]
          /\ finder[f].pc \in {"actions", "loaded"} => finder[f].triggers = finder[f].row
          /\ finder[f].pc = "loaded" => finder[f].actions = finder[f].row

\* Every step keeps what the undisturbed finders have read.
LEMMA ReadsOneStep ==
    ASSUME TableTypes, ChannelTypes, ReaderTypes, OneRevision, ReadsOne, [Next]_vars
    PROVE  ReadsOne'
<1> USE DEF tables, channels, history
<1>0. /\ finder \in [Finders -> FinderState] /\ \A f \in Finders : ReadsAs(f)
      /\ "dispatcher" \in Finders /\ "network" \in Finders
  BY DEF ReaderTypes, ReadsOne, ReadsAs, Finders
<1>1. SUFFICES ASSUME NEW g \in Finders
               PROVE  ReadsAs(g)'
  BY DEF ReadsOne, ReadsAs
<1>2. ASSUME NEW h \in Handlers, NEW t \in Tasks,
             (\E d \in TaskDefs : Save(h, t, d)) \/ Delete(h, t)
      PROVE  ReadsAs(g)'
  <2>1. /\ finder' = finder
        /\ \/ tasksTable' = tasksTable /\ dirty' = dirty
           \/ /\ \E rev : tasksTable' = [tasksTable EXCEPT ![t] = rev]
              /\ dirty' = dirty \cup {f \in Finders : finder[f].pc # "idle" /\ finder[f].task = t}
    BY <1>2 DEF Save, Delete, Refuse, Commits
  <2> QED
    BY <1>0, <2>1 DEF ReadsAs, TableTypes
<1>3. ASSUME NEW f \in Finders, FindRow(f) \/ FindTriggers(f) \/ FindActions(f)
      PROVE  ReadsAs(g)'
  <2>1. UNCHANGED <<tasksTable, dirty>>
    BY <1>3 DEF FindRow, FindTriggers, FindActions
  <2>2. CASE g # f
    <3>1. finder'[g] = finder[g]
      BY <1>0, <1>3, <2>2 DEF FindRow, FindTriggers, FindActions, Set
    <3> QED
      BY <1>0, <2>1, <3>1 DEF ReadsAs
  <2>3. CASE g = f /\ FindRow(f)
    <3>1. finder'[f] = [finder[f] EXCEPT !.row = tasksTable[finder[f].task],
                                         !.pc = IF tasksTable[finder[f].task] = None THEN "none"
                                                ELSE "triggers"]
      BY <1>0, <2>3 DEF FindRow, Set
    <3>2. /\ finder'[f].pc \in {"none", "triggers"} /\ finder'[f].task = finder[f].task
          /\ finder'[f].row = tasksTable[finder[f].task] /\ finder[f].pc = "row"
      BY <1>0, <2>3, <3>1 DEF FindRow, FinderState
    <3> QED
      BY <1>0, <2>1, <2>3, <3>2 DEF ReadsAs
  <2>4. CASE g = f /\ FindTriggers(f)
    <3>1. finder'[f] = [finder[f] EXCEPT !.triggers = trigTable[finder[f].task], !.pc = "actions"]
      BY <1>0, <2>4 DEF FindTriggers, Set
    <3>2. /\ finder'[f].pc = "actions" /\ finder'[f].task = finder[f].task
          /\ finder'[f].row = finder[f].row /\ finder[f].pc = "triggers"
          /\ finder'[f].triggers = tasksTable[finder[f].task]
      BY <1>0, <2>4, <3>1 DEF FindTriggers, FinderState, OneRevision
    <3> QED
      BY <1>0, <2>1, <2>4, <3>2 DEF ReadsAs
  <2>5. CASE g = f /\ FindActions(f)
    <3>1. finder'[f] = [finder[f] EXCEPT !.actions = actTable[finder[f].task], !.pc = "loaded"]
      BY <1>0, <2>5 DEF FindActions, Set
    <3>2. /\ finder'[f].pc = "loaded" /\ finder'[f].task = finder[f].task
          /\ finder'[f].row = finder[f].row /\ finder[f].pc = "actions"
          /\ finder'[f].triggers = finder[f].triggers
          /\ finder'[f].actions = tasksTable[finder[f].task]
      BY <1>0, <2>5, <3>1 DEF FindActions, FinderState, OneRevision
    <3> QED
      BY <1>0, <2>1, <2>5, <3>2 DEF ReadsAs
  <2> QED
    BY <1>3, <2>2, <2>3, <2>4, <2>5
<1>4. ASSUME NEW f \in Finders, Finish(f), tasksTable' = tasksTable
      PROVE  ReadsAs(g)'
  <2>1. CASE g = f
    <3>1. finder'[g].pc = "idle"
      BY <1>0, <1>4, <2>1 DEF Finish, Set, NoFind
    <3> QED
      BY <3>1 DEF ReadsAs
  <2>2. CASE g # f
    <3>1. finder'[g] = finder[g] /\ (g \in dirty' <=> g \in dirty)
      BY <1>0, <1>4, <2>2 DEF Finish, Set
    <3> QED
      BY <1>0, <1>4, <3>1 DEF ReadsAs
  <2> QED
    BY <2>1, <2>2
<1>5. ASSUME NEW f \in Finders, NEW t \in Tasks, UNCHANGED <<tasksTable, dirty>>,
             Set(f, [NoFind EXCEPT !.pc = "row", !.task = t])
      PROVE  ReadsAs(g)'
  <2>1. CASE g = f
    <3>1. finder'[g].pc = "row" /\ finder'[g].task = t
      BY <1>0, <1>5, <2>1 DEF Set, NoFind
    <3> QED
      BY <3>1 DEF ReadsAs
  <2>2. CASE g # f
    <3>1. finder'[g] = finder[g]
      BY <1>0, <1>5, <2>2 DEF Set
    <3> QED
      BY <1>0, <1>5, <3>1 DEF ReadsAs
  <2> QED
    BY <2>1, <2>2
<1>6. CASE Dispatch
  <2>1. Head(events) \in Tasks
    BY <1>6, Received DEF Dispatch, ChannelTypes
  <2> QED
    BY <1>0, <1>5, <1>6, <2>1 DEF Dispatch
<1>7. ASSUME NEW t \in Tasks, FindNext(t)
      PROVE  ReadsAs(g)'
  BY <1>0, <1>5, <1>7 DEF FindNext
<1>8. CASE Dispatched \/ Collect \/ \E f \in Finders : FindFails(f)
  BY <1>0, <1>4, <1>8 DEF Dispatched, Collect, FindFails
<1>9. CASE Restart
  <2>1. finder'[g].pc = "idle"
    BY <1>9 DEF Restart, NoFind
  <2> QED
    BY <2>1 DEF ReadsAs
<1>10. CASE UNCHANGED <<finder, dirty, tasksTable>>
  BY <1>0, <1>10 DEF ReadsAs
<1>11. \/ UNCHANGED <<finder, dirty, tasksTable>>
       \/ \E h \in Handlers, t \in Tasks : (\E d \in TaskDefs : Save(h, t, d)) \/ Delete(h, t)
       \/ \E f \in Finders : FindRow(f) \/ FindTriggers(f) \/ FindActions(f) \/ FindFails(f)
       \/ Dispatch \/ Dispatched \/ Collect \/ Restart \/ \E t \in Tasks : FindNext(t)
  BY StepCases DEF Send, Apply, Fire, NetworkEvent, SendHits, EventDone, TriggerHit, vars
<1> QED
  BY <1>2, <1>3, <1>6, <1>7, <1>8, <1>9, <1>10, <1>11

-----------------------------------------------------------------------------
(* The theorems.                                                           *)

\* The first start of the agent, with empty tables and channels.
LEMMA SyncInit ==
    ASSUME Init
    PROVE  SyncIndInv
<1> USE DEF Init
<1>1. TypeOK
  <2>1. TableTypes
    BY DEF TableTypes, Revision, HandlerState
  <2>2. ChannelTypes
    <3>1. /\ <<>> \in Seq(Commands) /\ <<>> \in Seq(Tasks) /\ Len(<<>>) = 0
          /\ CmdCap \in Nat /\ EventCap \in Nat
      BY CapAssumption
    <3>2. cmds \in Seq(Commands) /\ Len(cmds) <= CmdCap
      BY <3>1
    <3>3. events \in Seq(Tasks) /\ Len(events) <= EventCap
      BY <3>1
    <3> QED
      BY <3>2, <3>3 DEF ChannelTypes, Revision
  <2>3. ReaderTypes
    BY NoFindType DEF ReaderTypes
  <2> QED
    BY <2>1, <2>2, <2>3, TypeParts
<1>2. Len(cmds) = 0
  OBVIOUS
<1>3. Fresh
  BY <1>2, NoneAssumption DEF Fresh
<1>4. Requested /\ OneRevision
  BY DEF Requested, OneRevision
<1>5. \A t \in Tasks : Committed(t) = {} /\ Agrees(t)
  BY DEF Committed, Agrees, Scheduled, Enabled
<1>6. Following
  BY <1>2, <1>5 DEF Following, Alone, Told
<1>7. ReadsOne
  BY DEF ReadsOne, NoFind
<1> QED
  BY <1>1, <1>3, <1>4, <1>6, <1>7 DEF SyncIndInv

\* The inductive invariant holds in every reachable state.
LEMMA SyncIndInvCorrect == Spec => []SyncIndInv
<1>1. SyncIndInv /\ [Next]_vars => SyncIndInv'
  <2>1. SUFFICES ASSUME SyncIndInv, [Next]_vars
                 PROVE  SyncIndInv'
    OBVIOUS
  <2>2. /\ TableTypes /\ ChannelTypes /\ ReaderTypes
        /\ OneRevision /\ Fresh /\ Requested /\ Following /\ ReadsOne
    BY <2>1, TypeParts DEF SyncIndInv
  <2>3. TableTypes' /\ ChannelTypes' /\ ReaderTypes'
    BY <2>1, <2>2, TableTypesStep, ChannelTypesStep, ReaderTypesStep
  <2>4. TypeOK'
    BY <2>3 DEF TypeOK, TableTypes, ChannelTypes, ReaderTypes, HandlerState, FinderState, NetState
  <2>5. OneRevision' /\ Requested' /\ Fresh'
    BY <2>1, <2>2, OneRevisionStep, RequestedStep, FreshStep
  <2>6. Following' /\ ReadsOne'
    BY <2>1, <2>2, FollowingStep, ReadsOneStep
  <2> QED
    BY <2>4, <2>5, <2>6 DEF SyncIndInv
<1> QED
  BY <1>1, SyncInit, PTL DEF Spec

\* The tables, the channels and the states of the requests, the finders and the
\* network dispatcher keep their types, and no channel exceeds its capacity.
THEOREM TasksTyped == Spec => []TypeOK
<1>1. SyncIndInv => TypeOK
  BY DEF SyncIndInv
<1> QED
  BY <1>1, SyncIndInvCorrect, PTL

\* Once the requests on a task have drained the scheduler works on the saved
\* revision, unless two of them overlapped between commit and send; and
\* find_by_id loads one revision unless a request on it commits meanwhile.
THEOREM SyncCorrect == Spec => []SyncInv
<1>1. ASSUME SyncIndInv
      PROVE  SyncInv
  <2>1. ASSUME NEW t \in Tasks, Quiet(t), t \notin overlapped
        PROVE  Agrees(t)
    BY <1>1, <2>1 DEF SyncIndInv, Following, Told, Quiet, Changes
  <2>2. SchedulerFollows
    BY <2>1 DEF SchedulerFollows
  <2>3. WholeUnlessSavedMeanwhile
    BY <1>1 DEF SyncIndInv, ReadsOne, WholeUnlessSavedMeanwhile
  <2> QED
    BY <1>1, <2>2, <2>3 DEF SyncIndInv, SyncInv
<1> QED
  BY <1>1, SyncIndInvCorrect, PTL

\* The tables and the scheduler agree in the composition with the start of the
\* agent too: while it starts no request is served, and once it has the tasks
\* behave as in TaskSync.
THEOREM TasksFollow == TasksSpec => []SyncInv
<1>1. TasksInit => Init
  BY DEF TasksInit
<1>2. [TasksNext]_<<booting, vars, bootVars>> => [Next]_vars
  BY DEF TasksNext
<1>3. TasksSpec => Spec
  BY <1>1, <1>2, PTL DEF TasksSpec, Spec
<1> QED
  BY <1>3, SyncCorrect
===============================================================================
