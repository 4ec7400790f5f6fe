# easyJob: TLA+ models and proofs

easyJob is a task scheduler in Rust: an agent daemon keeps tasks in SQLite, computes when their triggers occur, runs
their actions as child processes and reports to a Tauri desktop client over a local IPC channel. This directory holds
TLA+ models of the agent, of the connection and of the parts of the desktop that have state of their own, the TLC
configurations that check them and the TLAPS proofs about them. Paths below are relative to the repository.

## 1. Inventory

| Component | State | Operations | Talks to |
|---|---|---|---|
| Schedule queue (`crates/scheduler/src/queue.rs`) | a heap of items, a generation per task | push, pop, peek_valid, bump_generation, take_task_items, next_fire_by_trigger | owned by the scheduler loop, read by `task.overview` |
| Evaluator (`evaluator.rs`) | none | next occurrence of a trigger after an instant | called by the loop |
| Scheduler loop (`scheduler.rs`) | registered tasks, the queue, a timer, the clocks of the last jump check | AddTask, RemoveTask, TriggerNow, RerollTrigger, Shutdown, firing, queue rebuild | bounded command channel in, bounded event channel out |
| Execution manager (`crates/executor/src/manager.rs`) | a semaphore, a running count per task | try_acquire_slot, release_slot | dispatcher and `trigger_now` |
| Process runner (`runner.rs`) | the child, its output | run_action: spawn, wait, timeout, cancel, kill | the run that calls it |
| Agent service (`apps/agent/src/service.rs`) | active executions, cancel tokens | start, dispatchers, RPC handlers, shutdown | everything |
| Persistence (`crates/persistence`) | tasks, triggers, actions, task_runs, run_outputs, settings | save, delete, find_by_id, find_all_enabled, create_run, update_run, purge, recovery | service |
| Agent process (`apps/agent/src/main.rs`, `lock.rs`) | the lock file, the socket, what is dropped when | lock, bind, serve, shut down, interrupt, exit | other agents, desktops |
| IPC (`crates/ipc`) | connections, pending calls, per-client channels, the broadcast ring | request and response with timeout, event broadcast | desktop, agent |
| Network monitor (`apps/agent/src/network.rs`) | interface edges, debouncer, online state, arbitration number | callbacks, arbitration, probing, dispatch | TriggerNow commands |
| Desktop agent manager (`apps/desktop/src-tauri/src/agent_manager.rs`, `commands.rs`) | the stored client, the connect lock, the spawn cooldown | ensure_connected, call with one retry, disconnect, restart_agent | IPC, the agent's process |
| Desktop shell (`lib.rs`, `events.rs`, `startup.rs`) | allow_spawn, the event relay | setup, exit, relaying events, the startup-mode commands | manager, service manager |
| Frontend (`apps/desktop/src`) | execution store, log drawer, startup option | merging events with fetched state, polling, switching the mode | commands and events of the shell |
| Platform services (`crates/platform`) | login item, service | register, unregister | the operating system |

What is hard here: the loop, the dispatchers and the RPC handlers are concurrent tasks around two bounded channels; the
queue is cleaned lazily and its stale items wait for a chance to come back; the wall clock and the timer's monotonic
clock drift apart and the wall clock jumps; admission, registration, rows, slots and permits of a run change in separate
steps with an error path after each; tasks are saved and deleted under running executions; the agent is shut down with a
time limit or dies, and the next start repairs the rows. A save reaches the database and the scheduler in two steps. A
call may time out on one side and be executed on the other; a connection ends at either end while requests are on their way; the
desktop reconnects, spawns and retries from several commands at once. The network watchers turn unreliable notifications
into events through asynchronous probes that overtake each other. The frontend merges a stream of events that may have
gaps with answers that may be old. Switching the startup mode is a chain of privileged scripts, any of which may fail.
`PROJECT.json` lists each hazard at its line with the properties that cover it.

## 2. Modules

| Module | Models | Uses |
|---|---|---|
| `Evaluator` | `evaluate_next_occurrence` in time zones with a transition: each kind as an operator that returns the set of possible results | |
| `ScheduleQueue` | `queue.rs` as operators on a set of items and a generation function | `Evaluator` |
| `ScheduleTable` | abstract specification: a table of next fire times | `Evaluator` |
| `Scheduler` | `scheduler.rs`, the channels, its clients, the clocks | `ScheduleQueue`, implements `ScheduleTable` |
| `Execution` | the life of an execution, from event or request to the released permit, across restarts | |
| `AgentStartup` | `init_shared` against the freshly spawned scheduler loop | |
| `TaskSync` | the task tables and the scheduler's copy of them | |
| `RemoteCall` | abstract specification: what `IpcClient::call` promises | |
| `IpcCall` | one connection: both tasks of the client, both of the server, a handler per request | implements `RemoteCall` |
| `IpcBroadcast` | an event on its way from the agent to each desktop | |
| `AgentProcess` | lock, socket and life of several agent processes | |
| `Desktop` | `AgentManager`, the event relay, restart, exit | |
| `NetworkEvents` | edge detector, debouncer and dispatcher channel as operators | |
| `MacNetwork`, `WinNetwork` | the watcher of each platform | `NetworkEvents` |
| `OnlineProbe` | `http_probe`, `probe_online`, `confirm_online` in time | |
| `StartupMode` | `startupMode.ts`, the commands and scripts under it, the service manager | |
| `ExecutionView` | `executionStore.ts` and `LiveLogDrawer.vue` | |
| `MCScheduler`, `MCExecution`, `MCTasks`, `MCIpc`, `MCDesktop`, `MCParts` | instances for TLC | |
| `SchedulerProofs`, `FiringProofs`, `ExecutionProofs`, `TaskProofs`, `IpcProofs`, `BroadcastProofs`, `PartsProofs`, `DesktopProofs` | theorems and proofs | each the module it is named for; `SchedulerProofs` also `Evaluator`; `IpcProofs` also `MCIpc`; `PartsProofs` all parts of `MCParts` |

Each module takes the components around it as the least it needs to know of them: TaskSync reduces the scheduler to its
registered tasks and channels, Desktop reduces the agent to down, starting, up and draining, and Execution takes
its events from anywhere. What one module assumes of another is a property of that other one (a call is executed
at most once per attempt: `AbstractCall`; a second process exits: `ProcessSafe`).

`MCTasks`, `MCIpc`, `MCDesktop` and `MCParts` put several specifications that share no state into one run. A behaviour
moves one of them, chosen in the initial state; the others rest in a state in which no action with fairness is enabled, so
that a behaviour of the run is a behaviour of one part and its fairness is that part's. It is the same as
checking the parts one after the other.

A definition whose comment begins with "Fault" is a plausible mistake in the definition that follows it. It is part of no
specification: putting it in the place of the definition must break the property `PROJECT.json` names for it, which
shows that the property depends on the code it is about.

### Evaluator

A loop over days is the set of days it looks at, and what it returns first is the least instant it could return (`Earliest`). A zone is one
transition: `Local` is what its clock shows, put forward or back by `shift` at `switch`, and `Instants` inverts it, with no
instant in a gap and two in an overlap. `Resolved` and `Candidates` are `resolve_candidate`: both instants of an overlap are candidates, and a
time in a gap is moved on by steps of `GapStep` (15 minutes) until it exists. `CronNext` is `cron_next_occurrence`: croner answers with the earlier
instant of a local time, so a match that is not after `after` becomes the next anchor (`CronFrom`), and a match in a gap moves the anchor on by
`CronStep` (an hour). Whether croner reports such a match as InvalidTime or as the end of the gap depends on the pattern and is left open.
A pattern is reduced to the times of day at which it matches.

Assumed of the zones (`ZoneAssumption`): a shift is less than a day, a gap is no longer than the eight steps out of it, and the
anchors of cron reach two days beyond it. That the matches within an overlap are fewer than the 240 anchors is not
represented; there are at most 120 in two hours. A zone whose transitions lie closer together than the searches look ahead is not either.

### Scheduler

One turn of the `loop` in `Scheduler::run` is the action `Loop` (peek_valid, arm the sleep) followed by one branch of
the `select!`: `AddTask`, `RemoveTask`, `TriggerNow`, `RerollTrigger`, `Shutdown`, `Fire` (the sleep) or `JumpCheck`
(the 10s interval). `event_tx.send(..).await` is a state of its own (`pc = "sending"`, left by `SendEvent`), because the
loop can block there while the channels fill. `queue.rs` is used by one task, so its calls inside a branch are atomic
(`task.overview` only reads it under the lock).

The heap is a set: the order in which items leave it is `Before`, the code's `Ord`, including that ties are not
reversed. `peek_valid` and `pop` discard stale items above the first valid one (`DropStale`); other stale items stay,
as in the code. A `Fuzzy` occurrence is drawn at random, so `EvaluateNext` yields a set and the actions choose from it.

Time: `now` is `Utc::now()`, `timer` the remaining monotonic sleep, `drift` the difference the jump check measures.
`Tick` moves both clocks; `WallStep` moves the wall clock alone (an adjustment, or a resume after suspend). An
instant is one unit, so sub-second rounding is not represented.

Clients (`Begin`, `Enqueue`) are the RPC handlers, the start of the agent and the network dispatcher: each sends one command
and waits for room. `StopDispatcher` and `SendShutdown` are the two steps of the agent's shutdown that the loop sees.

`lastFired` is a history variable: the last occurrence each trigger fired and the task definition at that time.

### Execution

A run is driven through its stages by the task that owns it:
`found` (task looked up) - `permit` - `slot` - `created` (row inserted) - `running` - `child` - `killing` - `finishing` -
`updated` - `announced` - `deregistered` - `released` - `done`, with the side exits `refused`, `skipped`, `failed` and
`gone` (the process ended). Every `.await` between two effects separates two actions. The dispatcher handles one event
at a time up to the slot (`DispatcherBusy`); handlers of `task.trigger_now` do the same concurrently, and continue
during a shutdown because their connections are tasks of their own. Both paths of the code have the same steps in the
same order up to where the cancel token is created, which makes no difference: it is a child of `exec_cancel_token`
either way.

The tables are `taskRow` and `row`. Deleting a task deletes its rows (foreign key, cascade), an insert without its task
fails, an update of a deleted row does nothing. `DbErrors` names the calls that may fail besides. A purge may remove any
of the finished rows of its task: retention and age are abstracted to a free choice. `Halt` is the end of the process
(after a shutdown, by Ctrl-C, or a crash); `Boot` is `recover_dangling_executions`. `lost` and `drained` are
history variables. A child process that survives a crash of the agent, and the text of outputs, are left out.

### AgentStartup

`init_shared` sends AddTask, and TriggerNow for AgentStarted tasks, to the scheduler it has just spawned; the dispatcher
that reads the scheduler's events only starts when it has returned.

### TaskSync

The handlers of `task.save` and `task.delete` are spawned per request and have two steps: `Save` or `Delete` commits the
transaction (`Refuse` is its failure), `Send` waits for room in the scheduler's bounded channel and answers. Two requests on one task may therefore commit in one
order and be sent in the other; `overlapped` is the history of the tasks for which a commit fell between another one's commit and
send. `find_by_id` is its three queries (`tasks`, `triggers`, `actions`), each an action; `dirty` records that a request
committed between two of them. A saved task is named by the request that saved it, so that a mixture of revisions is visible. Two
finders do this: the dispatcher of trigger events, and the network dispatcher, which reads the ids of all enabled
tasks, loads each and sends TriggerNow for every trigger that matches the event. `Restart` ends one life of the agent, with everything
in its channels, and begins the next, which registers the enabled tasks the tables hold.

### IpcCall and RemoteCall

A call registers a oneshot in `pending_responses`, sends the request through the bounded channel of the client's writer and
waits for the oneshot or its timeout; then it removes its entry. The client's writer and reader, the server's reading loop, its
writing task and the handler of each request are processes of their own; each channel has a capacity, and each
`send().await` waits for room. Events share the channel and the socket with the responses. `DropClient` is the owner
letting go of the client (its reader then clears the pending map), a broken socket ends both ends in their own time, and
`Dies` ends the agent with whatever it was executing. `RemoteCall` says what is left of this for a caller: answered means executed
exactly once, failed means at most once and possibly later, unsent means never.

### IpcBroadcast

`Publish` puts an event into tokio's broadcast ring; a receiver that is overtaken learns so at its next `recv`, and the loop of
`IpcServer::run` ends there (`Receive`). Otherwise it copies the event to a snapshot of the clients map with `try_send`
(`CopyTo`) and removes those it found closed (`Prune`). `Deliver` is the connection, `Relay` the desktop's event relay behind a ring
of its own. Connections come, go and are unlisted in between. A full channel drops the event; `lost` and `expected` are history.

### AgentProcess

A process goes from `started` through `locked`, `serving` (socket bound) and
`draining` (shutdown: the listener is dropped, the executions get their time) to `unlocked` (the lock is dropped when main leaves
the service's scope, before the runtime ends) and `gone`, when the runtime has ended what was left. `Interrupted` and `Crash` leave in other
orders. On Unix the socket is a file that `IpcServerInner::drop` unlinks whoever created it; on Windows
(`NamedPipe`) it is an instance that exists only as long as its process.

### Desktop

Workers (commands, restarts, the relay) go through `ensure_connected`: the fast path on the stored client, the connect
lock, a second look, one attempt, the spawn if it is allowed and not cooling down, and the attempts after it. A call that fails
with a connection error disconnects the stored client, reconnects and is sent once more. Whether an error is one of the connection is
read off its text, so an agent's own answer may be taken for one while the connection works (`CallError`). `restart_agent` is shutdown, wait,
disconnect and connect. A client is a number, so that it is visible whether a failed call throws away somebody else's. The agent answers
calls in the states its process can be in, may execute one whose connection has failed, and may belong to the system service,
which can be installed while the application runs.

### NetworkEvents, MacNetwork, WinNetwork, OnlineProbe

`Changed`, `Allow` and `Forward` are the edge detector, the debouncer and the channel, shared by both watchers. On macOS a path
update is handled on a serial queue and a Connect starts a probe that may report Online after the state has changed again. On Windows
a notification only starts an arbitration, numbered by `ARBITRATE_SEQ`, which settles, probes, and compares with
`online_state`; the baseline does the same once, without a report. In WinNetwork the probe answers with the state of
the machine at that moment; how it comes to that answer is OnlineProbe, in units of 100 ms, against endpoints that answer, answer
wrongly, accept and stay silent, drop packets, resolve to private addresses, or do not resolve. The
debouncer's 500 ms and the cooldown's 10 s are Booleans that may expire at any point.

### StartupMode

`setStartupMode` and `migrateLegacyDefault` are chains of awaited calls: an action is one call with its outcomes, including
refused elevation and a script that fails half way, on each platform as its scripts are written. Between two calls the other chain, the service
manager, and the end of the application may interfere. A script in flight is a process of its own and survives the application that awaits it:
`Reopen` leaves it in `stray`, and `StrayLands` is its end, at any point of what the next application does (of the scripts of one chain the
last one is kept, a bound). `alone` is history: there was no such script when the switch began. The option shown by the settings page is assigned by the component's
v-model before the change handler runs (the order of listeners is Vue's, and is taken as external).

### ExecutionView

The frontend is one thread, so a callback up to its next `await` is one action. `Answer` reads the agent's tables, `Respond` applies the
answer in the window; with `Reordering` answers overtake each other, with `Lossy` any event may vanish. `Fail` is a request that times out
or errs, or whose answer is lost: it takes the `catch` of its caller, which keeps the list, the cache or the cached run and goes on from
there, the opening of the drawer to its output and its polling. The store keeps the list, the finished executions and the log cache; the drawer
keeps its status and polls every 250 ms while the run is not done. A fetched list replaces the list, and fetched output the cache unless it
is empty. One poll is under way at a time. History: each request carries whether it was asked when the end of the run had been heard
(`late`), and `reload` says what came of such reloads of the list and of the output.

## 3. What is checked

Bounds are constants, given in the `.cfg` of the run.

| Run | Properties | Instance |
|---|---|---|
| `scheduler_struct` | TypeOK, OneEntryPerTrigger, ValidItemsAreLive, RecurringStaysQueued | one task, two triggers, three definitions (Once + Interval, disabled trigger + Network, disabled task), three requests, wall steps of -1 and +2, time 0..2 |
| `scheduler_forward` | NoRefire, OncePerWindow, NeverEarly | Fuzzy, Cron, Daily, Weekly and Interval definitions in three zones (clock put forward by one instant, back by two, never), four instants a day, two days a week, time 0..9 |
| `scheduler_live` | DueItemsFire, RequestsSettle; TableSpec: Scheduler implements ScheduleTable under `next <- NextFireByTrigger(heap, generations)` | two tasks with two triggers each, two requests, shutdown at any point |
| `execution_rows` | Accounting, PolicyRespected, FinishedIsStored, NoGhostRuns, CancelStops, DrainedDispatch, RowLifecycle | two runs of a SkipIfRunning task with up to two actions, two permits, every database error, two starts of the agent |
| `execution_live` | RunsEnd, ShutdownEnds | two runs, one permit |
| `tasks` | SyncInv, CommittedIsAnswered (TaskSync); StartedTasksRun (AgentStartup) | one task, two requests, a network event, two starts, channels of one; a start with six tasks, up to three with AgentStarted, event channel of three |
| `ipc` | CallInv, AbstractCall (IpcCall implements RemoteCall), CallsEnd; EventInv, StalledClientHoldsUpNobody (IpcBroadcast) | two calls and an event over channels and a wire of one; two clients, two events, rings of one, one client that may stop reading |
| `desktop` | DesktopInv, StoredIsShared, RelayListens, AgentComesBack (Desktop); DrawerCatchesUp (ExecutionView) | one command or one restart beside the relay, a fault, four connections, one attempt after a spawn; a run whose events may all be lost and whose requests may fail, one click (its chunks do not enter the drawer's status) |
| `parts` | ProcessSafe, OnlyLeaversUnlink (AgentProcess); ReportsMatch (both watchers); ProbesAreRight (OnlineProbe, both platforms); SuccessReachesMode, LoginItemSurvives (StartupMode, both platforms); SettledIsExact, DrawerNeverRegresses (ExecutionView) | three agents, two desktops; six path updates; three changes of a wired and a wireless interface with three arbitrations; three endpoints; a switch with one restart of the application; a run with one chunk and two clicks (trigger, opening or reload) |
| `startup_overflow`, `ipc_lagged`, `scheduler_overlap` | see "Disagreements" | |

What the less obvious ones say:

- `SyncInv`: when no request is between its commit and its send, the scheduler holds for each task the saved revision if
  it is enabled and nothing otherwise, unless two requests overlapped on it; and a loaded task is one revision, not a
  mixture, unless a request committed during the queries.
- `CallInv`: a call that has returned has left no entry behind, and a call that waits has its response somewhere on
  the way or will be told that the channel closed. `EventInv`: a client that stays listed hears every event that was not
  dropped at a full channel, in order, and an open connection is listed.
- `ProcessSafe`: at most one agent is between taking the lock and the end of its `run()`, and two processes may write the database only
  while one of them is leaving. `OnlyLeaversUnlink`: the socket of a serving agent is unlinked only by such a leaver.
- `DesktopInv`: one worker connects at a time, a command is executed at most twice (once, if its first attempt was answered), and a
  desktop that found the service installed at its start neither spawns an agent nor shuts one down on exit. `StoredIsShared`: a
  stored client is never replaced by another one, so workers that find the desktop disconnected share one new connection.
- `ReportsMatch`: the last report of a watcher is what it last observed (macOS) or believes (Windows), Connects and
  Disconnects alternate, and there are never more Onlines than Connects on macOS.
- `ProbesAreRight`: in a network that does not change, the machine is declared online only if an endpoint answers as expected, and, for
  one round as on macOS, whenever one does; on Windows the window is overrun by less than one attempt. That a good endpoint is found in time on Windows
  is not true, see "Disagreements".
- `LoginItemSurvives`: on both platforms, a switch from login to boot that fails, or is cut off, leaves the login item.
  `SuccessReachesMode`: a switch on macOS that reports success has reached its mode and no other, unless a script of a closed
  application was still running when it began; on Windows, and beside the migration of a first start, this is not true.
- `SettledIsExact`: if answers come in order, then from the first reload that succeeds after the end of the run was heard the list shows the
  run once and as its row has it, and the log cache is what the agent stored, even if events were lost and whatever fails later; and a view with
  nothing under way that has heard the end has asked for both, successfully or not. `DrawerNeverRegresses` holds for answers in any order and
  for failing requests.

Why the bounds are enough to meet the hazards: three requests allow a save, a second save or removal, and a reroll that meets the
stale items; a wall step of 2 exceeds the drift limit of 1, one of -1 does not, two of them do; channels of capacity one
fill at once; days of four instants with windows of two let a trigger be evaluated before, inside and after its window; a clock
that is put forward at instant 5 or back at 6 puts scheduled times into a gap and into an overlap;
two permits for two runs leave the refusal to the policy, and one permit, in `execution_live`, to the semaphore; two starts
of the agent put a restart after every state. Two requests are what it takes to overlap on a task, two calls to fill a channel
of one and to be answered out of order, two events to overtake a ring of one, three agents to have one leave, one
serve and one try. Three changes of two interfaces give a flap of one while the other stays; three arbitrations let a
later one override an earlier one with one still to come. Probing times are those of the code (a phase 1.5 s, an attempt 3 s, the
window 7 s, the pause 0.5 s), with its three endpoints.

`CHECK_DEADLOCK FALSE` is set because the systems may stop: the scheduler after Shutdown or at the time bound, the
agent when it is down for the last time, the others when the bounded requests, events and changes have been used up.

The "forward" properties are stated for a wall clock that does not run backwards. With backward steps the code does pop an item whose time has
not come yet: the sleep was armed before the step, and the timer branch does not look at the clock again. That is how it is
written, and the 10s jump check repairs larger steps only, so these three properties make no claim there.

### Fairness

`Scheduler!Fairness`: tokio polls every task that can go on, so `Loop`, `SendEvent`, `ReceiveEvent`, `JumpCheck` and
`SendShutdown` are weakly fair and time passes. `select!` picks at random among its ready branches, so a branch that is
ready again and again is taken eventually: strong fairness of `Fire`, of the command branch and of `Shutdown`. A bounded
tokio channel serves waiting senders in order: strong fairness of `Enqueue`. No client has to make a request and
nobody has to shut down.

`Execution!Fairness`: each run is polled (weak fairness of its next step). A child ends because every action has a timeout, one day by
default, after which it is killed. That the kill succeeds and the child can be waited for is assumed of the operating system. The
dispatcher's `select!` sees its cancelled token in the long run (strong fairness of `EndDispatcher`). Crashes, cancels and
purges are never assumed to happen.

The other modules follow the same rules. `TaskSync`: what has committed, and both dispatchers, are polled; strong fairness where several
senders wait for one channel (`Send`, `NetStep`) and for the command branch of `select!` (`Apply`). `AgentStartup`: every task
of the runtime is polled. `IpcCall`: strong fairness of the two bounded channels with several senders (`SendRequest`, `Respond`),
weak fairness of everything else, including that the timeout of a call passes; a handler ends. `IpcBroadcast`: the loop and the
relays are polled, and so are the connections of clients that are not `Stalled`. `Desktop`: tokio's mutex is fair, so taking the
connect lock is strongly fair; a process that was spawned comes up, one that drains ends (its drain has a limit), and
the cooldown passes. `ExecutionView`: events reach the window and the 250 ms timer ticks; requests do not fail for ever, so that answering
and applying an answer are strongly fair: a poll that fails is followed by another, and one of them comes through once the relay and the calls have
reconnected (`AgentComesBack`). No crash, lost event, dropped connection, request or user action is ever assumed to happen.

### Disagreements between documentation and code

Three are runs that TLC must refute (`findings` in `PROJECT.json`):

- `startup_overflow`: the comment at `service.rs:71` says that spawning the loop first avoids the channel deadlock. It
  does so for AddTask; with more AgentStarted tasks than the event channel, the loop's hand and half the command
  channel hold, init and the loop wait for each other.
- `ipc_lagged`: the design of the IPC says events go to all active clients. The loop is `while let Ok(ev) = rx.recv().await`
  (`server.rs:263`): when it is overtaken once, `recv` answers Lagged, the loop ends, and no client hears anything again.

- `scheduler_overlap`: the comment at `evaluator.rs:161` says that every matching window fires at most once. When the clocks of the zone are put
  back behind the start of a window that has fired, an evaluation in the repeated hour (a save, a reroll, a rebuild, a late
  firing) takes the window for one that has not started and draws from it again. `OncePerWindow` is what remains true, and
  is proved: it is so in zones whose clock is never put back. A Daily or Weekly time in an overlap occurs twice for a related reason:
  `resolve_candidate` answers with the later instant when the earlier one has fired. No document says otherwise of those.

The others were met while modelling. The modules describe what the code does, and where a property would be false it names the
exact exception, so that the property still says all that is true:

- QueueOne: the design document (`docs/eastJob-architecture-design.md`) says the second run is held until the first has finished; `manager.rs:49`
  admits it, and both run.
- The same document records a trigger dropped by SkipIfRunning as `Skipped`; `service.rs:240` drops the permit and
  writes no row.
- The same document says a clock jump applies the `MissedRunPolicy`; no code reads that policy.
- Two overlapping saves of one task may leave the scheduler with the older definition, or with a deleted task, until the next save or
  start (`service.rs:652`; `overlapped` in SyncInv).
- A trigger event that is in the channel when its task is disabled still runs it (`service.rs:221`), and so does a network event for a task that is disabled
  between `find_all_enabled`'s id query and its load (`task_repo.rs:59`), while `network_tests.rs:172` says "disabled task must not fire".
- The lock is released when the service's scope ends, before the runtime has ended (`main.rs:105`): a run that outlives the drain
  may write the database beside the next agent (`WritersOverlapOnlyWhileLeaving`).
- A leaving agent unlinks the socket by its path (`server.rs:42`), also when a successor has bound it meanwhile; the successor
  serves on without a name (`OnlyLeaversUnlink`).
- Whether the desktop may spawn an agent is decided once, at its start (`lib.rs:56`); its exit shuts down whatever agent
  answers if it has ever spawned one (`lib.rs:133`), a service installed meanwhile included.
- Windows, network: the comment above the baseline (`network.rs:572`) says a start never reports a connection; a notification in the first
  seconds is arbitrated before the baseline and does (`network.rs:683`). The first notification of an interface is only
  recorded (`network.rs:640`), so a change it announces is not arbitrated.
- Windows, probing: an attempt is cut off after 3 s (`network.rs:716`). Two phases of 1.5 s take that long, so while
  the first endpoint has two addresses that accept or drop packets and stay silent, the others, of which the comment at `network.rs:81` calls the
  third the fallback, are never tried.
- Startup mode: the migration at start may race a switch in the settings and install the login item over it (`startupMode.ts:97`); a
  failed elevated uninstall on Windows is reported as success (`crates/platform/src/startup.rs`, the outer PowerShell waits but does
  not return the inner exit code); when `service_install` itself fails there is no rollback (`startupMode.ts:51`), unlike every later
  failure; and the settings page restores the option the user has just chosen, because v-model has assigned it before the
  handler reads it (`SettingsView.vue:185`).
- Execution store: a list reload replaces the list with an answer that may be older than the events already applied (`executionStore.ts:59`),
  and a run that the reload has brought is listed a second time by `addExecution` (`executionStore.ts:48`), until the next reload. This is why
  SettledIsExact is about answers in order, after the run has finished.
- When the last reload fails nobody repeats it: the error of a log fetch is only written to the console (`executionStore.ts:91`), that of the list
  is not caught at all (`executionStore.ts:59`). A cache that holds the output twice or with gaps, and a list with the run twice or as running, stay
  until the user reloads or opens the drawer again. This is why SettledIsExact speaks of a reload that succeeds. And when `update_run` fails the
  row, and so the reloaded list, stays Running, although the finished event said otherwise (`service.rs:353`).
- A switch on macOS may report success without having reached its mode while an elevated script of an application closed before still runs:
  nothing looks for one (`startup.rs:300`, `startupMode.ts:47`). This is why SuccessReachesMode excludes it.

## 4. What is proved

All theorems are checked by TLAPS for every value of the constants that satisfies the named assumptions. The assumptions are
the ones the modules declare: capacities are positive, bounds are numbers, names of different kinds differ (`None` is no
task, no call, no instant). Two hypotheses are not of that kind: `ForwardClock` (`FiringProofs`), that the wall clock does not run
backwards, where the text below says so, and `Capacities` (`BroadcastProofs`), which is what the assumptions of `MCIpc` say
of the module's constants. Every inductive invariant was checked by TLC on an instance before it was proved.

**Evaluator, queue and loop**

- `EvaluateNextIsLater` and `RecurringHasNext` (`SchedulerProofs`): whatever the kind and the zone, the next occurrence is None or strictly later
  than the instant of evaluation, and for a recurring kind it is not None. The first rests on facts about `\div` and `%` for Interval and on the
  filters of the searches. The second needs that a local time the clock has not reached yet has an instant after `after` (`LaterInstant`),
  that there is always a way out of a gap (`ExitExists`, `ResolvedLater`), and for cron that a pattern that matches every day has
  a match outside the gap (`CronMatchAfter`) and that one of the anchors finds it (`AnchorFound`).
- `TypeCorrect` (`SchedulerProofs`): `Spec => []TypeOK`.
- `QueueCorrect` (`SchedulerProofs`): `Spec => [](FreshGenerations /\ OneEntryPerTrigger /\ ValidItemsAreLive)`. The
  conjunction is the inductive invariant: that a trigger has one entry per generation survives a bump only because no
  item of a later generation exists (FreshGenerations), and a firing may requeue its trigger only because
  its other entries are of other generations. One lemma per action. `GenerationsAreFresh` and `QueuedIsLive` are the parts that
  are wanted by themselves.
- `RecurringIsNeverLost` (`FiringProofs`): RecurringStaysQueued, a live recurring trigger is never lost from the queue, whatever requests,
  firings and clock jumps do. Between the pop and the push of a firing it is not in the queue, but that is inside one turn of
  the loop; the proof uses that evaluating it again yields a time.
- `QueueImplementsTable` (`FiringProofs`): `Spec => TableSpec`, the refinement of ScheduleTable. What has to be shown of each step is that only the
  rows it is about change: a bump empties the rows of one task, a push fills one row, the cleaning of stale items none.
  OneEntryPerTrigger makes the row of a trigger a single time.
- `FiringCorrect` (`FiringProofs`): with ForwardClock, `Spec => [](NoRefire /\ NeverEarly)`. The inductive
  invariant adds that everything fired was due (`FiredWasDue`): NeverEarly makes a firing respect it, and as every
  evaluation lies after `now`, what is queued lies after what has fired. It uses QueueCorrect, since a second entry for the
  trigger that fires would refire it. `FiresOnTime` is NeverEarly by itself.
- `WindowsFireOnce` (`FiringProofs`): with ForwardClock, OncePerWindow. A trigger that has fired in a window is evaluated after its firing,
  and from any instant inside a window the next occurrence lies in a later one, so everything queued for it does (`WindowInv`). Where no clock is
  put back, local times are ordered as instants are (`LocalIsOrdered`), and the way out of a gap stays on its day (`ExitIsSameDay`).

**Executions** (`ExecutionProofs`), for any finite set of runs

- `TypeCorrect`, `AccountingCorrect` and `PolicyCorrect`: `[]TypeOK`, `[]Accounting` and
  `[]PolicyRespected`. Types are inductive once a live run is known to belong to
  a task (`Tasked`). For Accounting every step is shown either to leave all holders alone (`NoTransfer`) or to be one of the
  few that move a slot or a permit (`Transfer`), whose effect on the cardinalities is then computed. PolicyRespected
  needs Accounting: `try_acquire_slot` decides by the counter alone, and only because the counter is the number of
  holders does a counter of 0 (or below 2) mean that no one (at most one) else runs.
  The proof covers every policy, QueueOne included, which the run (SkipIfRunning only) does not exercise.
- `NoGhostRunsCorrect`, `FinishedIsStoredCorrect`, `CancelStopsCorrect`, `DrainedDispatchCorrect` and the action property
  `RowLifecycleCorrect`. None of the five is inductive: their common invariant is `RunInv`. A row says nothing by itself of the run that
  writes it, so `RowsFollow`, `RowsAlive` and `Stored` say for each stage what its row may be, through deletes, failed updates, crashes and
  recoveries; `DownIsIdle` lets `recover_dangling_executions` mark every Running row; `DispatcherEnded` and Accounting
  are what turns counters at zero into "no run of the dispatcher is left". `RunStepMoves` and `RunStepEffects` say once what a
  step does to the run that takes it, and every part is proved from them.

**Tasks** (`TaskProofs`), for any tasks, requests, definitions, network events and capacities

- `TasksTyped`: types and capacities. `SyncCorrect`: SyncInv. The invariant (`SyncIndInv`) looks at the last command on a task in
  the channel: unless requests on the task have overlapped, the one request that is between its commit and its
  send holds what the table says, or the last command in the channel says it, or the scheduler has it (`Following`). `ReadsOne` follows the three
  queries of a load: unless something was committed meanwhile, what has been read so far is the revision still in the tables.

**The connection**, for any number of calls, clients and events and any capacity

- `CallsTyped`, `CallsCorrect` (CallInv) and `CallsImplement` (`IpcProofs`). The last one is the refinement `Spec => AbstractCall`. The invariant `CallIndInv` follows a
  request around the connection: on its way up it is in one place at most (`UpOnce`), so it is executed at most once; nothing on the way
  down answers a call that was not executed (`DownExecuted`), so an answered call was; and the entries of `pending_responses` are the calls
  whose oneshot is open (`PendingIsOpen`), so that dropping the map tells everyone who waits.
- `EventCorrect` (`BroadcastProofs`): EventInv. `EventIndInv` cuts the way to a client into its parts: ring, the event the loop copies, channel,
  event channel, relay. Each part is in order and earlier than the part behind it (`RingOrder`, `WayOrder`, `WayBelow`), and dropping the
  oldest, or the whole of a part, keeps that. A live connection stays listed because what is pruned was seen closed,
  and an id is never used twice (`Copying`).
  `EventsCorrect` (`IpcProofs`) carries it over to the composition in `MCIpc`, where `Capacities` is an assumption.

**Processes and the desktop**, for any number of each

- `ProcessConsistent`, `AgentIsUnique`, `WritersOverlapOnlyWhileLeaving`, `SocketIsSafe`, `PipeHasOneOwner` and `ProcessesAreSafe`
  (`PartsProofs`). The inductive invariant is `Consistent`: types, a process between
  taking and dropping the lock is its holder (`LockHeld`), and only processes that are up have connections and work (`Alive`).
  Uniqueness of the agent follows from LockHeld alone; that writers overlap only while one leaves needs Alive as well, since work
  then belongs to a process that serves, drains or is unlocked. `SocketIsSafe` is the action property
  `OnlyLeaversUnlink`: any other process that removes the file would hold the lock, and the lock is the serving agent's. `PipeHasOneOwner` is the Windows case (`NamedPipe = TRUE`), which no run instantiates.
- `DesktopCorrect` (DesktopInv) and `StoredIsSharedCorrect` (the action property StoredIsShared) in `DesktopProofs`. That a client is only stored where
  none is needs the lock (`Locked`) and what its holder has seen under it (`NoneStored`). That a command is executed at most twice is
  a budget (`Budget`): executions and requests still on their way are together no more than the requests sent, one per
  attempt, and an answer uses up an execution (`AnswersAreExecuted`), which leaves one less. That a service is left alone needs
  that `restart_agent` is refused there (`RestartsRefused`).

**Network, startup mode and log drawer** (`PartsProofs`, as theorems of the composition `PartsSpec`, whose step is a step of one part,
`PartsStep`)

- `ReportsAreExact`: ReportsMatch for any number of updates, interfaces, arbitrations and probes. The debouncer could swallow a flip
  whenever it follows an event of its own kind; `MacInv` and `WinInv` say that it cannot: the kind it holds is that of the last Connect or
  Disconnect, or an Online has come after it, while a flip always is of the other kind. `InTurn` counts.
- `ProbesAreExact`: ProbesAreRight for any endpoints and timeouts. On macOS no round is cut off (spent time and what
  the rest of the round may take stay below the number that stands for no limit), so a round that fails has asked everyone. On Windows a round
  begins inside the window. `ProbeAssumption` says that the window is not empty and that the number is large enough.
- `LoginItemIsClearedLast`: LoginItemSurvives on both platforms. The switches of the two are instances of one parametrized
  module (`Switch`); every step of a chain moves that chain and touches the login item only when it ends (`ChainStep`).
- `SuccessIsReal`: SuccessReachesMode on macOS, where the last steps of a chain that began alone know that the service is installed exactly
  when it is wanted (`MacModeInv`): a script is left behind only by the end of the application, which ends the chain. On Windows this does not hold, as an elevated command says nothing of its outcome.
- `DrawerIsMonotone`: DrawerNeverRegresses. A view whose answers come in order is one whose answers may come in any (`Views`), so one proof
  covers both. An answer to a trigger is a run, so no entry of the list is without status (`ViewInv`).
- `SettledViewIsExact`: SettledIsExact, for any number of outputs and clicks and for any events and requests that are lost or fail. Nothing the
  view shows need be exact before the end of the run is heard. Two things are shown of what comes after. That both reloads are asked
  (`RepairBegins`) and stay on their way until they have succeeded or failed (`RepairComes`). And that a success is final (`RepairKept`): requests
  asked after the end are answered from tables that no longer change, and they come behind all that were asked before it, so that when the first of
  them is applied no older answer is left that could undo it. That the end is heard only after all else rests on its being the
  last event (`EndIsLast`). How many chunks were lost or shown twice before does not enter the argument.

**The compositions**: `PartsAreSafe`, `TasksFollow`, `ConnectionCorrect` and `DesktopAndViewCorrect` carry the theorems about AgentProcess, TaskSync,
IpcCall and Desktop over to the specifications the runs check (`PartsSpec`, `TasksSpec`, `IpcSpec`, `DesktopSpec`). The first three
follow because the composition implements the component. `DesktopSpec` does not, as its view runs beside an application that has
left; there the inductive invariant is shown to hold in that state too (`LeftIsFine`).

So every invariant and every action property that a passing run checks is proved. Only model-checked are the
liveness properties (DueItemsFire, RequestsSettle, RunsEnd, ShutdownEnds, CommittedIsAnswered, StartedTasksRun, CallsEnd,
StalledClientHoldsUpNobody, RelayListens, AgentComesBack, DrawerCatchesUp), whose fairness and ENABLED are out of this prover's reach.
That the sets of `Evaluator` are what its search loops compute is a matter of reading: a proof for every input needs induction over data.

## 5. Not modelled, and the plan

Order of further work:

1. `OutputCapture` for the capped streams of the runner, and the stored outputs.
2. The branch of `main.rs` that runs as a Windows service. It takes another lock: `agent.lock` beside the named pipe (`main.rs:289`), not the
   one in the data directory (`main.rs:67`), so what `AgentProcess` says of one lock holds among the agents that run as a service, as far as Windows
   creates a file there, and among the others, not between the two.

Left out because they do not happen: an error of `serde_json::to_value` on the run that `trigger_now` returns (`service.rs:778`), which would
leave the slot taken and the run unstarted; a run consists of strings and numbers, and serializing it does not fail.

Left out for good: cron parsing (the croner library), the settings row (only its retention matters, and a purge in Execution covers
every retention), logging, notifications, tray and window code, the task editor, views that only render, icons and
generated schemas. They are calls to libraries and the platform, or presentation, without state the properties could speak about.
