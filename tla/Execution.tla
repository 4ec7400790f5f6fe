------------------------------ MODULE Execution ------------------------------
(***************************************************************************)
(* The life of an execution: the dispatcher of apps/agent/src/service.rs,  *)
(* the handler of task.trigger_now, the ExecutionManager that admits runs, *)
(* the ProcessRunner, the task_runs table, cancellation, log purging, the  *)
(* shutdown of the agent, its crashes and the recovery at its next start.  *)
(*                                                                         *)
(* A run is started by the dispatcher (an event of the scheduler) or by a  *)
(* trigger_now handler; the dispatcher starts one run at a time, handlers  *)
(* run concurrently with it and with each other.  Every await of the code  *)
(* between two of its effects is a step boundary here.                     *)
(*                                                                         *)
(*   idle - found - permit - slot - created - running <-> child [- killing] *)
(*     - finishing - updated - announced - deregistered - released - done   *)
(*                                                                         *)
(* Output streams and child processes that outlive the agent are left out. *)
(***************************************************************************)
EXTENDS Integers, FiniteSets

CONSTANTS Tasks,          \* task ids
          Runs,           \* execution ids
          Policies,       \* concurrency policies clients may choose
          MaxConcurrent,  \* permits of the global semaphore
          MaxActions,     \* bound: enabled actions of a task
          MaxBoots,       \* bound: starts of the agent
          DbErrors,       \* the database calls that may fail
          None

AllPolicies == {"AllowParallel", "SkipIfRunning", "QueueOne"}

ASSUME PolicyAssumption == Policies \subseteq AllPolicies
ASSUME BoundAssumption ==
    MaxConcurrent \in Nat /\ MaxActions \in Nat /\ MaxBoots \in Nat
ASSUME DbErrorsAssumption == DbErrors \subseteq {"find_by_id", "create_run", "update_run"}
ASSUME RunsAssumption == IsFiniteSet(Runs)
\* The parts of a saved task that matter here: its policy and the number of
\* its enabled actions.
TaskRow == [policy : Policies, actions : 0 .. MaxActions]
Terminal == {"Succeeded", "Failed", "TimedOut", "Cancelled", "Interrupted"}
Status == Terminal \cup {"Running"}
ASSUME NoneAssumption ==
    /\ None \notin TaskRow /\ None \notin Int /\ None \notin Tasks
    /\ None \notin Status /\ None \notin {"dispatch", "rpc"}

VARIABLES
    taskRow,      \* the tasks table
    row,          \* the status of each run in the task_runs table
    run,          \* what the task driving each run knows
    counts,       \* ExecutionManager.task_running_counts (0: no entry)
    permits,      \* permits left in ExecutionManager.global_limiter
    active,       \* active_executions
    execCancel,   \* exec_cancel_token is cancelled
    purges,       \* tasks with a spawned retention purge
    dispatching,  \* the dispatcher is alive
    phase,        \* where AgentService::run is, or "down"
    boots,        \* starts of the agent so far
    drained,      \* history: the shutdown wait ended with no run left
    lost          \* history: runs whose update_run failed

dbVars == <<taskRow, row>>
managerVars == <<counts, permits>>
agentVars == <<execCancel, dispatching, phase, boots, drained>>
vars == <<taskRow, row, run, counts, permits, active, execCancel, purges,
          dispatching, phase, boots, drained, lost>>

\* Stages of a run that hold a slot of its task, and a global permit.
HoldsSlot == {"slot", "created", "running", "child", "killing", "finishing",
              "updated", "announced", "deregistered", "failed"}
HoldsPermit == HoldsSlot \cup {"permit", "released"}
Starting == HoldsPermit \cup {"found"}
Ended == {"refused", "skipped", "done", "gone"}

SlotHolders(t) == {r \in Runs : run[r].pc \in HoldsSlot /\ run[r].task = t}
PermitHolders == {r \in Runs : run[r].pc \in HoldsPermit}

RunState == [pc : Starting \cup Ended \cup {"idle"},
             src : {"dispatch", "rpc", None},
             task : Tasks \cup {None},
             policy : Policies \cup {None},
             left : Int,
             final : Terminal \cup {None},
             cancelledAt : Int \cup {None}]

NoRun == [pc |-> "idle", src |-> None, task |-> None, policy |-> None,
          left |-> 0, final |-> None, cancelledAt |-> None]

Init ==
    /\ taskRow = [t \in Tasks |-> None]
    /\ row = [r \in Runs |-> None]
    /\ run = [r \in Runs |-> NoRun]
    /\ counts = [t \in Tasks |-> 0]
    /\ permits = MaxConcurrent
    /\ active = {} /\ execCancel = FALSE /\ purges = {}
    /\ dispatching = TRUE /\ phase = "up" /\ boots = 1
    /\ drained = FALSE /\ lost = {}

Goto(r, to) == run' = [run EXCEPT ![r].pc = to]

\* The future of a run ends; its row, if any, still refers to the task.
EndedRun(r, st) == [NoRun EXCEPT !.pc = st, !.task = run[r].task]
End(r, st) == run' = [run EXCEPT ![r] = EndedRun(r, st)]

-----------------------------------------------------------------------------
(* Starting a run.                                                         *)

\* find_by_id: the run works on this snapshot of the task from now on.
Find(r, src, t) ==
    /\ run[r].pc = "idle"
    /\ \/ /\ taskRow[t] # None
          /\ run' = [run EXCEPT ![r] =
                [NoRun EXCEPT !.pc = "found", !.src = src, !.task = t,
                              !.policy = taskRow[t].policy,
                              !.left = taskRow[t].actions]]
       \/ /\ taskRow[t] = None \/ "find_by_id" \in DbErrors
          /\ run' = [run EXCEPT ![r].pc = "refused"]
    /\ UNCHANGED <<dbVars, managerVars, active, agentVars, purges, lost>>

DispatcherBusy == \E r \in Runs : run[r].src = "dispatch" /\ run[r].pc \in {"found", "permit"}

\* The dispatcher receives a trigger event.
Dispatch(r, t) ==
    /\ dispatching /\ ~DispatcherBusy
    /\ Find(r, "dispatch", t)

\* task.trigger_now: handlers run as long as the process does.
HandleTriggerNow(r, t) ==
    /\ phase # "down"
    /\ Find(r, "rpc", t)

\* global_semaphore().try_acquire_owned()
AcquirePermit(r) ==
    /\ run[r].pc = "found"
    /\ \/ /\ permits > 0
          /\ Goto(r, "permit")
          /\ permits' = permits - 1
       \/ /\ permits = 0
          /\ End(r, "refused")
          /\ UNCHANGED permits
    /\ UNCHANGED <<dbVars, counts, active, agentVars, purges, lost>>

\* Fault: off by one in the check of SkipIfRunning.
AdmitsSecond(policy, count) ==
    \/ policy = "AllowParallel"
    \/ policy = "SkipIfRunning" /\ count <= 1
    \/ policy = "QueueOne" /\ count < 2

\* Whether try_acquire_slot admits a run beside `count` others of its task.
Admits(policy, count) ==
    \/ policy = "AllowParallel"
    \/ policy = "SkipIfRunning" /\ count = 0
    \/ policy = "QueueOne" /\ count < 2

\* A run that is not admitted gives its permit back; nothing is recorded.
TryAcquireSlot(r) ==
    /\ run[r].pc = "permit"
    /\ LET t == run[r].task
       IN  \/ /\ Admits(run[r].policy, counts[t])
              /\ Goto(r, "slot")
              /\ counts' = [counts EXCEPT ![t] = @ + 1]
              /\ UNCHANGED permits
           \/ /\ ~Admits(run[r].policy, counts[t])
              /\ End(r, "skipped")
              /\ permits' = permits + 1
              /\ UNCHANGED counts
    /\ UNCHANGED <<dbVars, active, agentVars, purges, lost>>

\* Fault: the error path of create_run keeps the slot.
CreateRunLeaks(r) ==
    /\ run[r].pc = "slot"
    /\ \/ /\ taskRow[run[r].task] # None
          /\ Goto(r, "created")
          /\ row' = [row EXCEPT ![r] = "Running"]
       \/ /\ taskRow[run[r].task] = None \/ "create_run" \in DbErrors
          /\ Goto(r, "released")
          /\ UNCHANGED row
    /\ UNCHANGED <<taskRow, managerVars, active, agentVars, purges, lost>>

\* create_run: fails if the task is gone (foreign key) or the database errs.
CreateRun(r) ==
    /\ run[r].pc = "slot"
    /\ \/ /\ taskRow[run[r].task] # None
          /\ Goto(r, "created")
          /\ row' = [row EXCEPT ![r] = "Running"]
       \/ /\ taskRow[run[r].task] = None \/ "create_run" \in DbErrors
          /\ Goto(r, "failed")
          /\ UNCHANGED row
    /\ UNCHANGED <<taskRow, managerVars, active, agentVars, purges, lost>>

\* Register the cancel token: a child of exec_cancel_token, so it is born
\* cancelled during a shutdown.
Register(r) ==
    /\ run[r].pc = "created"
    /\ run' = [run EXCEPT ![r].pc = "running",
                          ![r].cancelledAt = IF execCancel THEN run[r].left ELSE @]
    /\ active' = active \cup {r}
    /\ UNCHANGED <<dbVars, managerVars, agentVars, purges, lost>>

-----------------------------------------------------------------------------
(* Running its actions.                                                    *)

Cancelled(r) == run[r].cancelledAt # None

\* Fault: the next action starts without a look at the token.
StartActionUnchecked(r) ==
    /\ run[r].pc = "running"
    /\ \/ /\ run[r].left = 0
          /\ run' = [run EXCEPT ![r].pc = "finishing", ![r].final = "Succeeded"]
       \/ /\ run[r].left > 0
          /\ run' = [run EXCEPT ![r].pc = "child"]
    /\ UNCHANGED <<dbVars, managerVars, active, agentVars, purges, lost>>

\* run_action, up to the spawned child.
StartAction(r) ==
    /\ run[r].pc = "running"
    /\ \/ /\ run[r].left = 0
          /\ run' = [run EXCEPT ![r].pc = "finishing", ![r].final = "Succeeded"]
       \/ /\ run[r].left > 0 /\ Cancelled(r)
          /\ run' = [run EXCEPT ![r].pc = "finishing", ![r].final = "Cancelled"]
       \/ /\ run[r].left > 0 /\ ~Cancelled(r)
          /\ \/ run' = [run EXCEPT ![r].pc = "child"]
             \/ run' = [run EXCEPT ![r].pc = "finishing", ![r].final = "Failed"]
    /\ UNCHANGED <<dbVars, managerVars, active, agentVars, purges, lost>>

\* The child exits: success goes on to the next action.
ChildExits(r) ==
    /\ run[r].pc = "child"
    /\ \/ run' = [run EXCEPT ![r].pc = "running", ![r].left = @ - 1]
       \/ run' = [run EXCEPT ![r].pc = "finishing", ![r].final = "Failed"]
    /\ UNCHANGED <<dbVars, managerVars, active, agentVars, purges, lost>>

\* A cancelled or overdue child is killed, with its process tree, ...
KillChild(r, status) ==
    /\ run[r].pc = "child"
    /\ status = "Cancelled" => Cancelled(r)
    /\ run' = [run EXCEPT ![r].pc = "killing", ![r].final = status]
    /\ UNCHANGED <<dbVars, managerVars, active, agentVars, purges, lost>>

\* ... and waited for.
ReapChild(r) ==
    /\ run[r].pc = "killing"
    /\ Goto(r, "finishing")
    /\ UNCHANGED <<dbVars, managerVars, active, agentVars, purges, lost>>

-----------------------------------------------------------------------------
(* Ending a run.                                                           *)

\* update_run, whose error is only logged; a deleted row stays deleted.  The
\* retention purge is spawned after it.
UpdateRun(r) ==
    /\ run[r].pc = "finishing"
    /\ Goto(r, "updated")
    /\ \/ /\ row' = [row EXCEPT ![r] = IF @ = None THEN None ELSE run[r].final]
          /\ UNCHANGED lost
       \/ /\ "update_run" \in DbErrors
          /\ lost' = lost \cup {r}
          /\ UNCHANGED row
    /\ purges' = purges \cup {run[r].task}
    /\ UNCHANGED <<taskRow, managerVars, active, agentVars>>

\* Fault: execution.finished may be sent before the row is updated.
AnnounceEarly(r) ==
    /\ run[r].pc \in {"finishing", "updated"}
    /\ Goto(r, "announced")
    /\ UNCHANGED <<dbVars, managerVars, active, agentVars, purges, lost>>

\* The execution.finished event is broadcast.
Announce(r) ==
    /\ run[r].pc = "updated"
    /\ Goto(r, "announced")
    /\ UNCHANGED <<dbVars, managerVars, active, agentVars, purges, lost>>

Deregister(r) ==
    /\ run[r].pc = "announced"
    /\ Goto(r, "deregistered")
    /\ active' = active \ {r}
    /\ UNCHANGED <<dbVars, managerVars, agentVars, purges, lost>>

\* Fault: a run that failed to start does not go on to release.
ReleaseSlotFinishedOnly(r) ==
    /\ run[r].pc = "deregistered"
    /\ Goto(r, "released")
    /\ counts' = [counts EXCEPT ![run[r].task] = IF @ > 0 THEN @ - 1 ELSE @]
    /\ UNCHANGED <<dbVars, permits, active, agentVars, purges, lost>>

ReleaseSlot(r) ==
    /\ run[r].pc \in {"deregistered", "failed"}
    /\ Goto(r, "released")
    /\ counts' = [counts EXCEPT ![run[r].task] = IF @ > 0 THEN @ - 1 ELSE @]
    /\ UNCHANGED <<dbVars, permits, active, agentVars, purges, lost>>

\* The permit is dropped with the future that holds it.
DropPermit(r) ==
    /\ run[r].pc = "released"
    /\ End(r, "done")
    /\ permits' = permits + 1
    /\ UNCHANGED <<dbVars, counts, active, agentVars, purges, lost>>

-----------------------------------------------------------------------------
(* The other handlers.                                                     *)

\* execution.cancel
CancelExecution(r) ==
    /\ phase # "down"
    /\ r \in active /\ ~Cancelled(r)
    /\ run' = [run EXCEPT ![r].cancelledAt = run[r].left]
    /\ UNCHANGED <<dbVars, managerVars, active, agentVars, purges, lost>>

SaveTask(t, saved) ==
    /\ phase # "down"
    /\ taskRow' = [taskRow EXCEPT ![t] = saved]
    /\ UNCHANGED <<row, run, managerVars, active, agentVars, purges, lost>>

\* The rows of its runs go with the task (ON DELETE CASCADE).
DeleteTask(t) ==
    /\ phase # "down"
    /\ taskRow[t] # None
    /\ taskRow' = [taskRow EXCEPT ![t] = None]
    /\ row' = [r \in Runs |-> IF run[r].task = t THEN None ELSE row[r]]
    /\ UNCHANGED <<run, managerVars, active, agentVars, purges, lost>>

\* Fault: the purge does not spare running executions.
PurgeRunning(t) ==
    /\ t \in purges
    /\ \E expired \in SUBSET {r \in Runs : run[r].task = t} :
          row' = [r \in Runs |-> IF r \in expired THEN None ELSE row[r]]
    /\ purges' = purges \ {t}
    /\ UNCHANGED <<taskRow, run, managerVars, active, agentVars, lost>>

\* purge_expired_runs: some finished runs of the task have expired.  A task
\* that keeps its logs for ever purges none.
Purge(t) ==
    /\ t \in purges
    /\ \E expired \in SUBSET {r \in Runs : run[r].task = t /\ row[r] \in Terminal} :
          row' = [r \in Runs |-> IF r \in expired THEN None ELSE row[r]]
    /\ purges' = purges \ {t}
    /\ UNCHANGED <<taskRow, run, managerVars, active, agentVars, lost>>

-----------------------------------------------------------------------------
(* Shutdown, crash and restart.                                            *)

\* Shutdown is notified: both tokens are cancelled.
NotifyShutdown ==
    /\ phase = "up"
    /\ phase' = "stopping"
    /\ execCancel' = TRUE
    /\ run' = [r \in Runs |->
                 IF run[r].pc \in HoldsSlot /\ ~Cancelled(r)
                 THEN [run[r] EXCEPT !.cancelledAt = run[r].left] ELSE run[r]]
    /\ UNCHANGED <<dbVars, managerVars, active, dispatching, boots, drained, purges, lost>>

\* Fault: the dispatcher is not awaited.
EndDispatcherUnawaited ==
    /\ phase = "stopping"
    /\ dispatching' = FALSE
    /\ phase' = "waiting"
    /\ UNCHANGED <<dbVars, run, managerVars, active, execCancel, boots, drained,
                   purges, lost>>

\* The dispatcher breaks out of its loop and is awaited.
EndDispatcher ==
    /\ phase = "stopping" /\ ~DispatcherBusy
    /\ dispatching' = FALSE
    /\ phase' = "waiting"
    /\ UNCHANGED <<dbVars, run, managerVars, active, execCancel, boots, drained,
                   purges, lost>>

\* The wait for in-flight executions ends: none is left, or 5s have passed.
EndWait ==
    /\ phase = "waiting"
    /\ \/ /\ \A t \in Tasks : counts[t] = 0
          /\ drained' = TRUE
       \/ /\ \E t \in Tasks : counts[t] > 0
          /\ UNCHANGED drained
    /\ phase' = "leaving"
    /\ UNCHANGED <<dbVars, run, managerVars, active, execCancel, dispatching, boots,
                   purges, lost>>

\* The process ends: only the database survives.
Halt ==
    /\ phase' = "down"
    /\ run' = [r \in Runs |-> IF run[r].pc \in Starting
                              THEN EndedRun(r, "gone") ELSE run[r]]
    /\ counts' = [t \in Tasks |-> 0]
    /\ permits' = MaxConcurrent
    /\ active' = {} /\ purges' = {}
    /\ execCancel' = FALSE /\ dispatching' = FALSE /\ drained' = FALSE
    /\ UNCHANGED <<dbVars, boots, lost>>

\* Fault: the process only ends once nothing runs any more.
ExitDrained == phase = "leaving" /\ drained /\ Halt

Exit == phase = "leaving" /\ Halt

\* A crash, a kill, or Ctrl-C, which drops the service without a shutdown.
Crash == phase # "down" /\ Halt

\* Fault: the agent starts without the recovery.
BootUnrecovered ==
    /\ phase = "down" /\ boots < MaxBoots
    /\ phase' = "up" /\ dispatching' = TRUE
    /\ boots' = boots + 1
    /\ UNCHANGED <<dbVars, run, managerVars, active, execCancel, drained, purges, lost>>

\* recover_dangling_executions, then the agent is up again.
Boot ==
    /\ phase = "down" /\ boots < MaxBoots
    /\ row' = [r \in Runs |-> IF row[r] = "Running" THEN "Interrupted" ELSE row[r]]
    /\ phase' = "up" /\ dispatching' = TRUE
    /\ boots' = boots + 1
    /\ UNCHANGED <<taskRow, run, managerVars, active, execCancel, drained, purges, lost>>

-----------------------------------------------------------------------------
\* What drives a run on, once it has started.
RunStep(r) ==
    \/ AcquirePermit(r) \/ TryAcquireSlot(r) \/ CreateRun(r) \/ Register(r)
    \/ StartAction(r) \/ ChildExits(r)
    \/ \E status \in {"Cancelled", "TimedOut"} : KillChild(r, status)
    \/ ReapChild(r) \/ UpdateRun(r) \/ Announce(r) \/ Deregister(r)
    \/ ReleaseSlot(r) \/ DropPermit(r)

Next ==
    \/ \E r \in Runs, t \in Tasks : Dispatch(r, t) \/ HandleTriggerNow(r, t)
    \/ \E r \in Runs : RunStep(r)
    \/ \E r \in Runs : CancelExecution(r)
    \/ \E t \in Tasks : (\E saved \in TaskRow : SaveTask(t, saved)) \/ DeleteTask(t) \/ Purge(t)
    \/ NotifyShutdown \/ EndDispatcher \/ EndWait \/ Exit \/ Crash \/ Boot

Spec == Init /\ [][Next]_vars
-----------------------------------------------------------------------------
(* Properties.                                                             *)

\* Type correctness of the runs, the manager, the tables and the agent.
TypeOK ==
    /\ taskRow \in [Tasks -> TaskRow \cup {None}]
    /\ row \in [Runs -> Status \cup {None}]
    /\ run \in [Runs -> RunState]
    /\ counts \in [Tasks -> Nat]
    /\ permits \in Nat
    /\ active \subseteq Runs
    /\ execCancel \in BOOLEAN /\ dispatching \in BOOLEAN /\ drained \in BOOLEAN
    /\ purges \subseteq Tasks
    /\ phase \in {"up", "stopping", "waiting", "leaving", "down"}
    /\ boots \in Nat
    /\ lost \subseteq Runs

\* No slot and no permit is leaked or given back twice, on any path of
\* any starter: refused, failed, cancelled, deleted and finished runs alike.
\* A leaked slot would keep a SkipIfRunning task from ever running again.
Accounting ==
    /\ \A t \in Tasks : counts[t] = Cardinality(SlotHolders(t))
    /\ permits = MaxConcurrent - Cardinality(PermitHolders)

\* Two runs of a task that were admitted under SkipIfRunning never overlap, nor
\* three under QueueOne, though two starters decide from snapshots of the task
\* that may be old by then.
PolicyRespected ==
    \A t \in Tasks :
        /\ \A r, s \in SlotHolders(t) :
              run[r].policy = "SkipIfRunning" /\ run[s].policy = "SkipIfRunning" => r = s
        /\ \A r, s, u \in SlotHolders(t) :
              (\A x \in {r, s, u} : run[x].policy = "QueueOne") => r = s \/ s = u \/ r = u

\* What can be cancelled is registered exactly while its run may be running: a
\* finished run is never left in active_executions.
ActiveAreRunning ==
    active = {r \in Runs : run[r].pc \in {"running", "child", "killing", "finishing",
                                          "updated", "announced"}}

\* While the agent is up, a row says Running only if a live run will still
\* update it, and active_executions has live runs only: whatever the agent died
\* of, no ghost run stays on the screen, or can be cancelled.  The one exception
\* is a run whose final update_run failed.
NoGhostRuns ==
    /\ ActiveAreRunning
    /\ phase # "down" =>
        \A r \in Runs : row[r] = "Running" =>
            \/ run[r].pc \in {"created", "running", "child", "killing", "finishing"}
            \/ r \in lost

\* When a client hears execution.finished and fetches the run, it does not find
\* it Running, unless the final update failed.
FinishedIsStored ==
    \A r \in Runs :
        run[r].pc \in {"announced", "deregistered"} /\ r \notin lost =>
            row[r] \in {run[r].final, None}

\* After a cancel (of the run, or of all at shutdown) at most the action in
\* progress still completes; no later action starts.
CancelStops ==
    \A r \in Runs : Cancelled(r) =>
        run[r].left >= run[r].cancelledAt - (IF run[r].pc = "child" THEN 0 ELSE 1)

\* A shutdown that did not time out ends every run the dispatcher has started
\* before the scheduler is told to stop and the process exits.
DrainedDispatch ==
    phase = "leaving" /\ drained =>
        \A r \in Runs : run[r].src = "dispatch" => run[r].pc \in Ended \cup {"released"}

\* The row of a run: created once as Running, then one terminal status that
\* nothing rewrites; only a task delete removes a row that is Running.
RowLifecycle ==
    [][\A r \in Runs :
        \/ row'[r] = row[r]
        \/ row[r] = None /\ row'[r] = "Running" /\ run[r].pc = "slot"
        \/ row[r] = "Running" /\ row'[r] \in {run[r].final, "Interrupted"}
        \/ row[r] = "Running" /\ row'[r] = None /\ taskRow'[run[r].task] = None
        \/ row[r] \in Terminal /\ row'[r] = None]_vars

\* Fairness: the runtime polls every run; a child ends, at the latest by its
\* timeout (one day unless the task sets one) and the kill that follows it.
\* The select! of the dispatcher chooses the cancelled branch in the long run.
Fairness ==
    /\ \A r \in Runs : WF_vars(RunStep(r))
    /\ SF_vars(EndDispatcher) /\ WF_vars(EndWait) /\ WF_vars(Exit)

FairSpec == Spec /\ Fairness

\* Every run that starts ends and gives back what it holds, whatever is
\* cancelled, deleted or failing around it.
RunsEnd == \A r \in Runs : (run[r].pc \in Starting) ~> (run[r].pc \in Ended)

\* A shutdown ends, even with executions that do not.
ShutdownEnds == (phase = "stopping") ~> (phase = "down")
=============================================================================
