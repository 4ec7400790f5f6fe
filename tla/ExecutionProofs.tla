--------------------------- MODULE ExecutionProofs ---------------------------
(***************************************************************************)
(* Theorems about Execution, for any sets of tasks and runs, any number of *)
(* permits and any database errors:                                        *)
(*                                                                         *)
(*   TypeCorrect        every step keeps the types;                        *)
(*   AccountingCorrect  slots and permits are neither leaked nor returned  *)
(*                      twice;                                             *)
(*   PolicyCorrect      the concurrency policies hold;                     *)
(*   NoGhostRunsCorrect       no row stays Running without a run;          *)
(*   FinishedIsStoredCorrect  a finished run is stored before it is        *)
(*                            announced;                                   *)
(*   CancelStopsCorrect       a cancel stops the actions that follow;      *)
(*   DrainedDispatchCorrect   a shutdown that did not time out has ended   *)
(*                            every run of the dispatcher;                 *)
(*   RowLifecycleCorrect      the statuses a row goes through.             *)
(*                                                                         *)
(* Accounting is inductive once a live run is known to belong to a task.   *)
(* PolicyRespected is inductive on top of it: try_acquire_slot decides by  *)
(* the counter alone, and Accounting says that the counter is the number   *)
(* of runs that hold a slot.                                               *)
(* For the others RunStepMoves says once what a step does to the run that  *)
(* takes it; each part of the inductive invariant RunInv is proved from it *)
(* and from Accounting.                                                    *)
(***************************************************************************)
EXTENDS Execution, FiniteSetTheorems, TLAPS

\* A live run works for a task.
Tasked == \A r \in Runs : run[r].pc \in Starting => run[r].task \in Tasks

Typed == TypeOK /\ Tasked

\* The stages, as one set.
Stages == Starting \cup Ended \cup {"idle"}

\* The run states that the actions write are run states.
LEMMA RunStates ==
    ASSUME NEW x \in RunState
    PROVE  /\ \A pc \in Stages : [x EXCEPT !.pc = pc] \in RunState
           /\ \A pc \in Stages, final \in Terminal :
                 [x EXCEPT !.pc = pc, !.final = final] \in RunState
           /\ \A pc \in Stages, left \in Int :
                 [x EXCEPT !.pc = pc, !.left = left] \in RunState
           /\ \A pc \in Stages, at \in Int \cup {None} :
                 [x EXCEPT !.pc = pc, !.cancelledAt = at] \in RunState
           /\ \A at \in Int \cup {None} : [x EXCEPT !.cancelledAt = at] \in RunState
           /\ \A pc \in Stages : [NoRun EXCEPT !.pc = pc, !.task = x.task] \in RunState
<1>1. \A pc \in Stages : [x EXCEPT !.pc = pc] \in RunState
  BY DEF RunState, Stages
<1>2. \A pc \in Stages, final \in Terminal :
         [x EXCEPT !.pc = pc, !.final = final] \in RunState
  BY DEF RunState, Stages
<1>3. \A pc \in Stages, left \in Int : [x EXCEPT !.pc = pc, !.left = left] \in RunState
  BY DEF RunState, Stages
<1>4. \A pc \in Stages, at \in Int \cup {None} :
         [x EXCEPT !.pc = pc, !.cancelledAt = at] \in RunState
  BY DEF RunState, Stages
<1>5. \A at \in Int \cup {None} : [x EXCEPT !.cancelledAt = at] \in RunState
  BY DEF RunState
<1>6. \A pc \in Stages : [NoRun EXCEPT !.pc = pc, !.task = x.task] \in RunState
  <2>1. x.task \in Tasks \cup {None}
    BY DEF RunState
  <2>2. \A st \in Stages, t \in Tasks \cup {None} :
           [NoRun EXCEPT !.pc = st, !.task = t] \in RunState
    <3>1. NoRun \in RunState
      BY DEF NoRun, RunState
    <3>2. \A y \in RunState, st \in Stages, t \in Tasks \cup {None} :
             [y EXCEPT !.pc = st, !.task = t] \in RunState
      BY DEF RunState, Stages
    <3> QED
      BY <3>1, <3>2
  <2> QED
    BY <2>1, <2>2
<1> QED
  BY <1>1, <1>2, <1>3, <1>4, <1>5, <1>6

\* A run that find_by_id has found is a run state.
LEMMA FoundState ==
    ASSUME NEW src \in {"dispatch", "rpc"}, NEW t \in Tasks, NEW saved \in TaskRow
    PROVE  [NoRun EXCEPT !.pc = "found", !.src = src, !.task = t,
                         !.policy = saved.policy, !.left = saved.actions] \in RunState
<1>1. saved.policy \in Policies /\ saved.actions \in Int
  BY BoundAssumption DEF TaskRow
<1> QED
  BY <1>1 DEF RunState, NoRun, Starting, HoldsPermit

\* One run gets a new state; a live one keeps or gets a task.
LEMMA SetRun ==
    ASSUME Typed, NEW r \in Runs, NEW v \in RunState,
           run' = [run EXCEPT ![r] = v],
           v.pc \in Starting => v.task \in Tasks
    PROVE  run' \in [Runs -> RunState] /\ Tasked'
BY DEF Typed, TypeOK, Tasked

\* The stages of the code are stages.
LEMMA StageFacts ==
    /\ HoldsSlot \subseteq HoldsPermit /\ HoldsPermit \subseteq Starting
    /\ Starting \subseteq Stages /\ Ended \subseteq Stages
    /\ "found" \in Starting /\ "idle" \notin Starting
    /\ Starting \cap Ended = {}
BY DEF HoldsSlot, HoldsPermit, Starting, Ended, Stages

\* A live run goes on to another stage.
LEMMA GotoTyped ==
    ASSUME Typed, NEW r \in Runs, NEW to \in Stages, Goto(r, to),
           run[r].pc \in Starting
    PROVE  run' \in [Runs -> RunState] /\ Tasked'
<1> DEFINE v == [run[r] EXCEPT !.pc = to]
<1>1. run[r] \in RunState
  BY DEF Typed, TypeOK
<1>2. v \in RunState
  BY <1>1, RunStates
<1>3. v.task = run[r].task
  BY <1>1 DEF RunState
<1>4. run[r].task \in Tasks
  BY DEF Typed, Tasked
<1>5. run' = [run EXCEPT ![r] = v]
  BY DEF Goto
<1> QED
  BY <1>2, <1>3, <1>4, <1>5, SetRun

\* A live run ends.
LEMMA EndTyped ==
    ASSUME Typed, NEW r \in Runs, NEW st \in Ended, End(r, st)
    PROVE  run' \in [Runs -> RunState] /\ Tasked'
<1>1. run[r] \in RunState
  BY DEF Typed, TypeOK
<1>2. EndedRun(r, st) \in RunState
  BY <1>1, RunStates, StageFacts DEF EndedRun
<1>3. EndedRun(r, st).pc = st /\ st \notin Starting
  BY StageFacts DEF EndedRun, NoRun
<1> QED
  BY <1>2, <1>3, SetRun DEF End

\* find_by_id keeps the types.
LEMMA FindTyped ==
    ASSUME Typed, NEW r \in Runs, NEW src \in {"dispatch", "rpc"}, NEW t \in Tasks,
           Find(r, src, t)
    PROVE  Typed'
<1>1. UNCHANGED <<dbVars, managerVars, active, agentVars, purges, lost>>
  BY DEF Find
<1>2. run' \in [Runs -> RunState] /\ Tasked'
  <2>1. CASE /\ taskRow[t] # None
             /\ run' = [run EXCEPT ![r] =
                   [NoRun EXCEPT !.pc = "found", !.src = src, !.task = t,
                                 !.policy = taskRow[t].policy,
                                 !.left = taskRow[t].actions]]
    <3> DEFINE v == [NoRun EXCEPT !.pc = "found", !.src = src, !.task = t,
                                  !.policy = taskRow[t].policy,
                                  !.left = taskRow[t].actions]
    <3>1. taskRow[t] \in TaskRow
      BY <2>1 DEF Typed, TypeOK
    <3>2. v \in RunState
      BY <3>1, FoundState
    <3>3. v.task = t
      BY DEF NoRun
    <3> HIDE DEF v
    <3> QED
      BY <2>1, <3>2, <3>3, SetRun DEF v
  <2>2. CASE run' = [run EXCEPT ![r].pc = "refused"]
    <3> DEFINE v == [run[r] EXCEPT !.pc = "refused"]
    <3>1. run[r] \in RunState
      BY DEF Typed, TypeOK
    <3>2. v \in RunState
      BY <3>1, RunStates DEF Stages, Ended
    <3>3. v.pc = "refused" /\ v.pc \notin Starting
      BY <3>1, StageFacts DEF RunState, Ended
    <3>4. run' = [run EXCEPT ![r] = v]
      BY <2>2
    <3> HIDE DEF v
    <3> QED
      BY <3>2, <3>3, <3>4, SetRun
  <2> QED
    BY <2>1, <2>2 DEF Find
<1> QED
  BY <1>1, <1>2 DEF Typed, TypeOK, dbVars, managerVars, agentVars

\* A live run moves and its outcome, its actions or its token change with it.
LEMMA MoveTyped ==
    ASSUME Typed, NEW r \in Runs, NEW to \in Stages,
           run[r].pc \in Starting,
           \/ \E final \in Terminal :
                 run' = [run EXCEPT ![r].pc = to, ![r].final = final]
           \/ \E left \in Int : run' = [run EXCEPT ![r].pc = to, ![r].left = left]
           \/ \E at \in Int \cup {None} :
                 run' = [run EXCEPT ![r].pc = to, ![r].cancelledAt = at]
    PROVE  run' \in [Runs -> RunState] /\ Tasked'
<1>1. run[r] \in RunState /\ run[r].task \in Tasks
  BY DEF Typed, TypeOK, Tasked
<1>2. \E v \in RunState : v.task = run[r].task /\ run' = [run EXCEPT ![r] = v]
  <2>1. CASE \E final \in Terminal :
                 run' = [run EXCEPT ![r].pc = to, ![r].final = final]
    <3>1. PICK final \in Terminal :
                 run' = [run EXCEPT ![r].pc = to, ![r].final = final]
      BY <2>1
    <3> DEFINE v == [run[r] EXCEPT !.pc = to, !.final = final]
    <3>2. v \in RunState /\ v.task = run[r].task
      BY <1>1, RunStates DEF RunState
    <3>3. run' = [run EXCEPT ![r] = v]
      BY <3>1, <1>1 DEF Typed, TypeOK
    <3> QED
      BY <3>2, <3>3
  <2>2. CASE \E left \in Int : run' = [run EXCEPT ![r].pc = to, ![r].left = left]
    <3>1. PICK left \in Int : run' = [run EXCEPT ![r].pc = to, ![r].left = left]
      BY <2>2
    <3> DEFINE v == [run[r] EXCEPT !.pc = to, !.left = left]
    <3>2. v \in RunState /\ v.task = run[r].task
      BY <1>1, RunStates DEF RunState
    <3>3. run' = [run EXCEPT ![r] = v]
      BY <3>1, <1>1 DEF Typed, TypeOK
    <3> QED
      BY <3>2, <3>3
  <2>3. CASE \E at \in Int \cup {None} :
                 run' = [run EXCEPT ![r].pc = to, ![r].cancelledAt = at]
    <3>1. PICK at \in Int \cup {None} :
                 run' = [run EXCEPT ![r].pc = to, ![r].cancelledAt = at]
      BY <2>3
    <3> DEFINE v == [run[r] EXCEPT !.pc = to, !.cancelledAt = at]
    <3>2. v \in RunState /\ v.task = run[r].task
      BY <1>1, RunStates DEF RunState
    <3>3. run' = [run EXCEPT ![r] = v]
      BY <3>1, <1>1 DEF Typed, TypeOK
    <3> QED
      BY <3>2, <3>3
  <2> QED
    BY <2>1, <2>2, <2>3
<1> QED
  BY <1>1, <1>2, SetRun

\* Every step of a run keeps the types.
LEMMA RunStepTyped ==
    ASSUME Typed, NEW r \in Runs, RunStep(r)
    PROVE  Typed'
<1> USE DEF dbVars, managerVars, agentVars
<1>1. CASE AcquirePermit(r)
  <2>1. run' \in [Runs -> RunState] /\ Tasked'
    <3>1. run[r].pc \in Starting /\ "permit" \in Stages /\ "refused" \in Ended
      BY <1>1 DEF AcquirePermit, Stages, Starting, HoldsPermit, Ended
    <3> QED
      BY <1>1, <3>1, GotoTyped, EndTyped DEF AcquirePermit
  <2>2. permits' \in Nat
    BY <1>1 DEF AcquirePermit, Typed, TypeOK
  <2> QED
    BY <1>1, <2>1, <2>2 DEF AcquirePermit, Typed, TypeOK
<1>2. CASE TryAcquireSlot(r)
  <2>1. run[r].pc \in Starting /\ "slot" \in Stages /\ "skipped" \in Ended
    BY <1>2 DEF TryAcquireSlot, Stages, Starting, HoldsPermit, HoldsSlot, Ended
  <2>2. run' \in [Runs -> RunState] /\ Tasked'
    BY <1>2, <2>1, GotoTyped, EndTyped DEF TryAcquireSlot
  <2>3. permits' \in Nat
    BY <1>2 DEF TryAcquireSlot, Typed, TypeOK
  <2>4. counts' \in [Tasks -> Nat]
    BY <1>2 DEF TryAcquireSlot, Typed, TypeOK
  <2> QED
    BY <1>2, <2>2, <2>3, <2>4 DEF TryAcquireSlot, Typed, TypeOK
<1>3. CASE CreateRun(r)
  <2>1. run[r].pc \in Starting /\ "created" \in Stages /\ "failed" \in Stages
    BY <1>3 DEF CreateRun, Stages, Starting, HoldsPermit, HoldsSlot
  <2>2. run' \in [Runs -> RunState] /\ Tasked'
    BY <1>3, <2>1, GotoTyped DEF CreateRun
  <2>3. row' \in [Runs -> Status \cup {None}]
    BY <1>3 DEF CreateRun, Typed, TypeOK, Status
  <2> QED
    BY <1>3, <2>2, <2>3 DEF CreateRun, Typed, TypeOK
<1>4. CASE Register(r)
  <2>1. run[r].pc \in Starting /\ "running" \in Stages
    BY <1>4 DEF Register, Stages, Starting, HoldsPermit, HoldsSlot
  <2>2. PICK at \in Int \cup {None} :
           run' = [run EXCEPT ![r].pc = "running", ![r].cancelledAt = at]
    <3>1. run[r] \in RunState
      BY DEF Typed, TypeOK
    <3>2. run[r].left \in Int /\ run[r].cancelledAt \in Int \cup {None}
      BY <3>1 DEF RunState
    <3> QED
      BY <1>4, <3>2 DEF Register, Typed, TypeOK
  <2>3. run' \in [Runs -> RunState] /\ Tasked'
    BY <2>1, <2>2, MoveTyped
  <2> QED
    BY <1>4, <2>3 DEF Register, Typed, TypeOK
<1>5. CASE StartAction(r)
  <2>1. run[r].pc \in Starting /\ "finishing" \in Stages /\ "child" \in Stages
    BY <1>5 DEF StartAction, Stages, Starting, HoldsPermit, HoldsSlot
  <2>2. \/ \E final \in Terminal :
              run' = [run EXCEPT ![r].pc = "finishing", ![r].final = final]
        \/ Goto(r, "child")
    BY <1>5 DEF StartAction, Terminal, Goto
  <2>3. run' \in [Runs -> RunState] /\ Tasked'
    BY <2>1, <2>2, MoveTyped, GotoTyped
  <2> QED
    BY <1>5, <2>3 DEF StartAction, Typed, TypeOK
<1>6. CASE ChildExits(r)
  <2>1. run[r].pc \in Starting /\ "finishing" \in Stages /\ "running" \in Stages
    BY <1>6 DEF ChildExits, Stages, Starting, HoldsPermit, HoldsSlot
  <2>2. CASE run' = [run EXCEPT ![r].pc = "running", ![r].left = @ - 1]
    <3>1. run[r] \in RunState
      BY DEF Typed, TypeOK
    <3>2. run[r].left - 1 \in Int
      BY <3>1 DEF RunState
    <3>3. run' = [run EXCEPT ![r].pc = "running", ![r].left = run[r].left - 1]
      BY <2>2, <3>1 DEF Typed, TypeOK
    <3>4. run' \in [Runs -> RunState] /\ Tasked'
      BY <2>1, <3>2, <3>3, MoveTyped
    <3> QED
      BY <1>6, <3>4 DEF ChildExits, Typed, TypeOK
  <2>3. CASE run' = [run EXCEPT ![r].pc = "finishing", ![r].final = "Failed"]
    <3>1. "Failed" \in Terminal
      BY DEF Terminal
    <3>2. run' \in [Runs -> RunState] /\ Tasked'
      BY <2>1, <2>3, <3>1, MoveTyped
    <3> QED
      BY <1>6, <3>2 DEF ChildExits, Typed, TypeOK
  <2> QED
    BY <1>6, <2>2, <2>3 DEF ChildExits
<1>7. ASSUME NEW status \in {"Cancelled", "TimedOut"}, KillChild(r, status)
      PROVE  Typed'
  <2>1. run[r].pc \in Starting /\ "killing" \in Stages /\ status \in Terminal
    BY <1>7 DEF KillChild, Stages, Starting, HoldsPermit, HoldsSlot, Terminal
  <2>2. run' \in [Runs -> RunState] /\ Tasked'
    BY <1>7, <2>1, MoveTyped DEF KillChild
  <2> QED
    BY <1>7, <2>2 DEF KillChild, Typed, TypeOK
<1>8. CASE ReapChild(r) \/ Announce(r) \/ Deregister(r)
  <2>1. PICK to \in {"finishing", "announced", "deregistered"} : Goto(r, to)
    BY <1>8 DEF ReapChild, Announce, Deregister
  <2>2. run[r].pc \in Starting /\ to \in Stages
    BY <1>8 DEF ReapChild, Announce, Deregister, Stages, Starting, HoldsPermit, HoldsSlot
  <2>3. run' \in [Runs -> RunState] /\ Tasked'
    BY <2>1, <2>2, GotoTyped
  <2> QED
    BY <1>8, <2>3 DEF ReapChild, Announce, Deregister, Typed, TypeOK
<1>9. CASE UpdateRun(r)
  <2>1. run[r].pc \in Starting /\ "updated" \in Stages
    BY <1>9 DEF UpdateRun, Stages, Starting, HoldsPermit, HoldsSlot
  <2>2. run' \in [Runs -> RunState] /\ Tasked'
    BY <1>9, <2>1, GotoTyped DEF UpdateRun
  <2>3. run[r].final \in Terminal \cup {None} /\ run[r].task \in Tasks
    BY <2>1 DEF Typed, TypeOK, Tasked, RunState
  <2>4. row' \in [Runs -> Status \cup {None}]
    BY <1>9, <2>3 DEF UpdateRun, Typed, TypeOK, Status
  <2> QED
    BY <1>9, <2>2, <2>3, <2>4 DEF UpdateRun, Typed, TypeOK
<1>10. CASE ReleaseSlot(r)
  <2>1. run[r].pc \in Starting /\ "released" \in Stages
    BY <1>10 DEF ReleaseSlot, Stages, Starting, HoldsPermit, HoldsSlot
  <2>2. run' \in [Runs -> RunState] /\ Tasked'
    BY <1>10, <2>1, GotoTyped DEF ReleaseSlot
  <2>3. counts' \in [Tasks -> Nat]
    <3>1. PICK t \in Tasks : t = run[r].task
      BY <2>1 DEF Typed, Tasked
    <3>2. counts \in [Tasks -> Nat]
      BY DEF Typed, TypeOK
    <3>3. counts' = [counts EXCEPT ![t] = IF counts[t] > 0 THEN counts[t] - 1 ELSE counts[t]]
      BY <1>10, <3>1 DEF ReleaseSlot
    <3>4. counts[t] \in Nat /\ (IF counts[t] > 0 THEN counts[t] - 1 ELSE counts[t]) \in Nat
      BY <3>2
    <3> QED
      BY <3>2, <3>3, <3>4
  <2> QED
    BY <1>10, <2>2, <2>3 DEF ReleaseSlot, Typed, TypeOK
<1>11. CASE DropPermit(r)
  <2>1. "done" \in Ended
    BY DEF Ended
  <2>2. run' \in [Runs -> RunState] /\ Tasked'
    BY <1>11, <2>1, EndTyped DEF DropPermit
  <2>3. permits' \in Nat
    BY <1>11 DEF DropPermit, Typed, TypeOK
  <2> QED
    BY <1>11, <2>2, <2>3 DEF DropPermit, Typed, TypeOK
<1> QED
  BY <1>1, <1>2, <1>3, <1>4, <1>5, <1>6, <1>7, <1>8, <1>9, <1>10, <1>11 DEF RunStep

\* The process ends: the runs it drove end with it.
LEMMA HaltTyped ==
    ASSUME Typed, Halt
    PROVE  Typed'
<1>1. \A r \in Runs : run[r] \in RunState /\ EndedRun(r, "gone") \in RunState
  <2> SUFFICES ASSUME NEW r \in Runs
               PROVE  run[r] \in RunState /\ EndedRun(r, "gone") \in RunState
    OBVIOUS
  <2>1. run[r] \in RunState
    BY DEF Typed, TypeOK
  <2>2. "gone" \in Stages
    BY DEF Stages, Ended
  <2> QED
    BY <2>1, <2>2, RunStates DEF EndedRun
<1>2. run' = [r \in Runs |-> IF run[r].pc \in Starting
                             THEN EndedRun(r, "gone") ELSE run[r]]
  BY DEF Halt
<1>3. run' \in [Runs -> RunState]
  BY <1>1, <1>2
<1>4. \A r \in Runs : run'[r].pc \notin Starting
  <2>1. \A r \in Runs : EndedRun(r, "gone").pc = "gone"
    BY DEF EndedRun, NoRun
  <2>2. "gone" \notin Starting
    BY StageFacts DEF Ended
  <2> QED
    BY <1>2, <2>1, <2>2
<1>5. Tasked'
  BY <1>4 DEF Tasked
<1>6. counts' \in [Tasks -> Nat] /\ permits' \in Nat
  BY BoundAssumption DEF Halt
<1> QED
  BY <1>3, <1>5, <1>6 DEF Halt, Typed, TypeOK, dbVars

\* Every step keeps the types.
LEMMA TypedStep == Typed /\ [Next]_vars => Typed'
<1> SUFFICES ASSUME Typed, [Next]_vars
             PROVE  Typed'
  OBVIOUS
<1> USE DEF dbVars, managerVars, agentVars
<1>1. ASSUME NEW r \in Runs, NEW t \in Tasks, Dispatch(r, t) \/ HandleTriggerNow(r, t)
      PROVE  Typed'
  BY <1>1, FindTyped DEF Dispatch, HandleTriggerNow
<1>2. ASSUME NEW r \in Runs, RunStep(r)
      PROVE  Typed'
  BY <1>2, RunStepTyped
<1>3. ASSUME NEW r \in Runs, CancelExecution(r)
      PROVE  Typed'
  <2> DEFINE v == [run[r] EXCEPT !.cancelledAt = run[r].left]
  <2>1. run[r] \in RunState
    BY DEF Typed, TypeOK
  <2>2. run[r].left \in Int
    BY <2>1 DEF RunState
  <2>3. v \in RunState
    BY <2>1, <2>2, RunStates
  <2>4. v.pc = run[r].pc /\ v.task = run[r].task
    BY <2>1 DEF RunState
  <2>5. run' = [run EXCEPT ![r] = v]
    BY <1>3 DEF CancelExecution
  <2>6. run[r].pc \in Starting => run[r].task \in Tasks
    BY DEF Typed, Tasked
  <2> HIDE DEF v
  <2>7. run' \in [Runs -> RunState] /\ Tasked'
    BY <2>3, <2>4, <2>5, <2>6, SetRun
  <2> QED
    BY <1>3, <2>7 DEF CancelExecution, Typed, TypeOK
<1>4. ASSUME NEW t \in Tasks, NEW saved \in TaskRow, SaveTask(t, saved)
      PROVE  Typed'
  BY <1>4 DEF SaveTask, Typed, TypeOK, Tasked
<1>5. ASSUME NEW t \in Tasks, DeleteTask(t)
      PROVE  Typed'
  <2>1. taskRow' \in [Tasks -> TaskRow \cup {None}] /\ row' \in [Runs -> Status \cup {None}]
    BY <1>5 DEF DeleteTask, Typed, TypeOK
  <2> QED
    BY <1>5, <2>1 DEF DeleteTask, Typed, TypeOK, Tasked
<1>6. ASSUME NEW t \in Tasks, Purge(t)
      PROVE  Typed'
  <2>1. row' \in [Runs -> Status \cup {None}]
    BY <1>6 DEF Purge, Typed, TypeOK
  <2> QED
    BY <1>6, <2>1 DEF Purge, Typed, TypeOK, Tasked
<1>7. CASE NotifyShutdown
  <2>1. \A r \in Runs : /\ run[r] \in RunState
                        /\ [run[r] EXCEPT !.cancelledAt = run[r].left] \in RunState
    <3> SUFFICES ASSUME NEW r \in Runs
                 PROVE  /\ run[r] \in RunState
                        /\ [run[r] EXCEPT !.cancelledAt = run[r].left] \in RunState
      OBVIOUS
    <3>1. run[r] \in RunState
      BY DEF Typed, TypeOK
    <3>2. run[r].left \in Int
      BY <3>1 DEF RunState
    <3> QED
      BY <3>1, <3>2, RunStates
  <2>2. run' \in [Runs -> RunState]
    BY <1>7, <2>1 DEF NotifyShutdown
  <2>3. \A r \in Runs : run'[r].pc = run[r].pc /\ run'[r].task = run[r].task
    BY <1>7, <2>1 DEF NotifyShutdown, RunState
  <2>4. Tasked'
    BY <2>3 DEF Typed, Tasked
  <2> QED
    BY <1>7, <2>2, <2>4 DEF NotifyShutdown, Typed, TypeOK
<1>8. CASE EndDispatcher
  BY <1>8 DEF EndDispatcher, Typed, TypeOK, Tasked
<1>9. CASE EndWait
  BY <1>9 DEF EndWait, Typed, TypeOK, Tasked
<1>10. CASE Exit \/ Crash
  BY <1>10, HaltTyped DEF Exit, Crash
<1>11. CASE Boot
  <2>1. row' \in [Runs -> Status \cup {None}]
    BY <1>11 DEF Boot, Typed, TypeOK, Status, Terminal
  <2> QED
    BY <1>11, <2>1 DEF Boot, Typed, TypeOK, Tasked
<1>12. CASE UNCHANGED vars
  BY <1>12 DEF vars, Typed, TypeOK, Tasked
<1> QED
  BY <1>1, <1>2, <1>3, <1>4, <1>5, <1>6, <1>7, <1>8, <1>9, <1>10, <1>11, <1>12
  DEF Next

\* The agent starts well typed.
LEMMA TypedInit == Init => Typed
<1> SUFFICES ASSUME Init PROVE Typed
  OBVIOUS
<1>1. NoRun \in RunState
  BY DEF NoRun, RunState
<1>2. \A r \in Runs : run[r].pc \notin Starting
  BY StageFacts DEF Init, NoRun
<1>3. run \in [Runs -> RunState]
  BY <1>1 DEF Init
<1> QED
  BY <1>2, <1>3, BoundAssumption DEF Init, Typed, TypeOK, Tasked

\* Every variable of the agent and of its database keeps its type, whatever
\* the starters, the clients, the shutdown, crashes and restarts interleave to.
THEOREM TypeCorrect == Spec => []TypeOK
<1>1. Typed => TypeOK
  BY DEF Typed
<1> QED
  BY <1>1, TypedInit, TypedStep, PTL DEF Spec

-----------------------------------------------------------------------------
(* Slots and permits.                                                      *)

\* The same runs hold slots, for the same tasks and policies.
SlotsKept ==
    \A s \in Runs :
        /\ run'[s].pc \in HoldsSlot <=> run[s].pc \in HoldsSlot
        /\ run[s].pc \in HoldsSlot =>
              run'[s].task = run[s].task /\ run'[s].policy = run[s].policy

PermitsKept == \A s \in Runs : run'[s].pc \in HoldsPermit <=> run[s].pc \in HoldsPermit

\* The step neither admits nor releases a run.
NoTransfer == SlotsKept /\ PermitsKept /\ UNCHANGED managerVars

\* The step of one run leaves the others alone.
Only(r) == \A s \in Runs : s # r => run'[s] = run[s]

\* What Goto and End do to a run, field by field.
LEMMA GotoFields ==
    ASSUME Typed, NEW r \in Runs, NEW to, Goto(r, to)
    PROVE  /\ Only(r)
           /\ run'[r].pc = to /\ run'[r].task = run[r].task /\ run'[r].policy = run[r].policy
BY DEF Typed, TypeOK, RunState, Goto, Only

LEMMA EndFields ==
    ASSUME Typed, NEW r \in Runs, NEW st, End(r, st)
    PROVE  Only(r) /\ run'[r].pc = st
BY DEF Typed, TypeOK, RunState, End, EndedRun, NoRun, Only

\* The stages between the slot and its release keep slot and permit.
LEMMA MoveKeeps ==
    ASSUME NEW r \in Runs, Only(r),
           run[r].pc \in HoldsSlot, run'[r].pc \in HoldsSlot,
           run'[r].task = run[r].task, run'[r].policy = run[r].policy
    PROVE  SlotsKept /\ PermitsKept
BY StageFacts DEF Only, SlotsKept, PermitsKept

\* A run that holds nothing before and after a step changes no holder.
LEMMA OutsideKeeps ==
    ASSUME NEW r \in Runs, Only(r),
           run[r].pc \notin HoldsPermit, run'[r].pc \notin HoldsPermit
    PROVE  SlotsKept /\ PermitsKept
BY StageFacts DEF Only, SlotsKept, PermitsKept

\* The steps that acquire or release a slot or a permit.
Transfer ==
    \/ \E r \in Runs : \/ run[r].pc = "found" /\ permits > 0 /\ AcquirePermit(r)
                       \/ TryAcquireSlot(r) \/ ReleaseSlot(r) \/ DropPermit(r)
    \/ Halt

\* Every other step keeps all holders.
LEMMA RunStepTransfers ==
    ASSUME Typed, NEW r \in Runs, RunStep(r)
    PROVE  NoTransfer \/ Transfer
<1> USE DEF managerVars
<1>1. CASE AcquirePermit(r)
  <2>1. CASE permits > 0
    BY <1>1, <2>1 DEF AcquirePermit, Transfer
  <2>2. CASE ~(permits > 0)
    <3>1. run[r].pc = "found" /\ End(r, "refused") /\ UNCHANGED managerVars
      BY <1>1, <2>2 DEF AcquirePermit
    <3>2. "found" \notin HoldsPermit /\ "refused" \notin HoldsPermit
      BY DEF HoldsPermit, HoldsSlot
    <3>3. SlotsKept /\ PermitsKept
      BY <3>1, <3>2, EndFields, OutsideKeeps
    <3> QED
      BY <3>1, <3>3 DEF NoTransfer
  <2> QED
    BY <2>1, <2>2
<1>2. CASE TryAcquireSlot(r) \/ ReleaseSlot(r) \/ DropPermit(r)
  BY <1>2 DEF Transfer
<1>3. CASE CreateRun(r) \/ ReapChild(r) \/ UpdateRun(r) \/ Announce(r) \/ Deregister(r)
  <2>1. PICK to \in {"created", "failed", "finishing", "updated", "announced",
                     "deregistered"} : Goto(r, to)
    BY <1>3 DEF CreateRun, ReapChild, UpdateRun, Announce, Deregister
  <2>2. run[r].pc \in HoldsSlot /\ to \in HoldsSlot
    BY <1>3 DEF CreateRun, ReapChild, UpdateRun, Announce, Deregister, HoldsSlot
  <2>3. SlotsKept /\ PermitsKept
    BY <2>1, <2>2, GotoFields, MoveKeeps
  <2>4. UNCHANGED managerVars
    BY <1>3 DEF CreateRun, ReapChild, UpdateRun, Announce, Deregister
  <2> QED
    BY <2>3, <2>4 DEF NoTransfer
<1>4. ASSUME \/ Register(r) \/ StartAction(r) \/ ChildExits(r)
             \/ \E status \in {"Cancelled", "TimedOut"} : KillChild(r, status)
      PROVE  NoTransfer
  <2>1. run[r] \in RunState /\ run \in [Runs -> RunState]
    BY DEF Typed, TypeOK
  <2>2. Only(r)
    BY <1>4, <2>1 DEF Register, StartAction, ChildExits, KillChild, Only
  <2>3. run[r].pc \in HoldsSlot
    BY <1>4 DEF Register, StartAction, ChildExits, KillChild, HoldsSlot
  <2>4. run'[r].pc \in {"running", "child", "killing", "finishing"}
    BY <1>4, <2>1 DEF Register, StartAction, ChildExits, KillChild, RunState
  <2>5. run'[r].task = run[r].task /\ run'[r].policy = run[r].policy
    BY <1>4, <2>1 DEF Register, StartAction, ChildExits, KillChild, RunState
  <2>6. UNCHANGED managerVars
    BY <1>4 DEF Register, StartAction, ChildExits, KillChild
  <2>7. run'[r].pc \in HoldsSlot
    BY <2>4 DEF HoldsSlot
  <2>8. SlotsKept /\ PermitsKept
    BY <2>2, <2>3, <2>5, <2>7, MoveKeeps
  <2> QED
    BY <2>6, <2>8 DEF NoTransfer
<1> QED
  BY <1>1, <1>2, <1>3, <1>4 DEF RunStep

LEMMA NextTransfers == Typed /\ [Next]_vars => NoTransfer \/ Transfer
<1> SUFFICES ASSUME Typed, [Next]_vars
             PROVE  NoTransfer \/ Transfer
  OBVIOUS
<1> USE DEF managerVars
<1>1. ASSUME NEW r \in Runs, NEW t \in Tasks, Dispatch(r, t) \/ HandleTriggerNow(r, t)
      PROVE  NoTransfer
  <2>1. PICK src \in {"dispatch", "rpc"} : Find(r, src, t)
    BY <1>1 DEF Dispatch, HandleTriggerNow
  <2>2. run[r] \in RunState /\ run \in [Runs -> RunState]
    BY DEF Typed, TypeOK
  <2>3. Only(r)
    BY <2>1, <2>2 DEF Find, Only
  <2>4. run[r].pc = "idle" /\ run'[r].pc \in {"found", "refused"}
    <3>1. [NoRun EXCEPT !.pc = "found", !.src = src, !.task = t,
                        !.policy = taskRow[t].policy,
                        !.left = taskRow[t].actions].pc = "found"
      BY DEF NoRun
    <3>2. CASE run' = [run EXCEPT ![r] =
                [NoRun EXCEPT !.pc = "found", !.src = src, !.task = t,
                              !.policy = taskRow[t].policy,
                              !.left = taskRow[t].actions]]
      BY <2>1, <2>2, <3>1, <3>2 DEF Find
    <3>3. CASE run' = [run EXCEPT ![r].pc = "refused"]
      BY <2>1, <2>2, <3>3 DEF Find, RunState
    <3> QED
      BY <2>1, <3>2, <3>3 DEF Find
  <2>5. {"idle", "found", "refused"} \cap HoldsPermit = {}
    BY DEF HoldsPermit, HoldsSlot
  <2>6. SlotsKept /\ PermitsKept
    BY <2>3, <2>4, <2>5, OutsideKeeps
  <2> QED
    BY <2>1, <2>6 DEF Find, NoTransfer
<1>2. ASSUME NEW r \in Runs, RunStep(r)
      PROVE  NoTransfer \/ Transfer
  BY <1>2, RunStepTransfers
<1>3. ASSUME NEW r \in Runs, CancelExecution(r)
      PROVE  NoTransfer
  <2>1. run \in [Runs -> RunState]
    BY DEF Typed, TypeOK
  <2>2. \A s \in Runs : /\ run'[s].pc = run[s].pc /\ run'[s].task = run[s].task
                        /\ run'[s].policy = run[s].policy
    BY <1>3, <2>1 DEF CancelExecution, RunState
  <2> QED
    BY <1>3, <2>2 DEF CancelExecution, NoTransfer, SlotsKept, PermitsKept
<1>4. ASSUME NEW t \in Tasks,
             (\E saved \in TaskRow : SaveTask(t, saved)) \/ DeleteTask(t) \/ Purge(t)
      PROVE  NoTransfer
  BY <1>4 DEF SaveTask, DeleteTask, Purge, NoTransfer, SlotsKept, PermitsKept
<1>5. CASE NotifyShutdown
  <2>1. run \in [Runs -> RunState]
    BY DEF Typed, TypeOK
  <2>2. \A s \in Runs : /\ run'[s].pc = run[s].pc /\ run'[s].task = run[s].task
                        /\ run'[s].policy = run[s].policy
    BY <1>5, <2>1 DEF NotifyShutdown, RunState
  <2> QED
    BY <1>5, <2>2 DEF NotifyShutdown, NoTransfer, SlotsKept, PermitsKept
<1>6. CASE EndDispatcher \/ EndWait \/ Boot \/ UNCHANGED vars
  BY <1>6 DEF EndDispatcher, EndWait, Boot, vars, NoTransfer, SlotsKept, PermitsKept
<1>7. CASE Exit \/ Crash
  BY <1>7 DEF Exit, Crash, Transfer
<1> QED
  BY <1>1, <1>2, <1>3, <1>4, <1>5, <1>6, <1>7 DEF Next

\* The sets of holders are finite.
LEMMA HoldersFinite ==
    /\ \A t \in Tasks : IsFiniteSet(SlotHolders(t))
    /\ IsFiniteSet(PermitHolders)
BY RunsAssumption, FS_Subset DEF SlotHolders, PermitHolders

\* Holders that stay and counters that stay keep the accounts.
LEMMA AccountsKept ==
    /\ SlotsKept /\ UNCHANGED counts /\ (\A t \in Tasks : counts[t] = Cardinality(SlotHolders(t)))
         => (\A t \in Tasks : counts[t] = Cardinality(SlotHolders(t)))'
    /\ PermitsKept /\ UNCHANGED permits /\ permits = MaxConcurrent - Cardinality(PermitHolders)
         => (permits = MaxConcurrent - Cardinality(PermitHolders))'
<1>1. SlotsKept => \A t \in Tasks : SlotHolders(t)' = SlotHolders(t)
  BY DEF SlotsKept, SlotHolders
<1>2. PermitsKept => PermitHolders' = PermitHolders
  BY DEF PermitsKept, PermitHolders
<1> QED
  BY <1>1, <1>2

\* A run enters or leaves the holders of a permit.
LEMMA PermitMoves ==
    ASSUME Typed, Accounting, NEW r \in Runs, Only(r),
           \/ /\ run[r].pc \notin HoldsPermit /\ run'[r].pc \in HoldsPermit
              /\ permits' = permits - 1
           \/ /\ run[r].pc \in HoldsPermit /\ run'[r].pc \notin HoldsPermit
              /\ permits' = permits + 1
    PROVE  (permits = MaxConcurrent - Cardinality(PermitHolders))'
<1>1. /\ Cardinality(PermitHolders) \in Nat /\ MaxConcurrent \in Nat
      /\ permits = MaxConcurrent - Cardinality(PermitHolders)
  BY HoldersFinite, FS_CardinalityType, BoundAssumption DEF Accounting
<1>2. CASE /\ run[r].pc \notin HoldsPermit /\ run'[r].pc \in HoldsPermit
           /\ permits' = permits - 1
  <2>1. PermitHolders' = PermitHolders \cup {r} /\ r \notin PermitHolders
    BY <1>2 DEF PermitHolders, Only
  <2>2. Cardinality(PermitHolders') = Cardinality(PermitHolders) + 1
    BY <2>1, HoldersFinite, FS_AddElement
  <2> QED
    BY <1>1, <1>2, <2>2
<1>3. CASE /\ run[r].pc \in HoldsPermit /\ run'[r].pc \notin HoldsPermit
           /\ permits' = permits + 1
  <2>1. PermitHolders' = PermitHolders \ {r} /\ r \in PermitHolders
    BY <1>3 DEF PermitHolders, Only
  <2>2. Cardinality(PermitHolders') = Cardinality(PermitHolders) - 1
    BY <2>1, HoldersFinite, FS_RemoveElement
  <2> QED
    BY <1>1, <1>3, <2>2
<1> QED
  BY <1>2, <1>3

\* A run is admitted beside the holders of its task.
LEMMA SlotTaken ==
    ASSUME Typed, Accounting, NEW r \in Runs, Only(r), NEW t \in Tasks,
           run[r].pc \notin HoldsSlot, run'[r].pc \in HoldsSlot, run'[r].task = t,
           counts' = [counts EXCEPT ![t] = @ + 1]
    PROVE  (\A u \in Tasks : counts[u] = Cardinality(SlotHolders(u)))'
<1>1. SlotHolders(t)' = SlotHolders(t) \cup {r} /\ r \notin SlotHolders(t)
  BY DEF SlotHolders, Only
<1>2. \A u \in Tasks : u # t => SlotHolders(u)' = SlotHolders(u)
  BY DEF SlotHolders, Only
<1>3. Cardinality(SlotHolders(t)') = Cardinality(SlotHolders(t)) + 1
  BY <1>1, HoldersFinite, FS_AddElement
<1> QED
  BY <1>2, <1>3 DEF Accounting, Typed, TypeOK

\* A run gives its slot back.
LEMMA SlotReleased ==
    ASSUME Typed, Accounting, NEW r \in Runs, Only(r), NEW t \in Tasks,
           run[r].pc \in HoldsSlot, run[r].task = t, run'[r].pc \notin HoldsSlot,
           counts' = [counts EXCEPT ![t] = IF @ > 0 THEN @ - 1 ELSE @]
    PROVE  (\A u \in Tasks : counts[u] = Cardinality(SlotHolders(u)))'
<1>1. SlotHolders(t)' = SlotHolders(t) \ {r} /\ r \in SlotHolders(t)
  BY DEF SlotHolders, Only
<1>2. \A u \in Tasks : u # t => SlotHolders(u)' = SlotHolders(u)
  BY DEF SlotHolders, Only
<1>3. Cardinality(SlotHolders(t)') = Cardinality(SlotHolders(t)) - 1
  BY <1>1, HoldersFinite, FS_RemoveElement
<1>4. counts \in [Tasks -> Nat] /\ counts[t] = Cardinality(SlotHolders(t))
  BY DEF Accounting, Typed, TypeOK
<1>5. counts[t] > 0
  <2>1. Cardinality(SlotHolders(t)) # 0
    BY <1>1, HoldersFinite, FS_EmptySet
  <2> QED
    BY <1>4, <2>1
<1>6. counts'[t] = counts[t] - 1
  BY <1>4, <1>5
<1>7. \A u \in Tasks : u # t => counts'[u] = counts[u]
  BY <1>4
<1> QED
  BY <1>2, <1>3, <1>4, <1>6, <1>7 DEF Accounting

\* After the process has ended nothing is held.
LEMMA HaltHolds ==
    ASSUME Typed, Halt
    PROVE  (\A t \in Tasks : SlotHolders(t)' = {}) /\ PermitHolders' = {}
<1>1. \A r \in Runs : EndedRun(r, "gone").pc = "gone"
  BY DEF EndedRun, NoRun
<1>2. "gone" \notin Starting
  BY StageFacts DEF Ended
<1>3. \A r \in Runs : run'[r].pc \notin Starting
  BY <1>1, <1>2 DEF Halt
<1>4. \A r \in Runs : run'[r].pc \notin HoldsSlot /\ run'[r].pc \notin HoldsPermit
  BY <1>3, StageFacts
<1> QED
  BY <1>4 DEF SlotHolders, PermitHolders

\* Every step keeps the accounts.
LEMMA AccountingStep == Typed /\ Accounting /\ [Next]_vars => Accounting'
<1> SUFFICES ASSUME Typed, Accounting, [Next]_vars
             PROVE  Accounting'
  OBVIOUS
<1>1. CASE NoTransfer
  BY <1>1, AccountsKept DEF NoTransfer, managerVars, Accounting
<1>2. ASSUME NEW r \in Runs, run[r].pc = "found" /\ permits > 0 /\ AcquirePermit(r)
      PROVE  Accounting'
  <2>1. Goto(r, "permit") /\ permits' = permits - 1 /\ UNCHANGED counts
    BY <1>2 DEF AcquirePermit
  <2>2. /\ "found" \notin HoldsPermit /\ "permit" \in HoldsPermit
        /\ "found" \notin HoldsSlot /\ "permit" \notin HoldsSlot
    BY DEF HoldsPermit, HoldsSlot
  <2>3. Only(r) /\ run'[r].pc = "permit"
    BY <2>1, GotoFields
  <2>4. SlotsKept
    BY <1>2, <2>2, <2>3 DEF Only, SlotsKept
  <2> QED
    BY <1>2, <2>1, <2>2, <2>3, <2>4, AccountsKept, PermitMoves DEF Accounting
<1>3. ASSUME NEW r \in Runs, TryAcquireSlot(r)
      PROVE  Accounting'
  <2>1. /\ "permit" \in HoldsPermit /\ "permit" \notin HoldsSlot
        /\ "slot" \in HoldsPermit /\ "slot" \in HoldsSlot
        /\ "skipped" \notin HoldsPermit /\ "skipped" \notin HoldsSlot
    BY DEF HoldsPermit, HoldsSlot
  <2>2. run[r].pc = "permit"
    BY <1>3 DEF TryAcquireSlot
  <2>3. PICK t \in Tasks : t = run[r].task
    BY <2>1, <2>2, StageFacts DEF Typed, Tasked
  <2>4. CASE Goto(r, "slot") /\ counts' = [counts EXCEPT ![t] = @ + 1] /\ UNCHANGED permits
    <3>1. Only(r) /\ run'[r].pc = "slot" /\ run'[r].task = t
      BY <2>3, <2>4, GotoFields
    <3>2. PermitsKept
      BY <2>1, <2>2, <3>1 DEF Only, PermitsKept
    <3> QED
      BY <2>1, <2>2, <2>4, <3>1, <3>2, AccountsKept, SlotTaken DEF Accounting
  <2>5. CASE End(r, "skipped") /\ permits' = permits + 1 /\ UNCHANGED counts
    <3>1. Only(r) /\ run'[r].pc = "skipped"
      BY <2>5, EndFields
    <3>2. SlotsKept
      BY <2>1, <2>2, <3>1 DEF Only, SlotsKept
    <3> QED
      BY <2>1, <2>2, <2>5, <3>1, <3>2, AccountsKept, PermitMoves DEF Accounting
  <2> QED
    BY <1>3, <2>3, <2>4, <2>5 DEF TryAcquireSlot
<1>4. ASSUME NEW r \in Runs, ReleaseSlot(r)
      PROVE  Accounting'
  <2>1. /\ run[r].pc \in HoldsSlot /\ run[r].pc \in HoldsPermit /\ run[r].pc \in Starting
        /\ "released" \in HoldsPermit /\ "released" \notin HoldsSlot
    BY <1>4 DEF ReleaseSlot, Starting, HoldsPermit, HoldsSlot
  <2>2. PICK t \in Tasks : t = run[r].task
    BY <2>1 DEF Typed, Tasked
  <2>3. /\ Goto(r, "released") /\ UNCHANGED permits
        /\ counts' = [counts EXCEPT ![t] = IF @ > 0 THEN @ - 1 ELSE @]
    BY <1>4, <2>2 DEF ReleaseSlot
  <2>4. Only(r) /\ run'[r].pc = "released"
    BY <2>3, GotoFields
  <2>5. PermitsKept
    BY <2>1, <2>4 DEF Only, PermitsKept
  <2>6. (\A u \in Tasks : counts[u] = Cardinality(SlotHolders(u)))'
    BY <2>1, <2>2, <2>3, <2>4, SlotReleased
  <2>7. (permits = MaxConcurrent - Cardinality(PermitHolders))'
    BY <2>3, <2>5, AccountsKept DEF Accounting
  <2> QED
    BY <2>6, <2>7 DEF Accounting
<1>5. ASSUME NEW r \in Runs, DropPermit(r)
      PROVE  Accounting'
  <2>1. /\ run[r].pc = "released" /\ End(r, "done")
        /\ permits' = permits + 1 /\ UNCHANGED counts
    BY <1>5 DEF DropPermit
  <2>2. /\ "released" \in HoldsPermit /\ "released" \notin HoldsSlot
        /\ "done" \notin HoldsPermit /\ "done" \notin HoldsSlot
    BY DEF HoldsPermit, HoldsSlot
  <2>3. Only(r) /\ run'[r].pc = "done"
    BY <2>1, EndFields
  <2>4. SlotsKept
    BY <2>1, <2>2, <2>3 DEF Only, SlotsKept
  <2> QED
    BY <2>1, <2>2, <2>3, <2>4, AccountsKept, PermitMoves DEF Accounting
<1>6. CASE Halt
  <2>1. (\A t \in Tasks : counts'[t] = 0) /\ permits' = MaxConcurrent
    BY <1>6 DEF Halt
  <2>2. MaxConcurrent = MaxConcurrent - 0
    BY BoundAssumption
  <2> QED
    BY <1>6, <2>1, <2>2, HaltHolds, FS_EmptySet DEF Accounting
<1> QED
  BY <1>1, <1>2, <1>3, <1>4, <1>5, <1>6, NextTransfers DEF Transfer

\* Nothing is held at the start.
LEMMA AccountingInit == Init => Accounting
<1> SUFFICES ASSUME Init PROVE Accounting
  OBVIOUS
<1>1. \A r \in Runs : run[r].pc \notin HoldsSlot /\ run[r].pc \notin HoldsPermit
  BY StageFacts DEF Init, NoRun
<1>2. (\A t \in Tasks : SlotHolders(t) = {}) /\ PermitHolders = {}
  BY <1>1 DEF SlotHolders, PermitHolders
<1>3. MaxConcurrent = MaxConcurrent - 0
  BY BoundAssumption
<1> QED
  BY <1>2, <1>3, FS_EmptySet DEF Init, Accounting

\* The counter of a task is the number of its runs that hold a slot, and the
\* permits left are those no run holds: no path of execute, of its early
\* returns, of the runner or of a shutdown leaks one or returns one twice.
THEOREM AccountingCorrect == Spec => []Accounting
<1>1. Init => Typed /\ Accounting
  BY TypedInit, AccountingInit
<1>2. Typed /\ Accounting /\ [Next]_vars => Typed' /\ Accounting'
  BY TypedStep, AccountingStep
<1> QED
  BY <1>1, <1>2, PTL DEF Spec

-----------------------------------------------------------------------------
(* The concurrency policies.                                               *)

\* The step admits nobody: who holds a slot held it before.
NoneAdmitted ==
    \A s \in Runs : run'[s].pc \in HoldsSlot =>
        /\ run[s].pc \in HoldsSlot
        /\ run'[s].task = run[s].task /\ run'[s].policy = run[s].policy

LEMMA NoneAdmittedKeeps == PolicyRespected /\ NoneAdmitted => PolicyRespected'
<1> SUFFICES ASSUME PolicyRespected, NoneAdmitted
             PROVE  PolicyRespected'
  OBVIOUS
<1>1. \A t \in Tasks : \A s \in SlotHolders(t)' :
         s \in SlotHolders(t) /\ run'[s].policy = run[s].policy
  BY DEF NoneAdmitted, SlotHolders
<1> QED
  BY <1>1 DEF PolicyRespected

\* A counter below 2 means that two holders are the same run.
LEMMA FewHolders ==
    ASSUME Typed, Accounting, NEW t \in Tasks
    PROVE  /\ counts[t] = 0 => SlotHolders(t) = {}
           /\ counts[t] < 2 => \A r, s \in SlotHolders(t) : r = s
<1>1. counts[t] = Cardinality(SlotHolders(t)) /\ IsFiniteSet(SlotHolders(t)) /\ counts[t] \in Nat
  BY HoldersFinite DEF Accounting, Typed, TypeOK
<1>2. counts[t] = 0 => SlotHolders(t) = {}
  BY <1>1, FS_EmptySet
<1>3. ASSUME counts[t] = 1
      PROVE  \A r, s \in SlotHolders(t) : r = s
  <2>1. \E x : SlotHolders(t) = {x}
    BY <1>1, <1>3, FS_Singleton, Zenon
  <2> QED
    BY <2>1
<1>4. counts[t] < 2 => counts[t] = 0 \/ counts[t] = 1
  BY <1>1
<1> QED
  BY <1>2, <1>3, <1>4

\* try_acquire_slot admits a run only where its policy has room.
LEMMA AdmissionKeeps ==
    ASSUME Typed, Accounting, PolicyRespected, NEW r \in Runs, NEW t \in Tasks,
           t = run[r].task, run[r].pc = "permit",
           Admits(run[r].policy, counts[t]), Goto(r, "slot")
    PROVE  PolicyRespected'
<1>1. /\ Only(r) /\ run'[r].pc = "slot" /\ run'[r].task = t
      /\ run'[r].policy = run[r].policy
  BY GotoFields
<1>2. "slot" \in HoldsSlot /\ "permit" \notin HoldsSlot
  BY DEF HoldsSlot
<1>3. SlotHolders(t)' = SlotHolders(t) \cup {r}
  BY <1>1, <1>2 DEF SlotHolders, Only
<1>4. \A u \in Tasks : u # t => SlotHolders(u)' = SlotHolders(u) /\ r \notin SlotHolders(u)
  BY <1>1, <1>2 DEF SlotHolders, Only
<1>5. \A s \in Runs : run'[s].policy = run[s].policy
  BY <1>1 DEF Only
<1>6. \A u \in Tasks : SlotHolders(u) \subseteq Runs /\ SlotHolders(u)' \subseteq Runs
  BY DEF SlotHolders
<1>7. /\ run[r].policy = "SkipIfRunning" => SlotHolders(t) = {}
      /\ run[r].policy = "QueueOne" => \A s, x \in SlotHolders(t) : s = x
  BY FewHolders DEF Admits
<1>8. \A x, y \in SlotHolders(t)' :
         run'[x].policy = "SkipIfRunning" /\ run'[y].policy = "SkipIfRunning" => x = y
  BY <1>3, <1>5, <1>6, <1>7 DEF PolicyRespected
<1>9. \A x, y, z \in SlotHolders(t)' :
         (\A w \in {x, y, z} : run'[w].policy = "QueueOne") => x = y \/ y = z \/ x = z
  <2> SUFFICES ASSUME NEW x \in SlotHolders(t)', NEW y \in SlotHolders(t)',
                      NEW z \in SlotHolders(t)',
                      \A w \in {x, y, z} : run'[w].policy = "QueueOne"
               PROVE  x = y \/ y = z \/ x = z
    OBVIOUS
  <2>1. run[x].policy = "QueueOne" /\ run[y].policy = "QueueOne" /\ run[z].policy = "QueueOne"
    BY <1>5, <1>6
  <2>2. CASE r \in {x, y, z}
    BY <1>3, <1>7, <2>1, <2>2
  <2>3. CASE r \notin {x, y, z}
    BY <1>3, <2>1, <2>3 DEF PolicyRespected
  <2> QED
    BY <2>2, <2>3
<1>10. \A u \in Tasks : u # t =>
         /\ \A x, y \in SlotHolders(u)' :
              run'[x].policy = "SkipIfRunning" /\ run'[y].policy = "SkipIfRunning" => x = y
         /\ \A x, y, z \in SlotHolders(u)' :
              (\A w \in {x, y, z} : run'[w].policy = "QueueOne") => x = y \/ y = z \/ x = z
  BY <1>4, <1>5, <1>6 DEF PolicyRespected
<1> QED
  BY <1>8, <1>9, <1>10 DEF PolicyRespected

\* Every step keeps the policies.
LEMMA PolicyStep == Typed /\ Accounting /\ PolicyRespected /\ [Next]_vars => PolicyRespected'
<1> SUFFICES ASSUME Typed, Accounting, PolicyRespected, [Next]_vars
             PROVE  PolicyRespected'
  OBVIOUS
<1>1. CASE NoTransfer
  <2>1. NoneAdmitted
    BY <1>1 DEF NoTransfer, SlotsKept, NoneAdmitted
  <2> QED
    BY <2>1, NoneAdmittedKeeps
<1>2. ASSUME NEW r \in Runs, Only(r), run'[r].pc \notin HoldsSlot
      PROVE  PolicyRespected'
  <2>1. NoneAdmitted
    BY <1>2 DEF Only, NoneAdmitted
  <2> QED
    BY <2>1, NoneAdmittedKeeps
<1>3. ASSUME NEW r \in Runs, run[r].pc = "found" /\ permits > 0 /\ AcquirePermit(r)
      PROVE  PolicyRespected'
  <2>1. Goto(r, "permit")
    BY <1>3 DEF AcquirePermit
  <2>2. Only(r) /\ run'[r].pc \notin HoldsSlot
    BY <2>1, GotoFields DEF HoldsSlot
  <2> QED
    BY <1>2, <2>2
<1>4. ASSUME NEW r \in Runs, TryAcquireSlot(r)
      PROVE  PolicyRespected'
  <2>1. run[r].pc = "permit" /\ run[r].pc \in Starting
    BY <1>4 DEF TryAcquireSlot, Starting, HoldsPermit
  <2>2. PICK t \in Tasks : t = run[r].task
    BY <2>1 DEF Typed, Tasked
  <2>3. CASE Admits(run[r].policy, counts[t]) /\ Goto(r, "slot")
    BY <2>1, <2>2, <2>3, AdmissionKeeps
  <2>4. CASE End(r, "skipped")
    <3>1. Only(r) /\ run'[r].pc \notin HoldsSlot
      BY <2>4, EndFields DEF HoldsSlot
    <3> QED
      BY <1>2, <3>1
  <2> QED
    BY <1>4, <2>2, <2>3, <2>4 DEF TryAcquireSlot
<1>5. ASSUME NEW r \in Runs, ReleaseSlot(r)
      PROVE  PolicyRespected'
  <2>1. Goto(r, "released")
    BY <1>5 DEF ReleaseSlot
  <2>2. Only(r) /\ run'[r].pc \notin HoldsSlot
    BY <2>1, GotoFields DEF HoldsSlot
  <2> QED
    BY <1>2, <2>2
<1>6. ASSUME NEW r \in Runs, DropPermit(r)
      PROVE  PolicyRespected'
  <2>1. End(r, "done")
    BY <1>6 DEF DropPermit
  <2>2. Only(r) /\ run'[r].pc \notin HoldsSlot
    BY <2>1, EndFields DEF HoldsSlot
  <2> QED
    BY <1>2, <2>2
<1>7. CASE Halt
  BY <1>7, HaltHolds DEF PolicyRespected
<1> QED
  BY <1>1, <1>3, <1>4, <1>5, <1>6, <1>7, NextTransfers DEF Transfer

\* Runs admitted under SkipIfRunning never overlap and at most two admitted
\* under QueueOne do, for any number of tasks, runs and permits, although the
\* dispatcher and the trigger_now handlers decide from snapshots of the task
\* that a save may have made old.
THEOREM PolicyCorrect == Spec => []PolicyRespected
<1>1. Init => Typed /\ Accounting /\ PolicyRespected
  <2>1. Init => \A t \in Tasks : SlotHolders(t) = {}
    BY StageFacts DEF Init, NoRun, SlotHolders
  <2> QED
    BY <2>1, TypedInit, AccountingInit DEF PolicyRespected
<1>2. Typed /\ Accounting /\ PolicyRespected /\ [Next]_vars
         => Typed' /\ Accounting' /\ PolicyRespected'
  BY TypedStep, AccountingStep, PolicyStep
<1> QED
  BY <1>1, <1>2, PTL DEF Spec

-----------------------------------------------------------------------------
(* The inductive invariant.                                                *)

\* The row of a run follows its stage until the run is finished: none before
\* create_run, or after it failed; then Running, unless the task was deleted.
RowsFollow ==
    \A r \in Runs :
        /\ run[r].pc \in {"idle", "found", "permit", "slot", "failed", "refused", "skipped"}
              => row[r] = None
        /\ run[r].pc \in {"created", "running", "child", "killing", "finishing"}
              => row[r] \in {"Running", None}

\* A row that says Running has a live run, unless its last update failed.
RowsAlive ==
    phase # "down" =>
        \A r \in Runs : row[r] = "Running" =>
            \/ run[r].pc \in {"created", "running", "child", "killing", "finishing"}
            \/ r \in lost

\* From update_run on the row holds the outcome of the run.
Stored ==
    \A r \in Runs :
        run[r].pc \in {"updated", "announced", "deregistered"} /\ r \notin lost =>
            row[r] \in {run[r].final, None}

\* A process that has ended runs nothing.
DownIsIdle ==
    phase = "down" => ~dispatching /\ \A r \in Runs : run[r].pc \notin Starting

\* Once the dispatcher has been awaited it starts no run and is starting none;
\* a run it has started is not idle.
DispatcherEnded ==
    /\ phase \in {"waiting", "leaving"} => ~dispatching /\ ~DispatcherBusy
    /\ drained => phase = "leaving"
    /\ \A r \in Runs : run[r].src = "dispatch" => run[r].pc # "idle"

RunInv ==
    /\ Typed /\ Accounting
    /\ ActiveAreRunning /\ RowsFollow /\ RowsAlive /\ Stored /\ CancelStops
    /\ DownIsIdle /\ DispatcherEnded /\ DrainedDispatch

-----------------------------------------------------------------------------
(* What a step does to the run that takes it.                              *)

\* The stages a run may go to from each stage.
Moves(from, to) ==
    \/ from = "found" /\ to \in {"permit", "refused"}
    \/ from = "permit" /\ to \in {"slot", "skipped"}
    \/ from = "slot" /\ to \in {"created", "failed"}
    \/ from = "created" /\ to = "running"
    \/ from = "running" /\ to \in {"child", "finishing"}
    \/ from = "child" /\ to \in {"running", "killing", "finishing"}
    \/ from = "killing" /\ to = "finishing"
    \/ from = "finishing" /\ to = "updated"
    \/ from = "updated" /\ to = "announced"
    \/ from = "announced" /\ to = "deregistered"
    \/ from \in {"deregistered", "failed"} /\ to = "released"
    \/ from = "released" /\ to = "done"

\* A run that ends forgets where it came from and that it was cancelled; one
\* that goes on keeps where it came from.  Its outcome is settled before it is
\* stored.
RunMoves(r) ==
    /\ Only(r)
    /\ Moves(run[r].pc, run'[r].pc)
    /\ IF run'[r].pc \in Ended
       THEN run'[r].src = None /\ run'[r].cancelledAt = None
       ELSE run'[r].src = run[r].src /\ run'[r].task = run[r].task
    /\ run'[r].pc \in {"updated", "announced", "deregistered"} => run'[r].final = run[r].final

\* A run that goes on to another stage, or ends.
LEMMA GotoMoves ==
    ASSUME Typed, NEW r \in Runs, NEW to, Goto(r, to), Moves(run[r].pc, to), to \notin Ended
    PROVE  RunMoves(r) /\ run'[r].pc = to
<1>1. /\ Only(r) /\ run'[r].pc = to /\ run'[r].task = run[r].task
      /\ run'[r].src = run[r].src /\ run'[r].final = run[r].final
  BY DEF Typed, TypeOK, RunState, Goto, Only
<1> QED
  BY <1>1 DEF RunMoves

\* Ending a run moves it to its terminal status and to nothing else.
LEMMA EndMoves ==
    ASSUME Typed, NEW r \in Runs, NEW st \in Ended, End(r, st), Moves(run[r].pc, st)
    PROVE  RunMoves(r) /\ run'[r].pc = st
<1>1. /\ Only(r) /\ run'[r].pc = st /\ run'[r].src = None /\ run'[r].cancelledAt = None
  BY DEF Typed, TypeOK, RunState, End, EndedRun, NoRun, Only
<1>2. st \notin {"updated", "announced", "deregistered"}
  BY DEF Ended
<1> QED
  BY <1>1, <1>2 DEF RunMoves

\* Every step of a run.
LEMMA RunStepMoves ==
    ASSUME Typed, NEW r \in Runs, RunStep(r)
    PROVE  RunMoves(r)
<1>1. CASE AcquirePermit(r)
  <2>1. run[r].pc = "found" /\ "permit" \notin Ended /\ "refused" \in Ended
    BY <1>1 DEF AcquirePermit, Ended
  <2> QED
    BY <1>1, <2>1, GotoMoves, EndMoves DEF AcquirePermit, Moves
<1>2. CASE TryAcquireSlot(r)
  <2>1. run[r].pc = "permit" /\ "slot" \notin Ended /\ "skipped" \in Ended
    BY <1>2 DEF TryAcquireSlot, Ended
  <2> QED
    BY <1>2, <2>1, GotoMoves, EndMoves DEF TryAcquireSlot, Moves
<1>3. CASE DropPermit(r)
  <2>1. run[r].pc = "released" /\ "done" \in Ended
    BY <1>3 DEF DropPermit, Ended
  <2> QED
    BY <1>3, <2>1, EndMoves DEF DropPermit, Moves
<1>4. CASE \/ CreateRun(r) \/ ReapChild(r) \/ UpdateRun(r) \/ Announce(r) \/ Deregister(r)
           \/ ReleaseSlot(r)
  <2>1. PICK to \in {"created", "failed", "finishing", "updated", "announced",
                     "deregistered", "released"} : Goto(r, to) /\ Moves(run[r].pc, to)
    BY <1>4 DEF CreateRun, ReapChild, UpdateRun, Announce, Deregister, ReleaseSlot, Moves
  <2>2. to \notin Ended
    BY DEF Ended
  <2> QED
    BY <2>1, <2>2, GotoMoves
<1>5. CASE \/ Register(r) \/ StartAction(r) \/ ChildExits(r)
           \/ \E status \in {"Cancelled", "TimedOut"} : KillChild(r, status)
  <2>1. run[r] \in RunState /\ run \in [Runs -> RunState]
    BY DEF Typed, TypeOK
  <2>2. Only(r) /\ run'[r].src = run[r].src /\ run'[r].task = run[r].task
    BY <1>5, <2>1 DEF Register, StartAction, ChildExits, KillChild, Only, RunState
  <2>3. Moves(run[r].pc, run'[r].pc)
    BY <1>5, <2>1 DEF Register, StartAction, ChildExits, KillChild, Moves, RunState
  <2>4. run'[r].pc \in {"running", "child", "killing", "finishing"}
    BY <1>5, <2>1 DEF Register, StartAction, ChildExits, KillChild, RunState
  <2> QED
    BY <2>2, <2>3, <2>4 DEF RunMoves, Ended
<1> QED
  BY <1>1, <1>2, <1>3, <1>4, <1>5 DEF RunStep

\* A run that is started, or refused because its task is not found.
LEMMA FindMoves ==
    ASSUME Typed, NEW r \in Runs, NEW src \in {"dispatch", "rpc"}, NEW t \in Tasks,
           Find(r, src, t)
    PROVE  /\ Only(r) /\ run[r].pc = "idle"
           /\ \/ /\ run'[r].pc = "found" /\ run'[r].src = src /\ run'[r].cancelledAt = None
              \/ /\ run'[r].pc = "refused" /\ run'[r].src = run[r].src
                 /\ run'[r].cancelledAt = run[r].cancelledAt /\ run'[r].left = run[r].left
<1>1. run \in [Runs -> RunState] /\ run[r] \in RunState /\ run[r].pc = "idle"
  BY DEF Typed, TypeOK, Find
<1>2. Only(r)
  BY <1>1 DEF Find, Only
<1>3. CASE run' = [run EXCEPT ![r] =
                [NoRun EXCEPT !.pc = "found", !.src = src, !.task = t,
                              !.policy = taskRow[t].policy,
                              !.left = taskRow[t].actions]]
  <2> DEFINE v == [NoRun EXCEPT !.pc = "found", !.src = src, !.task = t,
                                !.policy = taskRow[t].policy,
                                !.left = taskRow[t].actions]
  <2>1. v.pc = "found" /\ v.src = src /\ v.cancelledAt = None
    BY DEF NoRun
  <2>2. run'[r] = v
    BY <1>1, <1>3
  <2> HIDE DEF v
  <2> QED
    BY <1>1, <1>2, <2>1, <2>2
<1>4. CASE run' = [run EXCEPT ![r].pc = "refused"]
  <2>1. /\ run'[r].pc = "refused" /\ run'[r].src = run[r].src
        /\ run'[r].cancelledAt = run[r].cancelledAt /\ run'[r].left = run[r].left
    BY <1>1, <1>4 DEF RunState
  <2> QED
    BY <1>1, <1>2, <2>1
<1> QED
  BY <1>3, <1>4 DEF Find

\* The runs stay where they are.
SamePlaces ==
    \A s \in Runs : /\ run'[s].pc = run[s].pc /\ run'[s].src = run[s].src
                    /\ run'[s].task = run[s].task /\ run'[s].final = run[s].final

\* Cancelling, one run or all, moves none.
LEMMA CancelMoves ==
    ASSUME Typed, NotifyShutdown \/ \E r \in Runs : CancelExecution(r)
    PROVE  SamePlaces
<1>1. run \in [Runs -> RunState]
  BY DEF Typed, TypeOK
<1>2. CASE NotifyShutdown
  BY <1>1, <1>2 DEF NotifyShutdown, SamePlaces, RunState
<1>3. CASE \E r \in Runs : CancelExecution(r)
  BY <1>1, <1>3 DEF CancelExecution, SamePlaces, RunState
<1> QED
  BY <1>2, <1>3

\* When the process ends its live runs are gone and the others stay.
LEMMA HaltMoves ==
    ASSUME Typed, Halt
    PROVE  \A s \in Runs :
              IF run[s].pc \in Starting
              THEN run'[s].pc = "gone" /\ run'[s].src = None /\ run'[s].cancelledAt = None
              ELSE run'[s] = run[s]
<1>1. \A s \in Runs : /\ EndedRun(s, "gone").pc = "gone" /\ EndedRun(s, "gone").src = None
                      /\ EndedRun(s, "gone").cancelledAt = None
  BY DEF EndedRun, NoRun
<1> QED
  BY <1>1 DEF Halt

\* The steps, sorted by what they do to the runs.
LEMMA StepKinds ==
    ASSUME Typed, [Next]_vars
    PROVE  \/ \E r \in Runs, t \in Tasks : Dispatch(r, t) \/ HandleTriggerNow(r, t)
           \/ \E r \in Runs : RunStep(r)
           \/ NotifyShutdown \/ \E r \in Runs : CancelExecution(r)
           \/ \E t \in Tasks : (\E saved \in TaskRow : SaveTask(t, saved)) \/ DeleteTask(t) \/ Purge(t)
           \/ EndDispatcher \/ EndWait \/ Boot
           \/ Halt /\ phase # "down"
           \/ UNCHANGED vars
BY DEF Next, Exit, Crash

\* What the step of a run does beside moving it: register and deregister
\* change active_executions, create_run and update_run the row of the run.
RunEffects(r) ==
    /\ UNCHANGED <<taskRow, agentVars>>
    /\ active' = IF run[r].pc = "created" THEN active \cup {r}
                 ELSE IF run[r].pc = "announced" THEN active \ {r} ELSE active
    /\ \/ /\ run[r].pc # "finishing" /\ run'[r].pc # "created"
          /\ UNCHANGED <<row, lost>>
       \/ /\ run[r].pc = "slot" /\ run'[r].pc = "created"
          /\ row' = [row EXCEPT ![r] = "Running"] /\ UNCHANGED lost
       \/ /\ run[r].pc = "finishing"
          /\ row' = [row EXCEPT ![r] = IF @ = None THEN None ELSE run[r].final]
          /\ UNCHANGED lost
       \/ /\ run[r].pc = "finishing"
          /\ lost' = lost \cup {r} /\ UNCHANGED row

\* Every step of a run has just these effects.
LEMMA RunStepEffects ==
    ASSUME Typed, NEW r \in Runs, RunStep(r)
    PROVE  RunEffects(r)
<1> USE DEF dbVars, managerVars, agentVars
<1>0. RunMoves(r)
  BY RunStepMoves
<1>1. CASE CreateRun(r)
  <2>1. run[r].pc = "slot"
    BY <1>1 DEF CreateRun
  <2>2. CASE Goto(r, "created") /\ row' = [row EXCEPT ![r] = "Running"]
    <3>1. run'[r].pc = "created"
      BY <2>2, GotoFields
    <3> QED
      BY <1>1, <2>1, <2>2, <3>1 DEF CreateRun, RunEffects
  <2>3. CASE Goto(r, "failed") /\ UNCHANGED row
    <3>1. run'[r].pc = "failed"
      BY <2>3, GotoFields
    <3> QED
      BY <1>1, <2>1, <2>3, <3>1 DEF CreateRun, RunEffects
  <2> QED
    BY <1>1, <2>2, <2>3 DEF CreateRun
<1>2. CASE UpdateRun(r)
  BY <1>2 DEF UpdateRun, RunEffects
<1>3. CASE \/ AcquirePermit(r) \/ TryAcquireSlot(r) \/ Register(r) \/ StartAction(r)
           \/ ChildExits(r) \/ \E status \in {"Cancelled", "TimedOut"} : KillChild(r, status)
           \/ ReapChild(r) \/ Announce(r) \/ Deregister(r) \/ ReleaseSlot(r) \/ DropPermit(r)
  <2>1. run[r].pc # "finishing" /\ run[r].pc # "slot" /\ UNCHANGED <<row, lost>>
    BY <1>3 DEF AcquirePermit, TryAcquireSlot, Register, StartAction, ChildExits, KillChild,
       ReapChild, Announce, Deregister, ReleaseSlot, DropPermit
  <2>2. run'[r].pc # "created"
    BY <1>0, <2>1 DEF RunMoves, Moves
  <2>3. UNCHANGED <<taskRow, agentVars>>
    BY <1>3 DEF AcquirePermit, TryAcquireSlot, Register, StartAction, ChildExits, KillChild,
       ReapChild, Announce, Deregister, ReleaseSlot, DropPermit
  <2>4. active' = IF run[r].pc = "created" THEN active \cup {r}
                  ELSE IF run[r].pc = "announced" THEN active \ {r} ELSE active
    BY <1>3 DEF AcquirePermit, TryAcquireSlot, Register, StartAction, ChildExits, KillChild,
       ReapChild, Announce, Deregister, ReleaseSlot, DropPermit
  <2> QED
    BY <2>1, <2>2, <2>3, <2>4 DEF RunEffects
<1> QED
  BY <1>1, <1>2, <1>3 DEF RunStep

-----------------------------------------------------------------------------
(* active_executions.                                                      *)

Registered == {"running", "child", "killing", "finishing", "updated", "announced"}

\* Runs that stay where they are keep the map.
LEMMA ActiveKept ==
    ASSUME ActiveAreRunning, active' = active,
           \A s \in Runs : run'[s].pc \in Registered <=> run[s].pc \in Registered
    PROVE  ActiveAreRunning'
BY DEF ActiveAreRunning, Registered

\* Every step keeps the registered runs those that may be running.
LEMMA ActiveStep ==
    ASSUME Typed, ActiveAreRunning, [Next]_vars
    PROVE  ActiveAreRunning'
<1> USE DEF dbVars, managerVars, agentVars
<1>1. ASSUME NEW r \in Runs, NEW t \in Tasks, Dispatch(r, t) \/ HandleTriggerNow(r, t)
      PROVE  ActiveAreRunning'
  <2>1. PICK src \in {"dispatch", "rpc"} : Find(r, src, t)
    BY <1>1 DEF Dispatch, HandleTriggerNow
  <2>2. /\ Only(r) /\ run[r].pc \notin Registered /\ run'[r].pc \notin Registered
        /\ active' = active
    BY <2>1, FindMoves DEF Registered, Find
  <2> QED
    BY <2>2, ActiveKept DEF Only
<1>2. ASSUME NEW r \in Runs, RunStep(r)
      PROVE  ActiveAreRunning'
  <2>1. RunMoves(r) /\ RunEffects(r)
    BY <1>2, RunStepMoves, RunStepEffects
  <2>2. CASE run[r].pc = "created"
    <3>1. run'[r].pc = "running" /\ active' = active \cup {r} /\ Only(r)
      BY <2>1, <2>2 DEF RunMoves, Moves, RunEffects
    <3> QED
      BY <3>1 DEF ActiveAreRunning, Only
  <2>3. CASE run[r].pc = "announced"
    <3>1. run'[r].pc = "deregistered" /\ active' = active \ {r} /\ Only(r)
      BY <2>1, <2>3 DEF RunMoves, Moves, RunEffects
    <3> QED
      BY <3>1 DEF ActiveAreRunning, Only
  <2>4. CASE run[r].pc \notin {"created", "announced"}
    <3>1. active' = active /\ Only(r)
      BY <2>1, <2>4 DEF RunMoves, RunEffects
    <3>2. run'[r].pc \in Registered <=> run[r].pc \in Registered
      BY <2>1, <2>4 DEF RunMoves, Moves, Registered
    <3> QED
      BY <3>1, <3>2, ActiveKept DEF Only
  <2> QED
    BY <2>2, <2>3, <2>4
<1>3. CASE NotifyShutdown \/ \E r \in Runs : CancelExecution(r)
  <2>1. SamePlaces /\ active' = active
    BY <1>3, CancelMoves DEF NotifyShutdown, CancelExecution
  <2> QED
    BY <2>1, ActiveKept DEF SamePlaces
<1>4. CASE UNCHANGED <<run, active>>
  BY <1>4, ActiveKept
<1>5. CASE Halt
  <2>1. active' = {}
    BY <1>5 DEF Halt
  <2>2. Registered \subseteq Starting /\ "gone" \notin Registered
    BY DEF Registered, Starting, HoldsPermit, HoldsSlot
  <2>3. \A s \in Runs : run'[s].pc \notin Registered
    BY <1>5, <2>2, HaltMoves
  <2> QED
    BY <2>1, <2>3 DEF ActiveAreRunning, Registered
<1>6. CASE \/ \E t \in Tasks : (\E saved \in TaskRow : SaveTask(t, saved)) \/ DeleteTask(t) \/ Purge(t)
           \/ EndDispatcher \/ EndWait \/ Boot \/ UNCHANGED vars
  <2>1. UNCHANGED <<run, active>>
    BY <1>6 DEF SaveTask, DeleteTask, Purge, EndDispatcher, EndWait, Boot, vars
  <2> QED
    BY <2>1, <1>4
<1> QED
  BY <1>1, <1>2, <1>3, <1>5, <1>6, StepKinds

-----------------------------------------------------------------------------
(* The agent and its dispatcher.                                           *)

\* Every step leaves a process that has ended idle.
LEMMA DownStep ==
    ASSUME Typed, DownIsIdle, [Next]_vars
    PROVE  DownIsIdle'
<1> USE DEF dbVars, managerVars, agentVars
<1>1. ASSUME NEW r \in Runs, NEW t \in Tasks, Dispatch(r, t) \/ HandleTriggerNow(r, t)
      PROVE  DownIsIdle'
  <2>1. phase # "down" /\ phase' = phase
    BY <1>1 DEF Dispatch, HandleTriggerNow, Find, DownIsIdle
  <2> QED
    BY <2>1 DEF DownIsIdle
<1>2. ASSUME NEW r \in Runs, RunStep(r)
      PROVE  DownIsIdle'
  <2>1. RunMoves(r) /\ phase' = phase
    BY <1>2, RunStepMoves, RunStepEffects DEF RunEffects
  <2>2. run[r].pc \in Starting
    BY <2>1 DEF RunMoves, Moves, Starting, HoldsPermit, HoldsSlot
  <2> QED
    BY <2>1, <2>2 DEF DownIsIdle
<1>3. CASE NotifyShutdown \/ \E r \in Runs : CancelExecution(r)
  <2>1. SamePlaces
    BY <1>3, CancelMoves
  <2> QED
    BY <1>3, <2>1 DEF NotifyShutdown, CancelExecution, DownIsIdle, SamePlaces
<1>4. CASE Halt
  <2>1. ~dispatching'
    BY <1>4 DEF Halt
  <2>2. \A s \in Runs : run'[s].pc \notin Starting
    BY <1>4, HaltMoves, StageFacts DEF Ended
  <2> QED
    BY <2>1, <2>2 DEF DownIsIdle
<1>5. CASE \/ \E t \in Tasks : (\E saved \in TaskRow : SaveTask(t, saved)) \/ DeleteTask(t) \/ Purge(t)
           \/ EndDispatcher \/ EndWait \/ Boot \/ UNCHANGED vars
  <2>1. \/ UNCHANGED <<run, phase, dispatching>>
        \/ phase' # "down"
    BY <1>5 DEF SaveTask, DeleteTask, Purge, EndDispatcher, EndWait, Boot, vars
  <2> QED
    BY <2>1 DEF DownIsIdle
<1> QED
  BY <1>1, <1>2, <1>3, <1>4, <1>5, StepKinds

\* A run that the dispatcher is still starting after a step that is not its
\* own, it was starting before.
LEMMA BusyStep ==
    ASSUME Typed, [Next]_vars, ~dispatching,
           \A r \in Runs : run[r].src = "dispatch" => run[r].pc # "idle"
    PROVE  /\ ~DispatcherBusy => ~DispatcherBusy'
           /\ \A r \in Runs : run'[r].src = "dispatch" => run[r].src = "dispatch"
<1> USE DEF dbVars, managerVars, agentVars
<1>1. ASSUME NEW r \in Runs, NEW t \in Tasks, HandleTriggerNow(r, t)
      PROVE  \A s \in Runs : run'[s].src = "dispatch" => run'[s] = run[s]
  <2>1. Find(r, "rpc", t)
    BY <1>1 DEF HandleTriggerNow
  <2>2. Only(r) /\ run'[r].src # "dispatch"
    BY <2>1, FindMoves
  <2> QED
    BY <2>2 DEF Only
<1>2. ASSUME NEW r \in Runs, RunStep(r)
      PROVE  /\ ~DispatcherBusy => ~DispatcherBusy'
             /\ \A s \in Runs : run'[s].src = "dispatch" => run[s].src = "dispatch"
  <2>1. RunMoves(r)
    BY <1>2, RunStepMoves
  <2>2. Only(r) /\ (run'[r].src = None \/ run'[r].src = run[r].src)
    BY <2>1 DEF RunMoves
  <2>3. CASE run'[r].pc \in {"found", "permit"}
    <3>1. run[r].pc = "found" /\ run'[r].src = run[r].src
      BY <2>1, <2>3 DEF RunMoves, Moves, Ended
    <3> QED
      BY <2>2, <3>1 DEF Only, DispatcherBusy
  <2>4. CASE run'[r].pc \notin {"found", "permit"}
    <3>1. CASE run'[r].src = run[r].src
      BY <2>2, <2>4, <3>1 DEF Only, DispatcherBusy
    <3>2. CASE run'[r].src # run[r].src
      <4>1. run'[r].pc \in Ended
        BY <2>1, <3>2 DEF RunMoves
      <4>2. run'[r].src # "dispatch"
        BY <2>1, <4>1, NoneAssumption DEF RunMoves
      <4> QED
        BY <2>2, <2>4, <4>2 DEF Only, DispatcherBusy
    <3> QED
      BY <3>1, <3>2
  <2> QED
    BY <2>3, <2>4
<1>3. CASE NotifyShutdown \/ \E r \in Runs : CancelExecution(r)
  <2>1. SamePlaces
    BY <1>3, CancelMoves
  <2> QED
    BY <2>1 DEF SamePlaces, DispatcherBusy
<1>4. CASE Halt
  <2>1. \A s \in Runs : run'[s].src = "dispatch" => run'[s] = run[s]
    BY <1>4, HaltMoves, NoneAssumption
  <2> QED
    BY <2>1 DEF DispatcherBusy
<1>5. CASE \/ \E t \in Tasks : (\E saved \in TaskRow : SaveTask(t, saved)) \/ DeleteTask(t) \/ Purge(t)
           \/ EndDispatcher \/ EndWait \/ Boot \/ UNCHANGED vars
  <2>1. run' = run
    BY <1>5 DEF SaveTask, DeleteTask, Purge, EndDispatcher, EndWait, Boot, vars
  <2> QED
    BY <2>1 DEF DispatcherBusy
<1>6. \A r \in Runs, t \in Tasks : ~Dispatch(r, t)
  BY DEF Dispatch
<1> QED
  BY <1>1, <1>2, <1>3, <1>4, <1>5, <1>6, StepKinds DEF DispatcherBusy

\* No step makes a run idle again.
LEMMA IdleStep ==
    ASSUME Typed, [Next]_vars, NEW s \in Runs, run'[s].pc = "idle"
    PROVE  run[s].pc = "idle" /\ run'[s].src = run[s].src
<1>1. ASSUME NEW r \in Runs, NEW t \in Tasks, Dispatch(r, t) \/ HandleTriggerNow(r, t)
      PROVE  run[s].pc = "idle" /\ run'[s].src = run[s].src
  <2>1. Only(r) /\ run'[r].pc # "idle"
    BY <1>1, FindMoves DEF Dispatch, HandleTriggerNow
  <2> QED
    BY <2>1 DEF Only
<1>2. ASSUME NEW r \in Runs, RunStep(r)
      PROVE  run[s].pc = "idle" /\ run'[s].src = run[s].src
  <2>1. RunMoves(r)
    BY <1>2, RunStepMoves
  <2>2. Only(r) /\ run'[r].pc # "idle"
    BY <2>1 DEF RunMoves, Moves
  <2> QED
    BY <2>2 DEF Only
<1>3. CASE NotifyShutdown \/ \E r \in Runs : CancelExecution(r)
  BY <1>3, CancelMoves DEF SamePlaces
<1>4. CASE Halt
  BY <1>4, HaltMoves
<1>5. CASE \/ \E t \in Tasks : (\E saved \in TaskRow : SaveTask(t, saved)) \/ DeleteTask(t) \/ Purge(t)
           \/ EndDispatcher \/ EndWait \/ Boot \/ UNCHANGED vars
  <2>1. run' = run
    BY <1>5 DEF SaveTask, DeleteTask, Purge, EndDispatcher, EndWait, Boot, vars
  <2> QED
    BY <2>1
<1> QED
  BY <1>1, <1>2, <1>3, <1>4, <1>5, StepKinds

\* A run that has ended, or has nothing left but its permit, stays so.
LEMMA EndedStays ==
    ASSUME Typed, [Next]_vars, NEW s \in Runs, run[s].pc \in Ended \cup {"released"}
    PROVE  run'[s].pc \in Ended \cup {"released"}
<1>0. "gone" \in Ended /\ "done" \in Ended /\ run[s].pc # "idle"
  BY DEF Ended
<1>1. ASSUME NEW r \in Runs, NEW t \in Tasks, Dispatch(r, t) \/ HandleTriggerNow(r, t)
      PROVE  run'[s].pc \in Ended \cup {"released"}
  <2>1. Only(r) /\ run[r].pc = "idle"
    BY <1>1, FindMoves DEF Dispatch, HandleTriggerNow
  <2> QED
    BY <1>0, <2>1 DEF Only
<1>2. ASSUME NEW r \in Runs, RunStep(r)
      PROVE  run'[s].pc \in Ended \cup {"released"}
  <2>1. RunMoves(r)
    BY <1>2, RunStepMoves
  <2>2. CASE r = s
    <3>1. run[s].pc = "released" /\ run'[s].pc = "done"
      BY <2>1, <2>2 DEF RunMoves, Moves, Ended
    <3> QED
      BY <1>0, <3>1
  <2>3. CASE r # s
    BY <2>1, <2>3 DEF RunMoves, Only
  <2> QED
    BY <2>2, <2>3
<1>3. CASE NotifyShutdown \/ \E r \in Runs : CancelExecution(r)
  BY <1>3, CancelMoves DEF SamePlaces
<1>4. CASE Halt
  BY <1>0, <1>4, HaltMoves
<1>5. CASE \/ \E t \in Tasks : (\E saved \in TaskRow : SaveTask(t, saved)) \/ DeleteTask(t) \/ Purge(t)
           \/ EndDispatcher \/ EndWait \/ Boot \/ UNCHANGED vars
  <2>1. run' = run
    BY <1>5 DEF SaveTask, DeleteTask, Purge, EndDispatcher, EndWait, Boot, vars
  <2> QED
    BY <2>1
<1> QED
  BY <1>1, <1>2, <1>3, <1>4, <1>5, StepKinds

\* How the agent moves: the dispatcher is awaited before the wait, the wait
\* sets `drained`, and only a start sets the dispatcher going.
LEMMA PhaseStep ==
    ASSUME Typed, [Next]_vars
    PROVE  \/ UNCHANGED <<phase, dispatching, drained>>
           \/ phase = "up" /\ phase' = "stopping" /\ UNCHANGED <<dispatching, drained>>
           \/ EndDispatcher \/ EndWait
           \/ /\ phase' \in {"up", "down"}
              /\ ~drained' \/ (drained' = drained /\ phase = "down")
<1> USE DEF dbVars, managerVars, agentVars
<1>1. CASE \E r \in Runs, t \in Tasks : Dispatch(r, t) \/ HandleTriggerNow(r, t)
  BY <1>1 DEF Dispatch, HandleTriggerNow, Find
<1>2. CASE \E r \in Runs : RunStep(r)
  BY <1>2, RunStepEffects DEF RunEffects
<1>3. CASE Halt
  BY <1>3 DEF Halt
<1>4. CASE NotifyShutdown
  BY <1>4 DEF NotifyShutdown
<1>5. CASE Boot
  BY <1>5 DEF Boot
<1>6. CASE \/ \E r \in Runs : CancelExecution(r)
           \/ \E t \in Tasks : (\E saved \in TaskRow : SaveTask(t, saved)) \/ DeleteTask(t) \/ Purge(t)
           \/ UNCHANGED vars
  BY <1>6 DEF CancelExecution, SaveTask, DeleteTask, Purge, vars
<1> QED
  BY <1>1, <1>2, <1>3, <1>4, <1>5, <1>6, StepKinds

\* Every step after the wait for the dispatcher leaves it ended.
LEMMA DispatcherStep ==
    ASSUME Typed, DispatcherEnded, [Next]_vars
    PROVE  DispatcherEnded'
<1>1. \A r \in Runs : run'[r].src = "dispatch" => run'[r].pc # "idle"
  BY IdleStep DEF DispatcherEnded
<1>2. drained' => phase' = "leaving"
  BY PhaseStep DEF DispatcherEnded, EndDispatcher, EndWait
<1>3. phase' \in {"waiting", "leaving"} => ~dispatching' /\ ~DispatcherBusy'
  <2>1. CASE EndDispatcher
    BY <2>1 DEF EndDispatcher, DispatcherBusy
  <2>2. CASE EndWait
    BY <2>2 DEF EndWait, DispatcherEnded, DispatcherBusy
  <2>3. CASE UNCHANGED <<phase, dispatching, drained>>
    BY <2>3, BusyStep DEF DispatcherEnded
  <2> QED
    BY <2>1, <2>2, <2>3, PhaseStep
<1> QED
  BY <1>1, <1>2, <1>3 DEF DispatcherEnded

\* When all counters are zero the runs of an ended dispatcher have ended, and
\* they stay so until the process is gone.
LEMMA DrainStep ==
    ASSUME Typed, Accounting, DispatcherEnded, DrainedDispatch, [Next]_vars
    PROVE  DrainedDispatch'
<1> SUFFICES ASSUME phase' = "leaving", drained', NEW s \in Runs, run'[s].src = "dispatch"
             PROVE  run'[s].pc \in Ended \cup {"released"}
  BY DEF DrainedDispatch
<1>1. CASE EndWait
  <2>1. run' = run /\ phase = "waiting"
    BY <1>1 DEF EndWait
  <2>2. \A t \in Tasks : counts[t] = 0
    <3>1. ~drained
      BY <2>1 DEF DispatcherEnded
    <3> QED
      BY <1>1, <3>1 DEF EndWait
  <2>3. run[s].pc \notin HoldsSlot
    <3>1. run[s].pc \in HoldsSlot => run[s].task \in Tasks
      BY StageFacts DEF Typed, Tasked
    <3>2. \A t \in Tasks : SlotHolders(t) = {}
      BY <2>2, FewHolders
    <3> QED
      BY <3>1, <3>2 DEF SlotHolders
  <2>4. run[s].pc \notin {"found", "permit", "idle"}
    BY <2>1 DEF DispatcherEnded, DispatcherBusy
  <2>5. run[s].pc \in Starting \cup Ended \cup {"idle"}
    BY DEF Typed, TypeOK, RunState
  <2> QED
    BY <2>1, <2>3, <2>4, <2>5 DEF Starting, HoldsPermit
<1>2. CASE UNCHANGED <<phase, dispatching, drained>>
  <2>1. /\ ~dispatching /\ \A r \in Runs : run[r].src = "dispatch" => run[r].pc \in Ended \cup {"released"}
    BY <1>2 DEF DispatcherEnded, DrainedDispatch
  <2>2. run[s].src = "dispatch"
    BY <2>1, BusyStep DEF DispatcherEnded
  <2>3. run[s].pc \in Ended \cup {"released"}
    BY <2>1, <2>2
  <2>4. run[s].pc # "idle"
    BY <2>2 DEF DispatcherEnded
  <2> QED
    BY <2>3, <2>4, EndedStays
<1> QED
  BY <1>1, <1>2, PhaseStep DEF DispatcherEnded, EndDispatcher

-----------------------------------------------------------------------------
(* The rows.                                                               *)

\* What the three invariants of the rows say of one run.
RowOK(s) ==
    /\ run[s].pc \in {"idle", "found", "permit", "slot", "failed", "refused", "skipped"}
          => row[s] = None
    /\ run[s].pc \in {"created", "running", "child", "killing", "finishing"}
          => row[s] \in {"Running", None}
    /\ phase # "down" /\ row[s] = "Running" =>
          \/ run[s].pc \in {"created", "running", "child", "killing", "finishing"}
          \/ s \in lost
    /\ run[s].pc \in {"updated", "announced", "deregistered"} /\ s \notin lost =>
          row[s] \in {run[s].final, None}

\* The three invariants of the rows, one run at a time.
LEMMA RowsAreOK == RowsFollow /\ RowsAlive /\ Stored <=> \A s \in Runs : RowOK(s)
BY DEF RowsFollow, RowsAlive, Stored, RowOK

\* A row that is kept, or removed, stays right while its run stays in place.
LEMMA RowKept ==
    ASSUME NEW s \in Runs, RowOK(s), row'[s] = row[s] \/ row'[s] = None,
           run'[s].pc = run[s].pc, run'[s].final = run[s].final,
           lost' = lost, phase # "down" \/ phase' = phase
    PROVE  RowOK(s)'
BY NoneAssumption DEF RowOK, Status

\* The step of a run keeps its row right.
LEMMA OwnRowStep ==
    ASSUME Typed, NEW s \in Runs, RowOK(s), RunStep(s)
    PROVE  RowOK(s)'
<1>1. RunMoves(s) /\ RunEffects(s)
  BY RunStepMoves, RunStepEffects
<1>2. phase' = phase
  BY <1>1 DEF RunEffects, agentVars
<1>3. run[s].final \in Terminal \cup {None} /\ row \in [Runs -> Status \cup {None}]
  BY DEF Typed, TypeOK, RunState
<1>4. CASE run[s].pc = "finishing"
  <2>1. run'[s].pc = "updated" /\ run'[s].final = run[s].final
    BY <1>1, <1>4 DEF RunMoves, Moves
  <2>2. CASE row' = [row EXCEPT ![s] = IF @ = None THEN None ELSE run[s].final]
    <3>1. row'[s] \in {run[s].final, None} /\ row'[s] # "Running"
      BY <1>3, <2>2, NoneAssumption DEF Terminal, Status
    <3> QED
      BY <2>1, <3>1 DEF RowOK
  <2>3. CASE lost' = lost \cup {s}
    BY <2>1, <2>3 DEF RowOK
  <2> QED
    BY <1>1, <1>4, <2>2, <2>3 DEF RunEffects
<1>5. CASE run[s].pc = "slot" /\ run'[s].pc = "created"
  <2>1. row'[s] = "Running"
    BY <1>1, <1>3, <1>5 DEF RunEffects
  <2> QED
    BY <1>5, <2>1 DEF RowOK
<1>6. CASE run[s].pc # "finishing" /\ run'[s].pc # "created"
  <2>1. row' = row /\ lost' = lost
    BY <1>1, <1>6 DEF RunEffects
  <2> QED
    BY <1>1, <1>2, <1>6, <2>1, NoneAssumption DEF RowOK, RunMoves, Moves, Status
<1> QED
  BY <1>1, <1>4, <1>5, <1>6 DEF RunMoves, Moves

\* Every step keeps the rows right: the writes of their runs, the deletes of
\* tasks and logs, the end of the process and the recovery after it.
LEMMA RowsStep ==
    ASSUME Typed, DownIsIdle, [Next]_vars, NEW s \in Runs, RowOK(s)
    PROVE  RowOK(s)'
<1> USE DEF dbVars, managerVars, agentVars
<1>0. row \in [Runs -> Status \cup {None}]
  BY DEF Typed, TypeOK
<1>1. ASSUME NEW r \in Runs, NEW t \in Tasks, Dispatch(r, t) \/ HandleTriggerNow(r, t)
      PROVE  RowOK(s)'
  <2>1. UNCHANGED <<row, lost, phase>>
    BY <1>1 DEF Dispatch, HandleTriggerNow, Find
  <2>2. Only(r) /\ run[r].pc = "idle" /\ run'[r].pc \in {"found", "refused"}
    BY <1>1, FindMoves DEF Dispatch, HandleTriggerNow
  <2>3. CASE r = s
    BY <2>1, <2>2, <2>3, NoneAssumption DEF RowOK, Status
  <2>4. CASE r # s
    BY <2>1, <2>2, <2>4 DEF RowOK, Only
  <2> QED
    BY <2>3, <2>4
<1>2. ASSUME NEW r \in Runs, RunStep(r)
      PROVE  RowOK(s)'
  <2>1. CASE r = s
    BY <1>2, <2>1, OwnRowStep
  <2>2. CASE r # s
    <3>1. RunMoves(r) /\ RunEffects(r)
      BY <1>2, RunStepMoves, RunStepEffects
    <3>2. run'[s] = run[s] /\ phase' = phase
      BY <2>2, <3>1 DEF RunMoves, Only, RunEffects
    <3>3. row'[s] = row[s] /\ (s \in lost' <=> s \in lost)
      BY <1>0, <2>2, <3>1 DEF RunEffects
    <3> QED
      BY <3>2, <3>3 DEF RowOK
  <2> QED
    BY <2>1, <2>2
<1>3. CASE NotifyShutdown \/ \E r \in Runs : CancelExecution(r)
  <2>1. SamePlaces /\ row' = row /\ lost' = lost /\ phase # "down"
    BY <1>3, CancelMoves DEF NotifyShutdown, CancelExecution
  <2> QED
    BY <2>1, RowKept DEF SamePlaces
<1>4. CASE Halt
  <2>1. row' = row /\ lost' = lost /\ phase' = "down"
    BY <1>4 DEF Halt
  <2>2. run'[s].pc = "gone" \/ run'[s] = run[s]
    BY <1>4, HaltMoves
  <2> QED
    BY <2>1, <2>2 DEF RowOK
<1>5. CASE Boot
  <2>1. run' = run /\ lost' = lost /\ phase = "down"
        /\ row'[s] = IF row[s] = "Running" THEN "Interrupted" ELSE row[s]
    BY <1>5 DEF Boot
  <2>2. run[s].pc \notin Starting
    BY <2>1 DEF DownIsIdle
  <2>3. run[s].pc \notin {"created", "running", "child", "killing", "finishing",
                         "updated", "announced", "deregistered"}
    BY <2>2 DEF Starting, HoldsPermit, HoldsSlot
  <2>4. row'[s] # "Running" /\ (row[s] = None => row'[s] = None)
    BY <2>1, NoneAssumption DEF Status
  <2> QED
    BY <2>1, <2>3, <2>4 DEF RowOK
<1>6. CASE \E t \in Tasks : (\E saved \in TaskRow : SaveTask(t, saved)) \/ DeleteTask(t) \/ Purge(t)
  <2>1. UNCHANGED <<run, lost, phase>> /\ (row'[s] = row[s] \/ row'[s] = None)
    BY <1>6 DEF SaveTask, DeleteTask, Purge
  <2> QED
    BY <2>1, RowKept
<1>7. CASE EndDispatcher \/ EndWait \/ UNCHANGED vars
  <2>1. UNCHANGED <<run, row, lost>> /\ (phase' = phase \/ phase # "down")
    BY <1>7 DEF EndDispatcher, EndWait, vars
  <2> QED
    BY <2>1, RowKept
<1> QED
  BY <1>1, <1>2, <1>3, <1>4, <1>5, <1>6, <1>7, StepKinds

-----------------------------------------------------------------------------
(* Cancelling.                                                             *)

\* A cancelled run has at most the action in progress completed since.
StopsInTime(x) ==
    x.cancelledAt # None => x.left >= x.cancelledAt - (IF x.pc = "child" THEN 0 ELSE 1)

\* CancelStops, one run at a time.
LEMMA StopsAreCancelStops == CancelStops <=> \A s \in Runs : StopsInTime(run[s])
BY DEF CancelStops, StopsInTime, Cancelled

\* The step of a run starts no action after its cancel.
LEMMA OwnStopStep ==
    ASSUME Typed, NEW s \in Runs, StopsInTime(run[s]), RunStep(s)
    PROVE  StopsInTime(run'[s])
<1>0. /\ run \in [Runs -> RunState] /\ run[s] \in RunState
      /\ run[s].left \in Int /\ run[s].cancelledAt \in Int \cup {None}
  BY DEF Typed, TypeOK, RunState
<1>1. CASE run'[s].pc \in Ended
  BY <1>1, RunStepMoves DEF RunMoves, StopsInTime
<1>2. CASE Register(s)
  <2>1. /\ run[s].pc = "created" /\ run'[s].pc = "running" /\ run'[s].left = run[s].left
        /\ run'[s].cancelledAt = run[s].left \/ run'[s].cancelledAt = run[s].cancelledAt
    BY <1>0, <1>2 DEF Register, RunState
  <2> QED
    BY <1>0, <2>1 DEF StopsInTime
<1>3. CASE StartAction(s)
  <2>1. /\ run[s].pc = "running" /\ run'[s].left = run[s].left
        /\ run'[s].cancelledAt = run[s].cancelledAt
        /\ run'[s].pc = "finishing" \/ (run'[s].pc = "child" /\ ~Cancelled(s))
    BY <1>0, <1>3 DEF StartAction, RunState
  <2> QED
    BY <1>0, <2>1 DEF StopsInTime, Cancelled
<1>4. CASE ChildExits(s)
  <2>1. /\ run[s].pc = "child" /\ run'[s].cancelledAt = run[s].cancelledAt
        /\ \/ run'[s].pc = "running" /\ run'[s].left = run[s].left - 1
           \/ run'[s].pc = "finishing" /\ run'[s].left = run[s].left
    BY <1>0, <1>4 DEF ChildExits, RunState
  <2> QED
    BY <1>0, <2>1 DEF StopsInTime
<1>5. CASE \E status \in {"Cancelled", "TimedOut"} : KillChild(s, status)
  <2>1. /\ run[s].pc = "child" /\ run'[s].pc = "killing"
        /\ run'[s].cancelledAt = run[s].cancelledAt /\ run'[s].left = run[s].left
    BY <1>0, <1>5 DEF KillChild, RunState
  <2> QED
    BY <1>0, <2>1 DEF StopsInTime
<1>6. ASSUME NEW to \in {"permit", "slot", "created", "failed", "finishing", "updated", "announced",
                        "deregistered", "released"},
             Goto(s, to), run[s].pc # "child"
      PROVE  StopsInTime(run'[s])
  <2>1. /\ run'[s].pc # "child" /\ run'[s].cancelledAt = run[s].cancelledAt
        /\ run'[s].left = run[s].left
    BY <1>0, <1>6 DEF Goto, RunState
  <2> QED
    BY <1>0, <1>6, <2>1 DEF StopsInTime
<1>7. CASE \/ AcquirePermit(s) \/ TryAcquireSlot(s) \/ DropPermit(s) \/ CreateRun(s)
           \/ ReapChild(s) \/ UpdateRun(s) \/ Announce(s) \/ Deregister(s) \/ ReleaseSlot(s)
  <2>1. \/ End(s, "refused") \/ End(s, "skipped") \/ End(s, "done")
        \/ \E to \in {"permit", "slot", "created", "failed", "finishing", "updated", "announced",
                      "deregistered", "released"} : Goto(s, to) /\ run[s].pc # "child"
    BY <1>7 DEF AcquirePermit, TryAcquireSlot, DropPermit, CreateRun, ReapChild, UpdateRun,
       Announce, Deregister, ReleaseSlot
  <2>2. CASE End(s, "refused") \/ End(s, "skipped") \/ End(s, "done")
    BY <1>1, <2>2, EndFields DEF Ended
  <2> QED
    BY <1>6, <2>1, <2>2
<1> QED
  BY <1>2, <1>3, <1>4, <1>5, <1>7 DEF RunStep

\* Every step, cancels included, leaves each cancelled run within its bound.
LEMMA StopsStep ==
    ASSUME Typed, [Next]_vars, NEW s \in Runs, StopsInTime(run[s])
    PROVE  StopsInTime(run'[s])
<1>0. /\ run \in [Runs -> RunState] /\ run[s] \in RunState
      /\ run[s].left \in Int /\ run[s].cancelledAt \in Int \cup {None}
  BY DEF Typed, TypeOK, RunState
<1>1. ASSUME NEW r \in Runs, NEW t \in Tasks, Dispatch(r, t) \/ HandleTriggerNow(r, t)
      PROVE  StopsInTime(run'[s])
  <2>1. /\ Only(r) /\ run[r].pc = "idle" /\ run'[r].pc # "child"
        /\ \/ run'[r].cancelledAt = None
           \/ run'[r].cancelledAt = run[r].cancelledAt /\ run'[r].left = run[r].left
    BY <1>1, FindMoves DEF Dispatch, HandleTriggerNow
  <2>2. CASE r = s
    BY <1>0, <2>1, <2>2 DEF StopsInTime
  <2>3. CASE r # s
    BY <2>1, <2>3 DEF Only
  <2> QED
    BY <2>2, <2>3
<1>2. ASSUME NEW r \in Runs, RunStep(r)
      PROVE  StopsInTime(run'[s])
  <2>1. CASE r = s
    BY <1>2, <2>1, OwnStopStep
  <2>2. CASE r # s
    BY <1>2, <2>2, RunStepMoves DEF RunMoves, Only
  <2> QED
    BY <2>1, <2>2
<1>3. CASE NotifyShutdown \/ \E r \in Runs : CancelExecution(r)
  <2>1. \/ run'[s] = run[s]
        \/ /\ run'[s].cancelledAt = run[s].left /\ run'[s].left = run[s].left
    BY <1>0, <1>3 DEF NotifyShutdown, CancelExecution, RunState
  <2> QED
    BY <1>0, <2>1 DEF StopsInTime
<1>4. CASE Halt
  <2>1. run'[s] = run[s] \/ run'[s].cancelledAt = None
    BY <1>4, HaltMoves
  <2> QED
    BY <2>1 DEF StopsInTime
<1>5. CASE \/ \E t \in Tasks : (\E saved \in TaskRow : SaveTask(t, saved)) \/ DeleteTask(t) \/ Purge(t)
           \/ EndDispatcher \/ EndWait \/ Boot \/ UNCHANGED vars
  <2>1. run' = run
    BY <1>5 DEF SaveTask, DeleteTask, Purge, EndDispatcher, EndWait, Boot, vars
  <2> QED
    BY <2>1
<1> QED
  BY <1>1, <1>2, <1>3, <1>4, <1>5, StepKinds

-----------------------------------------------------------------------------
(* The theorems.                                                           *)

\* Every step keeps the inductive invariant.
LEMMA RunInvStep ==
    ASSUME RunInv, [Next]_vars
    PROVE  RunInv'
<1>1. /\ Typed /\ Accounting /\ ActiveAreRunning /\ DownIsIdle /\ DispatcherEnded /\ DrainedDispatch
      /\ \A s \in Runs : RowOK(s) /\ StopsInTime(run[s])
  BY RowsAreOK, StopsAreCancelStops DEF RunInv
<1>2. Typed' /\ Accounting' /\ ActiveAreRunning' /\ DownIsIdle' /\ DispatcherEnded' /\ DrainedDispatch'
  BY <1>1, TypedStep, AccountingStep, ActiveStep, DownStep, DispatcherStep, DrainStep
<1>3. \A s \in Runs : RowOK(s)' /\ StopsInTime(run'[s])
  BY <1>1, RowsStep, StopsStep
<1>4. RowsFollow' /\ RowsAlive' /\ Stored'
  BY <1>3 DEF RowsFollow, RowsAlive, Stored, RowOK
<1>5. CancelStops'
  BY <1>3 DEF CancelStops, StopsInTime, Cancelled
<1> QED
  BY <1>2, <1>4, <1>5 DEF RunInv

\* It holds when the agent starts for the first time.
LEMMA RunInvInit == Init => RunInv
<1> SUFFICES ASSUME Init PROVE RunInv
  OBVIOUS
<1>1. \A r \in Runs : /\ run[r].pc = "idle" /\ run[r].src = None /\ run[r].cancelledAt = None
                      /\ row[r] = None
  BY DEF Init, NoRun
<1>2. phase = "up" /\ active = {} /\ ~drained
  BY DEF Init
<1>3. Typed /\ Accounting
  BY TypedInit, AccountingInit
<1>4. ActiveAreRunning /\ CancelStops
  BY <1>1, <1>2 DEF ActiveAreRunning, CancelStops, Cancelled
<1>5. RowsFollow /\ RowsAlive /\ Stored
  BY <1>1, NoneAssumption DEF RowsFollow, RowsAlive, Stored, Status
<1>6. DownIsIdle /\ DispatcherEnded /\ DrainedDispatch
  BY <1>1, <1>2, NoneAssumption DEF DownIsIdle, DispatcherEnded, DrainedDispatch
<1> QED
  BY <1>3, <1>4, <1>5, <1>6 DEF RunInv

\* The inductive invariant holds in every reachable state.
LEMMA RunInvCorrect == Spec => []RunInv
BY RunInvInit, RunInvStep, PTL DEF Spec

\* Whatever the agent died of, a row that says Running while it is up has a run
\* that will still update it, or one whose last update failed; and what can be
\* cancelled is registered exactly while it may be running.
THEOREM NoGhostRunsCorrect == Spec => []NoGhostRuns
<1>1. RunInv => NoGhostRuns
  BY DEF RunInv, RowsAlive, NoGhostRuns
<1> QED
  BY <1>1, RunInvCorrect, PTL

\* A client that hears execution.finished finds the run finished, whatever
\* purge, delete, crash or recovery comes between, unless update_run failed.
THEOREM FinishedIsStoredCorrect == Spec => []FinishedIsStored
<1>1. RunInv => FinishedIsStored
  BY DEF RunInv, Stored, FinishedIsStored
<1> QED
  BY <1>1, RunInvCorrect, PTL

\* A cancelled run, by a client or by the shutdown, completes at most the action
\* in progress, for any number of actions.
THEOREM CancelStopsCorrect == Spec => []CancelStops
<1>1. RunInv => CancelStops
  BY DEF RunInv
<1> QED
  BY <1>1, RunInvCorrect, PTL

\* A shutdown whose wait has seen all counters at zero leaves no run of the
\* dispatcher behind.
THEOREM DrainedDispatchCorrect == Spec => []DrainedDispatch
<1>1. RunInv => DrainedDispatch
  BY DEF RunInv
<1> QED
  BY <1>1, RunInvCorrect, PTL

\* What a step may do to the row of a run.
NextStatus(r) ==
    \/ row'[r] = row[r]
    \/ row[r] = None /\ row'[r] = "Running" /\ run[r].pc = "slot"
    \/ row[r] = "Running" /\ row'[r] \in {run[r].final, "Interrupted"}
    \/ row[r] = "Running" /\ row'[r] = None /\ taskRow'[run[r].task] = None
    \/ row[r] \in Terminal /\ row'[r] = None

\* Every step writes the statuses in their order.
LEMMA StatusStep ==
    ASSUME RunInv, [Next]_vars, NEW s \in Runs
    PROVE  NextStatus(s)
<1> USE DEF dbVars, managerVars, agentVars
<1>0. /\ row \in [Runs -> Status \cup {None}] /\ taskRow \in [Tasks -> TaskRow \cup {None}]
      /\ Typed /\ RowsFollow
  BY DEF RunInv, Typed, TypeOK
<1>1. CASE row' = row
  BY <1>1 DEF NextStatus
<1>2. ASSUME NEW r \in Runs, RunStep(r)
      PROVE  NextStatus(s)
  <2>1. RunEffects(r)
    BY <1>0, <1>2, RunStepEffects
  <2>2. CASE r = s
    <3>1. CASE run[s].pc = "slot" /\ row' = [row EXCEPT ![s] = "Running"]
      BY <1>0, <3>1 DEF NextStatus, RowsFollow
    <3>2. CASE /\ run[s].pc = "finishing"
               /\ row' = [row EXCEPT ![s] = IF @ = None THEN None ELSE run[s].final]
      BY <1>0, <3>2 DEF NextStatus, RowsFollow
    <3> QED
      BY <1>1, <2>1, <2>2, <3>1, <3>2 DEF RunEffects
  <2>3. CASE r # s
    <3>1. row'[s] = row[s]
      BY <1>0, <2>1, <2>3 DEF RunEffects
    <3> QED
      BY <3>1 DEF NextStatus
  <2> QED
    BY <2>2, <2>3
<1>3. ASSUME NEW t \in Tasks, DeleteTask(t)
      PROVE  NextStatus(s)
  <2>1. row'[s] = IF run[s].task = t THEN None ELSE row[s]
    BY <1>3 DEF DeleteTask
  <2>2. taskRow'[t] = None
    BY <1>0, <1>3 DEF DeleteTask
  <2> QED
    BY <1>0, <2>1, <2>2 DEF NextStatus, Status
<1>4. ASSUME NEW t \in Tasks, Purge(t)
      PROVE  NextStatus(s)
  <2>1. row'[s] = row[s] \/ (row'[s] = None /\ row[s] \in Terminal)
    BY <1>4 DEF Purge
  <2> QED
    BY <2>1 DEF NextStatus
<1>5. CASE Boot
  <2>1. row'[s] = IF row[s] = "Running" THEN "Interrupted" ELSE row[s]
    BY <1>5 DEF Boot
  <2> QED
    BY <2>1 DEF NextStatus
<1>6. \/ row' = row \/ \E r \in Runs : RunStep(r)
      \/ \E t \in Tasks : DeleteTask(t) \/ Purge(t)
      \/ Boot
  BY <1>0, StepKinds DEF Dispatch, HandleTriggerNow, Find, NotifyShutdown, CancelExecution,
     SaveTask, EndDispatcher, EndWait, Halt, vars
<1> QED
  BY <1>1, <1>2, <1>3, <1>4, <1>5, <1>6

\* The row of a run is created once, as Running, gets one terminal status that
\* nothing rewrites, and is removed while it says Running by the delete of its
\* task alone: in every step of any behaviour.
THEOREM RowLifecycleCorrect == Spec => RowLifecycle
<1>1. RunInv /\ [Next]_vars =>
        [\A r \in Runs :
            \/ row'[r] = row[r]
            \/ row[r] = None /\ row'[r] = "Running" /\ run[r].pc = "slot"
            \/ row[r] = "Running" /\ row'[r] \in {run[r].final, "Interrupted"}
            \/ row[r] = "Running" /\ row'[r] = None /\ taskRow'[run[r].task] = None
            \/ row[r] \in Terminal /\ row'[r] = None]_vars
  BY StatusStep DEF NextStatus
<1> QED
  BY <1>1, RunInvInit, RunInvStep, PTL DEF Spec, RowLifecycle
=============================================================================
