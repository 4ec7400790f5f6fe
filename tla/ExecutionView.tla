--------------------------- MODULE ExecutionView ---------------------------
(***************************************************************************)
(* What the user sees of one run: the execution store of the frontend      *)
(* (executionStore.ts) and the log drawer (LiveLogDrawer.vue), against an  *)
(* agent that starts the run, stores and announces its output, and         *)
(* finishes it.                                                            *)
(*                                                                         *)
(* The frontend is one thread: a callback runs to its next await.  Events  *)
(* come in order, but may be lost while the relay reconnects.  A request   *)
(* is answered from the tables at some point and its response is applied   *)
(* at a later one; the server handles every request in a task of its own,  *)
(* so that responses may overtake one another.  A request may also fail:   *)
(* the connection is lost, the call times out or the agent errs.           *)
(***************************************************************************)
EXTENDS Naturals, Sequences, SequencesExt

CONSTANTS Reordering,   \* whether responses may overtake one another
          Lossy,        \* whether events may be lost
          MaxOutputs,   \* bound: chunks of output of the run
          MaxClicks     \* bound: how often the user triggers, opens or reloads

VARIABLES
  row,       \* the status in task_runs
  ended,     \* whether the agent is done with the run
  stored,    \* the chunks in run_outputs
  produced,  \* the chunks announced
  events,    \* events on their way to the window
  reqs,      \* requests under way, oldest first
  list,      \* executions: the entries of this run, first one first
  finished,  \* finishedExecutions has this run
  logs,      \* the chunks in the log cache
  drawer,    \* LiveLogDrawer
  clicks,    \* what the user did
  reload     \* history: what came of the reloads asked after the end was heard

agentVars == <<row, ended, stored, produced>>
vars == <<row, ended, stored, produced, events, reqs, list, finished, logs,
          drawer, clicks, reload>>

Statuses == {"none", "Running", "Done"}
Request == [kind : {"trigger", "list", "output", "open", "openOutput", "poll"},
            answered : BOOLEAN, status : Statuses, chunks : Seq(1..MaxOutputs),
            late : BOOLEAN]   \* asked when the end had been heard
Event == [kind : {"started", "finished"}, chunk : {0}]
         \cup [kind : {"output"}, chunk : 1..MaxOutputs]
Asked(kind, late) == [kind |-> kind, answered |-> FALSE, status |-> "none", chunks |-> <<>>,
                      late |-> late]
Tables == {"list", "output"}

TypeOK ==
  /\ row \in Statuses /\ ended \in BOOLEAN /\ finished \in BOOLEAN
  /\ produced \in 0..MaxOutputs
  /\ stored \in Seq(1..MaxOutputs) /\ logs \in Seq(1..MaxOutputs)
  /\ events \in Seq(Event)
  /\ reqs \in Seq(Request)
  /\ list \in Seq({"Running", "Done"})
  /\ drawer \in [bound : BOOLEAN, show : BOOLEAN, status : Statuses, poll : BOOLEAN]
  /\ clicks \in 0..MaxClicks
  /\ reload \in [Tables -> {"none", "done", "failed"}]

\* The window is open, its listeners are registered, the run does not exist.
Init ==
  /\ row = "none" /\ ended = FALSE /\ stored = <<>> /\ produced = 0
  /\ events = <<>> /\ reqs = <<>>
  /\ list = <<>> /\ finished = FALSE /\ logs = <<>>
  /\ drawer = [bound |-> FALSE, show |-> FALSE, status |-> "none", poll |-> FALSE]
  /\ clicks = 0
  /\ reload = [t \in Tables |-> "none"]

Ask(kinds, late) == reqs \o [i \in 1..Len(kinds) |-> Asked(kinds[i], late)]

----------------------------------------------------------------------------
(* The agent.                                                              *)

\* The run is created by the dispatcher, or by a trigger_now request, whose
\* answer is the run.
StartRun ==
  /\ row = "none" /\ row' = "Running"
  /\ events' = Append(events, [kind |-> "started", chunk |-> 0])
  /\ \/ (\A i \in 1..Len(reqs) : reqs[i].kind # "trigger") /\ UNCHANGED reqs
     \/ \E i \in 1..Len(reqs) :
          /\ reqs[i].kind = "trigger" /\ ~ reqs[i].answered
          /\ reqs' = [reqs EXCEPT ![i].answered = TRUE, ![i].status = "Running"]
  /\ UNCHANGED <<ended, stored, produced, list, finished, logs, drawer, clicks, reload>>

\* A chunk is stored, unless the database errs, and announced.
Output ==
  /\ row = "Running" /\ ~ ended /\ produced < MaxOutputs
  /\ produced' = produced + 1
  /\ stored' \in {stored, Append(stored, produced + 1)}
  /\ events' = Append(events, [kind |-> "output", chunk |-> produced'])
  /\ UNCHANGED <<row, ended, reqs, list, finished, logs, drawer, clicks, reload>>

\* The row is updated, unless the database errs, and the end announced.
FinishRun ==
  /\ row = "Running" /\ ~ ended
  /\ ended' = TRUE /\ row' \in {"Done", "Running"}
  /\ events' = Append(events, [kind |-> "finished", chunk |-> 0])
  /\ UNCHANGED <<stored, produced, reqs, list, finished, logs, drawer, clicks, reload>>

\* A request is answered with what the tables hold at this moment.
Answer ==
  /\ \E i \in 1..Len(reqs) :
       /\ reqs[i].kind # "trigger" /\ ~ reqs[i].answered
       /\ Reordering \/ \A j \in 1..(i - 1) : reqs[j].answered
       /\ reqs' = [reqs EXCEPT ![i] = [@ EXCEPT !.answered = TRUE, !.status = row,
                                                !.chunks = stored]]
  /\ UNCHANGED <<agentVars, events, list, finished, logs, drawer, clicks, reload>>

----------------------------------------------------------------------------
(* The store and the drawer.                                               *)

\* Fault: whatever the list says.
SyncAlways(d, l) ==
  IF d.bound /\ l # <<>> THEN [d EXCEPT !.status = l[1]] ELSE d

\* The drawer watches the list: its first entry of the run, unless that
\* would take a finished run back to Running.
Sync(d, l) ==
  IF d.bound /\ l # <<>> /\ (d.status # "Done" \/ l[1] # "Running")
    THEN [d EXCEPT !.status = l[1]] ELSE d

\* The drawer is shown: it takes the cached entry and the finished record,
\* and asks for the run.
Opened(l) ==
  LET st == IF l # <<>> THEN l[1] ELSE drawer.status
  IN  Sync([bound |-> TRUE, show |-> TRUE, poll |-> FALSE,
            status |-> IF finished /\ st # "none" THEN "Done" ELSE st], l)

OpenDrawer ==
  /\ ~ drawer.show /\ list # <<>> /\ clicks < MaxClicks
  /\ clicks' = clicks + 1
  /\ drawer' = Opened(list) /\ reqs' = Ask(<<"open">>, finished)
  /\ UNCHANGED <<agentVars, events, list, finished, logs, reload>>

CloseDrawer ==
  /\ drawer.show
  /\ drawer' = [drawer EXCEPT !.show = FALSE, !.poll = FALSE]
  /\ UNCHANGED <<agentVars, events, reqs, list, finished, logs, clicks, reload>>

\* handleTrigger asks the agent to run the task.
TriggerTask ==
  /\ row = "none" /\ reqs = <<>> /\ clicks < MaxClicks
  /\ clicks' = clicks + 1
  /\ reqs' = Ask(<<"trigger">>, finished)
  /\ UNCHANGED <<agentVars, events, list, finished, logs, drawer, reload>>

Refresh ==
  /\ clicks < MaxClicks /\ clicks' = clicks + 1
  /\ reqs' = Ask(<<"list">>, finished)
  /\ UNCHANGED <<agentVars, events, list, finished, logs, drawer, reload>>

\* The first entry of the run is updated in place.
InPlace(l) == IF l = <<>> THEN l ELSE [l EXCEPT ![1] = "Done"]

\* The event handlers of the store, then those of the drawer, then the watch.
\* Both append an output to the same cache when the drawer has the run.
OnStarted ==
  /\ reqs' = Ask(<<"list">>, finished)
  /\ drawer' = IF drawer.bound /\ drawer.status \notin {"none", "Done"}
                 THEN [drawer EXCEPT !.status = "Running"] ELSE drawer
  /\ UNCHANGED <<list, finished, logs>>

OnOutput(chunk) ==
  /\ logs' = logs \o (IF drawer.bound THEN <<chunk, chunk>> ELSE <<chunk>>)
  /\ UNCHANGED <<reqs, list, finished, drawer>>

OnFinished ==
  /\ finished' = TRUE /\ list' = InPlace(list)
  /\ reqs' = Ask(IF drawer.bound THEN <<"list", "output", "output">>
                                 ELSE <<"list", "output">>, TRUE)
  /\ drawer' = Sync(IF drawer.bound
                      THEN [drawer EXCEPT !.poll = FALSE,
                                          !.status = IF @ = "none" THEN @ ELSE "Done"]
                      ELSE drawer, list')
  /\ UNCHANGED logs

DeliverEvent ==
  /\ events # <<>> /\ events' = Tail(events)
  /\ LET e == Head(events)
     IN  CASE e.kind = "started" -> OnStarted
           [] e.kind = "output" -> OnOutput(e.chunk)
           [] e.kind = "finished" -> OnFinished
  /\ UNCHANGED <<agentVars, clicks, reload>>

LoseEvent ==
  /\ Lossy /\ events # <<>> /\ events' = Tail(events)
  /\ UNCHANGED <<agentVars, reqs, list, finished, logs, drawer, clicks, reload>>

----------------------------------------------------------------------------
(* Responses and failures.  `rest' are the requests that remain.           *)

\* What came of a late reload; that one failed does not undo an earlier one.
Reloaded(r, how) ==
  LET t == IF r.kind = "list" THEN "list" ELSE "output"
  IN  IF r.late /\ r.kind \in {"list", "output", "openOutput"} /\ reload[t] # "done"
        THEN [reload EXCEPT ![t] = how] ELSE reload

\* loadExecutions replaces the list.
Loaded(r, rest) ==
  /\ list' = IF r.status = "none" THEN <<>> ELSE <<r.status>>
  /\ drawer' = Sync(drawer, list')
  /\ reqs' = rest
  /\ UNCHANGED <<finished, logs>>

\* addExecution puts the run on top, as finished if the store knows better,
\* and the drawer is opened on it, if it is not open there already.
Triggered(r, rest) ==
  /\ list' = <<IF finished THEN "Done" ELSE r.status>> \o list
  /\ IF drawer.bound /\ drawer.show
       THEN drawer' = Sync(drawer, list') /\ reqs' = rest
       ELSE drawer' = Opened(list') /\ reqs' = Append(rest, Asked("open", finished))
  /\ UNCHANGED <<finished, logs>>

\* Fault: the longer of the two is kept.
FetchedLonger(r) == IF Len(r.chunks) > Len(logs) THEN r.chunks ELSE logs

\* The output that is stored replaces the cache, if there is any.
Fetched(r) == IF r.chunks = <<>> THEN logs ELSE r.chunks

\* Fault: no polling.
OutputFetchedOnly(r, rest) ==
  logs' = Fetched(r) /\ reqs' = rest /\ UNCHANGED <<list, finished, drawer>>

\* Polling starts for a run that is not finished.
StartPoll == IF drawer.status = "Running" THEN [drawer EXCEPT !.poll = TRUE] ELSE drawer

\* fetchExecutionLogs; the drawer's own goes on to the polling.
OutputFetched(r, rest) ==
  /\ logs' = Fetched(r) /\ reqs' = rest
  /\ drawer' = IF r.kind = "openOutput" THEN StartPoll ELSE drawer
  /\ UNCHANGED <<list, finished>>

\* The drawer's getExecution: never back to Running.
RunFetched(r, rest) ==
  /\ drawer' = IF r.status # "none" /\ (drawer.status # "Done" \/ r.status # "Running")
                 THEN [drawer EXCEPT !.status = r.status] ELSE drawer
  /\ reqs' = Append(rest, Asked("openOutput", finished))
  /\ UNCHANGED <<list, finished, logs>>

\* A poll acts on a finished run only.
Polled(r, rest) ==
  /\ IF r.status = "Done"
       THEN /\ drawer' = [drawer EXCEPT !.status = "Done", !.poll = FALSE]
            /\ reqs' = Append(rest, Asked("output", finished))
       ELSE drawer' = drawer /\ reqs' = rest
  /\ UNCHANGED <<list, finished, logs>>

Respond ==
  /\ \E i \in 1..Len(reqs) :
       LET r == reqs[i]
           rest == RemoveAt(reqs, i)
       IN  /\ r.answered /\ (Reordering \/ i = 1)
           /\ reload' = Reloaded(r, "done")
           /\ CASE r.kind = "list" -> Loaded(r, rest)
                [] r.kind = "trigger" -> Triggered(r, rest)
                [] r.kind \in {"output", "openOutput"} -> OutputFetched(r, rest)
                [] r.kind = "open" -> RunFetched(r, rest)
                [] r.kind = "poll" -> Polled(r, rest)
  /\ UNCHANGED <<agentVars, events, clicks>>

\* A request fails before it is answered, or its answer is lost; a run that was
\* to be triggered may start all the same.  The list, the cache and the drawer
\* stay as they are; a drawer that is being opened goes on to the output, and
\* from there to the polling.
Fail ==
  /\ \E i \in 1..Len(reqs) :
       LET r == reqs[i]
           rest == RemoveAt(reqs, i)
       IN  /\ reload' = Reloaded(r, "failed")
           /\ reqs' = IF r.kind = "open" THEN Append(rest, Asked("openOutput", finished))
                                         ELSE rest
           /\ drawer' = IF r.kind = "openOutput" THEN StartPoll ELSE drawer
  /\ UNCHANGED <<agentVars, events, list, finished, logs, clicks>>

\* The 250ms timer.  One poll at a time is under way (a bound: the code may
\* have more).
PollTick ==
  /\ drawer.poll
  /\ \A i \in 1..Len(reqs) : reqs[i].kind # "poll"
  /\ IF ~ drawer.show \/ drawer.status = "Done"
       THEN drawer' = [drawer EXCEPT !.poll = FALSE] /\ reqs' = reqs
       ELSE reqs' = Ask(<<"poll">>, finished) /\ drawer' = drawer
  /\ UNCHANGED <<agentVars, events, list, finished, logs, clicks, reload>>

Next ==
  \/ StartRun \/ Output \/ FinishRun \/ Answer
  \/ OpenDrawer \/ CloseDrawer \/ TriggerTask \/ Refresh
  \/ DeliverEvent \/ LoseEvent \/ Respond \/ Fail \/ PollTick

Spec == Init /\ [][Next]_vars

\* Requests do not fail for ever, but are answered and the responses applied;
\* events get to the window and the timer ticks.  A run need not end, and an
\* event need not be lost.
Fairness == /\ SF_vars(Answer) /\ SF_vars(Respond) /\ WF_vars(DeliverEvent)
            /\ WF_vars(PollTick)

FairSpec == Spec /\ Fairness

----------------------------------------------------------------------------
(* Properties.                                                             *)

Quiet == events = <<>> /\ reqs = <<>>

\* While the drawer stays open, a run it shows as finished is never shown as
\* running again, whatever old answers arrive ("Never let a stale Running
\* status overwrite an already finished status").
DrawerNeverRegresses ==
  [][drawer.show /\ drawer'.show /\ drawer.status = "Done" => drawer'.status = "Done"]_vars

\* The open drawer gets to the end of the run even if every event of it is
\* lost (startLivePoll).
DrawerCatchesUp ==
  (drawer.show /\ drawer.status = "Running" /\ row = "Done")
    ~> (drawer.status = "Done" \/ ~ drawer.show)

\* If responses come in order, then from the first reload that succeeds after
\* the end was heard the list shows the run once and as its row has it, and the
\* log cache is what the agent has stored, whatever comes or fails later: it
\* repairs the entry added twice, the output appended twice and the output
\* missed.  Such a reload of either is always asked; it may fail, and then what
\* is shown stays as it is.
SettledIsExact ==
  /\ reload["list"] = "done" => list = <<row>>
  /\ reload["output"] = "done" /\ stored # <<>> => logs = stored
  /\ Quiet /\ finished => \A t \in Tables : reload[t] # "none"
============================================================================
