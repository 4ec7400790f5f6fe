------------------------------- MODULE MCParts -------------------------------
(***************************************************************************)
(* Safety of the parts that share no state with one another: the agent as  *)
(* a process (AgentProcess, which this module extends), the two network    *)
(* watchers and the probing of endpoints on either platform, the switch of *)
(* the startup mode on either platform, and the view of the executions     *)
(* with answers in order or in any order.  A behaviour is one of a single  *)
(* part; the others rest in an initial state.                              *)
(***************************************************************************)
EXTENDS AgentProcess, Sequences

CONSTANTS ChannelCap, MaxFrames, Wired, Wifi, MaxChanges, MaxTasks,
          Endpoints, PhaseTimeout, AttemptTimeout, Window, Pause,
          MaxRestarts, MaxOutputs, MaxClicks

ASSUME NetworkAssumption == /\ ChannelCap \in Nat \ {0} /\ Wired \cap Wifi = {}
                            /\ {MaxFrames, MaxChanges, MaxTasks} \subseteq Nat
\* A window has some length, and a round without a limit takes less than the
\* time that stands for one.
ASSUME ProbeAssumption ==
    /\ {Endpoints, PhaseTimeout, AttemptTimeout, Window, Pause} \subseteq Nat /\ Window > 0
    /\ Endpoints * (2 + 2 * PhaseTimeout) <= 1000
ASSUME ViewAssumption == {MaxRestarts, MaxOutputs, MaxClicks} \subseteq Nat

VARIABLES part    \* what moves

VARIABLES up, pending, wseen, wlast, online, baseline, seq, task, wchannel, changes,
          wreported, wlastState
winVars == <<up, pending, wseen, wlast, online, baseline, seq, task, wchannel, changes,
             wreported, wlastState>>
Win == INSTANCE WinNetwork WITH seen <- wseen, last <- wlast, channel <- wchannel,
                                reported <- wreported, lastState <- wlastState

VARIABLES running, seen, last, probes, cooling, channel, frames, reported, lastState
macVars == <<running, seen, last, probes, cooling, channel, frames, reported, lastState>>
Mac == INSTANCE MacNetwork

VARIABLES cond, addrs, at, spent, elapsed, verdict, shifts
probeVars == <<cond, addrs, at, spent, elapsed, verdict, shifts>>
\* On Windows in a network that changes, on macOS one round without a limit.
WinProbe == INSTANCE OnlineProbe WITH result <- verdict, changes <- shifts,
                                      MaxLookup <- 1, MaxChanges <- 1
MacProbe == INSTANCE OnlineProbe WITH result <- verdict, changes <- shifts,
                                      MaxLookup <- 2, MaxChanges <- 0,
                                      AttemptTimeout <- 1000, Window <- 0

VARIABLES svc, login, writable, key, flow, shown, prev, orig, result, restarts, stray, alone
modeVars == <<svc, login, writable, key, flow, shown, prev, orig, result, restarts, stray, alone>>
MacMode == INSTANCE StartupMode WITH Platform <- "macos", FirstStart <- FALSE
WinMode == INSTANCE StartupMode WITH Platform <- "windows", FirstStart <- TRUE

VARIABLES row, ended, stored, produced, events, reqs, list, finished, logs, drawer, clicks,
          reload
viewVars == <<row, ended, stored, produced, events, reqs, list, finished, logs, drawer, clicks,
              reload>>
Ordered == INSTANCE ExecutionView WITH Reordering <- FALSE, Lossy <- TRUE
Unordered == INSTANCE ExecutionView WITH Reordering <- TRUE, Lossy <- TRUE, MaxOutputs <- 0

\* One initial state for a part that rests; all of them for the one that moves.
PartsInit ==
    /\ part \in {"process", "win", "mac", "winprobe", "macprobe", "winmode", "macmode",
                 "ordered", "unordered"}
    /\ Init /\ Mac!Init /\ Ordered!Init
    /\ Win!Init /\ (part = "win" \/ up = {})
    /\ WinProbe!Init
    /\ part \in {"winprobe", "macprobe"} \/ \A i \in WinProbe!Indices : cond[i] = "good" /\ addrs[i] = 1
    /\ IF part = "winmode" THEN WinMode!Init ELSE MacMode!Init
    /\ part \in {"winmode", "macmode"} \/ (writable /\ ~login /\ ~svc.installed)

PartsNext ==
    /\ UNCHANGED part
    /\ \/ /\ part = "process" /\ Next
          /\ UNCHANGED <<winVars, macVars, probeVars, modeVars, viewVars>>
       \/ /\ part = "win" /\ Win!Next
          /\ UNCHANGED <<vars, macVars, probeVars, modeVars, viewVars>>
       \/ /\ part = "mac" /\ Mac!Next
          /\ UNCHANGED <<vars, winVars, probeVars, modeVars, viewVars>>
       \/ /\ \/ part = "winprobe" /\ WinProbe!Next
             \/ part = "macprobe" /\ MacProbe!Next
          /\ UNCHANGED <<vars, winVars, macVars, modeVars, viewVars>>
       \/ /\ \/ part = "winmode" /\ WinMode!Next
             \/ part = "macmode" /\ MacMode!Next
          /\ UNCHANGED <<vars, winVars, macVars, probeVars, viewVars>>
       \/ /\ \/ part = "ordered" /\ Ordered!Next
             \/ part = "unordered" /\ Unordered!Next
          /\ UNCHANGED <<vars, winVars, macVars, probeVars, modeVars>>

PartsSpec == PartsInit /\ [][PartsNext]_<<part, vars, winVars, macVars, probeVars, modeVars, viewVars>>

\* The last report of a network watcher is what it last observed, on macOS,
\* and what the agent believes in, on Windows: debouncers, overlapping probes
\* and overtaken arbitrations neither lose, repeat nor reorder a flip.
ReportsMatch == /\ Mac!ReportMatchesObserved /\ Mac!Alternates /\ Mac!OnlineNeedsConnect
                /\ Win!ReportMatchesState /\ Win!Alternates

\* In a network that does not change, the probes say online only if an endpoint
\* is good, and one round without a limit also whenever one is; whatever the
\* network does, the probing on Windows overruns its window by less than one
\* attempt.
ProbesAreRight ==
    /\ part = "macprobe" => MacProbe!OnlineIsReal /\ MacProbe!FallbacksAreTried
    /\ part = "winprobe" => WinProbe!OnlineIsReal /\ WinProbe!WindowIsBounded

\* On either platform a switch of the startup mode clears the login item last,
\* so that one that fails on its way to boot leaves the machine with what it had.
LoginItemSurvives ==
    /\ MacMode!TypeOK
    /\ part = "macmode" => MacMode!LoginItemSurvives
    /\ part = "winmode" => WinMode!LoginItemSurvives

\* A switch on macOS that reports success has reached its mode and no other,
\* unless a script that outlived the application was running when it began.
SuccessReachesMode == [][part = "macmode" => MacMode!ReachesMode]_modeVars

\* While the drawer stays open, a run it shows as finished is never shown as
\* running again, whatever old answers arrive.
DrawerNeverRegresses == Unordered!DrawerNeverRegresses

\* If answers come in order, then from the first reload that succeeds after the
\* end of a run was heard the list shows the run once and as its row has it, and
\* the log cache is what the agent has stored; and such a reload is asked.
SettledIsExact == part = "ordered" => Ordered!TypeOK /\ Ordered!SettledIsExact
==============================================================================
