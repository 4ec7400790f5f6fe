------------------------------ MODULE WinNetwork ------------------------------
(***************************************************************************)
(* The Windows watcher of apps/agent/src/network.rs.  Interface and WLAN   *)
(* notifications only say that something may have changed; each starts an  *)
(* arbitration, which lets the interfaces settle, probes whether the whole *)
(* machine is online, and reports when that differs from the last known    *)
(* state.  A later notification overrides an earlier arbitration.  The     *)
(* state is unknown until a baseline probe or an arbitration sets it.      *)
(*                                                                         *)
(* The section of an arbitration after its probe contains no await and is  *)
(* one step here: another one reaches it only after 1 s of settling.       *)
(***************************************************************************)
EXTENDS NetworkEvents, FiniteSets

CONSTANTS Wired, Wifi,   \* interfaces
          ChannelCap,    \* capacity of the dispatcher's channel (64 in the code)
          MaxChanges,    \* bound: changes of interfaces
          MaxTasks       \* bound: arbitrations

Interfaces == Wired \cup Wifi

VARIABLES
    up,         \* interfaces that are connected; one is enough to be online
    pending,    \* interfaces with a notification under way
    seen,       \* the edge detector, per interface
    last,       \* the debouncer
    online,     \* online_state: unseen, up, down
    baseline,   \* the baseline task: settling, done
    seq,        \* ARBITRATE_SEQ
    task,       \* each arbitration: none, settling, confirming, done
    channel,    \* events for the dispatcher
    changes,    \* changes so far
    reported,   \* history: Connects, Disconnects and Onlines reported
    lastState   \* history: the last Connect or Disconnect reported

hist == <<reported, lastState>>
vars == <<up, pending, seen, last, online, baseline, seq, task, channel, changes, reported,
          lastState>>

State == IF up = {} THEN "down" ELSE "up"

Init ==
    /\ up \in SUBSET Interfaces /\ pending = {}
    /\ seen = [i \in Interfaces |-> Unseen] /\ last = NoLast
    /\ online = Unseen /\ baseline = "settling"
    /\ seq = 0 /\ task = [t \in 1 .. MaxTasks |-> "none"]
    /\ channel = <<>> /\ changes = 0
    /\ reported = [k \in Kinds |-> 0] /\ lastState = Unseen

\* An interface is plugged or unplugged, enabled or disabled.
Change(i) ==
    /\ changes < MaxChanges
    /\ changes' = changes + 1
    /\ up' = IF i \in up THEN up \ {i} ELSE up \cup {i}
    /\ pending' = pending \cup {i}
    /\ UNCHANGED <<seen, last, online, baseline, seq, task, channel, hist>>

\* spawn_arbitrated_event: the newest sequence number is the one that counts.
Arbitrate ==
    /\ seq < MaxTasks
    /\ seq' = seq + 1
    /\ task' = [task EXCEPT ![seq + 1] = "settling"]

\* ip_callback: for a change or for any other parameter of the interface.
IpCallback(i) ==
    /\ pending' = pending \ {i}
    /\ LET connected == IF i \in up THEN "up" ELSE "down"
       IN  /\ seen' = [seen EXCEPT ![i] = connected]
           /\ IF Changed(seen, i, connected) THEN Arbitrate ELSE UNCHANGED <<seq, task>>
    /\ UNCHANGED <<up, last, online, baseline, channel, changes, hist>>

\* The row of a removed interface is null: always an arbitration.
IpCallbackNoRow(i) ==
    /\ i \in pending /\ i \notin up
    /\ pending' = pending \ {i}
    /\ Arbitrate
    /\ UNCHANGED <<up, seen, last, online, baseline, channel, changes, hist>>

\* wlan_callback: association completed or lost, whatever it means.
WlanCallback(i) ==
    /\ i \in Wifi
    /\ Arbitrate
    /\ UNCHANGED <<up, pending, seen, last, online, baseline, channel, changes, hist>>

\* 1 s later, if no other arbitration has started meanwhile ...
Settled(t) ==
    /\ task[t] = "settling"
    /\ task' = [task EXCEPT ![t] = IF seq = t THEN "confirming" ELSE "done"]
    /\ UNCHANGED <<up, pending, seen, last, online, baseline, seq, channel, changes, hist>>

\* The events of a flip pass the debouncer one by one.
EmitOne(state, kind) ==
    IF Allow(state.last, kind)
    THEN [last |-> Passed(kind),
          channel |-> Forward(state.channel, ChannelCap, kind),
          reported |-> [state.reported EXCEPT ![kind] = @ + 1],
          lastState |-> IF kind = "Online" THEN state.lastState ELSE kind]
    ELSE state

Emitted(now) ==
    LET before == [last |-> last, channel |-> channel, reported |-> reported,
                   lastState |-> lastState]
    IN  IF now = "up" THEN EmitOne(EmitOne(before, "Connect"), "Online")
        ELSE EmitOne(before, "Disconnect")

\* ... confirm_online answers with the state of the machine, and a flip of the
\* last known state is reported, unless the arbitration has been overtaken.
Decide(t) ==
    /\ task[t] = "confirming"
    /\ task' = [task EXCEPT ![t] = "done"]
    /\ IF seq = t /\ online # State
       THEN /\ online' = State
            /\ LET e == Emitted(State)
               IN  /\ last' = e.last /\ channel' = e.channel
                   /\ reported' = e.reported /\ lastState' = e.lastState
       ELSE UNCHANGED <<online, last, channel, hist>>
    /\ UNCHANGED <<up, pending, seen, baseline, seq, changes>>

\* The baseline: recorded if nothing is known, not reported.
Baseline ==
    /\ baseline = "settling"
    /\ baseline' = "done"
    /\ online' = IF online = Unseen THEN State ELSE online
    /\ UNCHANGED <<up, pending, seen, last, seq, task, channel, changes, hist>>

DebounceOver ==
    /\ last.recent
    /\ last' = [last EXCEPT !.recent = FALSE]
    /\ UNCHANGED <<up, pending, seen, online, baseline, seq, task, channel, changes, hist>>

Dispatch ==
    /\ channel # <<>>
    /\ channel' = Tail(channel)
    /\ UNCHANGED <<up, pending, seen, last, online, baseline, seq, task, changes, hist>>

Next ==
    \/ \E i \in Interfaces : Change(i) \/ IpCallback(i) \/ IpCallbackNoRow(i) \/ WlanCallback(i)
    \/ \E t \in 1 .. MaxTasks : Settled(t) \/ Decide(t)
    \/ Baseline \/ DebounceOver \/ Dispatch

Spec == Init /\ [][Next]_vars

-----------------------------------------------------------------------------
(* Properties.                                                             *)

\* Once an arbitration has reported, the last report tells the state that the
\* agent believes in, whatever overlapped: overtaken arbitrations, the
\* baseline and the debouncer neither lose nor reorder a flip.
ReportMatchesState == lastState # Unseen => (online = "up" <=> lastState = "Connect")

\* Connect and Disconnect alternate: flapping of one interface while another
\* keeps the machine online is not reported.
Alternates == reported["Connect"] - reported["Disconnect"] \in -1 .. 1
===============================================================================
