------------------------------ MODULE MacNetwork ------------------------------
(***************************************************************************)
(* The macOS watcher of apps/agent/src/network.rs: path updates arrive on  *)
(* a serial queue, for any change of the path and at times with the status *)
(* of before the change; a Connect starts a probe, which reports Online    *)
(* when it succeeds, with whatever has happened meanwhile.                 *)
(***************************************************************************)
EXTENDS NetworkEvents

CONSTANTS ChannelCap,   \* capacity of the dispatcher's channel (64 in the code)
          MaxFrames     \* bound: path updates

VARIABLES
    running,    \* the watcher has not been stopped
    seen,       \* the edge detector; the key is always 0
    last,       \* the debouncer
    probes,     \* online probes under way
    cooling,    \* a probe was started less than 10 s ago
    channel,    \* events for the dispatcher
    frames,     \* path updates so far
    reported,   \* history: Connects, Disconnects and Onlines reported
    lastState   \* history: the last Connect or Disconnect reported

vars == <<running, seen, last, probes, cooling, channel, frames, reported, lastState>>

Init ==
    /\ running = TRUE
    /\ seen = [k \in {0} |-> Unseen] /\ last = NoLast
    /\ probes = 0 /\ cooling = FALSE
    /\ channel = <<>> /\ frames = 0
    /\ reported = [k \in Kinds |-> 0] /\ lastState = Unseen

Report(kind) ==
    /\ last' = Passed(kind)
    /\ channel' = Forward(channel, ChannelCap, kind)
    /\ reported' = [reported EXCEPT ![kind] = @ + 1]
    /\ lastState' = IF kind = "Online" THEN lastState ELSE kind

\* spawn_online_probe, after a Connect, at most once in 10 s.
Probe(kind) ==
    IF kind # "Connect" \/ cooling THEN UNCHANGED <<probes, cooling>>
    ELSE probes' = probes + 1 /\ cooling' = TRUE

\* One update: satisfied, unsatisfied, or a status in between.
PathUpdate(status) ==
    /\ frames < MaxFrames
    /\ frames' = frames + 1
    /\ IF ~running \/ status = "other"
       THEN UNCHANGED <<seen, last, probes, cooling, channel, reported, lastState>>
       ELSE LET connected == IF status = "satisfied" THEN "up" ELSE "down"
                kind == IF connected = "up" THEN "Connect" ELSE "Disconnect"
            IN  /\ seen' = [seen EXCEPT ![0] = connected]
                /\ IF Changed(seen, 0, connected) /\ Allow(last, kind)
                   THEN Report(kind) /\ Probe(kind)
                   ELSE UNCHANGED <<last, probes, cooling, channel, reported, lastState>>
    /\ UNCHANGED running

\* A probe ends: no answer, or Online.
ProbeEnds(online) ==
    /\ probes > 0
    /\ probes' = probes - 1
    /\ IF online /\ Allow(last, "Online") THEN Report("Online")
       ELSE UNCHANGED <<last, channel, reported, lastState>>
    /\ UNCHANGED <<running, seen, cooling, frames>>

\* Time passes: 500 ms since the last event, 10 s since the last probe.
DebounceOver ==
    /\ last.recent
    /\ last' = [last EXCEPT !.recent = FALSE]
    /\ UNCHANGED <<running, seen, probes, cooling, channel, frames, reported, lastState>>

CooldownOver ==
    /\ cooling
    /\ cooling' = FALSE
    /\ UNCHANGED <<running, seen, last, probes, channel, frames, reported, lastState>>

Dispatch ==
    /\ channel # <<>>
    /\ channel' = Tail(channel)
    /\ UNCHANGED <<running, seen, last, probes, cooling, frames, reported, lastState>>

Stop ==
    /\ running
    /\ running' = FALSE
    /\ UNCHANGED <<seen, last, probes, cooling, channel, frames, reported, lastState>>

Next ==
    \/ \E status \in {"satisfied", "unsatisfied", "other"} : PathUpdate(status)
    \/ \E online \in BOOLEAN : ProbeEnds(online)
    \/ DebounceOver \/ CooldownOver \/ Dispatch \/ Stop

Spec == Init /\ [][Next]_vars

-----------------------------------------------------------------------------
(* Properties.                                                             *)

\* What the last report said is what was last observed: neither the edge
\* detector nor the debouncer swallows a change of state, however fast the
\* path flaps and although probes report through the same debouncer.
ReportMatchesObserved ==
    lastState # Unseen => (seen[0] = "up" <=> lastState = "Connect")

\* Connect and Disconnect alternate, however often a status is repeated.
Alternates == reported["Connect"] - reported["Disconnect"] \in -1 .. 1

\* An Online is the answer to a Connect: there are never more of them, and of
\* probes that may still report one, than there were Connects.
OnlineNeedsConnect == reported["Online"] + probes <= reported["Connect"]
===============================================================================
