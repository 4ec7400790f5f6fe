----------------------------- MODULE NetworkEvents -----------------------------
(***************************************************************************)
(* What the network watchers of both platforms share                       *)
(* (apps/agent/src/network.rs): the edge detector, the debouncer, and the  *)
(* channel to the dispatcher, which drops what does not fit.               *)
(***************************************************************************)
EXTENDS Integers, Sequences

Kinds == {"Connect", "Disconnect", "Online"}

\* Connectivity is up, down or not yet observed.
Unseen == "unseen"

\* EdgeDetector::changed: the first observation of a key is only recorded.
Changed(seen, key, value) == seen[key] # Unseen /\ seen[key] # value

\* Fault: any event within 500 ms of the last one is a duplicate.
AllowIgnoresKind(last, kind) == ~last.recent

\* Debouncer::allow: the same kind within 500 ms is a duplicate.  last.recent
\* says that the last event passed less than 500 ms ago.
Allow(last, kind) == ~(last.kind = kind /\ last.recent)

NoLast == [kind |-> Unseen, recent |-> FALSE]
Passed(kind) == [kind |-> kind, recent |-> TRUE]

\* on_event, the monitor's loop and its try_send on the dispatcher's channel.
Forward(channel, cap, ev) == IF Len(channel) < cap THEN Append(channel, ev) ELSE channel
================================================================================
