----------------------------- MODULE IpcBroadcast -----------------------------
(***************************************************************************)
(* How an event of the agent reaches the desktops: the broadcast channel   *)
(* of the agent, the loop that copies each event to every connected client *)
(* (IpcServer::run, crates/ipc/src/server.rs), the bounded channel of each *)
(* connection, and the broadcast channel of the client that the event      *)
(* relay listens to (apps/desktop/src-tauri/src/events.rs).  Responses and *)
(* the ends of a connection are in IpcCall.tla.                            *)
(***************************************************************************)
EXTENDS Integers, Sequences, FiniteSets

CONSTANTS Clients,    \* connections; an id is never used twice
          RingCap,    \* capacity of a broadcast channel (1024 in the code)
          FrameCap,   \* capacity of a client's channel (256 in the code)
          MaxEvents,  \* bound: events
          Stalled     \* clients that may stop reading for ever

VARIABLES
    published,   \* events sent so far; an event is its number
    ring,        \* events the loop has not received
    lagged,      \* the loop's receiver has been overtaken
    loop,        \* the loop: recv, send, prune, end
    current,     \* the event being copied
    targets,     \* clients of the snapshot it has not been copied to
    dead,        \* clients found closed
    status,      \* each connection: new, open, closed
    listed,      \* the clients map
    chan,        \* the channel of each connection
    heard,       \* the event channel of each client
    overtaken,   \* clients whose relay has been overtaken
    relay,       \* what each relay has passed on, in order
    expected,    \* history: the events each client was listed for
    lost         \* history: events dropped at a full channel or overtaken

serverVars == <<ring, lagged, loop, current, targets, dead, status, listed>>
clientVars == <<heard, overtaken, relay>>
vars == <<published, ring, lagged, loop, current, targets, dead, status, listed,
          chan, heard, overtaken, relay, expected, lost>>

PerClient(x) == [c \in Clients |-> x]

Init ==
    /\ published = 0 /\ ring = <<>> /\ lagged = FALSE
    /\ loop = "recv" /\ current = 0 /\ targets = {} /\ dead = {}
    /\ status = PerClient("new") /\ listed = {}
    /\ chan = PerClient(<<>>) /\ heard = PerClient(<<>>) /\ overtaken = {}
    /\ relay = PerClient(<<>>)
    /\ expected = PerClient({}) /\ lost = PerClient({})

\* event_tx.send: a receiver that is RingCap events behind loses the oldest.
Publish ==
    /\ published < MaxEvents
    /\ published' = published + 1
    /\ IF loop = "end" THEN UNCHANGED <<ring, lagged>>
       ELSE IF Len(ring) < RingCap
            THEN ring' = Append(ring, published + 1) /\ UNCHANGED lagged
            ELSE ring' = Append(Tail(ring), published + 1) /\ lagged' = TRUE
    /\ UNCHANGED <<loop, current, targets, dead, status, listed, chan, clientVars, expected, lost>>

Connect(c) ==
    /\ status[c] = "new"
    /\ status' = [status EXCEPT ![c] = "open"]
    /\ listed' = listed \cup {c}
    /\ UNCHANGED <<published, ring, lagged, loop, current, targets, dead, chan, clientVars,
                   expected, lost>>

\* The connection's writer ends, and its receiver is dropped ...
Disconnect(c) ==
    /\ status[c] = "open"
    /\ status' = [status EXCEPT ![c] = "closed"]
    /\ chan' = [chan EXCEPT ![c] = <<>>]
    /\ UNCHANGED <<published, ring, lagged, loop, current, targets, dead, listed, clientVars,
                   expected, lost>>

\* ... before handle_connection takes it from the map.
Unlist(c) ==
    /\ status[c] = "closed" /\ c \in listed
    /\ listed' = listed \ {c}
    /\ UNCHANGED <<published, ring, lagged, loop, current, targets, dead, status, chan,
                   clientVars, expected, lost>>

-----------------------------------------------------------------------------
(* The broadcast loop.                                                     *)

\* while let Ok(event) = recv(): it ends at Lagged.  The senders are copied
\* out of the map under its lock.
Receive ==
    /\ loop = "recv" /\ (lagged \/ ring # <<>>)
    /\ IF lagged
       THEN /\ loop' = "end" /\ ring' = <<>>
            /\ UNCHANGED <<lagged, current, targets, expected>>
       ELSE /\ current' = Head(ring) /\ ring' = Tail(ring)
            /\ targets' = listed
            /\ expected' = [c \in Clients |-> IF c \in listed THEN expected[c] \cup {Head(ring)}
                                              ELSE expected[c]]
            /\ loop' = "send"
            /\ UNCHANGED lagged
    /\ UNCHANGED <<published, dead, status, listed, chan, clientVars, lost>>

\* Fault: the loop waits until the client's channel has room.
CopyToBlocks(c) ==
    /\ loop = "send" /\ c \in targets
    /\ status[c] = "closed" \/ Len(chan[c]) < FrameCap
    /\ targets' = targets \ {c}
    /\ IF status[c] = "closed"
       THEN dead' = dead \cup {c} /\ UNCHANGED chan
       ELSE chan' = [chan EXCEPT ![c] = Append(@, current)] /\ UNCHANGED dead
    /\ UNCHANGED <<published, ring, lagged, loop, current, status, listed, clientVars, expected,
                   lost>>

\* Fault: the loop gives the event up at the first client that is closed.
CopyToStopsAtDead(c) ==
    /\ loop = "send" /\ c \in targets
    /\ IF status[c] = "closed"
       THEN dead' = dead \cup {c} /\ targets' = {} /\ UNCHANGED <<chan, lost>>
       ELSE /\ targets' = targets \ {c}
            /\ UNCHANGED dead
            /\ IF Len(chan[c]) < FrameCap
               THEN chan' = [chan EXCEPT ![c] = Append(@, current)] /\ UNCHANGED lost
               ELSE lost' = [lost EXCEPT ![c] = @ \cup {current}] /\ UNCHANGED chan
    /\ UNCHANGED <<published, ring, lagged, loop, current, status, listed, clientVars, expected>>

\* try_send: copied, dropped because the channel is full, or found closed.
CopyTo(c) ==
    /\ loop = "send" /\ c \in targets
    /\ targets' = targets \ {c}
    /\ \/ /\ status[c] = "closed"
          /\ dead' = dead \cup {c}
          /\ UNCHANGED <<chan, lost>>
       \/ /\ status[c] = "open" /\ Len(chan[c]) < FrameCap
          /\ chan' = [chan EXCEPT ![c] = Append(@, current)]
          /\ UNCHANGED <<dead, lost>>
       \/ /\ status[c] = "open" /\ Len(chan[c]) = FrameCap
          /\ lost' = [lost EXCEPT ![c] = @ \cup {current}]
          /\ UNCHANGED <<chan, dead>>
    /\ UNCHANGED <<published, ring, lagged, loop, current, status, listed, clientVars, expected>>

\* The clients found closed are removed, by id.
Prune ==
    /\ loop = "send" /\ targets = {}
    /\ listed' = listed \ dead
    /\ dead' = {} /\ loop' = "recv"
    /\ UNCHANGED <<published, ring, lagged, current, targets, status, chan, clientVars, expected,
                   lost>>

-----------------------------------------------------------------------------
(* The client and its relay.                                               *)

\* The frame crosses the socket; the client's reader publishes the event.
Deliver(c) ==
    /\ status[c] = "open" /\ chan[c] # <<>>
    /\ chan' = [chan EXCEPT ![c] = Tail(@)]
    /\ IF Len(heard[c]) < RingCap
       THEN /\ heard' = [heard EXCEPT ![c] = Append(@, Head(chan[c]))]
            /\ UNCHANGED <<overtaken, lost>>
       ELSE /\ heard' = [heard EXCEPT ![c] = Append(Tail(@), Head(chan[c]))]
            /\ overtaken' = overtaken \cup {c}
            /\ lost' = [lost EXCEPT ![c] = @ \cup {Head(heard[c])}]
    /\ UNCHANGED <<published, serverVars, relay, expected>>

\* rx.recv(): Lagged is logged and passed over, an event is emitted.
Relay(c) ==
    /\ heard[c] # <<>>
    /\ IF c \in overtaken
       THEN overtaken' = overtaken \ {c} /\ UNCHANGED <<relay, heard>>
       ELSE /\ relay' = [relay EXCEPT ![c] = Append(@, Head(heard[c]))]
            /\ heard' = [heard EXCEPT ![c] = Tail(@)]
            /\ UNCHANGED overtaken
    /\ UNCHANGED <<published, serverVars, chan, expected, lost>>

\* The client's token is cancelled: the relay leaves its loop, whatever it
\* had not yet received.
RelayEnds(c) ==
    /\ status[c] = "closed" /\ (heard[c] # <<>> \/ c \in overtaken)
    /\ heard' = [heard EXCEPT ![c] = <<>>]
    /\ overtaken' = overtaken \ {c}
    /\ UNCHANGED <<published, serverVars, chan, relay, expected, lost>>

Next ==
    \/ Publish \/ Receive \/ Prune
    \/ \E c \in Clients : \/ Connect(c) \/ Disconnect(c) \/ Unlist(c)
                          \/ CopyTo(c) \/ Deliver(c) \/ Relay(c) \/ RelayEnds(c)

Spec == Init /\ [][Next]_vars

\* Fairness: the loop, the relays and the connections of the clients that do
\* not stall are polled.
Fairness ==
    /\ WF_vars(Receive) /\ WF_vars(Prune)
    /\ \A c \in Clients : WF_vars(CopyTo(c)) /\ WF_vars(Relay(c))
    /\ \A c \in Clients \ Stalled : WF_vars(Deliver(c)) /\ WF_vars(Unlist(c))

FairSpec == Spec /\ Fairness

-----------------------------------------------------------------------------
(* Properties.                                                             *)

Range(s) == {s[k] : k \in 1 .. Len(s)}
Events == 1 .. MaxEvents
Increasing(s) == \A j, k \in 1 .. Len(s) : j < k => s[j] < s[k]

\* Type correctness; no channel holds more than its capacity.
TypeOK ==
    /\ published \in 0 .. MaxEvents
    /\ ring \in Seq(Events) /\ Len(ring) <= RingCap /\ lagged \in BOOLEAN
    /\ loop \in {"recv", "send", "end"} /\ current \in 0 .. MaxEvents
    /\ targets \subseteq Clients /\ dead \subseteq Clients /\ listed \subseteq Clients
    /\ status \in [Clients -> {"new", "open", "closed"}]
    /\ \A c \in Clients : /\ chan[c] \in Seq(Events) /\ Len(chan[c]) <= FrameCap
                          /\ heard[c] \in Seq(Events) /\ Len(heard[c]) <= RingCap
                          /\ relay[c] \in Seq(Events)
    /\ overtaken \subseteq Clients
    /\ expected \in [Clients -> SUBSET Events] /\ lost \in [Clients -> SUBSET Events]

\* Nothing disappears silently: an event that the loop took while a client was
\* listed is relayed by that client, still on its way to it, or was dropped at
\* a full channel, whatever happened to the other clients meanwhile.
NothingMissed ==
    \A c \in Clients : status[c] = "open" =>
        \A e \in expected[c] :
            \/ e = current /\ c \in targets
            \/ e \in Range(chan[c]) \cup Range(heard[c]) \cup Range(relay[c]) \cup lost[c]

\* A client sees the events in the order in which the agent published them, and
\* none of them twice, also across losses.
InOrder == \A c \in Clients : Increasing(relay[c] \o heard[c] \o chan[c])

\* A live connection stays in the clients map: pruning dead clients never
\* takes one that has connected meanwhile.
OpenIsListed == \A c \in Clients : status[c] = "open" => c \in listed

\* The four of them.
EventInv == TypeOK /\ NothingMissed /\ InOrder /\ OpenIsListed

\* A client that stops reading holds up nobody: every event is taken by the
\* loop and handed to all clients, unless the loop is overtaken by RingCap events.
StalledClientHoldsUpNobody ==
    \A e \in Events :
        (published = e) ~> (current > e \/ (current = e /\ loop = "recv") \/ loop = "end")

\* Every event is broadcast to the clients that are connected.
BroadcastToAll ==
    \A c \in Clients, e \in Events :
        (published = e /\ c \in listed) ~> (current >= e \/ c \notin listed)
===============================================================================
