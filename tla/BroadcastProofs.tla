--------------------------- MODULE BroadcastProofs ---------------------------
(***************************************************************************)
(* EventCorrect: for any number of clients and events and for channels of  *)
(* any capacity, a client that stays connected misses no event silently,   *)
(* hears the events in order and none of them twice, and stays listed.     *)
(*                                                                         *)
(* The argument for the order: an event goes from the ring through the     *)
(* loop to the channel of a client, its event channel and its relay, and   *)
(* whatever is behind it on this way was published later.                  *)
(***************************************************************************)
EXTENDS IpcBroadcast, TLAPS

\* Channels have room for something.
Capacities == RingCap \in Nat \ {0} /\ FrameCap \in Nat \ {0} /\ MaxEvents \in Nat

-----------------------------------------------------------------------------
(* Sequences of events.                                                    *)

\* Every event of S was published before every event of T.
Earlier(S, T) == \A d \in S, e \in T : d < e

\* The empty channel.
LEMMA Emptied == <<>> \in Seq(Events) /\ Len(<<>>) = 0 /\ Range(<<>>) = {} /\ Increasing(<<>>)
  BY DEF Range, Increasing

\* What a channel holds are events.
LEMMA RangeType ==
    ASSUME NEW s \in Seq(Events)
    PROVE  Range(s) \subseteq Events /\ Range(s) \subseteq Int
  <1>1. \A k \in 1 .. Len(s) : s[k] \in Events
    OBVIOUS
  <1>2. Events \subseteq Int
    BY DEF Events
  <1> QED
    BY <1>1, <1>2 DEF Range

\* An event that comes last.
LEMMA Appended ==
    ASSUME NEW s \in Seq(Events), NEW e \in Events
    PROVE  /\ Append(s, e) \in Seq(Events) /\ Len(Append(s, e)) = Len(s) + 1 /\ Len(s) \in Nat
           /\ Range(Append(s, e)) = Range(s) \cup {e}
           /\ Increasing(s) /\ Earlier(Range(s), {e}) => Increasing(Append(s, e))
  <1>1. Append(s, e) \in Seq(Events) /\ Len(Append(s, e)) = Len(s) + 1 /\ Len(s) \in Nat
    OBVIOUS
  <1>2. /\ \A i \in 1 .. Len(s) : Append(s, e)[i] = s[i]
        /\ Append(s, e)[Len(s) + 1] = e
    OBVIOUS
  <1>3. \A i \in 1 .. Len(s) + 1 : i \in 1 .. Len(s) \/ i = Len(s) + 1
    BY <1>1
  <1>4. Range(Append(s, e)) = Range(s) \cup {e}
    BY <1>1, <1>2, <1>3 DEF Range
  <1>5. ASSUME Increasing(s), Earlier(Range(s), {e}),
               NEW j \in 1 .. Len(s) + 1, NEW k \in 1 .. Len(s) + 1, j < k
        PROVE  Append(s, e)[j] < Append(s, e)[k]
    <2>1. j \in 1 .. Len(s) /\ Append(s, e)[j] = s[j] /\ s[j] \in Range(s)
      BY <1>1, <1>2, <1>5 DEF Range
    <2>2. CASE k = Len(s) + 1
      BY <1>2, <1>5, <2>1, <2>2 DEF Earlier
    <2>3. CASE k \in 1 .. Len(s)
      BY <1>2, <1>5, <2>1, <2>3 DEF Increasing
    <2> QED
      BY <1>3, <2>2, <2>3
  <1> QED
    BY <1>1, <1>4, <1>5 DEF Increasing

\* The first event is taken.
LEMMA Taken ==
    ASSUME NEW s \in Seq(Events), s # <<>>
    PROVE  /\ Tail(s) \in Seq(Events) /\ Head(s) \in Events
           /\ Len(s) \in Nat /\ Len(s) > 0 /\ Len(Tail(s)) = Len(s) - 1
           /\ Range(s) = {Head(s)} \cup Range(Tail(s))
           /\ Increasing(s) => Increasing(Tail(s)) /\ Earlier({Head(s)}, Range(Tail(s)))
  <1>1. /\ Tail(s) \in Seq(Events) /\ Head(s) \in Events /\ Head(s) = s[1]
        /\ Len(s) \in Nat /\ Len(s) > 0 /\ Len(Tail(s)) = Len(s) - 1
    OBVIOUS
  <1>2. \A i \in 1 .. Len(s) - 1 : Tail(s)[i] = s[i + 1] /\ i + 1 \in 1 .. Len(s)
    OBVIOUS
  <1>3. Range(s) = {Head(s)} \cup Range(Tail(s))
    <2>1. \A k \in 1 .. Len(s) : k = 1 \/ (k - 1 \in 1 .. Len(s) - 1 /\ s[k] = Tail(s)[k - 1])
      BY <1>1, <1>2
    <2>2. 1 \in 1 .. Len(s)
      BY <1>1
    <2> QED
      <3>1. ASSUME NEW e \in Range(s)
            PROVE  e = Head(s) \/ e \in Range(Tail(s))
        <4>1. PICK k \in 1 .. Len(s) : e = s[k]
          BY <3>1 DEF Range
        <4> QED
          BY <1>1, <2>1, <4>1 DEF Range
      <3>2. ASSUME NEW e \in Range(Tail(s))
            PROVE  e \in Range(s)
        <4>1. PICK k \in 1 .. Len(s) - 1 : e = Tail(s)[k]
          BY <1>1, <3>2 DEF Range
        <4> QED
          BY <1>2, <4>1 DEF Range
      <3>3. Head(s) \in Range(s)
        BY <1>1, <2>2 DEF Range
      <3> QED
        BY <3>1, <3>2, <3>3
  <1>4. ASSUME Increasing(s)
        PROVE  Increasing(Tail(s)) /\ Earlier({Head(s)}, Range(Tail(s)))
    <2>1. \A i, j \in 1 .. Len(s) - 1 : i < j => s[i + 1] < s[j + 1]
      BY <1>1, <1>2, <1>4 DEF Increasing
    <2>2. \A i \in 1 .. Len(s) - 1 : s[1] < s[i + 1]
      BY <1>1, <1>2, <1>4 DEF Increasing
    <2> QED
      BY <1>1, <1>2, <2>1, <2>2 DEF Increasing, Earlier, Range
  <1> QED
    BY <1>1, <1>3, <1>4

\* The parts of a way that are in order make a way in order.
LEMMA Joined ==
    ASSUME NEW s \in Seq(Events), NEW t \in Seq(Events),
           Increasing(s), Increasing(t), Earlier(Range(s), Range(t))
    PROVE  s \o t \in Seq(Events) /\ Increasing(s \o t) /\ Range(s \o t) = Range(s) \cup Range(t)
  <1>1. /\ s \o t \in Seq(Events) /\ Len(s) \in Nat /\ Len(t) \in Nat
        /\ Len(s \o t) = Len(s) + Len(t)
    OBVIOUS
  <1>2. \A k \in 1 .. Len(s) : (s \o t)[k] = s[k]
    OBVIOUS
  <1>3. \A k \in 1 .. Len(t) : (s \o t)[Len(s) + k] = t[k]
    OBVIOUS
  <1>4. \A k \in 1 .. Len(s) + Len(t) : \/ k \in 1 .. Len(s) /\ (s \o t)[k] = s[k]
                                        \/ /\ k - Len(s) \in 1 .. Len(t) /\ k > Len(s)
                                           /\ (s \o t)[k] = t[k - Len(s)]
    <2>1. \A k \in 1 .. Len(s) + Len(t) :
             k \in 1 .. Len(s) \/ (k - Len(s) \in 1 .. Len(t) /\ k = Len(s) + (k - Len(s)) /\ k > Len(s))
      BY <1>1
    <2> QED
      BY <1>2, <1>3, <2>1
  <1>5. \A k \in 1 .. Len(s) : k \in 1 .. Len(s) + Len(t)
    BY <1>1
  <1>6. \A k \in 1 .. Len(t) : Len(s) + k \in 1 .. Len(s) + Len(t)
    BY <1>1
  <1>7. Range(s \o t) = Range(s) \cup Range(t)
    BY <1>1, <1>2, <1>3, <1>4, <1>5, <1>6 DEF Range
  <1>8. ASSUME NEW j \in 1 .. Len(s) + Len(t), NEW k \in 1 .. Len(s) + Len(t), j < k
        PROVE  (s \o t)[j] < (s \o t)[k]
    <2>1. CASE k \in 1 .. Len(s)
      <3>1. j \in 1 .. Len(s)
        BY <1>1, <1>8, <2>1
      <3> QED
        BY <1>2, <1>8, <2>1, <3>1 DEF Increasing
    <2>2. CASE k - Len(s) \in 1 .. Len(t) /\ (s \o t)[k] = t[k - Len(s)]
      <3>1. CASE j \in 1 .. Len(s)
        BY <1>2, <2>2, <3>1 DEF Earlier, Range
      <3>2. CASE j - Len(s) \in 1 .. Len(t) /\ (s \o t)[j] = t[j - Len(s)]
        <4>1. j - Len(s) < k - Len(s)
          BY <1>1, <1>8
        <4> QED
          BY <2>2, <3>2, <4>1 DEF Increasing
      <3> QED
        BY <1>4, <3>1, <3>2
    <2> QED
      BY <1>4, <2>1, <2>2
  <1> QED
    BY <1>1, <1>7, <1>8 DEF Increasing

-----------------------------------------------------------------------------
(* The inductive invariant.                                                *)

\* TypeOK, and the channels are functions of the clients.
Typed ==
    /\ TypeOK
    /\ chan \in [Clients -> Seq(Events)]
    /\ heard \in [Clients -> Seq(Events)]
    /\ relay \in [Clients -> Seq(Events)]

\* The ring holds what comes after the event the loop works on.
RingOrder ==
    /\ Increasing(ring)
    /\ \A e \in Range(ring) : current < e /\ e <= published
    /\ current <= published
    /\ loop = "send" => current \in Events

\* Each part of the way to a client is in order, and each part before the next.
WayOrder(c) ==
    /\ Increasing(relay[c]) /\ Increasing(heard[c]) /\ Increasing(chan[c])
    /\ Earlier(Range(relay[c]), Range(heard[c]))
    /\ Earlier(Range(relay[c]), Range(chan[c]))
    /\ Earlier(Range(heard[c]), Range(chan[c]))

\* A client has been sent nothing later than the current event, and not that
\* one while it is among the targets.
Way(c) == Range(relay[c]) \cup Range(heard[c]) \cup Range(chan[c])
WayBelow(c) == \A e \in Way(c) : e <= current /\ (c \in targets => e < current)

\* Targets are left only while an event is copied; what is found dead is
\* closed; a connection that does not exist yet is in no list.
Copying ==
    /\ targets # {} => loop = "send"
    /\ \A c \in dead : status[c] = "closed"
    /\ \A c \in Clients : status[c] = "new" => c \notin listed /\ expected[c] = {}

EventIndInv ==
    /\ Typed /\ RingOrder /\ Copying
    /\ \A c \in Clients : WayOrder(c) /\ WayBelow(c)
    /\ NothingMissed /\ OpenIsListed
-----------------------------------------------------------------------------
(* The loop and the ring.                                                  *)

\* A step is one of the actions.
LEMMA StepCases ==
    ASSUME [Next]_vars
    PROVE  \/ Publish \/ Receive \/ Prune
           \/ \E c \in Clients : \/ Connect(c) \/ Disconnect(c) \/ Unlist(c)
                                 \/ CopyTo(c) \/ Deliver(c) \/ Relay(c) \/ RelayEnds(c)
           \/ UNCHANGED vars
  BY DEF Next

\* The ring takes new events, drops its oldest, or gives its first to the loop.
LEMMA RingStep ==
    ASSUME Capacities, Typed, RingOrder, [Next]_vars
    PROVE  /\ ring' \in Seq(Events) /\ Len(ring') <= RingCap
           /\ published' \in 0 .. MaxEvents /\ current' \in 0 .. MaxEvents
           /\ RingOrder'
  <1> DEFINE e == published + 1
  <1>1. /\ ring \in Seq(Events) /\ Len(ring) \in Nat /\ Len(ring) <= RingCap
        /\ published \in 0 .. MaxEvents /\ current \in 0 .. MaxEvents
    BY DEF Typed, TypeOK
  <1>2. Range(ring) \subseteq Int
    BY <1>1, RangeType
  <1>3. CASE Publish
    <2>1. e \in Events /\ published' = e /\ current' = current /\ loop' = loop
      BY <1>1, <1>3 DEF Publish, Capacities, Events
    <2>2. \A d \in Range(ring) : d < e
      BY <1>1, <1>2 DEF RingOrder
    <2>0. ASSUME ring' \in Seq(Events), Len(ring') <= RingCap, Increasing(ring'),
                 Range(ring') \subseteq Range(ring) \cup {e}
          PROVE  /\ ring' \in Seq(Events) /\ Len(ring') <= RingCap
                 /\ published' \in 0 .. MaxEvents /\ current' \in 0 .. MaxEvents
                 /\ RingOrder'
      <3>1. current < e /\ current <= e /\ published' \in 0 .. MaxEvents
        BY <1>1, <2>1 DEF RingOrder, Events
      <3>2. \A d \in Range(ring) : current < d /\ d <= e
        BY <1>1, <1>2, <2>2 DEF RingOrder
      <3>3. \A d \in Range(ring') : current' < d /\ d <= published'
        BY <1>1, <2>1, <2>0, <3>1, <3>2
      <3> HIDE DEF e
      <3> QED
        BY <1>1, <2>1, <2>0, <3>1, <3>3 DEF RingOrder
    <2>3. CASE ring' = ring
      BY <1>1, <2>3, <2>0 DEF RingOrder
    <2>4. CASE Len(ring) < RingCap /\ ring' = Append(ring, e)
      <3>1. /\ ring' \in Seq(Events) /\ Len(ring') = Len(ring) + 1
            /\ Range(ring') = Range(ring) \cup {e} /\ Increasing(ring')
        BY <1>1, <2>1, <2>2, <2>4, Appended DEF RingOrder, Earlier
      <3>2. Len(ring') <= RingCap
        BY <1>1, <2>4, <3>1 DEF Capacities
      <3> QED
        BY <2>0, <3>1, <3>2
    <2>5. CASE ~(Len(ring) < RingCap) /\ ring' = Append(Tail(ring), e)
      <3>1. ring # <<>>
        BY <1>1, <2>5, Emptied DEF Capacities
      <3>2. /\ Tail(ring) \in Seq(Events) /\ Len(Tail(ring)) = Len(ring) - 1
            /\ Range(Tail(ring)) \subseteq Range(ring) /\ Increasing(Tail(ring))
        BY <1>1, <3>1, Taken DEF RingOrder
      <3>3. /\ ring' \in Seq(Events) /\ Len(ring') = Len(Tail(ring)) + 1
            /\ Range(ring') = Range(Tail(ring)) \cup {e} /\ Increasing(ring')
        BY <2>1, <2>2, <2>5, <3>2, Appended DEF Earlier
      <3>4. Len(ring') <= RingCap
        BY <1>1, <3>2, <3>3
      <3> QED
        BY <2>0, <3>2, <3>3, <3>4
    <2> HIDE DEF e
    <2> QED
      BY <1>3, <2>3, <2>4, <2>5 DEF Publish, e
  <1>4. CASE Receive
    <2>1. published' = published
      BY <1>4 DEF Receive
    <2>2. CASE lagged
      <3>1. ring' = <<>> /\ current' = current /\ loop' = "end"
        BY <1>4, <2>2 DEF Receive
      <3> QED
        BY <1>1, <2>1, <3>1, Emptied DEF RingOrder, Capacities
    <2>3. CASE ~lagged
      <3>1. ring # <<>> /\ ring' = Tail(ring) /\ current' = Head(ring)
        BY <1>4, <2>3 DEF Receive
      <3>2. /\ Tail(ring) \in Seq(Events) /\ Len(Tail(ring)) = Len(ring) - 1 /\ Head(ring) \in Events
            /\ Range(ring) = {Head(ring)} \cup Range(Tail(ring))
            /\ Increasing(Tail(ring)) /\ Earlier({Head(ring)}, Range(Tail(ring)))
        BY <1>1, <3>1, Taken DEF RingOrder
      <3>3. \A d \in Range(ring') : current' < d /\ d <= published
        BY <3>1, <3>2 DEF RingOrder, Earlier
      <3>4. current' <= published /\ current' \in 0 .. MaxEvents
        BY <3>1, <3>2 DEF RingOrder, Events
      <3>5. Len(ring') <= RingCap
        BY <1>1, <3>1, <3>2 DEF Capacities
      <3> QED
        BY <1>1, <2>1, <3>1, <3>2, <3>3, <3>4, <3>5 DEF RingOrder
    <2> QED
      BY <2>2, <2>3
  <1>5. CASE UNCHANGED <<published, ring, current>> /\ (loop' = "send" => loop = "send")
    BY <1>1, <1>5 DEF RingOrder
  <1>6. \/ Publish \/ Receive
        \/ UNCHANGED <<published, ring, current>> /\ (loop' = "send" => loop = "send")
    BY StepCases DEF Prune, Connect, Disconnect, Unlist, CopyTo, Deliver, Relay, RelayEnds, vars,
       serverVars
  <1> QED
    BY <1>3, <1>4, <1>5, <1>6

\* Targets, the dead and connections that are new; and who is listed.
LEMMA CopyingStep ==
    ASSUME Typed, Copying, OpenIsListed, [Next]_vars
    PROVE  /\ Copying' /\ OpenIsListed'
           /\ loop' \in {"recv", "send", "end"} /\ lagged' \in BOOLEAN
           /\ targets' \subseteq Clients /\ dead' \subseteq Clients /\ listed' \subseteq Clients
           /\ status' \in [Clients -> {"new", "open", "closed"}]
  <1>1. /\ loop \in {"recv", "send", "end"} /\ lagged \in BOOLEAN
        /\ targets \subseteq Clients /\ dead \subseteq Clients /\ listed \subseteq Clients
        /\ status \in [Clients -> {"new", "open", "closed"}]
        /\ expected \in [Clients -> SUBSET Events]
    BY DEF Typed, TypeOK
  <1>2. CASE Publish
    BY <1>1, <1>2 DEF Publish, Copying, OpenIsListed
  <1>3. CASE Receive
    <2>1. UNCHANGED <<dead, status, listed>>
      BY <1>3 DEF Receive
    <2>2. /\ loop' \in {"send", "end"} /\ lagged' = lagged
          /\ loop' = "end" => targets' = targets /\ expected' = expected
          /\ loop' = "send" => targets' = listed
          /\ loop = "recv"
      BY <1>3 DEF Receive
    <2>3. targets = {}
      BY <2>2 DEF Copying
    <2>4. \A c \in Clients : c \notin listed => expected'[c] = expected[c]
      BY <1>1, <1>3 DEF Receive
    <2> QED
      BY <1>1, <2>1, <2>2, <2>3, <2>4 DEF Copying, OpenIsListed
  <1>4. CASE Prune
    BY <1>1, <1>4 DEF Prune, Copying, OpenIsListed
  <1>5. ASSUME NEW c \in Clients, Connect(c)
        PROVE  /\ Copying' /\ OpenIsListed'
               /\ status' \in [Clients -> {"new", "open", "closed"}] /\ listed' \subseteq Clients
               /\ UNCHANGED <<loop, lagged, targets, dead>>
    BY <1>1, <1>5 DEF Connect, Copying, OpenIsListed
  <1>6. ASSUME NEW c \in Clients, Disconnect(c)
        PROVE  /\ Copying' /\ OpenIsListed'
               /\ status' \in [Clients -> {"new", "open", "closed"}] /\ listed' \subseteq Clients
               /\ UNCHANGED <<loop, lagged, targets, dead>>
    BY <1>1, <1>6 DEF Disconnect, Copying, OpenIsListed
  <1>7. ASSUME NEW c \in Clients, Unlist(c)
        PROVE  /\ Copying' /\ OpenIsListed'
               /\ status' = status /\ listed' \subseteq Clients
               /\ UNCHANGED <<loop, lagged, targets, dead>>
    BY <1>1, <1>7 DEF Unlist, Copying, OpenIsListed
  <1>8. ASSUME NEW c \in Clients, CopyTo(c)
        PROVE  /\ Copying' /\ OpenIsListed'
               /\ UNCHANGED <<loop, lagged, status, listed>>
               /\ targets' \subseteq Clients /\ dead' \subseteq Clients
    BY <1>1, <1>8 DEF CopyTo, Copying, OpenIsListed
  <1>9. CASE UNCHANGED <<loop, lagged, targets, dead, listed, status, expected>>
    BY <1>1, <1>9 DEF Copying, OpenIsListed
  <1>10. \/ Publish \/ Receive \/ Prune
         \/ \E c \in Clients : Connect(c) \/ Disconnect(c) \/ Unlist(c) \/ CopyTo(c)
         \/ UNCHANGED <<loop, lagged, targets, dead, listed, status, expected>>
    BY StepCases DEF Deliver, Relay, RelayEnds, vars, serverVars
  <1> QED
    BY <1>1, <1>2, <1>3, <1>4, <1>5, <1>6, <1>7, <1>8, <1>9, <1>10

-----------------------------------------------------------------------------
(* The way of an event to a client.                                        *)

\* An event expected by an open client is where NothingMissed says.
Present(c) ==
    status[c] = "open" =>
        \A e \in expected[c] :
            \/ e = current /\ c \in targets
            \/ e \in Way(c) \cup lost[c]

\* The types of what belongs to a client.
WayTyped(c) ==
    /\ chan[c] \in Seq(Events) /\ Len(chan[c]) <= FrameCap
    /\ heard[c] \in Seq(Events) /\ Len(heard[c]) <= RingCap
    /\ relay[c] \in Seq(Events)
    /\ expected[c] \subseteq Events /\ lost[c] \subseteq Events

WayInv(c) == WayTyped(c) /\ WayOrder(c) /\ WayBelow(c) /\ Present(c)

\* The events on the way to c are where they were.
Unmoved(c) ==
    chan'[c] = chan[c] /\ heard'[c] = heard[c] /\ relay'[c] = relay[c] /\ lost'[c] = lost[c]

\* The rest of the step does not concern c.
LEMMA Unconcerned ==
    ASSUME NEW c \in Clients, WayInv(c), Unmoved(c), expected'[c] = expected[c],
           current' = current, c \in targets' <=> c \in targets,
           status'[c] = "open" => status[c] = "open" \/ expected[c] = {}
    PROVE  WayInv(c)'
  BY DEF WayInv, WayTyped, WayOrder, WayBelow, Present, Way, Unmoved

\* What is on the way are events, and numbers.
LEMMA WayNumbers ==
    ASSUME NEW c \in Clients, WayTyped(c)
    PROVE  /\ Range(relay[c]) \subseteq Int /\ Range(heard[c]) \subseteq Int
           /\ Range(chan[c]) \subseteq Int /\ Way(c) \subseteq Int
  BY RangeType DEF WayTyped, Way

\* The loop takes an event that is later than all it has sent.
LEMMA ReceiveWay ==
    ASSUME Typed, RingOrder, Copying, NEW c \in Clients, WayInv(c), Receive
    PROVE  WayInv(c)'
  <1>1. Unmoved(c) /\ status' = status /\ loop = "recv" /\ targets = {}
    BY DEF Receive, Unmoved, clientVars, Copying
  <1>2. CASE lagged
    <2>1. UNCHANGED <<current, targets, expected>>
      BY <1>2 DEF Receive
    <2> QED
      BY <1>1, <2>1, Unconcerned
  <1>3. CASE ~lagged
    <2>1. ring # <<>> /\ current' = Head(ring) /\ targets' = listed
      BY <1>3 DEF Receive
    <2>2. expected' = [b \in Clients |-> IF b \in listed THEN expected[b] \cup {Head(ring)}
                                         ELSE expected[b]]
      BY <1>3 DEF Receive
    <2>3. /\ expected'[c] \in {expected[c], expected[c] \cup {current'}}
          /\ current' \in expected'[c] => c \in targets' \/ current' \in expected[c]
      BY <2>1, <2>2
    <2>4. current' \in Events /\ current < current' /\ current' \in Int /\ current \in Int
      <3>1. ring \in Seq(Events) /\ current \in Int
        BY DEF Typed, TypeOK
      <3>2. Head(ring) \in Events /\ Head(ring) \in Range(ring)
        BY <2>1, <3>1, Taken
      <3> QED
        BY <2>1, <3>1, <3>2 DEF RingOrder, Events
    <2>5. WayTyped(c)'
      BY <1>1, <2>3, <2>4 DEF WayInv, WayTyped, Unmoved
    <2>6. WayOrder(c)' /\ Way(c)' = Way(c)
      BY <1>1 DEF WayInv, WayOrder, Way, Unmoved
    <2>7. \A e \in Way(c) : e < current'
      BY <2>4, WayNumbers DEF WayInv, WayBelow
    <2>8. WayBelow(c)'
      BY <2>4, <2>6, <2>7, WayNumbers DEF WayBelow, WayInv
    <2>9. Present(c)'
      <3>1. lost'[c] = lost[c] /\ status'[c] = status[c]
        BY <1>1 DEF Unmoved
      <3>2. status[c] = "open" => \A e \in expected[c] : e \in Way(c) \cup lost[c]
        BY <1>1 DEF WayInv, Present
      <3>3. ASSUME NEW e \in expected'[c], e \notin expected[c]
            PROVE  e = current' /\ c \in targets'
        BY <2>3, <3>3
      <3> QED
        BY <2>6, <3>1, <3>2, <3>3 DEF Present
    <2> QED
      BY <2>5, <2>6, <2>8, <2>9 DEF WayInv
  <1> QED
    BY <1>2, <1>3

\* try_send puts it last, or drops it.
LEMMA CopyToWay ==
    ASSUME Capacities, Typed, RingOrder, NEW c \in Clients, WayInv(c),
           NEW b \in Clients, CopyTo(b)
    PROVE  WayInv(c)'
  <1>1. UNCHANGED <<current, status, expected, heard, relay>> /\ targets' = targets \ {b}
    BY DEF CopyTo, clientVars
  <1>2. CASE c # b
    <2>1. Unmoved(c)
      BY <1>1, <1>2 DEF CopyTo, Unmoved, Typed, TypeOK
    <2> QED
      BY <1>1, <1>2, <2>1, Unconcerned
  <1>3. CASE c = b
    <2>1. c \in targets /\ c \notin targets'
      BY <1>1, <1>3 DEF CopyTo
    <2>2. /\ WayTyped(c) /\ WayOrder(c) /\ WayBelow(c) /\ Present(c)
          /\ \A e \in Way(c) : e < current
      BY <2>1 DEF WayInv, WayBelow
    <2>3. CASE status[c] = "closed" /\ UNCHANGED <<chan, lost>>
      BY <1>1, <2>1, <2>2, <2>3
      DEF WayInv, WayTyped, WayOrder, WayBelow, Present, Way
    <2>4. CASE /\ status[c] = "open" /\ Len(chan[c]) < FrameCap
               /\ chan' = [chan EXCEPT ![c] = Append(@, current)] /\ lost' = lost
      <3>1. chan'[c] = Append(chan[c], current) /\ chan[c] \in Seq(Events)
        BY <2>4 DEF Typed
      <3>2. current \in Events /\ current \in Int
        BY DEF CopyTo, RingOrder, Events
      <3>3. Earlier(Range(chan[c]), {current}) /\ Increasing(chan[c])
        BY <2>2 DEF Way, Earlier, WayOrder
      <3>4. /\ chan'[c] \in Seq(Events) /\ Len(chan'[c]) = Len(chan[c]) + 1 /\ Len(chan[c]) \in Nat
            /\ Range(chan'[c]) = Range(chan[c]) \cup {current} /\ Increasing(chan'[c])
        BY <3>1, <3>2, <3>3, Appended
      <3>5. Len(chan'[c]) <= FrameCap
        BY <2>4, <3>4 DEF Capacities
      <3>6. heard'[c] = heard[c] /\ relay'[c] = relay[c] /\ expected'[c] = expected[c]
            /\ lost'[c] = lost[c] /\ current' = current /\ status'[c] = status[c]
        BY <1>1, <2>4
      <3>7. WayTyped(c)'
        BY <2>2, <3>4, <3>5, <3>6 DEF WayTyped
      <3>8. WayOrder(c)'
        BY <2>2, <3>4, <3>6 DEF WayOrder, Earlier, Way
      <3>9. Way(c)' = Way(c) \cup {current}
        BY <3>4, <3>6 DEF Way
      <3>10. WayBelow(c)'
        BY <2>1, <2>2, <3>2, <3>6, <3>9, WayNumbers DEF WayBelow
      <3>11. Present(c)'
        BY <2>2, <3>6, <3>9 DEF Present
      <3> QED
        BY <3>7, <3>8, <3>10, <3>11 DEF WayInv
    <2>5. CASE /\ status[c] = "open" /\ lost' = [lost EXCEPT ![c] = @ \cup {current}]
               /\ chan' = chan
      <3>1. lost'[c] = lost[c] \cup {current}
        BY <2>5 DEF Typed, TypeOK
      <3>2. current \in Events
        BY DEF CopyTo, RingOrder
      <3>3. UNCHANGED <<chan[c], heard[c], relay[c], expected[c], current, status[c]>>
        BY <1>1, <2>5
      <3>4. WayTyped(c)'
        BY <2>2, <3>1, <3>2, <3>3 DEF WayTyped
      <3>5. WayOrder(c)' /\ Way(c)' = Way(c)
        BY <2>2, <3>3 DEF WayOrder, Way
      <3>6. WayBelow(c)'
        BY <2>1, <2>2, <3>3, <3>5 DEF WayBelow
      <3>7. Present(c)'
        BY <2>2, <3>1, <3>3, <3>5 DEF Present
      <3> QED
        BY <3>4, <3>5, <3>6, <3>7 DEF WayInv
    <2> QED
      BY <1>3, <2>3, <2>4, <2>5 DEF CopyTo
  <1> QED
    BY <1>2, <1>3

\* Into a full event channel, the event comes after the others, and the first is lost.
LEMMA DeliverWay ==
    ASSUME Capacities, Typed, NEW c \in Clients, WayInv(c), NEW b \in Clients, Deliver(b)
    PROVE  WayInv(c)'
  <1>1. UNCHANGED <<current, status, expected, relay, targets>>
    BY DEF Deliver, serverVars
  <1>2. CASE c # b
    <2>1. Unmoved(c)
      BY <1>1, <1>2 DEF Deliver, Unmoved, Typed, TypeOK
    <2> QED
      BY <1>1, <1>2, <2>1, Unconcerned
  <1>3. CASE c = b
    <2> DEFINE e == Head(chan[c])
    <2>1. /\ WayTyped(c) /\ WayOrder(c) /\ WayBelow(c) /\ Present(c)
          /\ chan[c] # <<>> /\ chan[c] \in Seq(Events) /\ heard[c] \in Seq(Events)
      BY <1>3 DEF WayInv, Deliver, WayTyped
    <2>2. chan'[c] = Tail(chan[c])
      BY <1>3 DEF Deliver, Typed
    <2>3. /\ Tail(chan[c]) \in Seq(Events) /\ e \in Events
          /\ Len(Tail(chan[c])) = Len(chan[c]) - 1 /\ Len(chan[c]) \in Nat
          /\ Range(chan[c]) = {e} \cup Range(Tail(chan[c]))
          /\ Increasing(Tail(chan[c])) /\ Earlier({e}, Range(Tail(chan[c])))
      BY <2>1, Taken DEF WayOrder
    <2>4. Len(chan'[c]) <= FrameCap
      BY <2>1, <2>2, <2>3 DEF WayTyped, Capacities
    <2>5. relay'[c] = relay[c] /\ expected'[c] = expected[c] /\ current' = current
          /\ status'[c] = status[c] /\ targets' = targets
      BY <1>1
    <2> HIDE DEF e
    \* What both cases leave to show.
    <2>6. ASSUME NEW rest \in Seq(Events), Range(rest) \subseteq Range(heard[c]),
                 Increasing(rest), Len(rest) < RingCap,
                 heard'[c] = Append(rest, e),
                 Range(heard[c]) \subseteq Range(rest) \cup lost'[c],
                 lost[c] \subseteq lost'[c], lost'[c] \subseteq Events
          PROVE  WayInv(c)'
      <3>1. Earlier(Range(rest), {e})
        BY <2>1, <2>3, <2>6 DEF WayOrder, Earlier
      <3>2. /\ heard'[c] \in Seq(Events) /\ Len(heard'[c]) = Len(rest) + 1 /\ Len(rest) \in Nat
            /\ Range(heard'[c]) = Range(rest) \cup {e} /\ Increasing(heard'[c])
        BY <2>3, <2>6, <3>1, Appended
      <3>3. Len(heard'[c]) <= RingCap
        BY <2>6, <3>2 DEF Capacities
      <3>4. WayTyped(c)'
        BY <2>1, <2>2, <2>3, <2>4, <2>5, <2>6, <3>2, <3>3 DEF WayTyped
      <3>5. Earlier(Range(relay[c]), Range(heard'[c]))
        BY <2>1, <2>3, <2>6, <3>2 DEF WayOrder, Earlier
      <3>6. Earlier(Range(relay[c]), Range(chan'[c])) /\ Earlier(Range(heard'[c]), Range(chan'[c]))
        BY <2>1, <2>2, <2>3, <2>6, <3>2 DEF WayOrder, Earlier
      <3>7. WayOrder(c)'
        BY <2>1, <2>2, <2>3, <2>5, <3>2, <3>5, <3>6 DEF WayOrder
      <3>8. Way(c)' \subseteq Way(c)
        BY <2>2, <2>3, <2>5, <2>6, <3>2 DEF Way
      <3>9. Way(c) \subseteq Way(c)' \cup lost'[c]
        BY <2>2, <2>3, <2>5, <2>6, <3>2 DEF Way
      <3>10. WayBelow(c)'
        BY <2>1, <2>5, <3>8 DEF WayBelow
      <3>11. Present(c)'
        BY <2>1, <2>5, <2>6, <3>9 DEF Present
      <3> QED
        BY <3>4, <3>7, <3>10, <3>11 DEF WayInv
    <2>7. CASE Len(heard[c]) < RingCap
      <3>1. heard'[c] = Append(heard[c], e) /\ lost'[c] = lost[c]
        BY <1>3, <2>7 DEF Deliver, Typed, e
      <3>2. Increasing(heard[c]) /\ lost[c] \subseteq Events
        BY <2>1 DEF WayOrder, WayTyped
      <3> QED
        BY <2>1, <2>6, <2>7, <3>1, <3>2
    <2>8. CASE ~(Len(heard[c]) < RingCap)
      <3>1. heard'[c] = Append(Tail(heard[c]), e)
        BY <1>3, <2>8 DEF Deliver, Typed, e
      <3>2. lost'[c] = lost[c] \cup {Head(heard[c])}
        BY <1>3, <2>8 DEF Deliver, Typed, TypeOK
      <3>3. heard[c] # <<>>
        BY <2>8, Emptied DEF Capacities
      <3>4. /\ Tail(heard[c]) \in Seq(Events) /\ Head(heard[c]) \in Events
            /\ Len(Tail(heard[c])) = Len(heard[c]) - 1 /\ Len(heard[c]) \in Nat
            /\ Range(heard[c]) = {Head(heard[c])} \cup Range(Tail(heard[c]))
            /\ Increasing(Tail(heard[c]))
        BY <2>1, <3>3, Taken DEF WayOrder
      <3>5. Len(Tail(heard[c])) < RingCap
        BY <2>1, <3>4 DEF WayTyped, Capacities
      <3>6. lost[c] \subseteq Events
        BY <2>1 DEF WayTyped
      <3> QED
        BY <2>6, <3>1, <3>2, <3>4, <3>5, <3>6
    <2> QED
      BY <2>7, <2>8
  <1> QED
    BY <1>2, <1>3

\* The relay passes the first event on.
LEMMA RelayWay ==
    ASSUME Capacities, Typed, NEW c \in Clients, WayInv(c), NEW b \in Clients, Relay(b)
    PROVE  WayInv(c)'
  <1>1. UNCHANGED <<current, status, expected, chan, targets, lost>>
    BY DEF Relay, serverVars
  <1>2. CASE c # b \/ UNCHANGED <<relay, heard>>
    <2>1. Unmoved(c)
      BY <1>1, <1>2 DEF Relay, Unmoved, Typed
    <2> QED
      BY <1>1, <1>2, <2>1, Unconcerned
  <1>3. CASE c = b /\ ~UNCHANGED <<relay, heard>>
    <2> DEFINE e == Head(heard[c])
    <2>1. /\ WayTyped(c) /\ WayOrder(c) /\ WayBelow(c) /\ Present(c)
          /\ heard[c] # <<>> /\ heard[c] \in Seq(Events) /\ relay[c] \in Seq(Events)
      BY <1>3 DEF WayInv, Relay, WayTyped
    <2>2. heard'[c] = Tail(heard[c]) /\ relay'[c] = Append(relay[c], e)
      BY <1>3 DEF Relay, Typed
    <2>3. /\ Tail(heard[c]) \in Seq(Events) /\ e \in Events
          /\ Len(Tail(heard[c])) = Len(heard[c]) - 1 /\ Len(heard[c]) \in Nat
          /\ Range(heard[c]) = {e} \cup Range(Tail(heard[c]))
          /\ Increasing(Tail(heard[c])) /\ Earlier({e}, Range(Tail(heard[c])))
      BY <2>1, Taken DEF WayOrder
    <2>4. Len(heard'[c]) <= RingCap
      BY <2>1, <2>2, <2>3 DEF WayTyped, Capacities
    <2> HIDE DEF e
    <2>5. Earlier(Range(relay[c]), {e}) /\ Increasing(relay[c])
      BY <2>1, <2>3 DEF WayOrder, Earlier
    <2>6. /\ relay'[c] \in Seq(Events)
          /\ Range(relay'[c]) = Range(relay[c]) \cup {e} /\ Increasing(relay'[c])
      BY <2>1, <2>2, <2>3, <2>5, Appended
    <2>7. UNCHANGED <<chan[c], expected[c], lost[c], current, status[c], targets>>
      BY <1>1
    <2>8. WayTyped(c)'
      BY <2>1, <2>2, <2>3, <2>4, <2>6, <2>7 DEF WayTyped
    <2>9. WayOrder(c)'
      <3>1. Earlier(Range(relay'[c]), Range(heard'[c]))
        BY <2>1, <2>2, <2>3, <2>6 DEF WayOrder, Earlier
      <3>2. Earlier(Range(relay'[c]), Range(chan[c])) /\ Earlier(Range(heard'[c]), Range(chan[c]))
        BY <2>1, <2>2, <2>3, <2>6 DEF WayOrder, Earlier
      <3> QED
        BY <2>1, <2>2, <2>3, <2>6, <2>7, <3>1, <3>2 DEF WayOrder
    <2>10. Way(c)' = Way(c)
      BY <2>2, <2>3, <2>6, <2>7 DEF Way
    <2>11. WayBelow(c)' /\ Present(c)'
      BY <2>1, <2>7, <2>10 DEF WayBelow, Present
    <2> QED
      BY <2>8, <2>9, <2>11 DEF WayInv
  <1> QED
    BY <1>2, <1>3

\* A connection that is closed loses what was on its way.
LEMMA ClosedWay ==
    ASSUME Capacities, Typed, NEW c \in Clients, WayInv(c), NEW b \in Clients,
           Disconnect(b) \/ RelayEnds(b)
    PROVE  WayInv(c)'
  <1>1. UNCHANGED <<current, expected, relay, targets, lost>>
    BY DEF Disconnect, RelayEnds, serverVars, clientVars
  <1>2. CASE c # b
    <2>1. Unmoved(c) /\ status'[c] = status[c]
      BY <1>1, <1>2 DEF Disconnect, RelayEnds, Unmoved, Typed, TypeOK, clientVars, serverVars
    <2> QED
      BY <1>1, <2>1, Unconcerned
  <1>3. CASE c = b
    <2>1. /\ WayTyped(c) /\ WayOrder(c) /\ WayBelow(c)
      BY DEF WayInv
    <2>2. status'[c] = "closed"
      BY <1>3 DEF Disconnect, RelayEnds, Typed, TypeOK, serverVars
    <2>3. Present(c)'
      BY <2>2 DEF Present
    <2>4. UNCHANGED <<relay[c], expected[c], lost[c], current, targets>>
      BY <1>1
    <2>5. Len(<<>>) <= FrameCap /\ Len(<<>>) <= RingCap
      BY Emptied DEF Capacities
    <2>6. CASE Disconnect(b)
      <3>1. chan'[c] = <<>> /\ heard'[c] = heard[c]
        BY <1>3, <2>6 DEF Disconnect, Typed, clientVars
      <3> QED
        BY <2>1, <2>3, <2>4, <2>5, <3>1, Emptied
        DEF WayInv, WayTyped, WayOrder, WayBelow, Way, Earlier
    <2>7. CASE RelayEnds(b)
      <3>1. heard'[c] = <<>> /\ chan'[c] = chan[c]
        BY <1>3, <2>7 DEF RelayEnds, Typed
      <3> QED
        BY <2>1, <2>3, <2>4, <2>5, <3>1, Emptied
        DEF WayInv, WayTyped, WayOrder, WayBelow, Way, Earlier
    <2> QED
      BY <2>6, <2>7
  <1> QED
    BY <1>2, <1>3

\* Every step keeps the way of every client.
LEMMA WayStep ==
    ASSUME Capacities, Typed, RingOrder, Copying, NEW c \in Clients, WayInv(c), [Next]_vars
    PROVE  WayInv(c)'
  <1>1. CASE Receive
    BY <1>1, ReceiveWay
  <1>2. ASSUME NEW b \in Clients, CopyTo(b)
        PROVE  WayInv(c)'
    BY <1>2, CopyToWay
  <1>3. ASSUME NEW b \in Clients, Deliver(b)
        PROVE  WayInv(c)'
    BY <1>3, DeliverWay
  <1>4. ASSUME NEW b \in Clients, Relay(b)
        PROVE  WayInv(c)'
    BY <1>4, RelayWay
  <1>5. ASSUME NEW b \in Clients, Disconnect(b) \/ RelayEnds(b)
        PROVE  WayInv(c)'
    BY <1>5, ClosedWay
  <1>6. CASE UNCHANGED <<current, targets, status, chan, heard, relay, lost, expected>>
    BY <1>6, Unconcerned DEF Unmoved
  <1>7. ASSUME NEW b \in Clients, Connect(b)
        PROVE  WayInv(c)'
    <2>1. UNCHANGED <<current, targets, chan, heard, relay, lost, expected>>
      BY <1>7 DEF Connect, clientVars
    <2>2. status'[c] = status[c] \/ expected[c] = {}
      BY <1>7 DEF Connect, Typed, TypeOK, Copying
    <2> QED
      BY <2>1, <2>2, Unconcerned DEF Unmoved
  <1>8. \/ Receive
        \/ \E b \in Clients : \/ CopyTo(b) \/ Deliver(b) \/ Relay(b) \/ Connect(b)
                              \/ Disconnect(b) \/ RelayEnds(b)
        \/ UNCHANGED <<current, targets, status, chan, heard, relay, lost, expected>>
    BY StepCases DEF Publish, Prune, Unlist, vars, serverVars, clientVars
  <1> QED
    BY <1>1, <1>2, <1>3, <1>4, <1>5, <1>6, <1>7, <1>8

-----------------------------------------------------------------------------
(* The theorem.                                                            *)

\* x has a value for every client.
OfClients(x) == x = [c \in Clients |-> x[c]]

\* The channels and the histories are kept for every client.
LEMMA ChannelsStep ==
    ASSUME Typed, [Next]_vars
    PROVE  /\ OfClients(chan)' /\ OfClients(heard)' /\ OfClients(relay)'
           /\ OfClients(expected)' /\ OfClients(lost)'
           /\ overtaken' \subseteq Clients
  <1>1. /\ OfClients(chan) /\ OfClients(heard) /\ OfClients(relay)
        /\ OfClients(expected) /\ OfClients(lost)
        /\ overtaken \subseteq Clients
    BY DEF Typed, TypeOK, OfClients
  <1>2. CASE Receive
    BY <1>1, <1>2 DEF Receive, OfClients, clientVars
  <1>3. ASSUME NEW c \in Clients, CopyTo(c)
        PROVE  /\ OfClients(chan)' /\ OfClients(lost)'
               /\ UNCHANGED <<heard, relay, expected, overtaken>>
    BY <1>1, <1>3 DEF CopyTo, OfClients, clientVars
  <1>4. ASSUME NEW c \in Clients, Deliver(c)
        PROVE  /\ OfClients(chan)' /\ OfClients(heard)' /\ OfClients(lost)'
               /\ overtaken' \subseteq Clients
               /\ UNCHANGED <<relay, expected>>
    BY <1>1, <1>4 DEF Deliver, OfClients
  <1>5. ASSUME NEW c \in Clients, Relay(c)
        PROVE  /\ OfClients(heard)' /\ OfClients(relay)' /\ overtaken' \subseteq Clients
               /\ UNCHANGED <<chan, expected, lost>>
    BY <1>1, <1>5 DEF Relay, OfClients
  <1>6. ASSUME NEW c \in Clients, Disconnect(c) \/ RelayEnds(c)
        PROVE  /\ OfClients(chan)' /\ OfClients(heard)' /\ overtaken' \subseteq Clients
               /\ UNCHANGED <<relay, expected, lost>>
    BY <1>1, <1>6 DEF Disconnect, RelayEnds, OfClients, clientVars
  <1>7. CASE UNCHANGED <<chan, heard, relay, expected, lost, overtaken>>
    BY <1>1, <1>7 DEF OfClients
  <1>8. \/ Receive
        \/ \E c \in Clients : CopyTo(c) \/ Deliver(c) \/ Relay(c) \/ Disconnect(c) \/ RelayEnds(c)
        \/ UNCHANGED <<chan, heard, relay, expected, lost, overtaken>>
    BY StepCases DEF Publish, Prune, Connect, Unlist, vars, serverVars, clientVars
  <1>9. /\ chan' = chan => OfClients(chan)'
        /\ heard' = heard => OfClients(heard)'
        /\ relay' = relay => OfClients(relay)'
        /\ expected' = expected => OfClients(expected)'
        /\ lost' = lost => OfClients(lost)'
    BY <1>1 DEF OfClients
  <1> QED
    BY <1>1, <1>2, <1>3, <1>4, <1>5, <1>6, <1>7, <1>8, <1>9

\* The inductive invariant, with what belongs to each client together.
LEMMA ByClient ==
    EventIndInv <=> /\ Typed /\ RingOrder /\ Copying /\ OpenIsListed
                    /\ \A c \in Clients : WayInv(c)
  <1>1. ASSUME Typed
        PROVE  NothingMissed <=> \A c \in Clients : Present(c)
    BY DEF NothingMissed, Present, Way
  <1>2. ASSUME Typed
        PROVE  \A c \in Clients : WayTyped(c)
    BY <1>2 DEF Typed, TypeOK, WayTyped
  <1> QED
    BY <1>1, <1>2 DEF EventIndInv, WayInv

\* The same of the next state.
LEMMA ByClientNext ==
    EventIndInv' <=> /\ Typed' /\ RingOrder' /\ Copying' /\ OpenIsListed'
                     /\ \A c \in Clients : WayInv(c)'
  <1>1. ASSUME Typed'
        PROVE  NothingMissed' <=> \A c \in Clients : Present(c)'
    BY DEF NothingMissed, Present, Way
  <1>2. ASSUME Typed'
        PROVE  \A c \in Clients : WayTyped(c)'
    BY <1>2 DEF Typed, TypeOK, WayTyped
  <1> QED
    BY <1>1, <1>2 DEF EventIndInv, WayInv

\* Everything is empty at the start.
LEMMA EventInit ==
    ASSUME Capacities, Init
    PROVE  EventIndInv
  <1>1. /\ published = 0 /\ ring = <<>> /\ lagged = FALSE
        /\ loop = "recv" /\ current = 0 /\ targets = {} /\ dead = {} /\ listed = {}
        /\ overtaken = {} /\ status = [c \in Clients |-> "new"]
        /\ \A c \in Clients : /\ chan[c] = <<>> /\ heard[c] = <<>> /\ relay[c] = <<>>
                              /\ expected[c] = {} /\ lost[c] = {} /\ status[c] = "new"
    BY DEF Init, PerClient
  <1>2. /\ chan \in [Clients -> Seq(Events)] /\ heard \in [Clients -> Seq(Events)]
        /\ relay \in [Clients -> Seq(Events)]
        /\ expected \in [Clients -> SUBSET Events] /\ lost \in [Clients -> SUBSET Events]
    BY Emptied DEF Init, PerClient
  <1>3. Len(<<>>) <= RingCap /\ Len(<<>>) <= FrameCap /\ 0 \in 0 .. MaxEvents
    BY Emptied DEF Capacities
  <1>4. TypeOK
    BY <1>1, <1>2, <1>3, Emptied DEF TypeOK
  <1>5. Typed
    BY <1>2, <1>4 DEF Typed
  <1>6. RingOrder
    BY <1>1, Emptied DEF RingOrder
  <1>7. Copying /\ OpenIsListed
    BY <1>1 DEF Copying, OpenIsListed
  <1>8. ASSUME NEW c \in Clients
        PROVE  WayInv(c)
    <2>1. WayTyped(c) /\ Present(c)
      BY <1>1, <1>3, Emptied DEF WayTyped, Present
    <2>2. WayOrder(c) /\ WayBelow(c)
      BY <1>1, Emptied DEF WayOrder, WayBelow, Way, Earlier
    <2> QED
      BY <2>1, <2>2 DEF WayInv
  <1> QED
    BY <1>5, <1>6, <1>7, <1>8, ByClient

LEMMA EventStep ==
    ASSUME Capacities, EventIndInv, [Next]_vars
    PROVE  EventIndInv'
  <1>1. /\ Typed /\ RingOrder /\ Copying /\ OpenIsListed
        /\ \A c \in Clients : WayInv(c)
    BY ByClient
  <1>2. \A c \in Clients : WayInv(c)'
    BY <1>1, WayStep
  <1>3. /\ ring' \in Seq(Events) /\ Len(ring') <= RingCap
        /\ published' \in 0 .. MaxEvents /\ current' \in 0 .. MaxEvents
        /\ RingOrder'
    BY <1>1, RingStep
  <1>4. /\ Copying' /\ OpenIsListed'
        /\ loop' \in {"recv", "send", "end"} /\ lagged' \in BOOLEAN
        /\ targets' \subseteq Clients /\ dead' \subseteq Clients /\ listed' \subseteq Clients
        /\ status' \in [Clients -> {"new", "open", "closed"}]
    BY <1>1, CopyingStep
  <1>5. /\ OfClients(chan)' /\ OfClients(heard)' /\ OfClients(relay)'
        /\ OfClients(expected)' /\ OfClients(lost)' /\ overtaken' \subseteq Clients
    BY <1>1, ChannelsStep
  <1>6. /\ chan' \in [Clients -> Seq(Events)] /\ heard' \in [Clients -> Seq(Events)]
        /\ relay' \in [Clients -> Seq(Events)]
        /\ expected' \in [Clients -> SUBSET Events] /\ lost' \in [Clients -> SUBSET Events]
    BY <1>2, <1>5 DEF WayInv, WayTyped, OfClients
  <1>7. TypeOK'
    BY <1>2, <1>3, <1>4, <1>5, <1>6 DEF WayInv, WayTyped, TypeOK
  <1>8. Typed'
    BY <1>6, <1>7 DEF Typed
  <1> QED
    BY <1>2, <1>3, <1>4, <1>8, ByClientNext

\* The parts of each client's way, one after the other, are in order.
LEMMA WaysInOrder ==
    ASSUME EventIndInv
    PROVE  EventInv
  <1>1. ASSUME NEW c \in Clients
        PROVE  Increasing(relay[c] \o heard[c] \o chan[c])
    <2>1. /\ relay[c] \in Seq(Events) /\ heard[c] \in Seq(Events) /\ chan[c] \in Seq(Events)
          /\ WayOrder(c)
      BY DEF EventIndInv, Typed
    <2>2. /\ relay[c] \o heard[c] \in Seq(Events) /\ Increasing(relay[c] \o heard[c])
          /\ Range(relay[c] \o heard[c]) = Range(relay[c]) \cup Range(heard[c])
      BY <2>1, Joined DEF WayOrder
    <2>3. Earlier(Range(relay[c] \o heard[c]), Range(chan[c]))
      BY <2>1, <2>2 DEF WayOrder, Earlier
    <2> QED
      BY <2>1, <2>2, <2>3, Joined DEF WayOrder
  <1>2. InOrder
    BY <1>1 DEF InOrder
  <1> QED
    BY <1>2 DEF EventIndInv, EventInv, Typed

\* A client that stays connected is never dropped from the clients map, and of
\* the events taken while it was listed it misses none silently, hears none
\* twice and none before an earlier one, whatever the other clients do
\* (IpcServer::run and handle_connection, IpcClient, the event relay).
THEOREM EventCorrect ==
    ASSUME Capacities
    PROVE  Spec => []EventInv
  <1>1. Init => EventIndInv
    BY EventInit
  <1>2. EventIndInv /\ [Next]_vars => EventIndInv'
    BY EventStep
  <1>3. EventIndInv => EventInv
    BY WaysInOrder
  <1> QED
    BY <1>1, <1>2, <1>3, PTL DEF Spec
================================================================================
