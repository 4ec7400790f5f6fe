------------------------------ MODULE IpcProofs ------------------------------
(***************************************************************************)
(* Theorems about IpcCall, for any set of calls, any capacities of the     *)
(* channels and any number of events:                                      *)
(*                                                                         *)
(*   CallsTyped      every step keeps the types and the capacities;        *)
(*   CallsCorrect    no entry of pending_responses leaks, and the response *)
(*                   a caller waits for is on its way (CallInv);           *)
(*   CallsImplement  a call keeps the promise of RemoteCall, whatever the  *)
(*                   connection, the token and the timeouts do;            *)
(*   EventsCorrect   the events of the connection, which BroadcastProofs   *)
(*                   is about, beside the calls (MCIpc);                   *)
(*   ConnectionCorrect                                                     *)
(*                   calls and events of one connection (IpcSpec).         *)
(*                                                                         *)
(* The argument follows a request around the connection.  On the way up it *)
(* is in one place at most, which makes its execution happen once; nothing *)
(* on the way down carries a call that was not executed; and the map of    *)
(* pending responses holds the calls whose oneshot is open.                *)
(***************************************************************************)
EXTENDS MCIpc, TLAPS

-----------------------------------------------------------------------------
(* Channels: what Append, Head and Tail do to the elements of a sequence.  *)

\* No element occurs twice.
Distinct(s) == \A j, k \in 1 .. Len(s) : s[j] = s[k] => j = k

\* A frame that is appended is added to the elements.
LEMMA InAppend ==
    ASSUME NEW S, NEW s \in Seq(S), NEW e \in S
    PROVE  /\ Append(s, e) \in Seq(S) /\ Len(Append(s, e)) = Len(s) + 1
           /\ \A c : InSeq(c, Append(s, e)) <=> InSeq(c, s) \/ c = e
<1>1. Append(s, e) \in Seq(S) /\ Len(Append(s, e)) = Len(s) + 1
  OBVIOUS
<1>2. \A k \in 1 .. Len(s) : Append(s, e)[k] = s[k]
  OBVIOUS
<1>3. Append(s, e)[Len(s) + 1] = e
  OBVIOUS
<1>4. Len(s) \in Nat
  OBVIOUS
<1> HIDE DEF Append
<1> QED
  BY <1>1, <1>2, <1>3, <1>4 DEF InSeq

\* Taking the head leaves the other elements.
LEMMA InTail ==
    ASSUME NEW S, NEW s \in Seq(S), s # <<>>
    PROVE  /\ Head(s) \in S /\ Tail(s) \in Seq(S) /\ Len(Tail(s)) = Len(s) - 1
           /\ InSeq(Head(s), s)
           /\ \A c : InSeq(c, Tail(s)) => InSeq(c, s)
           /\ \A c : InSeq(c, s) => c = Head(s) \/ InSeq(c, Tail(s))
<1>1. Head(s) \in S /\ Tail(s) \in Seq(S) /\ Len(Tail(s)) = Len(s) - 1
  OBVIOUS
<1>2. Len(s) \in Nat /\ Len(s) > 0 /\ Head(s) = s[1]
  OBVIOUS
<1>3. \A k \in 1 .. Len(s) - 1 : Tail(s)[k] = s[k + 1]
  OBVIOUS
<1>4. InSeq(Head(s), s)
  BY <1>2 DEF InSeq
<1>5. ASSUME NEW c, InSeq(c, Tail(s))
      PROVE  InSeq(c, s)
  <2>1. PICK k \in 1 .. Len(Tail(s)) : Tail(s)[k] = c
    BY <1>5 DEF InSeq
  <2>2. k + 1 \in 1 .. Len(s) /\ s[k + 1] = c
    BY <1>1, <1>2, <1>3, <2>1
  <2> QED
    BY <2>2 DEF InSeq
<1>6. ASSUME NEW c, InSeq(c, s), c # Head(s)
      PROVE  InSeq(c, Tail(s))
  <2>1. PICK k \in 1 .. Len(s) : s[k] = c
    BY <1>6 DEF InSeq
  <2>2. k # 1
    BY <1>2, <1>6, <2>1
  <2>3. k - 1 \in 1 .. Len(Tail(s)) /\ Tail(s)[k - 1] = c
    BY <1>1, <1>2, <1>3, <2>1, <2>2
  <2> QED
    BY <2>3 DEF InSeq
<1> QED
  BY <1>1, <1>4, <1>5, <1>6

\* Both keep a channel free of duplicates.
LEMMA DistinctAppend ==
    ASSUME NEW S, NEW s \in Seq(S), NEW e \in S, Distinct(s), ~InSeq(e, s)
    PROVE  Distinct(Append(s, e))
<1>1. Len(Append(s, e)) = Len(s) + 1 /\ Len(s) \in Nat
  OBVIOUS
<1>2. \A k \in 1 .. Len(s) : Append(s, e)[k] = s[k]
  OBVIOUS
<1>3. Append(s, e)[Len(s) + 1] = e
  OBVIOUS
<1> SUFFICES ASSUME NEW j \in 1 .. Len(s) + 1, NEW k \in 1 .. Len(s) + 1,
                    Append(s, e)[j] = Append(s, e)[k]
             PROVE  j = k
  BY <1>1 DEF Distinct
<1>4. CASE j \in 1 .. Len(s) /\ k \in 1 .. Len(s)
  BY <1>2, <1>4 DEF Distinct
<1>5. CASE j = Len(s) + 1 /\ k \in 1 .. Len(s)
  BY <1>2, <1>3, <1>5 DEF InSeq
<1>6. CASE j \in 1 .. Len(s) /\ k = Len(s) + 1
  BY <1>2, <1>3, <1>6 DEF InSeq
<1> QED
  BY <1>1, <1>4, <1>5, <1>6

\* Taking the first element leaves none like it in the rest.
LEMMA DistinctTail ==
    ASSUME NEW S, NEW s \in Seq(S), s # <<>>, Distinct(s)
    PROVE  Distinct(Tail(s)) /\ ~InSeq(Head(s), Tail(s))
<1>1. Len(s) \in Nat /\ Len(s) > 0 /\ Head(s) = s[1] /\ Len(Tail(s)) = Len(s) - 1
  OBVIOUS
<1>2. \A k \in 1 .. Len(s) - 1 : Tail(s)[k] = s[k + 1]
  OBVIOUS
<1>3. ASSUME NEW j \in 1 .. Len(Tail(s)), NEW k \in 1 .. Len(Tail(s)), Tail(s)[j] = Tail(s)[k]
      PROVE  j = k
  <2>1. j + 1 \in 1 .. Len(s) /\ k + 1 \in 1 .. Len(s) /\ s[j + 1] = s[k + 1]
    BY <1>1, <1>2, <1>3
  <2> QED
    BY <2>1 DEF Distinct
<1>4. ASSUME NEW k \in 1 .. Len(Tail(s)), Tail(s)[k] = Head(s)
      PROVE  FALSE
  <2>1. k + 1 \in 1 .. Len(s) /\ 1 \in 1 .. Len(s) /\ s[k + 1] = s[1] /\ k + 1 # 1
    BY <1>1, <1>2, <1>4
  <2> QED
    BY <2>1 DEF Distinct
<1> QED
  BY <1>3, <1>4 DEF Distinct, InSeq

-----------------------------------------------------------------------------
(* The inductive invariant.                                                *)

\* The request of the call has been handed to the client's writer.
Sent(c) == call[c] \notin {"idle", "registered", "sendFailed"}

\* A request on its way up is in one place, and no handler has it yet.
UpOnce ==
    /\ Distinct(reqs) /\ Distinct(up)
    /\ \A c \in Calls :
          /\ InSeq(c, reqs) => Sent(c) /\ writer # c /\ ~InSeq(c, up) /\ handler[c] = "none"
          /\ writer = c => Sent(c) /\ ~InSeq(c, up) /\ handler[c] = "none"
          /\ InSeq(c, up) => Sent(c) /\ handler[c] = "none"
          /\ handler[c] # "none" => Sent(c)
          /\ handler[c] \in {"none", "running"} => c \notin executed

\* A response, wherever it is, answers a call that was executed.
DownExecuted ==
    \A c \in Calls :
        /\ InSeq(c, frames) \/ swriter = c \/ InSeq(c, down) => c \in executed
        /\ handler[c] = "responding" => c \in executed
        /\ slot[c] = "filled" \/ call[c] = "answered" => c \in executed

\* An entry of the map has not been used; an open oneshot has its entry.
PendingIsOpen ==
    \A c \in Calls :
        /\ c \in pending => slot[c] # "filled"
        /\ call[c] \in {"registered", "waiting"} /\ slot[c] = "open" => c \in pending

CallIndInv == CallInv /\ UpOnce /\ DownExecuted /\ PendingIsOpen

-----------------------------------------------------------------------------
(* Type correctness.                                                       *)

\* A step is one of the actions.
LEMMA StepCases ==
    ASSUME [Next]_vars
    PROVE  \/ \E c \in Calls : \/ Register(c) \/ SendRequest(c) \/ SendFails(c) \/ Answered(c)
                              \/ ChannelClosed(c) \/ TimesOut(c) \/ TimedOut(c)
                              \/ Handle(c) \/ Respond(c)
           \/ DropClient \/ WriterTakes \/ WriterSends \/ WriterEnds
           \/ ReaderGets \/ ReaderEnds \/ ReaderClears
           \/ ServerReads \/ ServerEnds \/ ServerWriterTakes \/ ServerWriterSends
           \/ Broadcast \/ Dies \/ UNCHANGED vars
BY DEF Next, CallStep, ClientStep, ServerStep

\* A caller's step keeps the types.
LEMMA CallerTyped ==
    ASSUME TypeOK, NEW c \in Calls,
           \/ Register(c) \/ SendRequest(c) \/ SendFails(c) \/ Answered(c)
           \/ ChannelClosed(c) \/ TimesOut(c) \/ TimedOut(c)
    PROVE  TypeOK'
<1> USE DEF Goto, Returned, Errors, server
<1>1. CASE Register(c)
  BY <1>1 DEF Register, TypeOK
<1>2. CASE SendRequest(c)
  <2>1. reqs' \in Seq(Calls) /\ Len(reqs') <= ReqCap
    <3>1. reqs \in Seq(Calls) /\ reqs' = Append(reqs, c) /\ Len(reqs) < ReqCap /\ ReqCap \in Nat
      BY <1>2, CallCaps DEF SendRequest, TypeOK
    <3> QED
      BY <3>1, InAppend
  <2> QED
    BY <1>2, <2>1 DEF SendRequest, TypeOK
<1>3. CASE SendFails(c)
  BY <1>3 DEF SendFails, TypeOK
<1>4. CASE Answered(c)
  BY <1>4 DEF Answered, TypeOK
<1>5. CASE ChannelClosed(c)
  BY <1>5 DEF ChannelClosed, TypeOK
<1>6. CASE TimesOut(c)
  BY <1>6 DEF TimesOut, TypeOK
<1>7. CASE TimedOut(c)
  BY <1>7 DEF TimedOut, TypeOK
<1> QED
  BY <1>1, <1>2, <1>3, <1>4, <1>5, <1>6, <1>7

\* A step of the client's two tasks keeps the types.
LEMMA ClientTyped ==
    ASSUME TypeOK,
           \/ DropClient \/ WriterTakes \/ WriterSends \/ WriterEnds
           \/ ReaderGets \/ ReaderEnds \/ ReaderClears
    PROVE  TypeOK'
<1> USE DEF server
<1>1. CASE DropClient
  BY <1>1 DEF DropClient, TypeOK
<1>2. CASE WriterTakes
  <2>1. reqs \in Seq(Calls) /\ reqs # <<>> /\ Len(reqs) <= ReqCap /\ ReqCap \in Nat
    BY <1>2, CallCaps DEF WriterTakes, TypeOK
  <2>2. Head(reqs) \in Calls /\ Tail(reqs) \in Seq(Calls) /\ Len(Tail(reqs)) <= ReqCap
    BY <2>1, InTail
  <2> QED
    BY <1>2, <2>2 DEF WriterTakes, TypeOK
<1>3. CASE WriterSends
  <2>1. /\ up \in Seq(Calls) /\ writer \in Calls /\ Len(up) < WireCap /\ WireCap \in Nat
        /\ up' = Append(up, writer)
    BY <1>3, CallCaps DEF WriterSends, TypeOK
  <2>2. up' \in Seq(Calls) /\ Len(up') <= WireCap
    BY <2>1, InAppend
  <2> QED
    BY <1>3, <2>2 DEF WriterSends, TypeOK
<1>4. CASE WriterEnds
  <2>1. <<>> \in Seq(Calls) /\ Len(<<>>) <= ReqCap
    BY CallCaps
  <2> QED
    BY <1>4, <2>1 DEF WriterEnds, TypeOK
<1>5. CASE ReaderGets
  <2>1. down \in Seq(Frames) /\ down # <<>> /\ Len(down) <= WireCap /\ WireCap \in Nat
    BY <1>5, CallCaps DEF ReaderGets, TypeOK
  <2>2. Tail(down) \in Seq(Frames) /\ Len(Tail(down)) <= WireCap
    BY <2>1, InTail
  <2>3. pending' \subseteq Calls /\ slot' \in [Calls -> {"none", "open", "filled", "closed"}]
    BY <1>5 DEF ReaderGets, TypeOK
  <2> QED
    BY <1>5, <2>2, <2>3 DEF ReaderGets, TypeOK
<1>6. CASE ReaderEnds
  BY <1>6 DEF ReaderEnds, TypeOK
<1>7. CASE ReaderClears
  BY <1>7 DEF ReaderClears, TypeOK
<1> QED
  BY <1>1, <1>2, <1>3, <1>4, <1>5, <1>6, <1>7

\* A step of the agent keeps the types.
LEMMA AgentTyped ==
    ASSUME TypeOK,
           \/ \E c \in Calls : Handle(c) \/ Respond(c)
           \/ ServerReads \/ ServerEnds \/ ServerWriterTakes \/ ServerWriterSends
           \/ Broadcast \/ Dies
    PROVE  TypeOK'
<1> USE DEF client
<1>0. /\ ReqCap \in Nat /\ WireCap \in Nat /\ FrameCap \in Nat /\ MaxEvents \in Nat
      /\ <<>> \in Seq(Calls) /\ <<>> \in Seq(Frames) /\ Len(<<>>) = 0
  BY CallCaps
<1>1. ASSUME NEW c \in Calls, Handle(c)
      PROVE  TypeOK'
  BY <1>1 DEF Handle, TypeOK
<1>2. ASSUME NEW c \in Calls, Respond(c)
      PROVE  TypeOK'
  <2>1. frames' \in Seq(Frames) /\ Len(frames') <= FrameCap
    <3>1. frames \in Seq(Frames) /\ Len(frames) <= FrameCap /\ c \in Frames
      BY DEF TypeOK, Frames
    <3>2. CASE swriter = "done"
      BY <1>2, <3>1, <3>2 DEF Respond
    <3>3. CASE swriter # "done"
      BY <1>0, <1>2, <3>1, <3>3, InAppend DEF Respond
    <3> QED
      BY <3>2, <3>3
  <2> QED
    BY <1>2, <2>1 DEF Respond, TypeOK
<1>3. CASE ServerReads
  <2>1. up \in Seq(Calls) /\ up # <<>> /\ Len(up) <= WireCap
    BY <1>3 DEF ServerReads, TypeOK
  <2>2. Head(up) \in Calls /\ Tail(up) \in Seq(Calls) /\ Len(Tail(up)) <= WireCap
    BY <1>0, <2>1, InTail
  <2> QED
    BY <1>3, <2>2 DEF ServerReads, TypeOK
<1>4. CASE ServerEnds
  <2>1. /\ frames' \in Seq(Frames) /\ Len(frames') <= FrameCap
        /\ up' \in Seq(Calls) /\ Len(up') <= WireCap
    BY <1>0, <1>4 DEF ServerEnds
  <2> QED
    BY <1>4, <2>1 DEF ServerEnds, TypeOK
<1>5. CASE ServerWriterTakes
  <2>1. frames \in Seq(Frames) /\ frames # <<>> /\ Len(frames) <= FrameCap
    BY <1>5 DEF ServerWriterTakes, TypeOK
  <2>2. /\ Head(frames) \in Frames /\ Tail(frames) \in Seq(Frames)
        /\ Len(Tail(frames)) <= FrameCap
    BY <1>0, <2>1, InTail
  <2> QED
    BY <1>5, <2>2 DEF ServerWriterTakes, TypeOK
<1>6. CASE ServerWriterSends
  <2>1. CASE Len(down) < WireCap /\ down' = Append(down, swriter) /\ swriter' = None
             /\ UNCHANGED frames
    <3>1. down \in Seq(Frames) /\ swriter \in Frames
      BY <1>6 DEF ServerWriterSends, TypeOK
    <3>2. down' \in Seq(Frames) /\ Len(down') <= WireCap
      BY <1>0, <2>1, <3>1, InAppend
    <3> QED
      BY <1>6, <2>1, <3>2 DEF ServerWriterSends, TypeOK
  <2>2. CASE swriter' = "done" /\ frames' = <<>> /\ UNCHANGED down
    <3>1. frames' \in Seq(Frames) /\ Len(frames') <= FrameCap
      BY <1>0, <2>2
    <3> QED
      BY <1>6, <2>2, <3>1 DEF ServerWriterSends, TypeOK
  <2> QED
    BY <1>6, <2>1, <2>2 DEF ServerWriterSends
<1>7. CASE Broadcast
  <2>1. frames' \in Seq(Frames) /\ Len(frames') <= FrameCap
    <3>1. frames \in Seq(Frames) /\ Len(frames) <= FrameCap /\ Event \in Frames
      BY DEF TypeOK, Frames
    <3>2. CASE swriter # "done" /\ Len(frames) < FrameCap
      BY <1>0, <1>7, <3>1, <3>2, InAppend DEF Broadcast
    <3>3. CASE ~(swriter # "done" /\ Len(frames) < FrameCap)
      BY <1>7, <3>1, <3>3 DEF Broadcast
    <3> QED
      BY <3>2, <3>3
  <2>2. events' \in 0 .. MaxEvents
    <3>1. events \in 0 .. MaxEvents /\ events < MaxEvents /\ events' = events + 1
      BY <1>7 DEF Broadcast, TypeOK
    <3> QED
      BY <1>0, <3>1
  <2>3. listed' \in BOOLEAN
    BY <1>7 DEF Broadcast
  <2> QED
    BY <1>7, <2>1, <2>2, <2>3 DEF Broadcast, TypeOK
<1>8. CASE Dies
  <2>1. handler' \in [Calls -> {"none", "running", "responding", "done"}]
    BY <1>8 DEF Dies
  <2>2. frames' \in Seq(Frames) /\ Len(frames') <= FrameCap /\ up' \in Seq(Calls) /\ Len(up') <= WireCap
    BY <1>0, <1>8 DEF Dies
  <2> QED
    BY <1>8, <2>1, <2>2 DEF Dies, TypeOK
<1> QED
  BY <1>1, <1>2, <1>3, <1>4, <1>5, <1>6, <1>7, <1>8

\* Every step keeps the types, and no channel takes more than its capacity.
LEMMA TypedStep ==
    ASSUME TypeOK, [Next]_vars
    PROVE  TypeOK'
<1>1. CASE UNCHANGED vars
  BY <1>1 DEF TypeOK, vars
<1> QED
  BY <1>1, StepCases, CallerTyped, ClientTyped, AgentTyped

\* The connection starts empty.
LEMMA TypedInit == Init => TypeOK
<1>1. <<>> \in Seq(Calls) /\ <<>> \in Seq(Frames) /\ Len(<<>>) = 0
  OBVIOUS
<1>2. ReqCap \in Nat /\ WireCap \in Nat /\ FrameCap \in Nat /\ MaxEvents \in Nat
  BY CallCaps
<1> SUFFICES ASSUME Init PROVE TypeOK
  OBVIOUS
<1>3. /\ reqs \in Seq(Calls) /\ Len(reqs) <= ReqCap
      /\ up \in Seq(Calls) /\ Len(up) <= WireCap
      /\ down \in Seq(Frames) /\ Len(down) <= WireCap
      /\ frames \in Seq(Frames) /\ Len(frames) <= FrameCap
  BY <1>1, <1>2 DEF Init
<1>4. events \in 0 .. MaxEvents
  BY <1>2 DEF Init
<1> QED
  BY <1>3, <1>4 DEF Init, TypeOK, Returned, Errors

\* Type correctness of a connection, the capacities of its channels included.
THEOREM CallsTyped == Spec => []TypeOK
BY TypedInit, TypedStep, PTL DEF Spec

-----------------------------------------------------------------------------
(* A request on its way up is in one place.                                *)

\* A channel keeps its requests or loses all of them, and the writer its
\* request or gives up.
LEMMA UpShrinks ==
    ASSUME UpOnce,
           reqs' = reqs \/ reqs' = <<>>, up' = up \/ up' = <<>>,
           writer' = writer \/ writer' = "done",
           executed' = executed,
           \A c \in Calls : /\ Sent(c) => Sent(c)'
                            /\ handler'[c] = "none" <=> handler[c] = "none"
                            /\ handler'[c] = "running" => handler[c] = "running"
    PROVE  UpOnce'
<1>1. Distinct(reqs') /\ Distinct(up')
  BY DEF UpOnce, Distinct
<1>2. \A c \in Calls : /\ InSeq(c, reqs') => InSeq(c, reqs)
                       /\ InSeq(c, up') => InSeq(c, up)
  BY DEF InSeq
<1>3. \A c \in Calls : writer' = c => writer = c
  BY CallValues
<1>4. ASSUME NEW c \in Calls
      PROVE  /\ InSeq(c, reqs') => /\ Sent(c)' /\ writer' # c /\ ~InSeq(c, up')
                                   /\ handler'[c] = "none"
             /\ writer' = c => Sent(c)' /\ ~InSeq(c, up') /\ handler'[c] = "none"
             /\ InSeq(c, up') => Sent(c)' /\ handler'[c] = "none"
             /\ handler'[c] # "none" => Sent(c)'
             /\ handler'[c] \in {"none", "running"} => c \notin executed'
  BY <1>2, <1>3, <1>4 DEF UpOnce
<1> QED
  BY <1>1, <1>4 DEF UpOnce

\* A call that is sent stays sent.
LEMMA SentStays ==
    ASSUME TypeOK, [Next]_vars, NEW c \in Calls, Sent(c)
    PROVE  Sent(c)'
<1> USE DEF Sent, Goto, client, server
<1>1. CASE UNCHANGED call
  BY <1>1
<1>2. CASE \E d \in Calls : \/ Register(d) \/ SendRequest(d) \/ SendFails(d) \/ Answered(d)
                            \/ ChannelClosed(d) \/ TimesOut(d) \/ TimedOut(d)
  <2>1. PICK d \in Calls, s \in {"registered", "waiting", "sendFailed", "answered", "closed",
                                "timing out", "timeout"} :
           /\ call' = [call EXCEPT ![d] = s]
           /\ s \in {"registered", "sendFailed"} => call[d] \in {"idle", "registered"}
    <3>1. PICK d \in Calls : \/ Register(d) \/ SendRequest(d) \/ SendFails(d) \/ Answered(d)
                            \/ ChannelClosed(d) \/ TimesOut(d) \/ TimedOut(d)
      BY <1>2
    <3>2. CASE Register(d) \/ SendFails(d)
      BY <3>2 DEF Register, SendFails
    <3>3. CASE SendRequest(d) \/ Answered(d) \/ ChannelClosed(d) \/ TimesOut(d) \/ TimedOut(d)
      BY <3>3 DEF SendRequest, Answered, ChannelClosed, TimesOut, TimedOut
    <3> QED
      BY <3>1, <3>2, <3>3
  <2> QED
    BY <2>1 DEF TypeOK
<1>3. \/ UNCHANGED call
      \/ \E d \in Calls : \/ Register(d) \/ SendRequest(d) \/ SendFails(d) \/ Answered(d)
                         \/ ChannelClosed(d) \/ TimesOut(d) \/ TimedOut(d)
  BY StepCases DEF Handle, Respond, DropClient, WriterTakes, WriterSends, WriterEnds, ReaderGets,
     ReaderEnds, ReaderClears, ServerReads, ServerEnds, ServerWriterTakes, ServerWriterSends,
     Broadcast, Dies, vars
<1> QED
  BY <1>1, <1>2, <1>3

\* Every step keeps a request in one place.
LEMMA UpOnceStep ==
    ASSUME TypeOK, UpOnce, [Next]_vars
    PROVE  UpOnce'
<1> USE DEF client, server
<1>0. \A c \in Calls : Sent(c) => Sent(c)'
  BY SentStays
<1>1. ASSUME NEW d \in Calls, SendRequest(d)
      PROVE  UpOnce'
  <2>1. ~Sent(d) /\ Sent(d)'
    BY <1>1 DEF SendRequest, Sent, Goto, TypeOK
  <2>2. ~InSeq(d, reqs) /\ writer # d /\ ~InSeq(d, up) /\ handler[d] = "none"
    BY <2>1 DEF UpOnce
  <2>3. reqs \in Seq(Calls) /\ reqs' = Append(reqs, d) /\ UNCHANGED <<writer, up, handler, executed>>
    BY <1>1 DEF SendRequest, TypeOK
  <2>4. Distinct(reqs') /\ Distinct(up')
    BY <2>2, <2>3, DistinctAppend DEF UpOnce
  <2>5. \A c \in Calls : InSeq(c, reqs') => InSeq(c, reqs) \/ c = d
    BY <2>3, InAppend
  <2> QED
    BY <1>0, <2>1, <2>2, <2>3, <2>4, <2>5 DEF UpOnce
<1>2. CASE WriterTakes
  <2>1. /\ reqs \in Seq(Calls) /\ reqs # <<>> /\ writer = None
        /\ reqs' = Tail(reqs) /\ writer' = Head(reqs) /\ UNCHANGED <<up, handler, executed>>
    BY <1>2 DEF WriterTakes, TypeOK
  <2>2. /\ Distinct(reqs') /\ ~InSeq(writer', reqs')
        /\ InSeq(writer', reqs) /\ writer' \in Calls
        /\ \A c : InSeq(c, reqs') => InSeq(c, reqs)
    BY <2>1, DistinctTail, InTail DEF UpOnce
  <2> QED
    BY <1>0, <2>1, <2>2 DEF UpOnce
<1>3. CASE WriterSends
  <2>1. /\ up \in Seq(Calls) /\ writer \in Calls /\ writer' = None
        /\ up' = Append(up, writer) /\ UNCHANGED <<reqs, handler, executed>>
    BY <1>3 DEF WriterSends, TypeOK
  <2>2. /\ ~InSeq(writer, up) /\ handler[writer] = "none" /\ Sent(writer)
        /\ ~InSeq(writer, reqs)
    BY <2>1 DEF UpOnce
  <2>3. Distinct(up') /\ \A c : InSeq(c, up') => InSeq(c, up) \/ c = writer
    BY <2>1, <2>2, DistinctAppend, InAppend DEF UpOnce
  <2>4. \A c \in Calls : writer' # c
    BY <2>1, CallValues
  <2> QED
    BY <1>0, <2>1, <2>2, <2>3, <2>4 DEF UpOnce
<1>4. CASE ServerReads
  <2> DEFINE d == Head(up)
  <2>1. /\ up \in Seq(Calls) /\ up # <<>> /\ up' = Tail(up)
        /\ handler' = [handler EXCEPT ![d] = "running"] /\ UNCHANGED <<reqs, writer, executed>>
    BY <1>4 DEF ServerReads, TypeOK
  <2>2. /\ d \in Calls /\ InSeq(d, up) /\ Distinct(up') /\ ~InSeq(d, up')
        /\ \A c : InSeq(c, up') => InSeq(c, up)
    BY <2>1, DistinctTail, InTail DEF UpOnce
  <2>3. Sent(d) /\ handler[d] = "none" /\ ~InSeq(d, reqs) /\ writer # d /\ d \notin executed
    BY <2>2 DEF UpOnce
  <2>4. \A c \in Calls : handler'[c] = IF c = d THEN "running" ELSE handler[c]
    BY <2>1 DEF TypeOK
  <2> HIDE DEF d
  <2> QED
    BY <1>0, <2>1, <2>2, <2>3, <2>4 DEF UpOnce
<1>5. ASSUME NEW d \in Calls, Handle(d)
      PROVE  UpOnce'
  <2>1. /\ handler[d] = "running" /\ executed' = executed \cup {d}
        /\ \A c \in Calls : handler'[c] = IF c = d THEN "responding" ELSE handler[c]
        /\ UNCHANGED <<reqs, writer, up>>
    BY <1>5 DEF Handle, TypeOK
  <2> QED
    BY <1>0, <2>1 DEF UpOnce
<1>6. ASSUME NEW d \in Calls, Respond(d)
      PROVE  UpOnce'
  <2>1. /\ handler[d] = "responding" /\ UNCHANGED <<reqs, writer, up, executed>>
        /\ \A c \in Calls : handler'[c] = IF c = d THEN "done" ELSE handler[c]
    BY <1>6 DEF Respond, TypeOK
  <2> QED
    BY <1>0, <2>1, UpShrinks
<1>7. CASE Dies
  <2>1. /\ up' = <<>> /\ UNCHANGED <<reqs, writer, executed>>
        /\ \A c \in Calls : handler'[c] = IF handler[c] = "none" THEN "none" ELSE "done"
    BY <1>7 DEF Dies
  <2> QED
    BY <1>0, <2>1, UpShrinks
<1>8. CASE WriterEnds \/ ServerEnds
  <2>1. /\ reqs' = reqs \/ reqs' = <<>>
        /\ up' = up \/ up' = <<>>
        /\ writer' = writer \/ writer' = "done"
        /\ UNCHANGED <<handler, executed>>
    BY <1>8 DEF WriterEnds, ServerEnds
  <2> QED
    BY <1>0, <2>1, UpShrinks
<1>9. CASE UNCHANGED <<reqs, up, writer, handler, executed>>
  BY <1>0, <1>9, UpShrinks
<1>10. \/ UNCHANGED <<reqs, up, writer, handler, executed>>
       \/ \E d \in Calls : SendRequest(d) \/ Handle(d) \/ Respond(d)
       \/ WriterTakes \/ WriterSends \/ WriterEnds \/ ServerReads \/ ServerEnds \/ Dies
  BY StepCases DEF Register, SendFails, Answered, ChannelClosed, TimesOut, TimedOut, DropClient,
     ReaderGets, ReaderEnds, ReaderClears, ServerWriterTakes, ServerWriterSends, Broadcast, vars
<1> QED
  BY <1>1, <1>2, <1>3, <1>4, <1>5, <1>6, <1>7, <1>8, <1>9, <1>10

-----------------------------------------------------------------------------
(* A response answers a call that was executed.                            *)

\* The frames on their way down, in whichever place.
OnItsWay(c) == InSeq(c, frames) \/ swriter = c \/ InSeq(c, down)

\* Only a handler adds the response of a call to the frames on their way.
LEMMA WayStep ==
    ASSUME TypeOK, [Next]_vars, NEW c \in Calls, OnItsWay(c)'
    PROVE  OnItsWay(c) \/ Respond(c)
<1> USE DEF client, server, OnItsWay
<1>0. c # Event /\ c # None /\ c # "done"
  BY CallValues
<1>1. CASE UNCHANGED <<frames, swriter, down>>
  BY <1>1 DEF InSeq
<1>2. CASE ReaderGets
  <2>1. down \in Seq(Frames) /\ down # <<>> /\ down' = Tail(down) /\ UNCHANGED <<frames, swriter>>
    BY <1>2 DEF ReaderGets, TypeOK
  <2>2. InSeq(c, down') => InSeq(c, down)
    BY <2>1, InTail
  <2>3. InSeq(c, frames') => InSeq(c, frames)
    BY <2>1
  <2> QED
    BY <2>1, <2>2, <2>3
<1>3. CASE ServerEnds \/ Dies
  <2>1. frames' = <<>> /\ swriter' = "done" /\ down' = down
    BY <1>3 DEF ServerEnds, Dies
  <2> QED
    BY <1>0, <2>1 DEF InSeq
<1>4. ASSUME NEW d \in Calls, Respond(d)
      PROVE  OnItsWay(c) \/ c = d
  <2>1. frames \in Seq(Frames) /\ d \in Frames /\ UNCHANGED <<swriter, down>>
    BY <1>4 DEF Respond, TypeOK, Frames
  <2>2. frames' = frames \/ frames' = Append(frames, d)
    BY <1>4 DEF Respond
  <2>3. InSeq(c, frames') => InSeq(c, frames) \/ c = d
    BY <2>1, <2>2, InAppend
  <2> QED
    BY <2>1, <2>3
<1>5. CASE Broadcast
  <2>1. frames \in Seq(Frames) /\ Event \in Frames /\ UNCHANGED <<swriter, down>>
    BY <1>5 DEF Broadcast, TypeOK, Frames
  <2>2. frames' = frames \/ frames' = Append(frames, Event)
    BY <1>5 DEF Broadcast
  <2>3. InSeq(c, frames') => InSeq(c, frames)
    <3>1. InSeq(c, Append(frames, Event)) <=> InSeq(c, frames)
      BY <1>0, <2>1, InAppend
    <3>2. CASE frames' = frames
      BY <3>2
    <3>3. CASE frames' = Append(frames, Event)
      BY <3>1, <3>3
    <3> QED
      BY <2>2, <3>2, <3>3
  <2> QED
    BY <2>1, <2>3
<1>6. CASE ServerWriterTakes
  <2>1. /\ frames \in Seq(Frames) /\ frames # <<>>
        /\ swriter' = Head(frames) /\ frames' = Tail(frames) /\ down' = down
    BY <1>6 DEF ServerWriterTakes, TypeOK
  <2>2. InSeq(c, frames') \/ swriter' = c => InSeq(c, frames)
    BY <2>1, InTail
  <2> QED
    BY <2>1, <2>2
<1>7. CASE ServerWriterSends
  <2>1. CASE down' = Append(down, swriter) /\ swriter' = None /\ frames' = frames
    <3>1. down \in Seq(Frames) /\ swriter \in Frames
      BY <1>7 DEF ServerWriterSends, TypeOK
    <3>2. InSeq(c, down') => InSeq(c, down) \/ c = swriter
      BY <2>1, <3>1, InAppend
    <3> QED
      BY <1>0, <2>1, <3>2
  <2>2. CASE swriter' = "done" /\ frames' = <<>> /\ down' = down
    BY <1>0, <2>2 DEF InSeq
  <2> QED
    BY <1>7, <2>1, <2>2 DEF ServerWriterSends
<1>8. \/ UNCHANGED <<frames, swriter, down>> \/ ReaderGets \/ ServerEnds \/ Dies
      \/ \E d \in Calls : Respond(d)
      \/ Broadcast \/ ServerWriterTakes \/ ServerWriterSends
  BY StepCases DEF Register, SendRequest, SendFails, Answered, ChannelClosed, TimesOut, TimedOut,
     Handle, DropClient, WriterTakes, WriterSends, WriterEnds, ReaderEnds, ReaderClears,
     ServerReads, vars
<1> QED
  BY <1>1, <1>2, <1>3, <1>4, <1>5, <1>6, <1>7, <1>8

\* Only Handle executes a call, and none is taken back.
LEMMA ExecutedStep ==
    ASSUME [Next]_vars
    PROVE  /\ executed \subseteq executed'
           /\ \A c \in executed' \ executed : c \in Calls /\ Handle(c)
<1>1. CASE \E c \in Calls : Handle(c)
  BY <1>1 DEF Handle
<1>2. executed' = executed \/ \E c \in Calls : Handle(c)
  BY StepCases DEF Register, SendRequest, SendFails, Answered, ChannelClosed, TimesOut, TimedOut,
     Respond, DropClient, WriterTakes, WriterSends, WriterEnds, ReaderGets, ReaderEnds,
     ReaderClears, ServerReads, ServerEnds, ServerWriterTakes, ServerWriterSends,
     Broadcast, Dies, vars, client, server
<1> QED
  BY <1>1, <1>2

\* Only Handle gets a handler as far as its response.
LEMMA RespondingStep ==
    ASSUME TypeOK, [Next]_vars, NEW c \in Calls, handler'[c] = "responding"
    PROVE  handler[c] = "responding" \/ c \in executed'
<1> USE DEF client, server
<1>1. CASE handler' = handler
  BY <1>1
<1>2. ASSUME NEW d \in Calls, Handle(d)
      PROVE  handler[c] = "responding" \/ c \in executed'
  BY <1>2 DEF Handle, TypeOK
<1>3. ASSUME NEW d \in Calls, Respond(d)
      PROVE  handler[c] = "responding"
  BY <1>3 DEF Respond, TypeOK
<1>4. CASE ServerReads
  <2>1. handler' = [handler EXCEPT ![Head(up)] = "running"]
    BY <1>4 DEF ServerReads
  <2> QED
    BY <2>1 DEF TypeOK
<1>5. CASE Dies
  BY <1>5 DEF Dies
<1>6. \/ handler' = handler \/ \E d \in Calls : Handle(d) \/ Respond(d)
      \/ ServerReads \/ Dies
  BY StepCases DEF Register, SendRequest, SendFails, Answered, ChannelClosed, TimesOut, TimedOut,
     DropClient, WriterTakes, WriterSends, WriterEnds, ReaderGets, ReaderEnds,
     ReaderClears, ServerEnds, ServerWriterTakes, ServerWriterSends, Broadcast, vars
<1> QED
  BY <1>1, <1>2, <1>3, <1>4, <1>5, <1>6

\* Only the reader fills a slot, with a response it takes from the socket for
\* a call of the map; only a filled slot answers a call.
LEMMA FilledStep ==
    ASSUME TypeOK, [Next]_vars, NEW c \in Calls
    PROVE  /\ slot'[c] = "filled" => slot[c] = "filled" \/ InSeq(c, down)
           /\ call'[c] = "answered" => call[c] = "answered" \/ slot[c] = "filled"
<1> USE DEF Goto, client, server
<1>1. CASE UNCHANGED <<call, slot>>
  BY <1>1
<1>2. ASSUME NEW d \in Calls,
             \/ Register(d) \/ SendRequest(d) \/ SendFails(d) \/ Answered(d)
             \/ ChannelClosed(d) \/ TimesOut(d) \/ TimedOut(d)
      PROVE  /\ slot'[c] = "filled" => slot[c] = "filled"
             /\ call'[c] = "answered" => call[c] = "answered" \/ slot[c] = "filled"
  BY <1>2 DEF Register, SendRequest, SendFails, Answered, ChannelClosed, TimesOut, TimedOut, TypeOK
<1>3. CASE ReaderClears
  BY <1>3 DEF ReaderClears
<1>4. CASE ReaderGets
  <2>1. down \in Seq(Frames) /\ down # <<>> /\ call' = call
    BY <1>4 DEF ReaderGets, TypeOK
  <2>2. slot' = slot \/ slot' = [slot EXCEPT ![Head(down)] = "filled"]
    BY <1>4 DEF ReaderGets
  <2>3. InSeq(Head(down), down)
    BY <2>1, InTail
  <2> QED
    BY <2>1, <2>2, <2>3 DEF TypeOK
<1>5. \/ UNCHANGED <<call, slot>> \/ ReaderClears \/ ReaderGets
      \/ \E d \in Calls : \/ Register(d) \/ SendRequest(d) \/ SendFails(d) \/ Answered(d)
                         \/ ChannelClosed(d) \/ TimesOut(d) \/ TimedOut(d)
  BY StepCases DEF Handle, Respond, DropClient, WriterTakes, WriterSends, WriterEnds,
     ReaderEnds, ServerReads, ServerEnds, ServerWriterTakes, ServerWriterSends,
     Broadcast, Dies, vars
<1> QED
  BY <1>1, <1>2, <1>3, <1>4, <1>5

\* Every step leaves only the responses of executed calls on the way down.
LEMMA DownExecutedStep ==
    ASSUME TypeOK, DownExecuted, [Next]_vars
    PROVE  DownExecuted'
<1> SUFFICES ASSUME NEW c \in Calls
             PROVE  /\ OnItsWay(c)' => c \in executed'
                    /\ handler'[c] = "responding" => c \in executed'
                    /\ slot'[c] = "filled" \/ call'[c] = "answered" => c \in executed'
  BY DEF DownExecuted, OnItsWay
<1>0. executed \subseteq executed'
  BY ExecutedStep
<1>1. OnItsWay(c)' => c \in executed'
  <2>1. Respond(c) => handler[c] = "responding"
    BY DEF Respond
  <2> QED
    BY <1>0, <2>1, WayStep DEF DownExecuted, OnItsWay
<1>2. handler'[c] = "responding" => c \in executed'
  BY <1>0, RespondingStep DEF DownExecuted
<1>3. slot'[c] = "filled" \/ call'[c] = "answered" => c \in executed'
  BY <1>0, FilledStep DEF DownExecuted
<1> QED
  BY <1>1, <1>2, <1>3

-----------------------------------------------------------------------------
(* The map of pending responses.                                           *)

\* The entries of the map: none of a call that has returned, none used, and
\* one for each call that waits with an open oneshot.
PendingOK == NoLeakedEntry /\ PendingIsOpen

\* Every step keeps the map exact.
LEMMA PendingStep ==
    ASSUME TypeOK, PendingOK, [Next]_vars
    PROVE  PendingOK'
<1> USE DEF Goto, client, server, PendingOK
<1>1. CASE UNCHANGED <<call, pending, slot>>
  BY <1>1 DEF NoLeakedEntry, PendingIsOpen
<1>2. ASSUME NEW d \in Calls, Register(d) \/ SendRequest(d)
      PROVE  PendingOK'
  BY <1>2 DEF Register, SendRequest, NoLeakedEntry, PendingIsOpen, TypeOK
<1>3. ASSUME NEW d \in Calls, SendFails(d) \/ ChannelClosed(d)
      PROVE  PendingOK'
  BY <1>3 DEF SendFails, ChannelClosed, NoLeakedEntry, PendingIsOpen, TypeOK
<1>4. ASSUME NEW d \in Calls, Answered(d)
      PROVE  PendingOK'
  BY <1>4 DEF Answered, NoLeakedEntry, PendingIsOpen, TypeOK
<1>5. ASSUME NEW d \in Calls, TimesOut(d) \/ TimedOut(d)
      PROVE  PendingOK'
  BY <1>5 DEF TimesOut, TimedOut, NoLeakedEntry, PendingIsOpen, TypeOK
<1>6. CASE ReaderClears
  BY <1>6 DEF ReaderClears, NoLeakedEntry, PendingIsOpen, TypeOK
<1>7. CASE ReaderGets
  <2>1. PICK d : \/ /\ d \in pending /\ pending' = pending \ {d}
                    /\ slot' = IF slot[d] = "open" THEN [slot EXCEPT ![d] = "filled"] ELSE slot
                 \/ UNCHANGED <<pending, slot>>
    BY <1>7 DEF ReaderGets
  <2>2. call' = call
    BY <1>7 DEF ReaderGets
  <2> QED
    BY <2>1, <2>2 DEF NoLeakedEntry, PendingIsOpen, TypeOK
<1>8. \/ UNCHANGED <<call, pending, slot>> \/ ReaderClears \/ ReaderGets
      \/ \E d \in Calls : \/ Register(d) \/ SendRequest(d) \/ SendFails(d) \/ Answered(d)
                         \/ ChannelClosed(d) \/ TimesOut(d) \/ TimedOut(d)
  BY StepCases DEF Handle, Respond, DropClient, WriterTakes, WriterSends, WriterEnds,
     ReaderEnds, ServerReads, ServerEnds, ServerWriterTakes, ServerWriterSends,
     Broadcast, Dies, vars
<1> QED
  BY <1>1, <1>2, <1>3, <1>4, <1>5, <1>6, <1>7, <1>8

-----------------------------------------------------------------------------
(* The response a caller waits for is on its way.                          *)

\* A caller that waits with an open oneshot after a step did so before it,
\* unless the step is its sending.
LEMMA WaitsStep ==
    ASSUME TypeOK, [Next]_vars, NEW c \in Calls, call'[c] = "waiting", slot'[c] = "open"
    PROVE  \/ call[c] = "waiting" /\ slot[c] = "open"
           \/ call[c] = "registered"
<1> USE DEF Goto, client, server
<1>1. CASE UNCHANGED <<call, slot>>
  BY <1>1
<1>2. ASSUME NEW d \in Calls,
             \/ Register(d) \/ SendRequest(d) \/ SendFails(d) \/ Answered(d)
             \/ ChannelClosed(d) \/ TimesOut(d) \/ TimedOut(d)
      PROVE  \/ call[c] = "waiting" /\ slot[c] = "open"
             \/ call[c] = "registered"
  BY <1>2 DEF Register, SendRequest, SendFails, Answered, ChannelClosed, TimesOut, TimedOut, TypeOK
<1>3. CASE ReaderClears
  BY <1>3 DEF ReaderClears
<1>4. CASE ReaderGets
  <2>1. call' = call /\ (slot' = slot \/ slot' = [slot EXCEPT ![Head(down)] = "filled"])
    BY <1>4 DEF ReaderGets
  <2> QED
    BY <2>1 DEF TypeOK
<1>5. \/ UNCHANGED <<call, slot>> \/ ReaderClears \/ ReaderGets
      \/ \E d \in Calls : \/ Register(d) \/ SendRequest(d) \/ SendFails(d) \/ Answered(d)
                         \/ ChannelClosed(d) \/ TimesOut(d) \/ TimedOut(d)
  BY StepCases DEF Handle, Respond, DropClient, WriterTakes, WriterSends, WriterEnds,
     ReaderEnds, ServerReads, ServerEnds, ServerWriterTakes, ServerWriterSends,
     Broadcast, Dies, vars
<1> QED
  BY <1>1, <1>2, <1>3, <1>4, <1>5

\* An end of the connection that has ended stays ended.
LEMMA EndsStay ==
    ASSUME TypeOK, [Next]_vars
    PROVE  /\ conn' => conn
           /\ swriter = "done" => swriter' = "done"
           /\ reader' = "run" => reader = "run"
<1> USE DEF client, server
<1>1. CASE UNCHANGED <<conn, swriter, reader>>
  BY <1>1
<1>2. CASE ReaderEnds \/ ReaderClears
  BY <1>2 DEF ReaderEnds, ReaderClears
<1>3. CASE ServerEnds \/ Dies
  BY <1>3 DEF ServerEnds, Dies
<1>4. CASE ServerWriterTakes
  <2>1. swriter = None /\ UNCHANGED <<conn, reader>>
    BY <1>4 DEF ServerWriterTakes
  <2> QED
    BY <2>1, CallValues
<1>5. CASE ServerWriterSends
  <2>1. swriter # "done" /\ UNCHANGED <<conn, reader>>
    BY <1>5 DEF ServerWriterSends
  <2> QED
    BY <2>1
<1>6. \/ UNCHANGED <<conn, swriter, reader>> \/ ReaderEnds \/ ReaderClears
      \/ ServerEnds \/ Dies \/ ServerWriterTakes \/ ServerWriterSends
  BY StepCases DEF Register, SendRequest, SendFails, Answered, ChannelClosed, TimesOut, TimedOut,
     Handle, Respond, DropClient, WriterTakes, WriterSends, WriterEnds, ReaderGets,
     ServerReads, Broadcast, vars
<1> QED
  BY <1>1, <1>2, <1>3, <1>4, <1>5, <1>6

\* While the agent lives a handler with a response keeps it until it sends it.
LEMMA HandlerStays ==
    ASSUME TypeOK, UpOnce, [Next]_vars, NEW c \in Calls, handler[c] = "responding",
           conn, conn', ~Respond(c)
    PROVE  handler'[c] = "responding"
<1> USE DEF client, server
<1>1. CASE handler' = handler
  BY <1>1
<1>2. ASSUME NEW d \in Calls, Handle(d) \/ Respond(d)
      PROVE  handler'[c] = "responding"
  BY <1>2 DEF Handle, Respond, TypeOK
<1>3. CASE ServerReads
  <2>1. up \in Seq(Calls) /\ up # <<>> /\ handler' = [handler EXCEPT ![Head(up)] = "running"]
    BY <1>3 DEF ServerReads, TypeOK
  <2>2. Head(up) \in Calls /\ InSeq(Head(up), up)
    BY <2>1, InTail
  <2>3. Head(up) # c
    BY <2>2 DEF UpOnce
  <2> QED
    BY <2>1, <2>3 DEF TypeOK
<1>4. CASE Dies
  BY <1>4 DEF Dies
<1>5. \/ handler' = handler \/ \E d \in Calls : Handle(d) \/ Respond(d)
      \/ ServerReads \/ Dies
  BY StepCases DEF Register, SendRequest, SendFails, Answered, ChannelClosed, TimesOut, TimedOut,
     DropClient, WriterTakes, WriterSends, WriterEnds, ReaderGets, ReaderEnds,
     ReaderClears, ServerEnds, ServerWriterTakes, ServerWriterSends, Broadcast, vars
<1> QED
  BY <1>1, <1>2, <1>3, <1>4, <1>5

\* While both ends live a response stays on its way until the reader hands it
\* over: to a call of the map, whose oneshot it fills.
LEMMA WayKept ==
    ASSUME TypeOK, [Next]_vars, NEW c \in pending, slot[c] = "open", OnItsWay(c),
           conn', swriter' # "done", slot'[c] = "open"
    PROVE  OnItsWay(c)'
<1> USE DEF client, server, OnItsWay
<1>0. c \in Calls /\ c # Event /\ c # None /\ c # "done"
  BY CallValues DEF TypeOK
<1>1. CASE UNCHANGED <<frames, swriter, down>>
  BY <1>1 DEF InSeq
<1>2. CASE ReaderGets
  <2>1. down \in Seq(Frames) /\ down # <<>> /\ down' = Tail(down) /\ UNCHANGED <<frames, swriter>>
    BY <1>2 DEF ReaderGets, TypeOK
  <2>2. c # Head(down)
    BY <1>0, <1>2 DEF ReaderGets, TypeOK
  <2>3. InSeq(c, down) => InSeq(c, down')
    BY <2>1, <2>2, InTail
  <2>4. InSeq(c, frames) => InSeq(c, frames')
    BY <2>1 DEF InSeq
  <2> QED
    BY <2>1, <2>3, <2>4
<1>3. CASE ServerEnds \/ Dies
  BY <1>3 DEF ServerEnds, Dies
<1>4. ASSUME NEW e \in Frames, frames' = frames \/ frames' = Append(frames, e),
             UNCHANGED <<swriter, down>>
      PROVE  OnItsWay(c)'
  <2>1. frames \in Seq(Frames)
    BY DEF TypeOK
  <2>2. InSeq(c, frames) => InSeq(c, frames')
    <3>1. InSeq(c, frames) => InSeq(c, Append(frames, e))
      BY <2>1, InAppend
    <3>2. CASE frames' = frames
      BY <3>2
    <3>3. CASE frames' = Append(frames, e)
      BY <3>1, <3>3
    <3> QED
      BY <1>4, <3>2, <3>3
  <2>3. InSeq(c, down) => InSeq(c, down')
    <3>1. down' = down
      BY <1>4
    <3> QED
      BY <3>1
  <2> QED
    BY <1>4, <2>2, <2>3
<1>5. CASE ServerWriterTakes
  <2>1. /\ frames \in Seq(Frames) /\ frames # <<>> /\ swriter = None
        /\ swriter' = Head(frames) /\ frames' = Tail(frames) /\ down' = down
    BY <1>5 DEF ServerWriterTakes, TypeOK
  <2>2. InSeq(c, frames) => InSeq(c, frames') \/ swriter' = c
    BY <2>1, InTail
  <2>3. InSeq(c, down) => InSeq(c, down')
    BY <2>1 DEF InSeq
  <2> QED
    BY <1>0, <2>1, <2>2, <2>3
<1>6. CASE ServerWriterSends
  <2>1. /\ down \in Seq(Frames) /\ swriter \in Frames
        /\ down' = Append(down, swriter) /\ frames' = frames
    BY <1>6 DEF ServerWriterSends, TypeOK
  <2>2. InSeq(c, down) \/ c = swriter => InSeq(c, down')
    BY <2>1, InAppend
  <2>3. InSeq(c, frames) => InSeq(c, frames')
    BY <2>1 DEF InSeq
  <2> QED
    BY <2>2, <2>3
<1>7. \/ UNCHANGED <<frames, swriter, down>> \/ ReaderGets \/ ServerEnds \/ Dies
      \/ \E e \in Frames : (frames' = frames \/ frames' = Append(frames, e))
                          /\ UNCHANGED <<swriter, down>>
      \/ ServerWriterTakes \/ ServerWriterSends
  <2>1. ASSUME NEW d \in Calls, Respond(d)
        PROVE  \E e \in Frames : (frames' = frames \/ frames' = Append(frames, e))
                          /\ UNCHANGED <<swriter, down>>
    BY <2>1 DEF Respond, Frames
  <2>2. CASE Broadcast
    <3>1. Event \in Frames
      BY DEF Frames
    <3> QED
      BY <2>2, <3>1 DEF Broadcast
  <2>3. \/ UNCHANGED <<frames, swriter, down>> \/ ReaderGets \/ ServerEnds \/ Dies
        \/ \E d \in Calls : Respond(d)
        \/ Broadcast \/ ServerWriterTakes \/ ServerWriterSends
    BY StepCases DEF Register, SendRequest, SendFails, Answered, ChannelClosed, TimesOut, TimedOut,
       Handle, DropClient, WriterTakes, WriterSends, WriterEnds, ReaderEnds, ReaderClears,
       ServerReads, vars
  <2> QED
    BY <2>1, <2>2, <2>3
<1> QED
  BY <1>1, <1>2, <1>3, <1>4, <1>5, <1>6, <1>7

\* Every step keeps the response of a waiting caller on its way.
LEMMA OnItsWayStep ==
    ASSUME CallIndInv, [Next]_vars
    PROVE  ResponseOnItsWay'
<1>0. TypeOK /\ UpOnce /\ PendingOK /\ ResponseOnItsWay
  BY DEF CallIndInv, CallInv, PendingOK
<1>a. TypeOK' /\ PendingOK'
  BY <1>0, TypedStep, PendingStep
<1> SUFFICES ASSUME NEW c \in Calls,
                    c \in executed', call'[c] = "waiting", slot'[c] = "open",
                    conn', swriter' # "done", reader' = "run"
             PROVE  handler'[c] = "responding" \/ OnItsWay(c)'
  <2>1. \A c \in Calls : call'[c] = "waiting" /\ slot'[c] = "open" => c \in pending'
    BY <1>a DEF PendingOK, PendingIsOpen
  <2> QED
    BY <2>1 DEF ResponseOnItsWay, OnItsWay
<1>1. conn /\ swriter # "done" /\ reader = "run"
  BY <1>0, EndsStay
<1>2. CASE c \notin executed
  <2>1. Handle(c)
    BY <1>2, ExecutedStep
  <2> QED
    BY <1>0, <2>1 DEF Handle, TypeOK
<1>3. CASE c \in executed
  <2>1. Sent(c)
    BY <1>0, <1>3 DEF UpOnce
  <2>2. call[c] = "waiting" /\ slot[c] = "open"
    BY <1>0, <2>1, WaitsStep DEF Sent
  <2>3. c \in pending /\ (handler[c] = "responding" \/ OnItsWay(c))
    BY <1>0, <1>1, <1>3, <2>2 DEF ResponseOnItsWay, OnItsWay
  <2>4. CASE OnItsWay(c)
    BY <1>0, <2>2, <2>3, <2>4, WayKept
  <2>5. CASE handler[c] = "responding"
    <3>1. CASE Respond(c)
      <4>1. frames \in Seq(Frames) /\ c \in Frames /\ frames' = Append(frames, c)
        BY <1>0, <1>1, <3>1 DEF Respond, TypeOK, Frames
      <4>2. InSeq(c, Append(frames, c))
        BY <4>1, InAppend
      <4> QED
        BY <4>1, <4>2 DEF OnItsWay
    <3>2. CASE ~Respond(c)
      <4>1. handler'[c] = "responding"
        BY <1>0, <1>1, <2>5, <3>2, HandlerStays
      <4> QED
        BY <4>1
    <3> QED
      BY <3>1, <3>2
  <2> QED
    BY <2>3, <2>4, <2>5
<1> QED
  BY <1>2, <1>3

-----------------------------------------------------------------------------
(* The theorems.                                                           *)

\* Every step keeps the inductive invariant.
LEMMA CallStepInv ==
    ASSUME CallIndInv, [Next]_vars
    PROVE  CallIndInv'
<1>1. TypeOK /\ UpOnce /\ DownExecuted /\ PendingOK
  BY DEF CallIndInv, CallInv, PendingOK
<1>2. TypeOK' /\ UpOnce' /\ DownExecuted' /\ PendingOK' /\ ResponseOnItsWay'
  BY <1>1, TypedStep, UpOnceStep, DownExecutedStep, PendingStep, OnItsWayStep
<1> QED
  BY <1>2 DEF CallIndInv, CallInv, PendingOK

\* It holds of a new connection.
LEMMA CallInitInv == Init => CallIndInv
<1> SUFFICES ASSUME Init PROVE CallIndInv
  OBVIOUS
<1>1. TypeOK
  BY TypedInit
<1>2. /\ \A c : ~InSeq(c, reqs) /\ ~InSeq(c, up) /\ ~InSeq(c, frames) /\ ~InSeq(c, down)
      /\ Distinct(reqs) /\ Distinct(up)
  BY DEF Init, InSeq, Distinct
<1>3. /\ writer = None /\ swriter = None /\ executed = {} /\ pending = {}
      /\ \A c \in Calls : call[c] = "idle" /\ handler[c] = "none" /\ slot[c] = "none"
  BY DEF Init
<1>4. UpOnce
  BY <1>2, <1>3, CallValues DEF UpOnce
<1>5. DownExecuted
  BY <1>2, <1>3, CallValues DEF DownExecuted
<1>6. PendingIsOpen /\ NoLeakedEntry /\ ResponseOnItsWay
  BY <1>3 DEF PendingIsOpen, NoLeakedEntry, ResponseOnItsWay
<1> QED
  BY <1>1, <1>4, <1>5, <1>6 DEF CallIndInv, CallInv

\* The types hold, no entry of pending_responses outlives its call, whichever
\* of the answer, the timeout, the failure to send and the end of the reader
\* comes first, and while the connection lives the response of an executed
\* call is never dropped.
THEOREM CallsCorrect == Spec => []CallInv
<1>1. CallIndInv => CallInv
  BY DEF CallIndInv
<1> QED
  BY <1>1, CallInitInv, CallStepInv, PTL DEF Spec

-----------------------------------------------------------------------------
(* A call keeps the promise of RemoteCall.                                 *)

\* Where RemoteCall sees a call.
Seen(s) == CASE s \in {"registered", "waiting", "timing out"} -> "open"
             [] s \in {"closed", "timeout"} -> "failed"
             [] s = "sendFailed" -> "unsent"
             [] OTHER -> s

SeenState == [c \in Calls |-> Seen(call[c])]

\* A step of a call from one stage to another, as RemoteCall sees it.
LEMMA SeenStep ==
    ASSUME TypeOK, NEW d \in Calls, NEW s, call' = [call EXCEPT ![d] = s]
    PROVE  SeenState' = [SeenState EXCEPT ![d] = Seen(s)]
BY DEF SeenState, TypeOK

\* Every step is a step of RemoteCall, or none.
LEMMA RefinementStep ==
    ASSUME CallIndInv, [Next]_vars
    PROVE  Abstract!Next \/ (SeenState' = SeenState /\ executed' = executed)
<1>0. TypeOK /\ UpOnce /\ DownExecuted
  BY DEF CallIndInv, CallInv
<1> USE DEF Goto, client, server
<1>a. \A c \in Calls : SeenState[c] = Seen(call[c])
  BY DEF SeenState
<1>1. ASSUME NEW d \in Calls, Register(d)
      PROVE  Abstract!Next
  <2>1. call[d] = "idle" /\ call' = [call EXCEPT ![d] = "registered"] /\ executed' = executed
    BY <1>1 DEF Register
  <2>2. SeenState[d] = "idle" /\ SeenState' = [SeenState EXCEPT ![d] = "open"]
    BY <1>0, <1>a, <2>1, SeenStep DEF Seen
  <2>3. Abstract!Open(d)
    BY <2>1, <2>2 DEF Abstract!Open, SeenState, Seen
  <2> QED
    BY <2>3 DEF Abstract!Next
<1>2. ASSUME NEW d \in Calls, SendRequest(d) \/ TimesOut(d)
      PROVE  SeenState' = SeenState /\ executed' = executed
  <2>1. PICK s \in {"waiting", "timing out"} :
           /\ call[d] \in {"registered", "waiting"} /\ call' = [call EXCEPT ![d] = s]
           /\ executed' = executed
    BY <1>2 DEF SendRequest, TimesOut
  <2>2. SeenState[d] = "open" /\ SeenState' = [SeenState EXCEPT ![d] = "open"]
    BY <1>0, <1>a, <2>1, SeenStep DEF Seen
  <2> QED
    BY <2>1, <2>2 DEF SeenState
<1>3. ASSUME NEW d \in Calls, SendFails(d)
      PROVE  Abstract!Next
  <2>1. call[d] = "registered" /\ call' = [call EXCEPT ![d] = "sendFailed"] /\ executed' = executed
    BY <1>3 DEF SendFails
  <2>2. SeenState[d] = "open" /\ SeenState' = [SeenState EXCEPT ![d] = "unsent"]
    BY <1>0, <1>a, <2>1, SeenStep DEF Seen
  <2>3. d \notin executed
    BY <1>0, <2>1 DEF UpOnce, Sent, TypeOK
  <2>4. Abstract!Unsent(d)
    BY <2>1, <2>2, <2>3 DEF Abstract!Unsent, SeenState, Seen
  <2> QED
    BY <2>4 DEF Abstract!Next
<1>4. ASSUME NEW d \in Calls, Answered(d)
      PROVE  Abstract!Next
  <2>1. /\ call[d] = "waiting" /\ slot[d] = "filled"
        /\ call' = [call EXCEPT ![d] = "answered"] /\ executed' = executed
    BY <1>4 DEF Answered
  <2>2. SeenState[d] = "open" /\ SeenState' = [SeenState EXCEPT ![d] = "answered"]
    BY <1>0, <1>a, <2>1, SeenStep DEF Seen
  <2>3. d \in executed
    BY <1>0, <2>1 DEF DownExecuted
  <2>4. Abstract!Answer(d)
    BY <2>1, <2>2, <2>3 DEF Abstract!Answer, SeenState, Seen
  <2> QED
    BY <2>4 DEF Abstract!Next
<1>5. ASSUME NEW d \in Calls, ChannelClosed(d) \/ TimedOut(d)
      PROVE  Abstract!Next
  <2>1. PICK s \in {"closed", "timeout"} :
           /\ call[d] \in {"waiting", "timing out"} /\ call' = [call EXCEPT ![d] = s]
           /\ executed' = executed
    BY <1>5 DEF ChannelClosed, TimedOut
  <2>2. SeenState[d] = "open" /\ SeenState' = [SeenState EXCEPT ![d] = "failed"]
    BY <1>0, <1>a, <2>1, SeenStep DEF Seen
  <2>3. Abstract!Fail(d)
    BY <2>1, <2>2 DEF Abstract!Fail, SeenState, Seen
  <2> QED
    BY <2>3 DEF Abstract!Next
<1>6. ASSUME NEW d \in Calls, Handle(d)
      PROVE  Abstract!Next
  <2>1. handler[d] = "running" /\ executed' = executed \cup {d} /\ call' = call
    BY <1>6 DEF Handle
  <2>2. Sent(d) /\ d \notin executed
    BY <1>0, <2>1 DEF UpOnce
  <2>3. call[d] # "answered"
    BY <1>0, <2>2 DEF DownExecuted
  <2>4. call[d] \in {"waiting", "timing out", "closed", "timeout"}
    BY <1>0, <2>2, <2>3 DEF Sent, TypeOK, Returned, Errors
  <2>5. SeenState[d] \in {"open", "failed"} /\ SeenState' = SeenState
    BY <1>a, <2>1, <2>4 DEF Seen, SeenState
  <2>6. Abstract!Execute(d)
    BY <2>1, <2>2, <2>5 DEF Abstract!Execute, SeenState, Seen
  <2> QED
    BY <2>6 DEF Abstract!Next
<1>7. CASE UNCHANGED <<call, executed>>
  BY <1>7 DEF SeenState
<1>8. \/ UNCHANGED <<call, executed>>
      \/ \E d \in Calls : \/ Register(d) \/ SendRequest(d) \/ SendFails(d) \/ Answered(d)
                         \/ ChannelClosed(d) \/ TimesOut(d) \/ TimedOut(d) \/ Handle(d)
  BY StepCases DEF Respond, DropClient, WriterTakes, WriterSends, WriterEnds, ReaderGets,
     ReaderEnds, ReaderClears, ServerReads, ServerEnds, ServerWriterTakes, ServerWriterSends,
     Broadcast, Dies, vars
<1> QED
  BY <1>1, <1>2, <1>3, <1>4, <1>5, <1>6, <1>7, <1>8

\* IpcClient::call keeps its promise over any connection: an answered call was
\* executed, exactly once; one that reports an error was executed once at
\* most, perhaps later; one that could not be sent never is.
THEOREM CallsImplement == Spec => AbstractCall
<1>1. Init => Abstract!Init
  BY DEF Init, Abstract!Init
<1>2. CallIndInv /\ [Next]_vars => [Abstract!Next]_(Abstract!vars)
  <2> SUFFICES ASSUME CallIndInv, [Next]_vars
               PROVE  Abstract!Next \/ UNCHANGED Abstract!vars
    OBVIOUS
  <2>1. SeenState' = SeenState /\ executed' = executed => UNCHANGED Abstract!vars
    BY DEF Abstract!vars, SeenState, Seen
  <2> QED
    BY <2>1, RefinementStep
<1> QED
  BY <1>1, <1>2, CallInitInv, CallStepInv, PTL DEF Spec, AbstractCall, Abstract!Spec

-----------------------------------------------------------------------------
(* Events beside the calls.                                                *)

Proved == INSTANCE BroadcastProofs WITH listed <- clients, FrameCap <- ClientCap,
                                        MaxEvents <- MaxPublished

\* MCIpc and the proofs speak of the same events.
LEMMA SameEvents ==
    /\ Events!Init <=> Proved!Init
    /\ [Events!Next]_eventVars => [Proved!Next]_Proved!vars
    /\ Proved!EventInv <=> EventInv
<1> USE DEF Events!clientVars, Proved!clientVars, Events!serverVars, Proved!serverVars
<1>1. Events!Init <=> Proved!Init
  BY DEF Events!Init, Proved!Init, Events!PerClient, Proved!PerClient
<1>2. Proved!EventInv <=> EventInv
  BY DEF EventInv, Events!EventInv, Proved!EventInv, Events!TypeOK, Proved!TypeOK,
     Events!NothingMissed, Proved!NothingMissed, Events!InOrder, Proved!InOrder,
     Events!OpenIsListed, Proved!OpenIsListed, Events!Increasing, Proved!Increasing,
     Events!Range, Proved!Range, Events!Events, Proved!Events
<1>3. /\ Events!Publish => Proved!Publish
      /\ Events!Receive => Proved!Receive
      /\ Events!Prune => Proved!Prune
  BY DEF Events!Publish, Proved!Publish, Events!Receive, Proved!Receive,
     Events!Prune, Proved!Prune
<1>4. ASSUME NEW c \in Clients
      PROVE  /\ Events!Connect(c) => Proved!Connect(c)
             /\ Events!Disconnect(c) => Proved!Disconnect(c)
             /\ Events!Unlist(c) => Proved!Unlist(c)
             /\ Events!CopyTo(c) => Proved!CopyTo(c)
             /\ Events!Deliver(c) => Proved!Deliver(c)
             /\ Events!Relay(c) => Proved!Relay(c)
             /\ Events!RelayEnds(c) => Proved!RelayEnds(c)
  <2>1. /\ Events!Connect(c) => Proved!Connect(c)
        /\ Events!Disconnect(c) => Proved!Disconnect(c)
        /\ Events!Unlist(c) => Proved!Unlist(c)
    BY DEF Events!Connect, Proved!Connect, Events!Disconnect, Proved!Disconnect,
       Events!Unlist, Proved!Unlist
  <2>2. Events!CopyTo(c) => Proved!CopyTo(c)
    BY DEF Events!CopyTo, Proved!CopyTo
  <2>3. Events!Deliver(c) => Proved!Deliver(c)
    BY DEF Events!Deliver, Proved!Deliver
  <2>4. /\ Events!Relay(c) => Proved!Relay(c)
        /\ Events!RelayEnds(c) => Proved!RelayEnds(c)
    BY DEF Events!Relay, Proved!Relay, Events!RelayEnds, Proved!RelayEnds
  <2> QED
    BY <2>1, <2>2, <2>3, <2>4
<1>5. Events!Next => Proved!Next
  BY <1>3, <1>4 DEF Events!Next, Proved!Next
<1> QED
  BY <1>1, <1>2, <1>5 DEF eventVars, Proved!vars

\* Whether the connection carries calls or events: a client that stays connected
\* misses no event silently and hears them in order (EventCorrect).
THEOREM EventsCorrect == IpcSpec => []EventInv
<1>1. Proved!Capacities
  BY RingAssumption DEF Proved!Capacities
<1>2. IpcInit => Proved!EventIndInv
  BY <1>1, SameEvents, Proved!EventInit DEF IpcInit
<1>3. Proved!EventIndInv /\ [IpcNext]_<<part, vars, eventVars>> => Proved!EventIndInv'
  <2>1. [IpcNext]_<<part, vars, eventVars>> => [Events!Next]_eventVars
    BY DEF IpcNext, eventVars
  <2> QED
    BY <1>1, <2>1, SameEvents, Proved!EventStep
<1>4. Proved!EventIndInv => EventInv
  BY SameEvents, Proved!WaysInOrder
<1> QED
  BY <1>2, <1>3, <1>4, PTL DEF IpcSpec

\* Whether the connection carries calls or events: calls are answered as IpcCall
\* says and keep the promise of RemoteCall (CallsCorrect, CallsImplement).
THEOREM ConnectionCorrect == IpcSpec => []CallInv /\ AbstractCall
<1>1. IpcInit => Init
  BY DEF IpcInit
<1>2. [IpcNext]_<<part, vars, eventVars>> => [Next]_vars
  BY DEF IpcNext
<1>3. IpcSpec => Spec
  BY <1>1, <1>2, PTL DEF IpcSpec, Spec
<1> QED
  BY <1>3, CallsCorrect, CallsImplement
=============================================================================
