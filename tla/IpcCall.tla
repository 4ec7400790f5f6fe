------------------------------- MODULE IpcCall -------------------------------
(***************************************************************************)
(* One connection between IpcClient (crates/ipc/src/client.rs) and the     *)
(* agent's IpcServer (crates/ipc/src/server.rs): two tasks on the client,  *)
(* a reading loop, a writing task and one spawned handler per request on   *)
(* the server, and any number of concurrent callers.  Events of the        *)
(* broadcast share the way back with the responses.  Either end may drop   *)
(* the connection and the agent may die at any point.                      *)
(***************************************************************************)
EXTENDS Integers, Sequences, FiniteSets

CONSTANTS Calls,      \* calls, each made once
          ReqCap,     \* requests that fit the client's channel (256 in the code)
          WireCap,    \* frames that fit the socket, per direction
          FrameCap,   \* frames that fit a client's channel on the server (256)
          MaxEvents,  \* bound: events broadcast
          None, Event

ASSUME CallCaps == {ReqCap, WireCap, FrameCap} \subseteq Nat \ {0} /\ MaxEvents \in Nat
ASSUME CallValues == /\ None \notin Calls /\ Event \notin Calls /\ None # Event
                     /\ "done" \notin Calls \cup {None, Event}

VARIABLES
    call,       \* where each caller stands
    pending,    \* pending_responses: calls with a registered response channel
    slot,       \* the oneshot of each call: none, open, filled, closed
    reqs,       \* the channel to the client's writer
    writer,     \* the client's writer: a call it is sending, None, or "done"
    reader,     \* the client's reader: run, clear, done
    cancelled,  \* the client's cancellation token
    dropped,    \* the owner has dropped the client
    up, down,   \* the socket, per direction
    conn,       \* the server's reading loop runs
    handler,    \* the handler of each request
    frames,     \* the client's channel on the server
    swriter,    \* the server's writer: a frame it is sending, None, or "done"
    listed,     \* the connection is in the server's clients map
    events,     \* events broadcast so far
    executed    \* history: the calls the agent has executed

client == <<call, pending, slot, reqs, writer, reader, cancelled, dropped>>
server == <<conn, handler, frames, swriter, listed, events, executed>>
vars == <<call, pending, slot, reqs, writer, reader, cancelled, dropped, up, down,
          conn, handler, frames, swriter, listed, events, executed>>

Errors == {"sendFailed", "closed", "timeout"}
Returned == {"answered"} \cup Errors

Init ==
    /\ call = [c \in Calls |-> "idle"]
    /\ pending = {} /\ slot = [c \in Calls |-> "none"]
    /\ reqs = <<>> /\ writer = None /\ reader = "run"
    /\ cancelled = FALSE /\ dropped = FALSE
    /\ up = <<>> /\ down = <<>>
    /\ conn = TRUE /\ handler = [c \in Calls |-> "none"]
    /\ frames = <<>> /\ swriter = None /\ listed = TRUE
    /\ events = 0 /\ executed = {}

\* A socket is closed when both of its halves are dropped.
ClientClosed == writer = "done" /\ reader = "done"
ServerClosed == ~conn /\ swriter = "done"

-----------------------------------------------------------------------------
(* The callers.                                                            *)

Goto(c, s) == call' = [call EXCEPT ![c] = s]

\* The response channel is registered before the request is sent.
Register(c) ==
    /\ call[c] = "idle" /\ ~dropped
    /\ Goto(c, "registered")
    /\ pending' = pending \cup {c}
    /\ slot' = [slot EXCEPT ![c] = "open"]
    /\ UNCHANGED <<reqs, writer, reader, cancelled, dropped, up, down, server>>

SendRequest(c) ==
    /\ call[c] = "registered"
    /\ writer # "done" /\ Len(reqs) < ReqCap
    /\ reqs' = Append(reqs, c)
    /\ Goto(c, "waiting")
    /\ UNCHANGED <<pending, slot, writer, reader, cancelled, dropped, up, down, server>>

\* Fault: a caller takes a cancelled token for "not sent".
SendFailsOnCancel(c) ==
    /\ call[c] \in {"registered", "waiting"} /\ cancelled
    /\ pending' = pending \ {c}
    /\ Goto(c, "sendFailed")
    /\ UNCHANGED <<slot, reqs, writer, reader, cancelled, dropped, up, down, server>>

\* The writer is gone: the request comes back.
SendFails(c) ==
    /\ call[c] = "registered" /\ writer = "done"
    /\ pending' = pending \ {c}
    /\ Goto(c, "sendFailed")
    /\ UNCHANGED <<slot, reqs, writer, reader, cancelled, dropped, up, down, server>>

Answered(c) ==
    /\ call[c] = "waiting" /\ slot[c] = "filled"
    /\ Goto(c, "answered")
    /\ UNCHANGED <<pending, slot, reqs, writer, reader, cancelled, dropped, up, down, server>>

ChannelClosed(c) ==
    /\ call[c] = "waiting" /\ slot[c] = "closed"
    /\ pending' = pending \ {c}
    /\ Goto(c, "closed")
    /\ UNCHANGED <<slot, reqs, writer, reader, cancelled, dropped, up, down, server>>

\* The 30 seconds are over with the oneshot empty: its receiver is dropped ...
TimesOut(c) ==
    /\ call[c] = "waiting" /\ slot[c] = "open"
    /\ slot' = [slot EXCEPT ![c] = "closed"]
    /\ Goto(c, "timing out")
    /\ UNCHANGED <<pending, reqs, writer, reader, cancelled, dropped, up, down, server>>

\* ... and then the entry is removed, under the lock.
TimedOut(c) ==
    /\ call[c] = "timing out"
    /\ pending' = pending \ {c}
    /\ Goto(c, "timeout")
    /\ UNCHANGED <<slot, reqs, writer, reader, cancelled, dropped, up, down, server>>

\* The last clone of the client is dropped; a call in progress holds one.
DropClient ==
    /\ ~dropped /\ \A c \in Calls : call[c] \in Returned \cup {"idle"}
    /\ dropped' = TRUE
    /\ UNCHANGED <<call, pending, slot, reqs, writer, reader, cancelled, up, down, server>>

-----------------------------------------------------------------------------
(* The client's writer and reader.                                         *)

WriterTakes ==
    /\ writer = None /\ reqs # <<>>
    /\ writer' = Head(reqs) /\ reqs' = Tail(reqs)
    /\ UNCHANGED <<call, pending, slot, reader, cancelled, dropped, up, down, server>>

WriterSends ==
    /\ writer \in Calls /\ Len(up) < WireCap /\ ~ServerClosed
    /\ up' = Append(up, writer) /\ writer' = None
    /\ UNCHANGED <<call, pending, slot, reqs, reader, cancelled, dropped, down, server>>

\* The token is cancelled, the socket fails, or no client is left.
WriterEnds ==
    /\ \/ writer = None /\ cancelled
       \/ writer \in Calls /\ ServerClosed
       \/ writer = None /\ dropped /\ reqs = <<>>
    /\ writer' = "done" /\ reqs' = <<>> /\ cancelled' = TRUE
    /\ UNCHANGED <<call, pending, slot, reader, dropped, up, down, server>>

\* A frame: a response fills the slot of the call that still waits for it.
ReaderGets ==
    /\ reader = "run" /\ down # <<>>
    /\ down' = Tail(down)
    /\ LET c == Head(down)
       IN  IF c \in pending
           THEN /\ pending' = pending \ {c}
                /\ slot' = IF slot[c] = "open" THEN [slot EXCEPT ![c] = "filled"] ELSE slot
           ELSE UNCHANGED <<pending, slot>>
    /\ UNCHANGED <<call, reqs, writer, reader, cancelled, dropped, up, server>>

\* Fault: the reader ends without cancelling the token.
ReaderEndsAlone ==
    /\ reader = "run"
    /\ reader' = "clear"
    /\ UNCHANGED <<call, pending, slot, reqs, writer, cancelled, dropped, up, down, server>>

\* Cancelled, end of file, or a frame that cannot be read (an I/O error, a
\* line above MAX_FRAME_LENGTH): the token is cancelled ...
ReaderEnds ==
    /\ reader = "run"
    /\ \/ cancelled
       \/ down = <<>> /\ ServerClosed
       \/ down # <<>>
    /\ reader' = "clear" /\ cancelled' = TRUE
    /\ UNCHANGED <<call, pending, slot, reqs, writer, dropped, up, down, server>>

\* ... and the map is cleared, which closes the oneshot of every call in it.
ReaderClears ==
    /\ reader = "clear"
    /\ slot' = [c \in Calls |-> IF c \in pending THEN "closed" ELSE slot[c]]
    /\ pending' = {}
    /\ reader' = "done"
    /\ UNCHANGED <<call, reqs, writer, cancelled, dropped, up, down, server>>

-----------------------------------------------------------------------------
(* handle_connection.                                                      *)

\* A request: its handler is spawned, the loop reads on.
ServerReads ==
    /\ conn /\ up # <<>>
    /\ up' = Tail(up)
    /\ handler' = [handler EXCEPT ![Head(up)] = "running"]
    /\ UNCHANGED <<client, down, conn, frames, swriter, listed, events, executed>>

\* End of file or an unreadable frame: the writer is aborted, with what it
\* had not sent, and the connection leaves the clients map.
ServerEnds ==
    /\ conn
    /\ \/ up = <<>> /\ ClientClosed
       \/ up # <<>>
    /\ conn' = FALSE /\ swriter' = "done" /\ frames' = <<>> /\ listed' = FALSE
    /\ up' = <<>>
    /\ UNCHANGED <<client, down, handler, events, executed>>

Handle(c) ==
    /\ handler[c] = "running"
    /\ executed' = executed \cup {c}
    /\ handler' = [handler EXCEPT ![c] = "responding"]
    /\ UNCHANGED <<client, up, down, conn, frames, swriter, listed, events>>

\* Fault: the response is sent the way events are, and dropped when full.
RespondOrDrop(c) ==
    /\ handler[c] = "responding"
    /\ frames' = IF swriter = "done" \/ Len(frames) >= FrameCap THEN frames
                 ELSE Append(frames, c)
    /\ handler' = [handler EXCEPT ![c] = "done"]
    /\ UNCHANGED <<client, up, down, conn, swriter, listed, events, executed>>

\* tx.send(resp).await: waits for room; fails at once without a receiver.
Respond(c) ==
    /\ handler[c] = "responding"
    /\ swriter = "done" \/ Len(frames) < FrameCap
    /\ frames' = IF swriter = "done" THEN frames ELSE Append(frames, c)
    /\ handler' = [handler EXCEPT ![c] = "done"]
    /\ UNCHANGED <<client, up, down, conn, swriter, listed, events, executed>>

\* The broadcast loop's try_send to this client.
Broadcast ==
    /\ events < MaxEvents /\ listed
    /\ events' = events + 1
    /\ frames' = IF swriter # "done" /\ Len(frames) < FrameCap THEN Append(frames, Event)
                 ELSE frames
    /\ listed' = (swriter # "done")
    /\ UNCHANGED <<client, up, down, conn, handler, swriter, executed>>

ServerWriterTakes ==
    /\ swriter = None /\ frames # <<>>
    /\ swriter' = Head(frames) /\ frames' = Tail(frames)
    /\ UNCHANGED <<client, up, down, conn, handler, listed, events, executed>>

\* The frame is in the socket, or the client has closed its end.
ServerWriterSends ==
    /\ swriter \notin {None, "done"}
    /\ \/ /\ Len(down) < WireCap /\ ~ClientClosed
          /\ down' = Append(down, swriter) /\ swriter' = None
          /\ UNCHANGED frames
       \/ /\ ClientClosed
          /\ swriter' = "done" /\ frames' = <<>>
          /\ UNCHANGED down
    /\ UNCHANGED <<client, up, conn, handler, listed, events, executed>>

\* The agent dies: its end of the socket and its handlers are gone.
Dies ==
    /\ conn \/ swriter # "done" \/ \E c \in Calls : handler[c] \in {"running", "responding"}
    /\ conn' = FALSE /\ swriter' = "done" /\ listed' = FALSE
    /\ frames' = <<>> /\ up' = <<>>
    /\ handler' = [c \in Calls |-> IF handler[c] = "none" THEN "none" ELSE "done"]
    /\ UNCHANGED <<client, down, events, executed>>

-----------------------------------------------------------------------------
ClientStep == WriterTakes \/ WriterSends \/ WriterEnds \/ ReaderGets \/ ReaderEnds \/ ReaderClears
ServerStep == ServerReads \/ ServerEnds \/ ServerWriterTakes \/ ServerWriterSends
CallStep(c) == SendRequest(c) \/ SendFails(c) \/ Answered(c) \/ ChannelClosed(c)
               \/ TimesOut(c) \/ TimedOut(c)

Next ==
    \/ \E c \in Calls : Register(c) \/ CallStep(c) \/ Handle(c) \/ Respond(c)
    \/ DropClient \/ ClientStep \/ ServerStep \/ Broadcast \/ Dies

Spec == Init /\ [][Next]_vars

\* Fairness: the tokio tasks of both processes are polled, every channel
\* serves its waiting senders in order, and the deadline of a call passes.
Fairness ==
    /\ \A c \in Calls : SF_vars(SendRequest(c)) /\ WF_vars(SendFails(c)) /\ WF_vars(Answered(c))
    /\ \A c \in Calls : WF_vars(ChannelClosed(c)) /\ WF_vars(TimesOut(c)) /\ WF_vars(TimedOut(c))
    /\ \A c \in Calls : WF_vars(Handle(c)) /\ SF_vars(Respond(c))
    /\ WF_vars(WriterTakes) /\ WF_vars(WriterSends) /\ WF_vars(WriterEnds)
    /\ WF_vars(ReaderGets \/ ReaderEnds) /\ WF_vars(ReaderClears)
    /\ WF_vars(ServerReads \/ ServerEnds)
    /\ WF_vars(ServerWriterTakes) /\ WF_vars(ServerWriterSends)

-----------------------------------------------------------------------------
(* Properties.                                                             *)

Frames == Calls \cup {Event}

\* Type correctness; no channel holds more than its capacity.
TypeOK ==
    /\ call \in [Calls -> {"idle", "registered", "waiting", "timing out"} \cup Returned]
    /\ pending \subseteq Calls /\ slot \in [Calls -> {"none", "open", "filled", "closed"}]
    /\ reqs \in Seq(Calls) /\ Len(reqs) <= ReqCap
    /\ writer \in Calls \cup {None, "done"} /\ reader \in {"run", "clear", "done"}
    /\ cancelled \in BOOLEAN /\ dropped \in BOOLEAN
    /\ up \in Seq(Calls) /\ Len(up) <= WireCap
    /\ down \in Seq(Frames) /\ Len(down) <= WireCap
    /\ conn \in BOOLEAN /\ handler \in [Calls -> {"none", "running", "responding", "done"}]
    /\ frames \in Seq(Frames) /\ Len(frames) <= FrameCap
    /\ swriter \in Frames \cup {None, "done"} /\ listed \in BOOLEAN
    /\ events \in 0 .. MaxEvents /\ executed \subseteq Calls

\* pending_responses holds no entry of a call that has returned, whichever
\* way it returned and whatever raced with it.
NoLeakedEntry == \A c \in pending : call[c] \in {"registered", "waiting", "timing out"}

InSeq(c, s) == \E k \in 1 .. Len(s) : s[k] = c

\* While both ends of the connection live, the response of an executed call
\* whose caller still waits is on its way: a full channel delays responses,
\* it never drops them.
ResponseOnItsWay ==
    \A c \in Calls :
        /\ c \in executed /\ call[c] = "waiting" /\ slot[c] = "open"
        /\ conn /\ swriter # "done" /\ reader = "run"
        => /\ c \in pending
           /\ handler[c] = "responding" \/ InSeq(c, frames) \/ swriter = c \/ InSeq(c, down)

\* The three of them.
CallInv == TypeOK /\ NoLeakedEntry /\ ResponseOnItsWay

\* The promise of a call, as RemoteCall states it.
Abstract == INSTANCE RemoteCall WITH
    state <- [c \in Calls |->
                CASE call[c] \in {"registered", "waiting", "timing out"} -> "open"
                  [] call[c] \in {"closed", "timeout"} -> "failed"
                  [] call[c] = "sendFailed" -> "unsent"
                  [] OTHER -> call[c]]

\* A call keeps that promise: answered means executed, "failed to send" means
\* never executed, now or later.
AbstractCall == Abstract!Spec

\* Every call returns: answered, refused by a closed channel, or timed out.
CallsReturn == \A c \in Calls : (call[c] # "idle") ~> (call[c] \in Returned)

\* When one of the client's two tasks has ended the connection goes down on
\* both sides: no half of it is left behind to keep the other end waiting.
ConnectionGoesDown ==
    (writer = "done" \/ reader # "run") ~> (ClientClosed /\ ServerClosed /\ ~listed)

\* Both.
CallsEnd == CallsReturn /\ ConnectionGoesDown
==============================================================================
