-------------------------------- MODULE MCIpc --------------------------------
(***************************************************************************)
(* The two uses of an IPC connection: calls (IpcCall, which this module    *)
(* extends) and the broadcast of events (IpcBroadcast).  They share the    *)
(* channel to a client, which IpcCall models with events in it, and no     *)
(* other state; a behaviour is one of either, and the other one rests in   *)
(* its initial state, in which no action with fairness is enabled.         *)
(***************************************************************************)
EXTENDS IpcCall

CONSTANTS Clients, RingCap, ClientCap, MaxPublished, Stalled

ASSUME RingAssumption == {RingCap, ClientCap, MaxPublished} \subseteq Nat \ {0}
ASSUME StalledAssumption == Stalled \subseteq Clients

VARIABLES part,    \* what moves: calls, events
          published, ring, lagged, loop, current, targets, dead, status, clients,
          chan, heard, overtaken, relay, expected, lost

eventVars == <<published, ring, lagged, loop, current, targets, dead, status, clients,
               chan, heard, overtaken, relay, expected, lost>>
Events == INSTANCE IpcBroadcast WITH listed <- clients, FrameCap <- ClientCap,
                                     MaxEvents <- MaxPublished

IpcInit == part \in {"calls", "events"} /\ Init /\ Events!Init

IpcNext == \/ part = "calls" /\ Next /\ UNCHANGED <<part, eventVars>>
           \/ part = "events" /\ Events!Next /\ UNCHANGED <<part, vars>>

IpcSpec == IpcInit /\ [][IpcNext]_<<part, vars, eventVars>> /\ Fairness /\ Events!Fairness

\* What IpcBroadcast says of the events in every state: none is missed, they
\* come in order, and a live connection is listed.
EventInv == Events!EventInv

\* A client that stops reading holds up nobody: every event is taken by the
\* loop and handed to all clients, unless the loop is overtaken.
StalledClientHoldsUpNobody == Events!StalledClientHoldsUpNobody
==============================================================================
