------------------------------ MODULE MCDesktop ------------------------------
(***************************************************************************)
(* The desktop's connection to the agent (Desktop, which this module       *)
(* extends) and what its window makes of the events and answers that come  *)
(* over it (ExecutionView).  The view asks nothing of the connection but   *)
(* that events may be lost, answers delayed and requests fail, which it    *)
(* models itself: a behaviour is one of either, and in the state in which  *)
(* the other rests none of its actions with fairness is enabled.  A        *)
(* command and a restart of the agent are issued in different behaviours.  *)
(***************************************************************************)
EXTENDS Desktop, Sequences

CONSTANTS Reordering, Lossy, MaxOutputs, MaxClicks

ASSUME ViewAssumption == /\ {Reordering, Lossy} \subseteq BOOLEAN
                         /\ {MaxOutputs, MaxClicks} \subseteq Nat

VARIABLES part,    \* what moves: call, restart, view
          row, ended, savedOutput, produced, events, reqs, list, finished, logs,
          drawer, clicks, reload

viewVars == <<row, ended, savedOutput, produced, events, reqs, list, finished, logs,
              drawer, clicks, reload>>
View == INSTANCE ExecutionView WITH stored <- savedOutput

\* The application has left.
Left == /\ installed = FALSE /\ allowSpawn = TRUE
        /\ agent = "down" /\ owner = "spawned" /\ spawnedByUs = FALSE
        /\ stored = 0 /\ open = {} /\ made = 0 /\ connLock = None /\ cooling = FALSE
        /\ w = [x \in Workers |-> [pc |-> "gone", cl |-> 0, tries |-> 0, attempt |-> 0]]
        /\ sent = {} /\ executed = [x \in Callers |-> 0]
        /\ exited = TRUE /\ faults = 0 /\ spawns = {}

DesktopInit == /\ View!Init
               /\ \/ part \in {"call", "restart"} /\ Init
                  \/ part = "view" /\ Left

NotIssued(commands) == \A x \in commands : w[x].pc \in {"idle", "gone"}

DesktopNext ==
    \/ part = "call" /\ Next /\ NotIssued(Restarts)' /\ UNCHANGED <<part, viewVars>>
    \/ part = "restart" /\ Next /\ NotIssued(Callers)' /\ UNCHANGED <<part, viewVars>>
    \/ part = "view" /\ View!Next /\ UNCHANGED <<part, vars>>

DesktopSpec == DesktopInit /\ [][DesktopNext]_<<part, vars, viewVars>>
               /\ Fairness /\ View!Fairness

\* The open drawer gets to the end of the run even if every event of it is
\* lost (ExecutionView).
DrawerCatchesUp == View!DrawerCatchesUp
==============================================================================
