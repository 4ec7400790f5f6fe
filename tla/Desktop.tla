-------------------------------- MODULE Desktop --------------------------------
(***************************************************************************)
(* The desktop's side of the connection: AgentManager (apps/desktop/       *)
(* src-tauri/src/agent_manager.rs) with its stored client, its connect     *)
(* lock, its spawn cooldown and the one retry of a failed call; the event  *)
(* relay (events.rs), which shares the manager; restart_agent; and what    *)
(* the application does at its start and at its exit (lib.rs).             *)
(*                                                                         *)
(* The agent is reduced to whether it runs, drains or is down, and to      *)
(* whether its process belongs to the system service; AgentProcess.tla has *)
(* the lock that makes a second process exit, IpcCall.tla the connection.  *)
(***************************************************************************)
EXTENDS Integers, FiniteSets

CONSTANTS Callers,      \* commands of the window, each issued once
          Restarts,     \* restart_agent commands
          Relay,        \* the event relay
          None,
          MaxTries,     \* connection attempts after a spawn (15 in the code)
          MaxFaults,    \* bound: agent crashes and connection failures
          MaxClients    \* bound: connections

ASSUME DesktopBounds == MaxTries \in Nat /\ MaxFaults \in Nat /\ MaxClients \in Nat
ASSUME DesktopNames == /\ Callers \cap Restarts = {}
                       /\ Relay \notin Callers \cup Restarts
                       /\ None \notin Callers \cup Restarts \cup {Relay}

Workers == Callers \cup Restarts \cup {Relay}

VARIABLES
    agent,        \* down, starting, up, draining
    owner,        \* who started that process: spawned, service
    installed,    \* the system service is installed
    allowSpawn,   \* AgentManager.allow_spawn
    spawnedByUs,  \* AgentManager.spawned_by_us
    stored,       \* AgentManager.client: a connection, or 0
    open,         \* connections that work
    made,         \* connections made so far
    connLock,     \* AgentManager.connect_lock
    cooling,      \* a spawn was attempted less than 5 s ago
    w,            \* each worker: [pc, cl, tries, attempt]
    sent,         \* requests the agent has received and not executed
    executed,     \* how often each call was executed
    exited,       \* the application has left
    faults,       \* faults so far
    spawns        \* history: owners and occasions of spawned processes

agentVars == <<agent, owner, installed>>
flags == <<allowSpawn, spawnedByUs>>
net == <<open, made>>
vars == <<agent, owner, installed, allowSpawn, spawnedByUs, stored, open, made, connLock,
          cooling, w, sent, executed, exited, faults, spawns>>

\* The application starts: allow_spawn is the negation of "installed".
Init ==
    /\ installed \in BOOLEAN
    /\ allowSpawn = ~installed
    /\ agent \in {"down", "up"} /\ owner = IF installed THEN "service" ELSE "spawned"
    /\ spawnedByUs = FALSE
    /\ stored = 0 /\ open = {} /\ made = 0
    /\ connLock = None /\ cooling = FALSE
    /\ w = [x \in Workers |-> [pc |-> IF x = Relay THEN "want" ELSE "idle",
                               cl |-> 0, tries |-> 0, attempt |-> 0]]
    /\ sent = {} /\ executed = [x \in Callers |-> 0]
    /\ exited = FALSE /\ faults = 0 /\ spawns = {}

At(x, s) == w[x].pc = s /\ ~exited
Go(x, s) == w' = [w EXCEPT ![x].pc = s]

\* A worker lets go of the client it used.
Quit(x, s) == w' = [w EXCEPT ![x].pc = s, ![x].cl = 0, ![x].tries = 0]

\* Command::spawn: the process exits again if another agent holds the lock.
SpawnProcess ==
    /\ spawns' = spawns \cup {IF installed THEN "while installed" ELSE "otherwise"}
    /\ IF agent = "down" THEN agent' = "starting" /\ owner' = "spawned"
       ELSE UNCHANGED <<agent, owner>>

-----------------------------------------------------------------------------
(* The agent and its service.                                              *)

Starts ==
    /\ agent = "starting"
    /\ agent' = "up"
    /\ UNCHANGED <<owner, installed, flags, stored, net, connLock, cooling, w, sent, executed,
                   exited, faults, spawns>>

\* The process is gone, with its connections and what it had not executed.
Gone ==
    /\ agent' = "down" /\ open' = {} /\ sent' = {}
    /\ UNCHANGED <<owner, installed, flags, stored, made, connLock, cooling, w, executed, exited,
                   spawns>>

Drained == agent = "draining" /\ Gone /\ UNCHANGED faults

Crash == agent # "down" /\ faults < MaxFaults /\ faults' = faults + 1 /\ Gone

\* A single connection fails.
ConnectionFails(n) ==
    /\ n \in open /\ faults < MaxFaults
    /\ faults' = faults + 1
    /\ open' = open \ {n}
    /\ sent' = {r \in sent : r.cl # n}
    /\ UNCHANGED <<agentVars, flags, stored, made, connLock, cooling, w, executed, exited, spawns>>

\* launchd (KeepAlive) or the service manager starts the agent.
ServiceStarts ==
    /\ installed /\ agent = "down"
    /\ agent' = "starting" /\ owner' = "service"
    /\ UNCHANGED <<installed, flags, stored, net, connLock, cooling, w, sent, executed, exited,
                   faults, spawns>>

\* service_install during the session: no part of the manager is told.
Install ==
    /\ ~installed /\ ~exited
    /\ installed' = TRUE
    /\ UNCHANGED <<agent, owner, flags, stored, net, connLock, cooling, w, sent, executed, exited,
                   faults, spawns>>

-----------------------------------------------------------------------------
(* ensure_connected.                                                       *)

\* Where a worker goes with the client it got, or without one.
Got(x, n) ==
    LET next == CASE x \in Callers -> "calling"
                  [] x = Relay -> "subscribed"
                  [] x \in Restarts /\ w[x].attempt = 0 -> "shutting down"
                  [] OTHER -> "done"
    IN  w' = [w EXCEPT ![x].cl = IF next = "done" THEN 0 ELSE n, ![x].pc = next, ![x].tries = 0]

\* restart_agent goes on when it cannot connect to the agent it will replace.
NotConnected(x) ==
    Quit(x, CASE x = Relay -> "pause"
              [] x \in Restarts /\ w[x].attempt = 0 -> "respawn"
              [] OTHER -> "failed")

\* The fast path: the stored client, whether it still works or not.
FastPath(x) ==
    /\ At(x, "want")
    /\ IF stored # 0 THEN Got(x, stored) ELSE Go(x, "locking")
    /\ UNCHANGED <<agentVars, flags, stored, net, connLock, cooling, sent, executed, exited, faults,
                   spawns>>

TakeLock(x) ==
    /\ At(x, "locking") /\ connLock = None
    /\ connLock' = x
    /\ Go(x, "check")
    /\ UNCHANGED <<agentVars, flags, stored, net, cooling, sent, executed, exited, faults, spawns>>

\* IpcClient::connect, and the client is stored.
Connects(x) ==
    /\ agent = "up" /\ made < MaxClients
    /\ made' = made + 1 /\ open' = open \cup {made + 1} /\ stored' = made + 1
    /\ Got(x, made + 1)
    /\ connLock' = None

\* Fault: no second look at the stored client under the lock.
CheckOnce(x) ==
    /\ At(x, "check")
    /\ \/ Connects(x)
       \/ agent # "up" /\ Go(x, "spawn") /\ UNCHANGED <<stored, net, connLock>>
    /\ UNCHANGED <<agentVars, flags, cooling, sent, executed, exited, faults, spawns>>

\* The double check, and the first attempt.
Check(x) ==
    /\ At(x, "check")
    /\ \/ /\ stored # 0 /\ Got(x, stored) /\ connLock' = None
          /\ UNCHANGED <<stored, net>>
       \/ stored = 0 /\ Connects(x)
       \/ stored = 0 /\ agent # "up" /\ Go(x, "spawn") /\ UNCHANGED <<stored, net, connLock>>
    /\ UNCHANGED <<agentVars, flags, cooling, sent, executed, exited, faults, spawns>>

\* The cooldown, then the permission, then the spawn, which may fail.
Spawn(x) ==
    /\ At(x, "spawn")
    /\ \/ /\ cooling
          /\ w' = [w EXCEPT ![x].pc = "retry", ![x].tries = 0]
          /\ UNCHANGED <<agent, owner, spawnedByUs, connLock, cooling, faults, spawns>>
       \/ /\ ~cooling /\ ~allowSpawn
          /\ cooling' = TRUE
          /\ NotConnected(x) /\ connLock' = None
          /\ UNCHANGED <<agent, owner, spawnedByUs, faults, spawns>>
       \/ /\ ~cooling /\ allowSpawn
          /\ cooling' = TRUE
          /\ \/ SpawnProcess /\ spawnedByUs' = TRUE /\ UNCHANGED faults
             \/ /\ faults < MaxFaults /\ faults' = faults + 1
                /\ UNCHANGED <<agent, owner, spawnedByUs, spawns>>
          /\ w' = [w EXCEPT ![x].pc = "retry", ![x].tries = 0]
          /\ UNCHANGED connLock
    /\ UNCHANGED <<installed, allowSpawn, stored, net, sent, executed, exited>>

\* Attempts 200 ms apart, under the connect lock.
Retry(x) ==
    /\ At(x, "retry")
    /\ \/ w[x].tries < MaxTries /\ Connects(x)
       \/ /\ w[x].tries < MaxTries /\ agent # "up"
          /\ w' = [w EXCEPT ![x].tries = @ + 1]
          /\ UNCHANGED <<stored, net, connLock>>
       \/ w[x].tries = MaxTries /\ NotConnected(x) /\ connLock' = None /\ UNCHANGED <<stored, net>>
    /\ UNCHANGED <<agentVars, flags, cooling, sent, executed, exited, faults, spawns>>

\* Fault: every attempt to connect renews the cooldown, and the relay makes
\* one more often than every 5 s.
CooledWhenConnected ==
    /\ cooling /\ w[Relay].pc = "subscribed"
    /\ cooling' = FALSE
    /\ UNCHANGED <<agentVars, flags, stored, net, connLock, w, sent, executed, exited, faults,
                   spawns>>

\* 5 s since the last attempt to spawn.
Cooled ==
    /\ cooling
    /\ cooling' = FALSE
    /\ UNCHANGED <<agentVars, flags, stored, net, connLock, w, sent, executed, exited, faults,
                   spawns>>

-----------------------------------------------------------------------------
(* call: one request, and one more after a connection error.               *)

Call(x) ==
    /\ At(x, "idle") /\ x \in Callers
    /\ w' = [w EXCEPT ![x].pc = "want", ![x].attempt = 1]
    /\ UNCHANGED <<agentVars, flags, stored, net, connLock, cooling, sent, executed, exited, faults,
                   spawns>>

\* The request goes out; on a dead client it is lost or refused.
SendCall(x) ==
    /\ At(x, "calling")
    /\ Go(x, "waiting")
    /\ sent' = IF w[x].cl \in open
               THEN sent \cup {[call |-> x, attempt |-> w[x].attempt, cl |-> w[x].cl]} ELSE sent
    /\ UNCHANGED <<agentVars, flags, stored, net, connLock, cooling, executed, exited, faults, spawns>>

\* The agent executes a request, also one whose caller has given it up, and
\* answers: to the caller, if it still waits for this attempt.
Execute(r) ==
    /\ r \in sent
    /\ sent' = sent \ {r}
    /\ executed' = [executed EXCEPT ![r.call] = @ + 1]
    /\ w' = IF w[r.call].pc = "waiting" /\ w[r.call].attempt = r.attempt
            THEN [w EXCEPT ![r.call].pc = "answered"] ELSE w
    /\ UNCHANGED <<agentVars, flags, stored, net, connLock, cooling, exited, faults, spawns>>

Return(x) ==
    /\ At(x, "answered")
    /\ Quit(x, "done")
    /\ UNCHANGED <<agentVars, flags, stored, net, connLock, cooling, sent, executed, exited, faults,
                   spawns>>

\* Fault: a call is retried until it succeeds.
CallErrorForEver(x) ==
    /\ At(x, "waiting") \/ At(x, "answered")
    /\ Go(x, "dropping")
    /\ UNCHANGED <<agentVars, flags, stored, net, connLock, cooling, sent, executed, exited, faults,
                   spawns>>

\* What is_connection_error takes for a connection error: no answer in 30 s, the
\* connection closed before or after the agent had executed the request, or an
\* answer that is an error whose text speaks of a connection or a time-out.
CallError(x) ==
    /\ At(x, "waiting") \/ At(x, "answered")
    /\ IF w[x].attempt = 1
       THEN w' = [w EXCEPT ![x].pc = "dropping", ![x].cl = 0, ![x].attempt = 2]
       ELSE Quit(x, "failed")
    /\ UNCHANGED <<agentVars, flags, stored, net, connLock, cooling, sent, executed, exited, faults,
                   spawns>>

\* disconnect(): whatever client is stored by now.
Drop(x) ==
    /\ At(x, "dropping")
    /\ stored' = 0
    /\ Go(x, "want")
    /\ UNCHANGED <<agentVars, flags, net, connLock, cooling, sent, executed, exited, faults, spawns>>

-----------------------------------------------------------------------------
(* The event relay.                                                        *)

\* Fault: the relay reconnects without dropping the stored client.
RelayKeepsStored ==
    /\ At(Relay, "subscribed") /\ w[Relay].cl \notin open
    /\ Quit(Relay, "pause")
    /\ UNCHANGED <<agentVars, flags, stored, net, connLock, cooling, sent, executed, exited, faults,
                   spawns>>

\* Its client's token is cancelled: it drops the stored client and pauses.
RelayLoses ==
    /\ At(Relay, "subscribed") /\ w[Relay].cl \notin open
    /\ stored' = 0
    /\ Quit(Relay, "pause")
    /\ UNCHANGED <<agentVars, flags, net, connLock, cooling, sent, executed, exited, faults, spawns>>

RelayResumes ==
    /\ At(Relay, "pause")
    /\ Go(Relay, "want")
    /\ UNCHANGED <<agentVars, flags, stored, net, connLock, cooling, sent, executed, exited, faults,
                   spawns>>

-----------------------------------------------------------------------------
(* restart_agent and the exit of the application.                          *)

\* Refused when the service is (known to be) in charge.
Restart(x) ==
    /\ At(x, "idle") /\ x \in Restarts
    /\ Go(x, IF allowSpawn THEN "want" ELSE "failed")
    /\ UNCHANGED <<agentVars, flags, stored, net, connLock, cooling, sent, executed, exited, faults,
                   spawns>>

ShutDown(n) == agent' = IF n \in open /\ agent = "up" THEN "draining" ELSE agent

RestartShutsDown(x) ==
    /\ At(x, "shutting down")
    /\ ShutDown(w[x].cl)
    /\ Quit(x, "respawn")
    /\ UNCHANGED <<owner, installed, flags, stored, net, connLock, cooling, sent, executed, exited,
                   faults, spawns>>

\* disconnect, 500 ms, spawn (without the cooldown), ensure_connected.
RestartSpawns(x) ==
    /\ At(x, "respawn")
    /\ stored' = 0
    /\ \/ /\ SpawnProcess
          /\ w' = [w EXCEPT ![x].pc = "want", ![x].attempt = 1]
          /\ UNCHANGED faults
       \/ /\ faults < MaxFaults /\ faults' = faults + 1
          /\ Go(x, "failed")
          /\ UNCHANGED <<agent, owner, spawns>>
    /\ UNCHANGED <<installed, flags, net, connLock, cooling, sent, executed, exited>>

\* The process of the application ends, with its connections.
Leave ==
    /\ exited' = TRUE
    /\ stored' = 0 /\ open' = {} /\ connLock' = None /\ cooling' = FALSE
    /\ w' = [x \in Workers |-> [pc |-> "gone", cl |-> 0, tries |-> 0, attempt |-> 0]]

ShutDownAny == agent' = IF agent = "up" THEN "draining" ELSE agent

\* ExitRequested: agent.shutdown over the stored client or a new one, if this
\* session has ever spawned an agent.
ExitRequested ==
    /\ ~exited
    /\ Leave
    /\ \/ ~spawnedByUs /\ UNCHANGED agent
       \/ spawnedByUs /\ stored # 0 /\ ShutDown(stored)
       \/ spawnedByUs /\ stored = 0 /\ ShutDownAny
    /\ UNCHANGED <<owner, installed, flags, made, sent, executed, faults, spawns>>

-----------------------------------------------------------------------------
Ensure(x) == FastPath(x) \/ TakeLock(x) \/ Check(x) \/ Spawn(x) \/ Retry(x)
CallStep(x) == SendCall(x) \/ Return(x) \/ CallError(x) \/ Drop(x)
RestartStep(x) == RestartShutsDown(x) \/ RestartSpawns(x)

Next ==
    \/ Starts \/ Drained \/ Crash \/ ServiceStarts \/ Install \/ Cooled
    \/ \E n \in open : ConnectionFails(n)
    \/ \E x \in Workers : Ensure(x)
    \/ \E x \in Callers : Call(x) \/ CallStep(x)
    \/ \E r \in sent : Execute(r)
    \/ RelayLoses \/ RelayResumes
    \/ \E x \in Restarts : Restart(x) \/ RestartStep(x)
    \/ ExitRequested

Spec == Init /\ [][Next]_vars

\* Fairness: the tasks of both processes are polled, the connect lock (a tokio
\* mutex) is fair, time passes, and a process that was spawned starts.
Fairness ==
    /\ WF_vars(Starts) /\ WF_vars(Drained) /\ WF_vars(Cooled)
    /\ \A x \in Workers : /\ WF_vars(FastPath(x)) /\ SF_vars(TakeLock(x)) /\ WF_vars(Check(x))
                          /\ WF_vars(Spawn(x)) /\ WF_vars(Retry(x))
    /\ \A x \in Callers : WF_vars(CallStep(x))
    /\ \A x \in Restarts : WF_vars(RestartStep(x))
    /\ WF_vars(RelayLoses) /\ WF_vars(RelayResumes)

FairSpec == Spec /\ Fairness

-----------------------------------------------------------------------------
(* Properties.                                                             *)

Connection == 0 .. MaxClients
Places == {"idle", "want", "locking", "check", "spawn", "retry", "calling", "waiting", "answered",
           "dropping", "subscribed", "pause", "shutting down", "respawn", "done", "failed", "gone"}

\* Type correctness, and the connect lock is held by the one worker that is
\* connecting.
LockedWhileConnecting ==
    /\ agent \in {"down", "starting", "up", "draining"} /\ owner \in {"spawned", "service"}
    /\ {installed, allowSpawn, spawnedByUs, cooling, exited} \subseteq BOOLEAN
    /\ stored \in Connection /\ made \in Connection /\ open \subseteq 1 .. made
    /\ w \in [Workers -> [pc : Places, cl : Connection, tries : 0 .. MaxTries, attempt : 0 .. 2]]
    /\ \A x \in Workers : w[x].pc \in {"check", "spawn", "retry"} <=> connLock = x

\* A stored client is never replaced by another one: two workers that find the
\* desktop disconnected share one new connection.
StoredIsShared == [][stored # 0 /\ stored' # 0 => stored' = stored]_vars

\* A call is executed at most twice, and once only if it was answered at its
\* first attempt, whatever connections failed and however late the agent was.
AtMostTwice ==
    \A x \in Callers :
        /\ executed[x] <= 2
        /\ w[x].attempt = 1 => executed[x] <= 1
        /\ w[x].pc = "done" => executed[x] >= 1

\* A desktop that found the service installed when it started never spawns an
\* agent and never shuts the service's agent down.
ServiceIsLeftAlone == ~allowSpawn => spawns = {} /\ ~spawnedByUs /\ agent # "draining"

\* The three of them.
DesktopInv == LockedWhileConnecting /\ AtMostTwice /\ ServiceIsLeftAlone

\* Once the agent stays up and connections hold, the relay listens on a live
\* connection, for good.
RelayListens ==
    <>[](agent = "up") => <>[](exited \/ (w[Relay].pc = "subscribed" /\ w[Relay].cl \in open))

\* Where the desktop may spawn, an agent that has died or was shut down comes
\* back while the application runs, without anything the user does.
AgentComesBack == allowSpawn /\ agent = "down" ~> agent = "up" \/ exited
================================================================================
