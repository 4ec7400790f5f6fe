----------------------------- MODULE AgentProcess -----------------------------
(***************************************************************************)
(* The agent as a process: the single-instance lock (apps/agent/src/       *)
(* lock.rs), the order in which main takes and releases it, the socket     *)
(* file that IpcServer binds and unlinks (crates/ipc/src/server.rs), and   *)
(* the shutdown of AgentService::run.  Several agents may be started: by   *)
(* the desktop, by launchd or the service manager, by hand.                *)
(*                                                                         *)
(* On Windows the socket is a named pipe, which exists while a process     *)
(* holds an instance of it; elsewhere it is a file that outlives its       *)
(* process.                                                                *)
(***************************************************************************)
EXTENDS Integers, FiniteSets

CONSTANTS Procs,       \* agent processes; each is started once
          Clients,     \* desktop sessions that connect
          NamedPipe,   \* BOOLEAN: Windows
          None

ASSUME ProcAssumption == None \notin Procs
ASSUME PipeAssumption == NamedPipe \in BOOLEAN

VARIABLES pc,     \* off, started, locked, serving, draining, unlocked, gone
          lock,   \* the holder of agent.lock
          path,   \* the process that created the socket file, None if there is none
          conn,   \* the process each client is connected to
          busy    \* processes with executions or requests that write the database

vars == <<pc, lock, path, conn, busy>>

Init ==
    /\ pc = [p \in Procs |-> "off"]
    /\ lock = None /\ path = None
    /\ conn = [c \in Clients |-> None]
    /\ busy = {}

Goto(p, s) == pc' = [pc EXCEPT ![p] = s]
Conns(p) == {c \in Clients : conn[c] = p}

\* The process holds handles of the pipe or socket.
Open(p) == pc[p] = "serving" \/ Conns(p) # {}

\* Drop for IpcServerInner: the file at the path is removed, whoever made it.
RemoveFile == path' = IF NamedPipe THEN path ELSE None

Release(p) == lock' = IF lock = p THEN None ELSE lock
LoseConns(p) == conn' = [c \in Clients |-> IF conn[c] = p THEN None ELSE conn[c]]

-----------------------------------------------------------------------------
(* Start.                                                                  *)

Start(p) ==
    /\ pc[p] = "off"
    /\ Goto(p, "started")
    /\ UNCHANGED <<lock, path, conn, busy>>

\* try_lock_exclusive: acquired; or another agent is running, or the file
\* cannot be opened or locked, and this one exits.
Acquire(p) ==
    /\ pc[p] = "started"
    /\ \/ lock = None /\ lock' = p /\ Goto(p, "locked")
       \/ Goto(p, "gone") /\ UNCHANGED lock
    /\ UNCHANGED <<path, conn, busy>>

\* Fault: the socket is bound before the lock is taken.
BindUnlocked(p) ==
    /\ pc[p] \in {"started", "locked"}
    /\ path' = p
    /\ pc' = IF pc[p] = "locked" THEN [pc EXCEPT ![p] = "serving"] ELSE pc
    /\ UNCHANGED <<lock, conn, busy>>

\* A file at the path is unlinked before the bind; a pipe that exists makes
\* the bind fail (first_pipe_instance).
Bind(p) ==
    /\ pc[p] = "locked"
    /\ NamedPipe => \A q \in Procs : ~Open(q)
    /\ path' = p
    /\ Goto(p, "serving")
    /\ UNCHANGED <<lock, conn, busy>>

\* init_shared fails (the bind, the database): main returns the error.
InitFails(p) ==
    /\ pc[p] = "locked"
    /\ Release(p) /\ Goto(p, "gone")
    /\ UNCHANGED <<path, conn, busy>>

-----------------------------------------------------------------------------
(* Service.                                                                *)

\* connect() resolves the path (or the pipe's name).
Connect(c, p) ==
    /\ conn[c] = None /\ pc[p] = "serving"
    /\ NamedPipe \/ path = p
    /\ conn' = [conn EXCEPT ![c] = p]
    /\ UNCHANGED <<pc, lock, path, busy>>

\* The last connection of a server that has ended holds its IpcServerInner.
Disconnect(c) ==
    /\ conn[c] # None
    /\ IF Conns(conn[c]) = {c} /\ pc[conn[c]] # "serving" THEN RemoveFile ELSE UNCHANGED path
    /\ conn' = [conn EXCEPT ![c] = None]
    /\ UNCHANGED <<pc, lock, busy>>

\* An execution or a request begins, and ends.
Work(p) ==
    /\ pc[p] = "serving" \/ (pc[p] \in {"draining", "unlocked"} /\ Conns(p) # {})
    /\ busy' = busy \cup {p}
    /\ UNCHANGED <<pc, lock, path, conn>>

WorkEnds(p) ==
    /\ p \in busy
    /\ busy' = busy \ {p}
    /\ UNCHANGED <<pc, lock, path, conn>>

-----------------------------------------------------------------------------
(* Shutdown.                                                               *)

ServerDropped(p) == IF Conns(p) = {} THEN RemoveFile ELSE UNCHANGED path

\* Fault: the lock is released when the shutdown begins.
ShutdownReleases(p) ==
    /\ pc[p] = "serving"
    /\ Goto(p, "draining")
    /\ ServerDropped(p) /\ Release(p)
    /\ UNCHANGED <<conn, busy>>

\* agent.shutdown, the service manager's stop, or the end of the accept loop:
\* the listener is dropped, connections live on.
Shutdown(p) ==
    /\ pc[p] = "serving"
    /\ Goto(p, "draining")
    /\ ServerDropped(p)
    /\ UNCHANGED <<lock, conn, busy>>

\* run() returns, at the latest 5 seconds after its dispatcher has ended; the
\* lock is dropped when main leaves the match arm, before the runtime is.
Drained(p) ==
    /\ pc[p] = "draining"
    /\ Release(p) /\ Goto(p, "unlocked")
    /\ UNCHANGED <<path, conn, busy>>

\* Ctrl+C drops the future of run() as it stands.
Interrupted(p) ==
    /\ pc[p] \in {"serving", "draining"}
    /\ IF pc[p] = "serving" THEN ServerDropped(p) ELSE UNCHANGED path
    /\ Release(p) /\ Goto(p, "unlocked")
    /\ UNCHANGED <<conn, busy>>

\* The runtime is dropped: what is left of connections and executions ends.
Exit(p) ==
    /\ pc[p] = "unlocked"
    /\ IF Conns(p) # {} THEN RemoveFile ELSE UNCHANGED path
    /\ LoseConns(p) /\ busy' = busy \ {p} /\ Goto(p, "gone")
    /\ UNCHANGED lock

\* The process is killed: the system frees lock and pipe, the file stays.
Crash(p) ==
    /\ pc[p] \notin {"off", "gone"}
    /\ Release(p) /\ LoseConns(p) /\ busy' = busy \ {p} /\ Goto(p, "gone")
    /\ UNCHANGED path

Next ==
    \/ \E p \in Procs : \/ Start(p) \/ Acquire(p) \/ Bind(p) \/ InitFails(p)
                        \/ Work(p) \/ WorkEnds(p)
                        \/ Shutdown(p) \/ Drained(p) \/ Interrupted(p) \/ Exit(p) \/ Crash(p)
    \/ \E c \in Clients : Disconnect(c) \/ \E p \in Procs : Connect(c, p)

Spec == Init /\ [][Next]_vars

-----------------------------------------------------------------------------
(* Properties.                                                             *)

TypeOK ==
    /\ pc \in [Procs -> {"off", "started", "locked", "serving", "draining", "unlocked", "gone"}]
    /\ lock \in Procs \cup {None} /\ path \in Procs \cup {None}
    /\ conn \in [Clients -> Procs \cup {None}]
    /\ busy \subseteq Procs

\* The states of a process between taking the lock and releasing it.
Holding == {"locked", "serving", "draining"}
LockHeld == \A p \in Procs : pc[p] \in Holding => lock = p

\* Only processes that are up have connections and work.
Up == {"serving", "draining", "unlocked"}
Alive == /\ \A c \in Clients : conn[c] # None => pc[conn[c]] \in Up
         /\ \A p \in busy : pc[p] \in Up

\* Type correctness; an agent holds the lock from its acquisition to the end of
\* run(); only agents that are up have connections and work.
Consistent == TypeOK /\ LockHeld /\ Alive

\* At most one agent is between its lock and the end of its run(): two agents
\* never serve, and a second one does not start while the first one drains.
OneAgent == \A p, q \in Procs : pc[p] \in Holding /\ pc[q] \in Holding => p = q

\* Writers: agents that may write the database.
Writer(p) == pc[p] \in Holding \/ p \in busy

\* Two agents write at the same time only if one of them has released the lock
\* and has not yet left its runtime.
TwoWritersOnlyWhileLeaving ==
    \A p, q \in Procs : Writer(p) /\ Writer(q) /\ p # q => "unlocked" \in {pc[p], pc[q]}

\* The three of them.
ProcessSafe == Consistent /\ OneAgent /\ TwoWritersOnlyWhileLeaving

\* The socket file of a serving agent is unlinked only by a process that had
\* released the lock with a connection still open.
OnlyLeaversUnlink ==
    [][\A p \in Procs : pc[p] = "serving" /\ pc'[p] = "serving" /\ path = p /\ path' # p
          => \E q \in Procs : pc[q] = "unlocked" /\ Conns(q) # {}]_vars

\* On Windows the pipe has one owner: the agent that serves on it, or one that
\* is leaving with connections open; until then no other agent can bind.
PipeIsExclusive == NamedPipe => \A p, q \in Procs : Open(p) /\ Open(q) => p = q
===============================================================================
