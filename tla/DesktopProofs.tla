---------------------------- MODULE DesktopProofs ----------------------------
(***************************************************************************)
(* The desktop's connection for any number of commands, restarts, faults   *)
(* and attempts: one worker connects at a time, a stored client is never   *)
(* replaced by another one, a command is executed at most twice, and a     *)
(* service that was there when the desktop started is left alone.          *)
(***************************************************************************)
EXTENDS MCDesktop, TLAPS

Worker == [pc : Places, cl : Connection, tries : 0 .. MaxTries, attempt : 0 .. 2]
Connecting == {"check", "spawn", "retry"}

-----------------------------------------------------------------------------
(* The inductive invariant.                                                *)

\* The types of LockedWhileConnecting, and of what the agent has received.
Typed ==
    /\ agent \in {"down", "starting", "up", "draining"} /\ owner \in {"spawned", "service"}
    /\ installed \in BOOLEAN /\ allowSpawn \in BOOLEAN /\ spawnedByUs \in BOOLEAN
    /\ cooling \in BOOLEAN /\ exited \in BOOLEAN
    /\ stored \in Connection /\ made \in Connection /\ open \subseteq 1 .. made
    /\ w \in [Workers -> Worker]
    /\ sent \subseteq [call : Callers, attempt : 1 .. 2, cl : Connection]
    /\ executed \in [Callers -> Nat]

\* The connect lock is held by the worker that is connecting.
Locked == \A x \in Workers : w[x].pc \in Connecting <=> connLock = x

\* Under the lock, whoever has seen that no client is stored may rely on it:
\* clients are only stored by the holder.
NoneStored == \A x \in Workers : w[x].pc \in {"spawn", "retry"} => stored = 0

\* A command has been issued once or twice.
Issued ==
    \A x \in Callers :
        /\ w[x].pc \in {"idle", "gone"} => w[x].attempt = 0
        /\ w[x].pc \notin {"idle", "gone"} => w[x].attempt \in 1 .. 2

\* The requests a command may have sent so far.
SendsOf(v) ==
    CASE v.pc = "idle" -> 0
      [] v.pc = "gone" -> 2
      [] v.pc \in {"waiting", "answered", "done", "failed"} -> v.attempt
      [] OTHER -> v.attempt - 1
Sends(x) == SendsOf(w[x])

\* Whether attempt k of a command is with the agent and not executed.
OnItsWay(x, k) == \E r \in sent : r.call = x /\ r.attempt = k
Pending(x, k) == IF OnItsWay(x, k) THEN 1 ELSE 0

\* Every execution has used up a request: what was executed and what is on its
\* way are together no more than what was sent, one of each attempt.
Budget ==
    /\ \A x \in Callers : executed[x] + Pending(x, 1) + Pending(x, 2) <= Sends(x)
    /\ \A r \in sent : r.attempt <= Sends(r.call)
    /\ \A r, s \in sent : r.call = s.call /\ r.attempt = s.attempt => r = s

\* An answer is that of an execution.
AnswersAreExecuted == \A x \in Callers : w[x].pc \in {"answered", "done"} => executed[x] >= 1

\* Where the service was in charge, restart_agent is refused.
RestartsRefused ==
    ~allowSpawn => \A x \in Restarts : w[x].pc \in {"idle", "failed", "gone"}

DesktopIndInv ==
    /\ Typed /\ Locked /\ NoneStored
    /\ Issued /\ Budget /\ AnswersAreExecuted
    /\ RestartsRefused /\ ServiceIsLeftAlone

-----------------------------------------------------------------------------
(* What a step does to the workers.                                        *)

\* A step is one of the actions.
LEMMA StepCases ==
    ASSUME [Next]_vars
    PROVE  \/ Starts \/ Drained \/ Crash \/ ServiceStarts \/ Install \/ Cooled
           \/ \E n \in open : ConnectionFails(n)
           \/ \E x \in Workers : \/ FastPath(x) \/ TakeLock(x) \/ Check(x) \/ Spawn(x) \/ Retry(x)
           \/ \E x \in Callers : Call(x) \/ SendCall(x) \/ Return(x) \/ CallError(x) \/ Drop(x)
           \/ \E r \in sent : Execute(r)
           \/ RelayLoses \/ RelayResumes
           \/ \E x \in Restarts : Restart(x) \/ RestartShutsDown(x) \/ RestartSpawns(x)
           \/ ExitRequested
           \/ UNCHANGED vars
  BY DEF Next, Ensure, CallStep, RestartStep

\* Worker x goes on to s; the others stay where they are.
Moves(x, s) ==
    /\ w' \in [Workers -> Worker]
    /\ w'[x].pc = s /\ w'[x].attempt = w[x].attempt
    /\ \A y \in Workers \ {x} : w'[y] = w[y]

\* A worker is a command, a restart or the relay, and one of them only.
LEMMA WorkerKinds ==
    /\ Callers \subseteq Workers /\ Restarts \subseteq Workers /\ Relay \in Workers
    /\ None \notin Workers
    /\ \A x \in Workers : \/ x \in Callers /\ x \notin Restarts /\ x # Relay
                          \/ x \in Restarts /\ x \notin Callers /\ x # Relay
                          \/ x = Relay /\ x \notin Callers /\ x \notin Restarts
  BY DesktopNames DEF Workers

\* The bounds, as the record of a worker needs them.
LEMMA Constants ==
    /\ 0 \in Connection /\ 0 \in 0 .. MaxTries /\ {0, 1, 2} \subseteq 0 .. 2
    /\ MaxTries \in Nat /\ MaxClients \in Nat
  BY DesktopBounds DEF Connection

\* Go and Quit move one worker and keep its attempt.
LEMMA GoMoves ==
    ASSUME Typed, NEW x \in Workers, NEW s \in Places, Go(x, s)
    PROVE  Moves(x, s)
  BY DEF Typed, Go, Moves, Worker

LEMMA QuitMoves ==
    ASSUME Typed, NEW x \in Workers, NEW s \in Places, Quit(x, s)
    PROVE  Moves(x, s)
  BY Constants DEF Typed, Quit, Moves, Worker

\* A worker that got a client uses it.
LEMMA GotMoves ==
    ASSUME Typed, NEW x \in Workers, NEW n \in Connection, Got(x, n)
    PROVE  \/ x \in Callers /\ Moves(x, "calling")
           \/ x = Relay /\ Moves(x, "subscribed")
           \/ x \in Restarts /\ (Moves(x, "shutting down") \/ Moves(x, "done"))
  <1> DEFINE next == CASE x \in Callers -> "calling"
                       [] x = Relay -> "subscribed"
                       [] x \in Restarts /\ w[x].attempt = 0 -> "shutting down"
                       [] OTHER -> "done"
  <1>1. /\ w' = [w EXCEPT ![x].cl = IF next = "done" THEN 0 ELSE n, ![x].pc = next, ![x].tries = 0]
    BY DEF Got
  <1>2. \/ x \in Callers /\ next = "calling"
        \/ x = Relay /\ next = "subscribed"
        \/ x \in Restarts /\ next \in {"shutting down", "done"}
    BY WorkerKinds
  <1>3. next \in Places
    BY <1>2 DEF Places
  <1> HIDE DEF next
  <1>4. Moves(x, next)
    BY <1>1, <1>3, Constants DEF Typed, Moves, Worker
  <1> QED
    BY <1>2, <1>4

\* A worker that got none gives up, pauses, or spawns the agent it restarts.
LEMMA NotConnectedMoves ==
    ASSUME Typed, NEW x \in Workers, NotConnected(x)
    PROVE  \/ x \in Callers /\ Moves(x, "failed")
           \/ x = Relay /\ Moves(x, "pause")
           \/ x \in Restarts /\ (Moves(x, "respawn") \/ Moves(x, "failed"))
  <1> DEFINE next == CASE x = Relay -> "pause"
                       [] x \in Restarts /\ w[x].attempt = 0 -> "respawn"
                       [] OTHER -> "failed"
  <1>1. Quit(x, next)
    BY DEF NotConnected
  <1>2. \/ x \in Callers /\ next = "failed"
        \/ x = Relay /\ next = "pause"
        \/ x \in Restarts /\ next \in {"respawn", "failed"}
    BY WorkerKinds
  <1>3. next \in Places
    BY <1>2 DEF Places
  <1> HIDE DEF next
  <1> QED
    BY <1>1, <1>2, <1>3, QuitMoves

\* A new connection is stored, and its number is new.
LEMMA Connected ==
    ASSUME Typed, NEW x \in Workers, Connects(x)
    PROVE  /\ made + 1 \in Connection /\ made' \in Connection /\ stored' \in Connection
           /\ stored' # 0 /\ open' \subseteq 1 .. made' /\ connLock' = None
           /\ Got(x, made + 1)
  BY Constants DEF Typed, Connects, Connection

-----------------------------------------------------------------------------
(* ensure_connected.                                                       *)

\* The stages of ensure_connected, and where it leaves a worker.
Ensuring == {"want", "locking", "check", "spawn", "retry"}
Ensured(x) == IF x \in Callers THEN {"calling", "failed"}
              ELSE IF x = Relay THEN {"subscribed", "pause"}
              ELSE {"shutting down", "done", "respawn", "failed"}

\* What all of it has in common, for the types and for those who do not connect.
EnsureMoves(x) ==
    /\ w[x].pc \in Ensuring /\ \E s \in Ensuring \cup Ensured(x) : Moves(x, s)
    /\ UNCHANGED <<installed, allowSpawn, sent, executed, exited>>
    /\ agent' \in {agent, "starting"}
    /\ owner' \in {"spawned", "service"} /\ cooling' \in BOOLEAN
    /\ stored' \in Connection /\ made' \in Connection /\ open' \subseteq 1 .. made'
    /\ \/ UNCHANGED <<spawns, spawnedByUs>>
       \/ allowSpawn /\ spawnedByUs' = TRUE
    /\ stored # 0 => stored' = stored

\* ensure_connected ends outside the lock.
LEMMA EnsuredPlaces ==
    ASSUME NEW x \in Workers
    PROVE  Ensuring \subseteq Places /\ Ensured(x) \subseteq Places /\ Ensured(x) \cap Connecting = {}
           /\ "want" \notin Ensured(x) /\ "locking" \notin Ensured(x)
  BY DEF Ensuring, Ensured, Places, Connecting

\* Both ends of ensure_connected, with a client and without.
LEMMA GotEnsured ==
    ASSUME Typed, NEW x \in Workers, NEW n \in Connection, Got(x, n)
    PROVE  \E s \in Ensured(x) : Moves(x, s)
  BY GotMoves, WorkerKinds DEF Ensured

LEMMA NotConnectedEnsured ==
    ASSUME Typed, NEW x \in Workers, NotConnected(x)
    PROVE  \E s \in Ensured(x) : Moves(x, s)
  BY NotConnectedMoves, WorkerKinds DEF Ensured

\* The fast path does not need the lock.
LEMMA FastPathStep ==
    ASSUME Typed, NEW x \in Workers, FastPath(x)
    PROVE  /\ EnsureMoves(x) /\ UNCHANGED <<connLock, stored>>
           /\ w[x].pc = "want" /\ w'[x].pc \notin Connecting
  <1>1. w[x].pc = "want"
    BY DEF FastPath, At
  <1>2. UNCHANGED <<agentVars, flags, stored, net, connLock, cooling, sent, executed, exited, faults,
                    spawns>>
    BY DEF FastPath
  <1>3. \/ Moves(x, "locking")
        \/ \E s \in Ensured(x) : Moves(x, s)
    <2>1. CASE stored # 0
      BY <2>1, GotEnsured DEF FastPath, Typed
    <2>2. CASE stored = 0
      <3>1. Go(x, "locking")
        BY <2>2 DEF FastPath
      <3> QED
        BY <3>1, GoMoves DEF Places
    <2> QED
      BY <2>1, <2>2
  <1>4. \E s \in Ensuring \cup Ensured(x) : Moves(x, s) /\ s \notin Connecting
    <2>1. CASE Moves(x, "locking")
      BY <2>1 DEF Ensuring, Connecting
    <2>2. CASE \E s \in Ensured(x) : Moves(x, s)
      BY <2>2, EnsuredPlaces
    <2> QED
      BY <1>3, <2>1, <2>2
  <1> QED
    BY <1>1, <1>2, <1>4 DEF EnsureMoves, Ensuring, Moves, Typed, agentVars, flags, net

\* The lock is free when it is taken.
LEMMA TakeLockStep ==
    ASSUME Typed, NEW x \in Workers, TakeLock(x)
    PROVE  /\ EnsureMoves(x) /\ UNCHANGED stored
           /\ connLock = None /\ connLock' = x /\ w'[x].pc = "check"
  <1>1. w[x].pc = "locking" /\ connLock = None /\ connLock' = x
    BY DEF TakeLock, At
  <1>2. UNCHANGED <<agentVars, flags, stored, net, cooling, sent, executed, exited, faults, spawns>>
    BY DEF TakeLock
  <1>3. Moves(x, "check")
    BY GoMoves DEF TakeLock, Places
  <1> QED
    BY <1>1, <1>2, <1>3 DEF EnsureMoves, Ensuring, Moves, Typed, agentVars, flags, net

\* Under the lock: the worker goes on there, without a client, or gives it back.
Holds(x) == w[x].pc \in Connecting
KeepsLock(x) == w'[x].pc \in {"spawn", "retry"} /\ UNCHANGED <<connLock, stored>> /\ stored = 0
GivesLock(x) == w'[x].pc \notin Connecting /\ connLock' = None

\* Under the lock: the second look at the stored client.
LEMMA CheckStep ==
    ASSUME Typed, NEW x \in Workers, Check(x)
    PROVE  EnsureMoves(x) /\ Holds(x) /\ (KeepsLock(x) \/ GivesLock(x))
  <1>1. w[x].pc = "check"
    BY DEF Check, At
  <1>2. UNCHANGED <<agentVars, flags, cooling, sent, executed, exited, faults, spawns>>
    BY DEF Check
  <1>3. CASE stored # 0 /\ Got(x, stored) /\ connLock' = None /\ UNCHANGED <<stored, net>>
    <2>1. PICK s \in Ensured(x) : Moves(x, s)
      BY <1>3, GotEnsured DEF Typed
    <2> QED
      BY <1>1, <1>2, <1>3, <2>1, EnsuredPlaces
      DEF EnsureMoves, Ensuring, Moves, Typed, agentVars, flags, net, Holds, GivesLock, Connecting
  <1>4. CASE stored = 0 /\ Connects(x)
    <2>1. PICK s \in Ensured(x) : Moves(x, s)
      BY <1>4, GotEnsured, Connected
    <2> QED
      BY <1>1, <1>2, <1>4, <2>1, EnsuredPlaces, Connected
      DEF EnsureMoves, Ensuring, Moves, Typed, agentVars, flags, Holds, GivesLock, Connecting
  <1>5. CASE stored = 0 /\ Go(x, "spawn") /\ UNCHANGED <<stored, net, connLock>>
    <2>1. Moves(x, "spawn")
      BY <1>5, GoMoves DEF Places
    <2> QED
      BY <1>1, <1>2, <1>5, <2>1
      DEF EnsureMoves, Ensuring, Moves, Typed, agentVars, flags, net, Holds, KeepsLock, Connecting
  <1> QED
    BY <1>3, <1>4, <1>5 DEF Check

\* Under the lock: a process is spawned only where that is allowed.
LEMMA SpawnStep ==
    ASSUME Typed, NEW x \in Workers, NoneStored, Spawn(x)
    PROVE  EnsureMoves(x) /\ Holds(x) /\ (KeepsLock(x) \/ GivesLock(x))
  <1>1. w[x].pc = "spawn" /\ stored = 0
    BY DEF Spawn, At, NoneStored
  <1>2. UNCHANGED <<installed, allowSpawn, stored, net, sent, executed, exited>>
    BY DEF Spawn
  <1>3. CASE w' = [w EXCEPT ![x].pc = "retry", ![x].tries = 0]
    <2>1. Moves(x, "retry")
      BY <1>3, Constants DEF Typed, Moves, Worker, Places
    <2>2. /\ UNCHANGED connLock /\ cooling' \in BOOLEAN
          /\ \/ UNCHANGED <<agent, owner, spawnedByUs, spawns>>
             \/ allowSpawn /\ SpawnProcess /\ spawnedByUs' = TRUE
      <3>1. w'[x].pc # "failed" /\ w'[x].pc # "pause" /\ w'[x].pc # "respawn"
        BY <2>1 DEF Moves
      <3>2. ~NotConnected(x)
        BY <3>1, NotConnectedMoves DEF Moves
      <3> QED
        BY <3>2 DEF Spawn, Typed
    <2>3. agent' \in {agent, "starting"} /\ owner' \in {"spawned", "service"}
      BY <2>2 DEF SpawnProcess, Typed
    <2>4. UNCHANGED <<spawns, spawnedByUs>> \/ (allowSpawn /\ spawnedByUs' = TRUE)
      BY <2>2
    <2> QED
      BY <1>1, <1>2, <2>1, <2>2, <2>3, <2>4
      DEF EnsureMoves, Ensuring, Moves, Typed, net, Holds, KeepsLock, Connecting
  <1>4. CASE NotConnected(x) /\ connLock' = None /\ cooling' = TRUE
             /\ UNCHANGED <<agent, owner, spawnedByUs, faults, spawns>>
    <2>1. PICK s \in Ensured(x) : Moves(x, s)
      BY <1>4, NotConnectedEnsured
    <2> QED
      BY <1>1, <1>2, <1>4, <2>1, EnsuredPlaces
      DEF EnsureMoves, Ensuring, Moves, Typed, net, Holds, GivesLock, Connecting
  <1> QED
    BY <1>3, <1>4 DEF Spawn

\* Under the lock: one of the attempts that follow.
LEMMA RetryStep ==
    ASSUME Typed, NEW x \in Workers, NoneStored, Retry(x)
    PROVE  EnsureMoves(x) /\ Holds(x) /\ (KeepsLock(x) \/ GivesLock(x))
  <1>1. w[x].pc = "retry" /\ stored = 0
    BY DEF Retry, At, NoneStored
  <1>2. UNCHANGED <<agentVars, flags, cooling, sent, executed, exited, faults, spawns>>
    BY DEF Retry
  <1>3. CASE Connects(x)
    <2>1. PICK s \in Ensured(x) : Moves(x, s)
      BY <1>3, GotEnsured, Connected
    <2> QED
      BY <1>1, <1>2, <1>3, <2>1, EnsuredPlaces, Connected
      DEF EnsureMoves, Ensuring, Moves, Typed, agentVars, flags, Holds, GivesLock, Connecting
  <1>4. CASE /\ w[x].tries < MaxTries /\ w' = [w EXCEPT ![x].tries = @ + 1]
             /\ UNCHANGED <<stored, net, connLock>>
    <2>1. w[x] \in Worker /\ w[x].tries + 1 \in 0 .. MaxTries
      BY <1>4, Constants DEF Typed, Worker
    <2>2. Moves(x, "retry")
      BY <1>1, <1>4, <2>1 DEF Typed, Moves, Worker
    <2> QED
      BY <1>1, <1>2, <1>4, <2>2
      DEF EnsureMoves, Ensuring, Moves, Typed, agentVars, flags, net, Holds, KeepsLock, Connecting
  <1>5. CASE NotConnected(x) /\ connLock' = None /\ UNCHANGED <<stored, net>>
    <2>1. PICK s \in Ensured(x) : Moves(x, s)
      BY <1>5, NotConnectedEnsured
    <2> QED
      BY <1>1, <1>2, <1>5, <2>1, EnsuredPlaces
      DEF EnsureMoves, Ensuring, Moves, Typed, agentVars, flags, net, Holds, GivesLock, Connecting
  <1> QED
    BY <1>3, <1>4, <1>5 DEF Retry

\* The connect lock: taken when it is free, kept while nobody else stores a
\* client, and given back.
LEMMA EnsureStep ==
    ASSUME Typed, Locked, NoneStored, NEW x \in Workers,
           FastPath(x) \/ TakeLock(x) \/ Check(x) \/ Spawn(x) \/ Retry(x)
    PROVE  EnsureMoves(x) /\ Locked' /\ NoneStored'
  <1>1. EnsureMoves(x) /\ \A y \in Workers \ {x} : w'[y] = w[y]
    BY FastPathStep, TakeLockStep, CheckStep, SpawnStep, RetryStep DEF EnsureMoves, Moves
  <1>2. CASE FastPath(x)
    BY <1>1, <1>2, FastPathStep, WorkerKinds DEF Locked, NoneStored, Connecting
  <1>3. CASE TakeLock(x)
    BY <1>1, <1>3, TakeLockStep, WorkerKinds DEF Locked, NoneStored, Connecting
  <1>4. CASE Check(x) \/ Spawn(x) \/ Retry(x)
    <2>1. Holds(x) /\ (KeepsLock(x) \/ GivesLock(x))
      BY <1>4, CheckStep, SpawnStep, RetryStep
    <2>2. connLock = x /\ \A y \in Workers \ {x} : w[y].pc \notin Connecting
      BY <2>1 DEF Holds, Locked
    <2>3. CASE KeepsLock(x)
      BY <1>1, <2>2, <2>3 DEF KeepsLock, Locked, NoneStored, Connecting
    <2>4. CASE GivesLock(x)
      BY <1>1, <2>2, <2>4, WorkerKinds DEF GivesLock, Locked, NoneStored, Connecting
    <2> QED
      BY <2>1, <2>3, <2>4
  <1> QED
    BY <1>1, <1>2, <1>3, <1>4

-----------------------------------------------------------------------------
(* The steps of a worker outside ensure_connected.                         *)

\* Such a step concerns x alone, leaves the lock alone and stores no client.
OutsideLock(x) ==
    /\ w' \in [Workers -> Worker] /\ \A y \in Workers \ {x} : w'[y] = w[y]
    /\ w[x].pc \notin Connecting /\ w'[x].pc \notin Connecting
    /\ connLock' = connLock /\ stored' \in {stored, 0}

CallerActs(x) == Call(x) \/ SendCall(x) \/ Return(x) \/ CallError(x) \/ Drop(x)
RestartActs(x) == Restart(x) \/ RestartShutsDown(x) \/ RestartSpawns(x)

\* A command sends, waits, returns and drops without the lock.
LEMMA CallerOutside ==
    ASSUME Typed, Issued, NEW x \in Callers, CallerActs(x)
    PROVE  OutsideLock(x)
  <1>1. x \in Workers
    BY WorkerKinds
  <1>2. CASE Call(x)
    BY <1>1, <1>2, Constants DEF Call, At, Typed, OutsideLock, Worker, Places, Connecting
  <1>3. CASE SendCall(x)
    <2>1. Moves(x, "waiting")
      BY <1>1, <1>3, GoMoves DEF SendCall, Places
    <2> QED
      BY <1>3, <2>1 DEF SendCall, At, Moves, OutsideLock, Connecting
  <1>4. CASE Return(x)
    <2>1. Moves(x, "done")
      BY <1>1, <1>4, QuitMoves DEF Return, Places
    <2> QED
      BY <1>4, <2>1 DEF Return, At, Moves, OutsideLock, Connecting
  <1>5. CASE CallError(x)
    <2>1. CASE w' = [w EXCEPT ![x].pc = "dropping", ![x].cl = 0, ![x].attempt = 2]
      <3>1. w[x].pc \in {"waiting", "answered"} /\ UNCHANGED <<connLock, stored>>
        BY <1>5 DEF CallError, At
      <3>2. w' \in [Workers -> Worker] /\ w'[x].pc = "dropping"
            /\ \A y \in Workers \ {x} : w'[y] = w[y]
        BY <1>1, <2>1, Constants DEF Typed, Worker, Places
      <3> QED
        BY <3>1, <3>2 DEF OutsideLock, Connecting
    <2>2. CASE Quit(x, "failed")
      <3>1. Moves(x, "failed")
        BY <1>1, <2>2, QuitMoves DEF Places
      <3> QED
        BY <1>5, <3>1 DEF CallError, At, Moves, OutsideLock, Connecting
    <2> QED
      BY <1>5, <2>1, <2>2 DEF CallError
  <1>6. CASE Drop(x)
    <2>1. Moves(x, "want")
      BY <1>1, <1>6, GoMoves DEF Drop, Places
    <2> QED
      BY <1>6, <2>1 DEF Drop, At, Moves, OutsideLock, Connecting
  <1> QED
    BY <1>2, <1>3, <1>4, <1>5, <1>6 DEF CallerActs

\* So does the relay.
LEMMA RelayOutside ==
    ASSUME Typed, RelayLoses \/ RelayResumes
    PROVE  OutsideLock(Relay)
  <1>1. CASE RelayLoses
    <2>1. Moves(Relay, "pause")
      BY <1>1, QuitMoves, WorkerKinds DEF RelayLoses, Places
    <2> QED
      BY <1>1, <2>1 DEF RelayLoses, At, Moves, OutsideLock, Connecting
  <1>2. CASE RelayResumes
    <2>1. Moves(Relay, "want")
      BY <1>2, GoMoves, WorkerKinds DEF RelayResumes, Places
    <2> QED
      BY <1>2, <2>1 DEF RelayResumes, At, Moves, OutsideLock, Connecting
  <1> QED
    BY <1>1, <1>2

\* Where restarts are refused, a restart does nothing but fail.
LEMMA RestartOutside ==
    ASSUME Typed, NEW x \in Restarts, RestartActs(x)
    PROVE  /\ OutsideLock(x)
           /\ allowSpawn \/ w[x].pc \notin {"idle", "failed", "gone"} \/ w'[x].pc = "failed"
  <1>1. x \in Workers
    BY WorkerKinds
  <1>2. CASE Restart(x)
    <2>1. Moves(x, IF allowSpawn THEN "want" ELSE "failed")
      BY <1>1, <1>2, GoMoves DEF Restart, Places
    <2> QED
      BY <1>2, <2>1 DEF Restart, At, Moves, OutsideLock, Connecting
  <1>3. CASE RestartShutsDown(x)
    <2>1. Moves(x, "respawn")
      BY <1>1, <1>3, QuitMoves DEF RestartShutsDown, Places
    <2> QED
      BY <1>3, <2>1 DEF RestartShutsDown, At, Moves, OutsideLock, Connecting
  <1>4. CASE RestartSpawns(x)
    <2>1. CASE w' = [w EXCEPT ![x].pc = "want", ![x].attempt = 1]
      BY <1>1, <1>4, <2>1, Constants
      DEF RestartSpawns, At, Typed, OutsideLock, Worker, Places, Connecting
    <2>2. CASE Go(x, "failed")
      <3>1. Moves(x, "failed")
        BY <1>1, <2>2, GoMoves DEF Places
      <3> QED
        BY <1>4, <3>1 DEF RestartSpawns, At, Moves, OutsideLock, Connecting
    <2> QED
      BY <1>4, <2>1, <2>2 DEF RestartSpawns
  <1> QED
    BY <1>2, <1>3, <1>4 DEF RestartActs

\* The agent executes a request: at most its caller hears of it.
LEMMA ExecuteMoves ==
    ASSUME Typed, NEW r \in sent, Execute(r)
    PROVE  /\ r.call \in Callers /\ r.attempt \in 1 .. 2
           /\ UNCHANGED <<connLock, stored>>
           /\ \/ w' = w
              \/ w[r.call].pc = "waiting" /\ Moves(r.call, "answered")
  <1>1. r.call \in Callers /\ r.call \in Workers /\ r.attempt \in 1 .. 2
    BY WorkerKinds DEF Typed
  <1>2. ASSUME w' = [w EXCEPT ![r.call].pc = "answered"]
        PROVE  Moves(r.call, "answered")
    BY <1>1, <1>2 DEF Typed, Moves, Worker, Places
  <1>3. UNCHANGED <<connLock, stored>>
    BY DEF Execute
  <1>4. \/ w' = w
        \/ w[r.call].pc = "waiting" /\ w' = [w EXCEPT ![r.call].pc = "answered"]
    BY DEF Execute
  <1> QED
    BY <1>1, <1>2, <1>3, <1>4

-----------------------------------------------------------------------------
(* Types, and the lock.                                                    *)

\* The requests and the executions are written by these alone.
LEMMA RequestsTyped ==
    ASSUME Typed, Issued, [Next]_vars
    PROVE  /\ sent' \subseteq [call : Callers, attempt : 1 .. 2, cl : Connection]
           /\ executed' \in [Callers -> Nat]
  <1>1. CASE \E x \in Callers : SendCall(x)
    <2>1. PICK x \in Callers : SendCall(x)
      BY <1>1
    <2>2. w[x] \in Worker /\ w[x].pc = "calling" /\ w[x].attempt \in 1 .. 2
      BY <2>1, WorkerKinds DEF SendCall, At, Typed, Issued
    <2>3. [call |-> x, attempt |-> w[x].attempt, cl |-> w[x].cl]
          \in [call : Callers, attempt : 1 .. 2, cl : Connection]
      BY <2>2 DEF Worker
    <2> QED
      BY <2>1, <2>3 DEF SendCall, Typed
  <1>2. CASE \E r \in sent : Execute(r)
    BY <1>2 DEF Execute, Typed
  <1>3. CASE sent' \subseteq sent /\ executed' = executed
    BY <1>3 DEF Typed
  <1>4. \/ \E x \in Callers : SendCall(x)
        \/ \E r \in sent : Execute(r)
        \/ sent' \subseteq sent /\ executed' = executed
    BY StepCases DEF Starts, Drained, Crash, Gone, ServiceStarts, Install, Cooled, ConnectionFails,
       FastPath, TakeLock, Check, Spawn, Retry, Call, Return, CallError, Drop, RelayLoses,
       RelayResumes, Restart, RestartShutsDown, RestartSpawns, ExitRequested, vars
  <1> QED
    BY <1>1, <1>2, <1>3, <1>4

\* The steps of the agent, of its service, of the clock and of the network
\* leave the workers, the lock and the stored client alone.
AroundIt ==
    \/ Starts \/ Drained \/ Crash \/ ServiceStarts \/ Install \/ Cooled
    \/ \E n \in open : ConnectionFails(n)
    \/ UNCHANGED vars

\* They may take connections and requests away, nothing else.
LEMMA AroundStep ==
    ASSUME Typed, AroundIt
    PROVE  /\ UNCHANGED <<w, connLock, stored, made, allowSpawn, spawnedByUs, exited, executed, spawns>>
           /\ agent' \in {agent, "down", "starting", "up"} /\ owner' \in {"spawned", "service"}
           /\ installed' \in BOOLEAN /\ cooling' \in BOOLEAN
           /\ open' \subseteq open /\ sent' \subseteq sent
  BY DEF AroundIt, Starts, Drained, Crash, Gone, ServiceStarts, Install, Cooled, ConnectionFails,
     vars, agentVars, flags, net, Typed

\* A step, by who takes it.
LEMMA StepKinds ==
    ASSUME [Next]_vars
    PROVE  \/ AroundIt
           \/ \E x \in Workers : \/ FastPath(x) \/ TakeLock(x) \/ Check(x) \/ Spawn(x) \/ Retry(x)
           \/ \E x \in Callers : CallerActs(x)
           \/ \E r \in sent : Execute(r)
           \/ RelayLoses \/ RelayResumes
           \/ \E x \in Restarts : RestartActs(x)
           \/ ExitRequested
  BY StepCases DEF AroundIt, CallerActs, RestartActs

\* The application leaves with all its workers and connections.
LEMMA LeaveMoves ==
    ASSUME ExitRequested
    PROVE  /\ w' \in [Workers -> Worker] /\ \A x \in Workers : w'[x].pc = "gone" /\ w'[x].attempt = 0
           /\ stored' = 0 /\ open' = {} /\ connLock' = None /\ cooling' = FALSE /\ exited' = TRUE
           /\ UNCHANGED <<owner, installed, allowSpawn, spawnedByUs, made, sent, executed, spawns>>
  BY Constants DEF ExitRequested, Leave, Worker, Places, flags

\* Types, step by step.
LEMMA TypedStep ==
    ASSUME DesktopIndInv, [Next]_vars
    PROVE  Typed'
  <1> USE DEF DesktopIndInv
  <1>1. /\ sent' \subseteq [call : Callers, attempt : 1 .. 2, cl : Connection]
        /\ executed' \in [Callers -> Nat]
    BY RequestsTyped
  <1>2. CASE AroundIt
    BY <1>1, <1>2, AroundStep DEF Typed
  <1>3. CASE \E x \in Workers : \/ FastPath(x) \/ TakeLock(x) \/ Check(x) \/ Spawn(x) \/ Retry(x)
    <2>1. PICK x \in Workers : EnsureMoves(x)
      BY <1>3, EnsureStep
    <2> QED
      BY <1>1, <2>1 DEF EnsureMoves, Moves, Typed
  <1>4. CASE \E x \in Callers : CallerActs(x)
    <2>1. PICK x \in Callers : CallerActs(x) /\ OutsideLock(x)
      BY <1>4, CallerOutside
    <2>2. UNCHANGED <<agentVars, flags, net, cooling, exited>>
      BY <2>1 DEF CallerActs, Call, SendCall, Return, CallError, Drop
    <2> QED
      BY <1>1, <2>1, <2>2, Constants DEF OutsideLock, Typed, agentVars, flags, net
  <1>5. CASE \E r \in sent : Execute(r)
    <2>1. PICK r \in sent : Execute(r)
      BY <1>5
    <2>2. w' \in [Workers -> Worker]
      BY <2>1, ExecuteMoves DEF Moves, Typed
    <2>3. UNCHANGED <<agentVars, flags, stored, net, cooling, exited>>
      BY <2>1 DEF Execute
    <2> QED
      BY <1>1, <2>2, <2>3 DEF Typed, agentVars, flags, net
  <1>6. CASE RelayLoses \/ RelayResumes
    <2>1. OutsideLock(Relay)
      BY <1>6, RelayOutside
    <2>2. UNCHANGED <<agentVars, flags, net, cooling, exited>>
      BY <1>6 DEF RelayLoses, RelayResumes
    <2> QED
      BY <1>1, <2>1, <2>2, Constants DEF OutsideLock, Typed, agentVars, flags, net
  <1>7. CASE \E x \in Restarts : RestartActs(x)
    <2>1. PICK x \in Restarts : RestartActs(x) /\ OutsideLock(x)
      BY <1>7, RestartOutside
    <2>2. UNCHANGED <<installed, flags, net, cooling, exited>>
      BY <2>1 DEF RestartActs, Restart, RestartShutsDown, RestartSpawns, agentVars
    <2>3. /\ agent' \in {agent, "starting", "draining"} /\ owner' \in {owner, "spawned"}
      BY <2>1
      DEF RestartActs, Restart, RestartShutsDown, ShutDown, RestartSpawns, SpawnProcess, agentVars
    <2> QED
      BY <1>1, <2>1, <2>2, <2>3, Constants DEF OutsideLock, Typed, flags, net
  <1>8. CASE ExitRequested
    <2>1. agent' \in {agent, "draining"}
      BY <1>8 DEF ExitRequested, ShutDown, ShutDownAny
    <2> QED
      BY <1>1, <1>8, <2>1, LeaveMoves, Constants DEF Typed
  <1> QED
    BY StepKinds, <1>2, <1>3, <1>4, <1>5, <1>6, <1>7, <1>8

\* What moves no worker into the lock or out of it and stores no client.
LEMMA LockKept ==
    ASSUME Locked, NoneStored, connLock' = connLock, stored' \in {stored, 0},
           \A x \in Workers : \/ w'[x] = w[x]
                              \/ w[x].pc \notin Connecting /\ w'[x].pc \notin Connecting
    PROVE  Locked' /\ NoneStored'
  BY DEF Locked, NoneStored, Connecting

\* The lock has one holder, and only the holder stores a client, where none is
\* stored: a step replaces no stored client by another.
LEMMA LockStep ==
    ASSUME DesktopIndInv, [Next]_vars
    PROVE  /\ Locked' /\ NoneStored'
           /\ stored # 0 /\ stored' # 0 => stored' = stored
  <1> USE DEF DesktopIndInv
  <1>1. CASE AroundIt
    BY <1>1, AroundStep, LockKept
  <1>2. CASE \E x \in Workers : \/ FastPath(x) \/ TakeLock(x) \/ Check(x) \/ Spawn(x) \/ Retry(x)
    BY <1>2, EnsureStep DEF EnsureMoves
  <1>3. CASE \/ \E x \in Callers : CallerActs(x)
             \/ RelayLoses \/ RelayResumes
             \/ \E x \in Restarts : RestartActs(x)
    <2>1. PICK x \in Workers : OutsideLock(x)
      BY <1>3, CallerOutside, RelayOutside, RestartOutside, WorkerKinds
    <2>2. \A y \in Workers : \/ w'[y] = w[y]
                             \/ w[y].pc \notin Connecting /\ w'[y].pc \notin Connecting
      BY <2>1 DEF OutsideLock
    <2> QED
      BY <2>1, <2>2, LockKept DEF OutsideLock
  <1>4. CASE \E r \in sent : Execute(r)
    <2>1. PICK r \in sent : Execute(r)
      BY <1>4
    <2>2. \A y \in Workers : \/ w'[y] = w[y]
                             \/ w[y].pc \notin Connecting /\ w'[y].pc \notin Connecting
      BY <2>1, ExecuteMoves DEF Moves, Connecting
    <2> QED
      BY <2>1, <2>2, LockKept, ExecuteMoves
  <1>5. CASE ExitRequested
    BY <1>5, LeaveMoves, WorkerKinds DEF Locked, NoneStored, Connecting
  <1> QED
    BY StepKinds, <1>1, <1>2, <1>3, <1>4, <1>5

-----------------------------------------------------------------------------
(* How often a command is executed.                                        *)

\* A command that sends nothing in this step, and is not answered.
CallKept(x) ==
    /\ Sends(x)' >= Sends(x)
    /\ w'[x].pc \in {"idle", "gone"} => w'[x].attempt = 0
    /\ w'[x].pc \notin {"idle", "gone"} => w'[x].attempt \in 1 .. 2
    /\ w'[x].pc \in {"answered", "done"} => w[x].pc \in {"answered", "done"}

\* No more than two attempts, in this state and in the next.
LEMMA SendsType ==
    /\ Typed /\ Issued => \A x \in Callers : Sends(x) \in 0 .. 2
    /\ Typed' /\ Issued' => \A x \in Callers : Sends(x)' \in 0 .. 2
  <1>1. \A v \in Worker : /\ v.pc = "idle" => v.attempt = 0
                          /\ v.pc \notin {"idle", "gone"} => v.attempt \in 1 .. 2
                          => SendsOf(v) \in 0 .. 2
    BY DEF SendsOf, Worker
  <1> QED
    BY <1>1, WorkerKinds DEF Typed, Issued, Sends

\* A command that does not move sends nothing.
LEMMA CallUnmoved ==
    ASSUME Typed, Issued, NEW x \in Callers, w'[x] = w[x]
    PROVE  CallKept(x)
  <1>1. Sends(x)' = Sends(x) /\ Sends(x) \in 0 .. 2
    BY SendsType DEF Sends
  <1> QED
    BY <1>1 DEF CallKept, Issued

\* Requests that are lost take nothing from the budget.
LEMMA PendingShrinks ==
    ASSUME sent' \subseteq sent, NEW x \in Callers, NEW k
    PROVE  Pending(x, k)' \in 0 .. 1 /\ Pending(x, k)' <= Pending(x, k)
  BY DEF Pending, OnItsWay

\* Where nobody sends and nobody is answered the budget holds on.
LEMMA CallsKept ==
    ASSUME Typed, Typed', Issued, Budget, AnswersAreExecuted,
           sent' \subseteq sent, executed' = executed, \A x \in Callers : CallKept(x)
    PROVE  Issued' /\ Budget' /\ AnswersAreExecuted'
  <1>1. Issued'
    BY DEF CallKept, Issued
  <1>2. AnswersAreExecuted'
    BY DEF CallKept, AnswersAreExecuted
  <1>3. ASSUME NEW x \in Callers
        PROVE  (executed[x] + Pending(x, 1) + Pending(x, 2) <= Sends(x))'
    <2>1. executed[x] \in Nat /\ Pending(x, 1) \in 0 .. 1 /\ Pending(x, 2) \in 0 .. 1
      BY <1>3 DEF Typed, Pending
    <2>2. executed[x] + Pending(x, 1) + Pending(x, 2) <= Sends(x)
      BY <1>3 DEF Budget
    <2>3. /\ Pending(x, 1)' \in 0 .. 1 /\ Pending(x, 1)' <= Pending(x, 1)
          /\ Pending(x, 2)' \in 0 .. 1 /\ Pending(x, 2)' <= Pending(x, 2)
      BY <1>3, PendingShrinks
    <2>4. Sends(x) \in 0 .. 2 /\ Sends(x)' \in 0 .. 2 /\ Sends(x)' >= Sends(x)
      BY <1>1, <1>3, SendsType DEF CallKept
    <2>5. executed'[x] = executed[x]
      OBVIOUS
    <2> HIDE DEF Pending, Sends
    <2> QED
      BY <2>1, <2>2, <2>3, <2>4, <2>5
  <1>4. ASSUME NEW r \in sent'
        PROVE  r.attempt <= Sends(r.call)'
    <2>1. r \in sent /\ r.call \in Callers /\ r.attempt \in 1 .. 2 /\ r.attempt <= Sends(r.call)
      BY <1>4 DEF Typed, Budget
    <2>2. Sends(r.call) \in 0 .. 2 /\ Sends(r.call)' \in 0 .. 2 /\ Sends(r.call)' >= Sends(r.call)
      BY <1>1, <2>1, SendsType DEF CallKept
    <2> QED
      BY <2>1, <2>2
  <1>5. \A r, s \in sent' : r.call = s.call /\ r.attempt = s.attempt => r = s
    BY DEF Budget
  <1>6. Budget'
    BY <1>3, <1>4, <1>5 DEF Budget
  <1> QED
    BY <1>1, <1>2, <1>6

\* Within ensure_connected nothing is sent.
LEMMA EnsureKeepsCall ==
    ASSUME Typed, Issued, NEW x \in Workers, EnsureMoves(x), NEW c \in Callers
    PROVE  CallKept(c)
  <1>1. CASE c # x
    BY <1>1, CallUnmoved, WorkerKinds DEF EnsureMoves, Moves
  <1>2. CASE c = x
    <2>1. /\ w[x].pc \in Ensuring /\ w'[x].pc \in Ensuring \cup {"calling", "failed"}
          /\ w'[x].attempt = w[x].attempt
      <3>1. PICK s \in Ensuring \cup Ensured(x) : Moves(x, s)
        BY DEF EnsureMoves
      <3>2. Ensured(x) = {"calling", "failed"}
        BY <1>2 DEF Ensured
      <3> QED
        BY <3>1, <3>2 DEF EnsureMoves, Moves
    <2>2. w[x].attempt \in 1 .. 2
      BY <1>2, <2>1 DEF Issued, Ensuring
    <2>3. Sends(x) = w[x].attempt - 1
      BY <2>1 DEF Sends, SendsOf, Ensuring
    <2>4. Sends(x)' \in {w[x].attempt, w[x].attempt - 1}
      BY <2>1 DEF Sends, SendsOf, Ensuring
    <2> QED
      BY <1>2, <2>1, <2>2, <2>3, <2>4 DEF CallKept, Ensuring
  <1> QED
    BY <1>1, <1>2

\* An attempt that failed, an answer that arrived: nothing is sent either.
LEMMA CallerKeepsCall ==
    ASSUME Typed, Issued, NEW x \in Callers, Call(x) \/ Return(x) \/ CallError(x) \/ Drop(x)
    PROVE  CallKept(x)
  <1>1. x \in Workers /\ w[x] \in Worker /\ w \in [Workers -> Worker]
    BY WorkerKinds DEF Typed
  <1>2. CASE Call(x)
    <2>1. w[x].pc = "idle" /\ w'[x].pc = "want" /\ w'[x].attempt = 1
      BY <1>1, <1>2 DEF Call, At
    <2> QED
      BY <2>1 DEF CallKept, Sends, SendsOf
  <1>3. CASE Return(x)
    <2>1. w[x].pc = "answered" /\ w'[x].pc = "done" /\ w'[x].attempt = w[x].attempt
      BY <1>1, <1>3 DEF Return, At, Quit
    <2>2. w[x].attempt \in 1 .. 2
      BY <2>1 DEF Issued
    <2> QED
      BY <2>1, <2>2 DEF CallKept, Sends, SendsOf
  <1>4. CASE CallError(x)
    <2>1. w[x].pc \in {"waiting", "answered"}
      BY <1>4 DEF CallError, At
    <2>2. w[x].attempt \in 1 .. 2
      BY <2>1 DEF Issued
    <2>3. CASE w[x].attempt = 1
      <3>1. w'[x].pc = "dropping" /\ w'[x].attempt = 2
        <4>1. w' = [w EXCEPT ![x].pc = "dropping", ![x].cl = 0, ![x].attempt = 2]
          BY <1>4, <2>3 DEF CallError
        <4> QED
          BY <1>1, <4>1 DEF Worker
      <3> QED
        BY <2>1, <2>3, <3>1 DEF CallKept, Sends, SendsOf
    <2>4. CASE w[x].attempt = 2
      <3>1. w'[x].pc = "failed" /\ w'[x].attempt = 2
        <4>1. Quit(x, "failed")
          BY <1>4, <2>4 DEF CallError
        <4> QED
          BY <1>1, <2>4, <4>1 DEF Quit, Worker
      <3> QED
        BY <2>1, <2>4, <3>1 DEF CallKept, Sends, SendsOf
    <2> QED
      BY <2>2, <2>3, <2>4
  <1>5. CASE Drop(x)
    <2>1. w[x].pc = "dropping" /\ w'[x].pc = "want" /\ w'[x].attempt = w[x].attempt
      BY <1>1, <1>5 DEF Drop, At, Go
    <2>2. w[x].attempt \in 1 .. 2
      BY <2>1 DEF Issued
    <2> QED
      BY <2>1, <2>2 DEF CallKept, Sends, SendsOf
  <1> QED
    BY <1>2, <1>3, <1>4, <1>5

\* An attempt is sent once: no earlier one bears its number.
LEMMA SendCallStep ==
    ASSUME Typed, Typed', Issued, Budget, AnswersAreExecuted, NEW x \in Callers, SendCall(x)
    PROVE  Issued' /\ Budget' /\ AnswersAreExecuted'
  <1> DEFINE r == [call |-> x, attempt |-> w[x].attempt, cl |-> w[x].cl]
             a == w[x].attempt
  <1>1. /\ x \in Workers /\ w \in [Workers -> Worker] /\ w[x].pc = "calling" /\ a \in 1 .. 2
        /\ w'[x].pc = "waiting" /\ w'[x].attempt = a
        /\ \A y \in Workers \ {x} : w'[y] = w[y]
    BY WorkerKinds DEF SendCall, At, Go, Typed, Issued
  <1>2. executed' = executed /\ sent \subseteq sent' /\ sent' \subseteq sent \cup {r}
    BY DEF SendCall
  <1>3. Sends(x) = a - 1 /\ Sends(x)' = a
    BY <1>1 DEF Sends, SendsOf
  <1>4. \A y \in Callers \ {x} : w'[y] = w[y] /\ Sends(y)' = Sends(y)
    BY <1>1, WorkerKinds DEF Sends
  <1>5. Issued' /\ AnswersAreExecuted'
    BY <1>1, <1>2, <1>4 DEF Issued, AnswersAreExecuted
  <1>6. r.call = x /\ r.attempt = a
    OBVIOUS
  <1> HIDE DEF r, a
  <1>7. \A s \in sent : s.call = x => s.attempt \in 1 .. 2 /\ s.attempt <= a - 1
    BY <1>3 DEF Budget, Typed
  <1>8. \A s, t \in sent' : s.call = t.call /\ s.attempt = t.attempt => s = t
    <2>1. \A s \in sent : s.call = x => s.attempt # a
      BY <1>1, <1>7
    <2> QED
      BY <1>2, <1>6, <2>1 DEF Budget
  <1>9. ASSUME NEW s \in sent'
        PROVE  s.attempt <= Sends(s.call)'
    <2>1. CASE s = r
      BY <1>1, <1>3, <1>6, <2>1
    <2>2. CASE s \in sent /\ s.call = x
      BY <1>1, <1>3, <1>7, <2>2
    <2>3. CASE s \in sent /\ s.call # x
      BY <1>4, <2>3 DEF Budget, Typed
    <2> QED
      BY <1>2, <2>1, <2>2, <2>3
  <1>10. ASSUME NEW y \in Callers
         PROVE  (executed[y] + Pending(y, 1) + Pending(y, 2) <= Sends(y))'
    <2>1. executed[y] + Pending(y, 1) + Pending(y, 2) <= Sends(y) /\ executed[y] \in Nat
      BY DEF Budget, Typed
    <2>2. CASE y # x
      <3>1. \A k \in 1 .. 2 : OnItsWay(y, k)' = OnItsWay(y, k)
        BY <1>2, <1>6, <2>2 DEF OnItsWay
      <3>2. Pending(y, 1)' = Pending(y, 1) /\ Pending(y, 2)' = Pending(y, 2)
        BY <3>1 DEF Pending
      <3> QED
        BY <1>2, <1>4, <2>1, <2>2, <3>2
    <2>3. CASE y = x
      <3>1. \A k \in 1 .. 2 : k # a => OnItsWay(x, k)' = OnItsWay(x, k)
        BY <1>2, <1>6 DEF OnItsWay
      <3>2. ~OnItsWay(x, a)
        BY <1>1, <1>7 DEF OnItsWay
      <3>3. /\ Pending(x, 1) \in 0 .. 1 /\ Pending(x, 2) \in 0 .. 1
            /\ Pending(x, 1)' \in 0 .. 1 /\ Pending(x, 2)' \in 0 .. 1
            /\ a = 1 => Pending(x, 1) = 0 /\ Pending(x, 2)' = Pending(x, 2)
            /\ a = 2 => Pending(x, 2) = 0 /\ Pending(x, 1)' = Pending(x, 1)
        BY <3>1, <3>2 DEF Pending
      <3>4. executed'[x] = executed[x]
        BY <1>2
      <3> QED
        BY <1>1, <1>3, <2>1, <2>3, <3>3, <3>4
    <2> QED
      BY <2>2, <2>3
  <1> QED
    BY <1>5, <1>8, <1>9, <1>10 DEF Budget

\* An execution uses up the request it executes.
LEMMA ExecuteStep ==
    ASSUME Typed, Typed', Issued, Budget, AnswersAreExecuted, NEW r \in sent, Execute(r)
    PROVE  Issued' /\ Budget' /\ AnswersAreExecuted'
  <1>1. /\ r.call \in Callers /\ r.attempt \in 1 .. 2 /\ r.call \in Workers
        /\ \/ w' = w
           \/ w[r.call].pc = "waiting" /\ Moves(r.call, "answered")
    BY ExecuteMoves, WorkerKinds
  <1>2. /\ sent' = sent \ {r}
        /\ executed' = [executed EXCEPT ![r.call] = @ + 1]
    BY DEF Execute
  <1>3. /\ \A y \in Callers : executed[y] \in Nat
        /\ executed'[r.call] = executed[r.call] + 1
        /\ \A y \in Callers \ {r.call} : executed'[y] = executed[y]
    BY <1>1, <1>2 DEF Typed
  <1>4. ASSUME NEW y \in Callers
        PROVE  Sends(y)' = Sends(y) /\ Sends(y) \in 0 .. 2
    <2>1. CASE w'[y] = w[y]
      BY <2>1, SendsType DEF Sends
    <2>2. CASE /\ y = r.call /\ w[y].pc = "waiting"
               /\ w'[y].pc = "answered" /\ w'[y].attempt = w[y].attempt
      <3>1. Sends(y) = w[y].attempt /\ Sends(y)' = w[y].attempt
        BY <2>2 DEF Sends, SendsOf
      <3> QED
        BY <3>1, SendsType
    <2> QED
      BY <1>1, <2>1, <2>2, WorkerKinds DEF Moves
  <1>5. Issued'
    BY <1>1, WorkerKinds DEF Issued, Moves
  <1>6. AnswersAreExecuted'
    <2>1. ASSUME NEW y \in Callers, w'[y].pc \in {"answered", "done"}
          PROVE  executed'[y] >= 1
      <3>1. CASE y = r.call
        BY <1>1, <1>3, <3>1
      <3>2. CASE y # r.call
        <4>1. w'[y] = w[y]
          BY <1>1, <3>2, WorkerKinds DEF Moves
        <4> QED
          BY <1>3, <2>1, <3>2, <4>1 DEF AnswersAreExecuted
      <3> QED
        BY <3>1, <3>2
    <2> QED
      BY <2>1 DEF AnswersAreExecuted
  <1>7. ASSUME NEW y \in Callers
        PROVE  (executed[y] + Pending(y, 1) + Pending(y, 2) <= Sends(y))'
    <2>1. executed[y] + Pending(y, 1) + Pending(y, 2) <= Sends(y)
      BY DEF Budget
    <2>2. CASE y # r.call
      <3>1. \A k \in 1 .. 2 : OnItsWay(y, k)' = OnItsWay(y, k)
        BY <1>2, <2>2 DEF OnItsWay
      <3>2. Pending(y, 1)' = Pending(y, 1) /\ Pending(y, 2)' = Pending(y, 2)
        BY <3>1 DEF Pending
      <3> QED
        BY <1>3, <1>4, <2>1, <2>2, <3>2
    <2>3. CASE y = r.call
      <3>1. \A k \in 1 .. 2 : k # r.attempt => OnItsWay(y, k)' = OnItsWay(y, k)
        BY <1>2, <2>3 DEF OnItsWay
      <3>2. OnItsWay(y, r.attempt) /\ ~OnItsWay(y, r.attempt)'
        BY <1>2, <2>3 DEF OnItsWay, Budget
      <3>3. /\ Pending(y, 1) \in 0 .. 1 /\ Pending(y, 2) \in 0 .. 1
            /\ Pending(y, 1)' \in 0 .. 1 /\ Pending(y, 2)' \in 0 .. 1
            /\ r.attempt = 1 => /\ Pending(y, 1) = 1 /\ Pending(y, 1)' = 0
                                /\ Pending(y, 2)' = Pending(y, 2)
            /\ r.attempt = 2 => /\ Pending(y, 2) = 1 /\ Pending(y, 2)' = 0
                                /\ Pending(y, 1)' = Pending(y, 1)
        BY <3>1, <3>2 DEF Pending
      <3> QED
        BY <1>1, <1>3, <1>4, <2>1, <2>3, <3>3
    <2> QED
      BY <2>2, <2>3
  <1>8. \A s \in sent' : s.attempt <= Sends(s.call)'
    BY <1>2, <1>4 DEF Budget, Typed
  <1>9. \A s, t \in sent' : s.call = t.call /\ s.attempt = t.attempt => s = t
    BY <1>2 DEF Budget
  <1> QED
    BY <1>5, <1>6, <1>7, <1>8, <1>9 DEF Budget

\* Every other step only loses requests, or goes on without sending.
LEMMA CallsStep ==
    ASSUME DesktopIndInv, [Next]_vars
    PROVE  Issued' /\ Budget' /\ AnswersAreExecuted'
  <1> USE DEF DesktopIndInv
  <1>1. Typed'
    BY TypedStep
  <1>2. CASE AroundIt
    <2>1. sent' \subseteq sent /\ executed' = executed /\ w' = w
      BY <1>2, AroundStep
    <2>2. \A c \in Callers : CallKept(c)
      BY <2>1, CallUnmoved
    <2> QED
      BY <1>1, <2>1, <2>2, CallsKept
  <1>3. CASE \E x \in Workers : \/ FastPath(x) \/ TakeLock(x) \/ Check(x) \/ Spawn(x) \/ Retry(x)
    <2>1. PICK x \in Workers : EnsureMoves(x)
      BY <1>3, EnsureStep
    <2>2. \A c \in Callers : CallKept(c)
      BY <2>1, EnsureKeepsCall
    <2>3. sent' \subseteq sent /\ executed' = executed
      BY <2>1 DEF EnsureMoves
    <2> QED
      BY <1>1, <2>2, <2>3, CallsKept
  <1>4. CASE \E x \in Callers : SendCall(x)
    BY <1>1, <1>4, SendCallStep
  <1>5. CASE \E x \in Callers : Call(x) \/ Return(x) \/ CallError(x) \/ Drop(x)
    <2>1. PICK x \in Callers : Call(x) \/ Return(x) \/ CallError(x) \/ Drop(x)
      BY <1>5
    <2>2. OutsideLock(x) /\ CallKept(x)
      BY <2>1, CallerOutside, CallerKeepsCall DEF CallerActs
    <2>3. \A c \in Callers : CallKept(c)
      BY <2>2, CallUnmoved, WorkerKinds DEF OutsideLock
    <2>4. sent' \subseteq sent /\ executed' = executed
      BY <2>1 DEF Call, Return, CallError, Drop
    <2> QED
      BY <1>1, <2>3, <2>4, CallsKept
  <1>6. CASE \E r \in sent : Execute(r)
    BY <1>1, <1>6, ExecuteStep
  <1>7. CASE \/ RelayLoses \/ RelayResumes
             \/ \E x \in Restarts : RestartActs(x)
    <2>1. PICK x \in Workers \ Callers : OutsideLock(x)
      BY <1>7, RelayOutside, RestartOutside, WorkerKinds
    <2>2. \A c \in Callers : CallKept(c)
      BY <2>1, CallUnmoved, WorkerKinds DEF OutsideLock
    <2>3. sent' \subseteq sent /\ executed' = executed
      BY <1>7 DEF RelayLoses, RelayResumes, RestartActs, Restart, RestartShutsDown, RestartSpawns
    <2> QED
      BY <1>1, <2>2, <2>3, CallsKept
  <1>8. CASE ExitRequested
    <2>1. \A c \in Callers : w'[c].pc = "gone" /\ w'[c].attempt = 0
      BY <1>8, LeaveMoves, WorkerKinds
    <2>2. \A c \in Callers : Sends(c)' = 2 /\ Sends(c) \in 0 .. 2
      BY <2>1, SendsType DEF Sends, SendsOf
    <2>3. \A c \in Callers : CallKept(c)
      BY <2>1, <2>2 DEF CallKept
    <2> QED
      BY <1>1, <1>8, <2>3, CallsKept, LeaveMoves
  <1> QED
    BY StepKinds, <1>2, <1>3, <1>4, <1>5, <1>6, <1>7, <1>8 DEF CallerActs

-----------------------------------------------------------------------------
(* The service.                                                            *)

\* Without the permission to spawn no process is spawned, so none is shut down at
\* the exit, and a restart gets no further than its refusal.
LEMMA ServiceStep ==
    ASSUME DesktopIndInv, [Next]_vars
    PROVE  ServiceIsLeftAlone' /\ RestartsRefused'
  <1> USE DEF DesktopIndInv
  <1>1. allowSpawn' = allowSpawn
    BY StepCases DEF Starts, Drained, Crash, Gone, ServiceStarts, Install, Cooled, ConnectionFails,
       FastPath, TakeLock, Check, Spawn, Retry, Call, SendCall, Return, CallError, Drop, Execute,
       RelayLoses, RelayResumes, Restart, RestartShutsDown, RestartSpawns, ExitRequested, vars, flags
  <1> SUFFICES ASSUME ~allowSpawn
               PROVE  /\ spawns' = {} /\ ~spawnedByUs' /\ agent' # "draining"
                      /\ \A x \in Restarts : w'[x].pc \in {"idle", "failed", "gone"}
    BY <1>1 DEF ServiceIsLeftAlone, RestartsRefused
  <1>2. /\ spawns = {} /\ ~spawnedByUs /\ agent # "draining"
        /\ \A x \in Restarts : w[x].pc \in {"idle", "failed", "gone"}
    BY DEF ServiceIsLeftAlone, RestartsRefused
  <1>3. CASE AroundIt
    BY <1>2, <1>3, AroundStep
  <1>4. CASE \E x \in Workers : \/ FastPath(x) \/ TakeLock(x) \/ Check(x) \/ Spawn(x) \/ Retry(x)
    <2>1. PICK x \in Workers : EnsureMoves(x)
      BY <1>4, EnsureStep
    <2>2. x \notin Restarts
      BY <1>2, <2>1 DEF EnsureMoves, Ensuring
    <2>3. \A y \in Restarts : w'[y] = w[y]
      BY <2>1, <2>2, WorkerKinds DEF EnsureMoves, Moves
    <2> QED
      BY <1>2, <2>1, <2>3 DEF EnsureMoves
  <1>5. CASE (\E x \in Callers : CallerActs(x)) \/ RelayLoses \/ RelayResumes
    <2>1. PICK x \in Workers \ Restarts : OutsideLock(x)
      BY <1>5, CallerOutside, RelayOutside, WorkerKinds
    <2>2. UNCHANGED <<agent, spawnedByUs, spawns>>
      BY <1>5 DEF CallerActs, Call, SendCall, Return, CallError, Drop, RelayLoses, RelayResumes,
         agentVars, flags
    <2> QED
      BY <1>2, <2>1, <2>2, WorkerKinds DEF OutsideLock
  <1>6. CASE \E r \in sent : Execute(r)
    <2>1. PICK r \in sent : Execute(r)
      BY <1>6
    <2>2. \A y \in Restarts : w'[y] = w[y]
      BY <2>1, ExecuteMoves, WorkerKinds DEF Moves
    <2>3. UNCHANGED <<agent, spawnedByUs, spawns>>
      BY <2>1 DEF Execute, agentVars, flags
    <2> QED
      BY <1>2, <2>2, <2>3
  <1>7. CASE \E x \in Restarts : RestartActs(x)
    <2>1. PICK x \in Restarts : RestartActs(x)
      BY <1>7
    <2>2. OutsideLock(x) /\ w'[x].pc = "failed"
      BY <1>2, <2>1, RestartOutside
    <2>3. w[x].pc \notin {"shutting down", "respawn"}
      BY <1>2
    <2>4. UNCHANGED <<agent, spawnedByUs, spawns>>
      BY <2>1, <2>3 DEF RestartActs, Restart, RestartShutsDown, RestartSpawns, At, agentVars, flags
    <2> QED
      BY <1>2, <2>2, <2>4, WorkerKinds DEF OutsideLock
  <1>8. CASE ExitRequested
    <2>1. agent' = agent
      BY <1>2, <1>8 DEF ExitRequested
    <2> QED
      BY <1>2, <1>8, <2>1, LeaveMoves, WorkerKinds
  <1> QED
    BY StepKinds, <1>3, <1>4, <1>5, <1>6, <1>7, <1>8

-----------------------------------------------------------------------------
(* Theorems.                                                               *)

\* The application has just started.
LEMMA AppStarts ==
    ASSUME Init
    PROVE  DesktopIndInv
  <1>1. \A x \in Workers : /\ w[x].pc = (IF x = Relay THEN "want" ELSE "idle")
                           /\ w[x].attempt = 0 /\ w[x] \in Worker
    BY Constants DEF Init, Worker, Places
  <1>2. Typed
    BY Constants, <1>1 DEF Init, Typed
  <1>3. Locked /\ NoneStored
    BY <1>1, WorkerKinds DEF Init, Locked, NoneStored, Connecting
  <1>4. \A x \in Callers : w[x].pc = "idle" /\ w[x].attempt = 0 /\ Sends(x) = 0
    BY <1>1, WorkerKinds DEF Sends, SendsOf
  <1>5. \A x \in Callers : Pending(x, 1) = 0 /\ Pending(x, 2) = 0 /\ executed[x] = 0
    BY DEF Init, Pending, OnItsWay
  <1>6. Issued /\ AnswersAreExecuted
    BY <1>4 DEF Issued, AnswersAreExecuted
  <1>7. Budget
    BY <1>4, <1>5 DEF Init, Budget
  <1>8. RestartsRefused
    BY <1>1, WorkerKinds DEF RestartsRefused
  <1>9. ServiceIsLeftAlone
    BY DEF Init, ServiceIsLeftAlone
  <1> QED
    BY <1>2, <1>3, <1>6, <1>7, <1>8, <1>9 DEF DesktopIndInv

\* The parts together.
LEMMA DesktopStep ==
    ASSUME DesktopIndInv, [Next]_vars
    PROVE  DesktopIndInv'
  BY TypedStep, LockStep, CallsStep, ServiceStep DEF DesktopIndInv

LEMMA DesktopIndInvCorrect == Spec => []DesktopIndInv
  <1>1. DesktopIndInv /\ [Next]_vars => DesktopIndInv'
    BY DesktopStep
  <1> QED
    BY <1>1, AppStarts, PTL DEF Spec

\* A command is executed no more often than it was sent.
LEMMA BudgetBounds ==
    ASSUME DesktopIndInv
    PROVE  AtMostTwice
  <1> SUFFICES ASSUME NEW x \in Callers
               PROVE  /\ executed[x] <= 2
                      /\ w[x].attempt = 1 => executed[x] <= 1
                      /\ w[x].pc = "done" => executed[x] >= 1
    BY DEF AtMostTwice
  <1>1. executed[x] \in Nat /\ Pending(x, 1) \in 0 .. 1 /\ Pending(x, 2) \in 0 .. 1
    BY DEF DesktopIndInv, Typed, Pending
  <1>2. executed[x] + Pending(x, 1) + Pending(x, 2) <= Sends(x)
    BY DEF DesktopIndInv, Budget
  <1>3. Sends(x) \in 0 .. 2
    BY SendsType DEF DesktopIndInv
  <1>4. executed[x] <= Sends(x)
    BY <1>1, <1>2, <1>3
  <1>5. w[x].attempt = 1 => Sends(x) <= 1
    BY DEF DesktopIndInv, Issued, Sends, SendsOf
  <1> QED
    BY <1>1, <1>3, <1>4, <1>5 DEF DesktopIndInv, AnswersAreExecuted

\* What is wanted of the connection follows.
LEMMA IndInvIsEnough ==
    ASSUME DesktopIndInv
    PROVE  DesktopInv
  <1>1. LockedWhileConnecting
    BY DEF DesktopIndInv, Typed, Locked, LockedWhileConnecting, Worker, Connecting
  <1> QED
    BY <1>1, BudgetBounds DEF DesktopIndInv, DesktopInv

\* One worker connects at a time; a command is executed at most twice, once if
\* its first attempt was answered, and at least once if it returned; a service
\* that was installed when the desktop started is neither doubled by a spawned
\* agent nor shut down: for any number of commands, restarts and faults.
THEOREM DesktopCorrect == Spec => []DesktopInv
  <1>1. DesktopIndInv => DesktopInv
    BY IndInvIsEnough
  <1> QED
    BY <1>1, DesktopIndInvCorrect, PTL

\* ensure_connected never puts a client in the place of another one: whoever
\* waited for the connect lock uses the client its holder has stored.
THEOREM StoredIsSharedCorrect == Spec => StoredIsShared
  <1>1. DesktopIndInv /\ [Next]_vars => [stored # 0 /\ stored' # 0 => stored' = stored]_vars
    BY LockStep
  <1> QED
    BY <1>1, DesktopIndInvCorrect, PTL DEF StoredIsShared, Spec

-----------------------------------------------------------------------------
(* The connection beside the view.                                         *)

\* An application that has left satisfies the invariant as well.
LEMMA LeftIsFine ==
    ASSUME Left
    PROVE  DesktopIndInv
  <1>1. \A x \in Workers : /\ w[x].pc = "gone" /\ w[x].attempt = 0 /\ w[x] \in Worker
    BY Constants DEF Left, Worker, Places
  <1>2. Typed
    BY Constants, <1>1 DEF Left, Typed
  <1>3. Locked /\ NoneStored
    BY <1>1, WorkerKinds DEF Left, Locked, NoneStored, Connecting
  <1>4. \A x \in Callers : w[x].pc = "gone" /\ w[x].attempt = 0 /\ Sends(x) = 2
    BY <1>1, WorkerKinds DEF Sends, SendsOf
  <1>5. \A x \in Callers : Pending(x, 1) = 0 /\ Pending(x, 2) = 0 /\ executed[x] = 0
    BY DEF Left, Pending, OnItsWay
  <1>6. Issued /\ AnswersAreExecuted
    BY <1>4 DEF Issued, AnswersAreExecuted
  <1>7. Budget
    BY <1>4, <1>5 DEF Left, Budget
  <1>8. RestartsRefused /\ ServiceIsLeftAlone
    BY DEF Left, RestartsRefused, ServiceIsLeftAlone
  <1> QED
    BY <1>2, <1>3, <1>6, <1>7, <1>8 DEF DesktopIndInv

\* The guarantees of the connection hold in the composition with the view of the
\* executions, whichever of commands, restarts and view moves.
THEOREM DesktopAndViewCorrect == DesktopSpec => []DesktopInv /\ StoredIsShared
  <1>1. DesktopInit => DesktopIndInv
    BY AppStarts, LeftIsFine DEF DesktopInit
  <1>2. [DesktopNext]_<<part, vars, viewVars>> => [Next]_vars
    BY DEF DesktopNext
  <1>3. DesktopIndInv /\ [Next]_vars => DesktopIndInv'
    BY DesktopStep
  <1>4. DesktopIndInv /\ [Next]_vars => [stored # 0 /\ stored' # 0 => stored' = stored]_vars
    BY LockStep
  <1>5. DesktopIndInv => DesktopInv
    BY IndInvIsEnough
  <1> QED
    BY <1>1, <1>2, <1>3, <1>4, <1>5, PTL DEF DesktopSpec, StoredIsShared
================================================================================
