----------------------------- MODULE PartsProofs -----------------------------
(***************************************************************************)
(* Theorems about the parts of MCParts.  About AgentProcess, for any       *)
(* number of agents and clients, on a socket and on a named pipe:          *)
(*                                                                         *)
(*   ProcessConsistent  the lock is held from its acquisition to the end   *)
(*                      of run(), and only agents that are up have         *)
(*                      connections and work;                              *)
(*   AgentIsUnique      two agents are never between lock and end of run() *)
(*                      at the same time;                                  *)
(*   WritersOverlapOnlyWhileLeaving                                        *)
(*                      two agents write the database only while one has   *)
(*                      released the lock and not yet left;                *)
(*   SocketIsSafe       only such an agent unlinks the socket of another;  *)
(*   PipeHasOneOwner    a named pipe has one owner;                        *)
(*   PartsAreSafe       they stay safe beside the other parts.             *)
(*                                                                         *)
(* Consistent is inductive; the next three follow from it, while           *)
(* PipeHasOneOwner is inductive by itself, because a bind needs a pipe     *)
(* that nobody has open.  About the other parts, for any bounds:           *)
(*                                                                         *)
(*   LoginItemIsClearedLast, SuccessIsReal                                 *)
(*                      the switch of the startup mode;                    *)
(*   ReportsAreExact    the network watchers;                              *)
(*   ProbesAreExact     the probing of endpoints;                          *)
(*   DrawerIsMonotone   the log drawer;                                    *)
(*   SettledViewIsExact the settled list and drawer, when the answers come *)
(*                      in order.                                          *)
(*                                                                         *)
(* Each has an invariant of its own; a step of the whole is a step of one  *)
(* part (PartsStep).                                                       *)
(***************************************************************************)
EXTENDS MCParts, SequenceTheorems, TLAPS

-----------------------------------------------------------------------------
(* What the actions do to lock and connections.                            *)

\* A process that holds the lock and releases it leaves it to nobody, and the
\* others never had it.
LEMMA ReleaseKeepsOthers ==
    ASSUME NEW p \in Procs, Release(p), TypeOK, LockHeld
    PROVE  /\ lock' \in Procs \cup {None}
           /\ \A q \in Procs : q # p /\ pc[q] \in Holding => lock' = q
<1>1. lock' \in Procs \cup {None}
  BY DEF Release, TypeOK
<1>2. ASSUME NEW q \in Procs, q # p, pc[q] \in Holding
      PROVE  lock' = q
  <2>1. lock = q
    BY <1>2 DEF LockHeld
  <2> QED
    BY <1>2, <2>1 DEF Release
<1> QED
  BY <1>1, <1>2

\* At most one process holds the lock (AgentProcess's OneAgent).
LEMMA HoldersAreEqual ==
    ASSUME LockHeld, NEW p \in Procs, NEW q \in Procs,
           pc[p] \in Holding, pc[q] \in Holding
    PROVE  p = q
<1>1. lock = p /\ lock = q
  BY DEF LockHeld
<1> QED
  BY <1>1

-----------------------------------------------------------------------------
(* Consistent is inductive.                                                *)

LEMMA InitConsistent == Init => Consistent
BY DEF Init, Consistent, TypeOK, LockHeld, Alive, Holding, Up

LEMMA StartConsistent ==
    ASSUME Consistent, NEW p \in Procs, Start(p)
    PROVE  Consistent'
<1>1. TypeOK'
  BY DEF Consistent, TypeOK, Start, Goto
<1>2. LockHeld'
  BY DEF Consistent, TypeOK, LockHeld, Start, Goto, Holding
<1>3. Alive'
  BY DEF Consistent, TypeOK, Alive, Start, Goto, Up
<1> QED
  BY <1>1, <1>2, <1>3 DEF Consistent

LEMMA AcquireConsistent ==
    ASSUME Consistent, NEW p \in Procs, Acquire(p)
    PROVE  Consistent'
<1>1. TypeOK'
  BY DEF Consistent, TypeOK, Acquire, Goto
<1>2. LockHeld'
  <2>1. CASE lock = None /\ lock' = p /\ Goto(p, "locked")
    <3>1. \A q \in Procs : pc[q] \notin Holding
      BY <2>1, ProcAssumption DEF Consistent, LockHeld
    <3> QED
      BY <2>1, <3>1 DEF Consistent, TypeOK, LockHeld, Goto, Holding
  <2>2. CASE Goto(p, "gone") /\ UNCHANGED lock
    BY <2>2 DEF Consistent, TypeOK, LockHeld, Goto, Holding
  <2> QED
    BY <2>1, <2>2 DEF Acquire
<1>3. Alive'
  BY DEF Consistent, TypeOK, Alive, Acquire, Goto, Up
<1> QED
  BY <1>1, <1>2, <1>3 DEF Consistent

LEMMA BindConsistent ==
    ASSUME Consistent, NEW p \in Procs, Bind(p)
    PROVE  Consistent'
<1>1. TypeOK'
  BY DEF Consistent, TypeOK, Bind, Goto
<1>2. LockHeld'
  BY DEF Consistent, TypeOK, LockHeld, Bind, Goto, Holding
<1>3. Alive'
  BY DEF Consistent, TypeOK, Alive, Bind, Goto, Up
<1> QED
  BY <1>1, <1>2, <1>3 DEF Consistent

LEMMA InitFailsConsistent ==
    ASSUME Consistent, NEW p \in Procs, InitFails(p)
    PROVE  Consistent'
<1>1. /\ lock' \in Procs \cup {None}
      /\ \A q \in Procs : q # p /\ pc[q] \in Holding => lock' = q
  BY ReleaseKeepsOthers DEF InitFails, Consistent
<1>2. TypeOK'
  BY <1>1 DEF Consistent, TypeOK, InitFails, Goto
<1>3. LockHeld'
  BY <1>1 DEF Consistent, TypeOK, LockHeld, InitFails, Goto, Holding
<1>4. Alive'
  BY DEF Consistent, TypeOK, Alive, InitFails, Goto, Up
<1> QED
  BY <1>2, <1>3, <1>4 DEF Consistent

\* Connections and work change neither lock nor states.
LEMMA ServiceConsistent ==
    ASSUME Consistent,
           \/ \E p \in Procs : Work(p) \/ WorkEnds(p)
           \/ \E c \in Clients : Disconnect(c) \/ \E p \in Procs : Connect(c, p)
    PROVE  Consistent'
<1>1. ASSUME NEW p \in Procs, Work(p) PROVE Consistent'
  BY <1>1 DEF Work, Consistent, TypeOK, LockHeld, Alive, Up, Conns
<1>2. ASSUME NEW p \in Procs, WorkEnds(p) PROVE Consistent'
  BY <1>2 DEF WorkEnds, Consistent, TypeOK, LockHeld, Alive
<1>3. ASSUME NEW c \in Clients, Disconnect(c) PROVE Consistent'
  <2>1. TypeOK'
    BY <1>3 DEF Disconnect, RemoveFile, Consistent, TypeOK
  <2>2. LockHeld'
    BY <1>3 DEF Disconnect, Consistent, LockHeld
  <2>3. Alive'
    BY <1>3 DEF Disconnect, Consistent, TypeOK, Alive
  <2> QED
    BY <2>1, <2>2, <2>3 DEF Consistent
<1>4. ASSUME NEW c \in Clients, NEW p \in Procs, Connect(c, p) PROVE Consistent'
  BY <1>4 DEF Connect, Consistent, TypeOK, LockHeld, Alive, Up
<1> QED
  BY <1>1, <1>2, <1>3, <1>4

LEMMA ShutdownConsistent ==
    ASSUME Consistent, NEW p \in Procs, Shutdown(p)
    PROVE  Consistent'
<1>1. TypeOK'
  BY DEF Consistent, TypeOK, Shutdown, Goto, ServerDropped, RemoveFile
<1>2. LockHeld'
  BY DEF Consistent, TypeOK, LockHeld, Shutdown, Goto, Holding
<1>3. Alive'
  BY DEF Consistent, TypeOK, Alive, Shutdown, Goto, Up
<1> QED
  BY <1>1, <1>2, <1>3 DEF Consistent

\* The two ways out of run().
LEMMA ReturnConsistent ==
    ASSUME Consistent, NEW p \in Procs, Drained(p) \/ Interrupted(p)
    PROVE  Consistent'
<1>1. pc[p] \in {"serving", "draining"} /\ Release(p) /\ Goto(p, "unlocked")
      /\ UNCHANGED <<conn, busy>>
  BY DEF Drained, Interrupted
<1>2. /\ lock' \in Procs \cup {None}
      /\ \A q \in Procs : q # p /\ pc[q] \in Holding => lock' = q
  BY <1>1, ReleaseKeepsOthers DEF Consistent
<1>3. path' \in Procs \cup {None}
  BY DEF Drained, Interrupted, ServerDropped, RemoveFile, Consistent, TypeOK
<1>4. TypeOK'
  BY <1>1, <1>2, <1>3 DEF Consistent, TypeOK, Goto
<1>5. LockHeld'
  BY <1>1, <1>2 DEF Consistent, TypeOK, LockHeld, Goto, Holding
<1>6. Alive'
  BY <1>1 DEF Consistent, TypeOK, Alive, Goto, Up
<1> QED
  BY <1>4, <1>5, <1>6 DEF Consistent

\* The two ends of a process.
LEMMA EndConsistent ==
    ASSUME Consistent, NEW p \in Procs, Exit(p) \/ Crash(p)
    PROVE  Consistent'
<1>1. LoseConns(p) /\ busy' = busy \ {p} /\ Goto(p, "gone")
  BY DEF Exit, Crash
<1>2. /\ lock' \in Procs \cup {None}
      /\ \A q \in Procs : q # p /\ pc[q] \in Holding => lock' = q
  <2>1. CASE Exit(p)
    BY <2>1 DEF Exit, Consistent, TypeOK, LockHeld
  <2>2. CASE Crash(p)
    BY <2>2, ReleaseKeepsOthers DEF Crash, Consistent
  <2> QED
    BY <2>1, <2>2
<1>3. path' \in Procs \cup {None}
  BY DEF Exit, Crash, RemoveFile, Consistent, TypeOK
<1>4. conn' \in [Clients -> Procs \cup {None}] /\ \A c \in Clients : conn'[c] # p
  BY <1>1, ProcAssumption DEF LoseConns, Consistent, TypeOK
<1>5. TypeOK'
  BY <1>1, <1>2, <1>3, <1>4 DEF Consistent, TypeOK, Goto
<1>6. LockHeld'
  BY <1>1, <1>2 DEF Consistent, TypeOK, LockHeld, Goto, Holding
<1>7. Alive'
  <2>1. \A c \in Clients : conn'[c] # None => conn'[c] = conn[c] /\ conn[c] # p
    BY <1>1 DEF LoseConns
  <2> QED
    BY <1>1, <2>1 DEF Consistent, TypeOK, Alive, Goto
<1> QED
  BY <1>5, <1>6, <1>7 DEF Consistent

LEMMA NextConsistent == Consistent /\ [Next]_vars => Consistent'
<1> SUFFICES ASSUME Consistent, [Next]_vars PROVE Consistent'
  OBVIOUS
<1>1. CASE UNCHANGED vars
  BY <1>1 DEF vars, Consistent, TypeOK, LockHeld, Alive
<1>2. ASSUME NEW p \in Procs,
             \/ Start(p) \/ Acquire(p) \/ Bind(p) \/ InitFails(p)
             \/ Shutdown(p) \/ Drained(p) \/ Interrupted(p) \/ Exit(p) \/ Crash(p)
      PROVE  Consistent'
  BY <1>2, StartConsistent, AcquireConsistent, BindConsistent, InitFailsConsistent,
     ShutdownConsistent, ReturnConsistent, EndConsistent
<1>3. CASE \/ \E p \in Procs : Work(p) \/ WorkEnds(p)
           \/ \E c \in Clients : Disconnect(c) \/ \E p \in Procs : Connect(c, p)
  BY <1>3, ServiceConsistent
<1> QED
  BY <1>1, <1>2, <1>3 DEF Next

\* The lock is held by an agent from its acquisition to the end of run(), and
\* connections and work belong to agents that are up (lock.rs, main.rs).
THEOREM ProcessConsistent == Spec => []Consistent
BY InitConsistent, NextConsistent, PTL DEF Spec

-----------------------------------------------------------------------------
(* What follows from it.                                                   *)

\* Two agents are never between their lock and the end of their run().
THEOREM AgentIsUnique == Spec => []OneAgent
<1>1. Consistent => OneAgent
  BY HoldersAreEqual DEF Consistent, OneAgent
<1> QED
  BY <1>1, ProcessConsistent, PTL

\* Two agents may write the database only while one of them has released the
\* lock and has not left its runtime (main.rs, the drop order of main).
THEOREM WritersOverlapOnlyWhileLeaving == Spec => []TwoWritersOnlyWhileLeaving
<1>1. ASSUME Consistent, NEW p \in Procs, NEW q \in Procs, Writer(p), Writer(q), p # q
      PROVE  "unlocked" \in {pc[p], pc[q]}
  <2>1. \A r \in Procs : Writer(r) => pc[r] \in Holding \/ pc[r] = "unlocked"
    BY <1>1 DEF Writer, Consistent, Alive, Up, Holding
  <2>2. ~ (pc[p] \in Holding /\ pc[q] \in Holding)
    BY <1>1, HoldersAreEqual DEF Consistent
  <2> QED
    BY <1>1, <2>1, <2>2
<1>2. Consistent => TwoWritersOnlyWhileLeaving
  BY <1>1 DEF TwoWritersOnlyWhileLeaving
<1> QED
  BY <1>2, ProcessConsistent, PTL

\* A step that takes the socket file from a serving agent is one of an agent
\* that has released the lock with a connection still open.
LEMMA UnlinkStep ==
    ASSUME Consistent, Next, NEW p \in Procs,
           pc[p] = "serving", pc'[p] = "serving", path = p, path' # p
    PROVE  \E q \in Procs : pc[q] = "unlocked" /\ Conns(q) # {}
<1>1. \A q \in Procs : pc[q] \in Holding => q = p
  BY HoldersAreEqual DEF Consistent, Holding
<1>2. ASSUME NEW q \in Procs, Bind(q) PROVE FALSE
  <2>1. q = p
    BY <1>1, <1>2 DEF Bind, Holding
  <2> QED
    BY <1>2, <2>1 DEF Bind
<1>3. ASSUME NEW q \in Procs, Shutdown(q) \/ Interrupted(q) PROVE FALSE
  <2>1. q = p
    BY <1>1, <1>3 DEF Shutdown, Interrupted, Holding
  <2>2. pc'[p] # "serving"
    BY <1>3, <2>1 DEF Shutdown, Interrupted, Goto, Consistent, TypeOK
  <2> QED
    BY <2>2
<1>4. ASSUME NEW q \in Procs, Exit(q)
      PROVE  \E r \in Procs : pc[r] = "unlocked" /\ Conns(r) # {}
  BY <1>4 DEF Exit
<1>5. ASSUME NEW c \in Clients, Disconnect(c)
      PROVE  \E r \in Procs : pc[r] = "unlocked" /\ Conns(r) # {}
  <2>1. Conns(conn[c]) = {c} /\ pc[conn[c]] # "serving"
    BY <1>5 DEF Disconnect
  <2>2. conn[c] \in Procs /\ pc[conn[c]] \in Up
    BY <1>5 DEF Disconnect, Consistent, TypeOK, Alive
  <2>3. pc[conn[c]] # "draining"
    BY <1>1, <2>2 DEF Holding
  <2> QED
    BY <2>1, <2>2, <2>3 DEF Up
<1>6. ASSUME NEW q \in Procs,
             \/ Start(q) \/ Acquire(q) \/ InitFails(q) \/ Work(q) \/ WorkEnds(q)
             \/ Drained(q) \/ Crash(q)
      PROVE  FALSE
  BY <1>6 DEF Start, Acquire, InitFails, Work, WorkEnds, Drained, Crash
<1>7. ASSUME NEW c \in Clients, NEW q \in Procs, Connect(c, q) PROVE FALSE
  BY <1>7 DEF Connect
<1> QED
  BY <1>2, <1>3, <1>4, <1>5, <1>6, <1>7 DEF Next

\* The socket file of a serving agent is unlinked by nobody else than an agent
\* that has released the lock with a connection still open (server.rs, Drop
\* for IpcServerInner).
THEOREM SocketIsSafe == Spec => OnlyLeaversUnlink
<1>1. Consistent /\ [Next]_vars =>
        [\A p \in Procs : pc[p] = "serving" /\ pc'[p] = "serving" /\ path = p /\ path' # p
            => \E q \in Procs : pc[q] = "unlocked" /\ Conns(q) # {}]_vars
  BY UnlinkStep
<1> QED
  BY <1>1, ProcessConsistent, PTL DEF Spec, OnlyLeaversUnlink

-----------------------------------------------------------------------------
(* The named pipe.                                                         *)

\* A step opens the pipe for a process only if that had it open already, or if
\* nobody had.
LEMMA OpenStep ==
    ASSUME Consistent, Next, NamedPipe, NEW p \in Procs, ~Open(p), Open(p)'
    PROVE  /\ \A q \in Procs : ~Open(q)
           /\ \A q \in Procs : q # p => ~Open(q)'
<1>1. \/ pc'[p] = "serving" /\ pc[p] # "serving"
      \/ \E c \in Clients : conn'[c] = p /\ conn[c] # p
  BY DEF Open, Conns
<1>2. \A c \in Clients, q \in Procs : Connect(c, q) => UNCHANGED pc /\ q # p
                                        /\ \A d \in Clients : conn'[d] = p => conn[d] = p
  BY DEF Connect, Open, Consistent, TypeOK
<1>3. PICK q \in Procs : Bind(q) /\ q = p
  <2>1. ASSUME NEW q \in Procs,
               \/ Start(q) \/ Acquire(q) \/ InitFails(q) \/ Work(q) \/ WorkEnds(q)
               \/ Shutdown(q) \/ Drained(q) \/ Interrupted(q)
        PROVE  FALSE
    BY <1>1, <2>1 DEF Start, Acquire, InitFails, Work, WorkEnds, Shutdown, Drained,
                      Interrupted, Goto, Consistent, TypeOK
  <2>2. ASSUME NEW q \in Procs, Exit(q) \/ Crash(q) PROVE FALSE
    BY <1>1, <2>2, ProcAssumption DEF Exit, Crash, Goto, LoseConns, Consistent, TypeOK
  <2>3. ASSUME NEW c \in Clients, Disconnect(c) PROVE FALSE
    BY <1>1, <2>3, ProcAssumption DEF Disconnect, Consistent, TypeOK
  <2>4. ASSUME NEW q \in Procs, Bind(q) PROVE q = p
    BY <1>1, <2>4 DEF Bind, Goto, Consistent, TypeOK
  <2> QED
    BY <1>1, <1>2, <2>1, <2>2, <2>3, <2>4 DEF Next
<1>4. \A r \in Procs : ~Open(r)
  BY <1>3 DEF Bind
<1>5. ASSUME NEW r \in Procs, r # p PROVE ~Open(r)'
  BY <1>3, <1>4, <1>5 DEF Bind, Goto, Open, Conns, Consistent, TypeOK
<1> QED
  BY <1>4, <1>5

\* A named pipe has one owner: an agent that serves, or one that leaves with
\* connections open (server.rs, first_pipe_instance).
THEOREM PipeHasOneOwner == Spec => []PipeIsExclusive
<1>1. Init => PipeIsExclusive
  BY ProcAssumption DEF Init, PipeIsExclusive, Open, Conns
<1>2. ASSUME Consistent, PipeIsExclusive, [Next]_vars
      PROVE  PipeIsExclusive'
  <2>1. CASE UNCHANGED vars
    BY <1>2, <2>1 DEF vars, PipeIsExclusive, Open, Conns
  <2>2. CASE Next
    <3> SUFFICES ASSUME NamedPipe, NEW p \in Procs, NEW q \in Procs, Open(p)', Open(q)'
                 PROVE  p = q
      BY DEF PipeIsExclusive
    <3>1. CASE ~Open(p)
      BY <1>2, <2>2, <3>1, OpenStep
    <3>2. CASE ~Open(q)
      BY <1>2, <2>2, <3>2, OpenStep
    <3>3. CASE Open(p) /\ Open(q)
      BY <1>2, <3>3 DEF PipeIsExclusive
    <3> QED
      BY <3>1, <3>2, <3>3
  <2> QED
    BY <1>2, <2>1, <2>2
<1> QED
  BY <1>1, <1>2, ProcessConsistent, PTL DEF Spec

\* The state of the lock, the uniqueness of the agent and the bounded overlap of
\* writers, as the run parts checks them (lock.rs, main.rs, server.rs).
THEOREM ProcessesAreSafe == Spec => []ProcessSafe
<1>1. Consistent /\ OneAgent /\ TwoWritersOnlyWhileLeaving => ProcessSafe
  BY DEF ProcessSafe
<1> QED
  BY <1>1, ProcessConsistent, AgentIsUnique, WritersOverlapOnlyWhileLeaving, PTL

\* The processes are safe beside the other parts, with which they share nothing
\* (main.rs, server.rs).
THEOREM PartsAreSafe == PartsSpec => []ProcessSafe /\ OnlyLeaversUnlink
<1>1. PartsInit => Init
  BY DEF PartsInit
<1>2. [PartsNext]_<<part, vars, winVars, macVars, probeVars, modeVars, viewVars>> => [Next]_vars
  BY DEF PartsNext
<1>3. PartsSpec => Spec
  BY <1>1, <1>2, PTL DEF PartsSpec, Spec
<1> QED
  BY <1>3, ProcessesAreSafe, SocketIsSafe

-----------------------------------------------------------------------------
(* The switch of the startup mode, on either platform.                     *)

Switch(Os, First) == INSTANCE StartupMode WITH Platform <- Os, FirstStart <- First

\* The settings chain has no result before it ends; the migration switches to
\* login only.
ModeInv ==
    /\ MacMode!TypeOK
    /\ flow["settings"].at # "idle" => result = "none"
    /\ flow["migrate"].mode = "login"
    /\ MacMode!LoginItemSurvives

\* What a step of a chain changes: one chain, which goes on or ends.
ChainMoves(f, to) ==
    /\ flow[f].at # "idle"
    /\ flow' = [flow EXCEPT ![f].at = to]
    /\ to \in {"install", "poll", "wait", "rollback"} => flow[f].mode = "boot"
    /\ \/ to # "idle" /\ UNCHANGED <<key, shown, result>>
       \/ /\ to = "idle" /\ key' \in BOOLEAN
          /\ IF f = "settings" THEN /\ result' \in {"ok", "failed"}
                                    /\ shown' \in {flow[f].mode, prev}
             ELSE UNCHANGED <<shown, result>>
    /\ UNCHANGED <<prev, orig, restarts, stray, alone>>

Places == {"idle", "query", "install", "poll", "wait", "uninstall", "prepare", "item", "rollback"}
Service == [installed : BOOLEAN, loaded : BOOLEAN]
Strays == [{"settings", "migrate"} -> {"none", "install", "uninstall", "prepare"}]

\* What an elevated command leaves behind.
Outcome == [svc : Service, writable : BOOLEAN, ok : BOOLEAN]

\* The elevated commands leave a service and a directory behind.
LEMMA OutcomesTyped ==
    ASSUME NEW os, NEW first, svc \in Service, writable \in BOOLEAN
    PROVE  /\ \A o \in Switch(os, first)!InstallOutcomes : o.svc \in Service /\ o.writable \in BOOLEAN
           /\ \A o \in Switch(os, first)!UninstallOutcomes : o.svc \in Service /\ o.writable \in BOOLEAN
  <1>1. \A v \in Service, w, ok \in BOOLEAN : Switch(os, first)!Left(v, w, ok) \in Outcome
    BY DEF Switch!Left, Outcome
  <1>2. \A l \in BOOLEAN : /\ Switch(os, first)!Registered(l) \in Service
                           /\ Switch(os, first)!Absent(l) \in Service
    BY DEF Switch!Registered, Switch!Absent, Service
  <1>3. svc.loaded \in BOOLEAN /\ [svc EXCEPT !.loaded = FALSE] \in Service
    BY DEF Service
  <1>4. /\ Switch(os, first)!MacosInstallScript \subseteq Outcome
        /\ Switch(os, first)!InstallServiceCmd \subseteq Outcome
    BY <1>1, <1>2, <1>3 DEF Switch!MacosInstallScript, Switch!InstallServiceCmd
  <1>5. /\ Switch(os, first)!MacosUninstallScript \subseteq Outcome
        /\ Switch(os, first)!UninstallServiceCmd \subseteq Outcome
    BY <1>1, <1>2, <1>3 DEF Switch!MacosUninstallScript, Switch!UninstallServiceCmd
  <1>6. ASSUME NEW S \in SUBSET Outcome
        PROVE  Switch(os, first)!ElevatedPs(S) \subseteq Outcome
    <2>1. \A o \in Outcome : [o EXCEPT !.ok = TRUE] \in Outcome
      BY DEF Outcome
    <2>2. \A o \in S : [o EXCEPT !.ok = TRUE] \in Outcome
      BY <2>1
    <2>3. {[o EXCEPT !.ok = TRUE] : o \in S} \subseteq Outcome
      BY <2>2
    <2>4. Switch(os, first)!Left(svc, writable, FALSE) \in Outcome
      BY <1>1
    <2> QED
      BY <2>3, <2>4 DEF Switch!ElevatedPs
  <1>7. Switch(os, first)!InstallOutcomes \subseteq Outcome
    BY <1>4, <1>6 DEF Switch!InstallOutcomes
  <1>8. Switch(os, first)!UninstallOutcomes \subseteq Outcome
    <2>1. {Switch(os, first)!Left(svc, writable, TRUE)} \subseteq Outcome
      BY <1>1
    <2> QED
      BY <1>5, <1>6, <2>1 DEF Switch!UninstallOutcomes
  <1> QED
    BY <1>7, <1>8 DEF Outcome

\* Each step of a chain moves it, and the login item is touched by the last
\* step alone, whose success ends the chain.
LEMMA ChainStep ==
    ASSUME NEW os, NEW first, ModeInv, NEW f \in {"settings", "migrate"},
           Switch(os, first)!Step(f)
    PROVE  /\ svc' \in Service /\ writable' \in BOOLEAN
           /\ \E to \in Places : ChainMoves(f, to)
           /\ \/ login' = login
              \/ /\ login' = (flow[f].mode = "login")
                 /\ f = "settings" => result' = "ok"
  <1> DEFINE Goal == /\ svc' \in Service /\ writable' \in BOOLEAN
                     /\ \E to \in Places : ChainMoves(f, to)
                     /\ \/ login' = login
                        \/ /\ login' = (flow[f].mode = "login")
                           /\ f = "settings" => result' = "ok"
  <1> USE DEF Switch!At
  <1>1. /\ svc \in Service /\ writable \in BOOLEAN /\ key \in BOOLEAN
        /\ flow[f].at \in {"install", "poll", "wait", "rollback"} => flow[f].mode = "boot"
    BY DEF ModeInv, MacMode!TypeOK, Service, MacMode!Chains
  <1>2. ASSUME NEW to \in Places, to # "idle", Switch(os, first)!Continue(f, to),
               to \in {"install", "poll", "wait", "rollback"} => flow[f].mode = "boot",
               flow[f].at # "idle"
        PROVE  ChainMoves(f, to)
    BY <1>2 DEF ChainMoves, Switch!Continue, Switch!Goto, Switch!strays
  <1>3. ASSUME NEW ok \in BOOLEAN, Switch(os, first)!Finish(f, ok), flow[f].at # "idle"
        PROVE  /\ ChainMoves(f, "idle")
               /\ f = "settings" /\ ok => result' = "ok"
    BY <1>1, <1>3 DEF ChainMoves, Switch!Finish, Switch!Goto, Switch!strays
  <1>4. ASSUME Switch(os, first)!Fail(f), flow[f].at # "idle"
        PROVE  \E to \in Places : ChainMoves(f, to)
    BY <1>2, <1>3, <1>4 DEF Switch!Fail, Places
  <1>5. CASE Switch(os, first)!ServiceInstall(f)
    <2>1. svc' \in Service /\ writable' \in BOOLEAN /\ login' = login
      BY <1>1, <1>5, OutcomesTyped DEF Switch!ServiceInstall
    <2>2. \E to \in Places : ChainMoves(f, to)
      BY <1>1, <1>2, <1>3, <1>5 DEF Switch!ServiceInstall, Places
    <2> QED
      BY <2>1, <2>2
  <1>6. CASE Switch(os, first)!Poll(f) \/ Switch(os, first)!WaitRunning(f)
    <2>1. UNCHANGED <<svc, writable, login>>
      BY <1>6 DEF Switch!Poll, Switch!WaitRunning
    <2>2. \E to \in Places : ChainMoves(f, to)
      BY <1>1, <1>2, <1>3, <1>6 DEF Switch!Poll, Switch!WaitRunning, Places
    <2> QED
      BY <1>1, <2>1, <2>2
  <1>7. CASE Switch(os, first)!Rollback(f)
    <2>1. svc' \in Service /\ UNCHANGED <<writable, login>>
      BY <1>1, <1>7, OutcomesTyped DEF Switch!Rollback
    <2>2. ChainMoves(f, "idle")
      BY <1>3, <1>7 DEF Switch!Rollback
    <2> QED
      BY <1>1, <2>1, <2>2 DEF Places
  <1>8. CASE Switch(os, first)!ServiceUninstall(f)
    <2>1. svc' \in Service /\ UNCHANGED <<writable, login>>
      BY <1>1, <1>8, OutcomesTyped DEF Switch!ServiceUninstall
    <2>2. \E to \in Places : ChainMoves(f, to)
      BY <1>2, <1>3, <1>8 DEF Switch!ServiceUninstall, Places
    <2> QED
      BY <1>1, <2>1, <2>2
  <1>9. CASE Switch(os, first)!PrepareDataDir(f)
    <2>1. writable' \in BOOLEAN /\ UNCHANGED <<svc, login>>
      BY <1>1, <1>9 DEF Switch!PrepareDataDir
    <2>2. \E to \in Places : ChainMoves(f, to)
      BY <1>2, <1>4, <1>9 DEF Switch!PrepareDataDir, Places
    <2> QED
      BY <1>1, <2>1, <2>2
  <1>10. CASE Switch(os, first)!LoginItem(f)
    <2>1. UNCHANGED <<svc, writable>> /\ flow[f].at # "idle"
      BY <1>10 DEF Switch!LoginItem
    <2>2. CASE login' = (flow[f].mode = "login") /\ Switch(os, first)!Finish(f, TRUE)
      BY <1>1, <1>3, <2>1, <2>2 DEF Places
    <2>3. CASE login' = login /\ Switch(os, first)!Fail(f)
      BY <1>1, <1>4, <2>1, <2>3
    <2> QED
      BY <1>10, <2>2, <2>3 DEF Switch!LoginItem
  <1> QED
    BY <1>5, <1>6, <1>7, <1>8, <1>9, <1>10 DEF Switch!Step

\* The types, in the terms of the lemmas above.
LEMMA SwitchTypes ==
    ModeInv <=> /\ svc \in Service /\ login \in BOOLEAN /\ writable \in BOOLEAN /\ key \in BOOLEAN
                /\ flow \in [{"settings", "migrate"} -> [at : Places, mode : MacMode!Modes]]
                /\ \A f \in {"settings", "migrate"} :
                      flow[f].at \in {"install", "poll", "wait", "rollback"} => flow[f].mode = "boot"
                /\ shown \in MacMode!Modes /\ prev \in MacMode!Modes /\ orig \in MacMode!Modes
                /\ result \in {"none", "ok", "failed", "dropped"}
                /\ restarts \in 0 .. MaxRestarts
                /\ flow["settings"].at # "idle" => result = "none"
                /\ flow["migrate"].mode = "login"
                /\ flow["settings"].mode = "boot" /\ orig = "login" /\ result # "ok" => login
                /\ stray \in Strays /\ alone \in BOOLEAN
BY DEF ModeInv, MacMode!TypeOK, Service, Places, Strays, MacMode!Chains, MacMode!Scripts,
   MacMode!LoginItemSurvives

\* Every step keeps the login item of a switch to boot that has not succeeded.
LEMMA ModeStep ==
    ASSUME NEW os, NEW first, ModeInv, Switch(os, first)!Next
    PROVE  ModeInv'
<1> USE DEF MacMode!Modes
<1>1. /\ svc \in Service /\ login \in BOOLEAN /\ writable \in BOOLEAN /\ key \in BOOLEAN
      /\ flow \in [{"settings", "migrate"} -> [at : Places, mode : MacMode!Modes]]
      /\ \A f \in {"settings", "migrate"} :
            flow[f].at \in {"install", "poll", "wait", "rollback"} => flow[f].mode = "boot"
      /\ shown \in MacMode!Modes /\ prev \in MacMode!Modes /\ orig \in MacMode!Modes
      /\ result \in {"none", "ok", "failed", "dropped"}
      /\ restarts \in 0 .. MaxRestarts
      /\ flow["settings"].at # "idle" => result = "none"
      /\ flow["migrate"].mode = "login"
      /\ flow["settings"].mode = "boot" /\ orig = "login" /\ result # "ok" => login
      /\ stray \in Strays /\ alone \in BOOLEAN
  BY SwitchTypes
\* The invariant of the next state, in the same terms.
<1>2. ASSUME svc' \in Service /\ login' \in BOOLEAN /\ writable' \in BOOLEAN /\ key' \in BOOLEAN,
             flow' \in [{"settings", "migrate"} -> [at : Places, mode : MacMode!Modes]],
             \A f \in {"settings", "migrate"} :
                flow'[f].at \in {"install", "poll", "wait", "rollback"} => flow'[f].mode = "boot",
             shown' \in MacMode!Modes /\ prev' \in MacMode!Modes /\ orig' \in MacMode!Modes,
             result' \in {"none", "ok", "failed", "dropped"},
             restarts' \in 0 .. MaxRestarts,
             flow'["settings"].at # "idle" => result' = "none",
             flow'["migrate"].mode = "login",
             flow'["settings"].mode = "boot" /\ orig' = "login" /\ result' # "ok" => login',
             stray' \in Strays, alone' \in BOOLEAN
      PROVE  ModeInv'
  BY <1>2 DEF ModeInv, MacMode!TypeOK, Service, Places, Strays, MacMode!Chains, MacMode!Scripts,
     MacMode!LoginItemSurvives
<1>3. Switch(os, first)!Mode \in MacMode!Modes /\ (Switch(os, first)!Mode = "login" => login)
  BY DEF Switch!Mode, Switch!DeriveMode
<1>4. ASSUME NEW m \in Switch(os, first)!Modes, Switch(os, first)!PickMode(m)
      PROVE  ModeInv'
  <2> DEFINE began == [at |-> Switch(os, first)!FirstCall(m), mode |-> m]
  <2>1. m \in MacMode!Modes
    BY DEF Switch!Modes
  <2>2. /\ began \in [at : Places, mode : MacMode!Modes] /\ began.mode = m
        /\ began.at \in {"install", "poll", "wait", "rollback"} => m = "boot"
    BY <2>1 DEF Switch!FirstCall, Places
  <2>3. /\ flow' = [flow EXCEPT !["settings"] = began]
        /\ shown' = m /\ prev' = m /\ orig' = Switch(os, first)!Mode /\ result' = "none"
        /\ alone' \in BOOLEAN
        /\ UNCHANGED <<svc, login, writable, key, restarts, stray>>
    BY <1>4 DEF Switch!PickMode
  <2> HIDE DEF began
  <2>4. flow' \in [{"settings", "migrate"} -> [at : Places, mode : MacMode!Modes]]
        /\ flow'["settings"] = began /\ flow'["migrate"] = flow["migrate"]
    BY <1>1, <2>2, <2>3
  <2> QED
    BY <1>1, <1>2, <1>3, <2>1, <2>2, <2>3, <2>4
<1>5. CASE Switch(os, first)!Migrate
  <2> DEFINE begun == [at |-> "uninstall", mode |-> "login"]
  <2>1. /\ key' \in BOOLEAN
        /\ UNCHANGED <<svc, login, writable, shown, prev, orig, result, restarts, stray, alone>>
        /\ \/ flow' = [flow EXCEPT !["migrate"] = begun]
           \/ flow' = [flow EXCEPT !["migrate"].at = "idle"]
    BY <1>1, <1>5 DEF Switch!Migrate, Switch!Goto, Switch!strays
  <2>2. begun \in [at : Places, mode : MacMode!Modes] /\ begun.mode = "login"
        /\ begun.at = "uninstall"
    BY DEF Places
  <2> HIDE DEF begun
  <2>3. CASE flow' = [flow EXCEPT !["migrate"] = begun]
    <3>1. flow' \in [{"settings", "migrate"} -> [at : Places, mode : MacMode!Modes]]
          /\ flow'["settings"] = flow["settings"] /\ flow'["migrate"] = begun
      BY <1>1, <2>2, <2>3
    <3> QED
      BY <1>1, <1>2, <2>1, <2>2, <3>1
  <2>4. CASE flow' = [flow EXCEPT !["migrate"].at = "idle"]
    <3>1. flow' \in [{"settings", "migrate"} -> [at : Places, mode : MacMode!Modes]]
          /\ flow'["settings"] = flow["settings"]
          /\ flow'["migrate"].mode = "login" /\ flow'["migrate"].at = "idle"
      BY <1>1, <2>4 DEF Places
    <3> QED
      BY <1>1, <1>2, <2>1, <3>1
  <2> QED
    BY <2>1, <2>3, <2>4
<1>6. ASSUME NEW f \in {"settings", "migrate"}, Switch(os, first)!Step(f)
      PROVE  ModeInv'
  <2>1. /\ svc' \in Service /\ writable' \in BOOLEAN
        /\ \/ login' = login
           \/ /\ login' = (flow[f].mode = "login")
              /\ f = "settings" => result' = "ok"
    BY <1>6, ChainStep
  <2>2. PICK to \in Places : ChainMoves(f, to)
    BY <1>6, ChainStep
  <2>3. /\ flow' \in [{"settings", "migrate"} -> [at : Places, mode : MacMode!Modes]]
        /\ \A g \in {"settings", "migrate"} : flow'[g].mode = flow[g].mode
        /\ \A g \in {"settings", "migrate"} : flow'[g].at = IF g = f THEN to ELSE flow[g].at
    BY <1>1, <2>2 DEF ChainMoves
  <2>4. /\ key' \in BOOLEAN /\ shown' \in MacMode!Modes
        /\ result' \in {"none", "ok", "failed", "dropped"}
        /\ UNCHANGED <<prev, orig, restarts, stray, alone>>
    BY <1>1, <2>2 DEF ChainMoves
  <2>5. flow'["settings"].at # "idle" => result' = "none"
    BY <1>1, <2>2, <2>3 DEF ChainMoves
  <2>6. ASSUME flow'["settings"].mode = "boot", orig' = "login", result' # "ok"
        PROVE  login'
    <3>1. flow["settings"].mode = "boot" /\ orig = "login"
      BY <2>3, <2>4, <2>6
    <3>2. CASE f = "migrate"
      <4>1. result' = result /\ flow[f].mode = "login"
        BY <1>1, <2>2, <3>2 DEF ChainMoves
      <4>2. login' = login \/ login' = (flow[f].mode = "login")
        BY <2>1
      <4>3. CASE login' = login
        BY <1>1, <2>6, <3>1, <4>1, <4>3
      <4>4. CASE login' = (flow[f].mode = "login")
        BY <4>1, <4>4
      <4> QED
        BY <4>2, <4>3, <4>4
    <3>3. CASE f = "settings"
      <4>1. result = "none" /\ login' = login
        BY <1>1, <2>1, <2>2, <2>6, <3>3 DEF ChainMoves
      <4> QED
        BY <1>1, <3>1, <4>1
    <3> QED
      BY <3>2, <3>3
  <2>7. \A g \in {"settings", "migrate"} :
           flow'[g].at \in {"install", "poll", "wait", "rollback"} => flow'[g].mode = "boot"
    BY <1>1, <2>2, <2>3 DEF ChainMoves
  <2>8. login' \in BOOLEAN
    BY <1>1, <2>1
  <2> QED
    BY <1>1, <1>2, <2>1, <2>3, <2>4, <2>5, <2>6, <2>7, <2>8
<1>7. CASE Switch(os, first)!ServiceChanges
  <2>1. svc' \in Service
        /\ UNCHANGED <<login, writable, key, flow, shown, prev, orig, result, restarts, stray, alone>>
    BY <1>1, <1>7 DEF Switch!ServiceChanges, Switch!strays, Service
  <2> QED
    BY <1>1, <1>2, <2>1
<1>8. CASE Switch(os, first)!Reopen
  <2>1. /\ flow' = [settings |-> Switch(os, first)!Idle,
                    migrate |-> [Switch(os, first)!Idle EXCEPT !.at = "query"]]
        /\ shown' = Switch(os, first)!Mode /\ prev' = shown' /\ orig' = shown'
        /\ result' \in {"none", "dropped"}
        /\ UNCHANGED <<svc, login, writable, key, alone>>
    BY <1>8 DEF Switch!Reopen
  <2>2. restarts' \in 0 .. MaxRestarts
    BY <1>1, <1>8, ViewAssumption DEF Switch!Reopen
  <2>3. /\ flow' \in [{"settings", "migrate"} -> [at : Places, mode : MacMode!Modes]]
        /\ \A f \in {"settings", "migrate"} : flow'[f].mode = "login"
        /\ flow'["settings"].at = "idle" /\ flow'["migrate"].at = "query"
    BY <2>1 DEF Switch!Idle, Places
  <2>4. stray' \in Strays
    <3>1. \A f \in {"settings", "migrate"} :
             Switch(os, first)!Script(f) \in {"none", "install", "uninstall", "prepare"}
      BY DEF Switch!Script
    <3>2. stray' = [f \in {"settings", "migrate"} |->
                      IF Switch(os, first)!Script(f) = "none" THEN stray[f]
                      ELSE Switch(os, first)!Script(f)]
      BY <1>8 DEF Switch!Reopen, Switch!Chains
    <3> QED
      BY <1>1, <3>1, <3>2 DEF Strays
  <2> QED
    BY <1>1, <1>2, <1>3, <2>1, <2>2, <2>3, <2>4
<1>9. CASE Switch(os, first)!StrayLands
  <2>1. PICK f \in {"settings", "migrate"} :
           /\ \/ \E o \in Switch(os, first)!InstallOutcomes : svc' = o.svc /\ writable' = o.writable
              \/ \E o \in Switch(os, first)!UninstallOutcomes : svc' = o.svc /\ writable' = o.writable
              \/ svc' = svc /\ writable' \in {writable, TRUE}
           /\ stray' = [stray EXCEPT ![f] = "none"]
    BY <1>9 DEF Switch!StrayLands, Switch!Chains
  <2>2. svc' \in Service /\ writable' \in BOOLEAN
    <3>1. svc \in Service /\ writable \in BOOLEAN
      BY <1>1
    <3>2. /\ \A o \in Switch(os, first)!InstallOutcomes : o.svc \in Service /\ o.writable \in BOOLEAN
          /\ \A o \in Switch(os, first)!UninstallOutcomes : o.svc \in Service /\ o.writable \in BOOLEAN
      BY <3>1, OutcomesTyped
    <3> QED
      BY <2>1, <3>1, <3>2
  <2>3. stray' \in Strays
    BY <1>1, <2>1 DEF Strays
  <2>4. UNCHANGED <<login, key, flow, shown, prev, orig, result, restarts, alone>>
    BY <1>9 DEF Switch!StrayLands
  <2> QED
    BY <1>1, <1>2, <2>2, <2>3, <2>4
<1> QED
  BY <1>4, <1>5, <1>6, <1>7, <1>8, <1>9 DEF Switch!Next, Switch!Chains

\* The switch of macOS is one of these ...
LEMMA MacSwitch ==
    /\ MacMode!Init => Switch("macos", FALSE)!Init
    /\ MacMode!Next => Switch("macos", FALSE)!Next
  BY DEF MacMode!Init, Switch!Init, MacMode!At, Switch!At, MacMode!Goto, Switch!Goto,
     MacMode!FirstCall, Switch!FirstCall, MacMode!Finish, Switch!Finish,
     MacMode!Continue, Switch!Continue, MacMode!Left, Switch!Left, MacMode!Registered,
     Switch!Registered, MacMode!Absent, Switch!Absent, MacMode!MacosInstallScript,
     Switch!MacosInstallScript, MacMode!InstallServiceCmd, Switch!InstallServiceCmd,
     MacMode!ElevatedPs, Switch!ElevatedPs, MacMode!InstallOutcomes,
     Switch!InstallOutcomes, MacMode!MacosUninstallScript, Switch!MacosUninstallScript,
     MacMode!UninstallServiceCmd, Switch!UninstallServiceCmd, MacMode!UninstallOutcomes,
     Switch!UninstallOutcomes, MacMode!Fail, Switch!Fail, MacMode!Mode, Switch!Mode,
     MacMode!DeriveMode, Switch!DeriveMode, MacMode!Running, Switch!Running,
     MacMode!Idle, Switch!Idle, MacMode!Modes, Switch!Modes, MacMode!Chains,
     Switch!Chains, MacMode!PickMode, Switch!PickMode, MacMode!Migrate, Switch!Migrate,
     MacMode!ServiceInstall, Switch!ServiceInstall, MacMode!Poll, Switch!Poll,
     MacMode!WaitRunning, Switch!WaitRunning, MacMode!ServiceUninstall,
     Switch!ServiceUninstall, MacMode!Rollback, Switch!Rollback, MacMode!PrepareDataDir,
     Switch!PrepareDataDir, MacMode!LoginItem, Switch!LoginItem, MacMode!Step,
     Switch!Step, MacMode!ServiceChanges, Switch!ServiceChanges, MacMode!Reopen,
     Switch!Reopen, MacMode!StrayLands, Switch!StrayLands, MacMode!Script, Switch!Script,
     MacMode!NoStray, Switch!NoStray, MacMode!strays, Switch!strays, MacMode!Next, Switch!Next

\* ... and so is that of Windows.
LEMMA WinSwitch ==
    /\ WinMode!Init => Switch("windows", TRUE)!Init
    /\ WinMode!Next => Switch("windows", TRUE)!Next
  BY DEF WinMode!Init, Switch!Init, WinMode!At, Switch!At, WinMode!Goto, Switch!Goto,
     WinMode!FirstCall, Switch!FirstCall, WinMode!Finish, Switch!Finish,
     WinMode!Continue, Switch!Continue, WinMode!Left, Switch!Left, WinMode!Registered,
     Switch!Registered, WinMode!Absent, Switch!Absent, WinMode!MacosInstallScript,
     Switch!MacosInstallScript, WinMode!InstallServiceCmd, Switch!InstallServiceCmd,
     WinMode!ElevatedPs, Switch!ElevatedPs, WinMode!InstallOutcomes,
     Switch!InstallOutcomes, WinMode!MacosUninstallScript, Switch!MacosUninstallScript,
     WinMode!UninstallServiceCmd, Switch!UninstallServiceCmd, WinMode!UninstallOutcomes,
     Switch!UninstallOutcomes, WinMode!Fail, Switch!Fail, WinMode!Mode, Switch!Mode,
     WinMode!DeriveMode, Switch!DeriveMode, WinMode!Running, Switch!Running,
     WinMode!Idle, Switch!Idle, WinMode!Modes, Switch!Modes, WinMode!Chains,
     Switch!Chains, WinMode!PickMode, Switch!PickMode, WinMode!Migrate, Switch!Migrate,
     WinMode!ServiceInstall, Switch!ServiceInstall, WinMode!Poll, Switch!Poll,
     WinMode!WaitRunning, Switch!WaitRunning, WinMode!ServiceUninstall,
     Switch!ServiceUninstall, WinMode!Rollback, Switch!Rollback, WinMode!PrepareDataDir,
     Switch!PrepareDataDir, WinMode!LoginItem, Switch!LoginItem, WinMode!Step,
     Switch!Step, WinMode!ServiceChanges, Switch!ServiceChanges, WinMode!Reopen,
     Switch!Reopen, WinMode!StrayLands, Switch!StrayLands, WinMode!Script, Switch!Script,
     WinMode!NoStray, Switch!NoStray, WinMode!strays, Switch!strays, WinMode!Next, Switch!Next

\* The start mode is one of the three before the application runs.
LEMMA ModeInit ==
    ASSUME NEW os, NEW first \in BOOLEAN, Switch(os, first)!Init
    PROVE  ModeInv
<1> USE DEF MacMode!Modes
<1>1. /\ svc \in Service /\ login \in BOOLEAN /\ writable \in BOOLEAN /\ key \in BOOLEAN
      /\ shown \in MacMode!Modes /\ prev = shown /\ orig = shown
      /\ result = "none" /\ restarts = 0
  BY DEF Switch!Init, Switch!Mode, Switch!DeriveMode, Service
<1>2. /\ flow \in [{"settings", "migrate"} -> [at : Places, mode : MacMode!Modes]]
      /\ \A f \in {"settings", "migrate"} : flow[f].mode = "login"
      /\ flow["settings"].at = "idle" /\ flow["migrate"].at = "query"
  BY DEF Switch!Init, Switch!Idle, Places
<1>3. 0 \in 0 .. MaxRestarts
  BY ViewAssumption
<1>4. stray \in Strays /\ alone \in BOOLEAN
  BY DEF Switch!Init, Switch!NoStray, Switch!Chains, Strays
<1> QED
  BY <1>1, <1>2, <1>3, <1>4, SwitchTypes

\* On macOS, where the migration was done before, nothing moves beside the
\* settings chain unless it began beside a script that outlived the application,
\* and its last steps know what the ones before have reached.
MacModeInv ==
    /\ key = TRUE /\ flow["migrate"].at \in {"query", "idle"}
    /\ flow["settings"].at = "uninstall" => flow["settings"].mode # "boot"
    /\ alone /\ flow["settings"].at # "idle" => \A f \in {"settings", "migrate"} : stray[f] = "none"
    /\ alone /\ flow["settings"].at \in {"prepare", "item"} =>
          (svc.installed <=> flow["settings"].mode = "boot")

\* A step of the settings chain reaches what the later ones rely on, and
\* succeeds only in the mode it was asked for.
LEMMA SettingsStep ==
    ASSUME ModeInv, MacModeInv, Switch("macos", FALSE)!Step("settings")
    PROVE  MacModeInv' /\ MacMode!ReachesMode
<1> DEFINE mode == flow["settings"].mode
<1>1. /\ svc \in Service /\ login \in BOOLEAN /\ mode \in {"boot", "login", "disabled"}
      /\ flow \in [{"settings", "migrate"} -> [at : Places, mode : MacMode!Modes]]
      /\ flow["settings"].at \in {"install", "poll", "wait", "rollback"} => mode = "boot"
      /\ result \in {"none", "ok", "failed", "dropped"}
  BY SwitchTypes DEF MacMode!Modes
<1>2. PICK to \in Places : ChainMoves("settings", to)
  BY ChainStep
<1>3. /\ flow'["settings"].at = to /\ flow'["settings"].mode = mode
      /\ flow'["migrate"] = flow["migrate"]
  BY <1>1, <1>2 DEF ChainMoves
<1>4. key' = TRUE
  <2>1. key' = key \/ to = "idle"
    BY <1>2 DEF ChainMoves
  <2>2. UNCHANGED key
    BY DEF Switch!Step, Switch!ServiceInstall, Switch!Poll, Switch!WaitRunning, Switch!Rollback,
       Switch!ServiceUninstall, Switch!PrepareDataDir, Switch!LoginItem, Switch!Fail,
       Switch!Continue, Switch!Finish
  <2> QED
    BY <2>2 DEF MacModeInv
<1>5. result # "ok"
  BY <1>2 DEF ModeInv, ChainMoves
<1>6. ASSUME NEW next, Switch("macos", FALSE)!Continue("settings", next)
      PROVE  result' # "ok" /\ flow'["settings"].at = next
  BY <1>1, <1>5, <1>6 DEF Switch!Continue, Switch!Goto
<1>7. ASSUME NEW ok \in BOOLEAN, Switch("macos", FALSE)!Finish("settings", ok)
      PROVE  (result' = "ok" <=> ok) /\ flow'["settings"].at = "idle"
  BY <1>1, <1>7 DEF Switch!Finish, Switch!Goto
<1>8. ASSUME Switch("macos", FALSE)!Fail("settings")
      PROVE  result' # "ok" /\ flow'["settings"].at \in {"rollback", "idle"}
  BY <1>6, <1>7, <1>8 DEF Switch!Fail
<1> DEFINE Reached == /\ alone /\ (result' = "ok" \/ flow'["settings"].at \in {"prepare", "item"})
                            => (svc'.installed <=> mode = "boot")
                      /\ result' = "ok" => (login' <=> mode = "login")
                      /\ flow'["settings"].at # "uninstall"
<1>9. ASSUME Switch("macos", FALSE)!ServiceInstall("settings")
      PROVE  Reached
  <2>1. result' # "ok" /\ flow'["settings"].at \in {"poll", "idle"}
    BY <1>6, <1>7, <1>9 DEF Switch!ServiceInstall
  <2> QED
    BY <2>1
<1>10. ASSUME Switch("macos", FALSE)!Poll("settings")
      PROVE  Reached
  <2>1. result' # "ok" /\ flow'["settings"].at \in {"wait", "idle"}
    BY <1>6, <1>7, <1>10 DEF Switch!Poll
  <2> QED
    BY <2>1
<1>11. ASSUME Switch("macos", FALSE)!WaitRunning("settings")
      PROVE  Reached
  <2>1. /\ result' # "ok" /\ svc' = svc /\ mode = "boot"
        /\ \/ flow'["settings"].at = "prepare" /\ svc.installed
           \/ flow'["settings"].at = "rollback"
    BY <1>1, <1>6, <1>11 DEF Switch!WaitRunning, Switch!Running, Switch!At
  <2> QED
    BY <2>1
<1>12. ASSUME Switch("macos", FALSE)!Rollback("settings")
      PROVE  Reached
  <2>1. result' # "ok" /\ flow'["settings"].at = "idle"
    BY <1>7, <1>12 DEF Switch!Rollback
  <2> QED
    BY <2>1
<1>13. ASSUME Switch("macos", FALSE)!ServiceUninstall("settings")
      PROVE  Reached
  <2>1. PICK o \in Switch("macos", FALSE)!UninstallOutcomes :
           /\ svc' = o.svc
           /\ IF o.ok THEN Switch("macos", FALSE)!Continue("settings", "prepare")
              ELSE Switch("macos", FALSE)!Finish("settings", FALSE)
    BY <1>13 DEF Switch!ServiceUninstall
  <2>2. o.ok => ~o.svc.installed
    BY DEF Switch!UninstallOutcomes, Switch!MacosUninstallScript, Switch!Left, Switch!Absent
  <2>3. mode # "boot"
    BY <1>13 DEF Switch!ServiceUninstall, Switch!At, MacModeInv
  <2>4. result' # "ok"
    BY <1>6, <1>7, <2>1
  <2>5. flow'["settings"].at = IF o.ok THEN "prepare" ELSE "idle"
    BY <1>6, <1>7, <2>1
  <2> QED
    BY <2>1, <2>2, <2>3, <2>4, <2>5
<1>14. ASSUME Switch("macos", FALSE)!PrepareDataDir("settings")
      PROVE  Reached
  <2>1. /\ result' # "ok" /\ svc' = svc /\ (alone => (svc.installed <=> mode = "boot"))
        /\ flow'["settings"].at \in {"item", "rollback", "idle"}
    BY <1>6, <1>8, <1>14 DEF Switch!PrepareDataDir, Switch!At, MacModeInv
  <2> QED
    BY <2>1
<1>15. ASSUME Switch("macos", FALSE)!LoginItem("settings")
      PROVE  Reached
  <2>1. /\ svc' = svc /\ (alone => (svc.installed <=> mode = "boot"))
        /\ result' = "ok" => login' = (mode = "login")
        /\ flow'["settings"].at \in {"rollback", "idle"}
    BY <1>7, <1>8, <1>15 DEF Switch!LoginItem, Switch!At, MacModeInv
  <2> QED
    BY <2>1
<1>16. Reached
  <2> HIDE DEF Reached
  <2> QED
    BY <1>9, <1>10, <1>11, <1>12, <1>13, <1>14, <1>15 DEF Switch!Step
<1>17. alone /\ result' = "ok" => MacMode!Mode' = mode /\ ~(svc'.installed /\ login')
  BY <1>1, <1>16 DEF MacMode!Mode, MacMode!DeriveMode, MacMode!Running
<1>18. /\ flow["settings"].at # "idle" /\ UNCHANGED <<stray, alone>>
       /\ alone => \A f \in {"settings", "migrate"} : stray[f] = "none"
  BY <1>2 DEF ChainMoves, MacModeInv
<1> QED
  BY <1>3, <1>4, <1>16, <1>17, <1>18 DEF MacModeInv, MacMode!ReachesMode

\* The migration has nothing to do, and a new choice or a closed application
\* begins where nothing has been promised yet.
LEMMA MacModeStep ==
    ASSUME ModeInv, MacModeInv, Switch("macos", FALSE)!Next
    PROVE  MacModeInv' /\ MacMode!ReachesMode
<1>1. /\ flow \in [{"settings", "migrate"} -> [at : Places, mode : MacMode!Modes]]
      /\ result \in {"none", "ok", "failed", "dropped"}
      /\ flow["settings"].at # "idle" => result = "none"
  BY SwitchTypes
<1>2. ASSUME NEW m \in Switch("macos", FALSE)!Modes, Switch("macos", FALSE)!PickMode(m)
      PROVE  MacModeInv' /\ MacMode!ReachesMode
  <2> DEFINE began == [at |-> Switch("macos", FALSE)!FirstCall(m), mode |-> m]
  <2>1. /\ flow' = [flow EXCEPT !["settings"] = began]
        /\ result' = "none" /\ UNCHANGED <<key, stray>>
        /\ alone' => \A f \in {"settings", "migrate"} : stray[f] = "none"
    BY <1>2 DEF Switch!PickMode, Switch!NoStray, Switch!Chains
  <2>2. began.at = "install" \/ (began.at = "uninstall" /\ began.mode # "boot")
    BY DEF Switch!FirstCall
  <2> HIDE DEF began
  <2>3. flow'["settings"] = began /\ flow'["migrate"] = flow["migrate"]
    BY <1>1, <2>1
  <2> QED
    BY <2>1, <2>2, <2>3 DEF MacModeInv, MacMode!ReachesMode
<1>3. CASE Switch("macos", FALSE)!Migrate
  <2>1. /\ flow' = [flow EXCEPT !["migrate"].at = "idle"] /\ key' = TRUE
        /\ UNCHANGED <<svc, result, stray, alone>>
    BY <1>3 DEF Switch!Migrate, Switch!Goto, Switch!strays, MacModeInv
  <2>2. flow'["settings"] = flow["settings"] /\ flow'["migrate"].at = "idle"
    BY <1>1, <2>1
  <2> QED
    BY <2>1, <2>2 DEF MacModeInv, MacMode!ReachesMode
<1>4. ASSUME NEW f \in Switch("macos", FALSE)!Chains, Switch("macos", FALSE)!Step(f)
      PROVE  MacModeInv' /\ MacMode!ReachesMode
  <2>1. f # "migrate"
    BY <1>4 DEF MacModeInv, Switch!Step, Switch!ServiceInstall, Switch!Poll, Switch!WaitRunning,
       Switch!Rollback, Switch!ServiceUninstall, Switch!PrepareDataDir, Switch!LoginItem, Switch!At
  <2> QED
    BY <1>4, <2>1, SettingsStep DEF Switch!Chains
<1>5. ~ Switch("macos", FALSE)!ServiceChanges
  BY DEF Switch!ServiceChanges
<1>6. CASE Switch("macos", FALSE)!Reopen
  <2>1. /\ flow'["settings"].at = "idle" /\ flow'["migrate"].at = "query"
        /\ result' # "ok" /\ UNCHANGED key
    BY <1>6 DEF Switch!Reopen, Switch!Idle
  <2> QED
    BY <2>1 DEF MacModeInv, MacMode!ReachesMode
<1>7. CASE Switch("macos", FALSE)!StrayLands
  <2>1. PICK f \in {"settings", "migrate"} : stray[f] # "none"
    BY <1>7 DEF Switch!StrayLands, Switch!Chains
  <2>2. ~(alone /\ flow["settings"].at # "idle")
    BY <2>1 DEF MacModeInv
  <2>3. UNCHANGED <<key, flow, result, alone>>
    BY <1>7 DEF Switch!StrayLands
  <2> QED
    BY <2>2, <2>3 DEF MacModeInv, MacMode!ReachesMode
<1> QED
  BY <1>2, <1>3, <1>4, <1>5, <1>6, <1>7 DEF Switch!Next

\* At first both chains rest or are about to look, and the key is there.
LEMMA MacModeInit == Switch("macos", FALSE)!Init => MacModeInv
<1> SUFFICES ASSUME Switch("macos", FALSE)!Init PROVE MacModeInv
  OBVIOUS
<1>1. flow["settings"].at = "idle" /\ flow["migrate"].at = "query"
  BY DEF Switch!Init, Switch!Idle
<1>2. key <=> ~FALSE
  BY DEF Switch!Init
<1>3. key \in BOOLEAN
  BY DEF Switch!Init
<1> QED
  BY <1>1, <1>2, <1>3 DEF MacModeInv

\* A part moves alone.
LEMMA PartsStep ==
    ASSUME [PartsNext]_<<part, vars, winVars, macVars, probeVars, modeVars, viewVars>>
    PROVE  /\ part' = part
           /\ [Mac!Next]_macVars /\ [Win!Next]_winVars
           /\ part = "winprobe" => [WinProbe!Next]_probeVars
           /\ part = "macprobe" => [MacProbe!Next]_probeVars
           /\ part = "winmode" => [WinMode!Next]_modeVars
           /\ part = "macmode" => [MacMode!Next]_modeVars
           /\ part \notin {"winmode", "macmode"} => UNCHANGED modeVars
           /\ part \notin {"winprobe", "macprobe"} => UNCHANGED probeVars
           /\ [Ordered!Next \/ Unordered!Next]_viewVars
<1>1. CASE UNCHANGED <<part, vars, winVars, macVars, probeVars, modeVars, viewVars>>
  BY <1>1
<1>2. CASE PartsNext
  BY <1>2 DEF PartsNext
<1> QED
  BY <1>1, <1>2

\* What holds of the switch of the part that moves, and of one that rests.
PartsModeInv ==
    /\ ModeInv
    /\ part \notin {"winmode", "macmode"} => flow["settings"].mode = "login"
    /\ part = "macmode" => MacModeInv

\* Every part begins with a machine in one of its modes.
LEMMA PartsModeInit == PartsInit => PartsModeInv
<1> SUFFICES ASSUME PartsInit PROVE PartsModeInv
  OBVIOUS
<1>1. CASE part = "winmode"
  <2>1. Switch("windows", TRUE)!Init
    BY <1>1, WinSwitch DEF PartsInit
  <2> QED
    BY <1>1, <2>1, ModeInit DEF PartsModeInv
<1>2. CASE part # "winmode"
  <2>1. MacMode!Init
    BY <1>2 DEF PartsInit
  <2>2. Switch("macos", FALSE)!Init
    BY <2>1, MacSwitch
  <2>3. flow["settings"].mode = "login"
    BY <2>1 DEF MacMode!Init, MacMode!Idle
  <2> QED
    BY <2>2, <2>3, ModeInit, MacModeInit DEF PartsModeInv
<1> QED
  BY <1>1, <1>2

\* Either switch keeps the invariant, and the other parts leave it alone.
LEMMA PartsModeStep ==
    ASSUME PartsModeInv,
           [PartsNext]_<<part, vars, winVars, macVars, probeVars, modeVars, viewVars>>
    PROVE  /\ PartsModeInv'
           /\ [part = "macmode" => MacMode!ReachesMode]_modeVars
<1> DEFINE Goal == /\ PartsModeInv'
                   /\ [part = "macmode" => MacMode!ReachesMode]_modeVars
<1>1. part' = part
  BY PartsStep
<1>2. CASE UNCHANGED modeVars
  BY <1>1, <1>2 DEF PartsModeInv, modeVars, ModeInv, MacModeInv, MacMode!TypeOK,
     MacMode!LoginItemSurvives
<1>3. CASE part = "winmode" /\ WinMode!Next
  <2>1. ModeInv'
    BY <1>3, WinSwitch, ModeStep DEF PartsModeInv
  <2> QED
    BY <1>1, <1>3, <2>1 DEF PartsModeInv
<1>4. CASE part = "macmode" /\ MacMode!Next
  <2>1. Switch("macos", FALSE)!Next
    BY <1>4, MacSwitch
  <2>2. ModeInv'
    BY <2>1, ModeStep DEF PartsModeInv
  <2>3. MacModeInv' /\ MacMode!ReachesMode
    BY <1>4, <2>1, MacModeStep DEF PartsModeInv
  <2> QED
    BY <1>1, <1>4, <2>2, <2>3 DEF PartsModeInv
<1> QED
  BY <1>2, <1>3, <1>4, PartsStep

\* The order of setStartupMode, which touches the login item last: while a
\* switch from login to boot has not succeeded, on either platform, and
\* wherever it fails, is closed or is crossed by the migration, the machine
\* still starts the application at login.
THEOREM LoginItemIsClearedLast == PartsSpec => []LoginItemSurvives
<1>1. PartsModeInv => LoginItemSurvives
  <2>1. MacMode!LoginItemSurvives => WinMode!LoginItemSurvives
    BY DEF MacMode!LoginItemSurvives, WinMode!LoginItemSurvives
  <2> QED
    BY <2>1 DEF PartsModeInv, ModeInv, LoginItemSurvives
<1> QED
  BY <1>1, PartsModeInit, PartsModeStep, PTL DEF PartsSpec

\* On macOS setStartupMode returns without an error only when the machine has
\* reached the mode asked for, with the service or the login item but not both,
\* unless a script that outlived the application was running when it began.
THEOREM SuccessIsReal == PartsSpec => SuccessReachesMode
<1>1. PartsInit => PartsModeInv
  BY PartsModeInit
<1>2. PartsModeInv /\ [PartsNext]_<<part, vars, winVars, macVars, probeVars, modeVars, viewVars>>
      => PartsModeInv' /\ [part = "macmode" => MacMode!ReachesMode]_modeVars
  BY PartsModeStep
<1> QED
  BY <1>1, <1>2, PTL DEF PartsSpec, SuccessReachesMode

-----------------------------------------------------------------------------
(* The network watchers.                                                   *)

EventKinds == {"Connect", "Disconnect", "Online"}
Debouncer == [kind : EventKinds \cup {"unseen"}, recent : BOOLEAN]

\* How far the Connects reported may be ahead of the Disconnects, after each
\* report.
InTurn(count, lst) ==
    LET ahead == count["Connect"] - count["Disconnect"]
    IN  /\ lst = "unseen" => ahead = 0
        /\ lst = "Connect" => ahead \in {0, 1}
        /\ lst = "Disconnect" => ahead \in {-1, 0}

\* A report of the other state keeps the turns.
LEMMA InTurnStep ==
    ASSUME NEW count \in [EventKinds -> Nat], NEW lst \in {"unseen", "Connect", "Disconnect"},
           InTurn(count, lst)
    PROVE  /\ \A k \in EventKinds : [count EXCEPT ![k] = @ + 1] \in [EventKinds -> Nat]
           /\ \A k \in {"Connect", "Disconnect"} :
                 k # lst => InTurn([count EXCEPT ![k] = @ + 1], k)
           /\ InTurn([count EXCEPT !["Online"] = @ + 1], lst)
<1>1. count["Connect"] \in Nat /\ count["Disconnect"] \in Nat /\ count["Online"] \in Nat
  BY DEF EventKinds
<1>2. ASSUME NEW k \in EventKinds
      PROVE  /\ [count EXCEPT ![k] = @ + 1] \in [EventKinds -> Nat]
             /\ [count EXCEPT ![k] = @ + 1][k] = count[k] + 1
             /\ \A j \in EventKinds \ {k} : [count EXCEPT ![k] = @ + 1][j] = count[j]
  <2>1. count[k] + 1 \in Nat
    OBVIOUS
  <2> QED
    BY <2>1
<1>3. InTurn([count EXCEPT !["Online"] = @ + 1], lst)
  <2>1. /\ [count EXCEPT !["Online"] = @ + 1]["Connect"] = count["Connect"]
        /\ [count EXCEPT !["Online"] = @ + 1]["Disconnect"] = count["Disconnect"]
    BY DEF EventKinds
  <2> QED
    BY <2>1 DEF InTurn
<1>4. "Connect" # lst => InTurn([count EXCEPT !["Connect"] = @ + 1], "Connect")
  <2>1. /\ [count EXCEPT !["Connect"] = @ + 1]["Connect"] = count["Connect"] + 1
        /\ [count EXCEPT !["Connect"] = @ + 1]["Disconnect"] = count["Disconnect"]
    BY DEF EventKinds
  <2> QED
    BY <1>1, <2>1 DEF InTurn
<1>5. "Disconnect" # lst => InTurn([count EXCEPT !["Disconnect"] = @ + 1], "Disconnect")
  <2>1. /\ [count EXCEPT !["Disconnect"] = @ + 1]["Connect"] = count["Connect"]
        /\ [count EXCEPT !["Disconnect"] = @ + 1]["Disconnect"] = count["Disconnect"] + 1
    BY DEF EventKinds
  <2> QED
    BY <1>1, <2>1 DEF InTurn
<1> QED
  BY <1>2, <1>3, <1>4, <1>5

\* On macOS the edge detector holds what the last report said, and the
\* debouncer the kind of the last Connect or Disconnect unless an Online of a
\* probe came after it.
MacInv ==
    /\ seen \in [{0} -> {"unseen", "up", "down"}] /\ last \in Debouncer
    /\ probes \in Nat /\ reported \in [EventKinds -> Nat]
    /\ lastState \in {"unseen", "Connect", "Disconnect"}
    /\ last.kind \in {"Connect", "Disconnect"} => last.kind = lastState
    /\ lastState # "unseen" => seen[0] # "unseen" /\ (seen[0] = "up" <=> lastState = "Connect")
    /\ InTurn(reported, lastState)
    /\ reported["Online"] + probes <= reported["Connect"]

\* A report comes only after an edge, and with it the turn changes.
LEMMA MacStep == MacInv /\ [Mac!Next]_macVars => MacInv'
<1> SUFFICES ASSUME MacInv, [Mac!Next]_macVars PROVE MacInv'
  OBVIOUS
<1> USE DEF MacInv
<1>1. ASSUME NEW status \in {"satisfied", "unsatisfied", "other"}, Mac!PathUpdate(status)
      PROVE  MacInv'
  <2>1. CASE UNCHANGED <<seen, last, probes, reported, lastState>>
    BY <2>1
  <2>2. ASSUME NEW connected \in {"up", "down"}, NEW kind \in {"Connect", "Disconnect"},
               connected = "up" <=> kind = "Connect",
               seen' = [seen EXCEPT ![0] = connected],
               IF Mac!Changed(seen, 0, connected) /\ Mac!Allow(last, kind)
               THEN Mac!Report(kind) /\ Mac!Probe(kind)
               ELSE UNCHANGED <<last, probes, cooling, channel, reported, lastState>>
        PROVE  MacInv'
    <3>1. seen' \in [{0} -> {"unseen", "up", "down"}] /\ seen'[0] = connected
      BY <2>2
    <3>2. CASE ~(Mac!Changed(seen, 0, connected) /\ Mac!Allow(last, kind))
      <4>1. UNCHANGED <<last, probes, reported, lastState>>
        BY <2>2, <3>2
      <4>2. lastState # "unseen" => seen[0] = connected
        BY <2>2, <3>2 DEF Mac!Changed, Mac!Allow, Mac!Unseen
      <4> QED
        BY <3>1, <4>1, <4>2
    <3>3. CASE Mac!Changed(seen, 0, connected) /\ Mac!Allow(last, kind)
      <4>1. /\ last' = [kind |-> kind, recent |-> TRUE] /\ lastState' = kind
            /\ reported' = [reported EXCEPT ![kind] = @ + 1]
            /\ \/ probes' = probes
               \/ kind = "Connect" /\ probes' = probes + 1
        BY <2>2, <3>3 DEF Mac!Report, Mac!Probe, Mac!Passed
      <4>2. kind # lastState
        BY <2>2, <3>3 DEF Mac!Changed, Mac!Unseen
      <4>3. reported' \in [EventKinds -> Nat] /\ InTurn(reported', lastState')
        BY <4>1, <4>2, InTurnStep DEF EventKinds
      <4>4. last' \in Debouncer /\ last'.kind = kind
        BY <4>1 DEF Debouncer, EventKinds
      <4>5. /\ reported["Connect"] \in Nat /\ reported["Online"] \in Nat
            /\ reported'["Online"] = reported["Online"]
            /\ kind = "Connect" => reported'["Connect"] = reported["Connect"] + 1
            /\ kind # "Connect" => reported'["Connect"] = reported["Connect"]
        BY <4>1 DEF EventKinds
      <4>6. probes' \in Nat /\ reported'["Online"] + probes' <= reported'["Connect"]
        BY <4>1, <4>5
      <4> QED
        BY <2>2, <3>1, <4>1, <4>3, <4>4, <4>6
    <3> QED
      BY <3>2, <3>3
  <2> QED
    BY <1>1, <2>1, <2>2 DEF Mac!PathUpdate
<1>2. ASSUME NEW on \in BOOLEAN, Mac!ProbeEnds(on)
      PROVE  MacInv'
  <2>1. probes' = probes - 1 /\ probes' \in Nat /\ UNCHANGED seen
    BY <1>2 DEF Mac!ProbeEnds
  <2>2. CASE on /\ Mac!Allow(last, "Online")
    <3>1. /\ last' = [kind |-> "Online", recent |-> TRUE] /\ lastState' = lastState
          /\ reported' = [reported EXCEPT !["Online"] = @ + 1]
      BY <1>2, <2>2 DEF Mac!ProbeEnds, Mac!Report, Mac!Passed
    <3>2. reported' \in [EventKinds -> Nat] /\ InTurn(reported', lastState')
      BY <3>1, InTurnStep DEF EventKinds
    <3>3. last' \in Debouncer /\ last'.kind = "Online"
      BY <3>1 DEF Debouncer, EventKinds
    <3>4. /\ reported["Connect"] \in Nat /\ reported["Online"] \in Nat
          /\ reported'["Online"] = reported["Online"] + 1
          /\ reported'["Connect"] = reported["Connect"]
      BY <3>1 DEF EventKinds
    <3> QED
      BY <2>1, <3>1, <3>2, <3>3, <3>4
  <2>3. CASE ~(on /\ Mac!Allow(last, "Online"))
    <3>1. UNCHANGED <<last, reported, lastState>>
      BY <1>2, <2>3 DEF Mac!ProbeEnds
    <3>2. reported["Connect"] \in Nat /\ reported["Online"] \in Nat
      BY DEF EventKinds
    <3> QED
      BY <2>1, <3>1, <3>2
  <2> QED
    BY <2>2, <2>3
<1>3. CASE Mac!DebounceOver
  <2>1. /\ last' = [last EXCEPT !.recent = FALSE]
        /\ UNCHANGED <<seen, probes, reported, lastState>>
    BY <1>3 DEF Mac!DebounceOver
  <2>2. last' \in Debouncer /\ last'.kind = last.kind
    BY <2>1 DEF Debouncer
  <2> QED
    BY <2>1, <2>2
<1>4. CASE Mac!CooldownOver \/ Mac!Dispatch \/ Mac!Stop \/ UNCHANGED macVars
  <2>1. UNCHANGED <<seen, last, probes, reported, lastState>>
    BY <1>4 DEF Mac!CooldownOver, Mac!Dispatch, Mac!Stop, macVars
  <2> QED
    BY <2>1
<1> QED
  BY <1>1, <1>2, <1>3, <1>4 DEF Mac!Next

\* On Windows the last report is what the agent believes in, and the Connect of
\* a flip is always followed by its Online.
WinInv ==
    /\ wlast \in Debouncer /\ wreported \in [EventKinds -> Nat]
    /\ wlastState \in {"unseen", "Connect", "Disconnect"}
    /\ wlast.kind # "Connect"
    /\ wlast.kind = "Disconnect" => wlastState = "Disconnect"
    /\ online \in {"unseen", "up", "down"}
    /\ wlastState # "unseen" => online # "unseen" /\ (online = "up" <=> wlastState = "Connect")
    /\ InTurn(wreported, wlastState)

\* A decision reports only a state that differs from the known one.
LEMMA WinStep == WinInv /\ [Win!Next]_winVars => WinInv'
<1> SUFFICES ASSUME WinInv, [Win!Next]_winVars PROVE WinInv'
  OBVIOUS
<1> USE DEF WinInv
<1>1. Win!State \in {"up", "down"}
  BY DEF Win!State
<1>2. ASSUME NEW t \in 1 .. MaxTasks, Win!Decide(t)
      PROVE  WinInv'
  <2>1. CASE UNCHANGED <<wlast, wreported, wlastState, online>>
    BY <2>1
  <2>2. CASE /\ online # Win!State /\ online' = Win!State
             /\ LET e == Win!Emitted(Win!State)
                IN  wlast' = e.last /\ wreported' = e.reported /\ wlastState' = e.lastState
    <3>1. CASE Win!State = "up"
      <4>1. Win!Allow(wlast, "Connect")
        BY DEF Win!Allow
      <4>2. /\ wlast' = [kind |-> "Online", recent |-> TRUE] /\ wlastState' = "Connect"
            /\ wreported' = [[wreported EXCEPT !["Connect"] = @ + 1] EXCEPT !["Online"] = @ + 1]
        BY <2>2, <3>1, <4>1 DEF Win!Emitted, Win!EmitOne, Win!Allow, Win!Passed
      <4>3. wlastState # "Connect"
        BY <2>2, <3>1
      <4> DEFINE mid == [wreported EXCEPT !["Connect"] = @ + 1]
      <4>4. mid \in [EventKinds -> Nat] /\ InTurn(mid, "Connect")
        BY <4>3, InTurnStep DEF EventKinds
      <4>5. wreported' = [mid EXCEPT !["Online"] = @ + 1]
        BY <4>2
      <4> HIDE DEF mid
      <4>6. wreported' \in [EventKinds -> Nat] /\ InTurn(wreported', "Connect")
        BY <4>4, <4>5, InTurnStep DEF EventKinds
      <4>7. wlast' \in Debouncer /\ wlast'.kind = "Online"
        BY <4>2 DEF Debouncer, EventKinds
      <4> QED
        BY <2>2, <3>1, <4>2, <4>6, <4>7
    <3>2. CASE Win!State = "down"
      <4>1. wlastState # "Disconnect"
        BY <2>2, <3>2
      <4>2. Win!Allow(wlast, "Disconnect")
        BY <4>1 DEF Win!Allow
      <4>3. /\ wlast' = [kind |-> "Disconnect", recent |-> TRUE] /\ wlastState' = "Disconnect"
            /\ wreported' = [wreported EXCEPT !["Disconnect"] = @ + 1]
        BY <2>2, <3>2, <4>2 DEF Win!Emitted, Win!EmitOne, Win!Passed
      <4>4. wreported' \in [EventKinds -> Nat] /\ InTurn(wreported', "Disconnect")
        BY <4>1, <4>3, InTurnStep DEF EventKinds
      <4>5. wlast' \in Debouncer /\ wlast'.kind = "Disconnect"
        BY <4>3 DEF Debouncer, EventKinds
      <4> QED
        BY <2>2, <3>2, <4>3, <4>4, <4>5
    <3> QED
      BY <1>1, <3>1, <3>2
  <2> QED
    BY <1>2, <2>1, <2>2 DEF Win!Decide, Win!hist
<1>3. CASE Win!Baseline
  <2>1. UNCHANGED <<wlast, wreported, wlastState>>
        /\ online' = IF online = "unseen" THEN Win!State ELSE online
    BY <1>3 DEF Win!Baseline, Win!hist, Win!Unseen
  <2> QED
    BY <1>1, <2>1
<1>4. CASE Win!DebounceOver
  <2>1. /\ wlast' = [wlast EXCEPT !.recent = FALSE]
        /\ UNCHANGED <<online, wreported, wlastState>>
    BY <1>4 DEF Win!DebounceOver, Win!hist
  <2>2. wlast' \in Debouncer /\ wlast'.kind = wlast.kind
    BY <2>1 DEF Debouncer
  <2> QED
    BY <2>1, <2>2
<1>5. ASSUME \/ \E i \in Win!Interfaces : \/ Win!Change(i) \/ Win!IpCallback(i)
                                          \/ Win!IpCallbackNoRow(i) \/ Win!WlanCallback(i)
             \/ \E t \in 1 .. MaxTasks : Win!Settled(t)
             \/ Win!Dispatch \/ UNCHANGED winVars
      PROVE  WinInv'
  <2>1. UNCHANGED <<wlast, online, wreported, wlastState>>
    BY <1>5 DEF Win!Change, Win!IpCallback, Win!IpCallbackNoRow, Win!WlanCallback, Win!Settled,
       Win!Dispatch, Win!hist, winVars
  <2> QED
    BY <2>1
<1> QED
  BY <1>2, <1>3, <1>4, <1>5 DEF Win!Next

\* Nothing has been observed or reported.
LEMMA NetworkInit == PartsInit => MacInv /\ WinInv
<1> SUFFICES ASSUME PartsInit PROVE MacInv /\ WinInv
  OBVIOUS
<1>1. [k \in EventKinds |-> 0] \in [EventKinds -> Nat] /\ InTurn([k \in EventKinds |-> 0], "unseen")
  BY DEF InTurn, EventKinds
<1>2. /\ seen = [k \in {0} |-> "unseen"] /\ last = [kind |-> "unseen", recent |-> FALSE]
      /\ probes = 0 /\ lastState = "unseen" /\ reported = [k \in EventKinds |-> 0]
  BY DEF PartsInit, Mac!Init, Mac!NoLast, Mac!Unseen, Mac!Kinds, EventKinds
<1>3. /\ online = "unseen" /\ wlast = [kind |-> "unseen", recent |-> FALSE]
      /\ wlastState = "unseen" /\ wreported = [k \in EventKinds |-> 0]
  BY DEF PartsInit, Win!Init, Win!NoLast, Win!Unseen, Win!Kinds, EventKinds
<1>4. [kind |-> "unseen", recent |-> FALSE] \in Debouncer
  BY DEF Debouncer
<1>5. reported["Online"] = 0 /\ reported["Connect"] = 0
  BY <1>2 DEF EventKinds
<1>6. MacInv
  BY <1>1, <1>2, <1>4, <1>5 DEF MacInv
<1> QED
  BY <1>1, <1>3, <1>4, <1>6 DEF WinInv

\* The events of on_event: on macOS the last Connect or Disconnect says what
\* the path last was, on Windows what the arbitrations have left as the known
\* state; they alternate, and an Online always answers a Connect.  The
\* debouncer, which drops what it takes for a repetition, drops no flip.
THEOREM ReportsAreExact == PartsSpec => []ReportsMatch
<1>1. MacInv /\ WinInv => ReportsMatch
  <2> SUFFICES ASSUME MacInv, WinInv PROVE ReportsMatch
    OBVIOUS
  <2>1. /\ reported["Connect"] \in Nat /\ reported["Disconnect"] \in Nat
        /\ wreported["Connect"] \in Nat /\ wreported["Disconnect"] \in Nat
    BY DEF MacInv, WinInv, EventKinds
  <2>2. Mac!Alternates /\ Win!Alternates
    BY <2>1 DEF MacInv, WinInv, InTurn, Mac!Alternates, Win!Alternates
  <2> QED
    BY <2>2 DEF MacInv, WinInv, ReportsMatch, Mac!ReportMatchesObserved, Mac!OnlineNeedsConnect,
       Win!ReportMatchesState, Mac!Unseen, Win!Unseen
<1>2. MacInv /\ WinInv /\ [PartsNext]_<<part, vars, winVars, macVars, probeVars, modeVars, viewVars>>
      => MacInv' /\ WinInv'
  BY PartsStep, MacStep, WinStep
<1> QED
  BY <1>1, <1>2, NetworkInit, PTL DEF PartsSpec

-----------------------------------------------------------------------------
(* The probing of the endpoints.                                           *)

Conditions == {"good", "captive", "silent", "blackholed", "private", "unresolved"}

\* What an endpoint takes at most when its lookup takes two units.
Longest == 2 + 2 * PhaseTimeout

ProbeTypes ==
    /\ cond \in [1 .. Endpoints -> Conditions] /\ addrs \in [1 .. Endpoints -> 1 .. 2]
    /\ at \in Nat \ {0} /\ at <= Endpoints + 1
    /\ spent \in Nat /\ elapsed \in Nat /\ shifts \in Nat
    /\ verdict \in {"probing", "online", "offline"}

\* A probe takes some time, less than the longest one.
LEMMA ProbeTime ==
    ASSUME NEW c \in Conditions, NEW n \in 1 .. 2
    PROVE  /\ \A d \in 1 .. 1 : WinProbe!HttpProbeTime(c, n, d) \in Nat
           /\ \A d \in 1 .. 2 : /\ MacProbe!HttpProbeTime(c, n, d) \in Nat
                                /\ MacProbe!HttpProbeTime(c, n, d) <= Longest
<1>1. PhaseTimeout \in Nat
  BY ProbeAssumption
<1>2. n * PhaseTimeout = PhaseTimeout \/ n * PhaseTimeout = 2 * PhaseTimeout
  <2>1. n = 1 \/ n = 2
    OBVIOUS
  <2>2. 1 * PhaseTimeout = PhaseTimeout
    BY <1>1
  <2> QED
    BY <2>1, <2>2
<1>3. n * PhaseTimeout \in Nat /\ n * PhaseTimeout <= 2 * PhaseTimeout
  BY <1>1, <1>2
<1> QED
  BY <1>1, <1>3 DEF WinProbe!HttpProbeTime, MacProbe!HttpProbeTime, Longest, Conditions

\* Without a limit the rest of a round always fits; the endpoints before the
\* next one are not good, and so at the end of the round none is.
MacProbeInv ==
    /\ ProbeTypes /\ shifts = 0
    /\ \A i \in 1 .. Endpoints : i < at => cond[i] # "good"
    /\ verdict = "probing" => spent + (Endpoints + 1 - at) * Longest <= 1000
    /\ verdict = "online" => \E i \in 1 .. Endpoints : cond[i] = "good"
    /\ verdict = "offline" => at = Endpoints + 1

\* The next endpoint is asked only after the last one was not good.
LEMMA MacProbeStep == MacProbeInv /\ [MacProbe!Next]_probeVars => MacProbeInv'
<1> SUFFICES ASSUME MacProbeInv, [MacProbe!Next]_probeVars PROVE MacProbeInv'
  OBVIOUS
<1> USE DEF MacProbeInv, ProbeTypes
<1>1. Endpoints \in Nat /\ Longest \in Nat /\ Pause \in Nat
  BY ProbeAssumption DEF Longest
<1>2. CASE MacProbe!TryEndpoint
  <2>1. at \in 1 .. Endpoints /\ verdict = "probing" /\ UNCHANGED <<cond, addrs, shifts>>
    BY <1>2 DEF MacProbe!TryEndpoint, MacProbe!Indices
  <2>2. PICK d \in 1 .. 2 :
           LET t == MacProbe!HttpProbeTime(cond[at], addrs[at], d)
               left == 1000 - spent
           IN  IF t > left
                 THEN /\ spent' = 1000 /\ elapsed' = elapsed + left
                      /\ at' = Endpoints + 1 /\ verdict' = verdict
                 ELSE /\ spent' = spent + t /\ elapsed' = elapsed + t
                      /\ IF MacProbe!ResponseMatches(cond[at])
                           THEN verdict' = "online" /\ at' = at
                           ELSE verdict' = verdict /\ at' = at + 1
    BY <1>2 DEF MacProbe!TryEndpoint
  <2> DEFINE t == MacProbe!HttpProbeTime(cond[at], addrs[at], d)
  <2>3. t \in Nat /\ t <= Longest
    BY <2>1, ProbeTime
  <2>4. /\ (Endpoints + 1 - at) * Longest = (Endpoints - at) * Longest + Longest
        /\ (Endpoints - at) * Longest \in Nat
    <3>1. Endpoints - at \in Nat
      BY <1>1, <2>1
    <3>2. \A a, b \in Nat : a * b \in Nat /\ (a + 1) * b = a * b + b
      OBVIOUS
    <3>3. Endpoints + 1 - at = (Endpoints - at) + 1
      BY <1>1, <2>1
    <3> QED
      BY <1>1, <3>1, <3>2, <3>3
  <2> DEFINE rest == (Endpoints - at) * Longest
  <2>5. spent + rest + Longest <= 1000 /\ rest \in Nat
    BY <1>1, <2>1, <2>4
  <2>6. /\ spent' = spent + t /\ elapsed' = elapsed + t
        /\ IF cond[at] = "good" THEN verdict' = "online" /\ at' = at
           ELSE verdict' = verdict /\ at' = at + 1
    <3> HIDE DEF t, rest
    <3>1. ~(t > 1000 - spent)
      BY <1>1, <2>3, <2>5
    <3> QED
      BY <2>2, <3>1 DEF MacProbe!ResponseMatches, t
  <2> HIDE DEF t
  <2>7. CASE cond[at] = "good"
    BY <2>1, <2>3, <2>6, <2>7
  <2>8. CASE cond[at] # "good"
    <3>1. Endpoints + 1 - at' = Endpoints - at
      BY <1>1, <2>1, <2>6, <2>8
    <3>2. spent' + (Endpoints + 1 - at') * Longest = spent + t + rest
      BY <2>6, <3>1
    <3>3. spent' + (Endpoints + 1 - at') * Longest <= 1000
      <4> HIDE DEF rest
      <4> QED
        BY <1>1, <2>3, <2>5, <3>2
    <3>4. \A i \in 1 .. Endpoints : i < at' => cond'[i] # "good"
      BY <2>1, <2>6, <2>8
    <3> QED
      BY <1>1, <2>1, <2>3, <2>6, <2>8, <3>3, <3>4
  <2> QED
    BY <2>7, <2>8
<1>3. CASE MacProbe!RoundFailed
  <2>1. /\ verdict = "probing" /\ at \notin 1 .. Endpoints
        /\ verdict' = "offline" /\ UNCHANGED <<at, spent, elapsed, cond, addrs, shifts>>
    BY <1>1, <1>3 DEF MacProbe!RoundFailed, MacProbe!Indices
  <2>2. at = Endpoints + 1
    BY <1>1, <2>1
  <2> QED
    BY <2>1, <2>2
<1>4. ~ \E i \in MacProbe!Indices : MacProbe!Change(i)
  BY DEF MacProbe!Change
<1>5. CASE UNCHANGED probeVars
  BY <1>5 DEF probeVars
<1> QED
  BY <1>2, <1>3, <1>4, <1>5 DEF MacProbe!Next

\* A round begins before the end of the window, and is cut off.
WinProbeInv ==
    /\ ProbeTypes
    /\ spent <= AttemptTimeout /\ elapsed < Window + spent
    /\ shifts = 0 /\ verdict = "online" => \E i \in 1 .. Endpoints : cond[i] = "good"

\* A round takes no more than its limit, a pause only what the window has left.
LEMMA WinProbeStep == WinProbeInv /\ [WinProbe!Next]_probeVars => WinProbeInv'
<1> SUFFICES ASSUME WinProbeInv, [WinProbe!Next]_probeVars PROVE WinProbeInv'
  OBVIOUS
<1> USE DEF WinProbeInv, ProbeTypes
<1>1. Endpoints \in Nat /\ Pause \in Nat /\ AttemptTimeout \in Nat /\ Window \in Nat
  BY ProbeAssumption
<1>2. CASE WinProbe!TryEndpoint
  <2>1. at \in 1 .. Endpoints /\ verdict = "probing" /\ UNCHANGED <<cond, addrs, shifts>>
    BY <1>2 DEF WinProbe!TryEndpoint, WinProbe!Indices
  <2>2. PICK d \in 1 .. 1 :
           LET t == WinProbe!HttpProbeTime(cond[at], addrs[at], d)
               left == AttemptTimeout - spent
           IN  IF t > left
                 THEN /\ spent' = AttemptTimeout /\ elapsed' = elapsed + left
                      /\ at' = Endpoints + 1 /\ verdict' = verdict
                 ELSE /\ spent' = spent + t /\ elapsed' = elapsed + t
                      /\ IF WinProbe!ResponseMatches(cond[at])
                           THEN verdict' = "online" /\ at' = at
                           ELSE verdict' = verdict /\ at' = at + 1
    BY <1>2 DEF WinProbe!TryEndpoint
  <2> DEFINE t == WinProbe!HttpProbeTime(cond[at], addrs[at], d)
  <2>3. t \in Nat
    BY <2>1, ProbeTime
  <2> HIDE DEF t
  <2>4. CASE t > AttemptTimeout - spent
    <3>1. /\ spent' = AttemptTimeout /\ elapsed' = elapsed + (AttemptTimeout - spent)
          /\ at' = Endpoints + 1 /\ verdict' = verdict
      BY <2>2, <2>4 DEF t
    <3> QED
      BY <1>1, <2>1, <3>1
  <2>5. CASE ~(t > AttemptTimeout - spent)
    <3>1. /\ spent' = spent + t /\ elapsed' = elapsed + t
          /\ IF cond[at] = "good" THEN verdict' = "online" /\ at' = at
             ELSE verdict' = verdict /\ at' = at + 1
      BY <2>2, <2>5 DEF t, WinProbe!ResponseMatches
    <3>2. spent' \in Nat /\ elapsed' \in Nat /\ spent' <= AttemptTimeout
          /\ elapsed' < Window + spent'
      BY <1>1, <2>3, <2>5, <3>1
    <3> QED
      BY <1>1, <2>1, <3>1, <3>2
  <2> QED
    BY <2>4, <2>5
<1>3. CASE WinProbe!RoundFailed
  <2>1. /\ verdict = "probing" /\ UNCHANGED <<cond, addrs, shifts>>
        /\ \/ verdict' = "offline" /\ UNCHANGED <<at, spent, elapsed>>
           \/ /\ elapsed + Pause < Window
              /\ at' = 1 /\ spent' = 0 /\ elapsed' = elapsed + Pause /\ verdict' = verdict
    BY <1>1, <1>3 DEF WinProbe!RoundFailed
  <2> QED
    BY <1>1, <2>1
<1>4. ASSUME NEW i \in WinProbe!Indices, WinProbe!Change(i)
      PROVE  WinProbeInv'
  <2>1. PICK c \in Conditions : cond' = [cond EXCEPT ![i] = c]
    BY <1>4 DEF WinProbe!Change, WinProbe!Conditions, Conditions
  <2>2. cond' \in [1 .. Endpoints -> Conditions]
    BY <2>1
  <2>3. /\ verdict = "probing" /\ shifts' = shifts + 1
        /\ UNCHANGED <<addrs, at, spent, elapsed, verdict>>
    BY <1>4 DEF WinProbe!Change
  <2> QED
    BY <1>1, <2>2, <2>3
<1>5. CASE UNCHANGED probeVars
  BY <1>5 DEF probeVars
<1> QED
  BY <1>2, <1>3, <1>4, <1>5 DEF WinProbe!Next

\* What holds of the probing that moves.
PartsProbeInv ==
    /\ part = "macprobe" => MacProbeInv
    /\ part = "winprobe" => WinProbeInv

\* Nothing has been asked.
LEMMA PartsProbeInit == PartsInit => PartsProbeInv
<1> SUFFICES ASSUME PartsInit PROVE PartsProbeInv
  OBVIOUS
<1>1. /\ Endpoints \in Nat /\ Longest \in Nat /\ AttemptTimeout \in Nat /\ Window \in Nat
      /\ Window > 0 /\ Endpoints * Longest <= 1000
  BY ProbeAssumption DEF Longest
<1>2. /\ ProbeTypes /\ at = 1 /\ spent = 0 /\ elapsed = 0 /\ shifts = 0 /\ verdict = "probing"
  BY <1>1 DEF PartsInit, WinProbe!Init, WinProbe!Indices, WinProbe!Conditions, Conditions,
     ProbeTypes
<1>3. Endpoints + 1 - at = Endpoints
  BY <1>1, <1>2
<1>4. spent + (Endpoints + 1 - at) * Longest <= 1000
  BY <1>1, <1>2, <1>3
<1>5. MacProbeInv
  BY <1>2, <1>4 DEF MacProbeInv
<1>6. WinProbeInv
  BY <1>1, <1>2 DEF WinProbeInv
<1> QED
  BY <1>5, <1>6 DEF PartsProbeInv

\* Either probing keeps its invariant.
LEMMA PartsProbeStep ==
    PartsProbeInv /\ [PartsNext]_<<part, vars, winVars, macVars, probeVars, modeVars, viewVars>>
    => PartsProbeInv'
  BY PartsStep, MacProbeStep, WinProbeStep DEF PartsProbeInv

\* probe_online and confirm_online: in a network that does not change, online
\* means that an endpoint gave the expected answer, for any number of endpoints
\* and any timeouts; a round without a limit that finds none has asked all of
\* them; and on Windows the probing ends within one attempt of its window,
\* whatever the network does.
THEOREM ProbesAreExact == PartsSpec => []ProbesAreRight
<1>1. PartsProbeInv => ProbesAreRight
  <2> SUFFICES ASSUME PartsProbeInv PROVE ProbesAreRight
    OBVIOUS
  <2>1. Endpoints \in Nat /\ AttemptTimeout \in Nat /\ Window \in Nat
    BY ProbeAssumption
  <2>2. ASSUME part = "macprobe"
        PROVE  MacProbe!OnlineIsReal /\ MacProbe!FallbacksAreTried
    <3>1. MacProbeInv
      BY <2>2 DEF PartsProbeInv
    <3>2. verdict = "offline" => \A i \in 1 .. Endpoints : cond[i] # "good"
      BY <2>1, <3>1 DEF MacProbeInv
    <3> QED
      BY <3>1, <3>2 DEF MacProbeInv, MacProbe!OnlineIsReal, MacProbe!FallbacksAreTried,
         MacProbe!Good, MacProbe!Indices
  <2>3. ASSUME part = "winprobe"
        PROVE  WinProbe!OnlineIsReal /\ WinProbe!WindowIsBounded
    <3>1. WinProbeInv
      BY <2>3 DEF PartsProbeInv
    <3>2. elapsed < Window + AttemptTimeout
      BY <2>1, <3>1 DEF WinProbeInv, ProbeTypes
    <3> QED
      BY <3>1, <3>2 DEF WinProbeInv, WinProbe!OnlineIsReal, WinProbe!WindowIsBounded,
         WinProbe!Good, WinProbe!Indices
  <2> QED
    BY <2>2, <2>3 DEF ProbesAreRight
<1> QED
  BY <1>1, PartsProbeInit, PartsProbeStep, PTL DEF PartsSpec

-----------------------------------------------------------------------------
(* The view of the executions.                                             *)

View == INSTANCE ExecutionView WITH Reordering <- TRUE, Lossy <- TRUE

RequestKinds == {"trigger", "list", "output", "open", "openOutput", "poll"}
RunStatus == {"none", "Running", "Done"}
Chunks == 1 .. MaxOutputs

\* The answer to a trigger is a run.
AnyRequest == [kind : RequestKinds, answered : BOOLEAN, status : RunStatus, chunks : Seq(Chunks),
               late : BOOLEAN]
Requests == {r \in AnyRequest : r.kind = "trigger" /\ r.answered => r.status # "none"}

DrawerStates == [bound : BOOLEAN, show : BOOLEAN, status : RunStatus, poll : BOOLEAN]

\* A drawer that is shown has a run; entries of the list have a status.
ViewInv ==
    /\ row \in RunStatus /\ produced \in 0 .. MaxOutputs /\ stored \in Seq(Chunks)
    /\ finished \in BOOLEAN
    /\ reqs \in Seq(Requests) /\ list \in Seq({"Running", "Done"})
    /\ events \in Seq(View!Event)
    /\ drawer \in DrawerStates
    /\ drawer.show => drawer.bound

\* A run shown as finished stays so.
Kept(d, e) == d.status = "Done" => e.status = "Done"

\* Every request that is sent is a proper one, not yet answered.
LEMMA Asking ==
    ASSUME ViewInv, NEW b \in BOOLEAN
    PROVE  /\ \A k \in RequestKinds : View!Asked(k, b) \in Requests
           /\ \A k \in RequestKinds : View!Ask(<<k>>, b) \in Seq(Requests)
           /\ \A k, l \in RequestKinds : View!Ask(<<k, l>>, b) \in Seq(Requests)
           /\ \A k, l, m \in RequestKinds : View!Ask(<<k, l, m>>, b) \in Seq(Requests)
<1>1. \A k \in RequestKinds : View!Asked(k, b) \in Requests
  BY EmptySeq DEF View!Asked, Requests, AnyRequest, RunStatus
<1>2. ASSUME NEW n \in Nat, NEW f \in [1 .. n -> Requests]
      PROVE  f \in Seq(Requests)
  BY SeqDef
<1>3. ASSUME NEW kinds, NEW n \in Nat, Len(kinds) = n, \A i \in 1 .. n : kinds[i] \in RequestKinds
      PROVE  View!Ask(kinds, b) \in Seq(Requests)
  <2>1. [i \in 1 .. Len(kinds) |-> View!Asked(kinds[i], b)] \in [1 .. n -> Requests]
    BY <1>1, <1>3
  <2>2. [i \in 1 .. Len(kinds) |-> View!Asked(kinds[i], b)] \in Seq(Requests)
    BY <1>2, <2>1
  <2> QED
    BY <2>2, ConcatProperties DEF View!Ask, ViewInv
<1>4. ASSUME NEW k \in RequestKinds
      PROVE  View!Ask(<<k>>, b) \in Seq(Requests)
  <2>1. Len(<<k>>) = 1 /\ \A i \in 1 .. 1 : <<k>>[i] \in RequestKinds
    OBVIOUS
  <2> QED
    BY <1>3, <2>1
<1>5. ASSUME NEW k \in RequestKinds, NEW l \in RequestKinds
      PROVE  View!Ask(<<k, l>>, b) \in Seq(Requests)
  <2>1. Len(<<k, l>>) = 2 /\ \A i \in 1 .. 2 : <<k, l>>[i] \in RequestKinds
    OBVIOUS
  <2> QED
    BY <1>3, <2>1
<1>6. ASSUME NEW k \in RequestKinds, NEW l \in RequestKinds, NEW m \in RequestKinds
      PROVE  View!Ask(<<k, l, m>>, b) \in Seq(Requests)
  <2>1. Len(<<k, l, m>>) = 3 /\ \A i \in 1 .. 3 : <<k, l, m>>[i] \in RequestKinds
    OBVIOUS
  <2> QED
    BY <1>3, <2>1
<1> QED
  BY <1>1, <1>4, <1>5, <1>6

\* The watch of the drawer never goes back.
LEMMA Syncing ==
    ASSUME NEW d \in DrawerStates,
           NEW l \in Seq({"Running", "Done"})
    PROVE  LET e == View!Sync(d, l)
           IN  /\ e \in DrawerStates /\ e.bound = d.bound /\ e.show = d.show
               /\ Kept(d, e)
<1>1. CASE l # <<>>
  <2>1. l[1] \in {"Running", "Done"}
    <3>1. Len(l) \in Nat \ {0}
      BY <1>1, EmptySeq
    <3> QED
      BY <3>1, ElementOfSeq
  <2> QED
    BY <1>1, <2>1 DEF View!Sync, DrawerStates, RunStatus, Kept
<1>2. CASE l = <<>>
  BY <1>2 DEF View!Sync, Kept
<1> QED
  BY <1>1, <1>2

\* A drawer that is opened has a run.
LEMMA Opening ==
    ASSUME ViewInv, NEW l \in Seq({"Running", "Done"})
    PROVE  LET e == View!Opened(l)
           IN  e \in DrawerStates /\ e.bound
<1> DEFINE st == IF l # <<>> THEN l[1] ELSE drawer.status
           d == [bound |-> TRUE, show |-> TRUE, poll |-> FALSE,
                 status |-> IF finished /\ st # "none" THEN "Done" ELSE st]
<1>1. l # <<>> => l[1] \in {"Running", "Done"}
  <2> SUFFICES ASSUME l # <<>> PROVE l[1] \in {"Running", "Done"}
    OBVIOUS
  <2>1. Len(l) \in Nat \ {0}
    BY EmptySeq
  <2> QED
    BY <2>1, ElementOfSeq
<1>2. st \in RunStatus
  BY <1>1 DEF RunStatus, DrawerStates, ViewInv
<1> HIDE DEF st
<1>3. d \in DrawerStates /\ d.bound
  BY <1>2 DEF DrawerStates, RunStatus
<1>4. View!Opened(l) = View!Sync(d, l)
  BY DEF View!Opened, st
<1> HIDE DEF d
<1> QED
  BY <1>3, <1>4, Syncing

\* The request that is answered is taken out.
LEMMA Answering ==
    ASSUME NEW s \in Seq(Requests), NEW i \in 1 .. Len(s)
    PROVE  View!RemoveAt(s, i) \in Seq(Requests)
<1>1. Len(s) \in Nat
  BY LenProperties
<1>2. \A j \in 1 .. Len(s) : s[j] \in Requests
  BY ElementOfSeq
<1>3. \A j \in 1 .. i - 1 : s[j] \in Requests
  BY <1>1, <1>2
<1>4. \A j \in i + 1 .. Len(s) : s[j] \in Requests
  BY <1>1, <1>2
<1>5. SubSeq(s, 1, i - 1) \in Seq(Requests)
  <2>1. 1 \in Int /\ i - 1 \in Int
    OBVIOUS
  <2> QED
    BY <1>3, <2>1, SubSeqProperties
<1>6. SubSeq(s, i + 1, Len(s)) \in Seq(Requests)
  <2>1. i + 1 \in Int /\ Len(s) \in Int
    BY <1>1
  <2> QED
    BY <1>4, <2>1, SubSeqProperties
<1> QED
  BY <1>5, <1>6, ConcatProperties DEF View!RemoveAt

\* Both views are one in which answers may overtake each other and every bound
\* is the larger one.
LEMMA Views ==
    ASSUME ViewInv, Ordered!Next \/ Unordered!Next
    PROVE  View!Next
<1>1. MaxOutputs \in Nat
  BY ViewAssumption
<1>2. \A kinds, b : /\ Ordered!Ask(kinds, b) = View!Ask(kinds, b)
                    /\ Unordered!Ask(kinds, b) = View!Ask(kinds, b)
  BY DEF Ordered!Ask, Unordered!Ask, View!Ask, Ordered!Asked, Unordered!Asked, View!Asked
<1>3. \A d, l : Ordered!Sync(d, l) = View!Sync(d, l) /\ Unordered!Sync(d, l) = View!Sync(d, l)
  BY DEF Ordered!Sync, Unordered!Sync, View!Sync
<1>4. \A l : Ordered!Opened(l) = View!Opened(l) /\ Unordered!Opened(l) = View!Opened(l)
  BY <1>3 DEF Ordered!Opened, Unordered!Opened, View!Opened
<1>5. \A s, i : Ordered!RemoveAt(s, i) = View!RemoveAt(s, i)
                /\ Unordered!RemoveAt(s, i) = View!RemoveAt(s, i)
  BY DEF Ordered!RemoveAt, Unordered!RemoveAt, View!RemoveAt
<1>6. \A k, b : Ordered!Asked(k, b) = View!Asked(k, b) /\ Unordered!Asked(k, b) = View!Asked(k, b)
  BY DEF Ordered!Asked, Unordered!Asked, View!Asked
<1>7. CASE Ordered!StartRun \/ Unordered!StartRun
  <2>1. View!StartRun
    BY <1>7 DEF Ordered!StartRun, Unordered!StartRun, View!StartRun
  <2> QED
    BY <2>1 DEF View!Next
<1>8. CASE Ordered!Output \/ Unordered!Output
  <2>1. View!Output
    BY <1>1, <1>8 DEF Ordered!Output, Unordered!Output, View!Output, ViewInv
  <2> QED
    BY <2>1 DEF View!Next
<1>9. CASE Ordered!FinishRun \/ Unordered!FinishRun
  <2>1. View!FinishRun
    BY <1>9 DEF Ordered!FinishRun, Unordered!FinishRun, View!FinishRun
  <2> QED
    BY <2>1 DEF View!Next
<1>10. CASE Ordered!Answer \/ Unordered!Answer
  <2>1. View!Answer
    BY <1>10 DEF Ordered!Answer, Unordered!Answer, View!Answer, Ordered!agentVars,
       Unordered!agentVars, View!agentVars
  <2> QED
    BY <2>1 DEF View!Next
<1>11. CASE Ordered!OpenDrawer \/ Unordered!OpenDrawer
  <2>1. View!OpenDrawer
    BY <1>2, <1>4, <1>11 DEF Ordered!OpenDrawer, Unordered!OpenDrawer, View!OpenDrawer,
       Ordered!agentVars, Unordered!agentVars, View!agentVars
  <2> QED
    BY <2>1 DEF View!Next
<1>12. CASE Ordered!CloseDrawer \/ Unordered!CloseDrawer
  <2>1. View!CloseDrawer
    BY <1>12 DEF Ordered!CloseDrawer, Unordered!CloseDrawer, View!CloseDrawer,
       Ordered!agentVars, Unordered!agentVars, View!agentVars
  <2> QED
    BY <2>1 DEF View!Next
<1>13. CASE Ordered!TriggerTask \/ Unordered!TriggerTask
  <2>1. View!TriggerTask
    BY <1>2, <1>13 DEF Ordered!TriggerTask, Unordered!TriggerTask, View!TriggerTask,
       Ordered!agentVars, Unordered!agentVars, View!agentVars
  <2> QED
    BY <2>1 DEF View!Next
<1>14. CASE Ordered!Refresh \/ Unordered!Refresh
  <2>1. View!Refresh
    BY <1>2, <1>14 DEF Ordered!Refresh, Unordered!Refresh, View!Refresh,
       Ordered!agentVars, Unordered!agentVars, View!agentVars
  <2> QED
    BY <2>1 DEF View!Next
<1>15. CASE Ordered!DeliverEvent \/ Unordered!DeliverEvent
  <2>1. Ordered!OnStarted \/ Unordered!OnStarted => View!OnStarted
    BY <1>2 DEF Ordered!OnStarted, Unordered!OnStarted, View!OnStarted
  <2>2. \A c : Ordered!OnOutput(c) \/ Unordered!OnOutput(c) => View!OnOutput(c)
    BY DEF Ordered!OnOutput, Unordered!OnOutput, View!OnOutput
  <2>3. Ordered!OnFinished \/ Unordered!OnFinished => View!OnFinished
    BY <1>2, <1>3 DEF Ordered!OnFinished, Unordered!OnFinished, View!OnFinished,
       Ordered!InPlace, Unordered!InPlace, View!InPlace
  <2>4. View!DeliverEvent
    <3>1. events # <<>>
      BY <1>15 DEF Ordered!DeliverEvent, Unordered!DeliverEvent
    <3>2. Head(events).kind \in {"started", "output", "finished"}
      BY <3>1, HeadTailProperties DEF ViewInv, View!Event
    <3>3. UNCHANGED <<View!agentVars, clicks, reload>> /\ events' = Tail(events)
      BY <1>15 DEF Ordered!DeliverEvent, Unordered!DeliverEvent, Ordered!agentVars,
         Unordered!agentVars, View!agentVars
    <3>4. CASE Head(events).kind = "started"
      <4>1. Ordered!OnStarted \/ Unordered!OnStarted
        BY <1>15, <3>4 DEF Ordered!DeliverEvent, Unordered!DeliverEvent
      <4> QED
        BY <2>1, <3>1, <3>3, <3>4, <4>1 DEF View!DeliverEvent
    <3>5. CASE Head(events).kind = "output"
      <4>1. Ordered!OnOutput(Head(events).chunk) \/ Unordered!OnOutput(Head(events).chunk)
        BY <1>15, <3>5 DEF Ordered!DeliverEvent, Unordered!DeliverEvent
      <4> QED
        BY <2>2, <3>1, <3>3, <3>5, <4>1 DEF View!DeliverEvent
    <3>6. CASE Head(events).kind = "finished"
      <4>1. Ordered!OnFinished \/ Unordered!OnFinished
        BY <1>15, <3>6 DEF Ordered!DeliverEvent, Unordered!DeliverEvent
      <4> QED
        BY <2>3, <3>1, <3>3, <3>6, <4>1 DEF View!DeliverEvent
    <3> QED
      BY <3>2, <3>4, <3>5, <3>6
  <2> QED
    BY <2>4 DEF View!Next
<1>16. CASE Ordered!LoseEvent \/ Unordered!LoseEvent
  <2>1. View!LoseEvent
    BY <1>16 DEF Ordered!LoseEvent, Unordered!LoseEvent, View!LoseEvent,
       Ordered!agentVars, Unordered!agentVars, View!agentVars
  <2> QED
    BY <2>1 DEF View!Next
<1>17. CASE Ordered!Respond \/ Unordered!Respond
  <2>1. \A r, rest : Ordered!Loaded(r, rest) \/ Unordered!Loaded(r, rest) => View!Loaded(r, rest)
    BY <1>3 DEF Ordered!Loaded, Unordered!Loaded, View!Loaded
  <2>2. \A r, rest : Ordered!Triggered(r, rest) \/ Unordered!Triggered(r, rest)
                     => View!Triggered(r, rest)
    BY <1>3, <1>4, <1>6 DEF Ordered!Triggered, Unordered!Triggered, View!Triggered
  <2>3. \A r, rest : Ordered!OutputFetched(r, rest) \/ Unordered!OutputFetched(r, rest)
                     => View!OutputFetched(r, rest)
    BY DEF Ordered!OutputFetched, Unordered!OutputFetched, View!OutputFetched,
       Ordered!Fetched, Unordered!Fetched, View!Fetched, Ordered!StartPoll,
       Unordered!StartPoll, View!StartPoll
  <2>4. \A r, rest : Ordered!RunFetched(r, rest) \/ Unordered!RunFetched(r, rest)
                     => View!RunFetched(r, rest)
    BY <1>6 DEF Ordered!RunFetched, Unordered!RunFetched, View!RunFetched
  <2>5. \A r, rest : Ordered!Polled(r, rest) \/ Unordered!Polled(r, rest) => View!Polled(r, rest)
    BY <1>6 DEF Ordered!Polled, Unordered!Polled, View!Polled
  <2>6. View!Respond
    <3>1. UNCHANGED <<View!agentVars, events, clicks>>
      BY <1>17 DEF Ordered!Respond, Unordered!Respond, Ordered!agentVars, Unordered!agentVars,
         View!agentVars
    <3>2. PICK i \in 1 .. Len(reqs) :
             /\ reqs[i].answered
             /\ reload' = View!Reloaded(reqs[i], "done")
             /\ LET r == reqs[i]
                    rest == View!RemoveAt(reqs, i)
                IN  \/ CASE r.kind = "list" -> Ordered!Loaded(r, rest)
                         [] r.kind = "trigger" -> Ordered!Triggered(r, rest)
                         [] r.kind \in {"output", "openOutput"} -> Ordered!OutputFetched(r, rest)
                         [] r.kind = "open" -> Ordered!RunFetched(r, rest)
                         [] r.kind = "poll" -> Ordered!Polled(r, rest)
                    \/ CASE r.kind = "list" -> Unordered!Loaded(r, rest)
                         [] r.kind = "trigger" -> Unordered!Triggered(r, rest)
                         [] r.kind \in {"output", "openOutput"} -> Unordered!OutputFetched(r, rest)
                         [] r.kind = "open" -> Unordered!RunFetched(r, rest)
                         [] r.kind = "poll" -> Unordered!Polled(r, rest)
      BY <1>5, <1>17 DEF Ordered!Respond, Unordered!Respond, Ordered!Reloaded,
         Unordered!Reloaded, View!Reloaded
    <3> DEFINE rest == View!RemoveAt(reqs, i)
    <3>3. reqs[i] \in Requests
      BY ElementOfSeq DEF ViewInv
    <3>4. reqs[i].kind \in RequestKinds
      BY <3>3 DEF Requests, AnyRequest
    <3> HIDE DEF rest
    <3>5. CASE reqs[i].kind = "list" /\ View!Loaded(reqs[i], rest)
      BY <3>1, <3>2, <3>5 DEF View!Respond, rest
    <3>6. CASE reqs[i].kind = "trigger" /\ View!Triggered(reqs[i], rest)
      BY <3>1, <3>2, <3>6 DEF View!Respond, rest
    <3>7. CASE reqs[i].kind \in {"output", "openOutput"} /\ View!OutputFetched(reqs[i], rest)
      BY <3>1, <3>2, <3>7 DEF View!Respond, rest
    <3>8. CASE reqs[i].kind = "open" /\ View!RunFetched(reqs[i], rest)
      BY <3>1, <3>2, <3>8 DEF View!Respond, rest
    <3>9. CASE reqs[i].kind = "poll" /\ View!Polled(reqs[i], rest)
      BY <3>1, <3>2, <3>9 DEF View!Respond, rest
    <3> QED
      BY <2>1, <2>2, <2>3, <2>4, <2>5, <3>2, <3>4, <3>5, <3>6, <3>7, <3>8, <3>9
         DEF RequestKinds, rest
  <2> QED
    BY <2>6 DEF View!Next
<1>18. CASE Ordered!PollTick \/ Unordered!PollTick
  <2>1. View!PollTick
    BY <1>2, <1>18 DEF Ordered!PollTick, Unordered!PollTick, View!PollTick,
       Ordered!agentVars, Unordered!agentVars, View!agentVars
  <2> QED
    BY <2>1 DEF View!Next
<1>19. CASE Ordered!Fail \/ Unordered!Fail
  <2>1. View!Fail
    BY <1>5, <1>6, <1>19 DEF Ordered!Fail, Unordered!Fail, View!Fail, Ordered!Reloaded,
       Unordered!Reloaded, View!Reloaded, Ordered!StartPoll, Unordered!StartPoll,
       View!StartPoll, Ordered!agentVars, Unordered!agentVars, View!agentVars
  <2> QED
    BY <2>1 DEF View!Next
<1> QED
  BY <1>7, <1>8, <1>9, <1>10, <1>11, <1>12, <1>13, <1>14, <1>15, <1>16, <1>17, <1>18, <1>19
     DEF Ordered!Next, Unordered!Next

\* A step of the view.  Its own part of the agent's state and of the requests
\* comes first, then what it does with the list and the drawer.
LEMMA ViewStep ==
    ASSUME ViewInv, View!Next
    PROVE  ViewInv' /\ (drawer.show /\ drawer'.show => Kept(drawer, drawer'))
<1> DEFINE Entries == Seq({"Running", "Done"})
           Heard == Seq(View!Event)
           Goal == ViewInv' /\ (drawer.show /\ drawer'.show => Kept(drawer, drawer'))
           DrawerGoal == /\ drawer' \in DrawerStates /\ (drawer'.show => drawer'.bound)
                         /\ drawer.show /\ drawer'.show => Kept(drawer, drawer')
<1>1. /\ row \in RunStatus /\ produced \in 0 .. MaxOutputs /\ stored \in Seq(Chunks)
      /\ finished \in BOOLEAN
      /\ reqs \in Seq(Requests) /\ list \in Entries /\ events \in Heard
      /\ drawer \in DrawerStates /\ (drawer.show => drawer.bound)
  BY DEF ViewInv
<1>2. ASSUME /\ row' \in RunStatus /\ produced' \in 0 .. MaxOutputs /\ stored' \in Seq(Chunks)
             /\ finished' \in BOOLEAN /\ reqs' \in Seq(Requests) /\ list' \in Entries
             /\ events' \in Heard,
             DrawerGoal
      PROVE  Goal
  BY <1>2 DEF ViewInv
<1>3. drawer' = drawer => DrawerGoal
  BY <1>1 DEF Kept
<1>4. ASSUME NEW d \in DrawerStates, NEW l \in Entries, drawer' = View!Sync(d, l),
             d.bound = drawer.bound /\ d.show = drawer.show /\ Kept(drawer, d)
      PROVE  DrawerGoal
  <2>1. /\ drawer' \in DrawerStates /\ drawer'.bound = d.bound /\ drawer'.show = d.show
        /\ Kept(d, drawer')
    BY <1>4, Syncing
  <2> QED
    BY <1>1, <1>4, <2>1 DEF Kept
<1> HIDE DEF Goal, DrawerGoal
<1>5. \A e \in View!Event : Append(events, e) \in Heard
  BY <1>1
<1>6. CASE View!StartRun
  <2>1. /\ row' = "Running" /\ events' = Append(events, [kind |-> "started", chunk |-> 0])
        /\ UNCHANGED <<stored, produced, list, drawer, finished>>
    BY <1>6 DEF View!StartRun
  <2>2. reqs' \in Seq(Requests)
    <3>1. CASE UNCHANGED reqs
      BY <1>1, <3>1
    <3>2. ASSUME NEW i \in 1 .. Len(reqs),
                 reqs' = [reqs EXCEPT ![i].answered = TRUE, ![i].status = "Running"]
          PROVE  reqs' \in Seq(Requests)
      <4> DEFINE r == [reqs[i] EXCEPT !.answered = TRUE, !.status = "Running"]
      <4>1. reqs[i] \in Requests
        BY <1>1, ElementOfSeq
      <4>2. r \in Requests
        BY <4>1 DEF Requests, AnyRequest, RunStatus
      <4>3. reqs' = [reqs EXCEPT ![i] = r]
        BY <3>2, <1>1, <4>1 DEF Requests, AnyRequest
      <4> HIDE DEF r
      <4> QED
        BY <1>1, <4>2, <4>3, ExceptSeq
    <3> QED
      BY <1>6, <3>1, <3>2 DEF View!StartRun
  <2>3. events' \in Heard
    <3>1. [kind |-> "started", chunk |-> 0] \in View!Event
      BY DEF View!Event
    <3> QED
      BY <1>5, <2>1, <3>1
  <2> QED
    BY <1>1, <1>2, <1>3, <2>1, <2>2, <2>3 DEF RunStatus, Goal
<1>7. CASE View!Output
  <2>1. /\ produced' = produced + 1 /\ stored' \in {stored, Append(stored, produced + 1)}
        /\ events' = Append(events, [kind |-> "output", chunk |-> produced'])
        /\ produced < MaxOutputs
        /\ UNCHANGED <<row, reqs, list, drawer, finished>>
    BY <1>7 DEF View!Output
  <2>2. produced' \in 0 .. MaxOutputs /\ produced + 1 \in Chunks
    BY <1>1, <2>1, ViewAssumption DEF Chunks
  <2>3. stored' \in Seq(Chunks)
    <3>1. \A n \in Chunks : Append(stored, n) \in Seq(Chunks)
      BY <1>1
    <3> QED
      BY <1>1, <2>1, <2>2, <3>1
  <2>4. events' \in Heard
    <3>1. [kind |-> "output", chunk |-> produced'] \in View!Event
      BY <2>1, <2>2 DEF View!Event, Chunks
    <3> QED
      BY <1>5, <2>1, <3>1
  <2> QED
    BY <1>1, <1>2, <1>3, <2>1, <2>2, <2>3, <2>4 DEF Goal
<1>8. CASE View!FinishRun
  <2>1. /\ row' \in RunStatus /\ events' = Append(events, [kind |-> "finished", chunk |-> 0])
        /\ UNCHANGED <<stored, produced, reqs, list, drawer, finished>>
    BY <1>8 DEF View!FinishRun, RunStatus
  <2>2. events' \in Heard
    <3>1. [kind |-> "finished", chunk |-> 0] \in View!Event
      BY DEF View!Event
    <3> QED
      BY <1>5, <2>1, <3>1
  <2> QED
    BY <1>1, <1>2, <1>3, <2>1, <2>2 DEF Goal
<1>9. CASE View!Answer
  <2>1. UNCHANGED <<row, stored, produced, events, list, drawer, finished>>
    BY <1>9 DEF View!Answer, View!agentVars
  <2>2. PICK i \in 1 .. Len(reqs) :
           /\ reqs[i].kind # "trigger"
           /\ reqs' = [reqs EXCEPT ![i] = [@ EXCEPT !.answered = TRUE, !.status = row,
                                                    !.chunks = stored]]
    BY <1>9 DEF View!Answer
  <2> DEFINE r == [reqs[i] EXCEPT !.answered = TRUE, !.status = row, !.chunks = stored]
  <2>3. reqs[i] \in Requests
    BY <1>1, ElementOfSeq
  <2>4. r \in Requests
    BY <1>1, <2>2, <2>3 DEF Requests, AnyRequest, RunStatus
  <2>5. reqs' = [reqs EXCEPT ![i] = r]
    BY <2>2
  <2> HIDE DEF r
  <2>6. reqs' \in Seq(Requests)
    BY <1>1, <2>4, <2>5, ExceptSeq
  <2> QED
    BY <1>1, <1>2, <1>3, <2>1, <2>6 DEF Goal
<1>10. CASE View!OpenDrawer
  <2>1. /\ ~drawer.show /\ drawer' = View!Opened(list) /\ reqs' = View!Ask(<<"open">>, finished)
        /\ UNCHANGED <<row, stored, produced, events, list, finished>>
    BY <1>10 DEF View!OpenDrawer, View!agentVars
  <2>2. DrawerGoal
    BY <1>1, <2>1, Opening DEF DrawerGoal
  <2>3. reqs' \in Seq(Requests)
    BY <1>1, <2>1, Asking DEF RequestKinds
  <2> QED
    BY <1>1, <1>2, <2>1, <2>2, <2>3 DEF Goal
<1>11. CASE View!CloseDrawer
  <2>1. /\ drawer' = [drawer EXCEPT !.show = FALSE, !.poll = FALSE]
        /\ UNCHANGED <<row, stored, produced, events, reqs, list, finished>>
    BY <1>11 DEF View!CloseDrawer, View!agentVars
  <2>2. DrawerGoal
    BY <1>1, <2>1 DEF DrawerGoal, DrawerStates
  <2> QED
    BY <1>1, <1>2, <2>1, <2>2 DEF Goal
<1>12. CASE View!TriggerTask \/ View!Refresh
  <2>1. /\ \/ reqs' = View!Ask(<<"trigger">>, finished)
           \/ reqs' = View!Ask(<<"list">>, finished)
        /\ UNCHANGED <<row, stored, produced, events, list, drawer, finished>>
    BY <1>12 DEF View!TriggerTask, View!Refresh, View!agentVars
  <2>2. reqs' \in Seq(Requests)
    BY <1>1, <2>1, Asking DEF RequestKinds
  <2> QED
    BY <1>1, <1>2, <1>3, <2>1, <2>2 DEF Goal
<1>13. CASE View!DeliverEvent
  <2>1. /\ events # <<>> /\ events' = Tail(events)
        /\ UNCHANGED <<row, stored, produced>>
    BY <1>13 DEF View!DeliverEvent, View!agentVars
  <2>2. /\ Head(events).kind \in {"started", "output", "finished"}
        /\ events' \in Heard
    BY <1>1, <2>1, HeadTailProperties DEF View!Event
  <2>3. CASE View!OnStarted
    <3>1. /\ reqs' = View!Ask(<<"list">>, finished) /\ list' = list /\ finished' = finished
          /\ drawer' = IF drawer.bound /\ drawer.status \notin {"none", "Done"}
                       THEN [drawer EXCEPT !.status = "Running"] ELSE drawer
      BY <2>3 DEF View!OnStarted
    <3>2. reqs' \in Seq(Requests)
      BY <1>1, <3>1, Asking DEF RequestKinds
    <3>3. DrawerGoal
      BY <1>1, <3>1 DEF DrawerGoal, DrawerStates, RunStatus, Kept
    <3> QED
      BY <1>1, <1>2, <2>1, <2>2, <3>1, <3>2, <3>3 DEF Goal
  <2>4. CASE View!OnOutput(Head(events).chunk)
    <3>1. UNCHANGED <<reqs, list, drawer, finished>>
      BY <2>4 DEF View!OnOutput
    <3> QED
      BY <1>1, <1>2, <1>3, <2>1, <2>2, <3>1 DEF Goal
  <2>5. CASE View!OnFinished
    <3> DEFINE d == IF drawer.bound
                    THEN [drawer EXCEPT !.poll = FALSE, !.status = IF @ = "none" THEN @ ELSE "Done"]
                    ELSE drawer
    <3>1. /\ list' = View!InPlace(list) /\ drawer' = View!Sync(d, list')
          /\ \/ reqs' = View!Ask(<<"list", "output", "output">>, TRUE)
             \/ reqs' = View!Ask(<<"list", "output">>, TRUE)
          /\ finished' = TRUE
      BY <2>5 DEF View!OnFinished
    <3>2. list' \in Entries
      <4>1. CASE list = <<>>
        BY <1>1, <3>1, <4>1 DEF View!InPlace
      <4>2. CASE list # <<>>
        <5>1. 1 \in 1 .. Len(list)
          <6>1. Len(list) \in Nat \ {0}
            BY <1>1, <4>2, EmptySeq
          <6> QED
            BY <6>1
        <5>2. list' = [list EXCEPT ![1] = "Done"]
          BY <3>1, <4>2 DEF View!InPlace
        <5> QED
          BY <1>1, <5>1, <5>2, ExceptSeq
      <4> QED
        BY <4>1, <4>2
    <3>3. reqs' \in Seq(Requests)
      BY <1>1, <3>1, Asking DEF RequestKinds
    <3>4. d \in DrawerStates /\ d.bound = drawer.bound /\ d.show = drawer.show /\ Kept(drawer, d)
      BY <1>1 DEF DrawerStates, RunStatus, Kept
    <3> HIDE DEF d
    <3>5. DrawerGoal
      BY <1>4, <3>1, <3>2, <3>4
    <3> QED
      BY <1>1, <1>2, <2>1, <2>2, <3>1, <3>2, <3>3, <3>5 DEF Goal
  <2> QED
    BY <1>13, <2>2, <2>3, <2>4, <2>5 DEF View!DeliverEvent
<1>14. CASE View!LoseEvent
  <2>1. /\ events # <<>> /\ events' = Tail(events)
        /\ UNCHANGED <<row, stored, produced, reqs, list, drawer, finished>>
    BY <1>14 DEF View!LoseEvent, View!agentVars
  <2>2. events' \in Heard
    BY <1>1, <2>1, HeadTailProperties
  <2> QED
    BY <1>1, <1>2, <1>3, <2>1, <2>2 DEF Goal
<1>15. CASE View!Respond
  <2>1. UNCHANGED <<row, stored, produced, events>>
    BY <1>15 DEF View!Respond, View!agentVars
  <2>2. PICK i \in 1 .. Len(reqs) :
           LET r == reqs[i]
               rest == View!RemoveAt(reqs, i)
           IN  /\ r.answered
               /\ CASE r.kind = "list" -> View!Loaded(r, rest)
                    [] r.kind = "trigger" -> View!Triggered(r, rest)
                    [] r.kind \in {"output", "openOutput"} -> View!OutputFetched(r, rest)
                    [] r.kind = "open" -> View!RunFetched(r, rest)
                    [] r.kind = "poll" -> View!Polled(r, rest)
    BY <1>15 DEF View!Respond
  <2> DEFINE r == reqs[i]
             rest == View!RemoveAt(reqs, i)
  <2>3. r \in Requests
    BY <1>1, ElementOfSeq
  <2>4. rest \in Seq(Requests)
    BY <1>1, Answering
  <2>5. /\ r.kind \in RequestKinds /\ r.status \in RunStatus /\ r.answered
        /\ r.kind = "trigger" => r.status \in {"Running", "Done"}
    BY <2>2, <2>3 DEF Requests, AnyRequest, RunStatus
  <2>6. /\ r.kind = "list" => View!Loaded(r, rest)
        /\ r.kind = "trigger" => View!Triggered(r, rest)
        /\ r.kind \in {"output", "openOutput"} => View!OutputFetched(r, rest)
        /\ r.kind = "open" => View!RunFetched(r, rest)
        /\ r.kind = "poll" => View!Polled(r, rest)
    BY <2>2
  <2> HIDE DEF r, rest
  <2>7. \A k \in RequestKinds : Append(rest, View!Asked(k, finished)) \in Seq(Requests)
    BY <1>1, <2>4, Asking
  <2>13. finished' = finished
    BY <2>5, <2>6 DEF RequestKinds, View!Loaded, View!Triggered, View!OutputFetched,
       View!RunFetched, View!Polled
  <2>8. CASE r.kind = "list"
    <3>1. /\ list' = IF r.status = "none" THEN <<>> ELSE <<r.status>>
          /\ drawer' = View!Sync(drawer, list') /\ reqs' = rest
      BY <2>6, <2>8 DEF View!Loaded
    <3>2. list' \in Entries
      <4>1. <<>> \in Entries
        BY EmptySeq
      <4>2. r.status # "none" => <<r.status>> \in Entries
        BY <2>5 DEF RunStatus
      <4> QED
        BY <3>1, <4>1, <4>2
    <3>3. DrawerGoal
      BY <1>1, <1>4, <3>1, <3>2 DEF Kept
    <3> QED
      BY <1>1, <1>2, <2>1, <2>13, <2>4, <3>1, <3>2, <3>3 DEF Goal
  <2>9. CASE r.kind = "trigger"
    <3> DEFINE st == IF finished THEN "Done" ELSE r.status
    <3>1. st \in {"Running", "Done"}
      BY <2>5, <2>9
    <3>2. /\ list' = <<st>> \o list
          /\ IF drawer.bound /\ drawer.show
               THEN drawer' = View!Sync(drawer, list') /\ reqs' = rest
               ELSE drawer' = View!Opened(list') /\ reqs' = Append(rest, View!Asked("open", finished))
      BY <2>6, <2>9 DEF View!Triggered
    <3> HIDE DEF st
    <3>3. list' \in Entries
      <4>1. <<st>> \in Entries
        BY <3>1
      <4> QED
        BY <1>1, <3>2, <4>1, ConcatProperties
    <3>4. reqs' \in Seq(Requests)
      BY <2>4, <2>7, <3>2 DEF RequestKinds
    <3>5. CASE drawer.bound /\ drawer.show
      <4>1. DrawerGoal
        BY <1>1, <1>4, <3>2, <3>3, <3>5 DEF Kept
      <4> QED
        BY <1>1, <1>2, <2>1, <2>13, <3>3, <3>4, <4>1 DEF Goal
    <3>6. CASE ~(drawer.bound /\ drawer.show)
      <4>1. ~drawer.show /\ drawer' = View!Opened(list')
        BY <1>1, <3>2, <3>6
      <4>2. drawer' \in DrawerStates /\ drawer'.bound
        BY <3>3, <4>1, Opening
      <4>3. DrawerGoal
        BY <4>1, <4>2 DEF DrawerGoal
      <4> QED
        BY <1>1, <1>2, <2>1, <2>13, <3>3, <3>4, <4>3 DEF Goal
    <3> QED
      BY <3>5, <3>6
  <2>10. CASE r.kind \in {"output", "openOutput"}
    <3>1. /\ list' = list /\ reqs' = rest
          /\ drawer' \in {drawer, View!StartPoll}
      BY <2>6, <2>10 DEF View!OutputFetched
    <3>2. DrawerGoal
      BY <1>1, <3>1 DEF DrawerGoal, DrawerStates, Kept, View!StartPoll
    <3> QED
      BY <1>1, <1>2, <2>1, <2>13, <2>4, <3>1, <3>2 DEF Goal
  <2>11. CASE r.kind = "open"
    <3>1. /\ list' = list /\ reqs' = Append(rest, View!Asked("openOutput", finished))
          /\ drawer' = IF r.status # "none" /\ (drawer.status # "Done" \/ r.status # "Running")
                       THEN [drawer EXCEPT !.status = r.status] ELSE drawer
      BY <2>6, <2>11 DEF View!RunFetched
    <3>2. reqs' \in Seq(Requests)
      BY <2>7, <3>1 DEF RequestKinds
    <3>3. DrawerGoal
      BY <1>1, <2>5, <3>1 DEF DrawerGoal, DrawerStates, RunStatus, Kept
    <3> QED
      BY <1>1, <1>2, <2>1, <2>13, <3>1, <3>2, <3>3 DEF Goal
  <2>12. CASE r.kind = "poll"
    <3>1. /\ list' = list
          /\ reqs' = rest \/ reqs' = Append(rest, View!Asked("output", finished))
          /\ drawer' = drawer \/ drawer' = [drawer EXCEPT !.status = "Done", !.poll = FALSE]
      BY <2>6, <2>12 DEF View!Polled
    <3>2. reqs' \in Seq(Requests)
      BY <2>4, <2>7, <3>1 DEF RequestKinds
    <3>3. DrawerGoal
      BY <1>1, <3>1 DEF DrawerGoal, DrawerStates, RunStatus, Kept
    <3> QED
      BY <1>1, <1>2, <2>1, <2>13, <3>1, <3>2, <3>3 DEF Goal
  <2> QED
    BY <2>5, <2>8, <2>9, <2>10, <2>11, <2>12 DEF RequestKinds
<1>16. CASE View!PollTick
  <2>1. /\ \/ reqs' = reqs /\ drawer' = [drawer EXCEPT !.poll = FALSE]
           \/ reqs' = View!Ask(<<"poll">>, finished) /\ drawer' = drawer
        /\ UNCHANGED <<row, stored, produced, events, list, finished>>
    BY <1>16 DEF View!PollTick, View!agentVars
  <2>2. reqs' \in Seq(Requests)
    BY <1>1, <2>1, Asking DEF RequestKinds
  <2>3. DrawerGoal
    BY <1>1, <2>1 DEF DrawerGoal, DrawerStates, Kept
  <2> QED
    BY <1>1, <1>2, <2>1, <2>2, <2>3 DEF Goal
<1>17. CASE View!Fail
  <2>1. UNCHANGED <<row, stored, produced, events, list, finished>>
    BY <1>17 DEF View!Fail, View!agentVars
  <2>2. PICK i \in 1 .. Len(reqs) :
           /\ \/ reqs' = View!RemoveAt(reqs, i)
              \/ reqs' = Append(View!RemoveAt(reqs, i), View!Asked("openOutput", finished))
           /\ drawer' \in {drawer, View!StartPoll}
    BY <1>17 DEF View!Fail
  <2>3. reqs' \in Seq(Requests)
    <3> DEFINE rest == View!RemoveAt(reqs, i)
    <3>1. rest \in Seq(Requests)
      BY <1>1, Answering
    <3>2. View!Asked("openOutput", finished) \in Requests
      BY <1>1, Asking DEF RequestKinds
    <3> HIDE DEF rest
    <3>3. Append(rest, View!Asked("openOutput", finished)) \in Seq(Requests)
      BY <3>1, <3>2
    <3> QED
      BY <2>2, <3>1, <3>3 DEF rest
  <2>4. DrawerGoal
    BY <1>1, <2>2 DEF DrawerGoal, DrawerStates, Kept, View!StartPoll
  <2> QED
    BY <1>1, <1>2, <2>1, <2>3, <2>4 DEF Goal
<1> QED
  BY <1>6, <1>7, <1>8, <1>9, <1>10, <1>11, <1>12, <1>13, <1>14, <1>15, <1>16, <1>17
     DEF View!Next, Goal

\* The window is open, and the run does not exist.
LEMMA ViewInit == PartsInit => ViewInv
<1> SUFFICES ASSUME PartsInit PROVE ViewInv
  OBVIOUS
<1>1. /\ row = "none" /\ produced = 0 /\ stored = <<>> /\ reqs = <<>> /\ list = <<>>
      /\ events = <<>> /\ finished = FALSE
      /\ drawer = [bound |-> FALSE, show |-> FALSE, status |-> "none", poll |-> FALSE]
  BY DEF PartsInit, Ordered!Init
<1>2. /\ <<>> \in Seq(Requests) /\ <<>> \in Seq({"Running", "Done"})
      /\ <<>> \in Seq(View!Event) /\ <<>> \in Seq(Chunks)
  BY EmptySeq
<1>3. /\ reqs \in Seq(Requests) /\ list \in Seq({"Running", "Done"})
      /\ events \in Seq(View!Event) /\ stored \in Seq(Chunks)
  <2>1. reqs = <<>> /\ list = <<>> /\ events = <<>> /\ stored = <<>>
    BY <1>1
  <2> QED
    BY <1>2, <2>1, Zenon
<1>4. drawer \in DrawerStates /\ ~drawer.show /\ row \in RunStatus
  BY <1>1 DEF DrawerStates, RunStatus
<1>5. produced \in 0 .. MaxOutputs /\ finished \in BOOLEAN
  <2>1. MaxOutputs \in Nat
    BY ViewAssumption
  <2>2. produced = 0 /\ finished = FALSE
    BY <1>1
  <2>3. produced \in 0 .. MaxOutputs
    BY <2>1, <2>2
  <2>4. finished \in BOOLEAN
    BY <2>2
  <2> QED
    BY <2>3, <2>4
<1> QED
  BY <1>3, <1>4, <1>5 DEF ViewInv

\* LiveLogDrawer, "Never let a stale Running status overwrite an already
\* finished status": while the drawer stays open a finished run stays finished,
\* for any number of chunks and requests, whatever events are lost, whatever
\* requests fail and in whatever order the answers to its own, to those of the
\* list and to the polls come.
THEOREM DrawerIsMonotone == PartsSpec => DrawerNeverRegresses
<1>1. ViewInv /\ [PartsNext]_<<part, vars, winVars, macVars, probeVars, modeVars, viewVars>>
      => /\ ViewInv'
         /\ [drawer.show /\ drawer'.show => Kept(drawer, drawer')]_viewVars
  <2> SUFFICES ASSUME ViewInv,
                      [PartsNext]_<<part, vars, winVars, macVars, probeVars, modeVars, viewVars>>
               PROVE  /\ ViewInv'
                      /\ [drawer.show /\ drawer'.show => Kept(drawer, drawer')]_viewVars
    OBVIOUS
  <2>1. CASE UNCHANGED viewVars
    BY <2>1 DEF viewVars, ViewInv
  <2>2. CASE Ordered!Next \/ Unordered!Next
    BY <2>2, Views, ViewStep
  <2> QED
    BY <2>1, <2>2, PartsStep
<1>2. [drawer.show /\ drawer'.show => Kept(drawer, drawer')]_viewVars
      => [drawer.show /\ drawer'.show /\ drawer.status = "Done"
            => drawer'.status = "Done"]_Unordered!vars
  BY DEF viewVars, Unordered!vars, Kept
<1> QED
  BY <1>1, <1>2, ViewInit, PTL DEF PartsSpec, DrawerNeverRegresses, Unordered!DrawerNeverRegresses

-----------------------------------------------------------------------------
(* The settled view, when the answers come in order.                       *)

\* Requests whose answer, when it comes, is what the tables hold at the end of
\* the run; those of them that were asked when the end had been heard.
CurrentRequests ==
    {r \in Requests : /\ r.kind # "trigger"
                      /\ r.answered => r.status = row /\ r.chunks = stored}
LateRequests == {r \in CurrentRequests : r.late}

\* From position i on, all of s are in C.
AllFrom(s, i, C) == \A j \in i .. Len(s) : s[j] \in C

\* No request of s is late; behind one that is, all are in C.
NoneLate(s) == \A i \in 1 .. Len(s) : ~s[i].late
LateLast(s, C) == \A i \in 1 .. Len(s) : s[i].late => AllFrom(s, i, C)

\* A late reload of a table is in s.
Reloads(r, t) == r.late /\ r.kind \in (IF t = "list" THEN {"list"} ELSE {"output", "openOutput"})
Pending(s, t) == \E i \in 1 .. Len(s) : Reloads(s[i], t)

\* The end of the run is the last event of it.
EndIsLast ==
    /\ ended => row # "none"
    /\ finished => ended /\ events = <<>>
    /\ \A i \in 1 .. Len(events) : events[i].kind = "finished" => ended /\ i = Len(events)

RowIsShown == list = <<row>>
OutputIsShown == stored # <<>> => logs = stored

\* Before the end is heard nothing is late.  From then on the late requests come
\* last, and what is answered to them is final; once a late reload has
\* succeeded, what it shows is exact and every request is late; and a reload
\* that came to nothing yet is under way.
RepairComes ==
    /\ ~finished => NoneLate(reqs) /\ \A t \in {"list", "output"} : reload[t] # "done"
    /\ finished => LateLast(reqs, LateRequests)
    /\ \A t \in {"list", "output"} : /\ reload[t] = "done" => AllFrom(reqs, 1, LateRequests)
                                     /\ finished /\ reload[t] = "none" => Pending(reqs, t)
    /\ reload["list"] = "done" => RowIsShown
    /\ reload["output"] = "done" => OutputIsShown

\* What is appended to the requests comes last.
LEMMA AppendedLater ==
    ASSUME NEW C \in SUBSET Requests, NEW s \in Seq(Requests), NEW t \in Seq(Requests)
    PROVE  /\ NoneLate(s) /\ NoneLate(t) => NoneLate(s \o t)
           /\ (\A i \in 1 .. Len(t) : t[i] \in C) =>
                /\ AllFrom(s, 1, C) => AllFrom(s \o t, 1, C)
                /\ LateLast(s, C) => LateLast(s \o t, C)
           /\ \A k : Pending(s, k) \/ Pending(t, k) => Pending(s \o t, k)
<1>1. /\ Len(s \o t) = Len(s) + Len(t) /\ Len(s) \in Nat /\ Len(t) \in Nat
      /\ \A i \in 1 .. Len(s) : (s \o t)[i] = s[i]
      /\ \A i \in 1 .. Len(t) : (s \o t)[Len(s) + i] = t[i]
  <2>1. /\ Len(s \o t) = Len(s) + Len(t)
        /\ \A i \in 1 .. Len(s) + Len(t) : (s \o t)[i] =
             IF i <= Len(s) THEN s[i] ELSE t[i - Len(s)]
    BY ConcatProperties
  <2>2. Len(s) \in Nat /\ Len(t) \in Nat
    BY LenProperties
  <2> QED
    BY <2>1, <2>2
<1> DEFINE m == Len(s)
           n == Len(t)
           u == s \o t
<1>2. /\ Len(s) = m /\ Len(t) = n /\ m \in Nat /\ n \in Nat /\ Len(u) = m + n
      /\ \A i \in 1 .. m : u[i] = s[i]
      /\ \A i \in 1 .. n : u[m + i] = t[i]
  BY <1>1
<1> HIDE DEF m, n, u
<1>3. \A i \in 1 .. m + n : (i \in 1 .. m /\ u[i] = s[i]) \/ \E j \in 1 .. n : u[i] = t[j]
  <2> SUFFICES ASSUME NEW i \in 1 .. m + n, i \notin 1 .. m
               PROVE  \E j \in 1 .. n : u[i] = t[j]
    BY <1>2
  <2>1. i - m \in 1 .. n /\ m + (i - m) = i
    BY <1>2
  <2> QED
    BY <1>2, <2>1
<1>4. NoneLate(s) /\ NoneLate(t) => NoneLate(u)
  BY <1>2, <1>3 DEF NoneLate
<1>5. ASSUME \A i \in 1 .. n : t[i] \in C
      PROVE  /\ AllFrom(s, 1, C) => AllFrom(u, 1, C)
             /\ LateLast(s, C) => LateLast(u, C)
  <2>1. \A i \in 1 .. m + n : i > m => u[i] \in C
    BY <1>2, <1>3, <1>5
  <2>2. \A i \in Nat \ {0} : AllFrom(s, i, C) => AllFrom(u, i, C)
    BY <1>2, <2>1 DEF AllFrom
  <2>3. \A i \in 1 .. m + n : i > m => AllFrom(u, i, C)
    BY <1>2, <2>1 DEF AllFrom
  <2>4. LateLast(s, C) => LateLast(u, C)
    <3> SUFFICES ASSUME LateLast(s, C), NEW i \in 1 .. m + n, u[i].late
                 PROVE  AllFrom(u, i, C)
      BY <1>2 DEF LateLast
    <3>1. CASE i > m
      BY <2>3, <3>1
    <3>2. CASE i <= m
      <4>1. i \in 1 .. m /\ i \in Nat \ {0}
        BY <1>2, <3>2
      <4> QED
        BY <1>2, <2>2, <4>1 DEF LateLast
    <3> QED
      BY <1>2, <3>1, <3>2
  <2> QED
    BY <2>2, <2>4
<1>6. ASSUME NEW k, Pending(s, k) \/ Pending(t, k) PROVE Pending(u, k)
  <2>1. CASE Pending(s, k)
    <3>1. PICK i \in 1 .. m : Reloads(s[i], k)
      BY <1>2, <2>1 DEF Pending
    <3>2. i \in 1 .. Len(u) /\ u[i] = s[i]
      BY <1>2
    <3> QED
      BY <3>1, <3>2 DEF Pending
  <2>2. CASE Pending(t, k)
    <3>1. PICK i \in 1 .. n : Reloads(t[i], k)
      BY <1>2, <2>2 DEF Pending
    <3>2. m + i \in 1 .. Len(u) /\ u[m + i] = t[i]
      BY <1>2
    <3> QED
      BY <3>1, <3>2 DEF Pending
  <2> QED
    BY <1>6, <2>1, <2>2
<1> QED
  BY <1>2, <1>4, <1>5, <1>6 DEF u

\* One request is taken out: the others stay in their order.
LEMMA TakenOut ==
    ASSUME NEW C \in SUBSET Requests, NEW s \in Seq(Requests), NEW i \in 1 .. Len(s)
    PROVE  LET t == View!RemoveAt(s, i)
           IN  /\ NoneLate(s) => NoneLate(t)
               /\ AllFrom(s, 1, C) => AllFrom(t, 1, C)
               /\ LateLast(s, C) => LateLast(t, C)
               /\ i = 1 /\ s[i].late /\ LateLast(s, C) => s[i] \in C /\ AllFrom(t, 1, C)
               /\ \A k : Pending(s, k) => Pending(t, k) \/ Reloads(s[i], k)
<1> DEFINE t == View!RemoveAt(s, i)
           n == Len(s)
<1>1. n \in Nat /\ i \in 1 .. n
  BY LenProperties
<1>2. Len(t) = n - 1 /\ \A j \in 1 .. n - 1 : t[j] = IF j < i THEN s[j] ELSE s[j + 1]
  <2> DEFINE a == SubSeq(s, 1, i - 1)
             b == SubSeq(s, i + 1, n)
  <2>1. \A j \in 1 .. n : s[j] \in Requests
    BY ElementOfSeq
  <2>2. a \in Seq(Requests) /\ Len(a) = i - 1 /\ \A j \in 1 .. i - 1 : a[j] = s[j]
    <3>1. \A j \in 1 .. i - 1 : s[j] \in Requests
      BY <1>1, <2>1
    <3>2. /\ a \in Seq(Requests)
          /\ Len(a) = IF 1 <= i - 1 THEN (i - 1) - 1 + 1 ELSE 0
          /\ \A j \in 1 .. (i - 1) - 1 + 1 : a[j] = s[1 + j - 1]
      BY <1>1, <3>1, SubSeqProperties
    <3> HIDE DEF a
    <3> QED
      BY <1>1, <3>2
  <2>3. b \in Seq(Requests) /\ Len(b) = n - i /\ \A j \in 1 .. n - i : b[j] = s[i + j]
    <3>1. \A j \in i + 1 .. n : s[j] \in Requests
      BY <1>1, <2>1
    <3>2. /\ b \in Seq(Requests)
          /\ Len(b) = IF i + 1 <= n THEN n - (i + 1) + 1 ELSE 0
          /\ \A j \in 1 .. n - (i + 1) + 1 : b[j] = s[(i + 1) + j - 1]
      BY <1>1, <3>1, SubSeqProperties
    <3> HIDE DEF b, n
    <3>3. Len(b) = n - i
      BY <1>1, <3>2
    <3>4. ASSUME NEW j \in 1 .. n - i PROVE b[j] = s[i + j]
      <4>1. j \in 1 .. n - (i + 1) + 1 /\ (i + 1) + j - 1 = i + j
        BY <1>1
      <4> QED
        BY <3>2, <4>1
    <3> QED
      BY <3>2, <3>3, <3>4
  <2>4. t = a \o b
    BY DEF View!RemoveAt
  <2> HIDE DEF a, b, t, n
  <2>5. /\ Len(a \o b) = Len(a) + Len(b)
        /\ \A j \in 1 .. Len(a) + Len(b) : (a \o b)[j] =
             IF j <= Len(a) THEN a[j] ELSE b[j - Len(a)]
    BY <2>2, <2>3, ConcatProperties
  <2>6. ASSUME NEW j \in 1 .. n - 1 PROVE t[j] = IF j < i THEN s[j] ELSE s[j + 1]
    <3>1. t[j] = IF j <= i - 1 THEN a[j] ELSE b[j - (i - 1)]
      BY <1>1, <2>2, <2>3, <2>4, <2>5
    <3>2. CASE j < i
      <4>1. j \in 1 .. i - 1
        BY <1>1, <3>2
      <4> QED
        BY <2>2, <3>1, <3>2, <4>1
    <3>3. CASE j >= i
      <4>1. j - (i - 1) \in 1 .. n - i /\ i + (j - (i - 1)) = j + 1 /\ ~(j <= i - 1) /\ ~(j < i)
        BY <1>1, <3>3
      <4> QED
        BY <2>3, <3>1, <4>1
    <3> QED
      BY <1>1, <3>2, <3>3
  <2>7. Len(t) = n - 1
    BY <1>1, <2>2, <2>3, <2>4, <2>5
  <2> QED
    BY <2>6, <2>7
<1>3. Len(s) = n
  OBVIOUS
<1> HIDE DEF t, n
<1>4. \A j \in 1 .. n - 1 : \E k \in 1 .. n : t[j] = s[k] /\ k \in {j, j + 1}
  BY <1>1, <1>2
<1>5. NoneLate(s) => NoneLate(t)
  BY <1>2, <1>3, <1>4 DEF NoneLate
<1>6. AllFrom(s, 1, C) => AllFrom(t, 1, C)
  BY <1>2, <1>3, <1>4 DEF AllFrom
<1>7. ASSUME NEW j \in 1 .. n - 1, NEW k \in 1 .. n, k = (IF j < i THEN j ELSE j + 1),
             AllFrom(s, k, C)
      PROVE  AllFrom(t, j, C)
  <2> SUFFICES ASSUME NEW x \in j .. n - 1 PROVE t[x] \in C
    BY <1>2 DEF AllFrom
  <2> DEFINE y == IF x < i THEN x ELSE x + 1
  <2>1. x \in 1 .. n - 1 /\ y \in k .. n
    BY <1>1, <1>7
  <2>2. t[x] = s[y]
    BY <1>2, <2>1
  <2> HIDE DEF y
  <2> QED
    BY <1>3, <1>7, <2>1, <2>2 DEF AllFrom
<1>8. LateLast(s, C) => LateLast(t, C)
  <2> SUFFICES ASSUME LateLast(s, C), NEW j \in 1 .. n - 1, t[j].late
               PROVE  AllFrom(t, j, C)
    BY <1>2 DEF LateLast
  <2> DEFINE k == IF j < i THEN j ELSE j + 1
  <2>1. k \in 1 .. n /\ t[j] = s[k]
    BY <1>1, <1>2
  <2>2. k = IF j < i THEN j ELSE j + 1
    OBVIOUS
  <2> HIDE DEF k
  <2>3. AllFrom(s, k, C)
    BY <1>3, <2>1 DEF LateLast
  <2> QED
    BY <1>7, <2>1, <2>2, <2>3
<1>9. i = 1 /\ s[i].late /\ LateLast(s, C) => s[i] \in C /\ AllFrom(t, 1, C)
  <2> SUFFICES ASSUME i = 1, s[i].late, LateLast(s, C)
               PROVE  s[i] \in C /\ AllFrom(t, 1, C)
    OBVIOUS
  <2>1. AllFrom(s, 1, C)
    BY <1>1, <1>3 DEF LateLast
  <2>2. s[i] \in C
    BY <1>1, <1>3, <2>1 DEF AllFrom
  <2> QED
    BY <1>6, <2>1, <2>2
<1>10. ASSUME NEW k, Pending(s, k) PROVE Pending(t, k) \/ Reloads(s[i], k)
  <2>1. PICK j \in 1 .. n : Reloads(s[j], k)
    BY <1>3, <1>10 DEF Pending
  <2>2. CASE j = i
    BY <2>1, <2>2
  <2>3. CASE j # i
    <3> DEFINE x == IF j < i THEN j ELSE j - 1
    <3>1. x \in 1 .. n - 1 /\ t[x] = s[j]
      <4>1. x \in 1 .. n - 1 /\ j = IF x < i THEN x ELSE x + 1
        BY <1>1, <2>3
      <4> QED
        BY <1>2, <4>1
    <3> HIDE DEF x
    <3> QED
      BY <1>2, <2>1, <3>1 DEF Pending
  <2> QED
    BY <2>2, <2>3
<1> QED
  BY <1>5, <1>6, <1>8, <1>9, <1>10 DEF t

\* A request that is answered stays where it is.
LEMMA AnsweredInPlace ==
    ASSUME NEW C \in SUBSET Requests, NEW s \in Seq(Requests), NEW i \in 1 .. Len(s),
           NEW r \in Requests, r.kind = s[i].kind, r.late = s[i].late, s[i] \in C => r \in C
    PROVE  LET t == [s EXCEPT ![i] = r]
           IN  /\ NoneLate(s) => NoneLate(t)
               /\ AllFrom(s, 1, C) => AllFrom(t, 1, C)
               /\ LateLast(s, C) => LateLast(t, C)
               /\ \A k : Pending(s, k) => Pending(t, k)
<1> DEFINE t == [s EXCEPT ![i] = r]
<1>1. /\ Len(t) = Len(s) /\ Len(s) \in Nat
      /\ \A j \in 1 .. Len(s) : t[j] = IF j = i THEN r ELSE s[j]
  <2>1. DOMAIN s = 1 .. Len(s) /\ Len(s) \in Nat
    BY LenProperties
  <2>2. DOMAIN t = 1 .. Len(s)
    BY <2>1
  <2>3. \A j \in 1 .. Len(s) : t[j] = IF j = i THEN r ELSE s[j]
    BY <2>1
  <2>4. t \in Seq(Requests)
    BY ExceptSeq
  <2>5. Len(t) = Len(s)
    BY <2>1, <2>2, <2>4, LenProperties
  <2> QED
    BY <2>1, <2>3, <2>5
<1> HIDE DEF t
<1>2. \A k \in 1 .. Len(s) : AllFrom(s, k, C) => AllFrom(t, k, C)
  BY <1>1 DEF AllFrom
<1>3. AllFrom(s, 1, C) => AllFrom(t, 1, C)
  BY <1>1 DEF AllFrom
<1>4. \A j \in 1 .. Len(s) : t[j].late = s[j].late /\ t[j].kind = s[j].kind
  BY <1>1
<1>5. LateLast(s, C) => LateLast(t, C)
  BY <1>1, <1>2, <1>4 DEF LateLast
<1>6. \A k : Pending(s, k) => Pending(t, k)
  BY <1>1, <1>4 DEF Pending, Reloads
<1> QED
  BY <1>1, <1>3, <1>4, <1>5, <1>6 DEF NoneLate, t

\* What is asked is appended; asked when the end had been heard, its answer is
\* final.
LEMMA AskedIsCurrent ==
    /\ \A k, b : View!Ask(<<k>>, b) = reqs \o <<View!Asked(k, b)>>
    /\ \A k, l, b : View!Ask(<<k, l>>, b) = reqs \o <<View!Asked(k, b), View!Asked(l, b)>>
    /\ \A k, l, m, b : View!Ask(<<k, l, m>>, b) =
                       reqs \o <<View!Asked(k, b), View!Asked(l, b), View!Asked(m, b)>>
    /\ \A k, b : View!Asked(k, b).kind = k /\ View!Asked(k, b).late = b
    /\ \A k \in RequestKinds \ {"trigger"} : View!Asked(k, TRUE) \in LateRequests
<1>1. ASSUME NEW k, NEW b PROVE View!Ask(<<k>>, b) = reqs \o <<View!Asked(k, b)>>
  <2>1. [i \in 1 .. Len(<<k>>) |-> View!Asked(<<k>>[i], b)] = <<View!Asked(k, b)>>
    OBVIOUS
  <2> QED
    BY <2>1 DEF View!Ask
<1>2. ASSUME NEW k, NEW l, NEW b
      PROVE  View!Ask(<<k, l>>, b) = reqs \o <<View!Asked(k, b), View!Asked(l, b)>>
  <2>1. [i \in 1 .. Len(<<k, l>>) |-> View!Asked(<<k, l>>[i], b)]
        = <<View!Asked(k, b), View!Asked(l, b)>>
    OBVIOUS
  <2> QED
    BY <2>1 DEF View!Ask
<1>3. ASSUME NEW k, NEW l, NEW m, NEW b
      PROVE  View!Ask(<<k, l, m>>, b)
             = reqs \o <<View!Asked(k, b), View!Asked(l, b), View!Asked(m, b)>>
  <2>1. [i \in 1 .. Len(<<k, l, m>>) |-> View!Asked(<<k, l, m>>[i], b)]
        = <<View!Asked(k, b), View!Asked(l, b), View!Asked(m, b)>>
    OBVIOUS
  <2> QED
    BY <2>1 DEF View!Ask
<1>4. \A k, b : View!Asked(k, b).kind = k /\ View!Asked(k, b).late = b
  BY DEF View!Asked
<1>5. \A k \in RequestKinds \ {"trigger"} : View!Asked(k, TRUE) \in LateRequests
  BY EmptySeq DEF View!Asked, LateRequests, CurrentRequests, Requests, AnyRequest, RunStatus,
     RequestKinds
<1> QED
  BY <1>1, <1>2, <1>3, <1>4, <1>5

\* The agent announces nothing after the end, and the end once.
LEMMA EndStep ==
    ASSUME ViewInv, EndIsLast, Ordered!Next
    PROVE  EndIsLast'
<1> DEFINE Ends(s, e) == \A i \in 1 .. Len(s) : s[i].kind = "finished" => e /\ i = Len(s)
<1>1. /\ events \in Seq(View!Event) /\ Ends(events, ended)
      /\ ended => row # "none"
      /\ finished => ended /\ events = <<>>
  BY DEF ViewInv, EndIsLast
<1>2. Len(events) \in Nat
  BY <1>1, LenProperties
<1>3. ASSUME NEW e \in View!Event, ~ended
      PROVE  /\ e.kind # "finished" => Ends(Append(events, e), ended)
             /\ Ends(Append(events, e), TRUE)
  <2>1. /\ Len(Append(events, e)) = Len(events) + 1
        /\ Append(events, e)[Len(events) + 1] = e
        /\ \A i \in 1 .. Len(events) : Append(events, e)[i] = events[i]
    BY <1>1
  <2> QED
    BY <1>1, <1>2, <1>3, <2>1
<1>4. CASE Ordered!StartRun
  <2>1. /\ row = "none" /\ row' = "Running" /\ UNCHANGED <<ended, finished>>
        /\ events' = Append(events, [kind |-> "started", chunk |-> 0])
    BY <1>4 DEF Ordered!StartRun
  <2>2. [kind |-> "started", chunk |-> 0] \in View!Event
    BY DEF View!Event
  <2>3. ~ended /\ ~finished
    BY <1>1, <2>1
  <2>4. Ends(events', ended)
    BY <1>3, <2>1, <2>2, <2>3
  <2> QED
    BY <2>1, <2>3, <2>4 DEF EndIsLast
<1>5. CASE Ordered!Output
  <2>1. /\ ~ended /\ UNCHANGED <<row, ended, finished>>
        /\ events' = Append(events, [kind |-> "output", chunk |-> produced'])
        /\ produced' = produced + 1 /\ produced < MaxOutputs
    BY <1>5 DEF Ordered!Output
  <2>2. [kind |-> "output", chunk |-> produced'] \in View!Event
    BY <2>1, ViewAssumption DEF View!Event, ViewInv
  <2>3. Ends(events', ended)
    BY <1>3, <2>1, <2>2
  <2> QED
    BY <1>1, <2>1, <2>3 DEF EndIsLast
<1>6. CASE Ordered!FinishRun
  <2>1. /\ ~ended /\ ended' = TRUE /\ row' \in {"Done", "Running"} /\ UNCHANGED finished
        /\ events' = Append(events, [kind |-> "finished", chunk |-> 0])
    BY <1>6 DEF Ordered!FinishRun
  <2>2. [kind |-> "finished", chunk |-> 0] \in View!Event
    BY DEF View!Event
  <2>3. Ends(events', TRUE)
    BY <1>3, <2>1, <2>2
  <2> QED
    BY <1>1, <2>1, <2>3 DEF EndIsLast
<1>7. CASE Ordered!DeliverEvent \/ Ordered!LoseEvent
  <2>1. /\ events # <<>> /\ events' = Tail(events) /\ UNCHANGED <<row, ended>>
        /\ \/ finished' = finished
           \/ Head(events).kind = "finished" /\ finished' = TRUE
    <3>1. CASE Ordered!LoseEvent
      BY <3>1 DEF Ordered!LoseEvent, Ordered!agentVars
    <3>2. CASE Ordered!DeliverEvent
      <4>1. Head(events).kind \in {"started", "output", "finished"}
        BY <1>1, <3>2, HeadTailProperties DEF Ordered!DeliverEvent, View!Event
      <4> QED
        BY <3>2, <4>1 DEF Ordered!DeliverEvent, Ordered!agentVars, Ordered!OnStarted,
           Ordered!OnOutput, Ordered!OnFinished
    <3> QED
      BY <1>7, <3>1, <3>2
  <2>2. /\ Len(Tail(events)) = Len(events) - 1 /\ Head(events) = events[1]
        /\ \A i \in 1 .. Len(events) - 1 : Tail(events)[i] = events[i + 1]
        /\ Tail(events) \in Seq(View!Event)
        /\ Len(events) \in Nat \ {0}
    BY <1>1, <2>1, HeadTailProperties, EmptySeq
  <2> DEFINE n == Len(events)
  <2>6. n \in Nat \ {0} /\ \A i \in 1 .. n : events[i].kind = "finished" => ended /\ i = n
    BY <1>1, <2>2
  <2>7. /\ Len(Tail(events)) = n - 1
        /\ \A i \in 1 .. n - 1 : Tail(events)[i] = events[i + 1]
    BY <2>2
  <2> HIDE DEF n
  <2>3. Ends(Tail(events), ended)
    <3> SUFFICES ASSUME NEW i \in 1 .. Len(Tail(events)), Tail(events)[i].kind = "finished"
                 PROVE  ended /\ i = Len(Tail(events))
      OBVIOUS
    <3>1. i \in 1 .. n - 1 /\ i + 1 \in 1 .. n /\ Len(Tail(events)) = n - 1
      BY <2>6, <2>7
    <3>2. ended /\ i + 1 = n
      BY <2>6, <2>7, <3>1
    <3> QED
      BY <2>6, <3>1, <3>2
  <2>4. Head(events).kind = "finished" => ended /\ Tail(events) = <<>>
    <3> SUFFICES ASSUME Head(events).kind = "finished" PROVE ended /\ Tail(events) = <<>>
      OBVIOUS
    <3>1. events[1].kind = "finished" /\ 1 \in 1 .. n
      BY <2>2, <2>6
    <3>2. ended /\ n = 1
      BY <2>6, <3>1
    <3>3. Len(Tail(events)) = 0
      BY <2>7, <3>2
    <3> QED
      BY <2>2, <3>2, <3>3, EmptySeq
  <2>5. ~finished
    BY <1>1, <2>1
  <2> QED
    BY <1>1, <2>1, <2>3, <2>4, <2>5 DEF EndIsLast
<1>8. CASE UNCHANGED <<row, ended, finished, events>>
  BY <1>1, <1>8 DEF EndIsLast
<1>9. CASE \/ Ordered!Answer \/ Ordered!OpenDrawer \/ Ordered!CloseDrawer
           \/ Ordered!TriggerTask \/ Ordered!Refresh \/ Ordered!PollTick \/ Ordered!Fail
  BY <1>8, <1>9 DEF Ordered!Answer, Ordered!OpenDrawer, Ordered!CloseDrawer,
     Ordered!TriggerTask, Ordered!Refresh, Ordered!PollTick, Ordered!Fail, Ordered!agentVars
<1>10. CASE Ordered!Respond
  <2>1. UNCHANGED <<row, ended, events>>
    BY <1>10 DEF Ordered!Respond, Ordered!agentVars
  <2>2. PICK i \in 1 .. Len(reqs) :
           LET r == reqs[i]
               rest == Ordered!RemoveAt(reqs, i)
           IN  CASE r.kind = "list" -> Ordered!Loaded(r, rest)
                 [] r.kind = "trigger" -> Ordered!Triggered(r, rest)
                 [] r.kind \in {"output", "openOutput"} -> Ordered!OutputFetched(r, rest)
                 [] r.kind = "open" -> Ordered!RunFetched(r, rest)
                 [] r.kind = "poll" -> Ordered!Polled(r, rest)
    BY <1>10 DEF Ordered!Respond
  <2>3. reqs[i].kind \in RequestKinds
    <3>1. reqs[i] \in Requests
      BY ElementOfSeq DEF ViewInv
    <3> QED
      BY <3>1 DEF Requests, AnyRequest
  <2>4. UNCHANGED finished
    BY <2>2, <2>3 DEF RequestKinds, Ordered!Loaded, Ordered!Triggered, Ordered!OutputFetched,
       Ordered!RunFetched, Ordered!Polled
  <2> QED
    BY <1>8, <2>1, <2>4
<1> QED
  BY <1>4, <1>5, <1>6, <1>7, <1>9, <1>10 DEF Ordered!Next

\* What follows the answer to a request, or its failure, is at most one more.
LEMMA Follows ==
    ASSUME ViewInv, NEW i \in 1 .. Len(reqs), NEW t, t = View!RemoveAt(reqs, i),
           \/ reqs' = t
           \/ \E k \in RequestKinds \ {"trigger"} : reqs' = Append(t, View!Asked(k, finished))
    PROVE  /\ ~finished => (NoneLate(t) => NoneLate(reqs'))
           /\ finished => /\ AllFrom(t, 1, LateRequests) => AllFrom(reqs', 1, LateRequests)
                          /\ LateLast(t, LateRequests) => LateLast(reqs', LateRequests)
           /\ \A x : Pending(t, x) => Pending(reqs', x)
<1>1. t \in Seq(Requests) /\ finished \in BOOLEAN
  BY Answering DEF ViewInv
<1>2. CASE reqs' = t
  BY <1>2
<1>3. ASSUME NEW k \in RequestKinds \ {"trigger"}, reqs' = Append(t, View!Asked(k, finished))
      PROVE  /\ ~finished => (NoneLate(t) => NoneLate(reqs'))
             /\ finished => /\ AllFrom(t, 1, LateRequests) => AllFrom(reqs', 1, LateRequests)
                            /\ LateLast(t, LateRequests) => LateLast(reqs', LateRequests)
             /\ \A x : Pending(t, x) => Pending(reqs', x)
  <2> DEFINE e == View!Asked(k, finished)
  <2>1. e \in Requests /\ e.late = finished
    BY <1>1, Asking, AskedIsCurrent
  <2>2. finished => e \in LateRequests
    BY <1>1, AskedIsCurrent
  <2> HIDE DEF e
  <2>3. Append(t, e) = t \o <<e>>
    BY <1>1, <2>1, AppendIsConcat
  <2>4. /\ <<e>> \in Seq(Requests) /\ LateRequests \in SUBSET Requests
        /\ ~finished => NoneLate(<<e>>)
        /\ finished => \A j \in 1 .. Len(<<e>>) : <<e>>[j] \in LateRequests
    BY <1>1, <2>1, <2>2 DEF NoneLate, LateRequests, CurrentRequests
  <2>5. reqs' = t \o <<e>>
    BY <1>3, <2>3 DEF e
  <2>6. /\ NoneLate(t) /\ NoneLate(<<e>>) => NoneLate(t \o <<e>>)
        /\ (\A j \in 1 .. Len(<<e>>) : <<e>>[j] \in LateRequests) =>
             /\ AllFrom(t, 1, LateRequests) => AllFrom(t \o <<e>>, 1, LateRequests)
             /\ LateLast(t, LateRequests) => LateLast(t \o <<e>>, LateRequests)
        /\ \A x : Pending(t, x) => Pending(t \o <<e>>, x)
    BY <1>1, <2>4, AppendedLater
  <2> QED
    BY <2>4, <2>5, <2>6
<1> QED
  BY <1>2, <1>3

\* After the end was heard: what a step may do to the requests, the list and
\* the cache.
LEMMA RepairKept ==
    ASSUME ViewInv, EndIsLast, RepairComes, finished, Ordered!Next,
           reload \in [{"list", "output"} -> {"none", "done", "failed"}]
    PROVE  RepairComes'
<1> DEFINE C == LateRequests
           Tables == {"list", "output"}
<1>1. /\ reqs \in Seq(Requests) /\ C \in SUBSET Requests /\ row \in RunStatus
      /\ ended /\ row \in {"Running", "Done"} /\ events = <<>> /\ finished = TRUE
      /\ LateLast(reqs, C)
      /\ \A x \in Tables : /\ reload[x] = "done" => AllFrom(reqs, 1, C)
                           /\ reload[x] = "none" => Pending(reqs, x)
      /\ reload["list"] = "done" => RowIsShown
      /\ reload["output"] = "done" => OutputIsShown
  BY DEF ViewInv, LateRequests, CurrentRequests, RepairComes, EndIsLast, RunStatus
<1>2. /\ ~Ordered!StartRun /\ ~Ordered!Output /\ ~Ordered!FinishRun
      /\ ~Ordered!TriggerTask /\ ~Ordered!DeliverEvent /\ ~Ordered!LoseEvent
  BY <1>1 DEF Ordered!StartRun, Ordered!Output, Ordered!FinishRun, Ordered!TriggerTask,
     Ordered!DeliverEvent, Ordered!LoseEvent
<1>3. ASSUME UNCHANGED <<row, stored, finished>>, LateLast(reqs', C),
             \A x \in Tables : /\ reload'[x] = "done" => AllFrom(reqs', 1, C)
                               /\ reload'[x] = "none" => Pending(reqs', x),
             reload'["list"] = "done" => list' = <<row>>,
             reload'["output"] = "done" /\ stored # <<>> => logs' = stored
      PROVE  RepairComes'
  <2>1. LateRequests' = C
    BY <1>3 DEF LateRequests, CurrentRequests
  <2> HIDE DEF C
  <2> QED
    BY <1>1, <1>3, <2>1 DEF RepairComes, RowIsShown, OutputIsShown
<1>4. ASSUME UNCHANGED <<row, stored, list, logs, finished, reload>>,
             AllFrom(reqs, 1, C) => AllFrom(reqs', 1, C),
             LateLast(reqs, C) => LateLast(reqs', C),
             \A x \in Tables : Pending(reqs, x) => Pending(reqs', x)
      PROVE  RepairComes'
  <2>1. ASSUME NEW x \in Tables
        PROVE  /\ reload'[x] = "done" => AllFrom(reqs', 1, C)
               /\ reload'[x] = "none" => Pending(reqs', x)
    <3>1. reload'[x] = reload[x]
      BY <1>4
    <3>2. /\ reload[x] = "done" => AllFrom(reqs, 1, C)
          /\ reload[x] = "none" => Pending(reqs, x)
      BY <1>1
    <3>3. /\ AllFrom(reqs, 1, C) => AllFrom(reqs', 1, C)
          /\ Pending(reqs, x) => Pending(reqs', x)
      BY <1>4
    <3> HIDE DEF C, Tables
    <3> QED
      BY <3>1, <3>2, <3>3
  <2>2. /\ reload'["list"] = "done" => list' = <<row>>
        /\ reload'["output"] = "done" /\ stored # <<>> => logs' = stored
    BY <1>1, <1>4 DEF RowIsShown, OutputIsShown
  <2>3. LateLast(reqs', C)
    <3> HIDE DEF C
    <3> QED
      BY <1>1, <1>4
  <2> HIDE DEF C, Tables
  <2> QED
    BY <1>3, <1>4, <2>1, <2>2, <2>3
<1>5. CASE Ordered!OpenDrawer \/ Ordered!Refresh \/ Ordered!PollTick
  <2>1. UNCHANGED <<row, stored, list, logs, finished, reload>>
    BY <1>5 DEF Ordered!OpenDrawer, Ordered!Refresh, Ordered!PollTick, Ordered!agentVars
  <2>2. \A kinds, b : Ordered!Ask(kinds, b) = View!Ask(kinds, b)
    BY DEF Ordered!Ask, View!Ask, Ordered!Asked, View!Asked
  <2>3. \/ UNCHANGED reqs
        \/ \E k \in RequestKinds \ {"trigger"} : reqs' = View!Ask(<<k>>, TRUE)
    BY <1>1, <1>5, <2>2 DEF Ordered!OpenDrawer, Ordered!Refresh, Ordered!PollTick, RequestKinds
  <2>4. ASSUME NEW k \in RequestKinds \ {"trigger"}, reqs' = View!Ask(<<k>>, TRUE)
        PROVE  RepairComes'
    <3> DEFINE e == View!Asked(k, TRUE)
    <3>1. e \in C /\ reqs' = reqs \o <<e>>
      BY <2>4, AskedIsCurrent
    <3> HIDE DEF e, C
    <3>2. <<e>> \in Seq(Requests) /\ \A j \in 1 .. Len(<<e>>) : <<e>>[j] \in C
      BY <1>1, <3>1
    <3> QED
      BY <1>1, <1>4, <2>1, <3>1, <3>2, AppendedLater
  <2>5. CASE UNCHANGED reqs
    BY <1>4, <2>1, <2>5
  <2> QED
    BY <2>3, <2>4, <2>5
<1>6. CASE Ordered!CloseDrawer
  BY <1>4, <1>6 DEF Ordered!CloseDrawer, Ordered!agentVars
<1>7. CASE Ordered!Answer
  <2>1. UNCHANGED <<row, stored, list, logs, finished, reload>>
    BY <1>7 DEF Ordered!Answer, Ordered!agentVars
  <2>2. PICK i \in 1 .. Len(reqs) :
           /\ reqs[i].kind # "trigger"
           /\ reqs' = [reqs EXCEPT ![i] = [@ EXCEPT !.answered = TRUE, !.status = row,
                                                    !.chunks = stored]]
    BY <1>7 DEF Ordered!Answer
  <2> DEFINE r == [reqs[i] EXCEPT !.answered = TRUE, !.status = row, !.chunks = stored]
  <2>3. reqs[i] \in Requests
    BY <1>1, ElementOfSeq
  <2>4. /\ r \in Requests /\ r.kind = reqs[i].kind /\ r.late = reqs[i].late
        /\ reqs[i] \in C => r \in C
    BY <1>1, <2>2, <2>3 DEF ViewInv, LateRequests, CurrentRequests, Requests, AnyRequest, RunStatus
  <2>5. reqs' = [reqs EXCEPT ![i] = r]
    BY <2>2
  <2> HIDE DEF r, C
  <2> QED
    BY <1>1, <1>4, <2>1, <2>4, <2>5, AnsweredInPlace
<1>8. CASE Ordered!Respond
  <2>1. UNCHANGED <<row, stored>>
    BY <1>8 DEF Ordered!Respond, Ordered!agentVars
  <2> DEFINE r == reqs[1]
             t == View!RemoveAt(reqs, 1)
  <2>2. /\ r.answered /\ 1 \in 1 .. Len(reqs)
        /\ reload' = Ordered!Reloaded(r, "done")
        /\ CASE r.kind = "list" -> Ordered!Loaded(r, t)
             [] r.kind = "trigger" -> Ordered!Triggered(r, t)
             [] r.kind \in {"output", "openOutput"} -> Ordered!OutputFetched(r, t)
             [] r.kind = "open" -> Ordered!RunFetched(r, t)
             [] r.kind = "poll" -> Ordered!Polled(r, t)
    BY <1>8 DEF Ordered!Respond, Ordered!RemoveAt, View!RemoveAt
  <2>3. r \in Requests /\ r.kind \in RequestKinds /\ r.late \in BOOLEAN
    BY <1>1, <2>2, ElementOfSeq DEF Requests, AnyRequest
  <2>4. /\ LateLast(t, C)
        /\ AllFrom(reqs, 1, C) => r \in C
        /\ r.late => r \in C /\ AllFrom(t, 1, C)
        /\ \A x \in Tables : Pending(reqs, x) => Pending(t, x) \/ Reloads(r, x)
    <3>1. AllFrom(reqs, 1, C) => r \in C
      BY <2>2 DEF AllFrom
    <3> HIDE DEF C
    <3> QED
      BY <1>1, <2>2, <3>1, TakenOut
  <2>5. /\ r.kind = "list" => Ordered!Loaded(r, t)
        /\ r.kind = "trigger" => Ordered!Triggered(r, t)
        /\ r.kind \in {"output", "openOutput"} => Ordered!OutputFetched(r, t)
        /\ r.kind = "open" => Ordered!RunFetched(r, t)
        /\ r.kind = "poll" => Ordered!Polled(r, t)
    BY <2>2
  <2>6. r \in C => r.kind # "trigger" /\ r.status = row /\ r.chunks = stored /\ r.late
    BY <2>2 DEF LateRequests, CurrentRequests
  <2> HIDE DEF r, C
  <2>7. UNCHANGED finished
    BY <2>3, <2>5 DEF RequestKinds, Ordered!Loaded, Ordered!Triggered, Ordered!OutputFetched,
       Ordered!RunFetched, Ordered!Polled
  <2>8. /\ AllFrom(t, 1, C) => AllFrom(reqs', 1, C)
        /\ LateLast(reqs', C)
        /\ \A x : Pending(t, x) => Pending(reqs', x)
    <3>1. \/ reqs' = t
          \/ \E k \in RequestKinds \ {"trigger"} : reqs' = Append(t, View!Asked(k, finished))
      <4>1. \A k, b : Ordered!Asked(k, b) = View!Asked(k, b)
        BY DEF Ordered!Asked, View!Asked
      <4> HIDE DEF t
      <4> QED
        BY <2>3, <2>5, <4>1 DEF RequestKinds, Ordered!Loaded, Ordered!Triggered,
           Ordered!OutputFetched, Ordered!RunFetched, Ordered!Polled
    <3> QED
      BY <1>1, <2>2, <2>4, <3>1, Follows DEF C
  <2> HIDE DEF t
  <2>9. CASE r.late
    <3>1. r \in C /\ AllFrom(reqs', 1, C)
      BY <2>4, <2>8, <2>9
    <3>2. /\ r.kind = "list" => list' = <<row>> /\ logs' = logs
          /\ r.kind \in {"output", "openOutput"}
               => list' = list /\ logs' = IF stored = <<>> THEN logs ELSE stored
          /\ r.kind \notin {"list", "output", "openOutput"} => UNCHANGED <<list, logs>>
      BY <1>1, <2>3, <2>5, <2>6, <3>1 DEF RequestKinds, Ordered!Loaded, Ordered!OutputFetched,
         Ordered!Fetched, Ordered!RunFetched, Ordered!Polled
    <3>3. /\ r.kind = "list" => reload'["list"] = "done" /\ reload'["output"] = reload["output"]
          /\ r.kind \in {"output", "openOutput"}
               => reload'["output"] = "done" /\ reload'["list"] = reload["list"]
          /\ r.kind \notin {"list", "output", "openOutput"} => reload' = reload
      BY <2>2, <2>9 DEF Ordered!Reloaded
    <3>4. \A x \in Tables : reload'[x] = "none" => Pending(reqs', x)
      <4> SUFFICES ASSUME NEW x \in Tables, reload'[x] = "none" PROVE Pending(reqs', x)
        OBVIOUS
      <4>1. reload[x] = "none" /\ ~Reloads(r, x)
        BY <2>3, <3>3 DEF Reloads
      <4> QED
        BY <1>1, <2>4, <2>8, <4>1
    <3>5. reload'["list"] = "done" => list' = <<row>>
      BY <1>1, <3>2, <3>3 DEF RowIsShown
    <3>6. reload'["output"] = "done" /\ stored # <<>> => logs' = stored
      BY <1>1, <3>2, <3>3 DEF OutputIsShown
    <3> QED
      BY <1>3, <2>1, <2>7, <2>8, <3>1, <3>4, <3>5, <3>6
  <2>10. CASE ~r.late
    <3>1. reload' = reload /\ \A x \in Tables : ~Reloads(r, x)
      BY <2>2, <2>10 DEF Ordered!Reloaded, Reloads
    <3>2. \A x \in Tables : reload[x] # "done"
      BY <1>1, <2>4, <2>6, <2>10
    <3> QED
      BY <1>1, <1>3, <2>1, <2>4, <2>7, <2>8, <3>1, <3>2
  <2> QED
    BY <2>3, <2>9, <2>10
<1>9. CASE Ordered!Fail
  <2>1. UNCHANGED <<row, stored, list, logs, finished>>
    BY <1>9 DEF Ordered!Fail, Ordered!agentVars
  <2>2. PICK i \in 1 .. Len(reqs) :
           /\ reload' = Ordered!Reloaded(reqs[i], "failed")
           /\ \/ reqs' = View!RemoveAt(reqs, i)
              \/ reqs' = Append(View!RemoveAt(reqs, i), View!Asked("openOutput", finished))
    BY <1>9 DEF Ordered!Fail, Ordered!RemoveAt, View!RemoveAt, Ordered!Asked, View!Asked
  <2> DEFINE r == reqs[i]
             t == View!RemoveAt(reqs, i)
  <2>3. r.kind \in RequestKinds /\ r.late \in BOOLEAN
    BY <1>1, ElementOfSeq DEF Requests, AnyRequest
  <2>4. /\ LateLast(t, C)
        /\ AllFrom(reqs, 1, C) => AllFrom(t, 1, C)
        /\ \A x \in Tables : Pending(reqs, x) => Pending(t, x) \/ Reloads(r, x)
    <3> HIDE DEF C
    <3> QED
      BY <1>1, TakenOut
  <2>5. /\ AllFrom(t, 1, C) => AllFrom(reqs', 1, C)
        /\ LateLast(reqs', C)
        /\ \A x : Pending(t, x) => Pending(reqs', x)
    <3>1. \/ reqs' = t
          \/ \E k \in RequestKinds \ {"trigger"} : reqs' = Append(t, View!Asked(k, finished))
      BY <2>2 DEF RequestKinds
    <3> QED
      BY <1>1, <2>4, <3>1, Follows DEF C
  <2> HIDE DEF C, t, r
  <2>6. ASSUME NEW x \in Tables
        PROVE  /\ reload'[x] = "done" => reload[x] = "done"
               /\ reload'[x] = "none" => reload[x] = "none" /\ ~Reloads(r, x)
    <3>1. reload' = Ordered!Reloaded(r, "failed")
      BY <2>2 DEF r
    <3> QED
      BY <2>3, <3>1 DEF Ordered!Reloaded, Reloads
  <2>7. \A x \in Tables : /\ reload'[x] = "done" => AllFrom(reqs', 1, C)
                          /\ reload'[x] = "none" => Pending(reqs', x)
    BY <1>1, <2>4, <2>5, <2>6
  <2>8. /\ reload'["list"] = "done" => list' = <<row>>
        /\ reload'["output"] = "done" /\ stored # <<>> => logs' = stored
    BY <1>1, <2>1, <2>6 DEF RowIsShown, OutputIsShown
  <2> QED
    BY <1>3, <2>1, <2>5, <2>7, <2>8
<1> QED
  BY <1>2, <1>5, <1>6, <1>7, <1>8, <1>9 DEF Ordered!Next

\* Before the end was heard nothing is late; the end is heard once, and then
\* both tables are asked for again.
LEMMA RepairBegins ==
    ASSUME ViewInv, EndIsLast, RepairComes, ~finished, Ordered!Next,
           reload \in [{"list", "output"} -> {"none", "done", "failed"}]
    PROVE  RepairComes'
<1> DEFINE T == {"list", "output"}
           C == LateRequests
<1>1. /\ reqs \in Seq(Requests) /\ C \in SUBSET Requests /\ finished = FALSE
      /\ NoneLate(reqs) /\ events \in Seq(View!Event)
      /\ \A x \in T : reload[x] # "done"
  BY DEF ViewInv, LateRequests, CurrentRequests, RepairComes
<1>2. ASSUME ~finished', NoneLate(reqs'), reload' = reload
      PROVE  RepairComes'
  BY <1>1, <1>2 DEF RepairComes
<1>3. /\ \A kinds, b : Ordered!Ask(kinds, b) = View!Ask(kinds, b)
      /\ \A k, b : Ordered!Asked(k, b) = View!Asked(k, b)
  BY DEF Ordered!Ask, View!Ask, Ordered!Asked, View!Asked
<1>4. ASSUME NEW k \in RequestKinds, reqs' = View!Ask(<<k>>, FALSE)
      PROVE  NoneLate(reqs')
  <2> DEFINE e == View!Asked(k, FALSE)
  <2>1. e \in Requests /\ ~e.late /\ reqs' = reqs \o <<e>>
    BY <1>4, Asking, AskedIsCurrent
  <2> HIDE DEF e
  <2>2. <<e>> \in Seq(Requests) /\ NoneLate(<<e>>)
    BY <2>1 DEF NoneLate
  <2> QED
    BY <1>1, <2>1, <2>2, AppendedLater
<1>5. CASE \/ Ordered!OpenDrawer \/ Ordered!TriggerTask \/ Ordered!Refresh \/ Ordered!PollTick
  <2>1. UNCHANGED <<finished, reload>>
    BY <1>5 DEF Ordered!OpenDrawer, Ordered!TriggerTask, Ordered!Refresh, Ordered!PollTick
  <2>2. \/ UNCHANGED reqs
        \/ \E k \in RequestKinds : reqs' = View!Ask(<<k>>, FALSE)
    BY <1>1, <1>3, <1>5 DEF Ordered!OpenDrawer, Ordered!TriggerTask, Ordered!Refresh,
       Ordered!PollTick, RequestKinds
  <2>3. NoneLate(reqs')
    BY <1>1, <1>4, <2>2 DEF NoneLate
  <2> QED
    BY <1>1, <1>2, <2>1, <2>3
<1>6. CASE \/ Ordered!CloseDrawer \/ Ordered!Output \/ Ordered!FinishRun \/ Ordered!LoseEvent
  <2>1. UNCHANGED <<finished, reload, reqs>>
    BY <1>6 DEF Ordered!CloseDrawer, Ordered!Output, Ordered!FinishRun, Ordered!LoseEvent
  <2> QED
    BY <1>1, <1>2, <2>1 DEF NoneLate
<1>7. CASE Ordered!StartRun \/ Ordered!Answer
  <2>1. UNCHANGED <<finished, reload>>
    BY <1>7 DEF Ordered!StartRun, Ordered!Answer
  <2>2. ASSUME NEW i \in 1 .. Len(reqs), NEW r \in Requests,
               r.kind = reqs[i].kind, r.late = reqs[i].late, reqs' = [reqs EXCEPT ![i] = r]
        PROVE  NoneLate(reqs')
    <3> DEFINE D == {}
    <3>1. D \in SUBSET Requests /\ (reqs[i] \in D => r \in D)
      OBVIOUS
    <3> HIDE DEF D
    <3> QED
      BY <1>1, <2>2, <3>1, AnsweredInPlace
  <2>3. CASE Ordered!StartRun
    <3>1. CASE UNCHANGED reqs
      BY <1>1, <1>2, <2>1, <3>1 DEF NoneLate
    <3>2. CASE ~UNCHANGED reqs
      <4>1. PICK i \in 1 .. Len(reqs) :
               reqs' = [reqs EXCEPT ![i].answered = TRUE, ![i].status = "Running"]
        BY <2>3, <3>2 DEF Ordered!StartRun
      <4> DEFINE r == [reqs[i] EXCEPT !.answered = TRUE, !.status = "Running"]
      <4>2. reqs[i] \in Requests
        BY <1>1, ElementOfSeq
      <4>3. r \in Requests /\ r.kind = reqs[i].kind /\ r.late = reqs[i].late
        BY <4>2 DEF Requests, AnyRequest, RunStatus
      <4>4. reqs' = [reqs EXCEPT ![i] = r]
        BY <4>1
      <4> HIDE DEF r
      <4> QED
        BY <1>1, <1>2, <2>1, <2>2, <4>3, <4>4
    <3> QED
      BY <3>1, <3>2
  <2>4. CASE Ordered!Answer
    <3>1. PICK i \in 1 .. Len(reqs) :
             /\ reqs[i].kind # "trigger"
             /\ reqs' = [reqs EXCEPT ![i] = [@ EXCEPT !.answered = TRUE, !.status = row,
                                                      !.chunks = stored]]
      BY <2>4 DEF Ordered!Answer
    <3> DEFINE r == [reqs[i] EXCEPT !.answered = TRUE, !.status = row, !.chunks = stored]
    <3>2. reqs[i] \in Requests
      BY <1>1, ElementOfSeq
    <3>3. r \in Requests /\ r.kind = reqs[i].kind /\ r.late = reqs[i].late
      BY <3>1, <3>2 DEF ViewInv, Requests, AnyRequest, RunStatus
    <3>4. reqs' = [reqs EXCEPT ![i] = r]
      BY <3>1
    <3> HIDE DEF r
    <3> QED
      BY <1>1, <1>2, <2>1, <2>2, <3>3, <3>4
  <2> QED
    BY <1>7, <2>3, <2>4
<1>8. CASE Ordered!Respond \/ Ordered!Fail
  <2>1. PICK i \in 1 .. Len(reqs), how \in {"done", "failed"} :
           /\ reload' = Ordered!Reloaded(reqs[i], how)
           /\ UNCHANGED finished
           /\ \/ reqs' = View!RemoveAt(reqs, i)
              \/ \E k \in RequestKinds \ {"trigger"} :
                   reqs' = Append(View!RemoveAt(reqs, i), View!Asked(k, finished))
    <3>1. \A i : Ordered!RemoveAt(reqs, i) = View!RemoveAt(reqs, i)
      BY DEF Ordered!RemoveAt, View!RemoveAt
    <3>2. CASE Ordered!Respond
      <4>1. PICK i \in 1 .. Len(reqs) :
               LET r == reqs[i]
                   t == View!RemoveAt(reqs, i)
               IN  /\ reload' = Ordered!Reloaded(r, "done")
                   /\ CASE r.kind = "list" -> Ordered!Loaded(r, t)
                        [] r.kind = "trigger" -> Ordered!Triggered(r, t)
                        [] r.kind \in {"output", "openOutput"} -> Ordered!OutputFetched(r, t)
                        [] r.kind = "open" -> Ordered!RunFetched(r, t)
                        [] r.kind = "poll" -> Ordered!Polled(r, t)
        BY <3>1, <3>2 DEF Ordered!Respond
      <4> DEFINE r == reqs[i]
                 t == View!RemoveAt(reqs, i)
      <4>2. r.kind \in RequestKinds
        BY <1>1, ElementOfSeq DEF Requests, AnyRequest
      <4>3. /\ reload' = Ordered!Reloaded(r, "done")
            /\ r.kind = "list" => Ordered!Loaded(r, t)
            /\ r.kind = "trigger" => Ordered!Triggered(r, t)
            /\ r.kind \in {"output", "openOutput"} => Ordered!OutputFetched(r, t)
            /\ r.kind = "open" => Ordered!RunFetched(r, t)
            /\ r.kind = "poll" => Ordered!Polled(r, t)
        BY <4>1
      <4> HIDE DEF r, t
      <4>4. /\ UNCHANGED finished
            /\ reqs' = t \/ \E k \in RequestKinds \ {"trigger"} :
                              reqs' = Append(t, View!Asked(k, finished))
        BY <1>3, <4>2, <4>3 DEF RequestKinds, Ordered!Loaded, Ordered!Triggered,
           Ordered!OutputFetched, Ordered!RunFetched, Ordered!Polled
      <4> QED
        BY <4>3, <4>4 DEF r, t
    <3>3. CASE Ordered!Fail
      <4>1. PICK i \in 1 .. Len(reqs) :
               /\ reload' = Ordered!Reloaded(reqs[i], "failed")
               /\ \/ reqs' = View!RemoveAt(reqs, i)
                  \/ reqs' = Append(View!RemoveAt(reqs, i), View!Asked("openOutput", finished))
        BY <1>3, <3>1, <3>3 DEF Ordered!Fail
      <4>2. UNCHANGED finished
        BY <3>3 DEF Ordered!Fail
      <4>3. "openOutput" \in RequestKinds \ {"trigger"}
        BY DEF RequestKinds
      <4> QED
        BY <4>1, <4>2, <4>3
    <3> QED
      BY <1>8, <3>2, <3>3
  <2>2. reload' = reload
    <3>1. ~reqs[i].late
      BY <1>1 DEF NoneLate
    <3> QED
      BY <2>1, <3>1 DEF Ordered!Reloaded
  <2>3. NoneLate(View!RemoveAt(reqs, i))
    <3> HIDE DEF C
    <3> QED
      BY <1>1, TakenOut
  <2>4. NoneLate(reqs')
    BY <1>1, <2>1, <2>3, Follows
  <2> QED
    BY <1>1, <1>2, <2>1, <2>2, <2>4
<1>9. CASE Ordered!DeliverEvent
  <2>1. /\ Head(events).kind \in {"started", "output", "finished"}
        /\ UNCHANGED <<row, stored, reload>>
    BY <1>1, <1>9, HeadTailProperties DEF Ordered!DeliverEvent, View!Event, Ordered!agentVars
  <2>2. CASE Ordered!OnOutput(Head(events).chunk)
    <3>1. UNCHANGED <<finished, reqs>>
      BY <2>2 DEF Ordered!OnOutput
    <3> QED
      BY <1>1, <1>2, <2>1, <3>1 DEF NoneLate
  <2>3. CASE Ordered!OnStarted
    <3>1. UNCHANGED finished /\ reqs' = View!Ask(<<"list">>, FALSE)
      BY <1>1, <1>3, <2>3 DEF Ordered!OnStarted
    <3>2. NoneLate(reqs')
      BY <1>4, <3>1 DEF RequestKinds
    <3> QED
      BY <1>1, <1>2, <2>1, <3>1, <3>2
  <2>4. CASE Ordered!OnFinished
    <3>1. finished' = TRUE
      BY <2>4 DEF Ordered!OnFinished
    <3> DEFINE x == View!Asked("list", TRUE)
               y == View!Asked("output", TRUE)
    <3>2. reqs' = reqs \o <<x, y>> \/ reqs' = reqs \o <<x, y, y>>
      <4> DEFINE heard == TRUE
      <4>1. \/ reqs' = View!Ask(<<"list", "output">>, heard)
            \/ reqs' = View!Ask(<<"list", "output", "output">>, heard)
        BY <1>3, <2>4 DEF Ordered!OnFinished
      <4>2. x = View!Asked("list", heard) /\ y = View!Asked("output", heard)
        OBVIOUS
      <4> HIDE DEF heard, x, y
      <4>3. /\ View!Ask(<<"list", "output">>, heard) = reqs \o <<x, y>>
            /\ View!Ask(<<"list", "output", "output">>, heard) = reqs \o <<x, y, y>>
        <5>1. \A k, l, b : View!Ask(<<k, l>>, b) = reqs \o <<View!Asked(k, b), View!Asked(l, b)>>
          BY AskedIsCurrent
        <5>2. \A k, l, m, b : View!Ask(<<k, l, m>>, b) =
                              reqs \o <<View!Asked(k, b), View!Asked(l, b), View!Asked(m, b)>>
          BY AskedIsCurrent
        <5>3. View!Ask(<<"list", "output">>, heard) = reqs \o <<x, y>>
          BY <4>2, <5>1
        <5>4. View!Ask(<<"list", "output", "output">>, heard) = reqs \o <<x, y, y>>
          BY <4>2, <5>2
        <5> QED
          BY <5>3, <5>4
      <4> QED
        BY <4>1, <4>3
    <3>3. /\ x \in C /\ x.kind = "list" /\ x.late
          /\ y \in C /\ y.kind = "output" /\ y.late
      BY AskedIsCurrent DEF RequestKinds
    <3> HIDE DEF x, y, C
    <3>4. PICK a \in Seq(Requests) :
             /\ reqs' = reqs \o a
             /\ \A i \in 1 .. Len(a) : a[i] \in C
             /\ 1 \in 1 .. Len(a) /\ a[1] = x /\ 2 \in 1 .. Len(a) /\ a[2] = y
      <4>1. x \in Requests /\ y \in Requests
        BY <1>1, <3>3
      <4>2. /\ <<x, y>> \in Seq(Requests) /\ <<x, y, y>> \in Seq(Requests)
            /\ \A i \in 1 .. Len(<<x, y>>) : <<x, y>>[i] \in C
            /\ \A i \in 1 .. Len(<<x, y, y>>) : <<x, y, y>>[i] \in C
            /\ 1 \in 1 .. Len(<<x, y>>) /\ 2 \in 1 .. Len(<<x, y>>)
            /\ 1 \in 1 .. Len(<<x, y, y>>) /\ 2 \in 1 .. Len(<<x, y, y>>)
            /\ <<x, y>>[1] = x /\ <<x, y>>[2] = y
            /\ <<x, y, y>>[1] = x /\ <<x, y, y>>[2] = y
        BY <3>3, <4>1
      <4>3. CASE reqs' = reqs \o <<x, y>>
        BY <4>2, <4>3
      <4>4. CASE reqs' = reqs \o <<x, y, y>>
        BY <4>2, <4>4
      <4> QED
        BY <3>2, <4>3, <4>4
    <3>5. \A t \in T : Pending(a, t)
      BY <3>3, <3>4 DEF Pending, Reloads
    <3>6. LateLast(reqs, C)
      BY <1>1 DEF NoneLate, LateLast
    <3>7. LateLast(reqs', C) /\ \A t \in T : Pending(reqs', t)
      BY <1>1, <3>4, <3>5, <3>6, AppendedLater
    <3>8. LateRequests' = C
      BY <2>1 DEF LateRequests, CurrentRequests, C
    <3> QED
      BY <1>1, <2>1, <3>1, <3>7, <3>8 DEF RepairComes
  <2> QED
    BY <1>9, <2>1, <2>2, <2>3, <2>4 DEF Ordered!DeliverEvent
<1> QED
  BY <1>5, <1>6, <1>7, <1>8, <1>9 DEF Ordered!Next

\* The rest of the types.
ViewCounts ==
    /\ ended \in BOOLEAN /\ logs \in Seq(Chunks) /\ clicks \in 0 .. MaxClicks
    /\ reload \in [{"list", "output"} -> {"none", "done", "failed"}]

LEMMA ViewCountsStep ==
    ASSUME ViewInv, ViewCounts, Ordered!Next
    PROVE  ViewCounts'
<1>1. /\ ended \in BOOLEAN /\ logs \in Seq(Chunks)
      /\ clicks \in 0 .. MaxClicks /\ MaxClicks \in Nat
      /\ reload \in [{"list", "output"} -> {"none", "done", "failed"}]
  BY ViewAssumption DEF ViewCounts
<1>2. \/ UNCHANGED clicks
      \/ clicks < MaxClicks /\ clicks' = clicks + 1
  BY DEF Ordered!Next, Ordered!StartRun, Ordered!Output, Ordered!FinishRun, Ordered!Answer,
     Ordered!OpenDrawer, Ordered!CloseDrawer, Ordered!TriggerTask, Ordered!Refresh,
     Ordered!DeliverEvent, Ordered!LoseEvent, Ordered!Respond, Ordered!Fail, Ordered!PollTick
<1>3. clicks' \in 0 .. MaxClicks
  BY <1>1, <1>2
<1>4. ended' \in BOOLEAN
  BY <1>1 DEF Ordered!Next, Ordered!StartRun, Ordered!Output, Ordered!FinishRun, Ordered!Answer,
     Ordered!OpenDrawer, Ordered!CloseDrawer, Ordered!TriggerTask, Ordered!Refresh,
     Ordered!DeliverEvent, Ordered!LoseEvent, Ordered!Respond, Ordered!Fail, Ordered!PollTick,
     Ordered!agentVars
<1>5. reload' \in [{"list", "output"} -> {"none", "done", "failed"}]
  <2>1. \/ UNCHANGED reload
        \/ \E i \in 1 .. Len(reqs), how \in {"done", "failed"} :
             reload' = Ordered!Reloaded(reqs[i], how)
    BY DEF Ordered!Next, Ordered!StartRun, Ordered!Output, Ordered!FinishRun, Ordered!Answer,
       Ordered!OpenDrawer, Ordered!CloseDrawer, Ordered!TriggerTask, Ordered!Refresh,
       Ordered!DeliverEvent, Ordered!LoseEvent, Ordered!Respond, Ordered!Fail, Ordered!PollTick
  <2>2. ASSUME NEW r, NEW how \in {"done", "failed"}
        PROVE  Ordered!Reloaded(r, how) \in [{"list", "output"} -> {"none", "done", "failed"}]
    <3> DEFINE t == IF r.kind = "list" THEN "list" ELSE "output"
    <3>1. t \in {"list", "output"}
      OBVIOUS
    <3>2. Ordered!Reloaded(r, how) = reload \/ Ordered!Reloaded(r, how) = [reload EXCEPT ![t] = how]
      BY DEF Ordered!Reloaded
    <3>3. reload \in [{"list", "output"} -> {"none", "done", "failed"}]
      BY <1>1
    <3> HIDE DEF t
    <3> QED
      BY <3>1, <3>2, <3>3
  <2> QED
    BY <1>1, <2>1, <2>2
<1>6. logs' \in Seq(Chunks)
  <2>1. CASE Ordered!DeliverEvent
    <3>1. /\ Head(events) \in View!Event
          /\ Head(events).kind \in {"started", "output", "finished"}
      BY <2>1, HeadTailProperties DEF ViewInv, Ordered!DeliverEvent, View!Event
    <3>2. CASE Ordered!OnStarted \/ Ordered!OnFinished
      BY <1>1, <3>2 DEF Ordered!OnStarted, Ordered!OnFinished
    <3>3. CASE Ordered!OnOutput(Head(events).chunk) /\ Head(events).kind = "output"
      <4> DEFINE c == Head(events).chunk
      <4>1. c \in Chunks
        BY <3>1, <3>3 DEF View!Event, Chunks
      <4>2. logs' = logs \o <<c>> \/ logs' = logs \o <<c, c>>
        BY <3>3 DEF Ordered!OnOutput
      <4> HIDE DEF c
      <4>3. <<c>> \in Seq(Chunks) /\ <<c, c>> \in Seq(Chunks)
        BY <4>1
      <4>4. logs \o <<c>> \in Seq(Chunks) /\ logs \o <<c, c>> \in Seq(Chunks)
        <5>1. logs \in Seq(Chunks)
          BY <1>1
        <5> QED
          BY <4>3, <5>1, ConcatProperties
      <4> QED
        BY <4>2, <4>4
    <3> QED
      BY <2>1, <3>1, <3>2, <3>3 DEF Ordered!DeliverEvent
  <2>2. CASE Ordered!Respond
    <3>1. PICK i \in 1 .. Len(reqs) :
             LET r == reqs[i]
                 rest == Ordered!RemoveAt(reqs, i)
             IN  CASE r.kind = "list" -> Ordered!Loaded(r, rest)
                   [] r.kind = "trigger" -> Ordered!Triggered(r, rest)
                   [] r.kind \in {"output", "openOutput"} -> Ordered!OutputFetched(r, rest)
                   [] r.kind = "open" -> Ordered!RunFetched(r, rest)
                   [] r.kind = "poll" -> Ordered!Polled(r, rest)
      BY <2>2 DEF Ordered!Respond
    <3>2. reqs[i].kind \in RequestKinds /\ reqs[i].chunks \in Seq(Chunks)
      <4>1. reqs[i] \in Requests
        BY ElementOfSeq DEF ViewInv
      <4> QED
        BY <4>1 DEF Requests, AnyRequest
    <3>3. logs' \in {logs, reqs[i].chunks}
      BY <3>1, <3>2 DEF RequestKinds, Ordered!Loaded, Ordered!Triggered, Ordered!OutputFetched,
         Ordered!Fetched, Ordered!RunFetched, Ordered!Polled
    <3> QED
      BY <1>1, <3>2, <3>3
  <2>3. CASE ~Ordered!DeliverEvent /\ ~Ordered!Respond
    <3>1. UNCHANGED logs
      BY <2>3 DEF Ordered!Next, Ordered!StartRun, Ordered!Output, Ordered!FinishRun,
         Ordered!Answer, Ordered!OpenDrawer, Ordered!CloseDrawer, Ordered!TriggerTask,
         Ordered!Refresh, Ordered!LoseEvent, Ordered!Fail, Ordered!PollTick
    <3> QED
      BY <1>1, <3>1
  <2> QED
    BY <2>1, <2>2, <2>3
<1> QED
  BY <1>1, <1>3, <1>4, <1>5, <1>6 DEF ViewCounts

\* Of the view whose answers come in order.
OrderedInv == part = "ordered" => ViewCounts /\ EndIsLast /\ RepairComes

\* If answers come in the order of the requests, then from the first reload
\* that succeeds after the end of a run was heard the list has the run once and
\* as its row has it, and the cache is the output that is stored, whatever comes
\* or fails later; and a view with nothing under way has had an answer, or a
\* failure, to such a reload of either (executionStore.ts, LiveLogDrawer.vue).
\* For any number of chunks and of requests, lost events and failures.
THEOREM SettledViewIsExact == PartsSpec => []SettledIsExact
<1>1. PartsInit => OrderedInv
  <2> SUFFICES ASSUME PartsInit PROVE OrderedInv
    OBVIOUS
  <2>1. /\ row = "none" /\ ended = FALSE /\ events = <<>> /\ finished = FALSE /\ logs = <<>>
        /\ reqs = <<>> /\ clicks = 0 /\ reload = [t \in {"list", "output"} |-> "none"]
    BY DEF PartsInit, Ordered!Init, Ordered!Tables
  <2>2. logs \in Seq(Chunks) /\ Len(events) = 0 /\ Len(reqs) = 0
    BY <2>1, EmptySeq
  <2>3. EndIsLast
    <3>1. \A i \in 1 .. Len(events) : FALSE
      BY <2>2
    <3> QED
      BY <2>1, <3>1 DEF EndIsLast
  <2>4. RepairComes
    <3>1. NoneLate(reqs)
      BY <2>2 DEF NoneLate
    <3> QED
      BY <2>1, <3>1 DEF RepairComes
  <2>5. ViewCounts
    <3>1. clicks \in 0 .. MaxClicks
      BY <2>1, ViewAssumption
    <3>2. ended \in BOOLEAN /\ reload \in [{"list", "output"} -> {"none", "done", "failed"}]
      BY <2>1
    <3> QED
      BY <2>2, <3>1, <3>2 DEF ViewCounts
  <2> QED
    BY <2>3, <2>4, <2>5 DEF OrderedInv
<1>2. ASSUME ViewInv, OrderedInv,
             [PartsNext]_<<part, vars, winVars, macVars, probeVars, modeVars, viewVars>>
      PROVE  ViewInv' /\ OrderedInv'
  <2>1. part' = part
    BY <1>2, PartsStep
  <2>2. CASE UNCHANGED viewVars
    <3>1. ViewInv'
      BY <1>2, <2>2 DEF viewVars, ViewInv
    <3>2. UNCHANGED <<ViewCounts, EndIsLast, RepairComes>>
      BY <2>2 DEF viewVars, ViewCounts, EndIsLast, RepairComes, NoneLate, LateLast, AllFrom,
         LateRequests, CurrentRequests, Pending, RowIsShown, OutputIsShown
    <3> QED
      BY <1>2, <2>1, <3>1, <3>2 DEF OrderedInv
  <2>3. CASE Ordered!Next \/ Unordered!Next
    <3>1. ViewInv'
      BY <1>2, <2>3, Views, ViewStep
    <3>2. part = "ordered" => [Ordered!Next]_viewVars
      BY <1>2 DEF PartsNext
    <3>3. ASSUME part = "ordered", Ordered!Next
          PROVE  OrderedInv'
      <4>1. ViewCounts /\ EndIsLast /\ RepairComes
        BY <1>2, <3>3 DEF OrderedInv
      <4>2. ViewCounts' /\ EndIsLast'
        BY <1>2, <3>3, <4>1, ViewCountsStep, EndStep
      <4>3. RepairComes'
        BY <1>2, <3>3, <4>1, RepairBegins, RepairKept DEF ViewCounts
      <4> QED
        BY <4>2, <4>3 DEF OrderedInv
    <3>4. part = "ordered" /\ UNCHANGED viewVars => OrderedInv'
      BY <1>2, <2>1, <2>2
    <3> QED
      BY <2>1, <3>1, <3>2, <3>3, <3>4 DEF OrderedInv
  <2> QED
    BY <1>2, <2>2, <2>3, PartsStep
<1>3. ASSUME ViewInv, OrderedInv
      PROVE  SettledIsExact
  <2> SUFFICES ASSUME part = "ordered"
               PROVE  Ordered!TypeOK /\ Ordered!SettledIsExact
    BY DEF SettledIsExact
  <2>1. ViewCounts /\ RepairComes
    BY <1>3 DEF OrderedInv
  <2>2. Ordered!TypeOK
    <3>1. /\ row \in Ordered!Statuses /\ ended \in BOOLEAN /\ finished \in BOOLEAN
          /\ produced \in 0 .. MaxOutputs
          /\ stored \in Seq(1 .. MaxOutputs) /\ logs \in Seq(1 .. MaxOutputs)
          /\ list \in Seq({"Running", "Done"})
          /\ drawer \in [bound : BOOLEAN, show : BOOLEAN, status : Ordered!Statuses, poll : BOOLEAN]
          /\ clicks \in 0 .. MaxClicks
          /\ reload \in [Ordered!Tables -> {"none", "done", "failed"}]
      BY <1>3, <2>1 DEF ViewInv, ViewCounts, Chunks, RunStatus, DrawerStates,
         Ordered!Statuses, Ordered!Tables
    <3>2. events \in Seq(Ordered!Event)
      BY <1>3 DEF ViewInv, View!Event, Ordered!Event
    <3>3. reqs \in Seq(Ordered!Request)
      <4>1. \A i \in 1 .. Len(reqs) : reqs[i] \in Ordered!Request
        <5> SUFFICES ASSUME NEW i \in 1 .. Len(reqs) PROVE reqs[i] \in Ordered!Request
          OBVIOUS
        <5>1. reqs[i] \in Requests
          BY <1>3, ElementOfSeq DEF ViewInv
        <5> QED
          BY <5>1 DEF Requests, AnyRequest, RequestKinds, RunStatus, Chunks, Ordered!Request,
             Ordered!Statuses
      <4>2. reqs \in [1 .. Len(reqs) -> Requests] /\ Len(reqs) \in Nat
        BY <1>3, LenProperties DEF ViewInv
      <4>3. reqs \in [1 .. Len(reqs) -> Ordered!Request]
        BY <4>1, <4>2
      <4> QED
        BY <4>2, <4>3, SeqDef
    <3> QED
      BY <3>1, <3>2, <3>3 DEF Ordered!TypeOK
  <2>3. Ordered!SettledIsExact
    <3>1. /\ reload["list"] = "done" => list = <<row>>
          /\ reload["output"] = "done" /\ stored # <<>> => logs = stored
      BY <2>1 DEF RepairComes, RowIsShown, OutputIsShown
    <3>2. ASSUME Ordered!Quiet, finished, NEW t \in {"list", "output"}
          PROVE  reload[t] # "none"
      <4>1. Len(reqs) = 0
        BY <3>2, EmptySeq DEF Ordered!Quiet
      <4>2. ~Pending(reqs, t)
        BY <4>1 DEF Pending
      <4> QED
        BY <2>1, <3>2, <4>2 DEF RepairComes
    <3> QED
      BY <3>1, <3>2 DEF Ordered!SettledIsExact, Ordered!Tables
  <2> QED
    BY <2>2, <2>3
<1> QED
  BY <1>1, <1>2, <1>3, ViewInit, PTL DEF PartsSpec
=============================================================================
