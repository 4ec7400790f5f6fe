---------------------------- MODULE StartupMode ----------------------------
(***************************************************************************)
(* Switching between the three start modes: a system service (boot), a     *)
(* login item (login), or neither (disabled).  The switch is a chain of    *)
(* awaited calls in startupMode.ts; the calls change the machine through   *)
(* elevated scripts (startup.rs, and the agent's own --install-service on  *)
(* Windows).  Two chains may be under way: the one of the settings page    *)
(* and the migration the application starts when it is mounted.            *)
(*                                                                         *)
(* Between two awaits anything may happen: the other chain goes on, the    *)
(* service manager starts or loses the service, the application is closed. *)
(* An elevated script outlives the application that started it, and what   *)
(* it does may come in the middle of a later chain.                        *)
(***************************************************************************)
EXTENDS Naturals

CONSTANTS Platform,     \* "windows" or "macos"
          FirstStart,   \* whether the migration key is absent at first
          MaxRestarts   \* bound: how often the application is closed

VARIABLES
  svc,       \* the service: registered? does its manager run it?
  login,     \* the login item
  writable,  \* whether the user can write the data directory
  key,       \* localStorage: the migration has been done
  flow,      \* the chains: the call each one awaits next, its target mode
  shown,     \* autostartMode: the option the settings page shows
  prev,      \* what the change handler restores after an error
  orig,      \* history: the mode when the settings chain began
  result,    \* history: how the last settings chain ended
  restarts,
  stray,     \* the scripts that outlive a closed application, by their chains
  alone      \* history: there was none when the settings chain began

strays == <<stray, alone>>
vars == <<svc, login, writable, key, flow, shown, prev, orig, result, restarts, stray, alone>>

Modes == {"boot", "login", "disabled"}
Chains == {"settings", "migrate"}
Scripts == {"none", "install", "uninstall", "prepare"}
Idle == [at |-> "idle", mode |-> "login"]
NoStray == [f \in Chains |-> "none"]

\* The state is well-formed, and only a switch to boot installs, waits for
\* or rolls back a service (setStartupMode).
TypeOK ==
  /\ svc \in [installed : BOOLEAN, loaded : BOOLEAN]
  /\ login \in BOOLEAN /\ writable \in BOOLEAN /\ key \in BOOLEAN
  /\ flow \in [Chains -> [at : {"idle", "query", "install", "poll", "wait",
                                "uninstall", "prepare", "item", "rollback"},
                          mode : Modes]]
  /\ \A f \in Chains :
       flow[f].at \in {"install", "poll", "wait", "rollback"} => flow[f].mode = "boot"
  /\ shown \in Modes /\ prev \in Modes /\ orig \in Modes
  /\ result \in {"none", "ok", "failed", "dropped"}
  /\ restarts \in 0..MaxRestarts
  /\ stray \in [Chains -> Scripts] /\ alone \in BOOLEAN

\* query_service_status: on macOS the plist and launchctl print, on Windows
\* the state sc.exe reports.
Running(s) == s.installed /\ s.loaded

DeriveMode(s, l) == IF s.installed \/ Running(s) THEN "boot"
                    ELSE IF l THEN "login" ELSE "disabled"
Mode == DeriveMode(svc, login)

\* The start mode is one of the three before the application runs; the
\* migration begins when it is mounted.
Init ==
  /\ svc \in {[installed |-> b, loaded |-> b] : b \in BOOLEAN}
  /\ login \in BOOLEAN /\ ~ (svc.installed /\ login)
  /\ writable \in BOOLEAN
  /\ key = ~ FirstStart
  /\ flow = [settings |-> Idle, migrate |-> [Idle EXCEPT !.at = "query"]]
  /\ shown = Mode /\ prev = shown /\ orig = shown
  /\ result = "none" /\ restarts = 0
  /\ stray = NoStray /\ alone = TRUE

At(f, at) == flow[f].at = at
Goto(f, at) == flow' = [flow EXCEPT ![f].at = at]
FirstCall(mode) == IF mode = "boot" THEN "install" ELSE "uninstall"

----------------------------------------------------------------------------
(* The two chains begin and end.                                           *)

\* A click on an option.  v-model assigns the ref before the handler runs,
\* so that prev is the new option.
PickMode(m) ==
  /\ At("settings", "idle") /\ m # shown
  /\ shown' = m /\ prev' = shown'
  /\ flow' = [flow EXCEPT !["settings"] = [at |-> FirstCall(m), mode |-> m]]
  /\ orig' = Mode /\ result' = "none" /\ alone' = (stray = NoStray)
  /\ UNCHANGED <<svc, login, writable, key, restarts, stray>>

\* setStartupMode returns or throws.
Finish(f, ok) ==
  /\ Goto(f, "idle")
  /\ IF f = "settings"
       THEN /\ shown' = IF ok THEN flow[f].mode ELSE prev
            /\ result' = IF ok THEN "ok" ELSE "failed"
            /\ key' = key
       ELSE key' = (key \/ ok) /\ UNCHANGED <<shown, result>>
  /\ UNCHANGED <<prev, orig, restarts, strays>>

Continue(f, at) ==
  Goto(f, at) /\ UNCHANGED <<key, shown, prev, orig, result, restarts, strays>>

\* migrateLegacyDefault reads the mode and switches a disabled one to login.
Migrate ==
  /\ At("migrate", "query")
  /\ IF ~ key /\ Mode = "disabled"
       THEN /\ flow' = [flow EXCEPT !["migrate"] = [at |-> "uninstall", mode |-> "login"]]
            /\ key' = key
       ELSE Goto("migrate", "idle") /\ key' = TRUE
  /\ UNCHANGED <<svc, login, writable, shown, prev, orig, result, restarts, strays>>

----------------------------------------------------------------------------
(* service_install, then the wait of startupMode.ts.                       *)

\* What an elevated command leaves behind, and whether it succeeded.
Left(s, w, ok) == [svc |-> s, writable |-> w, ok |-> ok]
Registered(l) == [installed |-> TRUE, loaded |-> l]
Absent(l) == [installed |-> FALSE, loaded |-> l]

\* The macOS script stops at its first error (set -e), and says so.
MacosInstallScript ==
  {Left(svc, writable, FALSE), Left(svc, TRUE, FALSE),
   Left(Registered(FALSE), TRUE, FALSE), Left(Registered(TRUE), TRUE, TRUE)}

\* easyjob-agent --install-service, wherever it stops.
InstallServiceCmd ==
  {Left(svc, writable, FALSE), Left(svc, TRUE, FALSE),
   Left(Registered(svc.loaded), TRUE, FALSE), Left(Registered(TRUE), TRUE, TRUE)}

\* On Windows the user may refuse; Start-Process -Wait says nothing of how the
\* process it waited for ended.
ElevatedPs(outcomes) ==
  {Left(svc, writable, FALSE)} \cup {[o EXCEPT !.ok = TRUE] : o \in outcomes}

InstallOutcomes ==
  IF Platform = "macos" THEN MacosInstallScript ELSE ElevatedPs(InstallServiceCmd)

ServiceInstall(f) ==
  /\ At(f, "install")
  /\ \E o \in InstallOutcomes :
       /\ svc' = o.svc /\ writable' = o.writable
       /\ IF o.ok THEN Continue(f, "poll") ELSE Finish(f, FALSE)
  /\ UNCHANGED login

\* service_install polls for 15s; running out of time is an error of the
\* call, before the part of the chain that rolls back.
Poll(f) ==
  /\ At(f, "poll")
  /\ IF Running(svc) THEN Continue(f, "wait") ELSE Finish(f, FALSE)
  /\ UNCHANGED <<svc, login, writable>>

\* waitServiceRunning polls for 15s more.
WaitRunning(f) ==
  /\ At(f, "wait")
  /\ IF Running(svc) THEN Continue(f, "prepare") ELSE Continue(f, "rollback")
  /\ UNCHANGED <<svc, login, writable>>

----------------------------------------------------------------------------
(* service_uninstall, prepare_data_dir and the login item.                 *)

\* The macOS script goes on when bootout fails; it fails itself when the plist
\* cannot be removed.
MacosUninstallScript ==
  {Left(svc, writable, FALSE), Left([svc EXCEPT !.loaded = FALSE], writable, FALSE),
   Left(Absent(FALSE), writable, TRUE), Left(Absent(svc.loaded), writable, TRUE)}

\* easyjob-agent --uninstall-service: stop, then delete.
UninstallServiceCmd ==
  {Left(svc, writable, FALSE), Left([svc EXCEPT !.loaded = FALSE], writable, FALSE),
   Left(Absent(FALSE), writable, TRUE)}

\* Nothing is run when the service is not installed.
UninstallOutcomes ==
  IF ~ svc.installed THEN {Left(svc, writable, TRUE)}
  ELSE IF Platform = "macos" THEN MacosUninstallScript ELSE ElevatedPs(UninstallServiceCmd)

ServiceUninstall(f) ==
  /\ At(f, "uninstall")
  /\ \E o \in UninstallOutcomes :
       /\ svc' = o.svc
       /\ IF o.ok THEN Continue(f, "prepare") ELSE Finish(f, FALSE)
  /\ UNCHANGED <<login, writable>>

\* A switch to boot that failed after the install removes the service again,
\* as far as that succeeds.
Rollback(f) ==
  /\ At(f, "rollback")
  /\ \E o \in UninstallOutcomes : svc' = o.svc
  /\ Finish(f, FALSE)
  /\ UNCHANGED <<login, writable>>

\* A step that failed rolls a boot switch back and ends the others.
Fail(f) == IF flow[f].mode = "boot" THEN Continue(f, "rollback") ELSE Finish(f, FALSE)

\* Fault: the login item is cleared before the directory is prepared.
PrepareClearsItem(f) ==
  /\ At(f, "prepare")
  /\ \E w \in {writable, TRUE}, ok \in BOOLEAN :
       /\ writable => ok
       /\ ok => w
       /\ writable' = w
       /\ IF ok THEN Continue(f, "item") ELSE Fail(f)
  /\ login' = (login /\ flow[f].mode # "boot")
  /\ UNCHANGED svc

\* prepare_data_dir: a directory that is not writable takes another elevated
\* script, and a second look.
PrepareDataDir(f) ==
  /\ At(f, "prepare")
  /\ \E w \in {writable, TRUE}, ok \in BOOLEAN :
       /\ writable => ok
       /\ ok => w
       /\ writable' = w
       /\ IF ok THEN Continue(f, "item") ELSE Fail(f)
  /\ UNCHANGED <<svc, login>>

\* Fault: the login item is left as it is unless it is wanted.
LoginItemOnlyAdds(f) ==
  /\ At(f, "item")
  /\ \/ login' = (login \/ flow[f].mode = "login") /\ Finish(f, TRUE)
     \/ login' = login /\ Fail(f)
  /\ UNCHANGED <<svc, writable>>

\* enable() or disable() of the autostart plugin, the last step of a chain.
LoginItem(f) ==
  /\ At(f, "item")
  /\ \/ login' = (flow[f].mode = "login") /\ Finish(f, TRUE)
     \/ login' = login /\ Fail(f)
  /\ UNCHANGED <<svc, writable>>

Step(f) == \/ ServiceInstall(f) \/ Poll(f) \/ WaitRunning(f) \/ Rollback(f)
           \/ ServiceUninstall(f) \/ PrepareDataDir(f) \/ LoginItem(f)

----------------------------------------------------------------------------
(* The machine and the application.                                        *)

\* The Windows service manager starts an automatic service, and the process
\* of a service may end.  launchctl keeps a daemon loaded.
ServiceChanges ==
  /\ Platform = "windows" /\ svc.installed
  /\ svc' = [svc EXCEPT !.loaded = ~ @]
  /\ UNCHANGED <<login, writable, key, flow, shown, prev, orig, result, restarts, strays>>

\* The elevated script a chain awaits.
Script(f) == CASE At(f, "install") -> "install"
               [] flow[f].at \in {"uninstall", "rollback"} /\ svc.installed -> "uninstall"
               [] At(f, "prepare") /\ ~ writable -> "prepare"
               [] OTHER -> "none"

\* The application is closed, wherever its chains are, and opened again.  A
\* script that is awaited is a process of its own, and goes on.  (A bound: of
\* the scripts of one chain the last one.)
Reopen ==
  /\ stray' = [f \in Chains |-> IF Script(f) = "none" THEN stray[f] ELSE Script(f)]
  /\ restarts < MaxRestarts /\ restarts' = restarts + 1
  /\ flow' = [settings |-> Idle, migrate |-> [Idle EXCEPT !.at = "query"]]
  /\ shown' = Mode /\ prev' = shown' /\ orig' = shown'
  /\ result' = IF At("settings", "idle") THEN "none" ELSE "dropped"
  /\ UNCHANGED <<svc, login, writable, key, alone>>

\* Such a script comes to its end; nothing waits for it any more.
StrayLands ==
  /\ \E f \in Chains :
       /\ \/ /\ stray[f] = "install"
             /\ \E o \in InstallOutcomes : svc' = o.svc /\ writable' = o.writable
          \/ /\ stray[f] = "uninstall"
             /\ \E o \in UninstallOutcomes : svc' = o.svc /\ writable' = o.writable
          \/ /\ stray[f] = "prepare"
             /\ svc' = svc /\ writable' \in {writable, TRUE}
       /\ stray' = [stray EXCEPT ![f] = "none"]
  /\ UNCHANGED <<login, key, flow, shown, prev, orig, result, restarts, alone>>

Next ==
  \/ \E m \in Modes : PickMode(m)
  \/ Migrate
  \/ \E f \in Chains : Step(f)
  \/ ServiceChanges
  \/ Reopen
  \/ StrayLands

Spec == Init /\ [][Next]_vars

----------------------------------------------------------------------------
(* Properties.                                                             *)

\* A switch that reports success has reached its mode and only its mode: the
\* service and the login item are never both left behind (setStartupMode).
\* That is, unless a script of an application closed before was still running
\* when the switch began: nothing in the code knows of it.
ReachesMode ==
  alone /\ result # "ok" /\ result' = "ok" =>
    /\ Mode' = flow["settings"].mode
    /\ ~ (svc'.installed /\ login')

SuccessReachesMode == [][ReachesMode]_vars

\* A switch from login to boot clears the login item only when everything
\* else has succeeded: until then, and when it fails at any step, the machine
\* still starts the application at login (the order of setStartupMode).
LoginItemSurvives ==
  flow["settings"].mode = "boot" /\ orig = "login" /\ result # "ok" => login
============================================================================
