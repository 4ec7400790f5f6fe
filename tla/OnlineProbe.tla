---------------------------- MODULE OnlineProbe ----------------------------
(***************************************************************************)
(* How the agent decides that the machine is online                        *)
(* (apps/agent/src/network.rs): http_probe looks a host up, connects to at *)
(* most two of its public addresses and wants the expected answer;         *)
(* probe_online tries the endpoints in order; confirm_online, on Windows,  *)
(* repeats that within a window and cuts every attempt off.                *)
(*                                                                         *)
(* Time is counted in units of 100ms.  An endpoint is what the network     *)
(* makes of it:                                                            *)
(*   good        the expected answer                                       *)
(*   captive     another answer, from a portal or a proxy                  *)
(*   silent      a connection and no answer                                *)
(*   blackholed  no connection                                             *)
(*   private     addresses that are not public                             *)
(*   unresolved  no address in time                                        *)
(***************************************************************************)
EXTENDS Naturals

CONSTANTS Endpoints,       \* number of endpoints (3 in the code)
          PhaseTimeout,    \* for a lookup, a connect, a write, a read (15)
          AttemptTimeout,  \* for one round of endpoints (30; none on macOS)
          Window,          \* of confirm_online (70; one round on macOS)
          Pause,           \* between two rounds (5)
          MaxLookup,       \* bound: the time a successful lookup takes
          MaxChanges       \* bound: changes of the network

VARIABLES cond,      \* the endpoints
          addrs,     \* how many public addresses each has
          at,        \* the endpoint tried next
          spent,     \* time since the attempt began
          elapsed,   \* time since confirm_online began
          result,    \* probing, online, offline
          changes

vars == <<cond, addrs, at, spent, elapsed, result, changes>>

Conditions == {"good", "captive", "silent", "blackholed", "private", "unresolved"}
Indices == 1..Endpoints

Init ==
  /\ cond \in [Indices -> Conditions] /\ addrs \in [Indices -> 1..2]
  /\ at = 1 /\ spent = 0 /\ elapsed = 0
  /\ result = "probing" /\ changes = 0

\* response_matches, for what comes back from a connection.
ResponseMatches(c) == c = "good"

\* http_probe: how long it takes when the lookup takes d.
HttpProbeTime(c, n, d) ==
  CASE c = "unresolved" -> PhaseTimeout
    [] c = "private" -> d
    [] c \in {"blackholed", "silent"} -> d + n * PhaseTimeout
    [] OTHER -> d

\* Fault: an endpoint that fails ends the round.
TryEndpointFirstOnly ==
  /\ result = "probing" /\ at \in Indices
  /\ \E d \in 1..MaxLookup :
       LET t == HttpProbeTime(cond[at], addrs[at], d)
       IN  /\ t <= AttemptTimeout - spent
           /\ spent' = spent + t /\ elapsed' = elapsed + t
           /\ IF ResponseMatches(cond[at])
                THEN result' = "online" /\ at' = at
                ELSE result' = result /\ at' = Endpoints + 1
  /\ UNCHANGED <<cond, addrs, changes>>

\* One endpoint of probe_online.  The attempt is cut off in the middle of it.
TryEndpoint ==
  /\ result = "probing" /\ at \in Indices
  /\ \E d \in 1..MaxLookup :
       LET t == HttpProbeTime(cond[at], addrs[at], d)
           left == AttemptTimeout - spent
       IN  IF t > left
             THEN /\ spent' = AttemptTimeout /\ elapsed' = elapsed + left
                  /\ at' = Endpoints + 1 /\ result' = result
             ELSE /\ spent' = spent + t /\ elapsed' = elapsed + t
                  /\ IF ResponseMatches(cond[at])
                       THEN result' = "online" /\ at' = at
                       ELSE result' = result /\ at' = at + 1
  /\ UNCHANGED <<cond, addrs, changes>>

\* A round has failed: another one, if the window has room for its pause.
RoundFailed ==
  /\ result = "probing" /\ at \notin Indices
  /\ IF elapsed + Pause >= Window
       THEN result' = "offline" /\ UNCHANGED <<at, spent, elapsed>>
       ELSE /\ at' = 1 /\ spent' = 0 /\ elapsed' = elapsed + Pause
            /\ result' = result
  /\ UNCHANGED <<cond, addrs, changes>>

\* The network changes under the probe.
Change(i) ==
  /\ result = "probing" /\ changes < MaxChanges
  /\ changes' = changes + 1
  /\ \E c \in Conditions : cond' = [cond EXCEPT ![i] = c]
  /\ UNCHANGED <<addrs, at, spent, elapsed, result>>

Next == TryEndpoint \/ RoundFailed \/ \E i \in Indices : Change(i)

Spec == Init /\ [][Next]_vars

----------------------------------------------------------------------------
(* Properties.                                                             *)

Good == {i \in Indices : cond[i] = "good"}

\* In a network that does not change, the machine is declared online only if
\* an endpoint gives the expected answer: neither a portal nor a proxy nor an
\* inner DNS is taken for the internet (response_matches, is_public_ip).
OnlineIsReal == changes = 0 /\ result = "online" => Good # {}

\* The later endpoints are fallbacks of the earlier ones ("the second is
\* reachable inside China, the third is the international fallback"): while
\* one of them is good, the machine is not declared offline.
FallbacksAreTried == changes = 0 /\ result = "offline" => Good = {}

\* However the endpoints behave and change, confirm_online overruns its
\* window by less than one attempt.
WindowIsBounded == elapsed < Window + AttemptTimeout
============================================================================
