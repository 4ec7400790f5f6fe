------------------------------ MODULE RemoteCall ------------------------------
(***************************************************************************)
(* What IpcClient::call promises its caller, without the connection that   *)
(* carries it: a call that is answered was executed exactly once; a call   *)
(* that reports an error was executed at most once, perhaps even after the *)
(* error was reported; a call that could not be sent is never executed.    *)
(***************************************************************************)
CONSTANT Calls

VARIABLES state,     \* idle, open, answered, failed or unsent
          executed   \* the calls the agent has executed

vars == <<state, executed>>

Init == state = [c \in Calls |-> "idle"] /\ executed = {}

Open(c) == /\ state[c] = "idle"
           /\ state' = [state EXCEPT ![c] = "open"]
           /\ UNCHANGED executed

\* The error has been reported and the agent still executes the request.
Execute(c) == /\ state[c] \in {"open", "failed"} /\ c \notin executed
              /\ executed' = executed \cup {c}
              /\ UNCHANGED state

Answer(c) == /\ state[c] = "open" /\ c \in executed
             /\ state' = [state EXCEPT ![c] = "answered"]
             /\ UNCHANGED executed

Fail(c) == /\ state[c] = "open"
           /\ state' = [state EXCEPT ![c] = "failed"]
           /\ UNCHANGED executed

Unsent(c) == /\ state[c] = "open" /\ c \notin executed
             /\ state' = [state EXCEPT ![c] = "unsent"]
             /\ UNCHANGED executed

Next == \E c \in Calls : Open(c) \/ Execute(c) \/ Answer(c) \/ Fail(c) \/ Unsent(c)

Spec == Init /\ [][Next]_vars
===============================================================================
