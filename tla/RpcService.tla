----------------------------- MODULE RpcService -----------------------------
(***************************************************************************)
(* What an RPC client promises each of its callers, whatever happens on    *)
(* the connection: a call ends at most once, and it ends with success only *)
(* if the server has answered this very call.                              *)
(***************************************************************************)
CONSTANT Thread

VARIABLES
    status,   \* of each thread's current call
    served    \* the threads whose current call the server has answered

serviceVars == <<status, served>>

ServiceInit ==
    /\ status = [t \in Thread |-> "idle"]
    /\ served = {}

Begin(t) ==
    /\ status[t] = "idle"
    /\ status' = [status EXCEPT ![t] = "calling"]
    /\ UNCHANGED served

(* The answer may come too late, when the call has failed already. *)
Answer(t) ==
    /\ status[t] # "idle" /\ t \notin served
    /\ served' = served \cup {t}
    /\ UNCHANGED status

Succeed(t) ==
    /\ status[t] = "calling" /\ t \in served
    /\ status' = [status EXCEPT ![t] = "success"]
    /\ UNCHANGED served

Fail(t) ==
    /\ status[t] = "calling"
    /\ status' = [status EXCEPT ![t] = "error"]
    /\ UNCHANGED served

End(t) ==
    /\ status[t] \in {"success", "error"}
    /\ status' = [status EXCEPT ![t] = "idle"]
    /\ served' = served \ {t}

ServiceNext ==
    \E t \in Thread : Begin(t) \/ Answer(t) \/ Succeed(t) \/ Fail(t) \/ End(t)

ServiceSpec == ServiceInit /\ [][ServiceNext]_serviceVars
=============================================================================
