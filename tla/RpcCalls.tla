------------------------------ MODULE RpcCalls ------------------------------
(***************************************************************************)
(* What the RPC between the host and a sandbox script promises its         *)
(* callers, whatever the wire, the threads and the event loops do: a       *)
(* handler runs at most once per call, a value is the one this call's      *)
(* handler returned, and nothing changes once a call is settled.           *)
(***************************************************************************)
CONSTANT Calls

VARIABLES
    status,   \* what the caller sees: "new", "open", "done", "failed"
    handler   \* what the callee did: "none", "running", "returned", "raised"

Init ==
    /\ status = [c \in Calls |-> "new"]
    /\ handler = [c \in Calls |-> "none"]

Issue(c) ==
    /\ status[c] = "new"
    /\ status' = [status EXCEPT ![c] = "open"]
    /\ UNCHANGED handler

\* The handler may still start, or end, after the caller got an error.
Execute(c) ==
    /\ status[c] \in {"open", "failed"} /\ handler[c] = "none"
    /\ handler' = [handler EXCEPT ![c] = "running"]
    /\ UNCHANGED status

Finish(c) ==
    /\ handler[c] = "running"
    /\ \E end \in {"returned", "raised"} : handler' = [handler EXCEPT ![c] = end]
    /\ UNCHANGED status

Complete(c) ==
    /\ status[c] = "open" /\ handler[c] = "returned"
    /\ status' = [status EXCEPT ![c] = "done"]
    /\ UNCHANGED handler

\* The end of the channel fails any number of calls at once.
Fail(S) ==
    /\ \A c \in S : status[c] = "open"
    /\ status' = [c \in Calls |-> IF c \in S THEN "failed" ELSE status[c]]
    /\ UNCHANGED handler

Next ==
    \/ \E c \in Calls : Issue(c) \/ Execute(c) \/ Finish(c) \/ Complete(c)
    \/ \E S \in SUBSET Calls : Fail(S)

Spec == Init /\ [][Next]_<<status, handler>>
=============================================================================
