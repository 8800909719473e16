---------------------------- MODULE AdmissionCall ----------------------------
(***************************************************************************)
(* What the API server may rely on when it calls a webhook: every call has *)
(* at most one outcome, and "allowed" only if the webhook's handler had    *)
(* decided so before. Any call may fail, at any time, whatever the handler *)
(* decided or is still going to decide.                                    *)
(***************************************************************************)
CONSTANTS Calls

VARIABLES
    outcome,    \* what came of the call: "none", "pending", "allowed", "denied"
    decision    \* what its handler decided: "none", "allow", "deny"

vars == <<outcome, decision>>

Init ==
    /\ outcome = [c \in Calls |-> "none"]
    /\ decision = [c \in Calls |-> "none"]

Call(c) ==
    /\ outcome[c] = "none"
    /\ outcome' = [outcome EXCEPT ![c] = "pending"]
    /\ UNCHANGED decision

\* A handler decides once, perhaps after the API server has given up.
Decide(c) ==
    /\ outcome[c] # "none" /\ decision[c] = "none"
    /\ \E d \in {"allow", "deny"} : decision' = [decision EXCEPT ![c] = d]
    /\ UNCHANGED outcome

Deliver(c) ==
    /\ outcome[c] = "pending" /\ decision[c] = "allow"
    /\ outcome' = [outcome EXCEPT ![c] = "allowed"]
    /\ UNCHANGED decision

\* The calls of C fail together: one is denied or times out, or the process dies.
Fail(C) ==
    /\ C # {}
    /\ \A c \in C : outcome[c] \in {"none", "pending"}
    /\ outcome' = [c \in Calls |-> IF c \in C THEN "denied" ELSE outcome[c]]
    /\ UNCHANGED decision

Next ==
    \/ \E c \in Calls : Call(c) \/ Decide(c) \/ Deliver(c)
    \/ \E C \in SUBSET Calls : Fail(C)

Spec == Init /\ [][Next]_vars
=============================================================================
