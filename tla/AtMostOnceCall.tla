---------------------------- MODULE AtMostOnceCall ----------------------------
(***************************************************************************)
(* What Node.Call promises, whatever lies in between: a call runs its      *)
(* handler at most once, returns the handler's answer to that very call,   *)
(* and returns nothing a handler did not answer.  A call may fail at any   *)
(* time, and its handler may still run afterwards.                         *)
(***************************************************************************)
CONSTANTS Call, None

VARIABLES
    outcome,    \* per call: "none" so far, "running", "returned" or "failed"
    handler,    \* per call: "none" so far, "running", "replied" or "silent"
    answer      \* per call: the call whose answer it returned, or None

Init ==
    /\ outcome = [c \in Call |-> "none"]
    /\ handler = [c \in Call |-> "none"]
    /\ answer = [c \in Call |-> None]

Issue(c) ==
    /\ outcome[c] = "none"
    /\ outcome' = [outcome EXCEPT ![c] = "running"]
    /\ UNCHANGED <<handler, answer>>

Run(c) ==
    /\ outcome[c] # "none" /\ handler[c] = "none"
    /\ handler' = [handler EXCEPT ![c] = "running"]
    /\ UNCHANGED <<outcome, answer>>

Finish(c, how) ==
    /\ handler[c] = "running"
    /\ handler' = [handler EXCEPT ![c] = how]
    /\ UNCHANGED <<outcome, answer>>

Return(c) ==
    /\ outcome[c] = "running" /\ handler[c] = "replied"
    /\ outcome' = [outcome EXCEPT ![c] = "returned"]
    /\ answer' = [answer EXCEPT ![c] = c]
    /\ UNCHANGED handler

Fail(c) ==
    /\ outcome[c] = "running"
    /\ outcome' = [outcome EXCEPT ![c] = "failed"]
    /\ UNCHANGED <<handler, answer>>

Next == \E c \in Call :
    \/ Issue(c) \/ Run(c) \/ Return(c) \/ Fail(c)
    \/ \E how \in {"replied", "silent"} : Finish(c, how)

Spec == Init /\ [][Next]_<<outcome, handler, answer>>
===============================================================================
