----------------------------- MODULE RpcService -----------------------------
(***************************************************************************)
(* What execute_on_main_thread promises to the worker threads that use it: *)
(* a request is pending until the main thread takes it, requests run one   *)
(* at a time, each runs at most once, and its caller receives exactly the  *)
(* outcome the main thread produced.  A caller that receives a time-out    *)
(* knows that its request has not run and never will.                      *)
(***************************************************************************)
CONSTANT Caller

VARIABLES
    call,    \* call[c]: where c's current request is
    answer   \* answer[c]: what c was told about its last request

vars == <<call, answer>>

Outcome == {"value", "exception"}
Progress == {"none", "pending", "executing"} \cup Outcome
Answer == {"none", "timeout"} \cup Outcome

TypeOK ==
    /\ call \in [Caller -> Progress]
    /\ answer \in [Caller -> Answer]

Init ==
    /\ call = [c \in Caller |-> "none"]
    /\ answer = [c \in Caller |-> "none"]

Submit(c) ==
    /\ call[c] = "none"
    /\ call' = [call EXCEPT ![c] = "pending"]
    /\ answer' = [answer EXCEPT ![c] = "none"]

Begin(c) ==
    /\ call[c] = "pending"
    /\ \A d \in Caller : call[d] # "executing"
    /\ call' = [call EXCEPT ![c] = "executing"]
    /\ UNCHANGED answer

Finish(c) ==
    /\ call[c] = "executing"
    /\ \E o \in Outcome : call' = [call EXCEPT ![c] = o]
    /\ UNCHANGED answer

Deliver(c) ==
    /\ call[c] \in Outcome
    /\ call' = [call EXCEPT ![c] = "none"]
    /\ answer' = [answer EXCEPT ![c] = call[c]]

\* Only a request that has not begun may be given up.
GiveUp(c) ==
    /\ call[c] = "pending"
    /\ call' = [call EXCEPT ![c] = "none"]
    /\ answer' = [answer EXCEPT ![c] = "timeout"]

Next == \E c \in Caller :
    Submit(c) \/ Begin(c) \/ Finish(c) \/ Deliver(c) \/ GiveUp(c)

Spec == Init /\ [][Next]_vars
=============================================================================
