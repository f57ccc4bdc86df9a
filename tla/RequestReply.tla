---------------------------- MODULE RequestReply ----------------------------
(***************************************************************************)
(* What a request promises its caller, whatever carries it: it settles at  *)
(* most once, either with what a handler answered to this very request or  *)
(* with a failure of its own.  A failed request may still be served, or    *)
(* have been served: the caller cannot tell.                               *)
(***************************************************************************)
EXTENDS Naturals

CONSTANTS Calls, NoAnswer

VARIABLES
    req,        \* per call: "idle", "waiting", "answered" or "failed"
    answer,     \* per call: the call whose answer it was given
    served      \* how often a handler has run for the call

vars == <<req, answer, served>>

Init ==
    /\ req = [r \in Calls |-> "idle"]
    /\ answer = [r \in Calls |-> NoAnswer]
    /\ served = [r \in Calls |-> 0]

Send(r) ==
    /\ req[r] = "idle"
    /\ req' = [req EXCEPT ![r] = "waiting"]
    /\ UNCHANGED <<answer, served>>

\* A handler is through with a call, or with several if it is given batches.
Serve(S) ==
    /\ \A r \in S : req[r] # "idle"
    /\ served' = [r \in Calls |-> IF r \in S THEN served[r] + 1 ELSE served[r]]
    /\ UNCHANGED <<req, answer>>

Answer(r) ==
    /\ req[r] = "waiting" /\ served[r] > 0
    /\ req' = [req EXCEPT ![r] = "answered"]
    /\ answer' = [answer EXCEPT ![r] = r]
    /\ UNCHANGED served

\* Calls fail for reasons of their own, or all at once with their connection.
Fail(S) ==
    /\ \A r \in S : req[r] \in {"idle", "waiting"}
    /\ req' = [r \in Calls |-> IF r \in S THEN "failed" ELSE req[r]]
    /\ UNCHANGED <<answer, served>>

Next == \/ \E r \in Calls : Send(r) \/ Answer(r)
        \/ \E S \in SUBSET Calls : Serve(S) \/ Fail(S)

Spec == Init /\ [][Next]_vars
=============================================================================
