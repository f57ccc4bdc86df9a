-------------------------- MODULE MCMicroservices ---------------------------
(* Requests on a pattern with a handler, one nobody handles, and an event. *)
EXTENDS Microservices, TLC

CONSTANTS call1, call2, push1, push2, event1

OnPattern == [r \in Messages |->
    (call1 :> "x" @@ push1 :> "x" @@ push2 :> "x" @@ event1 :> "y" @@ call2 :> "z")[r]]
Kinds == [r \in Messages |-> ("x" :> "message" @@ "y" :> "event" @@ "z" :> "unknown")[OnPattern[r]]]
=============================================================================
