-------------------------- MODULE MCAmqpConnection --------------------------
(* Small applications: one subscriber, with and without a consumer tag of its  *)
(* own, one batch, two rpc handlers that share a queue                         *)
(* and a third whose options differ.                                           *)
EXTENDS AmqpConnection, TLC

CONSTANTS single, tagged, batch, rpc1, rpc2, rpc3, request1, request2, e1, e2, e3

Kinds == [h \in Handlers |->
    (single :> "subscribe" @@ tagged :> "subscribe" @@ batch :> "batch"
     @@ rpc1 :> "rpc" @@ rpc2 :> "rpc" @@ rpc3 :> "rpc")[h]]
Queues == [h \in Handlers |-> IF Kind[h] = "rpc" THEN "calls" ELSE "work"]
App(hs, old, ms, bad, n) ==
    [handlers |-> hs, bound |-> old, sends |-> ms, troubled |-> bad, cancels |-> n]
Small == {App(<<single>>, {}, <<e1>>, {e1}, 1), App(<<tagged>>, {}, <<>>, {}, 1),
          App(<<rpc1, rpc2>>, {}, <<>>, {}, 2), App(<<rpc1, rpc3, rpc2>>, {rpc1, rpc2}, <<>>, {}, 0),
          App(<<rpc1, rpc2>>, {rpc1, rpc2}, <<request2>>, {request2}, 0),
          App(<<rpc1, rpc2>>, {}, <<request1>>, {}, 0),
          App(<<rpc1>>, {}, <<request1, request2>>, {}, 0),
          App(<<batch>>, {batch}, <<e1, e2>>, {e1}, 0), App(<<batch>>, {}, <<e1, e2, e3>>, {}, 0)}
Routes == [m \in Messages |-> IF m \in Requests THEN "calls" ELSE "work"]

\* One handler names a key that a pattern of another matches.
RoutingKey == [m \in Messages |-> IF m = request1 THEN <<"a", "b">> ELSE <<"b">>]
Bindings == [h \in Handlers |-> IF h = rpc1 THEN {<<"a", "*">>}
                               ELSE IF h = rpc2 THEN {<<"a", "b">>, <<"b", "#">>} ELSE {<<"#">>}]
ASSUME PlainBindings
=============================================================================
