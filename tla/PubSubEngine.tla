---------------------------- MODULE PubSubEngine ----------------------------
(***************************************************************************)
(* What the interface PubSubEngine promises to whoever subscribes through  *)
(* it (PubSubAsyncIterator, a gateway, a resolver), independently of how   *)
(* many subscribers share one Redis channel: every subscribe() call gets   *)
(* an identifier of its own, is answered once, and the handler it was      *)
(* given runs only between the call and its failure or the unsubscribe().  *)
(***************************************************************************)
EXTENDS Naturals

CONSTANT Ids    \* the identifiers subscribe() can hand out

VARIABLES
    sub,        \* sub[id]: how far the subscription id has come
    handed      \* handed[id]: how many messages its handler was given

vars == <<sub, handed>>

States == {"unused", "pending", "active", "failed", "closed"}

TypeOK == /\ sub \in [Ids -> States]
          /\ handed \in [Ids -> Nat]

Init == /\ sub = [id \in Ids |-> "unused"]
        /\ handed = [id \in Ids |-> 0]

\* subscribe() has been called for each of S; a channel that is already shared
\* and established answers at once.
Subscribe(S) ==
    /\ S # {}
    /\ \A id \in S : sub[id] = "unused"
    /\ \E A \in SUBSET S :
          sub' = [id \in Ids |-> IF id \in A THEN "active"
                                 ELSE IF id \in S THEN "pending" ELSE sub[id]]
    /\ UNCHANGED handed

\* The calls waiting for one and the same channel are answered together.
Accept(S) ==
    /\ \A id \in S : sub[id] = "pending"
    /\ sub' = [id \in Ids |-> IF id \in S THEN "active" ELSE sub[id]]
    /\ UNCHANGED handed

Refuse(id) ==
    /\ sub[id] = "pending"
    /\ sub' = [sub EXCEPT ![id] = "failed"]
    /\ UNCHANGED handed

\* A message may reach the handler before the subscribe() promise resolves.
Hand(id) ==
    /\ sub[id] \in {"pending", "active"}
    /\ handed' = [handed EXCEPT ![id] = @ + 1]
    /\ UNCHANGED sub

Unsubscribe(S) ==
    /\ \A id \in S : sub[id] = "active"
    /\ sub' = [id \in Ids |-> IF id \in S THEN "closed" ELSE sub[id]]
    /\ UNCHANGED handed

Next == \/ \E id \in Ids : Refuse(id) \/ Hand(id)
        \/ \E S \in SUBSET Ids : Subscribe(S) \/ Accept(S) \/ Unsubscribe(S)

Spec == Init /\ [][Next]_vars
=============================================================================
