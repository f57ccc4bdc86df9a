---------------------------- MODULE RequestTable ----------------------------
(***************************************************************************)
(* The part every requester of packages/microservices has in common: a map *)
(* from request id to settler, and a five second timer per request.  The   *)
(* three clients and the three servers differ in when they touch them.     *)
(***************************************************************************)
EXTENDS Naturals, FiniteSets, Sequences

CONSTANTS
    Sends,      \* requests the client sends: send()
    Pushes,     \* requests a server sends: sendMessage()
    Emits,      \* events the client sends without waiting: emit()
    Kind,       \* what the servers registered for the pattern of each
    NoAnswer,
    MaxMessages \* bound: messages sent in one behaviour

Calls == Sends \cup Pushes
Messages == Calls \cup Emits

ASSUME RequestTableAssumption ==
    /\ IsFiniteSet(Messages)
    /\ Sends \cap Pushes = {} /\ Calls \cap Emits = {} /\ NoAnswer \notin Messages
    /\ Kind \in [Messages -> {"message", "event", "unknown"}]

VARIABLES
    req,        \* what the caller sees: "idle", "waiting", "answered", "failed",
                \* or "sent" for an event
    answer,     \* whose answer the caller was given
    pending,    \* the ids in pendingRequests or pendingReplies
    timers,     \* the requests whose timer runs
    served      \* how often a handler has been through with the message

table == <<req, answer, pending, timers>>

TableInit ==
    /\ req = [r \in Messages |-> "idle"]
    /\ answer = [r \in Calls |-> NoAnswer]
    /\ pending = {} /\ timers = {}
    /\ served = [r \in Messages |-> 0]

-----------------------------------------------------------------------------
First(r) == req[r] = "idle" /\ Cardinality({m \in Messages : req[m] # "idle"}) < MaxMessages

\* A request is entered with its timer ...
Entered(r) ==
    /\ First(r)
    /\ req' = [req EXCEPT ![r] = "waiting"]
    /\ pending' = pending \cup {r} /\ timers' = timers \cup {r}
    /\ UNCHANGED answer

\* ... or refused before anything was stored.
Refused(r) ==
    /\ First(r)
    /\ req' = [req EXCEPT ![r] = "failed"]
    /\ UNCHANGED <<answer, pending, timers>>

Sent(r) ==
    /\ First(r)
    /\ req' = [req EXCEPT ![r] = "sent"]
    /\ UNCHANGED <<answer, pending, timers>>

\* The settler of a request that was in the map: it clears the timer of the
\* request; observers and promises take the first outcome only.
Settled(S, outcome, by) ==
    /\ timers' = timers \ S
    /\ req' = [r \in Messages |-> IF r \in S /\ req[r] = "waiting" THEN outcome ELSE req[r]]
    /\ answer' = [r \in Calls |-> IF r \in S /\ outcome = "answered" THEN by ELSE answer[r]]

\* The request a reply belongs to.
\* Faulty variant: a reply is taken for whichever request waits.
Matching_Any(id, mine) == IF pending \cap mine = {} THEN {}
                          ELSE {CHOOSE r \in pending \cap mine : \A q \in pending \cap mine : r = q \/ r # id}
Matching(id, mine) == pending \cap mine \cap {id}

\* A reply arrives at the side that made the requests "mine".
Replied(id, mine, ok) ==
    /\ pending' = pending \ Matching(id, mine)
    /\ Settled(Matching(id, mine), IF ok THEN "answered" ELSE "failed", id)

\* Five seconds are over.
TimedOut(r) ==
    /\ r \in timers
    /\ pending' = pending \ {r}
    /\ Settled({r}, "failed", r)

\* Everything in the map is rejected at once: TcpClient.rejectPending().
RejectPending(mine) ==
    /\ pending' = pending \ mine
    /\ Settled(pending \cap mine, "failed", NoAnswer)

\* The map is cleared; nobody is told and the timers keep running.
\* Faulty variant: the timers are cleared with it.
Forgotten_WithTimers(mine) ==
    /\ pending' = pending \ mine /\ timers' = timers \ mine /\ UNCHANGED <<req, answer>>
Forgotten(mine) == pending' = pending \ mine /\ UNCHANGED <<req, answer, timers>>

Ran(r) == served' = [served EXCEPT ![r] = @ + 1]

Waiting(r) == req[r] = "waiting"
=============================================================================
