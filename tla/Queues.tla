------------------------------- MODULE Queues -------------------------------
(***************************************************************************)
(* QueueService of the bullmq package: producers and workers by queue      *)
(* name, made on first use over one shared Redis client, and close().      *)
(* BullMQ and ioredis are external: what is asked to close settles, one    *)
(* way or the other.                                                       *)
(***************************************************************************)
EXTENDS Naturals, FiniteSets

CONSTANTS
    Names,          \* of queues
    Shutdowns,      \* calls of close()
    MaxClients      \* bound: clients ever constructed

VARIABLES
    owned,          \* connection options were configured, not a ready-made client
    shared,         \* sharedConnection, 0 if there is none
    clients,        \* clients constructed
    connected,      \* those whose connection has not been torn down
    entries,        \* the maps `queues` and `workers`
    open,           \* the queues and workers that are not closed
    shutdown,       \* each close() call: where it is, what it waits for
    raced           \* history: something was made while a close() was under way

queueVars == <<owned, shared, clients, connected, entries, open, shutdown, raced>>

Made == [kind : {"queue", "worker"}, name : Names]

Init ==
    /\ owned \in BOOLEAN
    /\ shared = 0 /\ clients = 0 /\ connected = {}
    /\ entries = {} /\ open = {}
    /\ shutdown = [c \in Shutdowns |-> [at |-> "idle", waits |-> {}, client |-> 0]]
    /\ raced = FALSE

Closing(c) == shutdown[c].at \in {"worker", "queue", "quit"}

\* getConnection().  The caller's own client is client 1 and connected already.
Connection ==
    IF shared # 0 THEN UNCHANGED <<shared, clients, connected>>
    ELSE /\ clients' = IF owned THEN clients + 1 ELSE 1
         /\ shared' = clients'
         /\ connected' = connected \union {clients'}

\* getQueue() and registerWorker(): one per name.
Make(x) ==
    /\ x \notin entries
    /\ x \notin open                      \* bound: one live object per name
    /\ clients < MaxClients \/ shared # 0 \/ ~owned
    /\ Connection
    /\ entries' = entries \union {x} /\ open' = open \union {x}
    /\ raced' = (raced \/ \E c \in Shutdowns : Closing(c))
    /\ UNCHANGED <<owned, shutdown>>

OfMap(kind) == {x \in entries : x.kind = kind}

Close(c) ==
    /\ shutdown[c].at = "idle"
    /\ shutdown' = [shutdown EXCEPT ![c] = [at |-> "worker", waits |-> OfMap("worker"), client |-> 0]]
    /\ UNCHANGED <<owned, shared, clients, connected, entries, open, raced>>

\* A worker or a queue that was asked to close has done so.
Closed(x) ==
    /\ \E c \in Shutdowns : x \in shutdown[c].waits
    /\ open' = open \ {x}
    /\ shutdown' = [c \in Shutdowns |-> [shutdown[c] EXCEPT !.waits = @ \ {x}]]
    /\ UNCHANGED <<owned, shared, clients, connected, entries, raced>>

\* It could not: every close() that waits for it rejects, and its other calls go on
\* by themselves.
CloseFails(x) ==
    /\ \E c \in Shutdowns : Closing(c) /\ x \in shutdown[c].waits
    /\ shutdown' = [c \in Shutdowns |->
          IF x \in shutdown[c].waits
          THEN [shutdown[c] EXCEPT !.at = "rejected", !.waits = @ \ {x}] ELSE shutdown[c]]
    /\ UNCHANGED <<owned, shared, clients, connected, entries, open, raced>>

WorkersClosed(c) ==
    /\ shutdown[c].at = "worker" /\ shutdown[c].waits = {}
    /\ shutdown' = [shutdown EXCEPT ![c].at = "queue", ![c].waits = OfMap("queue")]
    /\ UNCHANGED <<owned, shared, clients, connected, entries, open, raced>>

\* The maps are cleared; a client of our own is asked to quit.
QueuesClosed(c) ==
    /\ shutdown[c].at = "queue" /\ shutdown[c].waits = {}
    /\ entries' = {}
    /\ \/ /\ owned /\ shared # 0
          /\ shutdown' = [shutdown EXCEPT ![c].at = "quit", ![c].client = shared]
          /\ UNCHANGED shared
       \/ /\ ~owned \/ shared = 0
          /\ shutdown' = [shutdown EXCEPT ![c].at = "done"]
          /\ shared' = 0
    /\ UNCHANGED <<owned, clients, connected, open, raced>>

\* quit() is answered, or fails; disconnect() tears the socket down either way.
Quit(c) ==
    /\ shutdown[c].at = "quit"
    /\ connected' = connected \ {shutdown[c].client}
    /\ shared' = 0
    /\ shutdown' = [shutdown EXCEPT ![c].at = "done"]
    /\ UNCHANGED <<owned, clients, entries, open, raced>>

QueueProgress ==
    \/ \E x \in Made : Closed(x)
    \/ \E c \in Shutdowns : WorkersClosed(c) \/ QueuesClosed(c) \/ Quit(c)

Next ==
    \/ QueueProgress
    \/ \E x \in Made : Make(x) \/ CloseFails(x)
    \/ \E c \in Shutdowns : Close(c)

Spec == Init /\ [][Next]_queueVars

-----------------------------------------------------------------------------
\* Every worker, queue and client of our own that is still open is in a map or is the
\* shared one, so that a close() reaches it, also after one that failed half-way and
\* while several overlap; and the client the application brought stays connected.
\* What is made while a close() waits may be forgotten: the maps are cleared after
\* the awaits (219-221).
QueuesReachable ==
    /\ ~raced => open \subseteq entries /\ (owned => connected \subseteq {shared})
    /\ ~owned => connected = 1 .. clients
=============================================================================
