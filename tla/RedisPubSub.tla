---------------------------- MODULE RedisPubSub -----------------------------
(***************************************************************************)
(* graphql-pubsub/src/redis-pubsub.ts: subscribers that share one Redis    *)
(* subscription per trigger name.  The event loop is single-threaded: a    *)
(* step is the code between two awaits, or one turn of the fan-out loop of *)
(* onMessage, whose handlers run inside it and may call back.              *)
(***************************************************************************)
EXTENDS Naturals, Sequences, FiniteSets

CONSTANTS
    ChannelNames,   \* resolved trigger names (after keyPrefix and triggerTransform) that
    PatternNames,   \* callers subscribe to, as a channel and as a pattern
    MaxSubs,        \* bound: subscribe() calls
    MaxMessages,    \* bound: messages Redis delivers
    MaxDrops,       \* bound: connection losses
    HandlerOps      \* what a message handler does: "subscribe", "unsubscribe", "throw"

ASSUME BoundsAssumption == MaxSubs \in Nat /\ MaxMessages \in Nat /\ MaxDrops \in Nat
ASSUME HandlerOpsAssumption == HandlerOps \subseteq {"subscribe", "unsubscribe", "throw"}

Ids == 0 .. MaxSubs - 1
Triggers == ChannelNames \cup PatternNames

\* The <<trigger, isPattern>> pairs callers subscribe with.
Requests == (ChannelNames \X {FALSE}) \cup (PatternNames \X {TRUE})

VARIABLES
    subscriptionMap,        \* id -> <<trigger, isPattern>>, defined on the live ids
    subsRefsMap,            \* trigger -> sequence of ids; <<>> stands for "no key"
    pendingSubscribes,      \* trigger -> stage of the shared (P)SUBSCRIBE
    currentSubscriptionId,  \* next id
    call,                   \* id -> state of the promise subscribe() returned
    rolling,                \* waiters whose rejection microtask is queued
    fan,                    \* the running onMessage loop
    got,                    \* id -> messages its handler was given
    status,                 \* ioredis status of the subscriber connection
    pipe,                   \* commands sent, not yet answered, in order
    server,                 \* <<trigger, isPattern>> Redis holds for this connection
    refused,                \* keys whose (P)UNSUBSCRIBE was rejected
    msgs, drops             \* counters for the bounds

bookkeeping == <<subscriptionMap, subsRefsMap>>
connection  == <<status, pipe, server, refused, drops>>
vars == <<subscriptionMap, subsRefsMap, pendingSubscribes, currentSubscriptionId,
          call, rolling, fan, got, status, pipe, server, refused, msgs, drops>>

Stages == {"none", "waiting", "sent", "ok", "failed"}
Calls  == {"unused", "await", "resolved", "rejected"}

\* The loop of onMessage keeps the array it started on.  live: the array is
\* still the one stored in subsRefsMap, so a splice() of it is seen by the
\* loop; subscribe() stores a new array and the key may be deleted.
\* due: those registered at its start whose handler has not run.
NoFan == [on |-> FALSE, key |-> <<>>, arr |-> <<>>, i |-> 1, live |-> FALSE,
          called |-> FALSE, due |-> {}]

Elems(s) == {s[k] : k \in DOMAIN s}
NoRepetition(s) == \A j, k \in DOMAIN s : s[j] = s[k] => j = k
Splice(s, k) == [j \in 1 .. Len(s) - 1 |-> IF j < k THEN s[j] ELSE s[j + 1]]
IndexOf(s, x) == CHOOSE k \in DOMAIN s : s[k] = x
Without(s, x) == IF x \in Elems(s) THEN Splice(s, IndexOf(s, x)) ELSE s
Put(m, k, v) == [x \in DOMAIN m \cup {k} |-> IF x = k THEN v ELSE m[x]]
Drop(m, k)   == [x \in DOMAIN m \ {k} |-> m[x]]
Registered(t) == {id \in DOMAIN subscriptionMap : subscriptionMap[id][1] = t}
Waiters(t) == {id \in Registered(t) : call[id] = "await"}
\* Promise reactions of one promise run in the order they were registered.
First(id, S) == id \in S /\ \A other \in S : id <= other

Init ==
    /\ subscriptionMap = [x \in {} |-> <<>>]
    /\ subsRefsMap = [t \in Triggers |-> <<>>]
    /\ pendingSubscribes = [t \in Triggers |-> "none"]
    /\ currentSubscriptionId = 0
    /\ call = [id \in Ids |-> "unused"]
    /\ rolling = {}
    /\ fan = NoFan
    /\ got = [id \in Ids |-> 0]
    /\ status = "connecting"
    /\ pipe = <<>>
    /\ server = {} /\ refused = {}
    /\ msgs = 0 /\ drops = 0

-----------------------------------------------------------------------------
(* Turns of the event loop *)

\* Promise reactions already queued run before any other callback.
Settling == \E t \in Triggers : pendingSubscribes[t] \in {"ok", "failed"}

\* Caller code runs on its own turn, or inside a handler of the fan-out loop.
CallerTurn(op) ==
    /\ rolling = {}
    /\ IF fan.on THEN fan.called /\ op \in HandlerOps ELSE ~Settling

\* ioredis hands over replies and messages, several in one chunk perhaps,
\* before the microtasks of the first one run.
SocketTurn == rolling = {} /\ ~fan.on

\* Commands are queued by ioredis while it reconnects and refused after QUIT.
Sent(c) == IF status = "end" THEN pipe ELSE Append(pipe, c)
Command(cmd, key) == [cmd |-> cmd, key |-> key]

-----------------------------------------------------------------------------
(* Callers *)

\* Faulty variant: ++currentSubscriptionId.
FreshId_PreIncrement == currentSubscriptionId + 1
FreshId == currentSubscriptionId

Subscribe(req) ==
    LET id == FreshId
        t  == req[1]
        first == subsRefsMap[t] = <<>>
    IN  /\ CallerTurn("subscribe")
        /\ currentSubscriptionId < MaxSubs
        /\ currentSubscriptionId' = currentSubscriptionId + 1
        /\ subscriptionMap' = Put(subscriptionMap, id, req)
        /\ subsRefsMap' = [subsRefsMap EXCEPT ![t] = Append(@, id)]
        /\ fan' = IF fan.on /\ fan.key[1] = t THEN [fan EXCEPT !.live = FALSE] ELSE fan
        /\ call' = [call EXCEPT ![id] =
                      IF first \/ pendingSubscribes[t] # "none" THEN "await" ELSE "resolved"]
        /\ IF first
           THEN /\ pendingSubscribes' = [pendingSubscribes EXCEPT ![t] =
                                           IF status = "ready" THEN "sent" ELSE "waiting"]
                /\ pipe' = IF status = "ready" THEN Sent(Command("sub", req)) ELSE pipe
           ELSE UNCHANGED <<pendingSubscribes, pipe>>
        /\ UNCHANGED <<rolling, got, status, server, refused, msgs, drops>>

Release(key) == Command("unsub", key)

\* unsubscribe() with an id it does not know throws and changes nothing.
Unsubscribe(id) ==
    LET t    == subscriptionMap[id][1]
        refs == subsRefsMap[t]
        mine == fan.on /\ fan.key[1] = t
    IN  /\ CallerTurn("unsubscribe")
        /\ id \in DOMAIN subscriptionMap /\ call[id] = "resolved"
        /\ refs # <<>>
        /\ subscriptionMap' = Drop(subscriptionMap, id)
        /\ IF Len(refs) = 1
           THEN /\ pipe' = Sent(Release(subscriptionMap[id]))
                /\ subsRefsMap' = [subsRefsMap EXCEPT ![t] = <<>>]
                /\ fan' = [fan EXCEPT !.live = @ /\ ~mine, !.due = @ \ {id}]
           ELSE /\ subsRefsMap' = [subsRefsMap EXCEPT ![t] = Without(@, id)]
                /\ fan' = [fan EXCEPT !.arr = IF mine /\ fan.live THEN Without(@, id) ELSE @,
                                      !.due = @ \ {id}]
                /\ UNCHANGED pipe
        /\ UNCHANGED <<pendingSubscribes, currentSubscriptionId, call, rolling, got,
                       status, server, refused, msgs, drops>>

\* close(): QUIT follows the commands already sent.
Close ==
    /\ CallerTurn("close")
    /\ status # "end"
    /\ \A k \in DOMAIN pipe : pipe[k].cmd # "quit"
    /\ pipe' = Append(pipe, Command("quit", <<>>))
    /\ UNCHANGED <<bookkeeping, pendingSubscribes, currentSubscriptionId, call, rolling,
                   fan, got, status, server, refused, msgs, drops>>

-----------------------------------------------------------------------------
(* performSubscribe and waitForReady *)

\* The connection is ready: the waiting subscribe goes out.
IssueSubscribe(t) ==
    /\ SocketTurn
    /\ pendingSubscribes[t] = "waiting" /\ status = "ready"
    /\ pendingSubscribes' = [pendingSubscribes EXCEPT ![t] = "sent"]
    /\ \E id \in Ids : /\ First(id, Waiters(t))
                      /\ pipe' = Append(pipe, Command("sub", subscriptionMap[id]))
    /\ UNCHANGED <<bookkeeping, currentSubscriptionId, call, rolling, fan, got,
                   status, server, refused, msgs, drops>>

\* Faulty variant: waitForReady() without its timer.
WaitTimeout_Missing(t) == FALSE /\ UNCHANGED vars
\* The ten second timer of one waitForReady().
WaitTimeout(t) ==
    /\ SocketTurn
    /\ pendingSubscribes[t] = "waiting" /\ status # "ready"
    /\ pendingSubscribes' = [pendingSubscribes EXCEPT ![t] = "failed"]
    /\ UNCHANGED <<bookkeeping, currentSubscriptionId, call, rolling, fan, got,
                   connection, msgs>>

\* An "error" event rejects every waitForReady() in progress.
WaitError ==
    /\ SocketTurn
    /\ status = "connecting"
    /\ \E t \in Triggers : pendingSubscribes[t] = "waiting"
    /\ pendingSubscribes' = [t \in Triggers |->
                               IF pendingSubscribes[t] = "waiting" THEN "failed"
                               ELSE pendingSubscribes[t]]
    /\ UNCHANGED <<bookkeeping, currentSubscriptionId, call, rolling, fan, got,
                   connection, msgs>>

\* The shared promise resolved: the first subscriber and all that joined it go on.
Resolve(t) ==
    /\ SocketTurn
    /\ pendingSubscribes[t] = "ok"
    /\ pendingSubscribes' = [pendingSubscribes EXCEPT ![t] = "none"]
    /\ call' = [id \in Ids |-> IF id \in Waiters(t) THEN "resolved" ELSE call[id]]
    /\ UNCHANGED <<bookkeeping, currentSubscriptionId, rolling, fan, got, connection, msgs>>

\* Faulty variant: the id stays listed under its trigger.
RollbackSubscription_KeepsRefs(id) ==
    /\ subscriptionMap' = Drop(subscriptionMap, id)
    /\ call' = [call EXCEPT ![id] = "rejected"]
    /\ UNCHANGED subsRefsMap
RollbackSubscription(id) ==
    LET t == subscriptionMap[id][1]
    IN  /\ subscriptionMap' = Drop(subscriptionMap, id)
        /\ subsRefsMap' = [subsRefsMap EXCEPT ![t] = Without(@, id)]
        /\ call' = [call EXCEPT ![id] = "rejected"]

\* The pending entry is deleted in a finally block.
PendingAfterReject(t) == [pendingSubscribes EXCEPT ![t] = "none"]

\* It rejected: the first subscriber rolls back and, in the same microtask,
\* deletes the pending entry; those that joined it roll back right after.
Reject(t) ==
    /\ SocketTurn
    /\ pendingSubscribes[t] = "failed"
    /\ \E id \in Ids : /\ First(id, Waiters(t))
                      /\ RollbackSubscription(id)
                      /\ rolling' = Waiters(t) \ {id}
    /\ pendingSubscribes' = PendingAfterReject(t)
    /\ UNCHANGED <<currentSubscriptionId, fan, got, connection, msgs>>

\* Faulty variant: a waiter ignores the rejection and returns its id.
RejectWaiter_Swallows ==
    /\ \E id \in Ids : /\ First(id, rolling)
                      /\ call' = [call EXCEPT ![id] = "resolved"]
                      /\ rolling' = rolling \ {id}
    /\ UNCHANGED <<bookkeeping, pendingSubscribes, currentSubscriptionId, fan, got,
                   connection, msgs>>
RejectWaiter ==
    /\ \E id \in Ids : /\ First(id, rolling)
                      /\ RollbackSubscription(id)
                      /\ rolling' = rolling \ {id}
    /\ UNCHANGED <<pendingSubscribes, currentSubscriptionId, fan, got, connection, msgs>>

-----------------------------------------------------------------------------
(* onMessage *)

Message(key) ==
    LET refs == subsRefsMap[key[1]]
    IN  /\ SocketTurn
        /\ status = "ready" /\ key \in server /\ msgs < MaxMessages
        /\ msgs' = msgs + 1
        /\ fan' = IF refs = <<>> THEN fan
                  ELSE [on |-> TRUE, key |-> key, arr |-> refs, i |-> 1, live |-> TRUE,
                        called |-> FALSE, due |-> Elems(refs)]
        /\ UNCHANGED <<bookkeeping, pendingSubscribes, currentSubscriptionId, call,
                       rolling, got, connection>>

\* Faulty variant: no look-up before the handler is called.
Known_Unchecked(id) == TRUE
Known(id) == id \in DOMAIN subscriptionMap

FanStep ==
    /\ fan.on /\ fan.i <= Len(fan.arr)
    /\ LET id == fan.arr[fan.i]
           known == Known(id)
       IN  /\ fan' = [fan EXCEPT !.i = @ + 1, !.called = @ \/ known,
                                 !.due = IF known THEN @ \ {id} ELSE @]
           /\ got' = IF known THEN [got EXCEPT ![id] = @ + 1] ELSE got
    /\ UNCHANGED <<bookkeeping, pendingSubscribes, currentSubscriptionId, call, rolling,
                   connection, msgs>>

\* A handler throws: the loop is left, the remaining handlers do not run.
FanThrow ==
    /\ fan.on /\ fan.called /\ "throw" \in HandlerOps
    /\ fan' = NoFan
    /\ UNCHANGED <<bookkeeping, pendingSubscribes, currentSubscriptionId, call, rolling,
                   got, connection, msgs>>

FanDone ==
    /\ fan.on /\ fan.i > Len(fan.arr)
    /\ fan' = NoFan
    /\ UNCHANGED <<bookkeeping, pendingSubscribes, currentSubscriptionId, call, rolling,
                   got, connection, msgs>>

-----------------------------------------------------------------------------
(* Redis and ioredis, from how redis-pubsub.ts uses them *)

ConnReady ==
    /\ SocketTurn
    /\ status = "connecting"
    /\ status' = "ready"
    /\ UNCHANGED <<bookkeeping, pendingSubscribes, currentSubscriptionId, call, rolling,
                   fan, got, pipe, server, refused, msgs, drops>>

\* ioredis reconnects, restores the subscriptions and resends what was unanswered.
ConnDrop ==
    /\ SocketTurn
    /\ status = "ready" /\ drops < MaxDrops
    /\ status' = "connecting" /\ drops' = drops + 1
    /\ UNCHANGED <<bookkeeping, pendingSubscribes, currentSubscriptionId, call, rolling,
                   fan, got, pipe, server, refused, msgs>>

Reply(ok) ==
    LET c == Head(pipe)
    IN  /\ SocketTurn
        /\ status = "ready" /\ pipe # <<>>
        /\ pipe' = Tail(pipe)
        /\ \/ /\ c.cmd = "sub"
              /\ server' = IF ok THEN server \cup {c.key} ELSE server
              /\ pendingSubscribes' = [pendingSubscribes EXCEPT ![c.key[1]] =
                                         IF ok THEN "ok" ELSE "failed"]
              /\ UNCHANGED refused
           \/ /\ c.cmd = "unsub"
              /\ server' = IF ok THEN server \ {c.key} ELSE server
              /\ refused' = IF ok THEN refused \ {c.key} ELSE refused \cup {c.key}
              /\ UNCHANGED pendingSubscribes
        /\ UNCHANGED <<bookkeeping, currentSubscriptionId, call, rolling, fan, got,
                       status, msgs, drops>>

\* QUIT: the connection ends and what was sent after it is rejected.
Quit ==
    /\ SocketTurn
    /\ status = "ready" /\ pipe # <<>> /\ Head(pipe).cmd = "quit"
    /\ status' = "end" /\ pipe' = <<>> /\ server' = {} /\ refused' = {}
    /\ pendingSubscribes' = [t \in Triggers |->
                               IF pendingSubscribes[t] = "sent" THEN "failed"
                               ELSE pendingSubscribes[t]]
    /\ UNCHANGED <<bookkeeping, currentSubscriptionId, call, rolling, fan, got, msgs, drops>>

-----------------------------------------------------------------------------
Callers == \/ \E req \in Requests : Subscribe(req)
           \/ \E id \in Ids : Unsubscribe(id)
           \/ Close

Promises == \/ \E t \in Triggers : \/ IssueSubscribe(t)
                                   \/ WaitTimeout(t)
                                   \/ Resolve(t)
                                   \/ Reject(t)
            \/ RejectWaiter

Fanout == FanStep \/ FanDone

Redis == \/ ConnReady
         \/ Quit
         \/ \E ok \in BOOLEAN : Reply(ok)

Next == \/ Callers
        \/ Promises
        \/ WaitError
        \/ Fanout
        \/ FanThrow
        \/ Redis
        \/ ConnDrop
        \/ \E key \in Requests : Message(key)

Spec == Init /\ [][Next]_vars

\* The event loop runs what is queued, the ten second timer fires, and Redis
\* answers on a connection that ioredis keeps re-establishing.
Fairness == /\ \A t \in Triggers : /\ WF_vars(IssueSubscribe(t))
                                   /\ WF_vars(WaitTimeout(t))
                                   /\ WF_vars(Resolve(t))
                                   /\ WF_vars(Reject(t))
            /\ WF_vars(RejectWaiter)
            /\ WF_vars(FanStep) /\ WF_vars(FanDone)
            /\ WF_vars(Redis)

FairSpec == Spec /\ Fairness

-----------------------------------------------------------------------------
Commands == [cmd : {"sub", "unsub"}, key : Requests] \cup {Command("quit", <<>>)}

Fans == [on : BOOLEAN, key : Requests \cup {<<>>}, arr : Seq(Ids), i : Nat,
         live : BOOLEAN, called : BOOLEAN, due : SUBSET Ids]

TypeOK ==
    /\ DOMAIN subscriptionMap \subseteq Ids
    /\ \A id \in DOMAIN subscriptionMap : subscriptionMap[id] \in Requests
    /\ subsRefsMap \in [Triggers -> Seq(Ids)]
    /\ pendingSubscribes \in [Triggers -> Stages]
    /\ currentSubscriptionId \in 0 .. MaxSubs
    /\ call \in [Ids -> Calls]
    /\ rolling \subseteq Ids
    /\ fan \in Fans
    /\ got \in [Ids -> Nat]
    /\ status \in {"connecting", "ready", "end"}
    /\ pipe \in Seq(Commands)
    /\ server \subseteq Requests /\ refused \subseteq Requests
    /\ msgs \in 0 .. MaxMessages /\ drops \in 0 .. MaxDrops

\* The two maps describe the same subscriptions: an id is listed under its
\* trigger exactly once for as long as subscriptionMap knows it, through
\* concurrent subscribes, rollbacks of a failed (P)SUBSCRIBE and unsubscribes
\* (subscribe 170-200, rollbackSubscription 229-241, unsubscribe 312-331).
RefsConsistent ==
    \A t \in Triggers :
        /\ NoRepetition(subsRefsMap[t])
        /\ Elems(subsRefsMap[t]) = Registered(t)

\* The bookkeeping and Redis stay in step.  A subscribe() that returned an id is
\* backed by a Redis subscription of the kind it asked for until it is cancelled
\* or the connection is closed: none rides on a (P)SUBSCRIBE that failed or was
\* already undone (comment 207-211).  And Redis keeps a channel nobody listens to
\* only while its (P)UNSUBSCRIBE is on the way or was refused (293-294).
RedisInStep ==
    /\ \A id \in DOMAIN subscriptionMap :
         call[id] = "resolved" /\ status # "end" => subscriptionMap[id] \in server
    /\ \A key \in server :
         \/ \E id \in DOMAIN subscriptionMap : subscriptionMap[id] = key
         \/ Command("unsub", key) \in Elems(pipe)
         \/ key \in refused

\* When the loop of onMessage is through, every subscriber registered when the
\* message arrived has seen it, unless it was unsubscribed meanwhile (comment 152).
FanoutComplete == fan.on /\ fan.i > Len(fan.arr) => fan.due = {}

\* Ids are handed out once, in order; a call that waits or returned an id is in
\* the map until it is rejected or unsubscribed.
IdsFresh ==
    /\ \A id \in Ids : id >= currentSubscriptionId <=> call[id] = "unused"
    /\ \A id \in Ids : call[id] = "await" => id \in DOMAIN subscriptionMap
    /\ \A id \in DOMAIN subscriptionMap : call[id] \in {"await", "resolved"}
    /\ \A id \in rolling : call[id] = "await"

\* Every subscribe() settles: ready, refused, timed out or closed underneath.
SubscribeSettles == \A id \in Ids : call[id] = "await" ~> call[id] # "await"

\* The channel-sharing bookkeeping keeps the promise of the engine interface.
subState == [id \in Ids |->
    IF call[id] = "unused" THEN "unused"
    ELSE IF call[id] = "await" THEN "pending"
    ELSE IF call[id] = "rejected" THEN "failed"
    ELSE IF id \in DOMAIN subscriptionMap THEN "active" ELSE "closed"]

Engine == INSTANCE PubSubEngine WITH sub <- subState, handed <- got

\* Every behaviour of RedisPubSub is one of PubSubEngine: ids are fresh, a
\* handler never runs after its unsubscribe() or its failed subscribe().
EngineSpec == Engine!Spec
=============================================================================
