------------------------ MODULE PubSubAsyncIterator -------------------------
(***************************************************************************)
(* graphql-pubsub/src/pubsub-async-iterator.ts: one iterator over several  *)
(* triggers of a PubSubEngine.  next(), return() and throw() all begin by  *)
(* awaiting subscribePromise; what follows the await runs as a microtask,  *)
(* in the order of the calls, before any other event.                      *)
(***************************************************************************)
EXTENDS Naturals, Sequences

CONSTANTS
    Trigs,          \* the triggers, one engine subscription each
    MaxQueue,       \* MAX_QUEUE_SIZE
    MaxMessages,    \* bound: messages the engine hands over
    MaxNext,        \* bound: next() calls
    MaxReturn,      \* bound: return() and throw() calls of the consumer
    IdleTimeout     \* is idleTimeoutMs configured?

IteratorAssumption ==
    /\ MaxQueue \in Nat \ {0} /\ MaxMessages \in Nat
    /\ MaxNext \in Nat /\ MaxReturn \in Nat /\ IdleTimeout \in BOOLEAN

VARIABLES
    sub, handed,        \* the engine's side of the subscriptions
    listening, subscriptionIds, pullQueue, pushQueue,
    subscribePromise,   \* "new", "pending", "ok" or "error"
    idleTimer,          \* is the timer armed?
    micro,              \* calls waiting behind subscribePromise, in order
    nexts, value,       \* nexts[n]: state of the n-th next(); value[n]: its message
    arrived,            \* messages handed over so far; the m-th one is m
    returns, finished   \* return()/throw() calls made, and those that are through

queues == <<pullQueue, pushQueue>>
calls  == <<nexts, value, returns>>
vars == <<sub, handed, listening, subscriptionIds, pullQueue, pushQueue, subscribePromise,
          idleTimer, micro, nexts, value, arrived, returns, finished>>

Engine == INSTANCE PubSubEngine WITH Ids <- Trigs

NextIds == 1 .. MaxNext
NextStates == {"idle", "await", "pull", "value", "done", "threw"}

Init ==
    /\ Engine!Init
    /\ listening = TRUE /\ subscriptionIds = {}
    /\ pullQueue = <<>> /\ pushQueue = <<>>
    /\ subscribePromise = "new" /\ idleTimer = FALSE
    /\ micro = <<>>
    /\ nexts = [n \in NextIds |-> "idle"] /\ value = [n \in NextIds |-> 0]
    /\ arrived = 0 /\ returns = 0 /\ finished = 0

\* The constructor starts every subscription and arms the idle timer.
Construct ==
    /\ subscribePromise = "new"
    /\ subscribePromise' = "pending"
    /\ sub' = [t \in Trigs |-> "pending"]
    /\ idleTimer' = IdleTimeout
    /\ UNCHANGED <<handed, listening, subscriptionIds, queues, micro, calls, arrived, finished>>

-----------------------------------------------------------------------------
(* teardown() and the queues *)

\* Every waiting next() is answered with done = true.
Drained(q) == [n \in NextIds |-> IF \E k \in DOMAIN q : q[k] = n THEN "done" ELSE nexts[n]]

\* ids: what subscriptionIds holds when teardown() runs.
Teardown(ids) ==
    /\ sub' = [t \in Trigs |-> IF t \in ids THEN "closed" ELSE sub[t]]
    /\ subscriptionIds' = {}
    /\ listening' = FALSE
    /\ nexts' = Drained(pullQueue)
    /\ pullQueue' = <<>> /\ pushQueue' = <<>>

\* Faulty variant: the newest message comes first.
Buffered_Unshift(m) == <<m>> \o (IF Len(pushQueue) >= MaxQueue THEN Tail(pushQueue) ELSE pushQueue)
Buffered(m) == Append(IF Len(pushQueue) >= MaxQueue THEN Tail(pushQueue) ELSE pushQueue, m)

HasConsumer == pullQueue # <<>>

\* Promise reactions run before the next message is handed over.
Quiet == subscribePromise = "pending" \/ micro = <<>>

\* pushValue(): the engine calls the handler of trigger t.
PushValue(t) ==
    LET m == arrived + 1
    IN  /\ subscribePromise # "new" /\ Quiet
        /\ arrived < MaxMessages
        /\ Engine!Hand(t)
        /\ arrived' = m
        /\ idleTimer' = (IF listening THEN IdleTimeout ELSE idleTimer)
        /\ IF ~listening THEN UNCHANGED <<queues, nexts, value>>
           ELSE IF HasConsumer
           THEN /\ pullQueue' = Tail(pullQueue)
                /\ nexts' = [nexts EXCEPT ![Head(pullQueue)] = "value"]
                /\ value' = [value EXCEPT ![Head(pullQueue)] = m]
                /\ UNCHANGED pushQueue
           ELSE pushQueue' = Buffered(m) /\ UNCHANGED <<pullQueue, nexts, value>>
        /\ UNCHANGED <<listening, subscriptionIds, subscribePromise, micro, returns, finished>>

-----------------------------------------------------------------------------
(* subscribeAll(): the engine answers, then Promise.allSettled goes on *)

EngineAnswers(t) ==
    /\ subscribePromise = "pending"
    /\ Engine!Accept({t}) \/ Engine!Refuse(t)
    /\ UNCHANGED <<listening, subscriptionIds, queues, subscribePromise, idleTimer, micro,
                   calls, arrived, finished>>

Fulfilled == {t \in Trigs : sub[t] = "active"}

\* Faulty variant: every trigger is unsubscribed, the refused ones too.
RolledBack_All == Trigs
RolledBack == Fulfilled

SubscribeAllDone ==
    /\ subscribePromise = "pending"
    /\ \A t \in Trigs : sub[t] \in {"active", "failed"}
    /\ IF Fulfilled = Trigs
       THEN /\ subscribePromise' = "ok" /\ subscriptionIds' = Fulfilled
            /\ UNCHANGED <<sub, listening, queues, nexts>>
       ELSE subscribePromise' = "error" /\ Teardown(RolledBack)
    /\ UNCHANGED <<handed, idleTimer, micro, value, arrived, returns, finished>>

-----------------------------------------------------------------------------
(* The consumer *)

CallNext(n) ==
    /\ subscribePromise # "new"
    /\ nexts[n] = "idle" /\ \A k \in 1 .. n - 1 : nexts[k] # "idle"
    /\ nexts' = [nexts EXCEPT ![n] = "await"]
    /\ micro' = Append(micro, n)
    /\ UNCHANGED <<sub, handed, listening, subscriptionIds, queues, subscribePromise, idleTimer,
                   value, arrived, returns, finished>>

\* return() and throw() differ only in how their own promise ends; 0 is their
\* place in the microtask queue.
CallReturn ==
    /\ subscribePromise # "new"
    /\ returns < MaxReturn
    /\ returns' = returns + 1
    /\ idleTimer' = FALSE
    /\ micro' = Append(micro, 0)
    /\ UNCHANGED <<sub, handed, listening, subscriptionIds, queues, subscribePromise, nexts,
                   value, arrived, finished>>

\* The idle watchdog calls return().
IdleFires ==
    /\ idleTimer /\ Quiet
    /\ idleTimer' = FALSE
    /\ micro' = Append(micro, 0)
    /\ UNCHANGED <<sub, handed, listening, subscriptionIds, queues, subscribePromise, calls,
                   arrived, finished>>

-----------------------------------------------------------------------------
(* Microtasks: what follows "await this.subscribePromise" *)

NextGoesOn(n) ==
    /\ UNCHANGED <<sub, listening, subscriptionIds, finished>>
    /\ IF subscribePromise = "error"
       THEN nexts' = [nexts EXCEPT ![n] = "threw"] /\ UNCHANGED <<queues, value>>
       ELSE IF pushQueue # <<>>
       THEN /\ nexts' = [nexts EXCEPT ![n] = "value"]
            /\ value' = [value EXCEPT ![n] = Head(pushQueue)]
            /\ pushQueue' = Tail(pushQueue) /\ UNCHANGED pullQueue
       ELSE IF listening
       THEN /\ nexts' = [nexts EXCEPT ![n] = "pull"]
            /\ pullQueue' = Append(pullQueue, n) /\ UNCHANGED <<pushQueue, value>>
       ELSE nexts' = [nexts EXCEPT ![n] = "done"] /\ UNCHANGED <<queues, value>>

ReturnGoesOn ==
    /\ Teardown(subscriptionIds)
    /\ finished' = finished + 1
    /\ UNCHANGED value

\* unsubscribeAll() waits for the subscriptions in flight.
\* Faulty variant: return() does not wait for subscribePromise.
MayGoOn_Unawaited == subscribePromise \in {"ok", "error"} \/ (micro # <<>> /\ Head(micro) = 0)
MayGoOn == subscribePromise \in {"ok", "error"}

GoOn ==
    /\ micro # <<>> /\ MayGoOn
    /\ IF Head(micro) = 0 THEN ReturnGoesOn ELSE NextGoesOn(Head(micro))
    /\ micro' = Tail(micro)
    /\ UNCHANGED <<handed, subscribePromise, idleTimer, arrived, returns>>

-----------------------------------------------------------------------------
Next == \/ Construct
        \/ \E t \in Trigs : PushValue(t) \/ EngineAnswers(t)
        \/ SubscribeAllDone
        \/ \E n \in NextIds : CallNext(n)
        \/ CallReturn
        \/ IdleFires
        \/ GoOn

Spec == Init /\ [][Next]_vars

\* The engine answers every subscribe() (RedisPubSub!SubscribeSettles), the
\* event loop runs microtasks and timers; the consumer and Redis owe nothing.
Progress == \/ Construct \/ SubscribeAllDone \/ GoOn \/ IdleFires
            \/ \E t \in Trigs : EngineAnswers(t)

FairSpec == Spec /\ WF_vars(Progress)

-----------------------------------------------------------------------------
TypeOK ==
    /\ Engine!TypeOK
    /\ listening \in BOOLEAN /\ subscriptionIds \subseteq Trigs
    /\ pullQueue \in Seq(NextIds)
    /\ pushQueue \in Seq(1 .. MaxMessages) /\ Len(pushQueue) <= MaxQueue
    /\ subscribePromise \in {"new", "pending", "ok", "error"}
    /\ idleTimer \in BOOLEAN
    /\ micro \in Seq(0 .. MaxNext)
    /\ nexts \in [NextIds -> NextStates] /\ value \in [NextIds -> 0 .. MaxMessages]
    /\ arrived \in 0 .. MaxMessages /\ returns \in 0 .. MaxReturn /\ finished \in Nat

\* The consumer sees the messages in order and without a gap it did not earn:
\* what its next() calls yield increases, nothing follows a done or an error, and
\* the buffer always holds the most recent messages, so that one that keeps up
\* loses nothing (comment 27-29).
DeliveredInOrder ==
    /\ \A j, k \in NextIds : j < k /\ nexts[k] = "value" =>
         nexts[j] \notin {"done", "threw"} /\ (nexts[j] = "value" => value[j] < value[k])
    /\ listening => \A k \in DOMAIN pushQueue : pushQueue[k] = arrived - Len(pushQueue) + k

\* No engine subscription outlives the iterator: after any return() or throw()
\* is through, or subscribing failed, none is open or still being opened,
\* although they may have been called while subscribing (comment 213-217).
NothingLeaked ==
    finished > 0 \/ subscribePromise = "error" =>
        \A t \in Trigs : sub[t] \in {"closed", "failed"}

\* The iterator uses the engine as PubSubEngine allows: it subscribes each
\* trigger once and unsubscribes only what is active, once.
EngineSpec == Engine!Spec

\* A next() that waits is answered once the iterator is returned (comment
\* 233-235), and with an idle timeout an abandoned iterator gives its
\* subscriptions back without anybody calling return() (46-50).
IterationSettles ==
    /\ \A n \in NextIds :
         nexts[n] \in {"await", "pull"} /\ returns > 0 ~> nexts[n] \in {"value", "done", "threw"}
    /\ IdleTimeout /\ subscribePromise = "pending" ~> (\A t \in Trigs : sub[t] \in {"closed", "failed"})
=============================================================================
