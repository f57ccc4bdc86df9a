--------------------------- MODULE AmqpConsumers ----------------------------
(***************************************************************************)
(* packages/rabbitmq: how the consumers of one AmqpConnection come to be   *)
(* and stay.  The explorer registers the handlers of an application one    *)
(* after the other; amqp-connection-manager keeps each set-up function and *)
(* runs all of them again, at the same time, on every new channel.         *)
(***************************************************************************)
EXTENDS Naturals, Sequences, FiniteSets, SequencesExt

CONSTANTS
    Handlers,       \* the handler methods
    Kind,           \* of each: "subscribe", "batch" or "rpc"
    Queue,          \* the queue of each; "rpc" handlers may share one
    FixedTag,       \* handlers whose queue is configured with a consumerTag
    Differing,      \* rpc handlers whose exchange, channel or consumer options
                    \* are not those of the others on the queue
    Apps,           \* applications: the handlers each registers, in order, those
                    \* an earlier run has bound already, the messages it sends, in
                    \* order; bounds: which of them may go wrong once, and how
                    \* often consumers are cancelled
    MaxChannels     \* bound: channels opened, the first one included

ASSUME ConsumersAssumption ==
    /\ Kind \in [Handlers -> {"subscribe", "batch", "rpc"}]
    /\ FixedTag \subseteq Handlers /\ FixedTag \cap Nat = {} /\ "init" \notin Handlers
    /\ \A a \in Apps : /\ a.handlers \in Seq(Handlers) /\ a.cancels \in Nat
                       /\ a.bound \subseteq ToSet(a.handlers)
                       /\ \A i, j \in DOMAIN a.handlers : i # j =>
                              /\ a.handlers[i] # a.handlers[j]
                              /\ Queue[a.handlers[i]] = Queue[a.handlers[j]]
                                    => Kind[a.handlers[i]] = "rpc"
                       \* an earlier run has bound what agreed with the first on its queue
                       /\ \A h \in a.bound, i \in DOMAIN a.handlers :
                              (/\ Queue[a.handlers[i]] = Queue[h]
                               /\ \A j \in 1 .. i - 1 : Queue[a.handlers[j]] # Queue[h])
                                    => (a.handlers[i] \in Differing) = (h \in Differing)

VARIABLES
    app,            \* the application that runs
    bootstrapped,   \* RabbitMQModule.bootstrappedConnections has this one
    todo,           \* the handlers the explorer has yet to register
    init,           \* the promise of init(): "waiting", "ok", "failed"; "closed" after close()
    up, opened,     \* the live channel, 0 for none; how many there have been
    direct,         \* the channel whose direct reply queue is consumed
    added,          \* the handlers whose set-up function the manager keeps
    outcome,        \* of createSubscriber(), createBatchSubscriber(), createRpc()
    setups,         \* the set-up functions under way
    bound,          \* the handlers whose queue the broker has and binds to their keys
    consumers,      \* the consumers of the broker
    registry,       \* AmqpConnection._consumers
    rpcHandlers,    \* _rpcHandlersByQueue, over all queues
    tags,           \* consumer tags the broker has made up so far
    cancelling,     \* cancelConsumer() calls that await the broker
    cancels

consumerVars == <<app, bootstrapped, todo, init, up, opened, direct, added, outcome, setups, bound,
                  consumers, registry, rpcHandlers, tags, cancelling, cancels>>
boot == <<app, bootstrapped, todo, init, opened, cancels>>

NoTag == 0
TagOf(h) == IF h \in FixedTag THEN h ELSE tags + 1

Setup(who, ch, resumes) == [who |-> who, ch |-> ch, at |-> "queue", resumes |-> resumes]

\* setupManagedChannel() has the channel keep the connection's own set-up function;
\* the handlers add theirs.
KeptSetups == added \cup {"init"}
OnChannel(ch) == {Setup(who, ch, NoTag) : who \in KeptSetups}

ConsumersInit ==
    /\ app \in Apps /\ todo = app.handlers /\ bootstrapped = FALSE
    /\ init = "waiting"
    /\ up = 0 /\ opened = 0 /\ direct = 0
    /\ added = {} /\ outcome = [h \in Handlers |-> "none"]
    /\ setups = {} /\ bound = app.bound /\ consumers = {} /\ registry = {}
    /\ rpcHandlers = <<>>
    /\ tags = 0 /\ cancelling = {} /\ cancels = 0

Settle(who, result) ==
    outcome' = IF who \in Handlers /\ outcome[who] = "pending"
               THEN [outcome EXCEPT ![who] = result] ELSE outcome

-----------------------------------------------------------------------------
(* The managed channel *)

\* A new channel: every set-up function that was ever added is run on it.
OpenChannel ==
    /\ up = 0 /\ opened < MaxChannels /\ init # "closed"
    /\ opened' = opened + 1 /\ up' = opened'
    /\ setups' = setups \cup OnChannel(up')
    /\ UNCHANGED <<app, bootstrapped, todo, init, direct, added, outcome, bound, consumers, registry,
                   rpcHandlers, tags, cancelling, cancels>>

\* The channel is gone, and with it its consumers; _consumers keeps its entries.
ChannelGone ==
    /\ up' = 0 /\ direct' = 0 /\ consumers' = {}
    /\ UNCHANGED <<added, bound, registry, rpcHandlers, tags, cancelling>>

LoseChannel == up # 0 /\ ChannelGone /\ UNCHANGED <<boot, outcome, setups>>

InitTimesOut ==
    /\ init = "waiting" /\ init' = "failed"
    /\ UNCHANGED <<app, bootstrapped, todo, opened, cancels, up, direct, added, outcome, setups, bound,
                   consumers, registry, rpcHandlers, tags, cancelling>>

-----------------------------------------------------------------------------
(* Registration *)

\* onModuleInit() of an explorer.  Its second call finds the connection marked.
Bootstrap ==
    /\ init = "ok" /\ ~bootstrapped /\ bootstrapped' = TRUE
    /\ UNCHANGED <<app, todo, init, opened, cancels, up, direct, added, outcome, setups, bound,
                   consumers, registry, rpcHandlers, tags, cancelling>>

\* validateSharedQueueOptions(): the options of the queue's first handler count.
Conflicts(h) == /\ Kind[h] = "rpc"
                /\ \E k \in DOMAIN rpcHandlers :
                      /\ Queue[rpcHandlers[k]] = Queue[h]
                      /\ (rpcHandlers[k] \in Differing) # (h \in Differing)

\* The call rejects, which the explorer logs: no trace of the handler is left.
RegisterConflicting ==
    /\ bootstrapped /\ todo # <<>> /\ \A h \in Handlers : outcome[h] # "pending"
    /\ Conflicts(Head(todo)) /\ todo' = Tail(todo)
    /\ outcome' = [outcome EXCEPT ![Head(todo)] = "failed"]
    /\ UNCHANGED <<app, bootstrapped, init, opened, cancels, up, direct, added, setups, bound,
                   consumers, registry, rpcHandlers, tags, cancelling>>

\* The next handler, once the previous one is there or has failed.
RegisterNext ==
    /\ bootstrapped /\ todo # <<>> /\ \A h \in Handlers : outcome[h] # "pending"
    /\ ~Conflicts(Head(todo)) /\ todo' = Tail(todo)
    /\ LET h == Head(todo)
       IN  /\ added' = added \cup {h}
           /\ outcome' = [outcome EXCEPT ![h] = "pending"]
           /\ rpcHandlers' = IF Kind[h] = "rpc" THEN Append(rpcHandlers, h) ELSE rpcHandlers
           /\ setups' = IF up # 0 THEN setups \cup {Setup(h, up, NoTag)} ELSE setups
    /\ UNCHANGED <<app, bootstrapped, init, opened, cancels, up, direct, bound, consumers, registry,
                   tags, cancelling>>

\* The first handler of a shared RPC queue consumes it for all of them.
Follows(h) == /\ Kind[h] = "rpc"
              /\ \E k \in DOMAIN rpcHandlers :
                    /\ Queue[rpcHandlers[k]] = Queue[h]
                    /\ \A j \in DOMAIN rpcHandlers : rpcHandlers[j] = h => k < j

\* The connection's own set-up: exchanges, bindings and queues are there, the
\* direct reply queue is consumed and init() resolves.
ChannelInitialised(s) ==
    /\ s \in setups /\ s.ch = up /\ s.who = "init"
    /\ direct' = up /\ init' = (IF init = "waiting" THEN "ok" ELSE init)
    /\ setups' = setups \ {s}
    /\ UNCHANGED <<app, bootstrapped, todo, opened, cancels, up, added, outcome, bound, consumers,
                   registry, rpcHandlers, tags, cancelling>>

\* setupRpcChannel() sets the queue up for all that share it.
Covers(h) == {h} \cup IF Kind[h] = "rpc" /\ ~Follows(h)
                      THEN {g \in ToSet(rpcHandlers) : Queue[g] = Queue[h]} ELSE {}

\* setupQueue() is through; channel.consume() comes next, unless another
\* handler consumes the queue already.
QueueReady(s) ==
    /\ s \in setups /\ s.ch = up /\ s.at = "queue" /\ s.who # "init"
    /\ bound' = bound \cup Covers(s.who)
    /\ \/ Follows(s.who) /\ setups' = setups \ {s} /\ Settle(s.who, "ok")
       \/ /\ ~Follows(s.who) /\ UNCHANGED outcome
          /\ setups' = (setups \ {s}) \cup {[s EXCEPT !.at = "consume"]}
    /\ UNCHANGED <<boot, up, direct, added, consumers, registry, rpcHandlers, tags, cancelling>>

Entry(who, ch, tag) == [who |-> who, ch |-> ch, tag |-> tag]

\* registerConsumerForQueue(): the handler's earlier entries go.
\* Faulty variant: the tag alone tells entries apart.
Stale_SameTag(c) == {e \in registry : e.tag = c.tag}
Stale(c) == {e \in registry : e.who = c.who \/ e.tag = c.tag}

\* The broker has answered channel.consume(); resumeConsumer() drops the entry
\* of the tag it was called with after all that.
Consuming(s) ==
    /\ s \in setups /\ s.ch = up /\ s.at = "consume"
    /\ setups' = setups \ {s}
    /\ LET c == Entry(s.who, up, TagOf(s.who))
       IN  /\ consumers' = consumers \cup {c}
           /\ registry' = {e \in (registry \ Stale(c)) \cup {c} : e.tag # s.resumes}
    /\ tags' = IF s.who \in FixedTag THEN tags ELSE tags + 1
    /\ Settle(s.who, "ok")
    /\ UNCHANGED <<boot, up, direct, added, bound, rpcHandlers, cancelling>>

\* The broker refuses, which closes the channel under everything else on it ...
SetupRefused(s) ==
    /\ s \in setups /\ s.ch = up
    /\ setups' = setups \ {s} /\ Settle(s.who, "failed")
    /\ ChannelGone /\ UNCHANGED boot

\* ... and set-up functions that still use that channel fail.
SetupStranded(s) ==
    /\ s \in setups /\ s.ch # up
    /\ setups' = setups \ {s} /\ Settle(s.who, "failed")
    /\ UNCHANGED <<boot, up, direct, added, bound, consumers, registry, rpcHandlers, tags, cancelling>>

-----------------------------------------------------------------------------
(* cancelConsumer() and resumeConsumer() *)

CancelConsumer(e) ==
    /\ e \in registry /\ e \notin cancelling /\ cancels < app.cancels
    /\ cancelling' = cancelling \cup {e} /\ cancels' = cancels + 1
    /\ UNCHANGED <<app, bootstrapped, todo, init, opened, up, direct, added, outcome, setups, bound,
                   consumers, registry, rpcHandlers, tags>>

\* The tag is forgotten, whatever the broker knows by that tag; on a channel
\* that is gone the call fails before that.
CancelDone(e) ==
    /\ e \in cancelling /\ cancelling' = cancelling \ {e}
    /\ \/ /\ e.ch = up
          /\ consumers' = {c \in consumers : c.tag # e.tag}
          /\ registry' = {x \in registry : x.tag # e.tag}
       \/ e.ch # up /\ UNCHANGED <<consumers, registry>>
    /\ UNCHANGED <<boot, up, direct, added, outcome, setups, bound, rpcHandlers, tags>>

\* The broker ends a consumer: it delivers null, which every callback ignores.
BrokerCancels(c) ==
    /\ c \in consumers /\ cancels < app.cancels
    /\ consumers' = consumers \ {c} /\ cancels' = cancels + 1
    /\ UNCHANGED <<app, bootstrapped, todo, init, opened, up, direct, added, outcome, setups, bound,
                   registry, rpcHandlers, tags, cancelling>>

\* An application resumes, once, what the broker has ended.
ResumeConsumer(e) ==
    /\ e \in registry /\ \A c \in consumers : c.who # e.who
    /\ e.ch = up /\ \A s \in setups : s.who # e.who
    /\ setups' = setups \cup {Setup(e.who, e.ch, e.tag)}
    /\ UNCHANGED <<boot, up, direct, added, outcome, bound, consumers, registry, rpcHandlers, tags,
                   cancelling>>

ConsumerStep ==
    \/ OpenChannel \/ InitTimesOut \/ Bootstrap \/ RegisterNext \/ RegisterConflicting
    \/ \E s \in setups : ChannelInitialised(s) \/ QueueReady(s) \/ Consuming(s) \/ SetupStranded(s)
    \/ \E e \in registry : CancelConsumer(e) \/ ResumeConsumer(e)
    \/ \E e \in cancelling : CancelDone(e)
    \/ \E c \in consumers : BrokerCancels(c)

-----------------------------------------------------------------------------
\* However often the connection is lost (comment 1168-1174): no handler has two
\* entries, cancelConsumer() can reach every consumer that receives messages, a
\* shared RPC queue is consumed by one of its handlers only and serves only
\* handlers whose options agree, and once the set-up
\* functions are through, every handler nobody cancelled is consumed again.  A
\* resumed consumer with a configured tag is the exception: its entry is dropped.
RegistryInStep ==
    /\ \A e, f \in registry : e.who = f.who => e = f
    /\ \A c \in consumers : c.who \notin FixedTag => c \in registry
    /\ \A h, g \in added : Kind[h] = "rpc" /\ Queue[h] = Queue[g] => (h \in Differing) = (g \in Differing)
    /\ \A c, d \in consumers : Queue[c.who] = Queue[d.who] => c = d
    /\ up # 0 /\ setups = {} /\ cancels = 0 =>
          \A h \in added : Follows(h) \/ \E c \in consumers : c.who = h
=============================================================================
