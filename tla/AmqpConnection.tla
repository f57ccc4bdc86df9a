--------------------------- MODULE AmqpConnection ---------------------------
(***************************************************************************)
(* packages/rabbitmq: the messages of one AmqpConnection, on top of its    *)
(* consumers.  Single messages and batches are acknowledged on the channel *)
(* they came on, which may be gone by then; request() waits for an answer  *)
(* on the direct reply queue; close() waits for what is being processed.   *)
(* A routing key is a sequence of words, a pattern one that may hold "*"   *)
(* and "#": the broker routes by bindings before the connection compares   *)
(* keys once more, with an algorithm of its own, to find the RPC handler.  *)
(***************************************************************************)
EXTENDS AmqpConsumers

CONSTANTS
    Words,          \* of which routing keys are made
    MaxWords,       \* bound: words per key or pattern that are compared
    Requests,       \* messages sent with request()
    Events,         \* messages sent with publish()
    To,             \* the queue whose exchange each is sent to
    Key,            \* the routing key of each
    Pattern,        \* the routing keys of each handler; no bindings beside these
    BatchSize,      \* batchOptions.size
    Prefetch,       \* prefetchCount
    NoAnswer

Messages == Requests \cup Events

ASSUME RoutingAssumption == Words \cap {"*", "#"} = {} /\ MaxWords \in Nat

Keys == UNION {[1 .. n -> Words] : n \in 1 .. MaxWords}
Patterns == UNION {[1 .. n -> Words \cup {"*", "#"}] : n \in 1 .. MaxWords}

ASSUME DeliveryAssumption ==
    /\ Requests \cap Events = {} /\ NoAnswer \notin Requests
    /\ To \in [Messages -> {Queue[h] : h \in Handlers}] /\ Key \in [Messages -> Keys]
    /\ Pattern \in [Handlers -> SUBSET Patterns]
    /\ \A a \in Apps : a.sends \in Seq(Messages) /\ a.troubled \subseteq Messages
    /\ BatchSize \in Nat \ {0, 1} /\ Prefetch \in Nat \ {0}

VARIABLES
    outbox,         \* messages given to publish(), not confirmed
    ready,          \* messages the queues hold
    unacked,        \* deliveries the broker waits to hear about
    work,           \* subscribe and rpc deliveries being processed
    buffers,        \* per batch consumer that has one: batchMsgs, with its timer
    batches,        \* the batches a handler works on
    stuck,          \* deliveries whose promise will never settle
    replies,        \* replies on their way to the direct reply queue
    gone,           \* messages the broker was told to forget
    req, answer,    \* of every request() call, what its caller sees
    replied,        \* requests whose reply is there, or in any case no timer
    served,         \* how often a handler has been through with a message
    closing,        \* close(): "no", "waiting", "done" or "failed"
    awaited         \* the deliveries close() waits for

messageVars == <<outbox, ready, unacked, work, buffers, batches, stuck, replies, gone, req, answer,
                 replied, served, closing, awaited>>
requestVars == <<req, answer, replied>>
vars == <<consumerVars, messageVars>>

Init ==
    /\ ConsumersInit
    /\ outbox = <<>> /\ ready = {} /\ unacked = {} /\ work = {} /\ buffers = {} /\ batches = {}
    /\ stuck = {} /\ replies = {} /\ gone = {}
    /\ req = [m \in Messages |-> "idle"] /\ answer = [r \in Requests |-> NoAnswer]
    /\ replied = {}
    /\ served = [m \in Messages |-> 0]
    /\ closing = "no" /\ awaited = {}

-----------------------------------------------------------------------------
\* What a topic exchange does with a binding: the words of the pattern take those of
\* the key in turn, "*" any word, "#" any number of them; ends[j] of the first j.
Binds(key, pattern) ==
    \E ends \in [0 .. Len(pattern) -> 0 .. Len(key)] :
        /\ ends[0] = 0 /\ ends[Len(pattern)] = Len(key)
        /\ \A j \in DOMAIN pattern :
              IF pattern[j] = "#" THEN ends[j - 1] <= ends[j]
              ELSE ends[j] = ends[j - 1] + 1 /\ pattern[j] \in {"*", key[ends[j]]}

\* matchesRoutingKey(), one pattern: word by word, up to the first "#".
Differs(key, pattern, i) == pattern[i] # "*" /\ ~(i \in DOMAIN key /\ key[i] = pattern[i])
Matches(key, pattern) ==
    \/ \E i \in DOMAIN pattern : /\ pattern[i] = "#"
                                 /\ \A j \in 1 .. i - 1 : ~Differs(key, pattern, j)
    \/ Len(key) = Len(pattern) /\ \A i \in DOMAIN pattern : ~Differs(key, pattern, i)

\* findRpcHandler(), of the patterns of several handlers, by their places: the first
\* that names the key, or else the first that matches it.
Naming(key, patterns) == {k \in DOMAIN patterns : key \in patterns[k]}
Matching(key, patterns) == {k \in DOMAIN patterns : \E p \in patterns[k] : Matches(key, p)}
Chosen(key, patterns) ==
    LET found == IF Naming(key, patterns) # {} THEN Naming(key, patterns) ELSE Matching(key, patterns)
    IN  {k \in found : \A j \in found : k <= j}

-----------------------------------------------------------------------------
Message(m, via) == [id |-> m, via |-> via]
Ran(S) == served' = [m \in Messages |-> IF \E d \in S : d.msg.id = m THEN served[m] + 1 ELSE served[m]]
InBatch(b) == {b.msgs[k] : k \in DOMAIN b.msgs}

-----------------------------------------------------------------------------
(* publish() and request() *)

\* The channel wrapper keeps what it could not send yet.
Publish(k) ==
    LET m == app.sends[k] IN
    /\ req[m] = "idle" /\ \A j \in 1 .. k - 1 : req[app.sends[j]] # "idle"
    /\ init = "ok" /\ closing # "done"
    /\ req' = [req EXCEPT ![m] = IF m \in Requests THEN "waiting" ELSE "sent"]
    /\ outbox' = Append(outbox, [id |-> m, tried |-> 0])
    /\ UNCHANGED <<consumerVars, ready, unacked, work, buffers, batches, stuck, replies, gone, answer,
                   replied, served, closing, awaited>>

\* A binding of its queue lets it through.
Routed(m) == \E h \in bound : Queue[h] = To[m] /\ \E p \in Pattern[h] : Binds(Key[m], p)

\* Sent, once the set-up functions are done; sent again on the next channel if
\* this one dies before the broker confirms.  Nobody is told of a message that
\* no queue takes.
Unsent == {k \in DOMAIN outbox : outbox[k].tried # up}

Transmit(k, confirmed) ==
    /\ k \in Unsent /\ \A j \in Unsent : k <= j
    /\ up # 0 /\ direct = up
    /\ ~confirmed => opened < MaxChannels /\ outbox[k].id \in app.troubled
    /\ outbox' = IF confirmed THEN RemoveAt(outbox, k) ELSE [outbox EXCEPT ![k].tried = up]
    /\ LET m == outbox[k].id
       IN  IF Routed(m)
           THEN /\ ready' = ready \cup {Message(m, IF m \in Requests THEN up ELSE 0)}
                /\ UNCHANGED gone
           ELSE gone' = gone \cup {m} /\ UNCHANGED ready
    /\ UNCHANGED <<consumerVars, unacked, work, buffers, batches, stuck, replies, requestVars, served,
                   closing, awaited>>

Unconfirmed == {outbox[k].id : k \in DOMAIN outbox}

\* The requests whose filter lets a reply through.
\* Faulty variant: without the correlation id.
Correlated_Any(id) == {r \in Requests : req[r] = "waiting" /\ r \notin replied}
Correlated(id) == {r \in Requests : req[r] = "waiting" /\ r \notin replied /\ r = id}

\* messageSubject.next(): the first reply of each request wins the race.
ReplyArrives(p) ==
    /\ p \in replies /\ replies' = replies \ {p}
    /\ replied' = replied \cup Correlated(p.id)
    /\ answer' = [r \in Requests |-> IF r \in Correlated(p.id) THEN p.id ELSE answer[r]]
    /\ UNCHANGED <<consumerVars, outbox, ready, unacked, work, buffers, batches, stuck, gone, req,
                   served, closing, awaited>>

\* Promise.all(): the reply and the confirmation are both there.
RequestDone(r) ==
    /\ req[r] = "waiting" /\ r \in replied \ Unconfirmed
    /\ req' = [req EXCEPT ![r] = "answered"]
    /\ UNCHANGED <<consumerVars, outbox, ready, unacked, work, buffers, batches, stuck, replies, gone,
                   answer, replied, served, closing, awaited>>

RequestTimesOut(r) ==
    /\ r \in Requests /\ req[r] = "waiting" /\ r \notin replied
    /\ req' = [req EXCEPT ![r] = "failed"]
    /\ UNCHANGED <<consumerVars, outbox, ready, unacked, work, buffers, batches, stuck, replies, gone,
                   answer, replied, served, closing, awaited>>

-----------------------------------------------------------------------------
(* Deliveries *)

\* findRpcHandler(): among the handlers registered by now.
Sharing(q) == {k \in DOMAIN rpcHandlers : Queue[rpcHandlers[k]] = q}
HandlerOf(m) ==
    {rpcHandlers[k] : k \in Chosen(Key[m], [k \in Sharing(To[m]) |-> Pattern[rpcHandlers[k]]])}
Handled(c, m) == Kind[c.who] = "rpc" => HandlerOf(m.id) # {}

Deliver(c, m) ==
    /\ c \in consumers /\ m \in ready /\ To[m.id] = Queue[c.who]
    /\ Cardinality({d \in unacked : d.by = c}) < Prefetch
    /\ ready' = ready \ {m}
    /\ LET d == [msg |-> m, by |-> c]
           mine == {b \in buffers : b.by = c}
       IN  \/ /\ ~Handled(c, m)             \* nack(msg, false, false)
              /\ gone' = gone \cup {m.id}
              /\ UNCHANGED <<unacked, work, buffers, batches>>
           \/ /\ Handled(c, m) /\ Kind[c.who] # "batch"
              /\ work' = work \cup {[d |-> d, at |-> "handler"]} /\ unacked' = unacked \cup {d}
              /\ UNCHANGED <<gone, buffers, batches>>
           \/ /\ Kind[c.who] = "batch" /\ mine = {}
              /\ buffers' = buffers \cup {[by |-> c, msgs |-> <<d>>, full |-> FALSE]}
              /\ unacked' = unacked \cup {d} /\ UNCHANGED <<gone, work, batches>>
           \/ \E b \in mine :
                 /\ unacked' = unacked \cup {d}
                 /\ LET more == Append(b.msgs, d)
                    IN  IF Len(more) = BatchSize
                        THEN /\ buffers' = buffers \ {b}
                             /\ batches' = batches \cup {[b EXCEPT !.msgs = more, !.full = TRUE]}
                        ELSE /\ buffers' = (buffers \ {b}) \cup {[b EXCEPT !.msgs = more]}
                             /\ UNCHANGED batches
                 /\ UNCHANGED <<gone, work>>
    /\ UNCHANGED <<consumerVars, outbox, stuck, replies, requestVars, served, closing, awaited>>

\* A processing promise resolves or rejects; close() gives up on a rejection.
Resolved(S) == awaited' = awaited \ S /\ UNCHANGED closing
Rejected(S) == /\ awaited' = awaited \ S
               /\ closing' = IF awaited \cap S # {} THEN "failed" ELSE closing

\* What the code tells the broker of deliveries on a live channel.
\* Faulty variant: of a batch, only the last message is decided.
Decided_Last(msgs) == {msgs[Len(msgs)]}
Decided(msgs) == {msgs[k] : k \in DOMAIN msgs}

Tell(msgs, verdict) ==
    /\ unacked' = unacked \ Decided(msgs)
    /\ ready' = IF verdict = "requeue" THEN ready \cup {d.msg : d \in Decided(msgs)} ELSE ready
    /\ gone' = IF verdict = "requeue" THEN gone ELSE gone \cup {d.msg.id : d \in Decided(msgs)}

\* The handler is through: void, a Nack, or an error, for which the configured
\* behaviour decides.  What a subscriber answers is dropped; an rpc handler's
\* answer is published first.
May(verdict, S) == verdict = "requeue" => \E d \in S : d.msg.id \in app.troubled /\ served[d.msg.id] = 0

HandlerDone(w, verdict) ==
    /\ w \in work /\ w.at = "handler" /\ May(verdict, {w.d})
    /\ Ran({w.d})
    /\ \/ /\ verdict = "ack" /\ w.d.msg.id \in Requests
          /\ work' = (work \ {w}) \cup {[w EXCEPT !.at = "reply"]}
          /\ UNCHANGED <<unacked, ready, gone, awaited, closing>>
       \/ /\ ~(verdict = "ack" /\ w.d.msg.id \in Requests) /\ w.d.by.ch = up
          /\ Tell(<<w.d>>, verdict) /\ work' = work \ {w} /\ Resolved({w.d})
       \/ /\ ~(verdict = "ack" /\ w.d.msg.id \in Requests) /\ w.d.by.ch # up
          /\ work' = work \ {w} /\ Rejected({w.d})  \* ack and nack throw
          /\ UNCHANGED <<unacked, ready, gone>>
    /\ UNCHANGED <<consumerVars, outbox, buffers, batches, stuck, replies, requestVars>>

\* publish("", replyTo): only the channel that asked can still hear it.
ReplySent(w) ==
    /\ w \in work /\ w.at = "reply" /\ up # 0
    /\ work' = (work \ {w}) \cup {[w EXCEPT !.at = "ack"]}
    /\ replies' = IF w.d.msg.via = direct THEN replies \cup {w.d.msg} ELSE replies
    /\ UNCHANGED <<consumerVars, outbox, ready, unacked, buffers, batches, stuck, gone, requestVars,
                   served, closing, awaited>>

Acknowledge(w) ==
    /\ w \in work /\ w.at = "ack" /\ work' = work \ {w}
    /\ \/ w.d.by.ch = up /\ Tell(<<w.d>>, "ack") /\ Resolved({w.d})
       \/ w.d.by.ch # up /\ Rejected({w.d}) /\ UNCHANGED <<unacked, ready, gone>>
    /\ UNCHANGED <<consumerVars, outbox, buffers, batches, stuck, replies, requestVars, served>>

\* batchTimer fires.
\* Faulty variant: the timer is not set again for the batch after the first.
TimerSet_Once(b) == \A d \in InBatch(b) : \A m \in Messages : served[m] = 0
TimerSet(b) == TRUE

BatchDue(b) ==
    /\ b \in buffers /\ TimerSet(b)
    /\ buffers' = buffers \ {b} /\ batches' = batches \cup {b}
    /\ UNCHANGED <<consumerVars, outbox, ready, unacked, work, stuck, replies, gone, requestVars, served,
                   closing, awaited>>

\* handleBatchedMessages(): on a channel that is gone the error handler throws
\* as well, and resolve() of the first message is never called.
BatchDone(b, verdict) ==
    /\ b \in batches /\ May(verdict, InBatch(b))
    /\ batches' = batches \ {b}
    /\ Ran(InBatch(b))
    /\ LET last == IF b.full THEN {b.msgs[Len(b.msgs)]} ELSE {}
       IN  \/ /\ b.by.ch = up
              /\ Tell(b.msgs, verdict) /\ Resolved({b.msgs[1]} \cup last) /\ UNCHANGED stuck
           \/ /\ b.by.ch # up
              /\ stuck' = stuck \cup {b.msgs[1]} /\ Rejected(last)
              /\ UNCHANGED <<unacked, ready, gone>>
    /\ UNCHANGED <<consumerVars, outbox, work, buffers, replies, requestVars>>

-----------------------------------------------------------------------------
(* The channel goes, and close() *)

\* What was not acknowledged goes back to its queue.
Returned == {d.msg : d \in unacked}

Redelivered ==
    /\ ready' = ready \cup Returned /\ unacked' = {}
    /\ replies' = {}
    /\ UNCHANGED <<work, buffers, batches, stuck, gone, answer, replied, served>>

ChannelLost == /\ LoseChannel \/ \E s \in setups : SetupRefused(s)
               /\ Redelivered /\ UNCHANGED <<outbox, req, closing, awaited>>

\* Everything outstandingMessageProcessing holds.
Outstanding ==
    {w.d : w \in work} \cup {b.msgs[1] : b \in buffers \cup batches} \cup stuck
        \cup {b.msgs[Len(b.msgs)] : b \in {x \in batches : x.full}}

\* onApplicationShutdown() of the explorer.  cancelAll() cancels nothing: the
\* consumers were not started through the wrapper.
Close ==
    /\ closing = "no" /\ init = "ok" /\ todo = <<>> /\ \A h \in Handlers : outcome[h] # "pending"
    /\ closing' = "waiting" /\ awaited' = Outstanding
    /\ UNCHANGED <<consumerVars, outbox, ready, unacked, work, buffers, batches, stuck, replies, gone,
                   requestVars, served>>

\* The channels and the connection are closed, messages that were not sent and
\* requests without a reply fail, the maps are emptied, the guard is reset.
CloseDone ==
    /\ closing = "waiting" /\ awaited = {} /\ closing' = "done"
    /\ up' = 0 /\ direct' = 0 /\ consumers' = {}
    /\ registry' = {} /\ rpcHandlers' = <<>> /\ bootstrapped' = FALSE /\ init' = "closed"
    /\ Redelivered
    /\ req' = [m \in Messages |-> IF req[m] = "waiting" /\ (m \notin replied \/ m \in Unconfirmed)
                                  THEN "failed" ELSE req[m]]
    /\ outbox' = <<>>
    /\ UNCHANGED <<app, todo, opened, added, outcome, setups, bound, tags, cancelling, cancels, awaited>>

-----------------------------------------------------------------------------
Verdicts == {"ack", "requeue", "discard"}

Processing ==
    \/ \E w \in work : ReplySent(w) \/ Acknowledge(w) \/ \E v \in Verdicts : HandlerDone(w, v)
    \/ \E b \in buffers : BatchDue(b)
    \/ \E b \in batches, v \in Verdicts : BatchDone(b, v)
    \/ CloseDone

Next ==
    \/ ConsumerStep /\ UNCHANGED messageVars
    \/ Processing \/ ChannelLost \/ Close
    \/ \E k \in DOMAIN app.sends : Publish(k)
    \/ \E k \in DOMAIN outbox, confirmed \in BOOLEAN : Transmit(k, confirmed)
    \/ \E p \in replies : ReplyArrives(p)
    \/ \E r \in Requests : RequestDone(r) \/ RequestTimesOut(r)
    \/ \E c \in consumers, m \in ready : Deliver(c, m)

Spec == Init /\ [][Next]_vars

\* Handlers settle, batch timers fire, confirms arrive.
FairSpec == Spec /\ WF_vars(Processing)

-----------------------------------------------------------------------------
\* "#" only ends the pattern and stands for what the key has beyond it.
Plain(key, pattern) == /\ \A i \in DOMAIN pattern : pattern[i] = "#" => i = Len(pattern)
                       /\ Len(key) + 1 >= Len(pattern)

\* What a binding lets through, the handler of that binding matches.  And it matches
\* nothing else, as long as the pattern is a plain one.
MatchesRouted ==
    \A k \in Keys, p \in Patterns : /\ Binds(k, p) => Matches(k, p)
                                   /\ Plain(k, p) /\ Matches(k, p) => Binds(k, p)

\* By other patterns the connection matches more than the broker routes.
PlainBindings == \A m \in Messages, h \in Handlers : \A p \in Pattern[h] : Plain(Key[m], p)

\* Nothing the broker was given is lost before a handler, or the handler's own
\* verdict, was through with it; and what is not acknowledged on the live
\* channel is being worked on or waits for its batch, so that no part of the
\* prefetch window is lost for ever.  Once the handlers are registered no message
\* that is routed to one of them is refused, whatever the broker kept of an earlier
\* run, and it gets to a handler whose keys let it through, the one that names its
\* key if there is one.
MessagesAccounted ==
    /\ \A m \in Messages : req[m] # "idle" /\ m \notin gone /\ closing # "done" =>
          m \in Unconfirmed \/ \E x \in ready \cup {d.msg : d \in unacked} : x.id = m
    /\ unacked \subseteq {w.d : w \in work} \cup UNION {InBatch(b) : b \in buffers \cup batches}
    /\ \A b \in buffers \cup batches : Len(b.msgs) <= BatchSize
    /\ todo = <<>> => \A c \in consumers, x \in ready : To[x.id] = Queue[c.who] => Handled(c, x)
    /\ MatchesRouted
    /\ \A m \in Messages : \A h \in HandlerOf(m) : \E p \in Pattern[h] :
          Binds(Key[m], p) /\ (p = Key[m] \/ \A k \in Sharing(To[m]) : Key[m] \notin Pattern[rpcHandlers[k]])

Promise == INSTANCE RequestReply WITH
    Calls <- Requests, req <- [r \in Requests |-> req[r]],
    answer <- [r \in Requests |-> IF req[r] = "answered" THEN answer[r] ELSE NoAnswer],
    served <- [r \in Requests |-> served[r]]

\* request() keeps the promise of every requester: its own reply or a failure,
\* once, whatever reconnects, redeliveries, timeouts and close() do (420-465).
RpcPromise == Promise!Spec

\* close() settles once the messages being processed are through (1256-1261),
\* unless a batch has met a channel that was gone, or a reply cannot be sent
\* because the broker stays out of reach.
CloseDrains == closing = "waiting" ~> (closing # "waiting" \/ stuck # {} \/ [](up = 0))
=============================================================================
