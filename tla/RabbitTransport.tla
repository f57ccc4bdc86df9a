-------------------------- MODULE RabbitTransport ---------------------------
(***************************************************************************)
(* RabbitMQClient and RabbitMQServer: one work queue that every instance   *)
(* of the service consumes, and an exclusive reply queue per connection.   *)
(* Neither side reconnects: a channel that died stays dead, and what it    *)
(* had not acknowledged goes back to the queue.                            *)
(***************************************************************************)
EXTENDS RequestTable

CONSTANTS
    Instances,      \* the processes that run the service
    Pusher,         \* the one that makes the requests in Pushes
    MaxDrops        \* bound: instances whose channel dies or is closed

VARIABLES
    channel,        \* per instance: "off", "connecting", "up", "dead", "closed", "failed"
    client,         \* the channel of the client, in the same way
    noAck,          \* options.noAck
    queue,          \* the work queue
    unacked,        \* deliveries the broker waits to hear about
    working,        \* deliveries whose handler runs
    replies         \* messages in the reply queues

rabbitVars == <<channel, client, noAck, queue, unacked, working, replies>>

Init ==
    /\ channel = [s \in Instances |-> "off"]
    /\ client = "off"
    /\ noAck \in BOOLEAN
    /\ queue = {} /\ unacked = {} /\ working = {} /\ replies = {}

Message(r, to) == [id |-> r, to |-> to, redelivered |-> FALSE]
Delivery(s, m) == [by |-> s, msg |-> m]
Requeued(D) == {[d.msg EXCEPT !.redelivered = TRUE] : d \in D}
HasReplyTo(m) == m.id \in Calls

\* The reply queue of a connection, which disappears with it.
ClientQueue == "client"
Without(to) == {p \in replies : p.to # to}

-----------------------------------------------------------------------------
(* RabbitMQServer *)

Listen(s) ==
    /\ channel[s] = "off" /\ channel' = [channel EXCEPT ![s] = "connecting"]
    /\ UNCHANGED <<client, noAck, queue, unacked, working, replies, table, served>>

\* Connected to one of the URLs, queues declared, consumers started; or not.
ListenSettles(s, ok) ==
    /\ channel[s] = "connecting"
    /\ channel' = [channel EXCEPT ![s] = IF ok THEN "up" ELSE "failed"]
    /\ UNCHANGED <<client, noAck, queue, unacked, working, replies, table, served>>

\* An unknown pattern goes back once, for another instance to try.
GoesBack(m) == ~m.redelivered /\ ~noAck

Consume(s, m) ==
    /\ channel[s] = "up" /\ m \in queue
    /\ \/ /\ Kind[m.id] \in {"message", "event"}
          /\ queue' = queue \ {m}
          /\ working' = working \cup {Delivery(s, m)}
          /\ unacked' = IF noAck THEN unacked ELSE unacked \cup {Delivery(s, m)}
       \/ /\ Kind[m.id] = "unknown"
          /\ queue' = (queue \ {m}) \cup (IF GoesBack(m) THEN Requeued({Delivery(s, m)}) ELSE {})
          /\ UNCHANGED <<working, unacked>>
    /\ UNCHANGED <<channel, client, noAck, replies, table, served>>

\* The handler is through: the reply goes out and the message is acknowledged,
\* or the error goes out and the message is dropped.  On a channel that is gone
\* both throw; the broker has taken the message back already.
Decided(d, ok) == {d}

Done(d, ok) ==
    /\ d \in working /\ working' = working \ {d}
    /\ Ran(d.msg.id)
    /\ \/ /\ channel[d.by] = "up"
          /\ unacked' = unacked \ Decided(d, ok)
          /\ replies' = IF HasReplyTo(d.msg) /\ (~ok \/ Kind[d.msg.id] = "message")
                        THEN replies \cup {[id |-> d.msg.id, to |-> d.msg.to, ok |-> ok]} ELSE replies
       \/ channel[d.by] # "up" /\ UNCHANGED <<unacked, replies>>
    /\ UNCHANGED <<channel, client, noAck, queue, table>>

\* sendMessage(): publish() may report a full buffer, and throws on a dead channel.
Push(p, published) ==
    /\ p \in Pushes
    /\ \/ channel[Pusher] = "off" /\ Refused(p) /\ UNCHANGED queue
       \/ /\ channel[Pusher] = "up"
          /\ IF published THEN Entered(p) ELSE Refused(p)
          /\ queue' = queue \cup {Message(p, Pusher)}
       \/ /\ channel[Pusher] \in {"dead", "closed"} /\ First(p)
          /\ req' = [req EXCEPT ![p] = "failed"]
          /\ pending' = pending \cup {p} /\ timers' = timers \cup {p}
          /\ UNCHANGED <<answer, queue>>
    /\ UNCHANGED <<channel, client, noAck, unacked, working, replies, served>>

\* The channel or its connection dies, or close() is called: what was delivered
\* on it and not acknowledged is redelivered.
\* Faulty variant: it counts as acknowledged.
Returned_Nothing(s) == {}
Returned(s) == {d \in unacked : d.by = s}

Ended(s, state) ==
    /\ channel[s] = "up" /\ channel' = [channel EXCEPT ![s] = state]
    /\ Cardinality({i \in Instances : channel[i] \in {"dead", "closed"}}) < MaxDrops
    /\ queue' = queue \cup Requeued(Returned(s))
    /\ unacked' = {d \in unacked : d.by # s}
    /\ replies' = Without(s)
    /\ UNCHANGED <<client, noAck, working, served>>

ChannelDies(s) == Ended(s, "dead") /\ UNCHANGED table

CloseServer(s) ==
    /\ Ended(s, "closed")
    /\ IF s = Pusher THEN Forgotten(Pushes) ELSE UNCHANGED table

-----------------------------------------------------------------------------
(* RabbitMQClient *)

Connect ==
    /\ client = "off" /\ client' = "connecting"
    /\ UNCHANGED <<channel, noAck, queue, unacked, working, replies, table, served>>

ConnectSettles(ok) ==
    /\ client = "connecting"
    /\ client' = IF ok THEN "up" ELSE "off"
    /\ UNCHANGED <<channel, noAck, queue, unacked, working, replies, table, served>>

\* publish() returning false fails the request although the message is sent.
Send(r, published) ==
    /\ r \in Sends
    /\ \/ client # "up" /\ Refused(r) /\ UNCHANGED queue
       \/ /\ client = "up"
          /\ IF published THEN Entered(r) ELSE Refused(r)
          /\ queue' = queue \cup {Message(r, ClientQueue)}
    /\ UNCHANGED <<channel, client, noAck, unacked, working, replies, served>>

Emit(r) ==
    /\ r \in Emits /\ client = "up" /\ Sent(r)
    /\ queue' = queue \cup {Message(r, "nobody")}
    /\ UNCHANGED <<channel, client, noAck, unacked, working, replies, served>>

ClientEnded(state) ==
    /\ client = "up" /\ client' = state
    /\ replies' = Without(ClientQueue)
    /\ UNCHANGED <<channel, noAck, queue, unacked, working, served>>

ClientDies == ClientEnded("dead") /\ UNCHANGED table
CloseClient == ClientEnded("closed") /\ Forgotten(Sends)

\* handleReplyMessage() of either side; the server's ignores the error header.
ReplyArrives(p) ==
    /\ p \in replies /\ replies' = replies \ {p}
    /\ \/ p.to = ClientQueue /\ client = "up" /\ Replied(p.id, Sends, p.ok)
       \/ p.to = Pusher /\ channel[Pusher] = "up" /\ Replied(p.id, Pushes, TRUE)
       \/ /\ ~(p.to = ClientQueue /\ client = "up")
          /\ ~(p.to = Pusher /\ channel[Pusher] = "up")
          /\ UNCHANGED table
    /\ UNCHANGED <<channel, client, noAck, queue, unacked, working, served>>

Timeout(r) == TimedOut(r) /\ UNCHANGED <<rabbitVars, served>>

-----------------------------------------------------------------------------
Next ==
    \/ \E s \in Instances : \/ Listen(s) \/ ChannelDies(s) \/ CloseServer(s)
                            \/ \E m \in queue : Consume(s, m)
    \/ \E ok \in BOOLEAN : \/ ConnectSettles(ok)
                           \/ \E s \in Instances : ListenSettles(s, ok)
                           \/ \E d \in working : Done(d, ok)
                           \/ \E r \in Messages : Push(r, ok) \/ Send(r, ok)
    \/ \E r \in Messages : Emit(r)
    \/ Connect \/ ClientDies \/ CloseClient
    \/ \E p \in replies : ReplyArrives(p)
    \/ \E r \in Calls : Timeout(r)

-----------------------------------------------------------------------------
\* What is sent to a service that acknowledges survives the death of channels
\* and instances until a handler has been through with it (294-296).
NoMessageLost ==
    \A r \in Messages :
        ~noAck /\ Kind[r] # "unknown" /\ req[r] \notin {"idle", "failed"} /\ served[r] = 0
            => \/ \E m \in queue : m.id = r
               \/ \E d \in unacked : d.msg.id = r

\* A message the broker waits to hear about is in the hands of a handler: none
\* is kept unacknowledged for ever, which would use up the prefetch window.
UnackedIsWorkedOn == unacked \subseteq working
=============================================================================
