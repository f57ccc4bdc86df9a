--------------------------- MODULE RedisTransport ---------------------------
(***************************************************************************)
(* RedisClient and RedisServer: requests are published on the channel of   *)
(* their pattern, replies on a second channel.  Each side has a connection *)
(* to publish and another to subscribe, and Redis orders nothing between   *)
(* the two.  Only the server counts who still needs a reply channel.       *)
(***************************************************************************)
EXTENDS RequestTable

CONSTANTS
    Pattern,    \* the pattern of each message
    MaxDrops    \* bound: subscriber connections that break

Sides == {"client", "server"}
Patterns == {Pattern[r] : r \in Messages}
Handled == {p \in Patterns : \E r \in Messages : Pattern[r] = p /\ Kind[r] # "unknown"}
Request(r) == <<Pattern[r], "request">>
Reply(p) == <<p, "reply">>
Mine(side) == IF side = "client" THEN Sends ELSE Pushes

VARIABLES
    redisServer, redisClient,   \* "off", "connecting", "up", "closed", "abandoned"
    linked,             \* per side: is the subscriber connection up?
    pipe,               \* per side: the (un)subscribe commands Redis has yet to do
    subs,               \* per side: the channels Redis holds for it
    bus,                \* the messages given to PUBLISH
    inbox,              \* per side: the messages Redis has delivered
    handling,           \* handleRedisMessage() calls that await their handler
    replyChannels,      \* RedisClient.replyChannels
    refs,               \* RedisServer.replyChannelRefCounts
    redisDrops

redisVars == <<redisServer, redisClient, linked, pipe, subs, bus, inbox, handling,
               replyChannels, refs, redisDrops>>
broker == <<linked, pipe, subs, bus, inbox, redisDrops>>

Init ==
    /\ redisServer = "off" /\ redisClient = "off"
    /\ linked = [side \in Sides |-> FALSE]
    /\ pipe = [side \in Sides |-> <<>>]
    /\ subs = [side \in Sides |-> {}]
    /\ bus = {} /\ inbox = [side \in Sides |-> {}]
    /\ handling = {} /\ replyChannels = {}
    /\ refs = [p \in Patterns |-> 0]
    /\ redisDrops = 0

Note(channel, r, ok) == [channel |-> channel, id |-> r, ok |-> ok]
Command(op, p) == [op |-> op, channel |-> p]
Issue(side, commands) == pipe' = [pipe EXCEPT ![side] = @ \o commands]

\* disconnect(): Redis forgets the subscriptions of the connection.
Disconnected(side) ==
    /\ linked' = [linked EXCEPT ![side] = FALSE]
    /\ pipe' = [pipe EXCEPT ![side] = <<>>]
    /\ subs' = [subs EXCEPT ![side] = {}]
    /\ inbox' = [inbox EXCEPT ![side] = {}]

-----------------------------------------------------------------------------
(* RedisServer *)

Listen ==
    /\ redisServer = "off" /\ redisServer' = "connecting"
    /\ UNCHANGED <<redisClient, broker, handling, replyChannels, refs, table, served>>

\* subscribeToRegisteredPatterns(): message patterns first, then event patterns.
MessageFirst(p, q) == \E r, m \in Messages :
    /\ Pattern[r] = p /\ Kind[r] = "message" /\ Pattern[m] = q /\ Kind[m] = "event"

Orders(S) == {o \in [1 .. Cardinality(S) -> S] :
                \A i, j \in DOMAIN o : i # j => o[i] # o[j] /\ (MessageFirst(o[i], o[j]) => i < j)}

ServerReady ==
    /\ redisServer = "connecting" /\ redisServer' = "up"
    /\ linked' = [linked EXCEPT !["server"] = TRUE]
    /\ \E o \in Orders(Handled) :
          Issue("server", [i \in DOMAIN o |-> Command("subscribe", <<o[i], "request">>)])
    /\ UNCHANGED <<redisClient, subs, bus, inbox, handling, replyChannels, refs, redisDrops, table, served>>

\* acquireReplyChannel()
Acquired(p) ==
    /\ refs' = [refs EXCEPT ![p] = @ + 1]
    /\ Issue("server", IF refs[p] = 0 THEN <<Command("subscribe", Reply(p))>> ELSE <<>>)

\* releaseReplyChannel(): after close() the command has no connection to go to.
\* Faulty variant: the first waiter to be done unsubscribes.
Last_Any(p) == TRUE
Last(p) == refs[p] <= 1

Released(p) ==
    /\ refs' = [refs EXCEPT ![p] = IF Last(p) THEN 0 ELSE @ - 1]
    /\ Issue("server", IF Last(p) /\ redisServer # "closed"
                       THEN <<Command("unsubscribe", Reply(p))>> ELSE <<>>)

\* sendMessage(), from listen() to close().
Push(r) ==
    /\ r \in Pushes
    /\ \/ /\ redisServer = "off" /\ Refused(r) /\ UNCHANGED <<refs, broker>>
       \/ /\ redisServer \in {"connecting", "up"} /\ Entered(r)
          /\ Acquired(Pattern[r])
          /\ bus' = bus \cup {Note(Request(r), r, TRUE)}
          /\ UNCHANGED <<linked, subs, inbox, redisDrops>>
    /\ UNCHANGED <<redisServer, redisClient, handling, replyChannels, served>>

\* handleRedisMessage(): replies go to whoever waits, the rest to the handlers.
ServerMessage(m) ==
    /\ m \in inbox["server"]
    /\ inbox' = [inbox EXCEPT !["server"] = @ \ {m}]
    /\ \/ /\ m.channel = Reply(Pattern[m.id]) /\ refs[Pattern[m.id]] > 0 /\ m.id \in pending \cap Pushes
          /\ Replied(m.id, Pushes, m.ok) /\ Released(Pattern[m.id])
          /\ UNCHANGED <<handling, served>>
       \/ /\ m.channel = Reply(Pattern[m.id]) /\ ~(refs[Pattern[m.id]] > 0 /\ m.id \in pending \cap Pushes)
          /\ UNCHANGED <<table, refs, pipe, handling, served>>
       \/ /\ m.channel = Request(m.id) /\ Kind[m.id] = "message"
          /\ handling' = handling \cup {m.id}
          /\ UNCHANGED <<table, refs, pipe, served>>
       \/ /\ m.channel = Request(m.id) /\ Kind[m.id] = "event"
          /\ Ran(m.id) /\ UNCHANGED <<table, refs, pipe, handling>>
    /\ UNCHANGED <<redisServer, redisClient, linked, subs, bus, replyChannels, redisDrops>>

\* The handler returned or threw; a message without an id gets no reply.
HandlerDone(r, ok) ==
    /\ r \in handling /\ handling' = handling \ {r}
    /\ Ran(r)
    /\ bus' = IF r \in Calls /\ redisServer = "up"
              THEN bus \cup {Note(Reply(Pattern[r]), r, ok)} ELSE bus
    /\ UNCHANGED <<redisServer, redisClient, linked, pipe, subs, inbox, replyChannels, refs,
                   redisDrops, table>>

CloseServer ==
    /\ redisServer = "up" /\ redisServer' = "closed"
    /\ Disconnected("server")
    /\ refs' = [p \in Patterns |-> 0]
    /\ Forgotten(Pushes)
    /\ UNCHANGED <<redisClient, bus, handling, replyChannels, redisDrops, served>>

-----------------------------------------------------------------------------
(* RedisClient *)

Connect ==
    /\ redisClient \in {"off", "closed"} /\ redisClient' = "connecting"
    /\ UNCHANGED <<redisServer, broker, handling, replyChannels, refs, table, served>>

\* The first "connect" or "error" of each of the two connections.
ConnectSettles(ok) ==
    /\ redisClient = "connecting"
    /\ redisClient' = IF ok THEN "up" ELSE "off"
    /\ linked' = [linked EXCEPT !["client"] = ok]
    /\ UNCHANGED <<redisServer, pipe, subs, bus, inbox, handling, replyChannels, refs, redisDrops,
                   table, served>>

Send(r) ==
    /\ r \in Sends
    /\ \/ redisClient # "up" /\ Refused(r) /\ UNCHANGED <<replyChannels, pipe, bus>>
       \/ /\ redisClient = "up" /\ Entered(r)
          /\ Issue("client", IF Pattern[r] \in replyChannels THEN <<>>
                             ELSE <<Command("subscribe", Reply(Pattern[r]))>>)
          /\ replyChannels' = replyChannels \cup {Pattern[r]}
          /\ bus' = bus \cup {Note(Request(r), r, TRUE)}
    /\ UNCHANGED <<redisServer, redisClient, linked, subs, inbox, handling, refs, redisDrops, served>>

Emit(r) ==
    /\ r \in Emits /\ redisClient = "up" /\ Sent(r)
    /\ bus' = bus \cup {Note(Request(r), r, TRUE)}
    /\ UNCHANGED <<redisServer, redisClient, linked, pipe, subs, inbox, handling, replyChannels,
                   refs, redisDrops, served>>

ClientMessage(m) ==
    /\ m \in inbox["client"]
    /\ inbox' = [inbox EXCEPT !["client"] = @ \ {m}]
    /\ Replied(m.id, Sends, m.ok)
    /\ UNCHANGED <<redisServer, redisClient, linked, pipe, subs, bus, handling, replyChannels, refs,
                   redisDrops, served>>

\* close(): the requests are dropped from the map, their timers stay.
CloseClient ==
    /\ redisClient \in {"connecting", "up"}
    /\ redisClient' = IF redisClient = "up" THEN "closed" ELSE "abandoned"
    /\ Disconnected("client")
    /\ replyChannels' = {}
    /\ Forgotten(Sends)
    /\ UNCHANGED <<redisServer, bus, handling, refs, redisDrops, served>>

Timeout(r) ==
    /\ TimedOut(r)
    /\ IF r \in Pushes THEN Released(Pattern[r]) ELSE UNCHANGED <<refs, pipe>>
    /\ UNCHANGED <<redisServer, redisClient, linked, subs, bus, inbox, handling, replyChannels,
                   redisDrops, served>>

-----------------------------------------------------------------------------
(* Redis and ioredis, as the two classes use them *)

Obey(side) ==
    /\ linked[side] /\ pipe[side] # <<>>
    /\ LET c == Head(pipe[side])
       IN  subs' = [subs EXCEPT ![side] = IF c.op = "subscribe" THEN @ \cup {c.channel}
                                          ELSE @ \ {c.channel}]
    /\ pipe' = [pipe EXCEPT ![side] = Tail(@)]
    /\ UNCHANGED <<redisServer, redisClient, linked, bus, inbox, handling, replyChannels, refs,
                   redisDrops, table, served>>

Reaches(m) == {side \in Sides : linked[side] /\ m.channel \in subs[side]}

\* PUBLISH; ioredis repeats it if the connection breaks before Redis confirms (a
\* repeated reply finds no entry: only requests are repeated here).
Publish(m, repeated) ==
    /\ m \in bus
    /\ repeated => redisDrops < MaxDrops /\ m.channel = Request(m.id)
    /\ bus' = IF repeated THEN bus ELSE bus \ {m}
    /\ redisDrops' = IF repeated THEN redisDrops + 1 ELSE redisDrops
    /\ inbox' = [side \in Sides |-> IF side \in Reaches(m) THEN inbox[side] \cup {m}
                                    ELSE inbox[side]]
    /\ UNCHANGED <<redisServer, redisClient, linked, pipe, subs, handling, replyChannels, refs,
                   table, served>>

Break(side) ==
    /\ linked[side] /\ redisDrops < MaxDrops
    /\ linked' = [linked EXCEPT ![side] = FALSE] /\ redisDrops' = redisDrops + 1
    /\ UNCHANGED <<redisServer, redisClient, pipe, subs, bus, inbox, handling, replyChannels, refs,
                   table, served>>

\* ioredis reconnects and restores the subscriptions; listen()'s connect handler
\* finds every pattern in subscribedChannels.
Restore(side) ==
    /\ ~linked[side]
    /\ (IF side = "client" THEN redisClient ELSE redisServer) = "up"
    /\ linked' = [linked EXCEPT ![side] = TRUE]
    /\ UNCHANGED <<redisServer, redisClient, pipe, subs, bus, inbox, handling, replyChannels, refs,
                   redisDrops, table, served>>

-----------------------------------------------------------------------------
Next ==
    \/ Listen \/ ServerReady \/ CloseServer \/ Connect \/ CloseClient
    \/ \E ok \in BOOLEAN : ConnectSettles(ok) \/ \E r \in Messages : HandlerDone(r, ok)
    \/ \E r \in Messages : Push(r) \/ Send(r) \/ Emit(r)
    \/ \E r \in Calls : Timeout(r)
    \/ \E side \in Sides : Obey(side) \/ Break(side) \/ Restore(side)
    \/ \E m \in inbox["server"] : ServerMessage(m)
    \/ \E m \in inbox["client"] : ClientMessage(m)
    \/ \E m \in bus, repeated \in BOOLEAN : Publish(m, repeated)

-----------------------------------------------------------------------------
\* What Redis will hold for the side once it has done what it was told.
Subscribed(side, channel) ==
    LET told == {k \in DOMAIN pipe[side] : pipe[side][k].channel = channel}
    IN  IF told = {} THEN channel \in subs[side]
        ELSE \E k \in told : /\ \A j \in told : j <= k
                             /\ pipe[side][k].op = "subscribe"

\* The server is subscribed to a reply channel exactly while one of its requests
\* waits for a reply on it: concurrent requests with the same pattern do not
\* unsubscribe each other, and the last one leaves nothing behind (43-48).
ReplyChannelsHeld ==
    redisServer \in {"connecting", "up"} =>
        \A p \in Patterns :
            /\ refs[p] = Cardinality({r \in pending \cap Pushes : Pattern[r] = p})
            /\ Subscribed("server", Reply(p)) <=> refs[p] > 0
=============================================================================
