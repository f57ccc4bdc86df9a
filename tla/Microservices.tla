--------------------------- MODULE Microservices ----------------------------
(***************************************************************************)
(* A client and a service that talk over one of the three transports:      *)
(* ServerFactory and ClientFactory choose both classes by the same option, *)
(* and the promise of a request to its caller must be the same on each.    *)
(***************************************************************************)
EXTENDS RequestTable

CONSTANTS Transports, Conns, Pattern, MaxDrops, Instances, Pusher

VARIABLES
    transport,
    tcpServer, alive, sockets, phase, isConnected, buffer, up, down, running,
    redisServer, redisClient, linked, pipe, subs, bus, inbox, handling, replyChannels, refs,
    redisDrops,
    channel, client, noAck, queue, unacked, working, replies

Tcp == INSTANCE TcpTransport
Redis == INSTANCE RedisTransport
Rabbit == INSTANCE RabbitTransport

tcp == <<tcpServer, alive, sockets, phase, isConnected, buffer, up, down, running>>
redis == <<redisServer, redisClient, linked, pipe, subs, bus, inbox, handling,
           replyChannels, refs, redisDrops>>
rabbit == <<channel, client, noAck, queue, unacked, working, replies>>
vars == <<transport, table, served, tcp, redis, rabbit>>

Init ==
    /\ transport \in Transports
    /\ TableInit
    /\ Tcp!Init /\ Redis!Init /\ Rabbit!Init
    /\ transport # "RABBITMQ" => ~noAck

OverTcp ==
    /\ transport = "TCP" /\ Tcp!Next
    /\ UNCHANGED <<transport, redis, rabbit>>

OverRedis ==
    /\ transport = "REDIS" /\ Redis!Next
    /\ UNCHANGED <<transport, tcp, rabbit>>

OverRabbit ==
    /\ transport = "RABBITMQ" /\ Rabbit!Next
    /\ UNCHANGED <<transport, tcp, redis>>

Next == OverTcp \/ OverRedis \/ OverRabbit

Spec == Init /\ [][Next]_vars

\* Timers fire.
Ticks(r) ==
    \/ transport = "TCP" /\ Tcp!Timeout(r) /\ UNCHANGED <<transport, redis, rabbit>>
    \/ transport = "REDIS" /\ Redis!Timeout(r) /\ UNCHANGED <<transport, tcp, rabbit>>
    \/ transport = "RABBITMQ" /\ Rabbit!Timeout(r) /\ UNCHANGED <<transport, tcp, redis>>

FairSpec == Spec /\ WF_vars(\E r \in Calls : Ticks(r))

-----------------------------------------------------------------------------
Promise == INSTANCE RequestReply WITH
    req <- [r \in Calls |-> req[r]], served <- [r \in Calls |-> served[r]]

\* Over every transport a request is answered at most once, only with what a
\* handler replied to it, and fails otherwise, whatever races: its reply, its
\* timer, close() and the loss of the connection.
RequestSpec == Promise!Spec

\* Every request settles: the map is cleared by close() and by broken
\* connections, but the timers of what it held still fire.
RequestSettles == (\E r \in Calls : Waiting(r)) ~> (\A r \in Calls : ~Waiting(r))

\* Every entry of a pending map has a timer that will take it out, over every
\* transport.  Over TCP, moreover, no timer outlives its entry, and an entry waits
\* only while there is a connection that could bring its reply, whichever of
\* reply, timeout, broken connection and close() came first.
NoOrphan == /\ pending \subseteq timers
            /\ transport = "TCP" => Tcp!NoOrphanTimer /\ Tcp!WaitsOnLiveSocket

\* Servers keep account of what they hold: RedisServer is subscribed to a reply channel
\* exactly while one of its requests waits for a reply on it (43-48); a message that
\* RabbitMQServer was sent is in the queue, in the hands of a handler or through with
\* one, whatever dies, and one that is unacknowledged is worked on (294-296).
ServersKeepAccount ==
    /\ transport = "REDIS" => Redis!ReplyChannelsHeld
    /\ transport = "RABBITMQ" => Rabbit!NoMessageLost /\ Rabbit!UnackedIsWorkedOn

\* What one socket leaves in TcpClient's buffer never reaches the next (38).
BufferPerConnection == transport = "TCP" => Tcp!BufferPerConnection
=============================================================================
