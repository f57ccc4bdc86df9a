---------------------------- MODULE TcpTransport ----------------------------
(***************************************************************************)
(* TcpClient and TcpServer: newline-delimited JSON over one socket at a    *)
(* time.  Client and server are two processes; a broken connection reaches *)
(* each of them as a close event of its own, in its own time.              *)
(***************************************************************************)
EXTENDS RequestTable

CONSTANTS Conns     \* the sockets the client may open, one after the other

VARIABLES
    tcpServer,      \* "off", "starting", "up", "failed" or "closed"
    alive,          \* the connections the network still carries
    sockets,        \* TcpServer.sockets
    phase,          \* per socket, seen by the client
    isConnected,    \* TcpClient.isConnected
    buffer,         \* the socket whose unfinished frame is in TcpClient.buffer
    up, down,       \* per socket: the frames on their way
    running         \* handleMessageLine() calls that await their handler

tcpVars == <<tcpServer, alive, sockets, phase, isConnected, buffer, up, down, running>>
link == <<tcpServer, sockets, phase>>

Frame(r, reply, ok) == [id |-> r, reply |-> reply, ok |-> ok]

Init ==
    /\ tcpServer = "off" /\ alive = {} /\ sockets = {}
    /\ phase = [c \in Conns |-> "unused"]
    /\ isConnected = FALSE /\ buffer = 0
    /\ up = [c \in Conns |-> <<>>] /\ down = [c \in Conns |-> <<>>]
    /\ running = {}

Lowest(S) == CHOOSE c \in S : \A d \in S : c <= d
Current == {c \in Conns : phase[c] \in {"connecting", "accepted", "up"}}
Phase(S, p) == phase' = [c \in Conns |-> IF c \in S THEN p ELSE phase[c]]
Put(wire, c, f) == IF c \in alive THEN [wire EXCEPT ![c] = Append(@, f)] ELSE wire

-----------------------------------------------------------------------------
(* TcpServer *)

Listen ==
    /\ tcpServer = "off" /\ tcpServer' = "starting"
    /\ UNCHANGED <<alive, sockets, phase, isConnected, buffer, up, down, running, table, served>>

ListenSettles(outcome) ==
    /\ tcpServer = "starting" /\ tcpServer' = outcome
    /\ UNCHANGED <<alive, sockets, phase, isConnected, buffer, up, down, running, table, served>>

Accept(c) ==
    /\ tcpServer = "up" /\ phase[c] = "connecting"
    /\ Phase({c}, "accepted")
    /\ alive' = alive \cup {c} /\ sockets' = sockets \cup {c}
    /\ UNCHANGED <<tcpServer, isConnected, buffer, up, down, running, table, served>>

\* handleMessageLine(): the reply to a request that waits, a request for a
\* handler, an event, or nothing anybody knows.  A reply that comes too late is
\* looked up like a request.
ServerData(c) ==
    /\ c \in sockets \cap alive /\ up[c] # <<>>
    /\ LET id == Head(up[c]).id
           awaited == id \in pending \cap Pushes
       IN  \/ /\ awaited
              /\ Replied(id, Pushes, TRUE)      \* { id, data }: an error is not passed on
              /\ UNCHANGED <<running, served>>
           \/ /\ ~awaited /\ Kind[id] = "message"
              /\ running' = running \cup {<<id, c>>}
              /\ UNCHANGED <<table, served>>
           \/ /\ ~awaited /\ Kind[id] = "event"
              /\ Ran(id) /\ UNCHANGED <<table, running>>
           \/ /\ ~awaited /\ Kind[id] = "unknown"
              /\ UNCHANGED <<table, running, served>>
    /\ up' = [up EXCEPT ![c] = Tail(@)]
    /\ UNCHANGED <<link, alive, isConnected, buffer, down>>

\* The handler returned, or threw: either way one reply is written.
HandlerDone(r, c, ok) ==
    /\ <<r, c>> \in running
    /\ running' = running \ {<<r, c>>}
    /\ down' = Put(down, c, Frame(r, TRUE, ok))
    /\ Ran(r)
    /\ UNCHANGED <<link, alive, isConnected, buffer, up, table>>

\* sendMessage() to the first connected client.
Push(p) ==
    /\ p \in Pushes /\ tcpServer = "up"
    /\ \/ sockets = {} /\ Refused(p) /\ UNCHANGED down
       \/ sockets # {} /\ Entered(p) /\ down' = Put(down, Lowest(sockets), Frame(p, FALSE, TRUE))
    /\ UNCHANGED <<link, alive, isConnected, buffer, up, running, served>>

ServerSocketClosed(c) ==
    /\ c \in sockets \ alive
    /\ sockets' = sockets \ {c}
    /\ UNCHANGED <<tcpServer, alive, phase, isConnected, buffer, up, down, running, table, served>>

CloseServer ==
    /\ tcpServer = "up" /\ tcpServer' = "closed"
    /\ alive' = alive \ sockets /\ sockets' = {}
    /\ Forgotten(Pushes)
    /\ UNCHANGED <<phase, isConnected, buffer, up, down, running, served>>

-----------------------------------------------------------------------------
(* TcpClient *)

\* An application connects when it has no connection and awaits the outcome.
Connect(c) ==
    /\ Current = {} /\ phase[c] = "unused" /\ \A d \in Conns : d < c => phase[d] # "unused"
    /\ Phase({c}, "connecting")
    /\ UNCHANGED <<tcpServer, sockets, alive, isConnected, buffer, up, down, running, table, served>>

Connected(c) ==
    /\ phase[c] = "accepted" /\ c \in alive
    /\ Phase({c}, "up") /\ isConnected' = TRUE
    /\ UNCHANGED <<tcpServer, sockets, alive, buffer, up, down, running, table, served>>

\* "error" and then "close", before the connection was there.
ConnectFails(c) ==
    /\ phase[c] \in {"connecting", "accepted"} /\ c \notin alive
    /\ Phase({c}, "gone") /\ isConnected' = FALSE
    /\ RejectPending(Sends)
    /\ UNCHANGED <<tcpServer, sockets, alive, buffer, up, down, running, served>>

\* send(), subscribed to.
Send(r) ==
    /\ r \in Sends
    /\ \/ ~isConnected /\ Refused(r) /\ UNCHANGED up
       \/ \E c \in Current : /\ isConnected /\ Entered(r)
                             /\ up' = Put(up, c, Frame(r, FALSE, TRUE))
    /\ UNCHANGED <<link, alive, isConnected, buffer, down, running, served>>

Emit(r) ==
    /\ r \in Emits /\ isConnected /\ Sent(r)
    /\ \E c \in Current : up' = Put(up, c, Frame(r, FALSE, TRUE))
    /\ UNCHANGED <<link, alive, isConnected, buffer, down, running, served>>

\* The first bytes of a frame, but not its end: they stay in the buffer.
Chunk(c) ==
    /\ phase[c] = "up" /\ c \in alive /\ down[c] # <<>> /\ buffer = 0
    /\ buffer' = c
    /\ UNCHANGED <<link, alive, isConnected, up, down, running, table, served>>

\* The end of a frame.  What the buffer holds is put in front of it: the rest
\* of this frame, or of one that an earlier socket never finished, which makes
\* the line malformed.
Readable(c) == buffer \in {0, c}

Data(c) ==
    /\ phase[c] = "up" /\ c \in alive /\ down[c] # <<>>
    /\ LET f == Head(down[c])
       IN  IF Readable(c) /\ f.reply THEN Replied(f.id, Sends, f.ok) ELSE UNCHANGED table
    /\ buffer' = 0
    /\ down' = [down EXCEPT ![c] = Tail(@)]
    /\ UNCHANGED <<link, alive, isConnected, up, running, served>>

\* The peer of sendMessage(): a client that answers requests of the server.
PeerAnswers(c) ==
    /\ phase[c] = "up" /\ c \in alive /\ down[c] # <<>> /\ ~Head(down[c]).reply
    /\ Ran(Head(down[c]).id)
    /\ up' = Put(up, c, Frame(Head(down[c]).id, TRUE, TRUE))
    /\ down' = [down EXCEPT ![c] = Tail(@)] /\ buffer' = 0
    /\ UNCHANGED <<link, alive, isConnected, running, table>>

\* An error after the connection was there: the requests fail at once ...
SocketError(c) ==
    /\ phase[c] = "up" /\ c \notin alive
    /\ RejectPending(Sends)
    /\ UNCHANGED <<link, alive, isConnected, buffer, up, down, running, served>>

\* ... and so do those that were sent before the close event.
\* Faulty variant: they are left to their timers.
RejectsOnClose_Not == Forgotten({})
RejectsOnClose == RejectPending(Sends)

SocketClosed(c) ==
    /\ phase[c] = "up" /\ c \notin alive
    /\ Phase({c}, "gone") /\ isConnected' = FALSE
    /\ RejectsOnClose
    /\ UNCHANGED <<tcpServer, sockets, alive, buffer, up, down, running, served>>

\* close(): the listeners go, so a connect() under way settles no more.
CloseClient ==
    /\ Current # {}
    /\ phase' = [c \in Conns |-> CASE phase[c] = "up" -> "gone"
                                   [] phase[c] \in {"connecting", "accepted"} -> "abandoned"
                                   [] OTHER -> phase[c]]
    /\ alive' = alive \ Current /\ isConnected' = FALSE /\ buffer' = 0
    /\ RejectPending(Sends)
    /\ UNCHANGED <<tcpServer, sockets, up, down, running, served>>

Timeout(r) == TimedOut(r) /\ UNCHANGED <<tcpVars, served>>

\* The network, or a frame longer than MAX_BUFFER_SIZE, ends a connection.
Break(c) ==
    /\ c \in alive /\ alive' = alive \ {c}
    /\ UNCHANGED <<link, isConnected, buffer, up, down, running, table, served>>

-----------------------------------------------------------------------------
Progress ==
    \/ \E c \in Conns : \/ ServerData(c) \/ ServerSocketClosed(c)
                        \/ Connected(c) \/ ConnectFails(c) \/ Data(c) \/ SocketClosed(c)
    \/ \E outcome \in {"up", "failed"} : ListenSettles(outcome)
    \/ \E r \in Messages, c \in Conns, ok \in BOOLEAN : HandlerDone(r, c, ok)
    \/ \E r \in Calls : Timeout(r)

Next ==
    \/ Progress \/ Listen \/ CloseServer \/ CloseClient
    \/ \E c \in Conns : \/ Accept(c) \/ Connect(c) \/ Chunk(c) \/ PeerAnswers(c)
                        \/ SocketError(c) \/ Break(c)
    \/ \E r \in Messages : Push(r) \/ Send(r) \/ Emit(r)

-----------------------------------------------------------------------------
\* A request waits only while there is a connection that could bring its reply
\* (comment 72-75): connection loss and close() fail what is in flight at once.
WaitsOnLiveSocket == \A r \in Sends : Waiting(r) => isConnected

\* Whatever settles a request of the client clears its timer (comment 80-83).
NoOrphanTimer == timers \cap Sends \subseteq pending

\* tcp.client.ts:38: "Per-connection incremental UTF-8 decoder": what is left of
\* one connection is not put in front of the first frame of the next.
BufferPerConnection == \A c \in Conns : phase[c] = "up" => Readable(c)
=============================================================================
