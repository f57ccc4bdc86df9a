-------------------------- MODULE HybridTransports --------------------------
(***************************************************************************)
(* The transports of an ElysiaNestApplication: connectMicroservice(),      *)
(* calls of startAllMicroservices(), which may fail half-way and be made   *)
(* again, and the loop of close() over them, which may overlap a start or  *)
(* another close().  Each listen() opens something, here called a socket,  *)
(* of which a server holds the last.  What goes over a transport is in     *)
(* Microservices.                                                          *)
(***************************************************************************)
EXTENDS Naturals, Sequences

CONSTANTS
    Kinds,          \* of transports: "tcp", "redis", "custom"
    MaxServers,     \* bound: calls of connectMicroservice()
    Starters,       \* calls of startAllMicroservices()
    Stoppers        \* calls of close()

VARIABLES
    servers,        \* microservices: kind, handlers, "error" listener, the socket
                    \* it holds and isListening
    sockets,        \* history: the server of each and its state
    starter,        \* each start: where it is, the server it is at, the socket it awaits
    stopper,        \* each close
    relistened      \* history: listen() was called on a server that had not been closed

transportVars == <<servers, sockets, starter, stopper, relistened>>

Init ==
    /\ servers = <<>> /\ sockets = <<>>
    /\ starter = [s \in Starters |-> [at |-> "idle", next |-> 1, socket |-> 0, alone |-> FALSE]]
    /\ stopper = [c \in Stoppers |-> [at |-> "idle", next |-> 1, alone |-> FALSE]]
    /\ relistened = FALSE

Live(i) == i # 0 /\ sockets[i].state \in {"opening", "open"}
Stopping == \E c \in Stoppers : stopper[c].at = "closing"

ConnectMicroservice(kind) ==
    /\ Len(servers) < MaxServers
    /\ servers' = Append(servers, [kind |-> kind, handlers |-> FALSE, listener |-> FALSE,
                                   socket |-> 0, isListening |-> FALSE])
    /\ UNCHANGED <<sockets, starter, stopper, relistened>>

-----------------------------------------------------------------------------
StartAll(s) ==
    /\ starter[s].at = "idle"
    /\ starter' = [starter EXCEPT ![s].at = "between", ![s].alone = ~Stopping]
    /\ UNCHANGED <<servers, sockets, stopper, relistened>>

\* startMicroservice(): handlers and the error listener first, then listen().
StartMicroservice(s) ==
    /\ starter[s].at = "between" /\ starter[s].next <= Len(servers)
    /\ LET n == starter[s].next IN
       /\ servers' = [servers EXCEPT ![n].handlers = TRUE, ![n].listener = TRUE,
                                     ![n].socket = Len(sockets) + 1]
       /\ sockets' = Append(sockets, [of |-> n, state |-> "opening"])
       /\ relistened' = (relistened \/ Live(servers[n].socket))
    /\ starter' = [starter EXCEPT ![s].at = "awaiting", ![s].socket = Len(sockets) + 1]
    /\ stopper' = [c \in Stoppers |-> [stopper[c] EXCEPT !.alone = FALSE]]

\* The callback of listen() comes: the start that awaits it goes on, or rejects.
CalledBack(i, at) ==
    starter' = [s \in Starters |->
        IF starter[s].at = "awaiting" /\ starter[s].socket = i
        THEN [starter[s] EXCEPT !.at = at, !.next = @ + 1] ELSE starter[s]]

\* A TCP port is given to one socket at a time.
Opens(i) ==
    /\ sockets[i].state = "opening"
    /\ servers[sockets[i].of].kind = "tcp" =>
           \A j \in DOMAIN sockets : sockets[j].of = sockets[i].of => sockets[j].state # "open"
    /\ sockets' = [sockets EXCEPT ![i].state = "open"]
    /\ servers' = [servers EXCEPT ![sockets[i].of].isListening = TRUE]
    /\ CalledBack(i, "between")
    /\ UNCHANGED <<stopper, relistened>>

\* TCP reports a refused listen() to its caller unless it listens already; a custom
\* transport always.  Redis tries again for ever.
Refused(i) ==
    /\ sockets[i].state = "opening"
    /\ servers[sockets[i].of].kind # "redis"
    /\ sockets' = [sockets EXCEPT ![i].state = "closed"]
    /\ IF servers[sockets[i].of].kind = "tcp" /\ servers[sockets[i].of].isListening
       THEN UNCHANGED starter
       ELSE CalledBack(i, "rejected")
    /\ UNCHANGED <<servers, stopper, relistened>>

Started(s) ==
    /\ starter[s].at = "between" /\ starter[s].next > Len(servers)
    /\ starter' = [starter EXCEPT ![s].at = "resolved"]
    /\ UNCHANGED <<servers, sockets, stopper, relistened>>

-----------------------------------------------------------------------------
\* No TCP socket is just being opened.
Undisturbed == \A i \in DOMAIN sockets : Live(i) /\ servers[sockets[i].of].kind = "tcp" =>
                                             sockets[i].state = "open"

Close(c) ==
    /\ stopper[c].at = "idle"
    /\ stopper' = [stopper EXCEPT ![c].at = "closing", ![c].alone = Undisturbed]
    /\ starter' = [s \in Starters |-> [starter[s] EXCEPT !.alone = FALSE]]
    /\ UNCHANGED <<servers, sockets, relistened>>

\* The servers of the package drop their handlers and listeners.  A TCP socket that
\* is being opened may open all the same.
CloseTransport(c) ==
    /\ stopper[c].at = "closing" /\ stopper[c].next <= Len(servers)
    /\ LET n == stopper[c].next
           i == servers[n].socket IN
       /\ servers' = [servers EXCEPT ![n].handlers = @ /\ servers[n].kind = "custom",
                                     ![n].listener = @ /\ servers[n].kind = "custom",
                                     ![n].isListening = FALSE]
       /\ IF Live(i)
          THEN \/ sockets' = [sockets EXCEPT ![i].state = "closed"]
               \/ /\ servers[n].kind = "tcp" /\ sockets[i].state = "opening"
                  /\ UNCHANGED sockets
          ELSE UNCHANGED sockets
    /\ stopper' = [stopper EXCEPT ![c].next = @ + 1]
    /\ UNCHANGED <<starter, relistened>>

\* A custom transport's close() throws, and so does the application's.
CloseFails(c) ==
    /\ stopper[c].at = "closing" /\ stopper[c].next <= Len(servers)
    /\ servers[stopper[c].next].kind = "custom"
    /\ stopper' = [stopper EXCEPT ![c].at = "rejected"]
    /\ UNCHANGED <<servers, sockets, starter, relistened>>

TransportsClosed(c) ==
    /\ stopper[c].at = "closing" /\ stopper[c].next > Len(servers)
    /\ stopper' = [stopper EXCEPT ![c].at = "resolved"]
    /\ UNCHANGED <<servers, sockets, starter, relistened>>

Next ==
    \/ \E k \in Kinds : ConnectMicroservice(k)
    \/ \E s \in Starters : StartAll(s) \/ StartMicroservice(s) \/ Started(s)
    \/ \E i \in DOMAIN sockets : Opens(i) \/ Refused(i)
    \/ \E c \in Stoppers : \/ Close(c) \/ CloseTransport(c) \/ CloseFails(c)
                           \/ TransportsClosed(c)

Spec == Init /\ [][Next]_transportVars

-----------------------------------------------------------------------------
\* A start that has resolved, with no close() since it was made, has opened every
\* transport it came by, with its handlers and an error listener, although others
\* failed, hung or were repeated meanwhile.
StartsAll ==
    \A s \in Starters : starter[s].at = "resolved" /\ starter[s].alone =>
        \A n \in 1 .. starter[s].next - 1 :
            /\ servers[n].handlers /\ servers[n].listener
            /\ \E i \in DOMAIN sockets : sockets[i] = [of |-> n, state |-> "open"]

\* When no listen() was under way at a TCP port and none has followed, a close() that
\* has resolved leaves nothing open, although starts had failed half-way, hang at
\* Redis, or came to their next transport too late; as long as none was repeated.
NothingListens ==
    ~relistened => \A c \in Stoppers : stopper[c].at = "resolved" /\ stopper[c].alone =>
        \A i \in DOMAIN sockets : ~Live(i)

\* An "error" that a transport emits is never fatal: the servers of the package log it
\* themselves when nobody listens, any other has a listener as long as it can emit one.
ErrorsLogged ==
    \A i \in DOMAIN sockets :
        Live(i) /\ servers[sockets[i].of].kind = "custom" => servers[sockets[i].of].listener
=============================================================================
