----------------------------- MODULE GraphQLWs ------------------------------
(***************************************************************************)
(* apollo/src/services/graphql-ws.handler.ts: one WebSocket connection of  *)
(* GraphQLWsHandler and the subscriptions it runs.  Handlers are async: a  *)
(* step is the code between two awaits, so the client's next messages, the *)
(* timers and the close event fall between any two of them.                *)
(***************************************************************************)
EXTENDS Naturals, FiniteSets

CONSTANTS
    Ids,            \* operation ids the client uses
    MaxOps,         \* bound: accepted subscribe messages
    MaxInits,       \* bound: connection_init messages
    MaxEvents,      \* bound: events of one source stream
    HasOnConnect,   \* is the (async) onConnect hook configured?
    KeepAlive       \* is the keep-alive interval enabled?

ASSUME WsAssumption == /\ MaxOps \in Nat /\ MaxInits \in Nat /\ MaxEvents \in Nat
                       /\ HasOnConnect \in BOOLEAN /\ KeepAlive \in BOOLEAN
                       /\ Ids # {}

Ops == 1 .. MaxOps
Inits == 1 .. MaxInits

VARIABLES
    socket,         \* "new", "open", "closing" (the server closed it), "closed"
    closeCode,      \* the code the server closed it with, or "none"
    peerDead,       \* the client vanished without a close event
    known,          \* is the connection in the connections map?
    closed,         \* state.closed
    isInitialized,
    initTimer,      \* is the init timer pending?
    keepAlive,      \* is state.keepAliveInterval set?
    timers,         \* keep-alive intervals that are really running
    stale,          \* lastActivityAt is more than keepAliveTimeout ago
    inits,          \* the onConnect calls: "unused", "await", "done"
    acks,           \* connection_ack frames sent
    disconnects,    \* onDisconnect calls
    disposed,
    subscriptions,  \* id -> the registered operation, 0 for none
    opId, opSt, aborted, iter,  \* per accepted subscribe message
    events,         \* events taken from its stream
    sent, completed \* frames sent for it, and whether "complete" was one

conn == <<socket, closeCode, peerDead, known, closed, isInitialized, initTimer, keepAlive,
          timers, stale, inits, acks, disconnects, disposed>>
opers == <<subscriptions, opId, opSt, aborted, iter, events, sent, completed>>
vars == <<socket, closeCode, peerDead, known, closed, isInitialized, initTimer, keepAlive,
          timers, stale, inits, acks, disconnects, disposed,
          subscriptions, opId, opSt, aborted, iter, events, sent, completed>>

Codes == {"none", "BadRequest", "Unauthorized", "Forbidden", "InitialisationTimeout",
          "SubscriberAlreadyExists", "TooManyInitialisationRequests", "KeepAliveTimeout"}
Running == {"setup", "loop", "exec", "hook"}

Init ==
    /\ socket = "new" /\ closeCode = "none" /\ peerDead = FALSE
    /\ known = FALSE /\ closed = FALSE /\ isInitialized = FALSE
    /\ initTimer = FALSE /\ keepAlive = FALSE /\ timers = 0 /\ stale = FALSE
    /\ inits = [k \in Inits |-> "unused"]
    /\ acks = 0 /\ disconnects = 0 /\ disposed = FALSE
    /\ subscriptions = [id \in Ids |-> 0]
    /\ opId = [o \in Ops |-> CHOOSE id \in Ids : TRUE]
    /\ opSt = [o \in Ops |-> "unused"]
    /\ aborted = [o \in Ops |-> FALSE]
    /\ iter = [o \in Ops |-> "none"]
    /\ events = [o \in Ops |-> 0]
    /\ sent = [o \in Ops |-> 0]
    /\ completed = [o \in Ops |-> FALSE]

-----------------------------------------------------------------------------
(* Closing and cleaning up *)

\* socket.close(code): the close event comes later.
Shut(code) ==
    /\ socket' = IF socket = "open" THEN "closing" ELSE socket
    /\ closeCode' = IF socket = "open" THEN code ELSE closeCode

\* abort() and callReturnWithTimeout() for each of the given handles.
Abort(S) ==
    /\ aborted' = [o \in Ops |-> aborted[o] \/ o \in S]
    /\ iter' = [o \in Ops |-> IF o \in S /\ iter[o] = "open" THEN "returned" ELSE iter[o]]

Registered == {subscriptions[id] : id \in Ids} \ {0}

ClearInterval == timers' = IF keepAlive THEN timers - 1 ELSE timers

CleanupConnection ==
    /\ closed' = TRUE
    /\ IF closed THEN UNCHANGED <<initTimer, keepAlive, timers, subscriptions, aborted, iter>>
       ELSE /\ initTimer' = FALSE
            /\ keepAlive' = FALSE
            /\ ClearInterval
            /\ Abort(Registered)
            /\ subscriptions' = [id \in Ids |-> 0]

Forgotten == FALSE

HandleClose ==
    IF known
    THEN CleanupConnection /\ disconnects' = disconnects + 1 /\ known' = Forgotten
    ELSE UNCHANGED <<known, closed, initTimer, keepAlive, timers, subscriptions, aborted, iter,
                     disconnects>>

HandleOpen ==
    /\ socket = "new"
    /\ socket' = "open" /\ known' = TRUE /\ initTimer' = TRUE
    /\ UNCHANGED <<closeCode, peerDead, closed, isInitialized, keepAlive, timers, stale, inits,
                   acks, disconnects, disposed, opers>>

TransportClose ==
    /\ socket \in {"open", "closing"} /\ (socket = "open" => ~peerDead)
    /\ socket' = "closed"
    /\ HandleClose
    /\ UNCHANGED <<closeCode, peerDead, isInitialized, stale, inits, acks, disposed,
                   opId, opSt, events, sent, completed>>

\* Server shutdown: every connection is cleaned up and forgotten.
Dispose ==
    /\ known
    /\ CleanupConnection
    /\ known' = FALSE /\ disposed' = TRUE
    /\ UNCHANGED <<socket, closeCode, peerDead, isInitialized, stale, inits, acks, disconnects,
                   opId, opSt, events, sent, completed>>

-----------------------------------------------------------------------------
(* connection_init *)

\* Faulty variant: no check whether an interval is already running.
StartsKeepAlive_Unguarded == KeepAlive
StartsKeepAlive == KeepAlive /\ ~closed /\ ~keepAlive

Initialize ==
    /\ initTimer' = FALSE
    /\ isInitialized' = TRUE
    /\ acks' = acks + 1
    /\ keepAlive' = (keepAlive \/ StartsKeepAlive)
    /\ timers' = IF StartsKeepAlive THEN timers + 1 ELSE timers

\* Any message the client sends counts as activity.
Receives == socket = "open" /\ known /\ ~peerDead /\ stale' = FALSE

MsgInit(k) ==
    /\ Receives
    /\ inits[k] = "unused" /\ \A j \in 1 .. k - 1 : inits[j] # "unused"
    /\ IF isInitialized
       THEN /\ Shut("TooManyInitialisationRequests")
            /\ inits' = [inits EXCEPT ![k] = "done"]
            /\ UNCHANGED <<initTimer, isInitialized, acks, keepAlive, timers>>
       ELSE IF HasOnConnect
       THEN /\ inits' = [inits EXCEPT ![k] = "await"]
            /\ UNCHANGED <<socket, closeCode, initTimer, isInitialized, acks, keepAlive, timers>>
       ELSE /\ inits' = [inits EXCEPT ![k] = "done"]
            /\ Initialize /\ UNCHANGED <<socket, closeCode>>
    /\ UNCHANGED <<peerDead, known, closed, disconnects, disposed, opers>>

OnConnectSettles(k, ok) ==
    /\ inits[k] = "await"
    /\ inits' = [inits EXCEPT ![k] = "done"]
    /\ IF ~ok
       THEN Shut("Forbidden") /\ UNCHANGED <<initTimer, isInitialized, acks, keepAlive, timers>>
       ELSE /\ UNCHANGED <<socket, closeCode>>
            /\ IF closed THEN UNCHANGED <<initTimer, isInitialized, acks, keepAlive, timers>>
               ELSE Initialize
    /\ UNCHANGED <<peerDead, known, closed, stale, disconnects, disposed, opers>>

InitTimeout ==
    /\ initTimer
    /\ initTimer' = FALSE
    /\ IF known /\ ~isInitialized THEN Shut("InitialisationTimeout")
       ELSE UNCHANGED <<socket, closeCode>>
    /\ UNCHANGED <<peerDead, known, closed, isInitialized, keepAlive, timers, stale, inits, acks,
                   disconnects, disposed, opers>>

-----------------------------------------------------------------------------
(* Keep-alive *)

TimePasses ==
    /\ known /\ ~stale
    /\ stale' = TRUE
    /\ UNCHANGED <<socket, closeCode, peerDead, known, closed, isInitialized, initTimer,
                   keepAlive, timers, inits, acks, disconnects, disposed, opers>>

\* A tick of the interval that finds the peer silent; other ticks send a ping.
WatchdogCleans == HandleClose
Watchdog ==
    /\ timers > 0 /\ stale /\ known
    /\ Shut("KeepAliveTimeout")
    /\ WatchdogCleans
    /\ UNCHANGED <<peerDead, isInitialized, stale, inits, acks, disposed, opId, opSt,
                   events, sent, completed>>

\* The TCP connection is half-open: nothing arrives any more, no close event either.
PeerDies ==
    /\ socket = "open" /\ ~peerDead
    /\ peerDead' = TRUE
    /\ UNCHANGED <<socket, closeCode, known, closed, isInitialized, initTimer, keepAlive, timers,
                   stale, inits, acks, disconnects, disposed, opers>>

-----------------------------------------------------------------------------
(* Client messages about operations *)

connButSocket == <<peerDead, known, closed, isInitialized, initTimer, keepAlive, timers, inits,
                   acks, disconnects, disposed>>

MsgSubscribe(id) ==
    /\ Receives
    /\ \/ /\ ~isInitialized \/ subscriptions[id] # 0
          /\ Shut(IF ~isInitialized THEN "Unauthorized" ELSE "SubscriberAlreadyExists")
          /\ UNCHANGED opers
       \/ /\ isInitialized /\ subscriptions[id] = 0
          /\ \E o \in Ops :
                /\ opSt[o] = "unused" /\ \A p \in 1 .. o - 1 : opSt[p] # "unused"
                /\ opId' = [opId EXCEPT ![o] = id]
                /\ opSt' = [opSt EXCEPT ![o] = "setup"]
                /\ subscriptions' = [subscriptions EXCEPT ![id] = o]
          /\ UNCHANGED <<socket, closeCode, aborted, iter, events, sent, completed>>
    /\ UNCHANGED connButSocket

MsgComplete(id) ==
    /\ Receives
    /\ IF subscriptions[id] # 0
       THEN /\ Abort({subscriptions[id]})
            /\ subscriptions' = [subscriptions EXCEPT ![id] = 0]
       ELSE UNCHANGED <<subscriptions, aborted, iter>>
    /\ UNCHANGED <<socket, closeCode, connButSocket, opId, opSt, events, sent, completed>>

\* ping and pong only count as activity; an unknown or unreadable message closes.
MsgOther ==
    /\ Receives
    /\ Shut("BadRequest") \/ UNCHANGED <<socket, closeCode>>
    /\ UNCHANGED <<connButSocket, opers>>

-----------------------------------------------------------------------------
(* executeSubscription: from the registration to the event stream *)

\* Only the operation's own registration is removed: its id may be in use again.
\* Faulty variant: no comparison with the handle.
Unregistered_Any(o) == [subscriptions EXCEPT ![opId[o]] = 0]
Unregistered(o) ==
    IF subscriptions[opId[o]] = o THEN [subscriptions EXCEPT ![opId[o]] = 0] ELSE subscriptions

\* Validation, hook or resolver errors (n = 1: an error frame), or a result
\* that is not a stream (n = 2: next and complete).
SetupFails(o, n) ==
    /\ opSt[o] = "setup"
    /\ opSt' = [opSt EXCEPT ![o] = "ended"]
    /\ sent' = [sent EXCEPT ![o] = @ + n]
    /\ completed' = [completed EXCEPT ![o] = (n = 2)]
    /\ subscriptions' = Unregistered(o)
    /\ UNCHANGED <<conn, opId, aborted, iter, events>>

LateAbort(o) == aborted[o]

SetupStream(o) ==
    /\ opSt[o] = "setup"
    /\ IF LateAbort(o)
       THEN /\ iter' = [iter EXCEPT ![o] = "returned"]
            /\ opSt' = [opSt EXCEPT ![o] = "ended"]
            /\ subscriptions' = Unregistered(o)
       ELSE /\ iter' = [iter EXCEPT ![o] = "open"]
            /\ opSt' = [opSt EXCEPT ![o] = "loop"]
            /\ UNCHANGED subscriptions
    /\ UNCHANGED <<conn, opId, aborted, events, sent, completed>>

-----------------------------------------------------------------------------
(* handleAsyncIterator *)

Frame(o) == sent' = [sent EXCEPT ![o] = @ + 1]

\* The finally block begins: iterator.return() is called.
Finally(o) ==
    /\ opSt' = [opSt EXCEPT ![o] = "closing"]
    /\ iter' = [iter EXCEPT ![o] = "returned"]

NextValue(o) ==
    /\ opSt[o] = "loop" /\ ~aborted[o] /\ events[o] < MaxEvents
    /\ opSt' = [opSt EXCEPT ![o] = "exec"]
    /\ events' = [events EXCEPT ![o] = @ + 1]
    /\ UNCHANGED <<conn, subscriptions, opId, aborted, iter, sent, completed>>

\* The stream ends.
\* Faulty variant: the loop goes on after the complete frame.
LeavesLoop_Not(o) == UNCHANGED <<opSt, iter>>
LeavesLoop(o) == Finally(o)
NextDone(o) ==
    /\ opSt[o] = "loop" /\ ~aborted[o]
    /\ sent[o] <= 2 * MaxEvents  \* bound: at most two frames per event came before
    /\ Frame(o)
    /\ completed' = [completed EXCEPT ![o] = TRUE]
    /\ LeavesLoop(o)
    /\ UNCHANGED <<conn, subscriptions, opId, aborted, events>>

NextThrows(o) ==
    /\ opSt[o] = "loop" /\ ~aborted[o]
    /\ Frame(o) /\ Finally(o)
    /\ UNCHANGED <<conn, subscriptions, opId, aborted, events, completed>>

\* nextOrAbort(): the abort signal wakes the loop, whatever the stream does.
\* Faulty variant: the loop waits for the stream's next event.
AbortWakes_Never(o) == FALSE
AbortWakes(o) == aborted[o]
Aborts(o) ==
    /\ opSt[o] = "loop" /\ AbortWakes(o)
    /\ Finally(o)
    /\ UNCHANGED <<conn, subscriptions, opId, aborted, events, sent, completed>>

ExecDone(o) ==
    /\ opSt[o] = "exec"
    /\ opSt' = [opSt EXCEPT ![o] = "hook"]
    /\ Frame(o)
    /\ UNCHANGED <<conn, subscriptions, opId, aborted, iter, events, completed>>

\* execute() or onNext() throws: an error frame, unless aborted, and on it goes.
EventThrows(o) ==
    /\ opSt[o] \in {"exec", "hook"}
    /\ opSt' = [opSt EXCEPT ![o] = "loop"]
    /\ IF aborted[o] THEN UNCHANGED sent ELSE Frame(o)
    /\ UNCHANGED <<conn, subscriptions, opId, aborted, iter, events, completed>>

HookDone(o) ==
    /\ opSt[o] = "hook"
    /\ opSt' = [opSt EXCEPT ![o] = "loop"]
    /\ UNCHANGED <<conn, subscriptions, opId, aborted, iter, events, sent, completed>>

\* return() answered, or five seconds have passed.
Ends(o) ==
    /\ opSt[o] = "closing"
    /\ opSt' = [opSt EXCEPT ![o] = "ended"]
    /\ subscriptions' = Unregistered(o)
    /\ UNCHANGED <<conn, opId, aborted, iter, events, sent, completed>>

-----------------------------------------------------------------------------
Client == \/ \E k \in Inits : MsgInit(k)
          \/ \E id \in Ids : MsgSubscribe(id) \/ MsgComplete(id)
          \/ MsgOther

Operation(o) == \/ \E n \in {1, 2} : SetupFails(o, n)
                \/ SetupStream(o)
                \/ ExecDone(o) \/ EventThrows(o) \/ HookDone(o)
                \/ Aborts(o) \/ Ends(o)

Stream(o) == NextValue(o) \/ NextDone(o) \/ NextThrows(o)

Next == \/ HandleOpen \/ TransportClose \/ PeerDies \/ Dispose
        \/ Client
        \/ \E k \in Inits, ok \in BOOLEAN : OnConnectSettles(k, ok)
        \/ InitTimeout \/ TimePasses \/ Watchdog
        \/ \E o \in Ops : Operation(o) \/ Stream(o)

Spec == Init /\ [][Next]_vars

\* Hooks and resolvers settle, timers fire, time passes.  Streams and the
\* client owe nothing.
Fairness == /\ \A o \in Ops : WF_vars(Operation(o))
            /\ WF_vars(InitTimeout) /\ WF_vars(TimePasses) /\ WF_vars(Watchdog)

FairSpec == Spec /\ Fairness

-----------------------------------------------------------------------------
TypeOK ==
    /\ socket \in {"new", "open", "closing", "closed"} /\ closeCode \in Codes
    /\ {peerDead, known, closed, isInitialized, initTimer, keepAlive, stale, disposed} \subseteq BOOLEAN
    /\ timers \in Nat /\ acks \in 0 .. MaxInits /\ disconnects \in Nat
    /\ inits \in [Inits -> {"unused", "await", "done"}]
    /\ subscriptions \in [Ids -> Ops \cup {0}]
    /\ opId \in [Ops -> Ids]
    /\ opSt \in [Ops -> Running \cup {"unused", "closing", "ended"}]
    /\ aborted \in [Ops -> BOOLEAN]
    /\ iter \in [Ops -> {"none", "open", "returned"}]
    /\ events \in [Ops -> 0 .. MaxEvents] /\ sent \in [Ops -> Nat]
    /\ completed \in [Ops -> BOOLEAN]

\* What a connection holds dies with it, whoever notices its end first.  No
\* keep-alive interval runs that the connection does not know of, although several
\* connection_init may have waited in onConnect (comment 305-310, 383-386); no
\* source stream outlives its operation or its connection, also when that closed
\* while the operation was being set up (474-476, 559); and onDisconnect runs once,
\* unless the server was disposed.
ReleasedOnClose ==
    /\ timers = (IF keepAlive THEN 1 ELSE 0)
    /\ closed => ~keepAlive /\ ~initTimer
    /\ \A o \in Ops : iter[o] = "open" => ~closed /\ opSt[o] \in Running
    /\ disconnects = (IF closed /\ ~disposed THEN 1 ELSE 0)

\* An operation that is running and was not cancelled is registered under its
\* id, so a complete message or the close of the connection reaches it, also
\* when an earlier operation of the same id is still winding down (663-668).
LiveOperationRegistered ==
    \A o \in Ops : opSt[o] \in Running /\ ~aborted[o] => subscriptions[opId[o]] = o

\* An end reaches what it must end: running operations are where complete and close
\* look for them, and what a connection holds dies with it.
EndReachesAll == ReleasedOnClose /\ LiveOperationRegistered

\* After the complete frame of an operation no further frame is sent for it.
SilentAfterComplete ==
    [][\A o \in Ops : completed[o] => sent'[o] = sent[o]]_vars

\* Every operation of a closed connection ends, and a client that vanished is
\* detected by the keep-alive watchdog and its streams are released, without a
\* close event (comment 415-420).
ConnectionDrains ==
    /\ closed ~> \A o \in Ops : opSt[o] \in {"unused", "ended"}
    /\ KeepAlive /\ peerDead /\ isInitialized ~> \A o \in Ops : iter[o] # "open"
=============================================================================
