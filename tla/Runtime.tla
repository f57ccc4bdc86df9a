------------------------------ MODULE Runtime -------------------------------
(***************************************************************************)
(* What an application does once it is up, one part at a time: it answers  *)
(* requests, authenticates them, delivers events, runs scheduled tasks,    *)
(* keeps cached responses, holds job queues, and logs.                     *)
(***************************************************************************)
EXTENDS Naturals

CONSTANTS
    Parts,
    Requests, Routes, FilterKinds, MaxFilters, Bodies,
    Emitters, Handlers, Event, Patterns, MaxRegs, Emissions,
    Ids, MaxTasks, MaxRuns,
    Readers, Visits, Stores, DefaultSize, Unset, MaxLookups,
    Names, Shutdowns, MaxClients,
    Strategies, Unnamed, Setups, Attempts, Guards,
    Writers, Contexts, Entries, Replacements, MaxBuffer, MaxLogged, MaxReplaced

VARIABLES
    part,
    route, req, bound, cached, chain, held, filters,
    emitter, exact, wilds, seq, emission, stack, inForce, overlapped,
    tasks, task, starting, refused,
    lruSize, store, source, reading, lookups, used,
    owned, shared, clients, connected, entries, open, shutdown, raced,
    setup, latest, boot, nth, calm, listening, made, resolving, classes, registered, inPassport,
    cleaner, tokens, attempt,
    entry, attached, logBuffer, current, logLevels, consoles, sent, handed, forgotten, shown,
    replaced, broken

Http == INSTANCE HttpPipeline
Events == INSTANCE EventEmitters
Timers == INSTANCE Scheduler
Cache == INSTANCE LruStore
Jobs == INSTANCE Queues
Auth == INSTANCE Passport
Logs == INSTANCE Logging

ASSUME RuntimeAssumption ==
    /\ Http!PipelineAssumption /\ Events!PatternsAssumption /\ Timers!SchedulerAssumption
    /\ Cache!StoresAssumption /\ Auth!PassportAssumption /\ Logs!LoggingAssumption

http == <<route, req, bound, cached, chain, held, filters>>
events == <<emitter, exact, wilds, seq, emission, stack, inForce, overlapped>>
timers == <<tasks, task, starting, refused>>
lru == <<lruSize, store, source, reading, lookups, used>>
jobs == <<owned, shared, clients, connected, entries, open, shutdown, raced>>
auth == <<setup, latest, boot, nth, calm, listening, made, resolving, classes, registered,
          inPassport, cleaner, tokens, attempt>>
logs == <<entry, attached, logBuffer, current, logLevels, consoles, sent, handed, forgotten,
          shown, replaced, broken>>
vars == <<part, http, events, timers, lru, jobs, auth, logs>>

Init ==
    /\ part \in Parts
    /\ part # "auth" => setup = CHOOSE s \in Setups : TRUE
    /\ part # "logs" => entry = CHOOSE e \in Entries : TRUE
    /\ Http!Init /\ Events!Init /\ Timers!Init /\ Cache!Init /\ Jobs!Init
    /\ Auth!Init /\ Logs!Init
    /\ part # "http" => route = CHOOSE r \in Routes : TRUE
    /\ part # "events" => emitter = CHOOSE e \in Emitters : TRUE
    /\ part # "cache" => lruSize = Cache!Bound(CHOOSE o \in Stores : TRUE)
    /\ part # "jobs" => owned

Answers == part = "http" /\ Http!Next /\ UNCHANGED <<part, events, timers, lru, jobs, auth, logs>>
Delivers == /\ part = "events" /\ Events!Next
            /\ UNCHANGED <<part, http, timers, lru, jobs, auth, logs>>
Ticks == part = "timers" /\ Timers!Next /\ UNCHANGED <<part, http, events, lru, jobs, auth, logs>>
Caches == part = "cache" /\ Cache!Next /\ UNCHANGED <<part, http, events, timers, jobs, auth, logs>>
Enqueues == part = "jobs" /\ Jobs!Next /\ UNCHANGED <<part, http, events, timers, lru, auth, logs>>

Admits == part = "auth" /\ Auth!Next /\ UNCHANGED <<part, http, events, timers, lru, jobs, logs>>
Writes == part = "logs" /\ Logs!Next /\ UNCHANGED <<part, http, events, timers, lru, jobs, auth>>

Next == Answers \/ Delivers \/ Ticks \/ Caches \/ Enqueues \/ Admits \/ Writes

Spec == Init /\ [][Next]_vars

\* What is awaited settles and timers fire; requests, events and schedule calls
\* need never come.
Progress ==
    \/ /\ part = "http" /\ \E r \in Requests : Http!Step(r)
       /\ UNCHANGED <<part, events, timers, lru, jobs, auth, logs>>
    \/ /\ part = "events" /\ Events!EmitterProgress
       /\ UNCHANGED <<part, http, timers, lru, jobs, auth, logs>>
    \/ /\ part = "timers" /\ Timers!SchedulerProgress
       /\ UNCHANGED <<part, http, events, lru, jobs, auth, logs>>
    \/ /\ part = "jobs" /\ Jobs!QueueProgress
       /\ UNCHANGED <<part, http, events, timers, lru, auth, logs>>
    \/ /\ part = "auth" /\ \E a \in Attempts : Auth!Step(a)
       /\ UNCHANGED <<part, http, events, timers, lru, jobs, logs>>

FairSpec == Spec /\ WF_vars(Progress)

-----------------------------------------------------------------------------
\* No guard is passed by, whatever happens around a request (route-handler.ts 203-229),
\* and an AuthGuard lets in only users that the right strategy knows.
GuardsFirst == Http!GuardsFirst /\ Auth!OnlyUsersEnter /\ Auth!OwnStrategiesDecide

\* Guards, interceptors and injected parameters keep their scopes while requests
\* overlap (route-handler.ts 146-201).
ScopesHonoured == Http!ScopesHonoured

\* A provider with Scope.REQUEST is made anew for every request.
RequestScopeHonoured == Http!RequestScopeHonoured

\* An emission calls exactly the handlers in force, and a message that is logged gets
\* to the logger in force once, under its levels.
EmitsInForce == Events!EmitsInForce /\ Logs!HandedOnce /\ Logs!Threshold

\* Shutdown reaches every timer, and every queue, worker and connection
\* (scheduler.service.ts 186-192, bullmq.service.ts 215-232).
ShutdownReaches == Timers!TimersReachable /\ Jobs!QueuesReachable

\* Cancelled tasks do not count against maxTasks (scheduler.service.ts 57-77).
LimitCountsLive == [][Timers!Refusal => Timers!RefusedForLive]_vars

\* The bounded store keeps what was used last (cache.providers.ts 27-54), each under its
\* own key, and the log buffer what was logged last (logger.service.ts 49-62).
KeepsRecent == Cache!KeepsRecent /\ Cache!OwnEntries /\ Logs!BufferKeeps

Unsettled ==
    \/ part = "http" /\ \E r \in Requests : Http!Busy(r)
    \/ part = "events" /\ \E e \in Emissions : Events!Outstanding(e)
    \/ part = "timers" /\ \E i \in Ids : Timers!TimeoutPending(i)
    \/ part = "jobs" /\ \E c \in Shutdowns : Jobs!Closing(c)
    \/ part = "auth" /\ \E a \in Attempts : Auth!Deciding(a)

\* Every request is answered or turned away, every emission ends, every timeout runs and
\* leaves the map unless its handle was cancelled first, and every close() ends.
EverythingSettles == Unsettled ~> ~Unsettled
=============================================================================
