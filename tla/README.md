# A verification project for nestelia

nestelia (this repository) is a NestJS-like framework on Elysia and Bun: modules, dependency
injection, lifecycle hooks, HTTP and WebSocket pipelines, and packages for GraphQL, RabbitMQ,
microservice transports, scheduling, caching, queues and authentication. This directory holds TLA+
models of the parts whose behaviour depends on the order in which things happen, the TLC
configurations that check them on small instances, and TLAPS proofs of the most important facts for
all instances. Sources are named relative to `src/packages/`; line numbers are those of this commit.

All of this code runs on one JavaScript event loop. Nothing is preempted, so the unit of
interleaving everywhere is **the code between two awaits** (or between two callbacks): one TLA+
action is one such piece with every state change it makes. What varies is the order of the pieces:
which promise settles first, when a timer fires, when the peer closes, when a callback re-enters.
Where two processes talk (microservices, brokers), each is such a loop and the messages between them
are state of their own.

## How to run

    cd tla
    tlc -workers 2 -config Runtime.cfg MCRuntime.tla     # any run of the table below
    tlapm RedisPubSub_proofs.tla                         # all proofs of a module
    tlapm --summary Injector_proofs.tla

`PROJECT.json` lists components, runs, the faulty variant that each property must reject
(`mutants`), the source lines of every definition (`map`), findings, hazards and theorems. The
definitions introduced as "Faulty variant" are never used by a specification: each is what a
plausible bug would turn the definition below it into, and the property named in `mutants` fails
when it is put in its place.

## Inventory

| Component | State it keeps | What is hard | What makes it correct | Module |
|---|---|---|---|---|
| **Container.get and Injector** `core/src/di` | one `_resolutionChain`, an instance per wrapper and context | calls share the chain; failures below optional parameters; cycles | cycle reports are real, the chain drains, singletons are built once | `Injector` |
| **Module graph and boot** `core/src/core/elysia-plugin.factory.ts`, `module.utils.ts`, `application.factory.ts`, `di/container.ts` | modules entered in this session, the container's modules, imports, globals, wrappers | bodies interleave under `Promise.all`, and so do the `get()` calls of their controllers, on one resolution chain; a module counts as initialized when it is entered; cyclic imports | root last, a boot that succeeds has built everything, shared modules share instances unless two `get()` calls meet | `ModuleGraph` |
| **Registrations of the packages** `*/src/*.module.ts`, `configurable-module.builder.ts`, drizzle, graphql-pubsub | providers each `forRoot` call defines | several calls on one package share a module; the first one's providers go to the root | one of each, no mixing, boots when what is injected is visible | `Packages` |
| **Decorators and explorers** event-emitter, bullmq, scheduler, core, apollo, passport, rabbitmq, microservices | lists and marks as metadata on classes | inheritance of metadata; several tokens or wrappers of one object | what is marked is registered, once | `Discovery` |
| **Application lifecycle** `core/src/lifecycle`, `microservices/src/elysia-nest-application.ts` | a process-wide provider list, marks on instances | overlapping `close()`, throwing hooks, several applications | cleanup before teardown, every hook of every provider, `close()` settles | `ApplicationLifecycle` |
| **Transports of an application** the same file | transports, listeners, servers | a start that fails half-way, hangs or is repeated, and `close()` meanwhile | a resolved start has started all; a resolved close leaves nothing open | `HybridTransports` |
| **Error hooks** the same file, `exception-filter.registry.ts` | registered filters, which server has hooks | filters added and the server replaced while requests are served | the first filter that answers decides; Elysia's own answer only where named | `ErrorHooks` |
| **HTTP pipeline, gateways, pattern handlers, resolvers** `core/src/core`, `apollo`, `microservices` | cached guard resolvers, lazily bound controllers, filters | first requests that overlap; every guard, interceptor and parameter may be built across an await | guards first, scopes hold, requests end | `HttpPipeline` |
| **Passport** `passport/src` | strategy registries of the process, token caches of guards | applications that follow one another share all of it; a request builds what a boot builds | only users enter, own strategies decide | `Passport` |
| **Event emitters** `core/src/events`, `event-emitter/src` | handlers of an event, once-marks | handlers that register, remove and emit; overlapping awaited emissions | an emission calls exactly what is in force | `EventEmitters` |
| **Scheduler** `scheduler/src` | handles, timers | callbacks run in a task's constructor; cancelled handles stay in the map; overlapping runs | shutdown reaches every timer, the limit counts live tasks | `Scheduler` |
| **Cache** `cache/src` | bounded store in order of use | values stored after the response; sanitized keys | what is kept was used last, under its own key | `LruStore` |
| **BullMQ** `bullmq/src` | queues, workers, one shared client | overlapping shutdowns, one worker that fails to close | shutdown reaches all, `close()` ends | `Queues` |
| **Logger** `core/src/logger` | replaced logger, levels, buffer, consoles | flush into a logger that throws; consoles made before a change | each message handed on once, the buffer keeps the last | `Logging` |
| **RedisPubSub** `graphql-pubsub/src/redis-pubsub.ts` | `subscriptionMap`, `subsRefsMap`, `pendingSubscribes`, two connections | many subscribers share one (P)SUBSCRIBE that is refused, times out or races an UNSUBSCRIBE; handlers re-enter | both maps agree and follow Redis; `subscribe()` settles | `RedisPubSub` over `PubSubEngine` |
| **PubSubAsyncIterator** the same package | push and pull queue, subscriptions, idle timer | every call awaits `subscribePromise`; a trigger may be refused | order, recency, every subscription given back | `PubSubAsyncIterator` |
| **GraphQL over WebSocket** `apollo/src/services/graphql-ws.handler.ts` | timers, operations with abort controllers and streams | everything is awaited while the client sends, closes, vanishes or reuses ids | ends reach all, silence after complete, closed connections drain | `GraphQLWs` |
| **GraphQL over HTTP** `apollo.service.ts`, `graphql.controller.ts`, `upload.ts` | server instance, chunked responses | paths of uploads overlap; clients leave in the middle of a response | files in place, iterators returned | `GraphQLHttp` |
| **GraphQL schema** `schema-builder.ts`, `type-metadata.storage.ts` | metadata by class, types by name | decorators run bottom up, classes refer forward and share names | the schema says what is declared | `GraphQLSchema` |
| **AmqpConnection and RabbitMQ module** `rabbitmq/src` | channel, `_consumers`, shared RPC queues, outstanding work | every reconnect replays the set-ups; acknowledgements on a dead channel; batches and timers | registry follows the broker, nothing lost, RPC settles once, `close()` drains | `AmqpConsumers`, `AmqpConnection` |
| **Microservice transports** `microservices/src` | pending requests, sockets, reply channels, queue | reply, timeout, loss and close compete; Redis orders nothing between two connections; an instance dies | a request settles once; servers keep account | `TcpTransport`, `RedisTransport`, `RabbitTransport` over `RequestReply` |
| **Testing** `testing/src` | overrides, container, instances | overrides of declared and undeclared tokens; partial failures; `close()` twice | mocks in force, hooks on every instance | `Testing` |

### How the components interact

    createElysiaApplication ──> module factories ──> Container.register / get ──> Injector
            │ (ModuleGraph: gets frame by frame; Packages)     (Injector: scopes, errors, cycles)
            ├─> explorers ── read metadata, register handlers            (Discovery)
            └─> LifecycleManager <── instances                           (ApplicationLifecycle)
                      ^ hooks from ElysiaNestApplication.listen()/close(), which also start and
                        stop transports (HybridTransports) and own the error hooks (ErrorHooks)

    request, event, timer, job ──> Runtime: HttpPipeline, Passport, EventEmitters, Scheduler,
                                            LruStore, Queues, Logging

    GraphQL client <─ HTTP ─> GraphQLHttp <── schema ── GraphQLSchema
    GraphQL client <─ WebSocket ─> GraphQLWsHandler ── for await ──> PubSubAsyncIterator
                                     (GraphQLWs)         (source stream)     │ PubSubEngine
                                                                            v
                                              RedisPubSub <── ioredis ──> Redis

    ClientProxy ── TcpTransport | RedisTransport | RabbitTransport ──> Server   (Microservices)
    AmqpConnection (AmqpConsumers) <── amqp-connection-manager ──> RabbitMQ

Components that only meet through an interface are composed through that interface and not in one
product state space. `PubSubEngine` states what an engine promises and how it is used: `RedisPubSub`
and `PubSubAsyncIterator` both implement it, one from below and one from above. `GraphQLWs` treats
its source stream as any AsyncIterator: one that delivers, ends, throws or keeps silent, and whose
`return()` takes time. `RequestReply` states what a request promises its caller; the three
transports and `AmqpConnection.request()` implement it.

Four modules gather components that share no state, so that one run answers for all of them; which
one runs is chosen in the initial state and never changes, and the others stay as they were:
`Application` (by `scene`: modules, packages, handlers, hooks, testing, transports, errors),
`Runtime` (by `part`: http, events, timers, cache, jobs, auth, logs), `GraphQL` (by `aspect`: schema,
http, iterator) and `Microservices` (by `transport`, which in the code is one option as well).

## The modules and the code

### Building an application

**Injector** keeps one stack of `loadInstance()` frames per `get()` and the one
`_resolutionChain` they share. `Start`, `Resolve` (the next parameter: cached, pushed, missing or
circular), `Inject`, `Catch` (an error at an optional or mandatory parameter), `Construct`,
`ConstructorThrows` and `Settle` are the steps; `Turn(g)` says that there is no await between
resolving a parameter from the cache and the next one. Whether a caller awaits one `get()` before the
next, as `initializeSingletonProviders` does, or not, as `Promise.all` over imports and controllers
does, is part of the program that is considered (`program.sequential`). Aliases, module lookup and
`ModuleRef` are folded into the token.

**ModuleGraph** takes a graph (imports, kinds of module, homes, exports, dependencies, any number of
controllers in each module) and runs `createElysiaApplication()` over it. `CallImport` and `EndOfImports`
are the synchronous part of the bodies, with `stack` for bodies entered from bodies; `ImportSettles`,
`ImportFails`, `Register`, `ModulesSettle` and `Boots` what follows their awaits.

A module makes a `get()` for each of its controllers, one after the other where it validates them
(`Validate`, `Checked`), all at once where they have hooks (`SetupHooks`, `HookSettles`: the `Promise.all`
of `elysia-plugin.factory.ts:253`); other modules do the same meanwhile, and at the end the root asks for
every provider and controller in turn (`LoadProvider`, `LoadController`). `path[c]` has the frames of a
`get()`, `chain` is the injector's one `_resolutionChain`. Down to its first await a `get()` runs without
a break (`calling`, `Descend`: it pushes each provider on the chain, or throws if it is there); after each
await it stores one instance, or passes the error on, and pops the chain's last entry, whoever pushed it
(`Load`). So a `get()` that comes upon what another one is building sees a circle that is none, one that
pops another's entry lets a third build the same provider again, and both follow from the control alone.
`met` records the wrappers where this happened; `built` keeps every instance, with what it took.

The order in which waiting bodies and frames continue is left open, because each may await middleware or
an asynchronous factory that the model leaves out; left out are also the `get()` calls for class
middleware and for gateways. A wrapper is a pair of module and token: the container knows a module
reached through imports by one of its two function objects and the body registers under the other, so one
provider can have a wrapper in the root and one in its own module.

**Packages** says, call by call, which providers `forRoot`, `forRootAsync`, `registerQueue` and the
like define (one operator per call), and where core puts them: the first call's in the root, those of
later calls in the package's own module. `ImportCall`, `Globalize`, `RegisterRoot` and `Load` carry
them to the outcome of the boot.

**Discovery** has class hierarchies whose classes decorate two methods, and the three ways of the
packages to leave metadata (a shared list that `Reflect.getMetadata` finds through the prototype
chain, an own list, a mark on the method). The explorers' walk over wrappers, with what it skips and
whether it looks at own names only, is the other half.

**Testing** has a builder that collects overrides, `compile()` (fill the container, build what is
declared, run `onModuleInit`), `get()`, `resolve()` and overlapping `close()` calls.

### An application's life

**ApplicationLifecycle** has one `LifecycleManager` for all applications of the process. `arrays`
are the provider lists it has had (`clear()` replaces the array, so a `close()` in its loop goes on
with the old one), and `closer[c]` is the program counter of a `close()`. Each hook settles in a step
of its own and may throw.

**HybridTransports** has `connectMicroservice()`, several calls of `startAllMicroservices()` (one
transport after the other; a `listen()` that opens, fails or never answers) and the loop of `close()`.
**ErrorHooks** has global filters and servers that come while requests fail: the hooks of the first
server ask the filters in order, and the fallback answers for them.

### What runs

**HttpPipeline** follows one decorated method (HTTP route, gateway upgrade, pattern handler, GraphQL
resolver) for overlapping requests: class middleware, guards, interceptors, parameters, handler, and
the route's error hook with the filters. `bound`, `cached` and `chain` are what requests share. A
token is asked for once per request. The kinds of route differ in the tiers they have, as in the code.

**Passport** has strategies that register themselves when constructed, in registries of the process;
applications that follow one another; and attempts whose guard looks a strategy up, builds it if the
container has it, and looks again.

**EventEmitters** models both emitters, for the registrations of one event and of wildcard patterns
that match it or do not (how the package compiles a pattern stands beside what the documentation says
it covers); handlers run on the stack of their `emit()` and may register, remove and emit.
**Scheduler** has the map of handles apart from the timers that really run, and the callbacks, which
`executeOnInit` runs inside the constructor. **LruStore** has the store's order of use and requests
that look up, produce and store late, or bypass the cache. **Queues** has `QueueService`'s maps and the
objects behind them, and shutdowns that overlap. **Logging** has the chain from a message to the
logger it ends in, with the buffer in between.

### GraphQL

**PubSubEngine** is abstract: per subscription id a state (unused, pending, active, failed, closed)
and the number of messages its handler was given. Ids are fresh, a call is answered once, and a handler
runs neither after its `unsubscribe()` nor after its `subscribe()` failed.

**RedisPubSub** models the class field by field: `subscriptionMap`, `subsRefsMap` (an empty sequence
is an absent key), `pendingSubscribes`, `currentSubscriptionId`; `call` is the promise each
`subscribe()` returned, and `rolling` the microtasks that a rejection queued. `IssueSubscribe`,
`WaitTimeout`, `WaitError`, `Resolve`, `Reject` and `RejectWaiter` are the continuations of the shared
(P)SUBSCRIBE; `Message` and `FanStep` (with `FanThrow`, `FanDone`) one turn each of the loop of
`onMessage`. ioredis and Redis are external and modelled from their use: a `status`, an ordered `pipe`
of commands, the set `server` of what Redis has subscribed for this connection.

**PubSubAsyncIterator** uses an instance of `PubSubEngine` for the engine side. `CallNext` and
`CallReturn` are the calls up to the await of `subscribePromise`; `micro` is the queue of calls waiting
behind it. As microtasks run before any other event, every external action requires `micro` to be
empty once the promise has settled.

**GraphQLWs** is one connection: client messages, timers and the close event are actions; `inits[k]`
and `opSt[o]` are the program counters of the asynchronous handlers. `timers` counts the intervals
that really run, as opposed to the handle the state keeps. **GraphQLHttp** is the endpoint: start and
stop of Apollo Server, uploads placed by path, chunked responses with their iterators.
**GraphQLSchema** runs the decorators in the order JavaScript runs them and then the builder, whose
types are cached by name while references are to classes.

### Brokers and transports

**AmqpConsumers** has the consumers: the explorer's sequential registration, the set-up functions that
`amqp-connection-manager` keeps and replays on every channel, RPC queues that several handlers share
(or may not share), cancelling and resuming. **AmqpConnection** extends it with messages: deliveries,
batches with their timer, acknowledgements on a channel that may be gone, `publish()`, `request()`,
`close()`. Handlers and messages have routing keys: the broker routes by the bindings it has (`bound`,
which may be left by an earlier run of the program), and the connection compares once more which of the
handlers of a queue a message is for. That comparison (`Matches`, `Chosen`) is beside what a topic exchange
does (`Binds`); `MessagesAccounted` compares the two for every key and pattern within `MaxWords`.

**RequestTable** is what all requesters of `microservices` have in common, a map of pending requests
with a timer each; **TcpTransport**, **RedisTransport** and **RabbitTransport** each model client,
server and what is between them (a socket whose two ends learn of its end separately; two connections
per side without an order between them; a work queue with acknowledgements and dying channels).

## Runs, and what they show

| Run | Bounds | Question and answer |
|---|---|---|
| `RedisPubSub_safety` | 2 triggers (a channel and a pattern), 3 `subscribe()` calls, 2 messages, 1 connection loss, handlers that subscribe, unsubscribe and throw | The two maps agree (`RefsConsistent`), bookkeeping and Redis stay in step (`RedisInStep`), all of it implements `PubSubEngine` (`EngineSpec`), every `subscribe()` settles. Holds. |
| `RedisPubSub_fanout_unsub` | 1 trigger, 3 subscribers, 1 message | **Violated**: a handler that unsubscribes itself splices the array `onMessage` walks, and the next subscriber misses the message. |
| `Injector_boot` | 3 providers, every kind of cycle, missing and optional parameter with 3 calls one after another; acyclic and scoped graphs with 3 overlapping calls; a constructor that may throw | Cycle reports are real, the chain drains, singletons are built once when calls do not overlap, every `get()` settles. Holds. |
| `GraphQLWs_connection` | 2 ids, 2 operations, 2 `connection_init`, 1 event per stream, keep-alive | An end reaches all it must end, silence after complete, closed and dead connections drain. Holds. |
| `Microservices` | 3 transports; 2 calls and 1 event by the client, 2 server pushes (TCP), 2 messages at a time, 2 TCP connections, 1 lost Redis message or connection, 2 service instances (RabbitMQ) | No request without a timer, servers keep account of what they hold, `RequestReply` is implemented, every request settles. Holds. |
| `Microservices_stale_buffer` | TCP | **Violated**: a frame cut off by a broken socket is put in front of the first frame of the next connection. |
| `AmqpConnection` | 9 applications of at most 3 handlers and 3 messages, 2 channels, batches and prefetch of 2, up to 2 cancellations | The registry follows the broker, no message is lost, the handler chosen is one the message was routed for, `request()` implements `RequestReply`, `close()` drains. Holds. |
| `Runtime` | 2 requests on every route considered, 2 filters; 2 handlers, 2 registrations (for the event, a pattern that covers it and one that does not) and 2 emissions per emitter; 3 tasks, limit 2, 2 runs; stores bounded by 1 or 2 or not at all, 2 readers, 5 lookups; 2 queues, 2 shutdowns, 2 clients; 3 strategies, up to 2 applications, 2 attempts; 3 messages, buffer of 2, 2 replacements | Guards first and only users enter, scopes hold, emissions and messages reach what is in force, shutdown reaches everything, limits count what is live, what was used last is kept, everything started settles. Holds. |
| `Runtime_request_scope` | http only | **Violated**: a request-scoped provider in a controller's constructor is one for all requests. |
| `GraphQL` | programs of 3 classes with 2 properties and at most 3 decorators; multipart requests with 2 files and depth 3, 1 chunk; iterator over 2 triggers with a queue of 2, 4 messages, 3 `next()`, 1 `return()`, idle timeout | The schema says what is declared, uploads are placed and responses returned, order and release of the iterator, refinement of `PubSubEngine`, liveness. Holds. |
| `GraphQL_hide_field` | schema only | **Violated**: `@HideField()` hides only what is declared before it and by its own class. |
| `Application` | root and 3 modules with 2 providers and 3 controllers over 8 import shapes; every pair and some triples of package registrations; 3 classes with 2 methods in 11 families of decorators; 2 applications in sequence, 3 `close()`, 3 instances; 2 test modules with 2 overrides and 2 `close()`; 2 transports of 3 kinds, 2 starts, 1 `close()`; 2 filters, 2 servers, 1 request | Boot order, fail-fast, sharing, discovery, error handling, graceful stop and hooks, and the end of boots and `close()` calls. Holds. |

Where a property of a composition is a conjunction (`EmitsInForce`, `KeepsRecent`, `FailsFast`, ...),
each conjunct is a property of one part, stated and explained in its own module.

### Why the bounds are enough

* *RedisPubSub*: a hazard needs at most a subscriber that is leaving, one that joins while
  its UNSUBSCRIBE is in flight, and one that shares the new SUBSCRIBE: three calls. Two triggers let
  commands of different keys interleave in the pipe. One connection loss suffices to replay
  and to drop a command. The two keys have different kinds because a trigger used as both is
  a known limitation (below) that would hide everything else.
* *Injector*: three providers are enough for a cycle with an entry outside it, and three calls so
  that a third sees the chain two others have disturbed.
* *GraphQLWs*: two operations of the same or of different ids cover reuse while winding down; with
  two inits a second overtakes the first. More events per stream only repeat the loop.
* *Microservices*: two calls let one reply be taken for another's or share a reply channel; with two
  connections something of the first can survive into the second; two instances let one die.
* *AmqpConnection*: two channels are one reconnect, after which every further one meets the same
  registry; a queue shared by two handlers has a first and a follower, a third may disagree with them;
  three messages fill a batch of two and begin another. Keys and patterns of three words have a "#" at
  the start, in the middle and at the end, and a word too few or too many beside each.
* *Runtime*: hazards between requests, emissions, shutdowns or attempts come from pairs. Three tasks
  reach a limit of two; five lookups fill and overflow a store of two.
* *GraphQL*: three classes are a base, a derived class and one that refers to either; a queue of two
  overflows with four messages; three `next()` calls make one waiting, one answered and one after the
  end; operations are queries, without which graphql-js refuses any schema (the theorem has all kinds);
  two files give every relation between two paths.
* *Application*: an import shape is decided by who is entered when a second importer arrives, and the
  eight shapes cover tree, chain, sharing in both orders, cycles and modules left out. Registrations
  interact in pairs. Two controllers, of one module or of two, are asked for at once and share a provider,
  share one below, or do not; it takes a third to build again what another's pop has taken off the chain. Three closers, because the first one through clears the list under two others
  that may be in different loops.

`CHECK_DEADLOCK FALSE` stands in every configuration: each of these systems may legitimately stop
(all calls made, connection closed, application booted). That nobody waits for ever is stated by the
liveness properties.

### Fairness

Fair are only steps the runtime owes: continuations of settled promises, microtasks, timers, and
answers of a peer the code relies on. Callers, clients, publishers and peers owe nothing.

* *RedisPubSub*: promises, the fan-out loop, and Redis (ioredis reconnects for ever).
* *Injector*: constructors return and factories settle.
* *GraphQLWs*: hooks and resolvers settle, timers fire. Source streams and the client owe nothing,
  and a stream's `return()` need not settle either: the handler waits five seconds for it (676-699).
* *Microservices*: the timers of requests fire, and nothing else: no server need answer.
* *AmqpConnection*: handlers settle, batch timers fire, confirms arrive, and what `close()` awaits
  resumes it. The broker need neither come back nor deliver.
* *Runtime*: what is awaited settles (hooks, guards, handlers, `validate()`, BullMQ's `close()`) and
  timeouts fire.
* *GraphQL*: Apollo Server settles what it executes and ends its responses; engine, microtasks and
  idle timer as `SubscribeSettles` of `RedisPubSub_safety` justifies.
* *Application*: promises settle, hooks and transports settle or fail. A hook that never settles
  blocks `close()` in the code as well. The scenes testing, transports and errors have no liveness
  property: a `listen()` that never calls back is one of the things they allow.

## What is proved

TLC answers for the small instances above; the theorems answer for every value of the constants.
Each proof module has the same plan: the inductive invariant as a conjunction of named parts, one
lemma per action (or group of actions) that it is kept, one that the property follows from it, and
the theorem. Assumptions on constants are the `ASSUME`s of the modules, which TLC evaluates in every
run; where a theorem needs more, its statement says so. Hypotheses of a run's constants that a proof
does not mention (bounds, small sets) are not used: the bounds are arbitrary numbers there.

**`RedisPubSub_proofs`**, for any triggers, any number of calls, messages and connection losses.

* `TypeCorrect`, `Consistency` (`RefsConsistent`: every id is listed exactly once under its trigger
  as long as the map knows it), `Refinement` (`EngineSpec`). The invariant is
  `IInv == TypeOK /\ IdsFresh /\ RefsConsistent`. `RefsConsistent` alone is not inductive: when
  `subscribe()` appends its id, the list stays free of repetition only because the id is new. The
  refinement needs it because a message goes to whoever is in the list, and only `RefsConsistent`
  says that those are not closed.
* `SubscribersBacked` (`RedisInStep`), under the hypothesis `OneKindPerTrigger`: no trigger is both a
  channel and a pattern. Without it the property is false in the code (see below). `InStep` adds
  what decides between a `subscribe()` and an UNSUBSCRIBE on the way: while a (P)SUBSCRIBE is pending
  all subscribers of its trigger wait, otherwise none does (`Settled`); a (P)SUBSCRIBE in the pipe is
  the last command about its key (`LastWord`); what Redis holds for a failed or pending subscription
  is about to be let go (`Undone`).

**`Injector_proofs`**, for any providers, graphs, contexts and calls.

* `TypeCorrect`, for overlapping calls as well. `TypeInv == TypeOK /\ Numbered /\ Rooted /\ Wired`:
  instances are numbers of builds that happened, the lowest frame of a call is what it asked for, and
  a frame above another is the dependency that one awaits. Without the last, a value handed up need
  not fit the parameter it is used for.
* `CyclesAreReal` (`ReportsRealCycle`): `OneAtATime` says that, when calls do not overlap, at most one
  runs and the shared chain is exactly its stack; the stretch of the chain that an error names is
  then a path of dependencies. An overlapping call finds on the chain what another one is building,
  so the condition cannot be dropped; it is part of the property.
* `ChainNeverStuck` (`ChainDrains`), for overlapping calls too: which entry a call pops is not
  determined then, but there are as many as there are frames (`Counted`).
* `SingletonsAreSingle` (`SingletonOnce`): what is on the chain is there once and not built yet, and
  the instance a singleton has is the only one made of it (`Once`).

**`GraphQL_proofs`**, its part `Ws` (an instance of `GraphQLWs`), for any ids, operations,
`connection_init`s and both hooks.

* `EndsReachAll` (`EndReachesAll`), `SilenceAfterComplete` (`[][...]`). The invariant says what
  the connection holds in each stage of its life: intervals are counted by their handles (`Timers`),
  the map has accepted operations under their own ids and nothing once closed (`Map`), a source stream
  is open only in the loop of an operation that was not cancelled (`Streams`), and after a complete
  frame only the finally block is left (`Completed`).

**`Microservices_proofs`**, for any requests, patterns, sockets and service instances, over TCP, Redis
and RabbitMQ.

* `PromiseHeld` (`RequestSpec`: the composed specification implements `RequestReply`). Every step of
  every transport is one of a few moves of the request table (`TableStep`), and a move with
  `Answerable` is a step of `RequestReply`. What each transport has to add is that a reply which is
  under way answers a request that was served, and that a request in the map still waits: the frames
  on TCP's wires (`TcpWires`), Redis' notes and mailboxes (`RedisMail`), RabbitMQ's letters
  (`OnItsWay`; a push that failed on a dead channel stays in the map, but was never carried).
* `NoRequestForgotten` (`NoOrphan`); `AccountKept` (`ServersKeepAccount`): `refs` is the number of
  requests that wait on a reply channel, and the last command about that channel says whether there
  are any (`Told`); only channels that are up hold deliveries (`Held`).

**`AmqpConnection_proofs`**, for any handlers, applications, messages, batch sizes and number of channels.

* `RegistryFollows` (`RegistryInStep`) from `ConsumersInv`: a handler with a set-up function under way
  on the live channel has no consumer there yet and only one such function (`Live`); a tag belongs to
  one handler for ever (`Tagged`); handlers that share a queue agree on its options, or the later ones
  would be refused (`Agreeing`).
* `RequestsKeepPromise` (`RpcPromise`: `request()` implements `RequestReply`).
* `NothingLost` (`MessagesAccounted`), under the hypothesis `PlainBindings`: the "#" of a pattern is its
  last word, for the keys it meets. For other patterns the comparison in the connection accepts more
  than the broker routes (see below), so that a handler chosen need not be bound to the message.
  `Remembered` finds each message in the outbox, a queue or unacknowledged; `InHand` says that what is
  unacknowledged came on the live channel and is being worked on or in a batch.
* `RoutingAgrees` (`MatchesRouted`): `findRpcHandler()` matches whatever a topic exchange lets through,
  and by plain patterns nothing else. A binding is a monotone function from words of the pattern to
  places in the key; up to the first "#" it is the identity, which is all that the comparison sees.

**`Runtime_proofs`**, for any routes, requests, tasks, queues, keys, strategies and messages; its
invariant is the conjunction of one for each part, since the parts share nothing.

* `GuardsComeFirst` (`GuardsFirst`), `ScopesAreKept` (`ScopesHonoured`): the log of a request is its
  guards in order and then what is no guard's, and how far it is depends on the program counter
  (`Ordered`); an instance that waits to be asked is already of the right owner (`Owned`), and a
  cached one is the container's (`CachedOwn`). For Passport, what the container has built is what the
  registries hold, as long as nothing disturbs the boot (`Calm`), the strategies a boot is past are
  built (`Booted`), and an attempt that counts on an application is decided by it (`Owed`).
* `NothingOutlivesShutdown` (`ShutdownReaches`): a task in its constructor is not in the map and has a
  timer unless it is a timeout (`Starting`); what a `close()` has not closed yet, it waits for
  (`Reached`).
* `RecentIsKept` (`KeepsRecent`): the store is the end of the history of uses and has no key twice.
* `RefusedForLiveTasks` (`LimitCountsLive`): a task is refused only after the map was cleaned.
* `EmissionsReach` (`EmitsInForce`). `Tables` says that the package's two lists are the registrations
  in force with and without a wildcard, each in the order of registration, so that merging and sorting
  them gives what is in force, in order; `Sharing`, that the core's emissions under way work on the array
  that the map has; `OneOrder`, that what an emission has still to call is the rest of what it read.
  That a compiled pattern matches what the documentation says it covers (`CompileIsCovers`) is a lemma about
  all patterns and events. For the logger, `GivenInv`: the first `sent - Len(logBuffer)` messages were
  handed on, in order, or given up when the buffer was full; and `Threshold`, that a console printed only what
  the levels it was made under let through.

**`ModuleGraph_proofs`** (the lemmas about the graph) and **`Application_proofs`**, which extends it, for any
module graph, providers, controllers, transports, test modules and number of calls.

* `RootIsLast` (`RootLast`). `Entering`: a module is in the stack of calls once, and the imports it has
  not come to are idle; `Imported`: a body past its imports has seen each of them settle. A body that
  awaits an import does not follow the whole chain below it, so these say nothing yet of a module that
  somebody else entered. `Reached` does: a set of modules that has the root and, with a module, what
  its imports have started, has every module that was entered. When the root is past its imports, the
  modules that are done are such a set.
* `StopsGracefully` (`GracefulStop`), `HooksFire` (`EveryHookFires`), under the hypothesis
  `OneAtATime`: the next application is created when the one before is closed, or was never handed out.
  Several at a time share one LifecycleManager, and the code keeps no such promise (see below).
  `Sound` says of each `close()` that the array it iterates has every own instance of its application,
  or that another `close()` has been through with the hook: the one that ends first starts another
  array, which is empty, under the phases of the others. `Listed` and `Counted` carry what
  initialization leaves: what is registered is in the manager's array, what is initialized was so once.
  For the transports, `NothingListens` rests on which socket belongs to which server, and for the
  testing package `Cleaned` says what a `close()` finds that begins while, or after, another one runs.

* `HandlersFound` (`HandlersRegistered`). Of the decorators, `ClassInv`: a list on a class's metadata is its
  own, or the one it shares with the class it inherits from (`Sharing`), and a list has what was pushed
  onto it by the class it begins at and by those that share it (`Begun`). `MarksRight` then says which
  entries a finished class has, by induction along the chain of bases; `Explored`, that a wrapper which
  was visited has registered what its class marks; `Heard`, that a custom transport that is up has a
  listener for its errors; `ErrorsInv`, which filters an error has met.
* `BootsOrFails` (`FailsFast`), however the gets overlap. `Wired`: providers are registered by bodies past
  their imports, and after a boot that succeeded nothing is left to load. `PathsInv`: each frame of a
  `get()` waits for the dependency of the frame below, which was looked up when the frame was pushed; a
  frame that stores its instance has that dependency, or fails with it. Whose entry a frame pops does not
  matter for this, but that a frame is never left without its dependency does.
* `ModulesShare` (`SharesInstances` of `ModuleGraph`). That gets meet only where controllers share a
  provider: each frame of a `get()` made for a controller belongs to that controller, if the providers
  can be told apart by who uses them (`Coloured`), and on one path the dependencies get nearer to the
  bottom, so that no provider is on it twice (`Ranked`). As long as none has met another, what is on a
  path is not built yet and on no other path (`Alone`), so nothing is built twice, although a pop may
  take another's entry. What remains is which wrapper a lookup finds: `Running` (a body that runs is in
  the stack), `Enlisted` (the imports of a module that is imported once wait for its body; what a module
  was given is its own or the root's) and `Shared` (nothing can be found that the root does not have, and
  what is built or under way is the root's; in a well-formed graph what the chain has is built or under
  way, so that nobody is told of a circle, and nobody fails). The property keeps out what makes it false
  (below): gets that meet, a dynamic module that is imported again early, and a global one that is
  offered early.
* `MocksStand` (`MocksInForce` of `Testing`) from `MockInv`: whatever `compile()` has registered is an
  override, or declared and not overridden; what is resolved is registered; and every provider up to
  the one whose turn it is was tried. What a provider of the list is after any number of `addProvider()`
  calls is one induction over bench and overrides (`ProvidedIs`).

**`GraphQL_proofs`**, for any triggers, queues, calls and messages, any uploads and any program of classes.

* `MessagesInOrder` (`DeliveredInOrder`), `IteratorLeaksNothing` (`NothingLeaked`), `IteratorUsesEngine`
  (`EngineSpec`: with `Refinement`, both sides of `PubSubEngine` are proved). `ReaderInv` is
  `TypeOK /\ Phases /\ Pulling /\ Waiting /\ InTurn /\ Latest`. `DeliveredInOrder` is not inductive: a `next()`
  first waits among the microtasks, then for a message. So the invariant says that the microtasks
  (`Waiting`) and the pull queue (`Pulling`) are in the order of the calls, that no call overtakes an
  earlier one (`InTurn`), and that the push queue is the end of what has arrived (`Latest`).
* `UploadsReach` (`RequestsServed`) from `HttpTyped`, `PlacedOnce` (what came of an upload is what Apollo
  Server gets, or the request was refused) and `OpenWhileDraining` (an iterator is open only while the
  response is drained from it). That the files of an upload are in place, whatever its paths, climbs over
  the entries of its map and the paths of each.
* `SchemaSays` (`SchemaFaithful`). `SchemaInv` says that the storage holds exactly the declarations that
  are live, each name once (`FieldsHold`), that none was written twice (`WroteOnce`), and that a schema is
  the one built from them. What that schema says is then a fact about the builder: fields are collected
  along the base classes (`CollectedSays`), types are resolved by name to what was made last under it
  (`MadeLastIs`, `ResolvedMeans`), and kinds fit their positions, or graphql-js refuses.

To carry these proofs some assumptions of the modules say what the types of their constants are
(`SchedulerAssumption`, `PipelineAssumption`, `StoresAssumption`, `PassportAssumption`,
`LoggingAssumption`, gathered in `RuntimeAssumption`; `UploadsAssumption` and `GraphQLSchemaAssumption`;
`ErrorHooksAssumption`, `TestingAssumption` and others in `ApplicationAssumption`). Some restrict more than
a type: pattern handlers have no guards, as in the code; the log buffer has room for one message; a
WebSocket client has some id to use; a log call has arguments; the providers of a module graph depend on
one another without circles (those are `Injector`'s subject) and there are finitely many tokens, none of
which is a controller;
and a class inherits from one that was defined before it.

The library's induction theorems take operators as parameters, which the installed backends cannot
instantiate. What a recursive function computes is proved here by its least counterexample: the set of
arguments for which the claim fails is a set of numbers, and if it is not empty it has a least one
(`LeastOf`). `CountsUp`, `Climbs`, `AlongTheChain`, `UpTheChain`, `DownTheTree` and `EveryClass` are this
argument for counting, climbing a path, base classes and dependencies. Operators of the community modules
that take an operator (`SelectSeq`, `SortSeq`, `FoldLeft`) cannot be unfolded by the backends; the models
write them as functions (`Filtered`, `Sorted`, `Provided`).

### What is only model-checked

* *Liveness* (`SubscribeSettles`, `GetSettles`, `RequestSettles`, `ConnectionDrains`, `CloseDrains`,
  `EverythingSettles`): neither fairness nor `ENABLED` is within the prover's reach.
* Of `SharesInstances`, what the packages contribute (`Boots`, `BuiltOnce`, `Coherent`): there each call
  of `forRoot` and the like is a definition of its own, written with TLC's `:>` and `@@`, which the
  backends cannot unfold, and what is loaded is a recursion over wrappers. TLC has every pair of calls,
  and some triples, in each place for ConfigService.

## Where the code disagrees with what is said of it

With a run that shows it: the four violated runs above (`findings` in `PROJECT.json`).
Seen while modelling, without a run of their own; where one would make a property false, the module
says what it excludes.

**Dependency injection and boot**

* Overlapping `get()` calls can report a circular dependency that does not exist (`injector.ts:46`)
  and build a singleton twice (`:75`; `docs/features/dependency-injection.md:67`). An application meets
  both when it boots. Where the controllers of two modules need a service of a third that nobody has built
  yet, the second module finds it on the chain, the error is swallowed (`module-validator.ts:71`) and the
  boot fails with "Missing providers"; two hooked controllers of one module that share such a service
  (`elysia-plugin.factory.ts:253`) fail with "Circular". And a service that two controllers are set up with
  may be built twice in a boot that succeeds, when the pop of one takes off the chain what the other builds
  and a third asks for it (`CrowdGraphs` of `MCApplication`). `SharesInstances` says so (`met # {} => ~Apart`) and
  promises nothing once `met` is not empty.
* A transient dependency is kept in the context of its `get()` and handed out again
  (`injector.ts:276`; `docs/features/dependency-injection.md:68`), a request-scoped provider under a
  singleton is cached for ever (`instance-wrapper.ts:258`; `:69`), and a `forwardRef` cycle builds its
  consumer twice (`injector.ts:147`; `docs/advanced/forward-ref.md:46`).
* A shared dynamic module that is imported again while its own imports are pending gives the importer
  another instance (`elysia-plugin.factory.ts:59`; `module-resolution.spec.ts:192` expects one), and a
  well-formed graph with such a module may fail to boot. A `@Global()` module that has imports and is
  imported twice is offered to everybody by the second import, which returns at once
  (`elysia-plugin.factory.ts:59`, 187-201), while its own body awaits: who needs one of its providers in
  between builds it from the module's own wrapper, and the boot builds a second one in the root
  (`GlobalsAreReady` keeps this out of `SharesInstances`; `MCApplication` has the shape).
* Creating an application clears the container and the lifecycle manager of one that still runs
  (`container.ts:216`): its providers are never shut down and its filters are gone (`OneAtATime = FALSE`
  admits it in the model). A `useValue` object keeps its registration mark, so the next application
  never calls its shutdown hooks (`module.utils.ts:127`; `docs/features/lifecycle-hooks.md:111`): hence
  `OwnOf` in the properties. A transport that fails to close ends `close()` before the last hooks
  (`elysia-nest-application.ts:622`).
* Packages: `QueueModule.forRoot` with `registerQueue("x")` builds a second QueueService that nothing
  closes (`docs/packages/bullmq.md:162`; `bullmq.explorer.ts:26`). Of two `RabbitMQModule.forRoot` with
  different names only the first connection is created (`rabbitmq.module.ts:126-131`, 303-307). A second
  registration that injects a `ConfigService` listed by the root fails the boot. With
  `provideInjectionTokensFrom` the cache brings a ConfigService of its own, and what other packages inject is
  then built twice (`OfApplication` keeps the application's own classes out of `BuiltOnce`). `imports` of
  `forRootAsync` (drizzle, cache) and `extraProviders` (cache) are ignored. `GraphQLModule.forRootAsync`
  calls `useFactory` twice (`graphql.module.ts:151`, 167).
* Discovery: a derived class that decorates an overridden handler registers it twice, on instances of
  the base as well, and two siblings register each other's methods of the same name. A `useValue`
  object under two tokens has its `@OnEvent` handlers registered twice. Inherited `@MessagePattern`,
  `@EventPattern`, `@RabbitSubscribe` and gateway methods are not registered. A controller with routes
  of its own hides those it inherits. The core's `registerEventHandlers` is never called.
* Testing: of two overrides the first wins for a declared token, the last for another; `get()` of an
  alias always throws; the providers of imported modules are not registered; when an `onModuleInit`
  throws, nobody can close what was built; what `resolve()` builds after `compile()` gets no hooks, and
  an object under two tokens gets them twice.

**Requests**

* Two requests that resolve one request-scoped guard at the same time fail as "circular", parameters
  resolved in one `Promise.all` that share a dependency may come out `undefined`, and an unregistered
  guard is constructed once per overlapping first request (`route-handler.ts:157`;
  `guard-interceptor-reuse.test.ts:107`).
* CacheInterceptor cannot run under the pipeline, which calls `intercept` with the Elysia context
  only and constructs it without dependencies (`docs/packages/cache.md:115`). A middleware that follows
  `docs/features/middleware.md:22` (`await next()` without return) drops the response; one that cannot
  be resolved is skipped with a log line (`elysia-plugin.factory.ts:139`).
* Pattern handlers have neither guards nor interceptors; a filter class without a provider is skipped
  there but constructed for HTTP. Guards of GraphQL resolvers run without a request context. A form
  DTO's "Validation failed" is replaced by "Error processing ..." (`param.decorators.ts:423-441`);
  `@File()` ignores array fields and a missing file is no error.
* `setHttpServer()` after filters were registered leaves the new server without hooks, whatever its
  comment says (`elysia-nest-application.ts:336-339`), and the old server is never stopped. A filter that
  throws in a hook leaves Elysia's own answer.
* `startAllMicroservices()` called again: TCP's second `listen()` hangs for ever and the first server
  is lost to `close()` (`tcp.server.ts:63-71`), Redis leaks the first pair of clients; a Redis that
  never connects leaves the call pending (`redis.server.ts:97`); a start under way when `close()` runs
  goes on. `StartsAll` and `NothingListens` name these exceptions.
* Passport: the guard calls `validate(request)` directly, though `docs/packages/passport.md` says it
  runs after the strategy has verified the credentials; of several names only the first counts; closing
  one application unregisters the strategies of another; a request during a boot may see, or cause, a
  circular dependency that is none; a guard keeps its negative answer (`auth.guard.ts:223`).
* Cache: `@CacheKey` caches every HTTP method although the comment says GET (`cache.interceptor.ts:73`,
  245-252); sanitized keys of different URLs coincide (`:47`); a handler that throws synchronously runs
  twice (`:188`); `null` is stored and counts as a miss.

**Events, timers, logs**

* The core's `emit()` writes back the list it read before its awaits (`event-emitter.ts:95`): an `off()`
  meanwhile is undone, an `on()` after it lost, a once-handler runs twice. The package runs once-handlers
  twice in overlapping emissions and leaves rejections of `emit()` unhandled.
* `scheduleTimeout` and `scheduleAt` with `executeOnInit` throw a ReferenceError after the callback has
  run (`scheduler.service.ts:142-147`); nested, they exceed `maxTasks`; the explorer's
  `onModuleDestroy` cancels the jobs of every application.
* What is made while QueueService's `close()` awaits is forgotten (`bullmq.service.ts:219-221`).
* `new Logger("X").error("m")` prints an extra line "undefined" (`logger.service.ts:60-62`,
  `console-logger.service.ts:241-274`); `overrideLogger(levels)` does not reach consoles made earlier,
  `overrideLogger(true)` silences like `false`; a logger that throws during `flush()` gets the messages
  again.

**GraphQL**

* `redis-pubsub.ts:314`: references are kept per trigger name without the kind. A name used both as
  a channel and as a pattern gets the wrong UNSUBSCRIBE and leaks.
* Two `connection_init` messages that arrive while `onConnect` is pending are both acknowledged
  (`graphql-ws.handler.ts:311`; comment 305). After the server has sent `complete`, the id stays
  registered until the stream's `return()` has settled (`:619`, `:667`); a client that reuses it at once
  is closed with 4409, which `graphql-ws.handler.test.ts:430` expects for an *active* id only.
* A class used by `@Args()` contributes own fields only; a class that is both object and input type
  is an input; metadata of `@InterfaceType`, `@Union` and `@Directive` is never read, that of
  `@ReturnType` only for field resolvers; an enum entry with an invalid key gets the key as its internal
  value. `GraphQLModule.onModuleDestroy` is dead code. A `null` on the way of an upload path throws a
  TypeError.

**RabbitMQ and microservices**

* A batch that meets a dead channel never resolves its first message, so that `close()` hangs
  (`connection.ts:665`; excluded in `CloseDrains`). `close()` rejects when something it awaits rejects
  and then leaves the channels open. `cancelAll()` cancels nothing. A cancelled consumer comes back on
  reconnect; `resumeConsumer()` drops the live entry when the tag is configured (`:1246`), and returns
  null after `cancelConsumer()`. `wait` with `reject: false` still rejects (`:239`). A message for an RPC
  handler that is registered later is rejected without requeue during the boot, if a binding of an
  earlier run routes it. Everything after a "#" in a pattern is ignored (`utils.ts:20`): a handler on
  "a.#.b" also takes "a.c" when another binding of the queue lets it through. A message routed by one
  of the additional `bindings` of an RPC handler (`connection.ts:1110`) is refused, because only
  `routingKey` is compared.
* `tcp.server.ts:209` says `close()` rejects pending requests; it clears them (:215). A TCP reply to a
  request of the server must carry a pattern (:138) and loses its `error`; `close()` during `connect()`
  leaves that promise pending; Redis timers that fire after `close()` unsubscribe on a closed client.

## Not modelled

* *Swagger and route documentation, the schema of DTOs, the documentation site, `nestelia-gen`, build
  scripts, benchmarks, examples*: synchronous translations of data without state, or outside the program.
* *Payloads*: (de)serialisation, formatting of logs, headers, ttl arithmetic, SQL.
* *Parts of modelled components*: several named channels of one AmqpConnection; functional plugins and
  middleware, module children, two modules of one name or one imported both as a class and as a dynamic
  module; nullability, lists, descriptions and default values of the schema; `emitEvent` of the RabbitMQ
  transport; SchedulerRegistry, Reflector, ModuleRef and MetadataCache, which are maps without protocol;
  the durable and inquirer bookkeeping of InstanceWrapper, which nothing calls.
* *Libraries*: Elysia's order of hooks, ioredis, amqplib, BullMQ, Apollo Server and passport are
  modelled by how the code uses them, and marked external in `map`.

## Plan

Every safety property of the runs has a theorem but for the packages' part of `SharesInstances`. What could
come next:

1. `Packages`: a proof by levels of tokens. What is loaded for a wrapper injects tokens that are nearer to the
   configuration, so a set that has the root's wrappers and what they inject has all that is loaded.
2. The conditions that the properties name (`OneKindPerTrigger`, `OneAtATime`, `PlainBindings`,
   `GlobalsAreReady`, `met = {}`): each stands for a behaviour listed above, and goes when the code changes.
