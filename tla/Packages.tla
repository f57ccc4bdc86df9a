------------------------------ MODULE Packages ------------------------------
(***************************************************************************)
(* The dynamic modules of the packages (forRoot(), forRootAsync(), ...)    *)
(* imported by one root module: which providers each call defines, where   *)
(* core puts them, and what the boot builds from them.                     *)
(*                                                                         *)
(* Several calls on one package share one module.  Its body runs for the   *)
(* first call only and registers that call's providers in the root; those  *)
(* of later calls stay in the package's own module, which sees itself and  *)
(* the global modules, and not the root.  How bodies that await interleave *)
(* is in ModuleGraph; the bodies of packages run without awaiting.  No two *)
(* packages provide the same token, so the order of imports that a lookup  *)
(* follows does not matter.                                                *)
(***************************************************************************)
EXTENDS Naturals, Sequences, FiniteSets, TLC

CONSTANTS
    Programs,   \* sequences of calls the root imports
    Places      \* where ConfigService is listed: "root", "global" or "nowhere"

PackageNames == {"rabbitmq", "drizzle", "bullmq", "cache", "graphql", "pubsub", "event-emitter",
                 "scheduler"}
Holders == PackageNames \cup {"root", "config"}

Call == [package : PackageNames, method : STRING,
         by : {"value", "factory", "class", "existing"},   \* where the options come from
         tag : STRING,          \* drizzle's tag, the name of a queue
         injects : BOOLEAN,     \* useFactory takes ConfigService
         isGlobal : BOOLEAN]

PackagesAssumption ==
    /\ \A p \in Programs : \A i \in DOMAIN p : p[i] \in Call
    /\ Places \subseteq {"root", "global", "nowhere"}

VARIABLES
    place, calls,
    position,   \* the calls that processImport() has begun with
    ran,        \* the packages whose module body has run
    held,       \* Module._providers
    merged,     \* the MODULE_METADATA of a package: the last call's providers
    visible,    \* Container._globalModules
    instances,  \* wrappers with an instance: where, and which token
    outcome     \* "importing", "global", "loading", then "ok" or "failed"

vars == <<place, calls, position, ran, held, merged, visible, instances, outcome>>

-----------------------------------------------------------------------------
\* A token, and what it is provided with: "built" by a factory or a class,
\* a "value", an "alias", or the "bare" class that an export puts in its place.
Token(name) == <<name, "">>
Config == Token("ConfigService")
App == Token("ELYSIA_APP")

Made(kind, inject) == [kind |-> kind, inject |-> inject, call |-> 0]
Built(inject) == Made("built", inject)
Value == Made("value", {})
Nothing == <<>>         \* no providers

\* The options of a call: given, or made by a factory from what it injects.
Taken(c) == IF c.injects THEN {Config} ELSE {}
Factory(c) == Built(Taken(c))

\* RabbitMQModule
Connection == Token("AmqpConnection")
Manager == Token("AmqpConnectionManager")
RabbitConfig == Token("RABBIT_CONFIG_TOKEN")
RabbitExplorer == Token("RabbitMQExplorer")
Handler == Token("Handler")

RabbitForRoot(c) ==
    Connection :> Built({}) @@ Manager :> Built({}) @@ RabbitConfig :> Value
    @@ RabbitExplorer :> Built({Manager})
RabbitForRootAsync(c) ==
    RabbitConfig :> Factory(c) @@ Connection :> Built({RabbitConfig}) @@ Manager :> Built({})
    @@ RabbitExplorer :> Built({Manager})
ForFeature(c) == Handler :> Built({Connection})
Attach(c) == Connection :> Value

\* DrizzleModule: the options have a token of their own for each tag.
getDrizzleOptionsToken(tag) == <<"DRIZZLE_MODULE_OPTIONS", tag>>
Drizzle(tag) == <<"DRIZZLE_INSTANCE", tag>>
OptionsClass(c) == <<c.package, "OptionsFactory">>
Extra == Token("ExtraProvider")

createDrizzleProvider(tag) == Drizzle(tag) :> Built({getDrizzleOptionsToken(tag)})
createDrizzleAsyncProviders(c) ==
    LET options == getDrizzleOptionsToken(c.tag) IN
    CASE c.by = "factory" -> options :> Factory(c)
      [] c.by = "class" -> OptionsClass(c) :> Built({}) @@ options :> Built({OptionsClass(c)})
      [] c.by = "existing" -> options :> Built({Config})

DrizzleForRoot(c) == getDrizzleOptionsToken(c.tag) :> Value @@ createDrizzleProvider(c.tag)
DrizzleForRootAsync(c) ==
    createDrizzleAsyncProviders(c) @@ Extra :> Built({}) @@ createDrizzleProvider(c.tag)

\* QueueModule
QueueOptions == Token("BULLMQ_MODULE_OPTIONS")
QueueService == Token("QueueService")
QueueExplorer == Token("QueueExplorer")
getQueueToken(name) == <<"BullQueue", name>>

Services == QueueService :> Built({QueueOptions}) @@ QueueExplorer :> Built({QueueService})
QueueForRoot(c) == QueueOptions :> Value @@ Services
QueueForRootAsync(c) == QueueOptions :> Factory(c) @@ Services
RegisterQueue(c) == getQueueToken(c.tag) :> Built({QueueService})

\* CacheModule is generated by the ConfigurableModuleBuilder; @Module() adds the
\* cache manager.
CacheOptions == Token("CACHE_MODULE_OPTIONS")
CacheManager == Token("CACHE_MANAGER")
Env == Token("Env")           \* what the listed ConfigService injects
Cache == Token("Cache")

createCacheManager == CacheManager :> Built({CacheOptions})
CacheStatic == createCacheManager @@ Cache :> Made("alias", {CacheManager})

\* createAsyncProviders(): a factory and an existing factory object need nothing
\* else; a class is provided as well.  provideInjectionTokensFrom adds the
\* provider of each injected token, and of what those inject.
createAsyncOptionsProvider(c) ==
    CacheOptions :> CASE c.by = "factory" -> Factory(c)
                      [] c.by = "existing" -> Built({Config})
                      [] c.by = "class" -> Built({OptionsClass(c)})
getInjectionProviders(c) ==
    IF c.tag = "provided" /\ c.injects THEN Config :> Built({Env}) @@ Env :> Value
    ELSE Nothing
createAsyncProviders(c) ==
    CASE c.by = "factory" -> createAsyncOptionsProvider(c) @@ getInjectionProviders(c)
      [] c.by = "existing" -> createAsyncOptionsProvider(c)
      [] c.by = "class" -> createAsyncOptionsProvider(c) @@ OptionsClass(c) :> Built({})
CacheRegister(c) == CacheOptions :> Value

\* GraphQLModule
Initializer == Token("APOLLO_INITIALIZER")
ApolloService == Token("ApolloService")
GraphQLOptions == Token("GRAPHQL_OPTIONS")
ApolloShutdown == Token("ApolloShutdownService")

Apollo == ApolloService :> Built({Initializer}) @@ ApolloShutdown :> Built({ApolloService})
GraphQLForRoot(c) == Initializer :> Built({App}) @@ GraphQLOptions :> Value @@ Apollo
GraphQLForRootAsync(c) ==
    Initializer :> Built({App} \cup Taken(c)) @@ GraphQLOptions :> Factory(c) @@ Apollo

\* GraphQLPubSubModule: a value built there and then from existing clients, or
\* a factory on the options.
PubSub == Token("GRAPHQL_PUBSUB")
PubSubOptions == Token("GRAPHQL_PUBSUB_OPTIONS")
PubSubShutdown == Token("GraphQLPubSubShutdownService")

Shutdown == PubSubShutdown :> Built({PubSub})
PubSubForRoot(c) ==
    IF c.by = "existing" THEN PubSub :> Value @@ Shutdown
    ELSE PubSub :> Built({PubSubOptions}) @@ PubSubOptions :> Value @@ Shutdown
PubSubForRootAsync(c) ==
    PubSub :> Built({PubSubOptions}) @@ PubSubOptions :> Factory(c) @@ Shutdown

\* EventEmitterModule, ScheduleModule
EmitterToken == Token("EVENT_EMITTER_TOKEN")
Emitter == Token("EventEmitterService")
Scheduler == Token("Scheduler")
Registry == Token("SchedulerRegistry")

EventsForRoot(c) ==
    EmitterToken :> Value @@ Emitter :> Value @@ Token("EventEmitterExplorer") :> Built({Emitter})
ScheduleForRoot(c) ==
    Scheduler :> Built({}) @@ Registry :> Built({})
    @@ Token("ScheduleExplorer") :> Built({Scheduler, Registry})

Defined(c) ==
    CASE c.package = "rabbitmq" /\ c.method = "forRoot" -> RabbitForRoot(c)
      [] c.package = "rabbitmq" /\ c.method = "forRootAsync" -> RabbitForRootAsync(c)
      [] c.package = "rabbitmq" /\ c.method = "forFeature" -> ForFeature(c)
      [] c.package = "rabbitmq" /\ c.method = "attach" -> Attach(c)
      [] c.package = "drizzle" /\ c.method = "forRoot" -> DrizzleForRoot(c)
      [] c.package = "drizzle" /\ c.method = "forRootAsync" -> DrizzleForRootAsync(c)
      [] c.package = "bullmq" /\ c.method = "forRoot" -> QueueForRoot(c)
      [] c.package = "bullmq" /\ c.method = "forRootAsync" -> QueueForRootAsync(c)
      [] c.package = "bullmq" /\ c.method = "registerQueue" -> RegisterQueue(c)
      [] c.package = "cache" /\ c.method = "register" -> CacheRegister(c)
      [] c.package = "cache" /\ c.method = "registerAsync" -> createAsyncProviders(c)
      [] c.package = "graphql" /\ c.method = "forRoot" -> GraphQLForRoot(c)
      [] c.package = "graphql" /\ c.method = "forRootAsync" -> GraphQLForRootAsync(c)
      [] c.package = "pubsub" /\ c.method = "forRoot" -> PubSubForRoot(c)
      [] c.package = "pubsub" /\ c.method = "forRootAsync" -> PubSubForRootAsync(c)
      [] c.package = "event-emitter" -> EventsForRoot(c)
      [] c.package = "scheduler" -> ScheduleForRoot(c)

Known == UNION {DOMAIN held[h] : h \in Holders} \cup
         UNION {UNION {held[h][t].inject : t \in DOMAIN held[h]} : h \in Holders}

\* What a call defines, marked with the call.
Providers(i) ==
    [t \in DOMAIN Defined(calls[i]) |-> [Defined(calls[i])[t] EXCEPT !.call = i]]

\* The static options of @Module(), and the exported classes that a call defines
\* otherwise than as a plain class: the body of the module adds every exported
\* class to the package's module, in place of what is there.
Static(p) == IF p = "cache" THEN CacheStatic ELSE Nothing
Exported(c) ==
    CASE c.package = "rabbitmq" /\ c.method # "forFeature" -> {Connection, Manager} \cap DOMAIN Defined(c)
      [] c.package = "cache" -> {Cache}
      [] c.package = "graphql" -> {ApolloService}
      [] c.package = "event-emitter" -> {Emitter}
      [] c.package = "scheduler" -> {Scheduler, Registry}
      [] OTHER -> {}
Bare(c) == [t \in Exported(c) |-> Made("bare", {})]

-----------------------------------------------------------------------------
Init ==
    /\ calls \in Programs /\ place \in Places
    /\ position = 0 /\ ran = {}
    /\ LET listed == IF place = "global" THEN Config :> Built({}) ELSE Nothing IN
       held = [h \in Holders |-> IF h \in {"root", "config"} THEN listed ELSE Nothing]
    /\ merged = [p \in PackageNames |-> Nothing]
    /\ visible = IF place = "global" THEN {"config"} ELSE {}
    /\ instances = {} /\ outcome = "importing"

\* The class that a call returns: graphql-pubsub has one that is global and one
\* that is not; its forRoot() writes the providers on the class, so that the last
\* call counts when the module body runs.
Class(c) == <<c.package, c.package = "pubsub" /\ c.isGlobal>>
Last(c) == CHOOSE i \in DOMAIN calls : /\ Class(calls[i]) = Class(c)
                                       /\ \A j \in DOMAIN calls : Class(calls[j]) = Class(c) => j <= i

\* processImport() up to its await: a dynamic module gets the call's providers,
\* and the body of the module, unless it ran before, registers them with the
\* static ones under a key that is not known: in the first module, the root.
Entered(c) == Class(c) \in ran

ImportCall ==
    /\ outcome = "importing" /\ position < Len(calls)
    /\ LET c == calls[position + 1]
           p == c.package
           new == Providers(position + 1)
       IN  /\ \/ /\ p = "pubsub"
                 /\ held' = IF Entered(c) THEN held
                            ELSE [held EXCEPT !.root = Providers(Last(c)) @@ @]
                 /\ UNCHANGED merged
              \/ /\ p # "pubsub"
                 /\ merged' = [merged EXCEPT ![p] = new @@ Static(p)]
                 /\ held' = IF Entered(c) THEN [held EXCEPT ![p] = new @@ @]
                            ELSE [held EXCEPT ![p] = Bare(c) @@ new @@ @, !.root = merged'[p] @@ @]
           /\ ran' = ran \cup {Class(c)}
    /\ position' = position + 1
    /\ UNCHANGED <<place, calls, visible, instances, outcome>>

ImportsCalled ==
    /\ outcome = "importing" /\ position = Len(calls)
    /\ outcome' = "global" /\ position' = 0
    /\ UNCHANGED <<place, calls, ran, held, merged, visible, instances>>

\* After the await, registerGlobalModule() adds to a global module what its last
\* call left as metadata, and the providers of this call again.
Globalize ==
    /\ outcome = "global" /\ position < Len(calls)
    /\ LET c == calls[position + 1]
           p == c.package
       IN  /\ visible' = IF c.isGlobal THEN visible \cup {p} ELSE visible
           /\ held' = IF c.isGlobal /\ p # "pubsub"
                      THEN [held EXCEPT ![p] = Providers(position + 1) @@ merged[p] @@ @]
                      ELSE held
    /\ position' = position + 1
    /\ UNCHANGED <<place, calls, ran, merged, instances, outcome>>

\* The root registers its own providers when all its imports have settled.
RegisterRoot ==
    /\ outcome = "global" /\ position = Len(calls)
    /\ held' = [held EXCEPT !.root = App :> Value @@
                    (IF place = "root" THEN Config :> Built({}) ELSE Nothing) @@ @]
    /\ outcome' = "loading"
    /\ UNCHANGED <<place, calls, position, ran, merged, visible, instances>>

-----------------------------------------------------------------------------
\* getProviderByKey(): a module's own providers come first, then its imports:
\* the packages for the root, and the global modules for every one.
Sees(h) == visible \cup (IF h = "root" THEN {c[1] : c \in ran} ELSE {})
Finds(h, t) ==
    IF t \in DOMAIN held[h] THEN h
    ELSE IF \E x \in Sees(h) : t \in DOMAIN held[x]
    THEN CHOOSE x \in Sees(h) : t \in DOMAIN held[x]
    ELSE "nowhere"

\* loadInstance(): what is injected is looked up in the module that owns the wrapper.
Buildable(h, t) ==
    LET B[x \in Holders \cup {"nowhere"}, u \in Known] ==
            x # "nowhere" /\ \A d \in held[x][u].inject : B[Finds(x, d), d]
    IN  B[h, t]
Building(h, t) ==
    LET B[x \in Holders, u \in Known] ==
            (IF held[x][u].kind = "alias" THEN {} ELSE {<<x, u>>})
            \cup UNION {B[Finds(x, d), d] : d \in held[x][u].inject}
    IN  B[h, t]

\* initializeSingletonProviders() asks for each token some module has, except
\* values and aliases, and stops at the first that cannot be built.
Asked == {t \in Known : \E h \in Holders : t \in DOMAIN held[h] /\ held[h][t].kind \in {"built", "bare"}}

Load ==
    /\ outcome = "loading"
    /\ \/ /\ \A t \in Asked : Buildable(Finds("root", t), t)
          /\ instances' = UNION {Building(Finds("root", t), t) : t \in Asked}
          /\ outcome' = "ok"
       \/ /\ \E t \in Asked : ~Buildable(Finds("root", t), t)
          /\ outcome' = "failed" /\ UNCHANGED instances
    /\ UNCHANGED <<place, calls, position, ran, held, merged, visible>>

Next == ImportCall \/ ImportsCalled \/ Globalize \/ RegisterRoot \/ Load

Spec == Init /\ [][Next]_vars

-----------------------------------------------------------------------------
Of(w) == held[w[1]][w[2]]
CalledOnce(p) == Cardinality({i \in DOMAIN calls : calls[i].package = p}) <= 1
Needs == \E i \in DOMAIN calls : calls[i].injects \/ calls[i].by = "existing"
Calls(p, methods) == \E i \in DOMAIN calls : calls[i].package = p /\ calls[i].method \in methods

\* A registration that others build on is there.
Complete ==
    /\ Calls("rabbitmq", {"forFeature"}) => Calls("rabbitmq", {"forRoot", "forRootAsync", "attach"})
    /\ Calls("bullmq", {"registerQueue"}) => Calls("bullmq", {"forRoot", "forRootAsync"})

\* The boot does not fail where ConfigService is visible everywhere, or is not
\* needed, in whatever order the packages are registered; where the root lists
\* it, that holds as long as no package is registered twice.  And it does fail
\* where ConfigService is missing and a package needs it.
Boots ==
    /\ outcome = "failed" =>
         \/ ~Complete
         \/ Needs /\ place # "global" /\ (place = "root" => \E p \in PackageNames : ~CalledOnce(p))
    /\ outcome = "ok" =>
         \A w \in instances : Config \in Of(w).inject => \E v \in instances : v[2] = Config

\* Classes of the application and what they inject: they are the same whoever provides
\* them, and a module that does not see the root may have one of its own.
OfApplication == {Config, Env} \cup {OptionsClass(calls[i]) : i \in DOMAIN calls}

\* What one call defines together is built together: an instance of which the
\* call also defines what it injects gets that, and never what another call on
\* the same package gave under the same token.
Coherent ==
    outcome = "ok" =>
        \A w \in instances :
            Of(w).call > 0 =>
                \A d \in (Of(w).inject \cap DOMAIN Providers(Of(w).call)) \ OfApplication :
                    held[Finds(w[1], d)][d].call = Of(w).call

\* A package that is registered once has one instance of each token of its own, and
\* never one of the bare class.
BuiltOnce ==
    \A p \in PackageNames : CalledOnce(p) =>
        \A v, w \in instances :
            (/\ Of(v).call > 0 /\ calls[Of(v).call].package = p
             /\ v[2] = w[2] /\ v[2] \notin OfApplication) =>
                v = w /\ Of(v).kind # "bare"
=============================================================================
