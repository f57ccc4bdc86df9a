------------------------ MODULE ApplicationLifecycle ------------------------
(***************************************************************************)
(* core/src/lifecycle, core/src/core and ElysiaNestApplication: the hooks  *)
(* of an application's providers from createElysiaApplication() to the end *)
(* of close().  All applications of a process share one LifecycleManager.  *)
(* A hook may take any time; every step below ends at an await.  How the   *)
(* providers are built is in ModuleGraph and Injector.                     *)
(***************************************************************************)
EXTENDS Naturals, Sequences, SequencesExt

CONSTANTS
    Order,          \* the providers, in the order they are registered
    Values,         \* those given with useValue: one object in all applications
    Transports,     \* of every application, a sequence
    Closers,        \* calls of close()
    MaxApps,        \* bound: calls of createElysiaApplication()
    OneAtATime      \* an application is created when the one before is closed

Apps == 1 .. MaxApps
Providers == {Order[k] : k \in DOMAIN Order}

LifecycleAssumption ==
    /\ Order \in Seq(Providers) /\ Values \subseteq Providers
    /\ MaxApps \in Nat /\ OneAtATime \in BOOLEAN

VARIABLES
    arrays,     \* LifecycleManager.providers: clear() starts another array
    bootstrapTriggered,
    inited, registered,     \* the flags that initialization leaves on an instance
    app,        \* the state of each application
    todo,       \* the instances the create call under way has not come to yet
    http,       \* the applications that listen
    closer,     \* each close() call
    done        \* history: per instance and hook, how often it has settled

vars == <<arrays, bootstrapTriggered, inited, registered, app, todo, http, closer, done>>

Instances == Providers \X (0 .. MaxApps)
InstanceOf(p, a) == <<p, IF p \in Values THEN 0 ELSE a>>
InstancesOf(a) == {InstanceOf(p, a) : p \in Providers}

Hooks == {"onModuleInit", "onApplicationBootstrap",
          "onModuleDestroy", "beforeApplicationShutdown", "onApplicationShutdown"}
ShutdownHooks == {"onModuleDestroy", "beforeApplicationShutdown", "onApplicationShutdown"}

Idle == [app |-> 0, at |-> "idle", arr |-> 0, next |-> 0]

Init ==
    /\ arrays = << <<>> >>
    /\ bootstrapTriggered = FALSE
    /\ inited = {} /\ registered = {}
    /\ app = [a \in Apps |-> "none"]
    /\ todo = <<>>
    /\ http = {}
    /\ closer = [c \in Closers |-> Idle]
    /\ done = [x \in Instances |-> [h \in Hooks |-> 0]]

-----------------------------------------------------------------------------
providers == arrays[Len(arrays)]
Clear == arrays' = Append(arrays, <<>>) /\ bootstrapTriggered' = FALSE

Active(c) == closer[c].at \notin {"idle", "resolved", "rejected"}
Creating == \E a \in Apps : app[a] = "initializing"
Settled(a) == app[a] \in {"closed", "failed"}

\* beginInitSession(); then the providers of the application are built.
Create(a) ==
    /\ app[a] = "none" /\ \A b \in Apps : b < a => app[b] # "none"
    /\ ~Creating
    /\ OneAtATime => /\ \A b \in Apps : b < a => Settled(b)
                     /\ \A c \in Closers : ~Active(c)
    /\ Clear
    /\ app' = [app EXCEPT ![a] = "initializing"]
    /\ todo' = [k \in DOMAIN Order |-> InstanceOf(Order[k], a)]
    /\ UNCHANGED <<inited, registered, http, closer, done>>

\* The second pass of initializeSingletonProviders(): onModuleInit, awaited,
\* and the registration with the manager, each once in an instance's life.
NeedsInit(x) == x \notin inited
Registering(x) == x \notin registered

Flagged(x) == inited \cup {x}

Initialize(a) ==
    /\ app[a] = "initializing" /\ todo # <<>>
    /\ LET x == Head(todo) IN
       /\ inited' = Flagged(x)
       /\ done' = IF NeedsInit(x) THEN [done EXCEPT ![x]["onModuleInit"] = @ + 1] ELSE done
       /\ registered' = registered \cup {x}
       /\ arrays' = IF Registering(x)
                    THEN [arrays EXCEPT ![Len(arrays)] = Append(@, x)] ELSE arrays
    /\ todo' = Tail(todo)
    /\ UNCHANGED <<bootstrapTriggered, app, http, closer>>

\* A hook of the initialization throws: so does createElysiaApplication().
InitializeFails(a) ==
    /\ app[a] = "initializing" /\ todo # <<>>
    /\ NeedsInit(Head(todo))
    /\ app' = [app EXCEPT ![a] = "failed"]
    /\ todo' = <<>>
    /\ UNCHANGED <<arrays, bootstrapTriggered, inited, registered, http, closer, done>>

\* triggerOnApplicationBootstrap(): called once for each registered provider,
\* not awaited.
ToBootstrap == IF bootstrapTriggered THEN {} ELSE ToSet(providers)

Bootstrap ==
    /\ bootstrapTriggered' = TRUE
    /\ done' = [x \in Instances |->
                  IF x \in ToBootstrap
                  THEN [done[x] EXCEPT !["onApplicationBootstrap"] = @ + 1] ELSE done[x]]

Created(a) ==
    /\ app[a] = "initializing" /\ todo = <<>>
    /\ Bootstrap
    /\ app' = [app EXCEPT ![a] = "ready"]
    /\ UNCHANGED <<arrays, inited, registered, todo, http, closer>>

\* A hook throws at once: those after it are not called, and the application
\* is never handed out.
BootstrapFails(a) ==
    /\ app[a] = "initializing" /\ todo = <<>> /\ ~bootstrapTriggered
    /\ bootstrapTriggered' = TRUE
    /\ \E n \in 0 .. Len(providers) - 1 :
         done' = [x \in Instances |->
                    IF x \in ToSet(SubSeq(providers, 1, n))
                    THEN [done[x] EXCEPT !["onApplicationBootstrap"] = @ + 1] ELSE done[x]]
    /\ app' = [app EXCEPT ![a] = "failed"]
    /\ UNCHANGED <<arrays, inited, registered, todo, http, closer>>

\* listen() is not called once close() was.
Listen(a) ==
    /\ app[a] = "ready" /\ a \notin http
    /\ \A c \in Closers : closer[c].app # a
    /\ Bootstrap
    /\ http' = http \cup {a}
    /\ UNCHANGED <<arrays, inited, registered, app, todo, closer>>

-----------------------------------------------------------------------------
\* close(): the three phases with hooks iterate the array that is the
\* manager's when they begin; whatever a hook throws is logged.
Phase(c, at) == [closer EXCEPT ![c].at = at, ![c].arr = Len(arrays), ![c].next = 1]

Close(c, a) ==
    /\ closer[c] = Idle
    /\ app[a] \in {"ready", "closed"}
    /\ OneAtATime => \A b \in Apps : b > a => app[b] = "none"
    /\ closer' = [closer EXCEPT ![c] = [app |-> a, at |-> "onModuleDestroy",
                                        arr |-> Len(arrays), next |-> 1]]
    /\ UNCHANGED <<arrays, bootstrapTriggered, inited, registered, app, todo, http, done>>

Iterated(c) == arrays[closer[c].arr]

\* Faulty variant: the first hook that throws ends its phase.
AfterHook_Aborts(c, throws) == IF throws THEN Len(Iterated(c)) + 1 ELSE closer[c].next + 1
AfterHook(c, throws) == closer[c].next + 1

HookSettles(c) ==
    /\ closer[c].at \in ShutdownHooks
    /\ closer[c].next <= Len(Iterated(c))
    /\ done' = [done EXCEPT ![Iterated(c)[closer[c].next]][closer[c].at] = @ + 1]
    /\ \E throws \in BOOLEAN : closer' = [closer EXCEPT ![c].next = AfterHook(c, throws)]
    /\ UNCHANGED <<arrays, bootstrapTriggered, inited, registered, app, todo, http>>

\* Faulty variant: a phase does not wait for its hooks.
PhaseOver_AtOnce(c) == closer[c].at \in ShutdownHooks
\* Faulty variant: overlapping calls wait for one another.
PhaseOver_Alone(c) ==
    /\ closer[c].at \in ShutdownHooks /\ closer[c].next > Len(Iterated(c))
    /\ \A d \in Closers \ {c} : closer[d].at # closer[c].at
PhaseOver(c) == closer[c].at \in ShutdownHooks /\ closer[c].next > Len(Iterated(c))

Destroyed(c) ==
    /\ closer[c].at = "onModuleDestroy" /\ PhaseOver(c)
    /\ closer' = Phase(c, "beforeApplicationShutdown")
    /\ UNCHANGED <<arrays, bootstrapTriggered, inited, registered, app, todo, http, done>>

Prepared(c) ==
    /\ closer[c].at = "beforeApplicationShutdown" /\ PhaseOver(c)
    /\ closer' = Phase(c, "transports")
    /\ UNCHANGED <<arrays, bootstrapTriggered, inited, registered, app, todo, http, done>>

\* A transport that cannot be closed rejects close() there and then.
CloseTransport(c) ==
    /\ closer[c].at = "transports" /\ closer[c].next <= Len(Transports)
    /\ closer' = [closer EXCEPT ![c].next = @ + 1]
    /\ UNCHANGED <<arrays, bootstrapTriggered, inited, registered, app, todo, http, done>>

TransportFails(c) ==
    /\ closer[c].at = "transports" /\ closer[c].next <= Len(Transports)
    /\ closer' = [closer EXCEPT ![c].at = "rejected"]
    /\ UNCHANGED <<arrays, bootstrapTriggered, inited, registered, app, todo, http, done>>

StopHttp(c) ==
    /\ closer[c].at = "transports" /\ closer[c].next > Len(Transports)
    /\ http' = http \ {closer[c].app}
    /\ closer' = Phase(c, "onApplicationShutdown")
    /\ UNCHANGED <<arrays, bootstrapTriggered, inited, registered, app, todo, done>>

Closed(c) ==
    /\ closer[c].at = "onApplicationShutdown" /\ PhaseOver(c)
    /\ Clear
    /\ app' = [app EXCEPT ![closer[c].app] = "closed"]
    /\ closer' = [closer EXCEPT ![c].at = "resolved"]
    /\ UNCHANGED <<inited, registered, todo, http, done>>

Step(c) ==
    \/ HookSettles(c) \/ Destroyed(c) \/ Prepared(c)
    \/ CloseTransport(c) \/ TransportFails(c) \/ StopHttp(c) \/ Closed(c)

Next ==
    \/ \E a \in Apps : Create(a) \/ Initialize(a) \/ InitializeFails(a) \/ Created(a)
                        \/ BootstrapFails(a) \/ Listen(a)
    \/ \E c \in Closers : Step(c) \/ \E a \in Apps : Close(c, a)

Spec == Init /\ [][Next]_vars

\* Hooks and transports settle.
FairSpec == Spec /\ WF_vars(\E c \in Closers : Step(c))

-----------------------------------------------------------------------------
Stages == {"idle", "transports", "resolved", "rejected"} \cup ShutdownHooks

TypeOK ==
    /\ arrays \in Seq(Seq(Instances)) /\ arrays # <<>>
    /\ bootstrapTriggered \in BOOLEAN
    /\ inited \subseteq Instances /\ registered \subseteq inited
    /\ app \in [Apps -> {"none", "initializing", "ready", "closed", "failed"}]
    /\ todo \in Seq(Instances)
    /\ http \subseteq Apps
    /\ \A c \in Closers :
         /\ closer[c].app \in 0 .. MaxApps /\ closer[c].at \in Stages
         /\ closer[c].arr \in 0 .. Len(arrays) /\ closer[c].next \in Nat
    /\ done \in [Instances -> [Hooks -> Nat]]

\* The instances that are an application's alone.
OwnOf(a) == InstancesOf(a) \ InstancesOf(0)
Stopped(a) == \E c \in Closers : /\ closer[c].app = a
                                 /\ closer[c].at \in {"onApplicationShutdown", "resolved"}

\* Cleanup "fully settles before we tear down the transports and HTTP server":
\* while an application serves, none of its instances is behind; when it has
\* stopped, each has been through both hooks, although close() may overlap
\* itself and any hook may throw.
GracefulStop ==
    \A a \in Apps : Stopped(a) =>
        \A x \in OwnOf(a) : /\ done[x]["onModuleDestroy"] > 0
                            /\ done[x]["beforeApplicationShutdown"] > 0

\* "Every hook fires for every provider": a close() that resolves has seen all
\* three shutdown hooks of every instance that was initialized; and no instance
\* is bootstrapped before all are initialized, or initialized twice.
EveryHookFires ==
    /\ \A c \in Closers : closer[c].at = "resolved" =>
         \A x \in OwnOf(closer[c].app), h \in Hooks : done[x][h] > 0
    /\ \A a \in Apps : \A x \in InstancesOf(a) :
         /\ done[x]["onModuleInit"] <= 1 /\ done[x]["onApplicationBootstrap"] <= 1
         /\ x \in OwnOf(a) /\ done[x]["onApplicationBootstrap"] > 0 =>
              \A y \in OwnOf(a) : done[y]["onModuleInit"] > 0

\* Every close() settles.
CloseSettles == \A c \in Closers : closer[c].at # "idle" ~> closer[c].at \in {"resolved", "rejected"}
=============================================================================
