----------------------------- MODULE Application ----------------------------
(***************************************************************************)
(* The life of an application, one stage at a time: the module graph is    *)
(* turned into a container (ModuleGraph), with the dynamic modules of the  *)
(* packages (Packages), the explorers find the decorated methods of what   *)
(* was built (Discovery), and the hooks run from the creation to the end   *)
(* of close() (ApplicationLifecycle).  In a test, the testing package does *)
(* all this with a container of its own (Testing).  An application starts  *)
(* and closes its transports (HybridTransports) and answers for what its   *)
(* HTTP server could not (ErrorHooks).                                     *)
(***************************************************************************)
EXTENDS Naturals

CONSTANTS
    Scenes,         \* stages considered: "modules", "packages", "handlers",
                    \* "hooks", "testing", "transports", "errors"
    Modules, Root, Tokens, Controllers, None, Graphs,
    Programs, Places,
    Order, Values, Transports, Closers, MaxApps, OneAtATime,
    Kin, Hierarchies, Names, Families, Contents,
    Benches, Mocks, Cleaners, MaxOverrides,
    Kinds, MaxServers, Starters, Stoppers,
    Reactions, MaxGlobal, Webs, Faults, Causes

VARIABLES
    scene,
    graph, stack, body, edge, links, globals, own, asked, calling, path, failing, chain, built, met,
    boot,
    place, calls, position, ran, held, merged, visible, instances, outcome,
    arrays, bootstrapTriggered, inited, registered, app, todo, http, closer, done,
    family, parent, content, toDeclare, methods, marked, lists, owns, visited, handlers, phase,
    bench, overrides, providers, compiled, turn, ready, faulty, objects, inits, ends, cleaner,
    servers, sockets, starter, stopper, relistened,
    httpServer, hooked, globalFilters, call

Setup == INSTANCE ModuleGraph
Registration == INSTANCE Packages
Explorer == INSTANCE Discovery
Lifecycle == INSTANCE ApplicationLifecycle
Test == INSTANCE Testing
Hybrid == INSTANCE HybridTransports
Errors == INSTANCE ErrorHooks

ASSUME ApplicationAssumption ==
    /\ Setup!ModuleGraphAssumption /\ Registration!PackagesAssumption
    /\ Explorer!DiscoveryAssumption /\ Lifecycle!LifecycleAssumption
    /\ Test!TestingAssumption /\ Errors!ErrorHooksAssumption

setup == <<graph, stack, body, edge, links, globals, own, asked, calling, path, failing, chain,
           built, met, boot>>
registration == <<place, calls, position, ran, held, merged, visible, instances, outcome>>
explorer == <<family, parent, content, toDeclare, methods, marked, lists, owns, visited,
              handlers, phase>>
lifecycle == <<arrays, bootstrapTriggered, inited, registered, app, todo, http, closer, done>>
testing == <<bench, overrides, providers, compiled, turn, ready, faulty, objects, inits, ends,
             cleaner>>
hybrid == <<servers, sockets, starter, stopper, relistened>>
errors == <<httpServer, hooked, globalFilters, call>>
vars == <<scene, setup, registration, explorer, lifecycle, testing, hybrid, errors>>

Init ==
    /\ scene \in Scenes
    /\ scene # "modules" => graph = CHOOSE g \in Graphs : TRUE
    /\ scene # "packages" => /\ calls = CHOOSE p \in Programs : TRUE
                             /\ place = CHOOSE h \in Places : TRUE
    /\ scene # "handlers" => /\ family = CHOOSE f \in Families : TRUE
                             /\ parent = CHOOSE b \in Hierarchies : TRUE
                             /\ content = CHOOSE s \in Contents : TRUE
    /\ scene # "errors" => httpServer = 0
    /\ scene # "testing" => bench = CHOOSE b \in Benches : TRUE
    /\ Setup!Init /\ Registration!Init /\ Explorer!Init /\ Lifecycle!Init /\ Test!Init
    /\ Hybrid!Init /\ Errors!Init

SetsUp ==
    /\ scene = "modules" /\ Setup!Next
    /\ UNCHANGED <<scene, registration, explorer, lifecycle, testing, hybrid, errors>>
Registers ==
    /\ scene = "packages" /\ Registration!Next
    /\ UNCHANGED <<scene, setup, explorer, lifecycle, testing, hybrid, errors>>
Explores ==
    /\ scene = "handlers" /\ Explorer!Next
    /\ UNCHANGED <<scene, setup, registration, lifecycle, testing, hybrid, errors>>
Lives ==
    /\ scene = "hooks" /\ Lifecycle!Next
    /\ UNCHANGED <<scene, setup, registration, explorer, testing, hybrid, errors>>
IsTested ==
    /\ scene = "testing" /\ Test!Next
    /\ UNCHANGED <<scene, setup, registration, explorer, lifecycle, hybrid, errors>>
Starts ==
    /\ scene = "transports" /\ Hybrid!Next
    /\ UNCHANGED <<scene, setup, registration, explorer, lifecycle, testing, errors>>
Errs ==
    /\ scene = "errors" /\ Errors!Next
    /\ UNCHANGED <<scene, setup, registration, explorer, lifecycle, testing, hybrid>>

Next == SetsUp \/ Registers \/ Explores \/ Lives \/ IsTested \/ Starts \/ Errs

Spec == Init /\ [][Next]_vars

\* Promises settle and the event loop runs their continuations; hooks and transports
\* settle.  Nobody has to call close().
Hooked == /\ scene = "hooks" /\ \E c \in Closers : Lifecycle!Step(c)
          /\ UNCHANGED <<scene, setup, registration, explorer, testing, hybrid, errors>>

FairSpec == Spec /\ WF_vars(SetsUp \/ Hooked)

-----------------------------------------------------------------------------
\* The root module's providers are initialized after every module body has ended.
RootLast == Setup!RootLast

\* An application that boots has built everything it can be asked for; when its
\* transports have started they all have.
FailsFast == Setup!FailsFast /\ Hybrid!StartsAll

\* Importers share the instances of a module, as long as no get() comes upon a provider
\* that another one is building; an application that provides what its packages inject
\* boots, a package that is registered once has one of each, and registrations of a
\* package do not mix.  In a test, the mocks are what is shared.
SharesInstances ==
    /\ Setup!SharesInstances
    /\ Registration!Boots /\ Registration!BuiltOnce /\ Registration!Coherent
    /\ Test!MocksInForce

\* What a decorator marks is registered, and once where no metadata is shared; so
\* are the handlers of errors, before an error can come.
HandlersRegistered ==
    /\ Explorer!HandlersRegistered
    /\ Hybrid!ErrorsLogged /\ Errors!ErrorsAnswered

\* An application that has stopped has been through both hooks that come before,
\* and no transport of it listens.
GracefulStop == Lifecycle!GracefulStop /\ Hybrid!NothingListens

\* A close() that resolves has run every hook of every instance, a test's as well.
EveryHookFires == Lifecycle!EveryHookFires /\ Test!TestsCleanUp

\* The boot comes to an end, and so does every close().
EverythingSettles ==
    /\ scene = "modules" ~> boot \in {"ok", "failed"}
    /\ Lifecycle!CloseSettles
=============================================================================
