---------------------------- MODULE ModuleGraph -----------------------------
(***************************************************************************)
(* core/src/core: how createElysiaApplication() turns the @Module() graph  *)
(* into one container.  Importing a module calls its factory; the first    *)
(* call of a session runs the body, later ones return at once.  Imports    *)
(* run under Promise.all, so bodies interleave at their awaits and build   *)
(* what controllers need while other modules are still being set up.  In   *)
(* which order waiting bodies go on is left open: each may also await      *)
(* middleware or an asynchronous factory.                                  *)
(*                                                                         *)
(* A module reached through imports is known to the container by one of    *)
(* its two function objects (the factory, the class) and registers its     *)
(* providers under the other one, for which the container falls back to    *)
(* its first module: the root.  So a provider may have two wrappers, one   *)
(* in the root and one in its own module.                                  *)
(*                                                                         *)
(* A get() runs down to the first provider that needs nothing, or that is  *)
(* there, and awaits; after that it builds one provider at a time, and     *)
(* other bodies and other gets go on in between.  All of them share the    *)
(* resolution chain: what a get() finds on it counts as a cycle, and who   *)
(* is done takes the last entry off, whose ever it is.  (Injector has the  *)
(* scopes, optional parameters and constructors that throw.)  Modules that *)
(* have class middleware or gateways of their own, for which there are     *)
(* gets as well, are left out.                                             *)
(***************************************************************************)
EXTENDS Naturals, Sequences, FiniteSets

CONSTANTS
    Modules, Root,
    Tokens,         \* singleton class providers, each listed by one module
    Controllers,    \* each listed by one module, in any order
    None,
    Graphs          \* the module graphs considered

Graph == [imports : [Modules -> Seq(Modules \ {Root})],  \* "imports", in order
          dynamic : SUBSET (Modules \ {Root}),  \* imported as M.forRoot()
          global : SUBSET (Modules \ {Root}),   \* @Global(), or global: true
          home : [Tokens -> Modules],           \* whose "providers" list it
          exported : SUBSET Tokens,             \* its module "exports" it
          dep : [Tokens -> Tokens \cup {None}], \* what its constructor takes
          seat : [Controllers -> Modules],      \* whose "controllers" list it
          needs : [Controllers -> Tokens \cup {None}],  \* what its constructor takes
          hooked : SUBSET Controllers]          \* it has Elysia hooks

Wrappers == [in : Modules, token : Tokens \cup Controllers, v : Nat]

\* Providers that need one another in a circle are the business of Injector.
Acyclic(g) ==
    \E rank \in [Tokens -> 1 .. Cardinality(Tokens)] :
        \A t \in Tokens : g.dep[t] # None => rank[g.dep[t]] < rank[t]

ModuleGraphAssumption ==
    /\ Root \in Modules /\ Tokens \cap Controllers = {}
    /\ None \notin Modules \cup Tokens \cup Controllers \cup Wrappers
    /\ Root \notin Controllers /\ Cardinality(Tokens) \in Nat
    /\ Graphs \subseteq Graph /\ \A g \in Graphs : Acyclic(g)

VARIABLES
    graph,
    stack,      \* module bodies running synchronously: module and next import
    body,       \* per module, how far its body is
    edge,       \* per module and import: the factory call and what follows it
    links,      \* Module._imports
    globals,    \* Container._globalModules
    own,        \* Module._providers: how often the token was added to the module
    asked,      \* per controller, the get() that its module makes for it
    calling,    \* whose get() is on its way down to its first await, or None
    path,       \* per get(), the loadInstance() frames under way
    failing,    \* the gets that are throwing an error
    chain,      \* Injector._resolutionChain
    built,      \* every instance stored, in order: its wrapper, and that of what it took
    met,        \* the wrappers a get() came upon while another one was building them
    boot        \* "modules", then "providers", then "ok", or "failed"

gets == <<calling, path, failing, chain, met>>
vars == <<graph, stack, body, edge, links, globals, own, asked, gets, built, boot>>

imports(m) == graph.imports[m]
Provided(m) == {t \in Tokens : graph.home[t] = m}

\* A get() is made for a controller; those of the boot go by the name of the root.
Callers == Controllers \cup {Root}

Init ==
    /\ graph \in Graphs
    /\ stack = <<[m |-> Root, next |-> 1]>>
    /\ body = [m \in Modules |-> IF m = Root THEN "running" ELSE "none"]
    /\ edge = [m \in Modules |-> [i \in DOMAIN imports(m) |-> "idle"]]
    /\ links = [m \in Modules |-> {}]
    /\ globals = {}
    /\ own = [m \in Modules |-> [t \in Tokens |-> 0]]
    /\ asked = [c \in Controllers |-> "no"]
    /\ calling = None /\ path = [c \in Callers |-> <<>>]
    /\ failing = {} /\ chain = <<>> /\ built = <<>> /\ met = {}
    /\ boot = "modules"

-----------------------------------------------------------------------------
\* getProviderByKey() follows imports of imports; a global module is an import
\* of every module (bindGlobalScope).
Reach(m) ==
    LET R[n \in 0 .. Cardinality(Modules)] ==
            IF n = 0 THEN {m} \cup globals
            ELSE R[n - 1] \cup UNION {links[x] : x \in R[n - 1]}
    IN  R[Cardinality(Modules)]

\* The module whose wrapper of t a lookup from m finds: its own comes first.
\* Faulty variant: imports come before the module's own providers.
Finds_ImportsFirst(m, t) ==
    IF graph.home[t] \in Reach(m) /\ own[graph.home[t]][t] > 0 THEN graph.home[t]
    ELSE IF own[m][t] > 0 THEN m
    ELSE None
Finds(m, t) ==
    IF own[m][t] > 0 THEN m
    ELSE IF graph.home[t] \in Reach(m) /\ own[graph.home[t]][t] > 0 THEN graph.home[t]
    ELSE None

\* A wrapper: addProvider() replaces the one that is already there.
Wrapper(m, t) == [in |-> m, token |-> t, v |-> own[m][t]]

\* registerControllers(): the root has the wrapper of every controller.
ControllerWrapper(c) == [in |-> Root, token |-> c, v |-> 1]
Takes(w) == IF w.token \in Controllers THEN graph.needs[w.token] ELSE graph.dep[w.token]

\* What a lookup finds, or None.
Lookup(m, t) == IF t = None \/ Finds(m, t) = None THEN None ELSE Wrapper(Finds(m, t), t)

Resolved(w) == \E k \in DOMAIN built : built[k].w = w
InChain(w) == \E k \in DOMAIN chain : chain[k] = w
Under(c, w) == \E k \in DOMAIN path[c] : path[c][k].w = w

\* loadInstance() up to its await: a dependency is looked up in the module that
\* owns the wrapper, and loaded in turn.
loadInstance(c, w) ==
    \/ /\ w = None
       /\ failing' = failing \cup {c} /\ calling' = None
       /\ UNCHANGED <<path, chain, met>>
    \/ /\ w # None /\ Resolved(w)
       /\ calling' = None /\ UNCHANGED <<path, failing, chain, met>>
    \/ /\ w # None /\ ~Resolved(w)
       /\ met' = met \cup (IF \E d \in Callers \ {c} : Under(d, w) THEN {w} ELSE {})
       /\ \/ /\ InChain(w)
             /\ failing' = failing \cup {c} /\ calling' = None
             /\ UNCHANGED <<path, chain>>
          \/ /\ ~InChain(w)
             /\ chain' = Append(chain, w)
             /\ path' = [path EXCEPT ![c] = Append(@, [w |-> w, dep |-> Lookup(w.in, Takes(w))])]
             /\ calling' = IF Takes(w) = None THEN None ELSE c
             /\ UNCHANGED failing

\* Container.get(): the key a module passes is known for the root only, so
\* the search starts at the first module, the root.
Get(c, t) == loadInstance(c, Lookup(Root, t))

\* The get() of c has come to its end.
Answered(c) == calling # c /\ path[c] = <<>>

Added(m, S) == [own EXCEPT ![m] = [t \in Tokens |-> IF t \in S THEN @[t] + 1 ELSE @[t]]]

-----------------------------------------------------------------------------
\* A synchronous stretch of code ends before any continuation runs.
Below(s) == SubSeq(s, 1, Len(s) - 1)
Top == stack[Len(stack)]
Popped == Below(stack)
On(b) == calling = None /\ stack # <<>> /\ body[Top.m] = b
Idle == calling = None /\ stack = <<>> /\ boot = "modules"

LastFrame(c) == path[c][Len(path[c])]

\* resolveConstructorParams(): the dependency of the provider that was just entered.
Descend ==
    /\ calling # None
    /\ loadInstance(calling, LastFrame(calling).dep)
    /\ UNCHANGED <<graph, stack, body, edge, links, globals, own, asked, built, boot>>

\* After its await loadInstance() stores the instance, or passes on the error; the
\* last entry of the chain is popped, whoever pushed it.
Load(c) ==
    /\ calling = None /\ stack = <<>> /\ boot \in {"modules", "providers"}
    /\ path[c] # <<>>
    /\ path' = [path EXCEPT ![c] = Below(@)] /\ chain' = Below(chain)
    /\ built' = IF c \in failing THEN built ELSE Append(built, LastFrame(c))
    /\ UNCHANGED <<graph, stack, body, edge, links, globals, own, asked, calling, failing, met, boot>>

\* The session guard: a module is initialized once.
Entered(m) == body[m] # "none"

\* processImport(): link the module, add a dynamic module's providers to it,
\* call its factory.
CallImport ==
    /\ On("running") /\ Top.next <= Len(imports(Top.m))
    /\ LET p == Top.m
           i == Top.next
           m == imports(p)[i]
           s == Append(Popped, [m |-> p, next |-> i + 1])
       IN  /\ links' = [links EXCEPT ![p] = @ \cup {m}]
           /\ own' = IF m \in graph.dynamic THEN Added(m, Provided(m)) ELSE own
           /\ \/ /\ Entered(m)
                 /\ edge' = [edge EXCEPT ![p][i] = "returned"]
                 /\ stack' = s /\ UNCHANGED body
              \/ /\ ~Entered(m)
                 /\ edge' = [edge EXCEPT ![p][i] = "called"]
                 /\ stack' = Append(s, [m |-> m, next |-> 1])
                 /\ body' = [body EXCEPT ![m] = "running"]
    /\ UNCHANGED <<graph, globals, asked, gets, built, boot>>

\* What follows the imports: the providers go to the root, exported classes to
\* the module itself; then come the module's controllers.
Seated(p) == {c \in Controllers : graph.seat[c] = p}
Hooked(p) == Seated(p) \cap graph.hooked
\* Controllers whose dependency the module does not provide itself.
Validated(p) == {c \in Seated(p) : graph.needs[c] \notin Provided(p) \cup {None}}
AfterValidation(p) == IF Hooked(p) # {} THEN "hooks" ELSE "done"
AfterRegistration(p) == IF Validated(p) # {} THEN "validating" ELSE AfterValidation(p)

RegisterModule(p, rest) ==
    /\ own' = [m \in Modules |->
                 [t \in Tokens |-> own[m][t]
                    + (IF m = Root /\ t \in Provided(p) THEN 1 ELSE 0)
                    + (IF m = p /\ t \in Provided(p) \cap graph.exported THEN 1 ELSE 0)]]
    /\ body' = [body EXCEPT ![p] = AfterRegistration(p)]
    /\ stack' = IF Validated(p) # {} THEN Append(rest, [m |-> p, next |-> 1]) ELSE rest

\* Every import is called: the body awaits them, or goes on if there is none.
EndOfImports ==
    /\ On("running") /\ Top.next > Len(imports(Top.m))
    /\ \/ imports(Top.m) = <<>> /\ RegisterModule(Top.m, Popped)
       \/ /\ imports(Top.m) # <<>>
          /\ body' = [body EXCEPT ![Top.m] = "importing"]
          /\ stack' = Popped /\ UNCHANGED own
    /\ UNCHANGED <<graph, edge, links, globals, asked, gets, built, boot>>

\* A dependency that was not found may be one a global module sees by now.
SeenByGlobal(t) == \E g \in globals : Finds(g, t) # None

\* validateModuleDependencies(): one get() after the other; errors are swallowed,
\* and what is missing is reported when all are through.
Unchecked(p) == {c \in Validated(p) : asked[c] = "no"}

Validate ==
    /\ On("validating")
    /\ \/ \E c \in Unchecked(Top.m) :
             /\ asked' = [asked EXCEPT ![c] = "validating"]
             /\ Get(c, graph.needs[c]) /\ UNCHANGED body
       \/ /\ Unchecked(Top.m) = {}
          /\ body' = [body EXCEPT ![Top.m] =
                        IF \E c \in Validated(Top.m) : asked[c] = "missing" THEN "failed"
                        ELSE AfterValidation(Top.m)]
          /\ UNCHANGED <<asked, gets>>
    /\ stack' = Popped
    /\ UNCHANGED <<graph, edge, links, globals, own, built, boot>>

Checked(c) ==
    /\ Idle /\ asked[c] = "validating" /\ Answered(c)
    /\ asked' = [asked EXCEPT ![c] =
                   IF c \in failing /\ ~SeenByGlobal(graph.needs[c]) THEN "missing" ELSE "found"]
    /\ failing' = failing \ {c}
    /\ stack' = <<[m |-> graph.seat[c], next |-> 1]>>
    /\ UNCHANGED <<graph, body, edge, links, globals, own, calling, path, chain, built, met, boot>>

\* When does the promise of the factory call settle?  An import that found the
\* module entered does not wait for it.
\* Faulty variant: no import waits.
Settled_AtOnce(p, i) == edge[p][i] \in {"called", "returned"}
\* Faulty variant: every import waits for the body.
Settled_Body(p, i) == edge[p][i] \in {"called", "returned"} /\ body[imports(p)[i]] = "done"
Settled(p, i) ==
    \/ edge[p][i] = "returned"
    \/ edge[p][i] = "called" /\ body[imports(p)[i]] = "done"

IsGlobal(m) == m \in graph.global

\* The rest of processImport(): the providers of a global module are added to
\* it, and it becomes visible everywhere.
ImportSettles(p, i) ==
    /\ Idle /\ Settled(p, i)
    /\ edge' = [edge EXCEPT ![p][i] = "applied"]
    /\ LET m == imports(p)[i] IN
       IF IsGlobal(m)
       THEN globals' = globals \cup {m} /\ own' = Added(m, Provided(m))
       ELSE UNCHANGED <<globals, own>>
    /\ UNCHANGED <<graph, stack, body, links, asked, gets, built, boot>>

\* Promise.all over the imports fails with the first of them.
ImportFails(p, i) ==
    /\ Idle /\ body[p] = "importing"
    /\ edge[p][i] = "called" /\ body[imports(p)[i]] = "failed"
    /\ body' = [body EXCEPT ![p] = "failed"]
    /\ UNCHANGED <<graph, stack, edge, links, globals, own, asked, gets, built, boot>>

Register(p) ==
    /\ Idle /\ body[p] = "importing"
    /\ \A i \in DOMAIN edge[p] : edge[p][i] = "applied"
    /\ RegisterModule(p, <<>>)
    /\ UNCHANGED <<graph, edge, links, globals, asked, gets, built, boot>>

\* setupController() for all of them: the controllers that have hooks are asked for
\* one right after the other, and their promises awaited together.
Unhooked(p) == {c \in Hooked(p) : asked[c] \in {"no", "found"}}

SetupHooks(p) ==
    /\ calling = None /\ boot = "modules" /\ body[p] = "hooks"
    /\ stack \in {<<>>, <<[m |-> p, next |-> 1]>>}
    /\ \E c \in Unhooked(p) :
         /\ asked' = [asked EXCEPT ![c] = "hooking"]
         /\ loadInstance(c, ControllerWrapper(c))
         /\ stack' = IF Unhooked(p) = {c} THEN <<>> ELSE <<[m |-> p, next |-> 1]>>
    /\ UNCHANGED <<graph, body, edge, links, globals, own, built, boot>>

HookSettles(c) ==
    /\ Idle /\ asked[c] = "hooking" /\ Answered(c)
    /\ asked' = [asked EXCEPT ![c] = IF c \in failing THEN "missing" ELSE "hooked"]
    /\ failing' = failing \ {c}
    /\ body' = [body EXCEPT ![graph.seat[c]] =
                  IF c \in failing THEN "failed"
                  ELSE IF \A d \in Hooked(graph.seat[c]) \ {c} : asked[d] = "hooked" THEN "done"
                  ELSE @]
    /\ UNCHANGED <<graph, stack, edge, links, globals, own, calling, path, chain, built, met, boot>>

\* rootModule() settles.
ModulesSettle ==
    /\ Idle /\ body[Root] \in {"done", "failed"}
    /\ boot' = IF body[Root] = "done" THEN "providers" ELSE "failed"
    /\ UNCHANGED <<graph, stack, body, edge, links, globals, own, asked, gets, built>>

\* initializeSingletonProviders(): every token some module has is asked for, then
\* every controller, one after the other; the first that cannot be built fails the boot.
\* Faulty variant: what others take is left to them.
Unbuilt_Top ==
    {t \in Tokens : /\ \E m \in Modules : own[m][t] > 0
                    /\ \A u \in Tokens : graph.dep[u] # t
                    /\ ~Resolved(Lookup(Root, t))}
Unbuilt ==
    {t \in Tokens : (\E m \in Modules : own[m][t] > 0) /\ ~Resolved(Lookup(Root, t))}
Unserved == {c \in Controllers : body[graph.seat[c]] = "done" /\ ~Resolved(ControllerWrapper(c))}

Loading == boot = "providers" /\ Answered(Root)

LoadProvider(t) ==
    /\ Loading /\ Root \notin failing /\ t \in Unbuilt
    /\ Get(Root, t)
    /\ UNCHANGED <<graph, stack, body, edge, links, globals, own, asked, built, boot>>

LoadController(c) ==
    /\ Loading /\ Root \notin failing /\ Unbuilt = {} /\ c \in Unserved
    /\ loadInstance(Root, ControllerWrapper(c))
    /\ UNCHANGED <<graph, stack, body, edge, links, globals, own, asked, built, boot>>

Boots ==
    /\ Loading
    /\ \/ Root \in failing /\ boot' = "failed"
       \/ Root \notin failing /\ Unbuilt = {} /\ Unserved = {} /\ boot' = "ok"
    /\ UNCHANGED <<graph, stack, body, edge, links, globals, own, asked, gets, built>>

Next ==
    \/ CallImport \/ EndOfImports \/ Validate \/ Descend \/ ModulesSettle \/ Boots
    \/ \E p \in Modules : \/ Register(p) \/ SetupHooks(p)
                          \/ \E i \in DOMAIN edge[p] : ImportSettles(p, i) \/ ImportFails(p, i)
    \/ \E c \in Controllers : Checked(c) \/ HookSettles(c) \/ LoadController(c)
    \/ \E c \in Callers : Load(c)
    \/ \E t \in Tokens : LoadProvider(t)

Spec == Init /\ [][Next]_vars

\* Promises settle and the event loop runs their continuations.
FairSpec == Spec /\ WF_vars(Next)

-----------------------------------------------------------------------------
Bodies == {"none", "running", "importing", "validating", "hooks", "done", "failed"}
Frame == [w : Wrappers, dep : Wrappers \cup {None}]

TypeOK ==
    /\ graph \in Graph
    /\ stack \in Seq([m : Modules, next : Nat \ {0}])
    /\ body \in [Modules -> Bodies]
    /\ \A m \in Modules :
         edge[m] \in [DOMAIN imports(m) -> {"idle", "called", "returned", "applied"}]
    /\ links \in [Modules -> SUBSET Modules]
    /\ globals \subseteq graph.global
    /\ own \in [Modules -> [Tokens -> Nat]]
    /\ asked \in [Controllers -> {"no", "validating", "found", "missing", "hooking", "hooked"}]
    /\ calling \in Callers \cup {None}
    /\ path \in [Callers -> Seq(Frame)]
    /\ failing \subseteq Callers
    /\ chain \in Seq(Wrappers) /\ built \in Seq(Frame) /\ met \subseteq Wrappers
    /\ boot \in {"modules", "providers", "ok", "failed"}

\* Although an import that finds its module entered does not wait for it, the
\* providers are initialized only when no module body is under way any more.
RootLast == boot \in {"providers", "ok"} => \A m \in Modules : body[m] \in {"none", "done"}

\* An application that boots has built everything it can be asked for: every
\* registered provider, with all it depends on, and every controller, from the
\* wrapper a later lookup finds ("fails fast at bootstrap", module.utils.ts).
FailsFast ==
    boot = "ok" =>
        /\ \A t \in Tokens : body[graph.home[t]] = "done" => Resolved(Wrapper(Root, t))
        /\ \A c \in Controllers : body[graph.seat[c]] = "done" => Resolved(ControllerWrapper(c))
        /\ \A k \in DOMAIN built : Takes(built[k].w) # None =>
             built[k].dep.token = Takes(built[k].w) /\ Resolved(built[k].dep)

OneInstance ==
    \A j, k \in DOMAIN built : built[j].w.token = built[k].w.token => j = k

\* What the documentation asks of a graph: a module lists what it uses or
\* imports the module that lists and exports it.
Offered(m, t) ==
    \/ graph.home[t] = m
    \/ t \in graph.exported /\ \E i \in DOMAIN imports(m) : imports(m)[i] = graph.home[t]
WellFormed ==
    /\ \A c \in Controllers : graph.needs[c] # None => Offered(graph.seat[c], graph.needs[c])
    /\ \A t \in Tokens : graph.dep[t] # None => Offered(graph.home[t], graph.dep[t])
ImportedOnce(m) ==
    \A p, q \in Modules : \A i \in DOMAIN imports(p), j \in DOMAIN imports(q) :
        imports(p)[i] = m /\ imports(q)[j] = m => p = q /\ i = j

\* A global module is offered to all as soon as one import of it settles: to the
\* second importer at once, while the module may still await its own imports.
\* What is found in it then is built again from the root (ImportSettles).
GlobalsAreReady == \A m \in graph.global : imports(m) = <<>> \/ ImportedOnce(m)

\* The controllers that modules ask for, or ask something for, share no provider,
\* not even one deep below.
Asking(c) == c \in Hooked(graph.seat[c]) \cup Validated(graph.seat[c])
Apart ==
    \E user \in [Tokens -> Controllers \cup {None}] :
        /\ \A c \in Controllers : Asking(c) /\ graph.needs[c] # None => user[graph.needs[c]] = c
        /\ \A t \in Tokens : user[t] # None /\ graph.dep[t] # None => user[graph.dep[t]] = user[t]

\* "Shared module providers are singletons across all importers": as long as no
\* get() comes upon a provider that another one is building.  Then, where no module
\* is dynamic and no global one is offered too early, nothing is built twice and
\* all that is built is what the application initializes; and where every module
\* is imported by one other, dynamic modules share as well, and a graph that lists
\* and exports what it uses boots.  Gets only come upon each other where controllers
\* share a provider; then the later one fails, or builds it again.
SharesInstances ==
    /\ met # {} => ~Apart
    /\ met = {} =>
         /\ graph.dynamic = {} /\ GlobalsAreReady =>
              OneInstance /\ \A k \in DOMAIN built : built[k].w.in = Root
         /\ WellFormed /\ (\A m \in Modules : ImportedOnce(m)) => boot # "failed" /\ OneInstance

\* The boot comes to an end, also when modules import one another.
BootSettles == <>(boot \in {"ok", "failed"})
=============================================================================
