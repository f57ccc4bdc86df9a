---------------------------- MODULE HttpPipeline ----------------------------
(***************************************************************************)
(* What is made of a decorated method: of a controller's by                *)
(* createRouteHandler, under the class middlewares of its module and the   *)
(* route's error hook; of a gateway's, the upgrade guards; of a pattern    *)
(* handler and of a GraphQL resolver.  Several requests are under way at   *)
(* once; every await is a step.  An instance is named by its owner: the    *)
(* application ("app") or the request it was made for.                     *)
(***************************************************************************)
EXTENDS Naturals, SequencesExt

CONSTANTS
    Requests,       \* requests, or upgrades of the gateway
    Routes,         \* the routes considered
    FilterKinds,    \* on each kind of route, the filters considered, by what catch()
                    \* will do: "skips" the exception, "passes" (returns nothing),
                    \* "answers", "throws"; "unknown": answers, and is a class the
                    \* container has no provider for
    MaxFilters,     \* bound: global filters ever registered
    Bodies          \* request bodies: multipart or not, the fields that hold files, and
                    \* whether the other fields are what a form's DTO asks for; a file is
                    \* TRUE when it is within the size and of a type allowed

\* Only what runs guards has any: createHandler() and createEventHandler() do not.
PipelineAssumption ==
    \A r \in Routes :
        /\ r.guards \in Seq({"single", "request", "new"})
        /\ r.interceptors \in Seq({"single", "request", "new"})
        /\ r.kind \in {"http", "ws", "message", "event", "graphql"}
        /\ r.kind \in {"message", "event"} => r.guards = <<>>

VARIABLES
    route,          \* the decorators of the method, the scopes of its guards and interceptors
                    \* and its kind: "http", "ws", "message", "event", "graphql"
    req,            \* each request: where it is, what it has called, its answer
    bound,          \* lazyBind: the method is bound to the controller
    cached,         \* the instance each singleton guard's resolver has cached; of a
                    \* GraphQL guard, the one registered when it was first met
    chain,          \* Injector._resolutionChain
    held,           \* the container holds the application's modules
    filters         \* the application's globalFilters

pipelineVars == <<route, req, bound, cached, chain, held, filters>>

Svc == 0            \* a request-scoped provider; guard i is the token i

NoFiles == [kind |-> "none", name |-> "", limited |-> FALSE, most |-> 0]

\* compileResolvers(): no parameter is injected by type.
Compiled == route.params # "di"

NeedsFullPath ==
    \/ route.guards # <<>> \/ route.interceptors # <<>>
    \/ route.files # NoFiles \/ route.httpCode

Init ==
    /\ route \in Routes
    /\ req = [r \in Requests |-> [pc |-> "idle", at |-> 1, by |-> "none", log |-> <<>>,
                                  files |-> <<>>, answer |-> "none"]]
    /\ bound = FALSE
    /\ cached = [i \in DOMAIN route.guards |-> "none"]
    /\ chain = <<>>
    /\ held = TRUE
    /\ filters = <<>>

\* _globalExceptionFilters, emptied by Container.clear().
Registry == IF held THEN filters ELSE <<>>

At(r, pc) == req[r].pc = pc

Go(r, pc, at) == req' = [req EXCEPT ![r].pc = pc, ![r].at = at]

\* r hands `by` to what it awaits next.
Hand(r, pc, by) == req' = [req EXCEPT ![r].pc = pc, ![r].by = by]

\* r has called something: what, the how-manieth, and on whose instance.
Called(r, what, at, by, pc, next) ==
    req' = [req EXCEPT ![r].pc = pc, ![r].at = next,
                       ![r].log = Append(@, [what |-> what, at |-> at, by |-> by])]

\* The handler's promise settles: inside a middleware, use() goes on.
Result(r, answer) ==
    req' = [req EXCEPT ![r].pc = IF route.middleware THEN "after" ELSE "done",
                       ![r].answer = answer]

Answered(r, answer) == req' = [req EXCEPT ![r].pc = "done", ![r].answer = answer]

-----------------------------------------------------------------------------
\* The tier of the route, chosen when it was mapped.
First(r) ==
    CASE route.kind \in {"ws", "graphql"} -> "guards"
      [] route.kind \in {"message", "event"} -> "instance"
      [] OTHER -> IF NeedsFullPath \/ ~Compiled THEN "controller" ELSE IF bound THEN "handle" ELSE "binding"

Arrive(r) ==
    /\ At(r, "idle")
    /\ Go(r, IF route.middleware THEN "use" ELSE First(r), 1)
    /\ UNCHANGED <<route, bound, cached, chain, held, filters>>

\* use(ctx, next): calls next(), answers by itself, or throws.
Use(r) ==
    /\ At(r, "use")
    /\ \/ Go(r, First(r), 1)
       \/ Answered(r, "middleware")
       \/ Go(r, "error", 1)
    /\ UNCHANGED <<route, bound, cached, chain, held, filters>>

\* After next(): use() returns what it got, nothing, or throws.
UseAfter(r) ==
    /\ At(r, "after")
    /\ \/ Answered(r, req[r].answer)
       \/ Answered(r, "empty")
       \/ Go(r, "error", 1)
    /\ UNCHANGED <<route, bound, cached, chain, held, filters>>

\* init(): a first request waits for the controller, without a request context.
Bind(r) ==
    /\ At(r, "binding")
    /\ bound' = (bound \/ held)
    /\ Go(r, IF held THEN "handle" ELSE "error", 1)
    /\ UNCHANGED <<route, cached, chain, held, filters>>

ResolveController(r) ==
    /\ At(r, "controller")
    /\ IF held THEN Go(r, "guards", 1) ELSE Result(r, "unavailable")
    /\ UNCHANGED <<route, bound, cached, chain, held, filters>>

\* DIContainer.get() of a pattern handler's controller, or of a resolver's class.
Instance(r) ==
    /\ At(r, "instance")
    /\ Go(r, IF held THEN "handle" ELSE "error", 1)
    /\ UNCHANGED <<route, bound, cached, chain, held, filters>>

-----------------------------------------------------------------------------
\* loadInstance() in the request's context, for a token the request has not asked
\* for yet: found on the chain of a get() under way it is taken for a cycle.
InContext(token, waits, cycle) ==
    \/ /\ Contains(chain, token)
       /\ cycle /\ UNCHANGED chain
    \/ /\ ~Contains(chain, token)
       /\ waits /\ chain' = Append(chain, token)

Scope(r) == route.guards[req[r].at]

\* Faulty variant: isPerRequestScope() knows Scope.TRANSIENT only.
PerRequest_Faulty(r) == FALSE

\* isPerRequestScope(), for the guards that are classes of the container.
PerRequest(r) == Scope(r) = "request"

\* The resolvers of buildGuardResolvers().
ResolveGuard(r) ==
    /\ At(r, "guards") /\ req[r].at \in DOMAIN route.guards
    /\ route.kind = "http"
    /\ \/ /\ ~PerRequest(r) /\ cached[req[r].at] # "none"
          /\ Hand(r, "activate", cached[req[r].at])
          /\ UNCHANGED chain
       \/ /\ ~PerRequest(r) /\ cached[req[r].at] = "none"
          /\ Hand(r, "resolving", IF held /\ Scope(r) = "single" THEN "app" ELSE r)
          /\ UNCHANGED chain
       \/ /\ PerRequest(r) /\ held
          /\ InContext(req[r].at, Hand(r, "building", r), Go(r, "error", 1))
       \/ /\ PerRequest(r) /\ ~held
          /\ Hand(r, "activate", r)
          /\ UNCHANGED chain
    /\ UNCHANGED <<route, bound, cached, held, filters>>

\* runWsGuards(), before the upgrade: it caches nothing and has no request context,
\* so that it gets the instance made when the application started.
ResolveUpgradeGuard(r) ==
    /\ At(r, "guards") /\ req[r].at \in DOMAIN route.guards
    /\ route.kind = "ws"
    /\ Hand(r, "activate", IF held /\ Scope(r) # "new" THEN "app" ELSE r)
    /\ UNCHANGED <<route, bound, cached, chain, held, filters>>

\* resolveGuard() of a resolver, without a request context: what the container has;
\* a class it does not have is registered, by every request that looked too early.
LookUpGuard(r) ==
    /\ At(r, "guards") /\ req[r].at \in DOMAIN route.guards
    /\ route.kind = "graphql"
    /\ \/ held /\ Scope(r) # "new" /\ Hand(r, "activate", "app")
       \/ ~(held /\ Scope(r) # "new") /\ cached[req[r].at] # "none"
          /\ Hand(r, "activate", cached[req[r].at])
       \/ ~(held /\ Scope(r) # "new") /\ cached[req[r].at] = "none"
          /\ Hand(r, "registering", r)
    /\ UNCHANGED <<route, bound, cached, chain, held, filters>>

RegisterGuard(r) ==
    /\ At(r, "registering")
    /\ cached' = [cached EXCEPT ![req[r].at] = r]
    /\ InContext(req[r].at, Hand(r, "building", r), Go(r, "error", 1))
    /\ UNCHANGED <<route, bound, held, filters>>

\* A singleton guard is there: a request that came in meanwhile caches its own.
CacheGuard(r) ==
    /\ At(r, "resolving")
    /\ cached' = [cached EXCEPT ![req[r].at] = req[r].by]
    /\ Hand(r, "activate", req[r].by)
    /\ UNCHANGED <<route, bound, chain, held, filters>>

\* File and form parameters come last.
AfterParams == IF route.files = NoFiles THEN "handle" ELSE "files"

\* The guard or the parameter is built; the chain loses whatever came last.
Built(r) ==
    /\ \/ At(r, "building") /\ Hand(r, "activate", r)
       \/ At(r, "injecting") /\ Called(r, "param", 0, r, AfterParams, 1)
    /\ chain' = Front(chain)
    /\ UNCHANGED <<route, bound, cached, held, filters>>

\* Faulty variant: the handler does not look at what runGuards() returned.
Activate_Faulty(r) ==
    /\ At(r, "activate")
    /\ \/ Called(r, "allow", req[r].at, req[r].by, "guards", req[r].at + 1)
       \/ Called(r, "deny", req[r].at, req[r].by, "guards", Len(route.guards) + 1)
       \/ Go(r, "error", 1)
    /\ UNCHANGED <<route, bound, cached, chain, held, filters>>

\* canActivate(): yes, no (403), or it throws.
Activate(r) ==
    /\ At(r, "activate")
    /\ \/ Called(r, "allow", req[r].at, req[r].by, "guards", req[r].at + 1)
       \/ /\ req' = [req EXCEPT
                ![r].pc = IF route.middleware THEN "after" ELSE "done",
                ![r].answer = "forbidden",
                ![r].log = Append(@, [what |-> "deny", at |-> req[r].at, by |-> req[r].by])]
       \/ Go(r, "error", 1)
    /\ UNCHANGED <<route, bound, cached, chain, held, filters>>

GuardsPassed(r) ==
    /\ At(r, "guards") /\ req[r].at \notin DOMAIN route.guards
    /\ Go(r, CASE route.kind = "ws" -> "handle" [] route.kind = "graphql" -> "instance"
                [] OTHER -> "intercept", 1)
    /\ UNCHANGED <<route, bound, cached, chain, held, filters>>

-----------------------------------------------------------------------------
Intercept(r) ==
    /\ At(r, "intercept")
    /\ \/ /\ req[r].at \in DOMAIN route.interceptors
          /\ \/ Called(r, "intercept", req[r].at,
                       IF route.interceptors[req[r].at] = "single" THEN "app" ELSE r,
                       "intercept", req[r].at + 1)
             \/ Go(r, "error", 1)
       \/ /\ req[r].at \notin DOMAIN route.interceptors
          /\ Go(r, "params", 1)
    /\ UNCHANGED <<route, bound, cached, chain, held, filters>>

\* A parameter that cannot be resolved is undefined.
Params(r) ==
    /\ At(r, "params")
    /\ \/ /\ Compiled \/ ~held
          /\ Go(r, AfterParams, 1) /\ UNCHANGED chain
       \/ /\ ~Compiled /\ held
          /\ InContext(Svc, Hand(r, "injecting", r), Go(r, AfterParams, 1))
    /\ UNCHANGED <<route, bound, cached, held, filters>>

Fields(b) == {k \in DOMAIN b.fields : route.files.name \in {"", b.fields[k].name}}

\* @File(): the named field when it holds one file, or the first field that does.
OneFile(b) ==
    LET single == {k \in Fields(b) : ~b.fields[k].array}
    IN  IF single = {} THEN <<>>
        ELSE b.fields[CHOOSE k \in single : \A j \in single : k <= j].files

\* @Files(): all there are, in the named field or in every field.
AllFiles(b) == FlattenSeq([k \in DOMAIN b.fields |->
                              IF k \in Fields(b) THEN b.fields[k].files ELSE <<>>])

\* What processParameters() finds for the parameter.
Taken(b) ==
    CASE ~b.multipart \/ route.files.kind = "form" -> <<>>
      [] route.files.kind = "file" -> OneFile(b)
      [] OTHER -> AllFiles(b)

\* validateFile() and validateFiles(), of a parameter with options.
Within(fs) ==
    route.files.limited =>
        /\ \A k \in DOMAIN fs : fs[k]
        /\ route.files.kind = "files" /\ route.files.most > 0 => Len(fs) <= route.files.most

\* A file out of its limits and a form that is not what its DTO asks for are a bad
\* request.
FileParams(r) ==
    /\ At(r, "files")
    /\ \E b \in Bodies :
         \/ /\ route.files.kind = "form" /\ route.files.limited /\ ~b.valid
            /\ Go(r, "error", 1)
         \/ /\ route.files.kind # "form" /\ ~Within(Taken(b))
            /\ Go(r, "error", 1)
         \/ /\ IF route.files.kind = "form" THEN route.files.limited => b.valid
               ELSE Within(Taken(b))
            /\ req' = [req EXCEPT ![r].pc = "handle", ![r].files = Taken(b)]
    /\ UNCHANGED <<route, bound, cached, chain, held, filters>>

\* The method, on the controller made when the application started; then the
\* status code and the headers.  A gateway opens.
Handle(r) ==
    /\ At(r, "handle")
    /\ Called(r, "handle", 0, "app", "handling", 1)
    /\ UNCHANGED <<route, bound, cached, chain, held, filters>>

HandlerSettles(r) ==
    /\ At(r, "handling")
    /\ Result(r, "result") \/ (route.kind # "ws" /\ Go(r, "error", 1))
    /\ UNCHANGED <<route, bound, cached, chain, held, filters>>

-----------------------------------------------------------------------------
\* A middleware around it may catch the error; otherwise Elysia calls the route's
\* error hook, and answers for itself when that returns nothing.
Fails(r) ==
    /\ At(r, "error") /\ route.kind \notin {"message", "event"}
    /\ \/ route.middleware /\ Answered(r, "middleware")
       \/ /\ route.kind = "http" /\ Registry # <<>>
          /\ Go(r, "filters", 1)
       \/ /\ route.kind # "http" \/ Registry = <<>>
          /\ Answered(r, "default")
    /\ UNCHANGED <<route, bound, cached, chain, held, filters>>

\* applyExceptionFilters() walks the list itself: it may grow or be cleared meanwhile.
ApplyFilter(r) ==
    /\ At(r, "filters")
    /\ \/ /\ req[r].at > Len(Registry) /\ Answered(r, "default")
       \/ /\ req[r].at <= Len(Registry) /\ Registry[req[r].at] \in {"skips", "passes"}
          /\ Go(r, "filters", req[r].at + 1)
       \/ /\ req[r].at <= Len(Registry) /\ Registry[req[r].at] \in {"answers", "unknown"}
          /\ Answered(r, "filter")
       \/ /\ req[r].at <= Len(Registry) /\ Registry[req[r].at] = "throws"
          /\ Answered(r, "default")
    /\ UNCHANGED <<route, bound, cached, chain, held, filters>>

\* The transport is answered with the error; that of an event is logged instead.
Rethrown(r) == Answered(r, IF route.kind = "event" THEN "empty" ELSE "thrown")

\* The wrappers of createHandler() and createEventHandler().
HandlerFails(r) ==
    /\ At(r, "error") /\ route.kind \in {"message", "event"}
    /\ IF filters # <<>> THEN Go(r, "dispatch", 1) ELSE Rethrown(r)
    /\ UNCHANGED <<route, bound, cached, chain, held, filters>>

\* dispatchToFilters(): the first filter that catches decides, whatever it returns; an
\* event handler returns nothing.
Dispatch(r) ==
    /\ At(r, "dispatch")
    /\ IF req[r].at > Len(filters) THEN Rethrown(r)
       ELSE LET kind == filters[req[r].at] IN
            CASE kind \in {"skips", "unknown"} -> Go(r, "dispatch", req[r].at + 1)
              [] kind = "throws" -> Rethrown(r)
              [] OTHER -> Answered(r, IF kind = "answers" /\ route.kind = "message"
                                      THEN "filter" ELSE "empty")
    /\ UNCHANGED <<route, bound, cached, chain, held, filters>>

UseGlobalFilter(kind) ==
    /\ Len(filters) < MaxFilters /\ held
    /\ filters' = Append(filters, kind)
    /\ UNCHANGED <<route, req, bound, cached, chain, held>>

\* Another application is created in this process: Container.clear().
Clear ==
    /\ held
    /\ held' = FALSE
    /\ cached' = IF route.kind = "graphql" THEN [i \in DOMAIN cached |-> "none"] ELSE cached
    /\ UNCHANGED <<route, req, bound, chain, filters>>

Step(r) ==
    \/ Use(r) \/ UseAfter(r) \/ Bind(r) \/ ResolveController(r) \/ ResolveGuard(r)
    \/ ResolveUpgradeGuard(r) \/ FileParams(r)
    \/ CacheGuard(r) \/ Built(r) \/ Activate(r) \/ GuardsPassed(r) \/ Intercept(r)
    \/ Params(r) \/ Handle(r) \/ HandlerSettles(r) \/ Fails(r) \/ ApplyFilter(r)
    \/ Instance(r) \/ LookUpGuard(r) \/ RegisterGuard(r) \/ HandlerFails(r) \/ Dispatch(r)

Next ==
    \/ \E r \in Requests : Arrive(r) \/ Step(r)
    \/ \E kind \in FilterKinds[route.kind] : UseGlobalFilter(kind)
    \/ Clear

Spec == Init /\ [][Next]_pipelineVars

-----------------------------------------------------------------------------
Log(r) == {req[r].log[k] : k \in DOMAIN req[r].log}

Asked(e) == e.what \in {"allow", "deny"}

\* Whatever the routes, the requests around it and the state of the container, an
\* interceptor, an injected parameter or the method itself runs for a request only
\* once every guard of the class and of the method has allowed that request, each
\* asked once and in order; nothing is called after a refusal.  Files reach the method
\* only within the limits of its parameter.
GuardsFirst == \A r \in Requests : LET log == req[r].log IN
    /\ \A k \in DOMAIN log : ~Asked(log[k]) =>
          \A i \in DOMAIN route.guards :
             \E j \in 1 .. k - 1 : log[j].what = "allow" /\ log[j].at = i
    /\ \A j, k \in DOMAIN log : j < k /\ Asked(log[j]) /\ Asked(log[k]) => log[j].at < log[k].at
    /\ \A k \in DOMAIN log : log[k].what = "deny" => k = Len(log)
    /\ route.files.limited /\ log # <<>> /\ Last(log).what = "handle" =>
          \A k \in DOMAIN req[r].files : req[r].files[k]

\* A request-scoped guard, interceptor or parameter of a request is its own, a
\* singleton of the container or of the route is everybody's, however requests overlap.
ScopesHonoured == \A r \in Requests : \A e \in Log(r) :
    /\ Asked(e) /\ route.guards[e.at] = "request" /\ route.kind = "http" => e.by = r
    /\ e.what = "intercept" => e.by = IF route.interceptors[e.at] = "single" THEN "app" ELSE r
    /\ e.what = "param" => e.by = r
    /\ Asked(e) /\ route.guards[e.at] = "single" /\ held => e.by = "app"

Injected(e) == e.what = "param" \/ (e.what = "handle" /\ route.injects)

\* A provider with Scope.REQUEST that a handler is given, as a parameter or by
\* the constructor of its controller, is a new instance for every request.
RequestScopeHonoured == \A r, s \in Requests : r # s =>
    \A e \in Log(r), f \in Log(s) : Injected(e) /\ Injected(f) => e.by # f.by

Busy(r) == req[r].pc \notin {"idle", "done"}
=============================================================================
