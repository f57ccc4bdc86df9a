--------------------------- MODULE MCApplication ----------------------------
(***************************************************************************)
(* Module graphs over a root and three modules: every combination of an    *)
(* import shape (tree, chain, shared module, import cycle) with the kinds  *)
(* of module, the homes of two providers and the needs of two controllers  *)
(* of one module or of two, which share a provider or do not; and three    *)
(* that share two.  Every pair of registrations of the packages, and       *)
(* triples of one.  Three classes that decorate two methods, in containers *)
(* where an instance has two tokens, a token two wrappers, and one was not *)
(* built.  Two class providers around one given with useValue, and two     *)
(* transports.  Two test modules, with an alias, a factory, an object      *)
(* under two tokens and something missing, and mocks of what is declared   *)
(* and of what is not.  Two transports of any kind, started twice, closed  *)
(* once; one request that fails among two filters and two HTTP servers.    *)
(***************************************************************************)
EXTENDS Application, Sequences

CONSTANTS ma, mb, mc, ta, tb, qa, qb, qc, pa, pv, pb, x1, x2, s1, s2, r1

Shape(r, a, b, c) ==
    [m \in Modules |-> IF m = Root THEN r ELSE IF m = ma THEN a ELSE IF m = mb THEN b ELSE c]

Shapes == {
    Shape(<<ma, mb>>, <<mc>>, <<>>, <<>>),          \* a tree
    Shape(<<mb>>, <<mc>>, <<ma>>, <<>>),            \* a chain
    Shape(<<ma, mb>>, <<mc>>, <<ma>>, <<>>),        \* ma is imported twice
    Shape(<<mb, ma>>, <<mc>>, <<mc>>, <<>>),        \* mc is imported twice
    Shape(<<mc, ma>>, <<mc>>, <<>>, <<mb>>),        \* and imports mb itself
    Shape(<<mb, ma>>, <<>>, <<ma>>, <<>>),          \* mc is not imported
    Shape(<<ma>>, <<mb, mc>>, <<ma>>, <<>>)}        \* ma and mb import one another

PairGraphs ==
    {[imports |-> s, dynamic |-> d, global |-> IF h = mc /\ d = {} THEN g ELSE {},
      home |-> [t \in Tokens |-> IF t = ta THEN ma ELSE h],
      exported |-> IF d = {} THEN e ELSE Tokens,
      dep |-> [t \in Tokens |-> IF t = ta THEN x ELSE None],
      seat |-> [c \in Controllers |-> IF c = qa \/ (c = qb /\ k # {} /\ l) THEN ma
                                     ELSE IF c = qb THEN mb ELSE Root],
      needs |-> [c \in Controllers |-> IF c = qa THEN y ELSE IF c = qb THEN z ELSE None],
      hooked |-> k] :
        s \in Shapes, d \in {{}, {ma, mc}}, g \in {{}, {mc}}, e \in {{}, Tokens}, h \in {Root, mc},
        x \in {None, tb}, y \in {ta, tb}, z \in {None, ta}, k \in {{}, {qa, qb}}, l \in BOOLEAN}

\* Two controllers that are set up together, and a third in a module that comes later:
\* it may find that a provider under way is not on the chain any more.
CrowdGraphs ==
    {[imports |-> Shape(<<ma, mb>>, i, <<ma>>, <<>>), dynamic |-> {}, global |-> {},
      home |-> [t \in Tokens |-> ma], exported |-> Tokens,
      dep |-> [t \in Tokens |-> IF t = ta THEN x ELSE None],
      seat |-> [c \in Controllers |-> IF c = qc THEN mb ELSE ma],
      needs |-> [c \in Controllers |-> IF c = qa THEN ta ELSE IF c = qb THEN tb ELSE y],
      hooked |-> {qa, qb}] :
        i \in {<<>>, <<mc>>}, x \in {None, tb}, y \in Tokens}

MCGraphs == PairGraphs \cup CrowdGraphs

\* Every pair of calls on one package or with the cache, which may provide
\* ConfigService itself, three calls on one, and a cache that provides it to all when
\* a module that does not see the root needs it.
C(p, m, b, t, n, g) == [package |-> p, method |-> m, by |-> b, tag |-> t, injects |-> n, isGlobal |-> g]
MCCalls ==
    {C("rabbitmq", "forRoot", "value", "", FALSE, g) : g \in BOOLEAN}
    \cup {C("rabbitmq", "forRootAsync", "factory", "", n, g) : n \in BOOLEAN, g \in BOOLEAN}
    \cup {C("rabbitmq", m, "value", "", FALSE, FALSE) : m \in {"forFeature", "attach"}}
    \cup {C("drizzle", "forRoot", "value", t, FALSE, g) : t \in {"a", "b"}, g \in BOOLEAN}
    \cup {C("drizzle", "forRootAsync", b, t, FALSE, g) :
            t \in {"a", "b"}, b \in {"class", "existing"}, g \in BOOLEAN}
    \cup {C("drizzle", "forRootAsync", "factory", t, TRUE, FALSE) : t \in {"a", "b"}}
    \cup {C("bullmq", "forRoot", "value", "", FALSE, g) : g \in BOOLEAN}
    \cup {C("bullmq", "forRootAsync", "factory", "", n, g) : n \in BOOLEAN, g \in BOOLEAN}
    \cup {C("bullmq", "registerQueue", "value", "q", FALSE, FALSE)}
    \cup {C("cache", "register", "value", "", FALSE, g) : g \in BOOLEAN}
    \cup {C("cache", "registerAsync", b, "", FALSE, g) : b \in {"class", "existing"}, g \in BOOLEAN}
    \cup {C("cache", "registerAsync", "factory", t, TRUE, g) : t \in {"", "provided"}, g \in BOOLEAN}
    \cup {C("graphql", "forRoot", "value", "", FALSE, TRUE)}
    \cup {C("graphql", "forRootAsync", "factory", "", n, TRUE) : n \in BOOLEAN}
    \cup {C("pubsub", "forRoot", b, "", FALSE, g) : b \in {"value", "existing"}, g \in BOOLEAN}
    \cup {C("pubsub", "forRootAsync", "factory", "", n, g) : n \in BOOLEAN, g \in BOOLEAN}
    \cup {C("event-emitter", "forRoot", "value", "", FALSE, g) : g \in BOOLEAN}
    \cup {C("scheduler", "forRoot", "value", "", FALSE, TRUE)}
MCPrograms ==
    {p \in MCCalls \X MCCalls : p[1].package = p[2].package \/ p[2].package = "cache"}
    \cup UNION {LET S == {c \in MCCalls : c.package = p} IN S \X S \X S : p \in {"rabbitmq", "bullmq"}}
    \cup {<<C("rabbitmq", "forRootAsync", "factory", "", TRUE, g),
            C("rabbitmq", "forFeature", "value", "", FALSE, FALSE),
            C("cache", "registerAsync", "factory", "provided", TRUE, TRUE)>> : g \in BOOLEAN}

MCOrder == <<pa, pv, pb>>
MCTransports == <<"tcp", "redis">>

MCKin == 1 .. 3
MCHierarchies == {<<0, 1, 1>>, <<0, 1, 2>>}

Wrapper(t, c, i, v) == [token |-> t, kin |-> c, instance |-> i, value |-> v]
MCContents == {
    <<Wrapper("a", 1, 1, FALSE), Wrapper("b", 2, 2, FALSE), Wrapper("c", 3, 3, FALSE)>>,
    <<Wrapper("c", 3, 1, TRUE), Wrapper("d", 3, 1, TRUE), Wrapper("b", 2, 0, FALSE)>>,
    <<Wrapper("c", 3, 0, FALSE), Wrapper("c", 3, 2, FALSE), Wrapper("b", 2, 3, FALSE)>>}

Provider(t, k, o, n) == [token |-> t, kind |-> k, object |-> o, needs |-> n]
MCBenches == {
    <<Provider("users", "class", "users", "db"), Provider("db", "class", "db", "nothing"),
      Provider("repo", "alias", "nothing", "db")>>,
    <<Provider("cache", "value", "redis", "nothing"), Provider("store", "value", "redis", "nothing"),
      Provider("users", "factory", "users", "repo"), Provider("repo", "alias", "nothing", "log")>>}
MCMocks == {
    Provider("db", "value", "fake", "nothing"), Provider("db", "class", "stub", "cache"),
    Provider("log", "factory", "mute", "nothing"), Provider("log", "value", "mock", "nothing")}
=============================================================================
