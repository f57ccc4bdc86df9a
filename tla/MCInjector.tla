---------------------------- MODULE MCInjector ------------------------------
(* Small dependency graphs and get() calls for TLC. *)
EXTENDS Injector, TLC

CONSTANTS pa, pb, pc, g1, g2, g3

Plain(S) == [token : S, optional : {FALSE}]
Optional(S) == [token : S, optional : {TRUE}]
Lists(D) == {<<>>} \cup {<<d>> : d \in D} \cup {<<d, e>> : d \in D, e \in D}
Singletons == [w \in Wrappers |-> "singleton"]

Upto1(D) == {<<>>} \cup {<<d>> : d \in D}

\* Graphs of three singletons with every kind of cycle, self-reference,
\* missing and optional parameter: pa has up to two parameters, pb and pc one.
AllGraphs ==
    {[sequential |-> TRUE, scope |-> Singletons, deps |-> (pa :> x @@ pb :> y @@ pc :> z)] :
        x \in Lists(Plain({pb, pc, Missing}) \cup Optional({pb, pc})),
        y \in Upto1(Plain(Wrappers) \cup Optional({pa})), z \in Upto1(Plain({pa, pb}))}

\* Acyclic graphs: a parameter comes later in the order pa, pb, pc.
Acyclic ==
    {[sequential |-> FALSE, scope |-> Singletons, deps |-> (pa :> x @@ pb :> y @@ pc :> <<>>)] :
        x \in Lists(Plain({pb, pc})), y \in Lists(Plain({pc, Missing}))}

\* Two of the providers of another scope, with and without a cycle between them.
Scoped(s) ==
    {[sequential |-> FALSE, scope |-> (pa :> "singleton" @@ pb :> s @@ pc :> s),
      deps |-> (pa :> x @@ pb :> y @@ pc :> z)] :
        x \in Lists(Plain({pb})), y \in Upto1(Plain({pc}) \cup Optional({pc})), z \in Upto1(Plain({pb}))}

\* Calls that overlap on these graphs, and one after the other on all of them.
Considered == AllGraphs \cup Acyclic \cup Scoped("request") \cup Scoped("transient")

BootRoots == [g \in Gets |-> (g1 :> pa @@ g2 :> pb @@ g3 :> pc)[g]]
OneRequestEach == [g \in Gets |-> IF g = g1 THEN Static ELSE CHOOSE r \in Requests : TRUE]
=============================================================================
