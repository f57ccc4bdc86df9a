------------------------------ MODULE Discovery -----------------------------
(***************************************************************************)
(* How decorated methods become registered handlers.  A decorator runs     *)
(* when its class is declared and leaves metadata; once the application's  *)
(* providers are built an explorer, or the set-up of a controller, reads   *)
(* it and registers what it finds.  The packages do this in three ways:    *)
(*                                                                         *)
(*   Shared   the decorator pushes onto the list Reflect.getMetadata()     *)
(*            finds for the class.  That call looks at base classes too,   *)
(*            so a derived class pushes onto the list of its base.         *)
(*   Own      it starts a list for the class, which hides those of bases.  *)
(*   Methods  it marks the method.  The explorers list the names the class *)
(*            itself defines and read each mark through base classes.      *)
(*                                                                         *)
(* The list of parameters belongs to a method, every other to the class.   *)
(***************************************************************************)
EXTENDS Naturals, Sequences, FiniteSets

CONSTANTS
    Kin,            \* the classes, 1 .. n, in the order they are declared
    Hierarchies,    \* the class hierarchies considered: the base of each, or 0
    Names,          \* of methods
    Families,       \* the kinds of handler, of those below
    Contents        \* what the container may hold: sequences of wrappers

Shared == {"event", "worker", "process", "job", "hook", "file"}
Own == {"route", "param"}
Methods == {"rabbit", "pattern", "gateway"}

OfControllers == Own \cup {"hook", "file", "pattern", "gateway"}

Wrappers == [token : STRING, kin : Kin, instance : Nat, value : BOOLEAN]

DiscoveryAssumption ==
    /\ Cardinality(Kin) \in Nat /\ Kin = 1 .. Cardinality(Kin)
    /\ Families \subseteq Shared \cup Own \cup Methods
    /\ \A b \in Hierarchies : \A c \in Kin : b[c] \in 0 .. c - 1
    /\ Contents \subseteq Seq(Wrappers)

VARIABLES
    family, parent, content,
    toDeclare,  \* the class whose body runs next
    methods,    \* per class, the names its prototype defines
    marked,     \* per class, the names its body decorates
    lists,      \* per class and key, the list begun there: pairs <<class, name>>
    owns,       \* per class and key, whose list its own metadata refers to, or 0
    visited,    \* how many wrappers the explorer has gone through
    handlers,
    phase       \* "declaring", "exploring", "running", "failed", "stopped"

discovery == <<family, parent, content, toDeclare, methods, marked, lists, owns,
               visited, handlers, phase>>

\* Parameters are noted under the class and the method, all else under the class.
Whole == "*"
Keys == Names \cup {Whole}
Key(n) == IF family \in {"file", "param"} THEN n ELSE Whole

\* A module's controllers and gateways are classes, each built once.
Plain(s) == \A k \in DOMAIN s : s[k].instance = k /\ ~s[k].value

Init ==
    /\ family \in Families /\ parent \in Hierarchies /\ content \in Contents
    /\ family \in OfControllers => Plain(content)
    /\ toDeclare = 1
    /\ methods = [c \in Kin |-> {}] /\ marked = [c \in Kin |-> {}]
    /\ lists = [c \in Kin |-> [k \in Keys |-> {}]] /\ owns = [c \in Kin |-> [k \in Keys |-> 0]]
    /\ visited = 0 /\ handlers = {} /\ phase = "declaring"

-----------------------------------------------------------------------------
\* The class that c inherits f from, itself included; 0 where f holds nowhere.
Nearest(c, f) ==
    LET N[x \in 0 .. Cardinality(Kin)] ==
            IF x = 0 \/ f[x] THEN x ELSE N[parent[x]]
    IN  N[c]

\* Reflect.getMetadata(KEY, target.constructor)
\* Faulty variant: Reflect.getOwnMetadata().
Found_Own(c, k) == owns[c][k]
Found(c, k) == LET d == Nearest(c, [x \in Kin |-> owns[x][k] # 0]) IN IF d = 0 THEN 0 ELSE owns[d][k]

\* The list a decorator of the class body pushes onto.
PushesOntoOwn(c, k) == IF owns[c][k] = 0 THEN c ELSE owns[c][k]
PushesOntoFound(c, k) == IF Found(c, k) = 0 THEN c ELSE Found(c, k)
Pushed(c, k) == IF family \in Own THEN PushesOntoOwn(c, k) ELSE PushesOntoFound(c, k)

\* The class that implements instance[name], 0 when there is no such method.
Implements(c, n) == Nearest(c, [x \in Kin |-> n \in methods[x]])

\* The class whose mark of the method Reflect.getMetadata(KEY, prototype, name) finds.
Marker(c, n) == Nearest(c, [x \in Kin |-> n \in marked[x]])

\* The body of a class: it defines the methods ms and decorates ds of them.
Declare ==
    /\ phase = "declaring" /\ toDeclare \in Kin
    /\ \E ms \in SUBSET Names : \E ds \in SUBSET ms :
       LET noted(k) == {<<toDeclare, n>> : n \in {n \in ds : Key(n) = k}}
           to == [k \in Keys |-> IF family \in Methods \/ noted(k) = {} THEN 0
                                 ELSE Pushed(toDeclare, k)]
       IN
       /\ methods' = [methods EXCEPT ![toDeclare] = ms]
       /\ marked' = [marked EXCEPT ![toDeclare] = ds]
       /\ lists' = [c \in Kin |-> [k \in Keys |->
                       lists[c][k] \cup (IF to[k] = c THEN noted(k) ELSE {})]]
       /\ owns' = [owns EXCEPT ![toDeclare] = to]
    /\ toDeclare' = toDeclare + 1
    /\ UNCHANGED <<family, parent, content, visited, handlers, phase>>

Boot ==
    /\ phase = "declaring" /\ toDeclare \notin Kin
    /\ phase' = "exploring"
    /\ UNCHANGED <<family, parent, content, toDeclare, methods, marked, lists, owns,
                   visited, handlers>>

-----------------------------------------------------------------------------
List(c, k) == IF Found(c, k) = 0 THEN {} ELSE lists[Found(c, k)][k]

\* Where the entries go into a map by name, the last that was pushed remains.
Latest(xs) == {x \in xs : \A y \in xs : y[2] = x[2] => y[1] <= x[1]}

\* Listeners, workers' events and jobs: each entry whose method the instance has.
ListMarks(c) == {x \in List(c, Whole) : Implements(c, x[2]) # 0}

\* registerProcessor(): each entry names another job.
ProcessMarks(c) == Latest(ListMarks(c))

\* setupController() maps every route of the list, setupControllerHooks() every hook.
RouteMarks(c) == List(c, Whole)
HookMarks(c) == List(c, Whole)

\* collectMetadata() of each method: the parameter each entry describes.
ParamMarks(c) == UNION {Latest(List(c, n)) : n \in {n \in Names : Implements(c, n) # 0}}

\* The names of the class's own prototype.
Marking(c) == {n \in methods[c] : Marker(c, n) # 0}
RabbitMarks(c) == {<<Marker(c, n), n>> : n \in Marking(c)}
PatternMarks(c) == {<<Marker(c, n), n>> : n \in Marking(c)}
GatewayMarks(c) == {<<Marker(c, n), n>> : n \in Marking(c)}

\* What is registered for an instance of c.
Marks(c) ==
    CASE family \in {"event", "worker", "job"} -> ListMarks(c)
      [] family = "process" -> ProcessMarks(c)
      [] family = "route" -> RouteMarks(c)
      [] family = "hook" -> HookMarks(c)
      [] family \in {"param", "file"} -> ParamMarks(c)
      [] family = "rabbit" -> RabbitMarks(c)
      [] family = "pattern" -> PatternMarks(c)
      [] family = "gateway" -> GatewayMarks(c)

Before(k) == {content[j] : j \in 1 .. k - 1}

\* Which wrappers count: EventEmitterExplorer and QueueExplorer take each one
\* that has an instance (0: not built), ScheduleExplorer each instance once,
\* RabbitMQExplorer each token once and no useValue provider.
Counts(k) ==
    LET w == content[k] IN
    CASE family \in {"event", "worker", "process"} -> w.instance # 0
      [] family = "job" -> w.instance # 0 /\ \A v \in Before(k) : v.instance # w.instance
      [] family = "rabbit" -> ~w.value /\ \A v \in Before(k) : v.token # w.token
      [] OTHER -> TRUE

\* container.get(token) gives the instance of the first wrapper that has one.
InstanceFor(k) ==
    LET same == {j \in DOMAIN content : content[j].token = content[k].token
                                        /\ content[j].instance # 0}
    IN  IF family = "rabbit" /\ same # {}
        THEN content[CHOOSE j \in same : \A i \in same : j <= i].instance
        ELSE content[k].instance

\* A hook of the list that the controller has no method for.
Unbindable(k) == \E x \in HookMarks(content[k].kin) : Implements(content[k].kin, x[2]) = 0

Explore ==
    /\ phase = "exploring" /\ visited < Len(content)
    /\ ~(family = "hook" /\ Unbindable(visited + 1))
    /\ LET k == visited + 1 IN
       /\ handlers' = handlers \cup
             (IF Counts(k)
              THEN {[at |-> k, kin |-> content[k].kin, instance |-> InstanceFor(k),
                     mark |-> x] : x \in Marks(content[k].kin)}
              ELSE {})
       /\ visited' = k
       /\ phase' = IF k = Len(content) THEN "running" ELSE phase
    /\ UNCHANGED <<family, parent, content, toDeclare, methods, marked, lists, owns>>

\* method.bind() throws, and with it the set-up of the application.
ExploreFails ==
    /\ phase = "exploring" /\ visited < Len(content)
    /\ family = "hook" /\ Unbindable(visited + 1)
    /\ phase' = "failed"
    /\ UNCHANGED <<family, parent, content, toDeclare, methods, marked, lists, owns,
                   visited, handlers>>

\* onModuleDestroy(): listeners are taken off one by one, the scheduler's tasks
\* are cancelled and the workers closed.  All else is closed with its connection.
Destroy ==
    /\ phase = "running"
    /\ handlers' = IF family \in {"event", "worker", "process", "job"} THEN {} ELSE handlers
    /\ phase' = "stopped"
    /\ UNCHANGED <<family, parent, content, toDeclare, methods, marked, lists, owns, visited>>

Next == Declare \/ Boot \/ Explore \/ ExploreFails \/ Destroy
Spec == Init /\ [][Next]_discovery
-----------------------------------------------------------------------------
Ancestry(c) ==
    LET A[x \in 0 .. Cardinality(Kin)] == IF x = 0 THEN {} ELSE {x} \cup A[parent[x]] IN A[c]
Relatives(c) == {d \in Kin : Ancestry(c) \cap Ancestry(d) # {}}

\* Two classes of one family tree decorate methods: they share one list.
Mixed(c) == family \in Shared /\ \E d, e \in Relatives(c) : d # e /\ marked[d] # {} /\ marked[e] # {}

\* The class whose decorators decide on the method: for routes the nearest that
\* decorates any, otherwise the nearest that decorates this one.
Decider(c, n) ==
    IF family = "route" THEN Nearest(c, [x \in Kin |-> marked[x] # {}]) ELSE Marker(c, n)

\* What the decorators of the class and its bases ask to be registered.
Asked(c) ==
    {<<Decider(c, n), n>> : n \in {n \in Names : /\ Decider(c, n) # 0
                                                 /\ n \in marked[Decider(c, n)]
                                                 /\ family \in Methods => n \in methods[c]}}

Of(k) == {h.mark : h \in {h \in handlers : h.at = k}}

\* Once the explorer is through, each wrapper that counts has registered every
\* method that its class asks for, inherited decorators included: nothing is
\* lost.  Unless classes of a family tree share a list, it has registered what
\* the nearest decorators say and nothing else.
HandlersRegistered ==
    /\ phase = "failed" => \E k \in DOMAIN content : Mixed(content[k].kin)
    /\ phase = "running" =>
        \A k \in DOMAIN content :
            LET c == content[k].kin IN
            Counts(k) =>
              /\ \A x \in Asked(c) : \E y \in Of(k) : y[2] = x[2]
              /\ ~Mixed(c) => Of(k) = Asked(c)
=============================================================================
