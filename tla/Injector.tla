------------------------------ MODULE Injector ------------------------------
(***************************************************************************)
(* core/src/di: how Container.get() builds a provider and everything it    *)
(* depends on.  One Injector serves every get() of the process, and        *)
(* loadInstance() awaits between its steps, so calls that overlap share    *)
(* _resolutionChain and see each other's half-built providers.  Tokens     *)
(* stand for the wrappers that module lookup and aliases lead to.          *)
(***************************************************************************)
EXTENDS Naturals, Sequences

CONSTANTS
    Wrappers,       \* the registered providers (InstanceWrapper)
    Missing,        \* a token nobody registered
    Static,         \* STATIC_CONTEXT
    Requests,       \* request contexts
    Gets,           \* the container.get() calls that are made
    Root, Context,  \* Root[g], Context[g]: what call g asks for, and where
    Programs,       \* the dependency graphs considered, and whether every get()
                    \* is awaited before the next one, as boot does
    MayThrow        \* providers whose constructor or factory may throw

Contexts == {Static} \cup Requests \cup Gets
Dependency == [token : Wrappers \cup {Missing}, optional : BOOLEAN]
Scopes == {"singleton", "request", "transient"}
Errors == {"circular", "missing", "threw"}

ASSUME InjectorAssumption ==
    /\ Missing \notin Wrappers
    /\ Root \in [Gets -> Wrappers] /\ Context \in [Gets -> {Static} \cup Requests]
    /\ \A p \in Programs : /\ p.scope \in [Wrappers -> Scopes]
                           /\ p.deps \in [Wrappers -> Seq(Dependency)]
                           /\ p.sequential \in BOOLEAN
    /\ MayThrow \subseteq Wrappers

VARIABLES
    program,    \* constructor metadata and scope of every provider
    chain,      \* _resolutionChain
    inst,       \* the instance each wrapper holds per context, 0 for none
    built,      \* every instance made, in order: wrapper, context, arguments
    stack,      \* per call: the loadInstance() frames under way
    err,        \* per call: the error being thrown, or "none"
    report,     \* per call: the cycle its error names
    result,     \* per call: "idle", "running", "ok" or the error
    got         \* per call: the instance it returned

vars == <<program, chain, inst, built, stack, err, report, result, got>>

deps(w) == program.deps[w]

Init ==
    /\ program \in Programs
    /\ chain = <<>>
    /\ inst = [k \in Wrappers \X Contexts |-> 0]
    /\ built = <<>>
    /\ stack = [g \in Gets |-> <<>>]
    /\ err = [g \in Gets |-> "none"]
    /\ report = [g \in Gets |-> <<>>]
    /\ result = [g \in Gets |-> "idle"]
    /\ got = [g \in Gets |-> 0]

-----------------------------------------------------------------------------
\* Only a transient provider asked for directly gets a context of its own.
ContextOf(g) == IF program.scope[Root[g]] = "transient" THEN g ELSE Context[g]

\* A singleton's tree counts as static, so every context shares its instance.
Key(w, c) == IF program.scope[w] = "singleton" THEN <<w, Static>> ELSE <<w, c>>

Top(g) == stack[g][Len(stack[g])]
Below(s) == SubSeq(s, 1, Len(s) - 1)
NextDep(f) == deps(f.w)[Len(f.args) + 1]
OnTop(g, f) == [stack EXCEPT ![g] = Append(Below(@), f)]

\* finally: the last entry is popped, whoever pushed it.
\* Faulty variant: the pop is skipped when the provider could not be built.
Popped_OnSuccess(ok) == IF ok THEN Below(chain) ELSE chain
Popped(ok) == Below(chain)

\* isResolved, which a fresh copy of the per-context entry would forget.
\* Faulty variant: the flag is not kept.
Resolved_Never(g, w) == FALSE
Resolved(g, w) == inst[Key(w, ContextOf(g))] # 0

\* loadInstance(w) for call g, whose frames are s.
InChain(w) == \E k \in DOMAIN chain : chain[k] = w

Enter(g, w, s) ==
    IF Resolved(g, w)
    THEN stack' = [stack EXCEPT ![g] = s] /\ UNCHANGED <<chain, err, report>>
    ELSE IF InChain(w)
    THEN \E k \in DOMAIN chain :
            /\ chain[k] = w /\ \A j \in 1 .. k - 1 : chain[j] # w
            /\ err' = [err EXCEPT ![g] = "circular"]
            /\ report' = [report EXCEPT ![g] = Append(SubSeq(chain, k, Len(chain)), w)]
            /\ stack' = [stack EXCEPT ![g] = s] /\ UNCHANGED chain
    ELSE /\ chain' = Append(chain, w)
         /\ stack' = [stack EXCEPT ![g] = Append(s, [w |-> w, args |-> <<>>, pending |-> FALSE])]
         /\ UNCHANGED <<err, report>>

\* Faulty variant: the promise of a nested load is not awaited, so its rejection
\* reaches nobody.
Active_NoRejection(g) == result[g] = "running" /\ stack[g] # <<>> /\ err[g] = "none"
Active(g) == result[g] = "running" /\ stack[g] # <<>>
Descending(g) == /\ Active(g) /\ err[g] = "none"
                 /\ ~Top(g).pending /\ Len(Top(g).args) < Len(deps(Top(g).w))

\* From one parameter to loadInstance() of the next there is no await: another
\* call only runs when no parameter is about to be looked up.
Turn(g) == \A h \in Gets \ {g} : ~Descending(h)

-----------------------------------------------------------------------------
Start(g) ==
    /\ result[g] = "idle"
    /\ program.sequential => \A h \in Gets : result[h] # "running"
    /\ result' = [result EXCEPT ![g] = "running"]
    /\ Enter(g, Root[g], <<>>)
    /\ UNCHANGED <<program, inst, built, got>>

\* resolveConstructorParams(): the next parameter is looked up and loaded.
Resolve(g) ==
    /\ Descending(g)
    /\ LET f == [Top(g) EXCEPT !.pending = TRUE]
           d == NextDep(f)
       IN  IF d.token = Missing
           THEN /\ err' = [err EXCEPT ![g] = "missing"]
                /\ stack' = OnTop(g, f) /\ UNCHANGED <<chain, report>>
           ELSE Enter(g, d.token, OnTop(g, f)[g])
    /\ UNCHANGED <<program, inst, built, result, got>>

\* The dependency is there: its instance is read, one step after it was stored.
Inject(g) ==
    /\ Active(g) /\ err[g] = "none" /\ Top(g).pending
    /\ stack' = OnTop(g, [Top(g) EXCEPT !.pending = FALSE,
                            !.args = Append(@, inst[Key(NextDep(Top(g)).token, ContextOf(g))])])
    /\ UNCHANGED <<program, chain, inst, built, err, report, result, got>>

\* The catch clause around one parameter: undefined if it is optional, else the
\* provider itself cannot be built.
Forgives(d) == d.optional

Catch(g) ==
    /\ Active(g) /\ err[g] # "none"
    /\ IF Forgives(NextDep(Top(g)))
       THEN /\ stack' = OnTop(g, [Top(g) EXCEPT !.pending = FALSE, !.args = Append(@, 0)])
            /\ err' = [err EXCEPT ![g] = "none"] /\ UNCHANGED chain
       ELSE /\ stack' = [stack EXCEPT ![g] = Below(@)]
            /\ chain' = Popped(FALSE) /\ UNCHANGED err
    /\ UNCHANGED <<program, inst, built, report, result, got>>

Ready(g) == /\ Active(g) /\ err[g] = "none"
            /\ ~Top(g).pending /\ Len(Top(g).args) = Len(deps(Top(g).w))

StoredAt(g) == Key(Top(g).w, ContextOf(g))

\* instantiateClass() answers and the instance is stored.
Construct(g) ==
    /\ Ready(g)
    /\ built' = Append(built, [w |-> Top(g).w, ctx |-> ContextOf(g), args |-> Top(g).args])
    /\ inst' = [inst EXCEPT ![StoredAt(g)] = Len(built')]
    /\ stack' = [stack EXCEPT ![g] = Below(@)]
    /\ chain' = Popped(TRUE)
    /\ UNCHANGED <<program, err, report, result, got>>

ConstructorThrows(g) ==
    /\ Ready(g) /\ Top(g).w \in MayThrow
    /\ err' = [err EXCEPT ![g] = "threw"]
    /\ stack' = [stack EXCEPT ![g] = Below(@)]
    /\ chain' = Popped(FALSE)
    /\ UNCHANGED <<program, inst, built, report, result, got>>

\* get() settles.
Settle(g) ==
    /\ result[g] = "running" /\ stack[g] = <<>>
    /\ IF err[g] # "none"
       THEN result' = [result EXCEPT ![g] = err[g]] /\ UNCHANGED got
       ELSE /\ result' = [result EXCEPT ![g] = "ok"]
            /\ got' = [got EXCEPT ![g] = inst[Key(Root[g], ContextOf(g))]]
    /\ UNCHANGED <<program, chain, inst, built, stack, err, report>>

Step(g) == Resolve(g) \/ Inject(g) \/ Catch(g) \/ Construct(g) \/ ConstructorThrows(g) \/ Settle(g)

Next == \E g \in Gets : Turn(g) /\ (Start(g) \/ Step(g))

Spec == Init /\ [][Next]_vars

\* Constructors return and factories settle.
FairSpec == Spec /\ \A g \in Gets : WF_vars(Turn(g) /\ Step(g))

-----------------------------------------------------------------------------
Frame == [w : Wrappers, args : Seq(Nat), pending : BOOLEAN]

TypeOK ==
    /\ program.scope \in [Wrappers -> Scopes] /\ program.deps \in [Wrappers -> Seq(Dependency)]
    /\ chain \in Seq(Wrappers)
    /\ inst \in [Wrappers \X Contexts -> Nat]
    /\ built \in Seq([w : Wrappers, ctx : Contexts, args : Seq(Nat)])
    /\ stack \in [Gets -> Seq(Frame)]
    /\ err \in [Gets -> Errors \cup {"none"}]
    /\ report \in [Gets -> Seq(Wrappers)]
    /\ result \in [Gets -> Errors \cup {"idle", "running", "ok"}]
    /\ got \in [Gets -> Nat] /\ \A g \in Gets : result[g] = "ok" => got[g] \in DOMAIN built

Edge(v, w) == \E i \in DOMAIN deps(v) : deps(v)[i].token = w

\* The cycle a "Circular dependency detected" error names (46-56) is one of the
\* dependency graph, as long as calls do not overlap: each of its providers
\* depends on the next.
ReportsRealCycle ==
    program.sequential => \A g \in Gets : LET c == report[g] IN
        c # <<>> => /\ Len(c) > 1 /\ c[1] = c[Len(c)]
                    /\ \A k \in 1 .. Len(c) - 1 : Edge(c[k], c[k + 1])

\* No entry is left in the resolution chain once no get() is under way (74-76):
\* a provider that stayed there could never be built again.
ChainDrains == (\A g \in Gets : stack[g] = <<>>) => chain = <<>>

\* docs/features/dependency-injection.md:67: "Single instance for the entire
\* application (default)"; so it is for calls that do not overlap.
SingletonOnce ==
    program.sequential => \A a, b \in DOMAIN built :
        built[a].w = built[b].w /\ program.scope[built[a].w] = "singleton" => a = b

\* Every get() settles, also for graphs with cycles, missing providers and
\* constructors that throw.
GetSettles == \A g \in Gets : result[g] = "running" ~> result[g] \notin {"idle", "running"}
=============================================================================
