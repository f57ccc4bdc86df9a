------------------------------ MODULE Testing -------------------------------
(***************************************************************************)
(* The testing package: a builder collects overrides, compile() fills a    *)
(* container of its own, builds the providers and runs onModuleInit, and   *)
(* close() runs the hooks of the end, also when it is called twice.  A     *)
(* provider is given by the object its token yields and by the one token   *)
(* it needs, for an alias its target.  Imported modules contribute         *)
(* nothing: compile() adds them without their providers.                   *)
(***************************************************************************)
EXTENDS Naturals, Sequences

CONSTANTS
    Benches,        \* the "providers" of the test modules: sequences of
                    \* [token, kind, object, needs]
    Mocks,          \* overrides: the same
    Cleaners,       \* calls of close()
    MaxOverrides    \* bound: overrides per module

Nothing == "nothing"        \* no token, no object

Provider == [token : STRING, kind : {"class", "value", "factory", "alias"}, object : STRING,
             needs : STRING]

TestingAssumption ==
    /\ \A b \in Benches : b \in Seq(Provider) /\ \A i \in DOMAIN b : b[i].token # Nothing
    /\ \A m \in Mocks : m \in Provider /\ m.token # Nothing

Ending == <<"onModuleDestroy", "beforeApplicationShutdown", "onApplicationShutdown">>

VARIABLES
    bench,
    overrides,      \* in the order of addOverride()
    providers,      \* the module's _providers, in the order of their entries
    compiled,       \* "no", "building", "starting", "ready" or "rejected"
    turn,           \* the provider or instance that compile() comes to next
    ready,          \* tokens that are resolved
    faulty,         \* history: tokens that could not be built in their turn
    objects,        \* _instances
    inits, ends,    \* history: instances onModuleInit and each hook of the end has run on
    cleaner         \* each close(): phase, position, the list it iterates

testingVars == <<bench, overrides, providers, compiled, turn, ready, faulty, objects, inits, ends,
                 cleaner>>

Init ==
    /\ bench \in Benches
    /\ overrides = <<>> /\ providers = <<>> /\ compiled = "no" /\ turn = 1
    /\ ready = {} /\ faulty = {} /\ objects = <<>>
    /\ inits = {} /\ ends = [h \in 1 .. Len(Ending) |-> {}]
    /\ cleaner = [c \in Cleaners |-> [phase |-> 0, next |-> 1, list |-> <<>>]]

-----------------------------------------------------------------------------
Override(m) ==
    /\ compiled = "no" /\ Len(overrides) < MaxOverrides
    /\ overrides' = Append(overrides, m)
    /\ UNCHANGED <<bench, providers, compiled, turn, ready, faulty, objects, inits, ends, cleaner>>

Overriding(t) == {i \in DOMAIN overrides : overrides[i].token = t}
Declared(t) == \E i \in DOMAIN bench : bench[i].token = t

\* A declared provider gives way to the first override of its token.
Replaced(p) ==
    LET os == Overriding(p.token)
    IN  IF os = {} THEN p ELSE overrides[CHOOSE i \in os : \A j \in os : i <= j]

\* addProvider(): the last provider of a token is kept, in the place of the first.
AddProvider(map, p) ==
    LET same(i) == map[i].token = p.token
    IN  IF \E i \in DOMAIN map : same(i)
        THEN [i \in DOMAIN map |-> IF same(i) THEN p ELSE map[i]]
        ELSE Append(map, p)

\* getProvidersWithOverrides(): what is declared comes first, then the overrides of other
\* tokens.
Provided ==
    LET n == Len(bench)
        map[k \in 0 .. n + Len(overrides)] ==
            IF k = 0 THEN <<>>
            ELSE IF k <= n THEN AddProvider(map[k - 1], Replaced(bench[k]))
            ELSE IF Declared(overrides[k - n].token) THEN map[k - 1]
            ELSE AddProvider(map[k - 1], overrides[k - n])
    IN  map[n + Len(overrides)]

Compile ==
    /\ compiled = "no" /\ compiled' = "building"
    /\ providers' = Provided
    /\ ready' = {providers'[i].token : i \in {j \in DOMAIN providers' :
                                                  providers'[j].kind = "value"}}
    /\ UNCHANGED <<bench, overrides, turn, faulty, objects, inits, ends, cleaner>>

Registered == {providers[i].token : i \in DOMAIN providers}
Kept(t) == providers[CHOOSE i \in DOMAIN providers : providers[i].token = t]

\* What loading t comes by: t itself, what it needs, and so on to the one that needs
\* nothing; and what of it, from the k-th on, has an instance of its own.
Needed(t) == IF t \in Registered THEN Kept(t).needs ELSE Nothing
Line(t) == LET f[n \in 0 .. Len(providers)] == IF n = 0 THEN t ELSE Needed(f[n - 1]) IN f
Complete(t) == \A n \in 0 .. Len(providers) : Line(t)[n] \in Registered \cup {Nothing}
Made(t, k) == {u \in {Line(t)[n] : n \in k .. Len(providers)} \ {Nothing} : Kept(u).kind # "alias"}

Pushed(t) == IF Kept(t).object = Nothing THEN objects ELSE Append(objects, Kept(t).object)

\* initializeSingletons(), one provider: an alias is passed over, one that is resolved
\* is taken as it is.
Take ==
    /\ compiled = "building" /\ turn <= Len(providers)
    /\ LET t == providers[turn].token IN
       \/ Kept(t).kind = "alias" /\ UNCHANGED objects
       \/ Kept(t).kind # "alias" /\ t \in ready /\ objects' = Pushed(t)
    /\ turn' = turn + 1
    /\ UNCHANGED <<bench, overrides, providers, compiled, ready, faulty, inits, ends, cleaner>>

\* It is built, after what it needs.
Build ==
    /\ compiled = "building" /\ turn <= Len(providers)
    /\ LET t == providers[turn].token IN
       /\ Kept(t).kind # "alias" /\ t \notin ready /\ Complete(t)
       /\ ready' = ready \cup Made(t, 0)
       /\ objects' = Pushed(t)
    /\ turn' = turn + 1
    /\ UNCHANGED <<bench, overrides, providers, compiled, faulty, inits, ends, cleaner>>

\* It, or something it needs, is missing or throws: logged, and passed over.  What was
\* built for it stays.
BuildFails ==
    /\ compiled = "building" /\ turn <= Len(providers)
    /\ LET t == providers[turn].token IN
       /\ Kept(t).kind # "alias" /\ t \notin ready
       /\ faulty' = faulty \cup {t}
       /\ \/ ~Complete(t) /\ UNCHANGED ready
          \/ /\ Complete(t)
             /\ \E k \in 0 .. Len(providers) :
                   /\ Line(t)[k] \in Made(t, 0) \ ready
                   /\ ready' = ready \cup Made(t, k + 1)
    /\ turn' = turn + 1
    /\ UNCHANGED <<bench, overrides, providers, compiled, objects, inits, ends, cleaner>>

AllBuilt ==
    /\ compiled = "building" /\ turn > Len(providers)
    /\ compiled' = "starting" /\ turn' = 1
    /\ UNCHANGED <<bench, overrides, providers, ready, faulty, objects, inits, ends, cleaner>>

\* onModuleInit of one instance after the other; what it throws, compile() throws.
Start ==
    /\ compiled = "starting" /\ turn <= Len(objects)
    /\ turn' = turn + 1 /\ inits' = inits \cup {turn}
    /\ UNCHANGED <<bench, overrides, providers, compiled, ready, faulty, objects, ends, cleaner>>

StartFails ==
    /\ compiled = "starting" /\ turn <= Len(objects)
    /\ compiled' = "rejected"
    /\ UNCHANGED <<bench, overrides, providers, turn, ready, faulty, objects, inits, ends,
                   cleaner>>

Compiled ==
    /\ compiled = "starting" /\ turn > Len(objects)
    /\ compiled' = "ready"
    /\ UNCHANGED <<bench, overrides, providers, turn, ready, faulty, objects, inits, ends,
                   cleaner>>

\* resolve() of what compile() has passed over builds what is complete, or the part
\* of it that does not throw.  No list of instances learns of it.
Resolve(t) ==
    /\ compiled = "ready" /\ t \in Registered \ ready /\ Kept(t).kind # "alias" /\ Complete(t)
    /\ \E k \in 0 .. Len(providers) :
          /\ k > 0 => Line(t)[k - 1] \in Made(t, 0) \ ready
          /\ ready' = ready \cup Made(t, k)
    /\ UNCHANGED <<bench, overrides, providers, compiled, turn, faulty, objects, inits, ends,
                   cleaner>>

-----------------------------------------------------------------------------
\* close(): each of its loops iterates the list as it is when the loop begins.
Clean(c) ==
    /\ compiled = "ready" /\ cleaner[c].phase = 0
    /\ cleaner' = [cleaner EXCEPT ![c] = [phase |-> 1, next |-> 1, list |-> objects]]
    /\ UNCHANGED <<bench, overrides, providers, compiled, turn, ready, faulty, objects, inits, ends>>

InPhase(c) == cleaner[c].phase \in 1 .. Len(Ending)

\* A hook settles; what it throws is logged.
EndSettles(c) ==
    /\ InPhase(c) /\ cleaner[c].next <= Len(cleaner[c].list)
    /\ ends' = [ends EXCEPT ![cleaner[c].phase] = @ \cup {cleaner[c].next}]
    /\ cleaner' = [cleaner EXCEPT ![c].next = @ + 1]
    /\ UNCHANGED <<bench, overrides, providers, compiled, turn, ready, faulty, objects, inits>>

PhaseEnds(c) ==
    /\ InPhase(c) /\ cleaner[c].next > Len(cleaner[c].list)
    /\ cleaner' = [cleaner EXCEPT ![c] = [phase |-> @.phase + 1, next |-> 1, list |-> objects]]
    /\ objects' = IF cleaner[c].phase = Len(Ending) THEN <<>> ELSE objects
    /\ UNCHANGED <<bench, overrides, providers, compiled, turn, ready, faulty, inits, ends>>

CleanerStep(c) == EndSettles(c) \/ PhaseEnds(c)

Next ==
    \/ \E m \in Mocks : Override(m)
    \/ \E t \in Registered : Resolve(t)
    \/ Compile \/ Take \/ Build \/ BuildFails \/ AllBuilt \/ Start \/ StartFails \/ Compiled
    \/ \E c \in Cleaners : Clean(c) \/ CleanerStep(c)

Spec == Init /\ [][Next]_testingVars

-----------------------------------------------------------------------------
\* What get() yields once compile() has resolved.
Got(t) == IF t \in ready THEN Kept(t).object ELSE Nothing

\* Of an overridden token, get() yields an override and never what was declared; and
\* compile() has built all that is complete and did not throw.
MocksInForce ==
    compiled = "ready" =>
        /\ \A t \in ready : Overriding(t) # {} =>
               \E i \in DOMAIN overrides : overrides[i].token = t /\ Got(t) = overrides[i].object
        /\ \A t \in Registered :
               Kept(t).kind # "alias" /\ Complete(t) => t \in ready \cup faulty

\* A close() that has ended saw every hook of the end on every instance, and no hook
\* begins before the one before has settled everywhere; all were started.
TestsCleanUp ==
    /\ compiled = "ready" /\ objects # <<>> => inits = DOMAIN objects
    /\ \A c \in Cleaners : cleaner[c].phase > Len(Ending) => \A h \in DOMAIN ends : ends[h] = inits
    /\ \A h \in 2 .. Len(Ending) : ends[h] # {} => ends[h - 1] = inits
=============================================================================
