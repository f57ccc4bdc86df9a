------------------------------ MODULE Passport ------------------------------
(***************************************************************************)
(* The passport package: strategy providers that register themselves, in   *)
(* registries of the process, as they are constructed; guards that look a  *)
(* strategy up by name when a request comes; and the service that empties  *)
(* the registries when an application closes.  Applications follow one     *)
(* another and may overlap.  passport itself is external: use(), unuse()   *)
(* and _strategy() are a map by name.                                      *)
(***************************************************************************)
EXTENDS Naturals, Sequences, FiniteSets

CONSTANTS
    Strategies,     \* strategy classes, each under a name of its own
    Unnamed,        \* those declared without one: passport knows their default name
    Setups,         \* sequences of applications: the strategies each provides, in
                    \* order, and whether it imports PassportModule
    Attempts,       \* requests to guarded routes
    Guards          \* AuthGuard(type): sequences of names, empty if there is no type

PassportAssumption ==
    /\ \A s \in Setups : s \in Seq([provides : Seq(Strategies), cleans : BOOLEAN])
    /\ \A g \in Guards : g \in Seq(Strategies)

VARIABLES
    setup,
    latest, boot,   \* the application created last, and how far it is
    nth,            \* the strategy of it that is built next
    calm,           \* history: none was closed since, and then a request built nothing
    listening,      \* the applications that serve requests
    made,           \* strategies built in the container, which is the latest's
    resolving,      \* [s, n] under construction: _resolutionChain, which is one for all
    classes,        \* strategyClassRegistry
    registered,     \* strategyInstanceRegistry: the application of each instance, or 0
    inPassport,     \* passport's own registry, likewise; its names: usedPassportNames
    cleaner,        \* the lifecycle manager has a PassportCleanupService
    tokens,         \* providerTokenCache of each guard
    attempt

apps == <<setup, latest, boot, nth, calm, listening>>
registries == <<classes, registered, inPassport>>
authVars == <<apps, registries, made, resolving, cleaner, tokens, attempt>>

Idle == [at |-> "idle", guard |-> <<>>, by |-> 0, owed |-> 0, user |-> "none"]

Init ==
    /\ setup \in Setups
    /\ latest = 0 /\ boot = "none" /\ nth = 1 /\ calm = TRUE /\ listening = {}
    /\ made = {} /\ resolving = <<>>
    /\ classes = Strategies \ Unnamed
    /\ registered = [s \in Strategies |-> 0] /\ inPassport = registered
    /\ cleaner = FALSE
    /\ tokens = [g \in Guards |-> [s \in Strategies |-> "unset"]]
    /\ attempt = [a \in Attempts |-> Idle]

Provided == IF latest = 0 THEN <<>> ELSE setup[latest].provides
Held == IF boot \in {"none", "registering"} THEN {} ELSE {Provided[i] : i \in DOMAIN Provided}

\* The constructor of a strategy of application n.
Registered(s, n) == IF s \in Unnamed THEN registered ELSE [registered EXCEPT ![s] = n]
Construct(s, n) ==
    /\ registered' = Registered(s, n)
    /\ inPassport' = [inPassport EXCEPT ![s] = n]

\* Entries of the chain are wrappers; the last one is popped, whoever pushed it.
InChain(s) == \E i \in DOMAIN resolving : resolving[i] = [s |-> s, n |-> latest]
Pushed(s) == Append(resolving, [s |-> s, n |-> latest])
Popped == SubSeq(resolving, 1, Len(resolving) - 1)

\* What an attempt may count on is gone once an application is created or closed.
Unowed == [a \in Attempts |-> [attempt[a] EXCEPT !.owed = 0]]

-----------------------------------------------------------------------------
\* A second application takes the container and the lifecycle manager over.
Create ==
    /\ boot \in {"none", "ready"} /\ latest < Len(setup)
    /\ latest' = latest + 1 /\ boot' = "registering"
    /\ calm' = \A a \in Attempts : attempt[a].at # "building"
    /\ nth' = 1 /\ made' = {} /\ cleaner' = FALSE
    /\ attempt' = Unowed
    /\ UNCHANGED <<setup, listening, resolving, registries, tokens>>

\* The modules are registered; PassportModule's provider is built with them.
Register ==
    /\ boot = "registering" /\ boot' = "building"
    /\ cleaner' = setup[latest].cleans
    /\ UNCHANGED <<setup, latest, nth, calm, listening, registries>>
    /\ UNCHANGED <<made, resolving, tokens, attempt>>

Loads == nth <= Len(Provided)
NextUp == Provided[nth]

\* The boot gets one provider after the other; one that a request had built is there.
LoadNext ==
    /\ boot = "building" /\ Loads
    /\ \/ NextUp \in made /\ nth' = nth + 1 /\ UNCHANGED <<boot, resolving>>
       \/ /\ NextUp \notin made /\ ~InChain(NextUp)
          /\ boot' = "loading" /\ resolving' = Pushed(NextUp) /\ UNCHANGED nth
    /\ UNCHANGED <<setup, latest, calm, listening, made, registries, cleaner, tokens, attempt>>

\* One that a request has under construction looks like a cycle: the process exits.
Exit ==
    /\ boot = "building" /\ Loads /\ NextUp \notin made /\ InChain(NextUp)
    /\ boot' = "failed" /\ listening' = {}
    /\ attempt' = [a \in Attempts |-> [Idle EXCEPT !.at = "gone"]]
    /\ UNCHANGED <<setup, latest, nth, calm, made, resolving, registries, cleaner, tokens>>

Built ==
    /\ boot = "loading" /\ boot' = "building" /\ nth' = nth + 1
    /\ Construct(NextUp, latest)
    /\ made' = made \cup {NextUp} /\ resolving' = Popped
    /\ UNCHANGED <<setup, latest, calm, listening, classes, cleaner, tokens, attempt>>

Listen ==
    /\ boot = "building" /\ ~Loads
    /\ boot' = "ready" /\ listening' = listening \cup {latest}
    /\ UNCHANGED <<setup, latest, nth, calm, made, resolving, registries, cleaner, tokens, attempt>>

\* clearStrategyRegistries(), run by whichever application closes while a cleanup
\* service is registered; close() then empties the manager.
Close(n) ==
    /\ n \in listening /\ listening' = listening \ {n}
    /\ calm' = FALSE /\ attempt' = Unowed
    /\ cleaner' = FALSE
    /\ \/ /\ cleaner
          /\ classes' = {} /\ registered' = [s \in Strategies |-> 0] /\ inPassport' = registered'
       \/ ~cleaner /\ UNCHANGED <<registries>>
    /\ UNCHANGED <<setup, latest, boot, nth, made, resolving, tokens>>

-----------------------------------------------------------------------------
\* Of several names only the first is looked up.
First(g) == g[1]

To(a, at) == attempt' = [attempt EXCEPT ![a].at = at]
Validated(a, n) == attempt' = [attempt EXCEPT ![a].at = "validating", ![a].by = n]

Known(g) == g # <<>> /\ First(g) \in classes /\ registered[First(g)] = 0

\* findStrategyProviderToken(): the answer is kept, also that there is none.
Token(g, s) ==
    IF tokens[g][s] # "unset" THEN tokens[g][s] ELSE IF s \in Held THEN "provider" ELSE "none"

\* What Container.get() does for a guard: it finds nothing or an instance built
\* before, meets one that is under construction, or builds it now.
Asked(g, s) ==
    IF s \notin Held \ made \/ Token(g, s) = "none" THEN "answered"
    ELSE IF InChain(s) THEN "circular" ELSE "building"

\* canActivate() up to its first await: a registered instance validates the request,
\* a class without one is asked of the container, anything else is left to passport.
Begin(a, g) ==
    /\ attempt[a].at = "idle" /\ listening # {}
    /\ LET owed == IF calm /\ boot = "ready" /\ g # <<>> /\ First(g) \in Held THEN latest ELSE 0
           begun(at, by) == attempt' = [attempt EXCEPT ![a] =
               [Idle EXCEPT !.at = at, !.guard = g, !.by = by, !.owed = owed]]
       IN  \/ /\ Known(g)
              /\ tokens' = [tokens EXCEPT ![g][First(g)] = Token(g, First(g))]
              /\ begun(Asked(g, First(g)), latest)
              /\ resolving' = IF Asked(g, First(g)) = "building"
                              THEN Pushed(First(g)) ELSE resolving
           \/ /\ ~Known(g)
              /\ IF g # <<>> /\ registered[First(g)] # 0
                 THEN begun("validating", registered[First(g)]) ELSE begun("unfound", 0)
              /\ UNCHANGED <<tokens, resolving>>
    /\ UNCHANGED <<apps, made, registries, cleaner>>

Construction(a) ==
    /\ attempt[a].at = "building"
    /\ LET s == First(attempt[a].guard) IN
       /\ Construct(s, attempt[a].by)
       /\ made' = IF attempt[a].by = latest THEN made \cup {s} ELSE made
    /\ resolving' = Popped
    /\ To(a, "answered")
    /\ UNCHANGED <<apps, classes, cleaner, tokens>>

\* The instance is looked up again.
Again(a) ==
    /\ attempt[a].at = "answered"
    /\ LET n == registered[First(attempt[a].guard)] IN
       IF n # 0 THEN Validated(a, n) ELSE To(a, "unfound")
    /\ UNCHANGED <<apps, made, resolving, registries, cleaner, tokens>>

\* authenticateWithStrategy() calls what passport has under the name; where it has
\* nothing, passport.authenticate() finds the strategy unknown.
Fallback(a) ==
    /\ attempt[a].at = "unfound"
    /\ LET g == attempt[a].guard IN
       \/ g = <<>> /\ To(a, "typeless")
       \/ g # <<>> /\ inPassport[First(g)] # 0 /\ Validated(a, inPassport[First(g)])
       \/ g # <<>> /\ inPassport[First(g)] = 0 /\ To(a, "unknown")
    /\ UNCHANGED <<apps, made, resolving, registries, cleaner, tokens>>

\* validate() yields a user, nothing, or throws.
Verdict(user) == IF user = "threw" THEN "threw" ELSE IF user = "none" THEN "denied" ELSE "allowed"

Decide(a) ==
    /\ attempt[a].at = "validating"
    /\ \E user \in {"found", "none", "threw"} :
          attempt' = [attempt EXCEPT ![a].user = user, ![a].at = Verdict(user)]
    /\ UNCHANGED <<apps, made, resolving, registries, cleaner, tokens>>

Step(a) == Construction(a) \/ Again(a) \/ Fallback(a) \/ Decide(a)

Next ==
    \/ Create \/ Register \/ LoadNext \/ Exit \/ Built \/ Listen
    \/ \E n \in listening : Close(n)
    \/ \E a \in Attempts : Step(a) \/ \E g \in Guards : Begin(a, g)

Spec == Init /\ [][Next]_authVars

-----------------------------------------------------------------------------
\* A guarded route is entered only with a user, and only on the word of the first
\* strategy named; registries that are emptied while it is being decided leave a
\* request outside (auth.guard.ts 83-91, 201-219).
OnlyUsersEnter ==
    \A a \in Attempts : attempt[a].at = "allowed" =>
        attempt[a].user = "found" /\ attempt[a].guard # <<>> /\ attempt[a].by # 0

\* Once an application is ready, and until another is created or one is closed, its
\* own strategies decide, whatever was registered, cleaned or cached before.
OwnStrategiesDecide ==
    /\ calm /\ boot = "ready" => \A s \in Held : inPassport[s] = latest
    /\ \A a \in Attempts : attempt[a].owed # 0 =>
          \/ attempt[a].at = "unfound"
          \/ /\ attempt[a].by = attempt[a].owed
             /\ attempt[a].at \in {"validating", "allowed", "denied", "threw"}

Deciding(a) == attempt[a].at \in {"building", "answered", "unfound", "validating"}
=============================================================================
