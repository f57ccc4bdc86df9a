------------------------ MODULE AmqpConnection_proofs ------------------------
(***************************************************************************)
(* Proofs about one AmqpConnection, for any handlers, applications and     *)
(* channels: the comparison of findRpcHandler() misses nothing that the    *)
(* broker has routed, the registry of consumers follows the broker,        *)
(* request() keeps its promise, and no message is forgotten.               *)
(***************************************************************************)
EXTENDS AmqpConnection, WellFoundedInduction, SequenceTheorems, TLAPS

-----------------------------------------------------------------------------
(* Routing keys, for keys and patterns of any words and of any length *)

\* A set of numbers that is not empty has a least one.
LEMMA Least ==
  ASSUME NEW T \in SUBSET Nat, T # {}
  PROVE  \E n \in T : \A m \in T : n <= m
<1>1. PICK R : R = OpToRel(<, Nat)
  OBVIOUS
<1>2. IsWellFoundedOn(R, Nat)
  BY <1>1, NatLessThanWellFounded
<1>3. \A x, y \in Nat : x < y => <<x, y>> \in R
  BY <1>1 DEF OpToRel
<1>4. \E x \in T : \A y \in T : ~ (<<y, x>> \in R)
  BY <1>2, WFMin
<1>5. PICK x \in T : \A y \in T : ~ (<<y, x>> \in R)
  BY <1>4
<1>6. \A y \in T : x <= y
  <2> SUFFICES ASSUME NEW y \in T PROVE x <= y
    OBVIOUS
  <2>1. x \in Nat /\ y \in Nat /\ ~(y < x)
    BY <1>3, <1>5
  <2> QED BY <2>1
<1> QED BY <1>6

\* Words, keys and patterns.
LEMMA KeyIs ==
  ASSUME NEW k \in Keys
  PROVE  k \in Seq(Words) /\ Len(k) \in Nat \ {0} /\ DOMAIN k = 1 .. Len(k)
<1>1. PICK n \in 1 .. MaxWords : k \in [1 .. n -> Words]
  BY DEF Keys
<1>2. n \in Nat \ {0}
  BY RoutingAssumption
<1>3. k \in Seq(Words)
  BY <1>1, <1>2
<1>4. Len(k) = n
  BY <1>1, <1>2, <1>3
<1> QED BY <1>1, <1>2, <1>3, <1>4

LEMMA PatternIs ==
  ASSUME NEW p \in Patterns
  PROVE  p \in Seq(Words \cup {"*", "#"}) /\ Len(p) \in Nat \ {0} /\ DOMAIN p = 1 .. Len(p)
<1>1. PICK n \in 1 .. MaxWords : p \in [1 .. n -> Words \cup {"*", "#"}]
  BY DEF Patterns
<1>2. n \in Nat \ {0}
  BY RoutingAssumption
<1>3. p \in Seq(Words \cup {"*", "#"})
  BY <1>1, <1>2
<1>4. Len(p) = n
  BY <1>1, <1>2, <1>3
<1> QED BY <1>1, <1>2, <1>3, <1>4

\* What the broker lets through a binding, the comparison matches.
LEMMA RoutedMatches ==
  ASSUME NEW k \in Keys, NEW p \in Patterns, Binds(k, p)
  PROVE  Matches(k, p)
<1>1. PICK n \in Nat, m \in Nat : n = Len(k) /\ m = Len(p) /\ DOMAIN k = 1 .. n /\ DOMAIN p = 1 .. m
  BY KeyIs, PatternIs
<1>2. PICK ends \in [0 .. m -> 0 .. n] :
         /\ ends[0] = 0 /\ ends[m] = n
         /\ \A j \in 1 .. m : IF p[j] = "#" THEN ends[j - 1] <= ends[j]
                              ELSE ends[j] = ends[j - 1] + 1 /\ p[j] \in {"*", k[ends[j]]}
  BY <1>1 DEF Binds
\* Up to the first "#" the pattern takes the key word by word.
<1>3. ASSUME NEW s \in 0 .. m, \A j \in 1 .. s : p[j] # "#"
      PROVE  \A j \in 0 .. s : ends[j] = j
  <2>1. PICK T : T = {j \in 0 .. s : ends[j] # j}
    OBVIOUS
  <2>2. SUFFICES ASSUME T # {} PROVE FALSE
    BY <2>1
  <2>3. T \subseteq Nat
    BY <2>1
  <2>4. PICK j \in T : \A i \in T : j <= i
    BY <2>2, <2>3, Least
  <2>5. j \in 0 .. s /\ ends[j] # j /\ j # 0
    BY <1>2, <2>1, <2>4
  <2>6. j - 1 \in 0 .. s /\ ~(j <= j - 1) /\ j \in 1 .. s /\ j \in 1 .. m
    BY <1>3, <2>5
  <2>7. ends[j - 1] = j - 1
    BY <2>1, <2>4, <2>6
  <2>8. ends[j] = ends[j - 1] + 1
    BY <1>2, <1>3, <2>6
  <2> QED BY <2>5, <2>6, <2>7, <2>8
<1>4. ASSUME NEW s \in 0 .. m, \A j \in 1 .. s : p[j] # "#"
      PROVE  \A j \in 1 .. s : ~Differs(k, p, j)
  <2> SUFFICES ASSUME NEW j \in 1 .. s PROVE ~Differs(k, p, j)
    OBVIOUS
  <2>1. j \in 1 .. m /\ j \in 0 .. m /\ j \in 0 .. s
    BY <1>4
  <2>2. ends[j] = j /\ ends[j] \in 0 .. n
    BY <1>2, <1>3, <1>4, <2>1
  <2>3. j \in 1 .. n
    BY <2>1, <2>2
  <2>4. p[j] \in {"*", k[j]}
    BY <1>2, <1>4, <2>1, <2>2
  <2> QED BY <1>1, <2>3, <2>4 DEF Differs
<1>5. CASE \A j \in 1 .. m : p[j] # "#"
  <2>1. m \in 0 .. m
    BY <1>1
  <2>2. n = m
    BY <1>2, <1>3, <1>5, <2>1
  <2> QED BY <1>1, <1>4, <1>5, <2>1, <2>2 DEF Matches
<1>6. CASE \E j \in 1 .. m : p[j] = "#"
  <2>1. PICK T : T = {j \in 1 .. m : p[j] = "#"}
    OBVIOUS
  <2>2. T # {} /\ T \subseteq Nat
    BY <1>6, <2>1
  <2>3. PICK i \in T : \A j \in T : i <= j
    BY <2>2, Least
  <2>4. i \in 1 .. m /\ p[i] = "#" /\ i - 1 \in 0 .. m
    BY <1>1, <2>1, <2>3
  <2>5. \A j \in 1 .. i - 1 : p[j] # "#"
    BY <2>1, <2>3, <2>4
  <2>6. \A j \in 1 .. i - 1 : ~Differs(k, p, j)
    BY <1>4, <2>4, <2>5
  <2> QED BY <1>1, <2>4, <2>6 DEF Matches
<1> QED BY <1>5, <1>6

\* What the comparison matches by a plain pattern, the broker lets through.
LEMMA MatchedRoutes ==
  ASSUME NEW k \in Keys, NEW p \in Patterns, Plain(k, p), Matches(k, p)
  PROVE  Binds(k, p)
<1>1. PICK n \in Nat, m \in Nat : n = Len(k) /\ m = Len(p) /\ DOMAIN k = 1 .. n /\ DOMAIN p = 1 .. m
                                  /\ m > 0
  BY KeyIs, PatternIs
<1>2. n + 1 >= m /\ \A i \in 1 .. m : p[i] = "#" => i = m
  BY <1>1 DEF Plain
<1>3. CASE p[m] = "#"
  <2>1. \A j \in 1 .. m - 1 : ~Differs(k, p, j)
    <3>1. PICK i \in 1 .. m : \/ p[i] = "#" /\ \A j \in 1 .. i - 1 : ~Differs(k, p, j)
                              \/ i = m /\ \A j \in 1 .. m : ~Differs(k, p, j)
      BY <1>1 DEF Matches
    <3>2. i = m
      BY <1>2, <3>1
    <3> QED BY <1>1, <3>1, <3>2
  <2>2. \A j \in 1 .. m - 1 : p[j] # "#" /\ j \in 1 .. n /\ p[j] \in {"*", k[j]}
    BY <1>1, <1>2, <2>1 DEF Differs
  <2>3. PICK ends : ends = [j \in 0 .. m |-> IF j = m THEN n ELSE j]
    OBVIOUS
  <2>4. ends \in [0 .. m -> 0 .. n] /\ ends[0] = 0 /\ ends[m] = n
    BY <1>1, <1>2, <2>3
  <2>5. ASSUME NEW j \in 1 .. m
        PROVE  IF p[j] = "#" THEN ends[j - 1] <= ends[j]
               ELSE ends[j] = ends[j - 1] + 1 /\ p[j] \in {"*", k[ends[j]]}
    <3>1. CASE j = m
      <4>1. ends[j - 1] = m - 1 /\ ends[j] = n
        BY <1>1, <2>3, <3>1
      <4> QED BY <1>1, <1>2, <1>3, <3>1, <4>1
    <3>2. CASE j # m
      <4>1. j \in 1 .. m - 1 /\ ends[j - 1] = j - 1 /\ ends[j] = j
        BY <1>1, <2>3, <3>2
      <4>2. ends[j] = ends[j - 1] + 1
        BY <4>1
      <4> QED BY <2>2, <4>1, <4>2
    <3> QED BY <3>1, <3>2
  <2> QED BY <1>1, <2>4, <2>5 DEF Binds
<1>4. CASE p[m] # "#"
  <2>1. \A j \in 1 .. m : p[j] # "#"
    BY <1>2, <1>4
  <2>2. n = m /\ \A j \in 1 .. m : ~Differs(k, p, j)
    BY <1>1, <2>1 DEF Matches
  <2>3. \A j \in 1 .. m : p[j] \in {"*", k[j]}
    BY <1>1, <2>2 DEF Differs
  <2>4. PICK ends : ends = [j \in 0 .. m |-> j]
    OBVIOUS
  <2>5. ends \in [0 .. m -> 0 .. n] /\ ends[0] = 0 /\ ends[m] = n
    BY <1>1, <2>2, <2>4
  <2>6. \A j \in 1 .. m : ends[j] = j /\ ends[j - 1] = j - 1 /\ j = (j - 1) + 1
    BY <1>1, <2>4
  <2>7. ASSUME NEW j \in 1 .. m
        PROVE  IF p[j] = "#" THEN ends[j - 1] <= ends[j]
               ELSE ends[j] = ends[j - 1] + 1 /\ p[j] \in {"*", k[ends[j]]}
    BY <2>1, <2>3, <2>6
  <2> QED BY <1>1, <2>5, <2>7 DEF Binds
<1> QED BY <1>3, <1>4

\* Of any keys and patterns: no message that a binding lets through finds its handler's
\* comparison against it, and by plain patterns no other message finds it in favour.
THEOREM RoutingAgrees == MatchesRouted
  BY RoutedMatches, MatchedRoutes DEF MatchesRouted

-----------------------------------------------------------------------------
(* The consumers: what the state always looks like *)

Entries == registry \cup consumers
EntryType == [who : Handlers, ch : Nat, tag : Nat \cup FixedTag]
SetupType == [who : Handlers \cup {"init"}, ch : Nat, at : {"queue", "consume"},
              resumes : Nat \cup FixedTag]

\* The shape of the consumers' part of the state.
ConsumerTypes ==
    /\ app \in Apps /\ todo \in Seq(Handlers)
    /\ up \in Nat /\ opened \in Nat /\ tags \in Nat /\ cancels \in Nat
    /\ added \subseteq Handlers /\ rpcHandlers \in Seq(Handlers)
    /\ registry \subseteq EntryType /\ consumers \subseteq EntryType
    /\ cancelling \subseteq EntryType /\ setups \subseteq SetupType

\* The explorer registers each handler of the application once; the rpc handlers
\* among those added are listed once each, until close() empties the list.
Registered ==
    /\ added \subseteq ToSet(app.handlers)
    /\ \A i \in DOMAIN todo : todo[i] \in ToSet(app.handlers) \ added
    /\ \A i, j \in DOMAIN todo : todo[i] = todo[j] => i = j
    /\ init = "closed" => up = 0 /\ ~bootstrapped
    /\ init # "closed" =>
          /\ ToSet(rpcHandlers) = {h \in added : Kind[h] = "rpc"}
          /\ \A i, j \in DOMAIN rpcHandlers : rpcHandlers[i] = rpcHandlers[j] => i = j

\* The handlers that share a queue agree on its options.
Agreeing ==
    \A h, g \in added :
        Kind[h] = "rpc" /\ Queue[h] = Queue[g] => (h \in Differing) = (g \in Differing)

\* Consumers are on the live channel, for handlers that do not follow another;
\* a handler with a set-up function under way there is not consumed yet.
Live ==
    /\ up <= opened
    /\ \A s \in setups : s.ch \in 1 .. opened
    /\ \A s \in setups : s.who # "init" => s.who \in added
    /\ \A e \in Entries : e.who \in added /\ e.ch \in 1 .. opened
    /\ \A c \in consumers : c.ch = up /\ up # 0 /\ ~Follows(c.who)
    /\ \A s \in setups : s.at = "consume" => s.who # "init" /\ (s.ch = up => ~Follows(s.who))
    /\ \A s \in setups : s.ch = up => \A c \in consumers : c.who # s.who
    /\ \A s, t \in setups : s.ch = up /\ t.ch = up /\ s.who = t.who => s = t

\* A tag belongs to one handler for ever: the configured one, or one that the
\* broker made up for it.
Tagged ==
    /\ \A e \in Entries : IF e.who \in FixedTag THEN e.tag = e.who ELSE e.tag \in 1 .. tags
    /\ \A e, f \in Entries : e.tag = f.tag => e.who = f.who
    /\ \A s \in setups : \/ s.resumes = 0
                         \/ s.who \in FixedTag /\ s.resumes = s.who
                         \/ s.who \notin FixedTag /\ s.resumes \in 1 .. tags
    /\ \A s \in setups, e \in Entries : s.resumes = e.tag => s.who = e.who

\* One entry and one consumer per handler, and nobody without a cancel left out.
OneEach ==
    /\ \A e, f \in registry : e.who = f.who => e = f
    /\ \A c \in consumers : c.who \notin FixedTag => c \in registry
    /\ \A c, d \in consumers : c.who = d.who => c = d
    /\ cancelling # {} => cancels > 0
    /\ up # 0 /\ cancels = 0 =>
          \A h \in added : \/ Follows(h) \/ \E c \in consumers : c.who = h
                           \/ \E s \in setups : s.who = h /\ s.ch = up

\* The inductive invariant of the consumers.
ConsumersInv == ConsumerTypes /\ Registered /\ Agreeing /\ Live /\ Tagged /\ OneEach

-----------------------------------------------------------------------------
(* The rpc handlers of a queue *)

\* Follows depends on the list of rpc handlers alone.
LEMMA FollowsSame ==
  ASSUME rpcHandlers' = rpcHandlers
  PROVE  \A h : Follows(h)' <=> Follows(h)
  BY DEF Follows

\* Of the handlers of one queue a single one does not follow another.
LEMMA OneLeader ==
  ASSUME ConsumersInv, init # "closed",
         NEW h \in added, NEW g \in added, Queue[h] = Queue[g], ~Follows(h), ~Follows(g)
  PROVE  h = g
<1>1. app \in Apps /\ h \in ToSet(app.handlers) /\ g \in ToSet(app.handlers)
  BY DEF ConsumersInv, ConsumerTypes, Registered
<1>2. PICK i \in DOMAIN app.handlers, j \in DOMAIN app.handlers :
         h = app.handlers[i] /\ g = app.handlers[j]
  BY <1>1 DEF ToSet
<1>3. CASE i = j
  BY <1>2, <1>3
<1>4. CASE i # j
  <2>1. Kind[h] = "rpc" /\ Kind[g] = "rpc"
    BY <1>1, <1>2, <1>4, ConsumersAssumption
  <2>2. h \in ToSet(rpcHandlers) /\ g \in ToSet(rpcHandlers)
    BY <2>1 DEF ConsumersInv, Registered
  <2>3. PICK a \in DOMAIN rpcHandlers, b \in DOMAIN rpcHandlers :
           rpcHandlers[a] = h /\ rpcHandlers[b] = g
    BY <2>2 DEF ToSet
  <2>4. PICK c \in DOMAIN rpcHandlers : rpcHandlers[c] = h /\ ~(b < c)
    BY <2>1, <2>3 DEF Follows
  <2>5. PICK d \in DOMAIN rpcHandlers : rpcHandlers[d] = g /\ ~(a < d)
    BY <2>1, <2>3 DEF Follows
  <2>6. c = a /\ d = b
    BY <2>3, <2>4, <2>5 DEF ConsumersInv, Registered
  <2>7. PICK n \in Nat : DOMAIN rpcHandlers = 1 .. n
    BY DEF ConsumersInv, ConsumerTypes
  <2>8. a = b
    BY <2>4, <2>5, <2>6, <2>7
  <2> QED BY <2>3, <2>8
<1> QED BY <1>3, <1>4

\* The registry is in step wherever the invariant holds.
LEMMA InStep == ConsumersInv => RegistryInStep
<1> SUFFICES ASSUME ConsumersInv PROVE RegistryInStep
  OBVIOUS
<1>1. \A c, d \in consumers : Queue[c.who] = Queue[d.who] => c = d
  <2> SUFFICES ASSUME NEW c \in consumers, NEW d \in consumers, Queue[c.who] = Queue[d.who]
               PROVE  c = d
    OBVIOUS
  <2>1. c.who \in added /\ d.who \in added /\ up # 0 /\ ~Follows(c.who) /\ ~Follows(d.who)
    BY DEF ConsumersInv, Live, Entries
  <2>2. init # "closed"
    BY <2>1 DEF ConsumersInv, Registered
  <2>3. c.who = d.who
    BY <2>1, <2>2, OneLeader
  <2> QED BY <2>3 DEF ConsumersInv, OneEach
<1>2. up # 0 /\ setups = {} /\ cancels = 0 =>
          \A h \in added : Follows(h) \/ \E c \in consumers : c.who = h
  BY DEF ConsumersInv, OneEach
<1> QED BY <1>1, <1>2 DEF ConsumersInv, OneEach, Agreeing, RegistryInStep

\* A handler registered last does not change who follows whom.
LEMMA FollowsAppend ==
  ASSUME ConsumersInv, bootstrapped, NEW h \in Handlers, h \notin added,
         rpcHandlers' = IF Kind[h] = "rpc" THEN Append(rpcHandlers, h) ELSE rpcHandlers
  PROVE  \A g \in added : Follows(g)' <=> Follows(g)
<1>1. CASE Kind[h] # "rpc"
  BY <1>1, FollowsSame
<1>2. CASE Kind[h] = "rpc"
  <2> SUFFICES ASSUME NEW g \in added, Kind[g] = "rpc" PROVE Follows(g)' <=> Follows(g)
    BY DEF Follows
  <2>1. PICK n \in Nat : n = Len(rpcHandlers) /\ DOMAIN rpcHandlers = 1 .. n
    BY DEF ConsumersInv, ConsumerTypes
  <2>2. /\ DOMAIN (rpcHandlers') = 1 .. n + 1 /\ rpcHandlers'[n + 1] = h
        /\ \A i \in 1 .. n : rpcHandlers'[i] = rpcHandlers[i]
    BY <1>2, <2>1, AppendProperties DEF ConsumersInv, ConsumerTypes
  <2>3. init # "closed"
    BY DEF ConsumersInv, Registered
  <2>4. PICK a \in 1 .. n : rpcHandlers[a] = g
    BY <2>1, <2>3 DEF ConsumersInv, Registered, ToSet
  <2>5. \A j \in DOMAIN (rpcHandlers') : rpcHandlers'[j] = g => j \in 1 .. n
    BY <2>1, <2>2
  <2>6. ASSUME Follows(g) PROVE Follows(g)'
    <3>1. PICK k \in DOMAIN rpcHandlers : 
             /\ Queue[rpcHandlers[k]] = Queue[g]
             /\ \A j \in DOMAIN rpcHandlers : rpcHandlers[j] = g => k < j
      BY <2>6 DEF Follows
    <3>2. k \in DOMAIN (rpcHandlers') /\ rpcHandlers'[k] = rpcHandlers[k]
      BY <2>1, <2>2
    <3>3. \A j \in DOMAIN (rpcHandlers') : rpcHandlers'[j] = g => k < j
      BY <2>1, <2>2, <2>5, <3>1
    <3> QED BY <3>1, <3>2, <3>3 DEF Follows
  <2>7. ASSUME Follows(g)' PROVE Follows(g)
    <3>1. PICK k \in DOMAIN (rpcHandlers') : 
             /\ Queue[rpcHandlers'[k]] = Queue[g]
             /\ \A j \in DOMAIN (rpcHandlers') : rpcHandlers'[j] = g => k < j
      BY <2>7 DEF Follows
    <3>2. k \in 1 .. n
      BY <2>1, <2>2, <2>4, <3>1
    <3>3. \A j \in DOMAIN rpcHandlers : rpcHandlers[j] = g => k < j
      BY <2>1, <2>2, <3>1
    <3>4. Queue[rpcHandlers[k]] = Queue[g]
      BY <2>2, <3>1, <3>2
    <3> QED BY <2>1, <3>2, <3>3, <3>4 DEF Follows
  <2> QED BY <2>6, <2>7
<1> QED BY <1>1, <1>2


-----------------------------------------------------------------------------
(* The consumers: every step keeps the invariant *)

LEMMA ConsumersStart == ConsumersInit => ConsumersInv
<1> SUFFICES ASSUME ConsumersInit PROVE ConsumersInv
  OBVIOUS
<1> USE DEF ConsumersInit
<1>1. ConsumerTypes
  BY ConsumersAssumption DEF ConsumerTypes
<1>2. Registered
  BY ConsumersAssumption DEF Registered, ToSet
<1>3. Agreeing /\ Live /\ Tagged /\ OneEach
  BY DEF Agreeing, Live, Tagged, OneEach, Entries
<1> QED BY <1>1, <1>2, <1>3 DEF ConsumersInv

\* Steps that leave the registration alone.
LEMMA RegistrationKept ==
  ASSUME ConsumersInv,
         UNCHANGED <<app, todo, added, rpcHandlers>>,
         init' = "closed" <=> init = "closed",
         init = "closed" => up' = 0 /\ ~bootstrapped'
  PROVE  Registered' /\ Agreeing'
  BY DEF ConsumersInv, Registered, Agreeing

\* Steps after which no consumer or entry is new and the channel is the same or none.
LEMMA Shrunk ==
  ASSUME ConsumersInv, up' \in {0, up}, opened' = opened, tags' = tags,
         added' = added, rpcHandlers' = rpcHandlers,
         consumers' \subseteq consumers, registry' \subseteq registry, setups' \subseteq setups,
         up' = 0 => consumers' = {}
  PROVE  Live' /\ Tagged'
<1>1. \A h : Follows(h)' <=> Follows(h)
  BY FollowsSame
<1>2. \A s \in setups : s.ch # 0
  BY DEF ConsumersInv, Live
<1>3. up \in Nat /\ opened \in Nat
  BY DEF ConsumersInv, ConsumerTypes
<1>4. Entries' \subseteq Entries
  BY DEF Entries
<1>5. Live'
  BY <1>1, <1>2, <1>3, <1>4 DEF ConsumersInv, Live
<1>6. Tagged'
  BY <1>4 DEF ConsumersInv, Tagged
<1> QED BY <1>5, <1>6

LEMMA ChannelOpened == ConsumersInv /\ OpenChannel => ConsumersInv'
<1> SUFFICES ASSUME ConsumersInv, OpenChannel PROVE ConsumersInv'
  OBVIOUS
<1> USE DEF OpenChannel
<1>t. ConsumerTypes
  BY DEF ConsumersInv
<1>1. \A h : Follows(h)' <=> Follows(h)
  BY FollowsSame
<1>2. up' \in Nat /\ up' = opened + 1 /\ opened' = opened + 1 /\ opened \in Nat
  BY <1>t DEF ConsumerTypes
<1>3. consumers = {}
  BY DEF ConsumersInv, Live
<1>4. \A s \in setups' \ setups : /\ s.who \in added \cup {"init"} /\ s.ch = up' /\ s.at = "queue"
                                  /\ s.resumes = 0
  BY DEF OnChannel, KeptSetups, Setup, NoTag
<1>5. \A s, t \in setups' \ setups : s.who = t.who => s = t
  BY DEF OnChannel, KeptSetups, Setup, NoTag
<1>6. \A h \in added : \E s \in setups' : s.who = h /\ s.ch = up'
  <2> SUFFICES ASSUME NEW h \in added PROVE \E s \in setups' : s.who = h /\ s.ch = up'
    OBVIOUS
  <2>1. Setup(h, up', NoTag) \in setups'
    BY DEF OnChannel, KeptSetups
  <2> QED BY <2>1 DEF Setup
<1>7. setups' \subseteq SetupType
  BY <1>t, <1>2 DEF OnChannel, KeptSetups, Setup, NoTag, ConsumerTypes, SetupType
<1>8. ConsumerTypes'
  BY <1>t, <1>2, <1>7 DEF ConsumerTypes
<1>9. Registered' /\ Agreeing'
  BY RegistrationKept
<1>10. \A s \in setups : s.ch \in 1 .. opened /\ s.ch # up' /\ s.ch \in 1 .. opened'
  BY <1>2 DEF ConsumersInv, Live
<1>11. Live'
  <2>1. \A s \in setups' : s.ch \in 1 .. opened'
    BY <1>2, <1>4, <1>10
  <2>2. \A e \in Entries' : e.who \in added /\ e.ch \in 1 .. opened'
    BY <1>2 DEF ConsumersInv, Live, Entries
  <2>3. \A s, t \in setups' : s.ch = up' /\ t.ch = up' /\ s.who = t.who => s = t
    BY <1>5, <1>10
  <2>4. \A s \in setups' : s.at = "consume" => s.who # "init" /\ s.ch # up'
    BY <1>4, <1>10 DEF ConsumersInv, Live
  <2>5. \A s \in setups' : s.who # "init" => s.who \in added'
    BY <1>4 DEF ConsumersInv, Live
  <2>6. up' <= opened'
    BY <1>2
  <2>7. consumers' = {}
    BY <1>3
  <2> QED BY <2>1, <2>2, <2>3, <2>4, <2>5, <2>6, <2>7 DEF Live
<1>12. Tagged'
  <2>1. Entries' = Entries
    BY DEF Entries
  <2>2. \A s \in setups' \ setups, e \in Entries : s.resumes # e.tag
    <3>1. \A s \in setups' \ setups : s.resumes = 0
      BY <1>4
    <3>2. ASSUME NEW e \in Entries PROVE e.tag # 0
      <4>1. CASE e.who \in FixedTag
        <5>1. e.tag \notin Nat
          BY <4>1, ConsumersAssumption DEF ConsumersInv, Tagged
        <5> QED BY <5>1
      <4>2. CASE e.who \notin FixedTag
        <5>1. e.tag \in 1 .. tags
          BY <4>2 DEF ConsumersInv, Tagged
        <5> QED BY <1>t, <5>1 DEF ConsumerTypes
      <4> QED BY <4>1, <4>2
    <3> QED BY <3>1, <3>2
  <2> QED BY <1>4, <2>1, <2>2 DEF ConsumersInv, Tagged
<1>13. OneEach'
  BY <1>3, <1>6 DEF ConsumersInv, OneEach
<1> QED BY <1>8, <1>9, <1>11, <1>12, <1>13 DEF ConsumersInv

LEMMA InitTimedOut == ConsumersInv /\ InitTimesOut => ConsumersInv'
<1> SUFFICES ASSUME ConsumersInv, InitTimesOut PROVE ConsumersInv'
  OBVIOUS
<1> USE DEF InitTimesOut
<1>1. \A h : Follows(h)' <=> Follows(h)
  BY FollowsSame
<1>2. ConsumerTypes'
  BY DEF ConsumersInv, ConsumerTypes
<1>3. Registered' /\ Agreeing'
  BY RegistrationKept
<1>4. Live' /\ Tagged'
  BY Shrunk DEF ConsumersInv, Live
<1>5. OneEach'
  BY <1>1 DEF ConsumersInv, OneEach
<1> QED BY <1>2, <1>3, <1>4, <1>5 DEF ConsumersInv

LEMMA Bootstrapped == ConsumersInv /\ Bootstrap => ConsumersInv'
<1> SUFFICES ASSUME ConsumersInv, Bootstrap PROVE ConsumersInv'
  OBVIOUS
<1> USE DEF Bootstrap
<1>1. \A h : Follows(h)' <=> Follows(h)
  BY FollowsSame
<1>2. ConsumerTypes'
  BY DEF ConsumersInv, ConsumerTypes
<1>3. Registered' /\ Agreeing'
  BY RegistrationKept
<1>4. Live' /\ Tagged'
  BY Shrunk DEF ConsumersInv, Live
<1>5. OneEach'
  BY <1>1 DEF ConsumersInv, OneEach
<1> QED BY <1>2, <1>3, <1>4, <1>5 DEF ConsumersInv

\* The head of what is left to register is a handler of the application that was
\* not registered before, and differs from the rest.
LEMMA NextHandler ==
  ASSUME ConsumersInv, todo # <<>>
  PROVE  /\ Head(todo) \in Handlers \ added /\ Head(todo) \in ToSet(app.handlers)
         /\ Tail(todo) \in Seq(Handlers)
         /\ \A i \in DOMAIN Tail(todo) :
               /\ Tail(todo)[i] \in ToSet(app.handlers) \ added /\ Tail(todo)[i] # Head(todo)
         /\ \A i, j \in DOMAIN Tail(todo) : Tail(todo)[i] = Tail(todo)[j] => i = j
<1>1. todo \in Seq(Handlers)
  BY DEF ConsumersInv, ConsumerTypes
<1>2. PICK n \in Nat : n = Len(todo) /\ n > 0 /\ DOMAIN todo = 1 .. n
  BY <1>1, LenProperties
<1>3. /\ Head(todo) = todo[1] /\ Tail(todo) \in Seq(Handlers) /\ DOMAIN Tail(todo) = 1 .. n - 1
      /\ \A i \in 1 .. n - 1 : Tail(todo)[i] = todo[i + 1]
  BY <1>1, <1>2, HeadTailProperties
<1>4. 1 \in DOMAIN todo /\ \A i \in 1 .. n - 1 : i + 1 \in DOMAIN todo /\ i + 1 # 1
  BY <1>2
<1>5. \A i, j \in 1 .. n - 1 : i + 1 = j + 1 => i = j
  OBVIOUS
<1>6. Head(todo) \in Handlers
  BY <1>1, <1>3, <1>4
<1> QED BY <1>3, <1>4, <1>5, <1>6 DEF ConsumersInv, Registered

LEMMA RefusedToRegister == ConsumersInv /\ RegisterConflicting => ConsumersInv'
<1> SUFFICES ASSUME ConsumersInv, RegisterConflicting PROVE ConsumersInv'
  OBVIOUS
<1> USE DEF RegisterConflicting
<1>1. \A h : Follows(h)' <=> Follows(h)
  BY FollowsSame
<1>2. /\ Tail(todo) \in Seq(Handlers)
      /\ \A i \in DOMAIN Tail(todo) : Tail(todo)[i] \in ToSet(app.handlers) \ added
      /\ \A i, j \in DOMAIN Tail(todo) : Tail(todo)[i] = Tail(todo)[j] => i = j
  BY NextHandler
<1>3. ConsumerTypes'
  BY <1>2 DEF ConsumersInv, ConsumerTypes
<1>4. Registered' /\ Agreeing'
  BY <1>2 DEF ConsumersInv, Registered, Agreeing
<1>5. Live' /\ Tagged'
  BY Shrunk DEF ConsumersInv, Live
<1>6. OneEach'
  BY <1>1 DEF ConsumersInv, OneEach
<1> QED BY <1>3, <1>4, <1>5, <1>6 DEF ConsumersInv


LEMMA RegisteredNext == ConsumersInv /\ RegisterNext => ConsumersInv'
<1> SUFFICES ASSUME ConsumersInv, RegisterNext PROVE ConsumersInv'
  OBVIOUS
<1>t. ConsumerTypes
  BY DEF ConsumersInv
<1>1. PICK h : h = Head(todo)
  OBVIOUS
<1>2. /\ h \in Handlers \ added /\ h \in ToSet(app.handlers)
      /\ Tail(todo) \in Seq(Handlers)
      /\ \A i \in DOMAIN Tail(todo) : Tail(todo)[i] \in ToSet(app.handlers) \ added /\ Tail(todo)[i] # h
      /\ \A i, j \in DOMAIN Tail(todo) : Tail(todo)[i] = Tail(todo)[j] => i = j
  BY <1>1, NextHandler DEF RegisterNext
<1>3. /\ bootstrapped /\ ~Conflicts(h) /\ todo' = Tail(todo) /\ added' = added \cup {h}
      /\ rpcHandlers' = IF Kind[h] = "rpc" THEN Append(rpcHandlers, h) ELSE rpcHandlers
      /\ setups' = IF up # 0 THEN setups \cup {Setup(h, up, NoTag)} ELSE setups
      /\ UNCHANGED <<app, bootstrapped, init, opened, cancels, up, consumers, registry, tags,
                     cancelling>>
  BY <1>1 DEF RegisterNext
<1>4. \A g \in added : Follows(g)' <=> Follows(g)
  BY <1>2, <1>3, FollowsAppend
<1>5. PICK n \in Nat : n = Len(rpcHandlers) /\ DOMAIN rpcHandlers = 1 .. n
  BY <1>t DEF ConsumerTypes
<1>6. Kind[h] = "rpc" => /\ DOMAIN (rpcHandlers') = 1 .. n + 1 /\ rpcHandlers'[n + 1] = h
                         /\ \A i \in 1 .. n : rpcHandlers'[i] = rpcHandlers[i]
                         /\ rpcHandlers' \in Seq(Handlers)
  BY <1>2, <1>3, <1>5, <1>t, AppendProperties DEF ConsumerTypes
<1>7. init # "closed" /\ init' # "closed"
  BY <1>3 DEF ConsumersInv, Registered
<1>8. ConsumerTypes'
  <2>1. setups' \subseteq SetupType
    BY <1>2, <1>3, <1>t DEF ConsumerTypes, SetupType, Setup, NoTag
  <2> QED BY <1>2, <1>3, <1>6, <1>t, <2>1 DEF ConsumerTypes
<1>9. Registered'
  <2>1. ToSet(rpcHandlers') = {g \in added' : Kind[g] = "rpc"}
    <3>0. ToSet(rpcHandlers) = {g \in added : Kind[g] = "rpc"}
      BY <1>7 DEF ConsumersInv, Registered
    <3>1. CASE Kind[h] # "rpc"
      BY <1>3, <3>0, <3>1
    <3>2. CASE Kind[h] = "rpc"
      <4>1. ToSet(rpcHandlers') = ToSet(rpcHandlers) \cup {h}
        BY <1>5, <1>6, <3>2 DEF ToSet
      <4> QED BY <1>3, <3>0, <3>2, <4>1
    <3> QED BY <3>1, <3>2
  <2>2. \A i, j \in DOMAIN (rpcHandlers') : rpcHandlers'[i] = rpcHandlers'[j] => i = j
    <3>0. /\ \A i, j \in 1 .. n : rpcHandlers[i] = rpcHandlers[j] => i = j
          /\ \A i \in 1 .. n : rpcHandlers[i] # h
      BY <1>2, <1>5, <1>7 DEF ConsumersInv, Registered, ToSet
    <3>1. CASE Kind[h] # "rpc"
      BY <1>3, <1>5, <3>0, <3>1
    <3>2. CASE Kind[h] = "rpc"
      BY <1>6, <3>0, <3>2
    <3> QED BY <3>1, <3>2
  <2> QED BY <1>2, <1>3, <1>7, <2>1, <2>2 DEF ConsumersInv, Registered
<1>10. Agreeing'
  <2>1. ASSUME NEW g \in added, Kind[h] = "rpc" \/ Kind[g] = "rpc", Queue[h] = Queue[g]
        PROVE  (h \in Differing) = (g \in Differing)
    <3>1. g \in ToSet(app.handlers) /\ g # h /\ app \in Apps
      BY <1>2, <1>t DEF ConsumersInv, Registered, ConsumerTypes
    <3>2. PICK i \in DOMAIN app.handlers, j \in DOMAIN app.handlers :
             h = app.handlers[i] /\ g = app.handlers[j] /\ i # j
      BY <1>2, <3>1 DEF ToSet
    <3>3. Kind[h] = "rpc" /\ Kind[g] = "rpc"
      BY <2>1, <3>1, <3>2, ConsumersAssumption
    <3>4. PICK k \in DOMAIN rpcHandlers : rpcHandlers[k] = g
      BY <1>7, <3>3 DEF ConsumersInv, Registered, ToSet
    <3> QED BY <1>3, <2>1, <3>3, <3>4 DEF Conflicts
  <2> QED BY <1>3, <2>1 DEF ConsumersInv, Agreeing
<1>11. \A s \in setups' \ setups : /\ s.who = h /\ s.ch = up /\ up # 0 /\ s.at = "queue"
                                   /\ s.resumes = 0
  BY <1>3 DEF Setup, NoTag
<1>12. (\A s \in setups : s.who # h) /\ \A e \in Entries : e.who # h
  BY <1>2, <1>t, ConsumersAssumption DEF ConsumersInv, Live
<1>13. Live'
  <2>1. \A s \in setups' : s.ch \in 1 .. opened'
    BY <1>3, <1>11, <1>t DEF ConsumersInv, Live, ConsumerTypes
  <2>2. \A e \in Entries' : e.who \in added' /\ e.ch \in 1 .. opened'
    BY <1>3 DEF ConsumersInv, Live, Entries
  <2>3. \A s, t \in setups' : s.ch = up' /\ t.ch = up' /\ s.who = t.who => s = t
    <3>1. \A s, t \in setups' \ setups : s = t
      BY <1>3
    <3> QED BY <1>3, <1>11, <1>12, <3>1 DEF ConsumersInv, Live
  <2>4. \A s \in setups' : s.at = "consume" => s.who # "init" /\ (s.ch = up' => ~Follows(s.who)')
    BY <1>3, <1>4, <1>11 DEF ConsumersInv, Live
  <2>5. \A s \in setups' : s.who # "init" => s.who \in added'
    BY <1>3, <1>11 DEF ConsumersInv, Live
  <2>6. up' <= opened'
    BY <1>3 DEF ConsumersInv, Live
  <2>7. \A c \in consumers' : c.ch = up' /\ up' # 0 /\ ~Follows(c.who)'
    BY <1>3, <1>4 DEF ConsumersInv, Live, Entries
  <2>8. \A s \in setups' : s.ch = up' => \A c \in consumers' : c.who # s.who
    BY <1>3, <1>11, <1>12 DEF ConsumersInv, Live, Entries
  <2> QED BY <2>1, <2>2, <2>3, <2>4, <2>5, <2>6, <2>7, <2>8 DEF Live
<1>14. Tagged'
  <2>1. Entries' = Entries
    BY <1>3 DEF Entries
  <2>2. \A s \in setups' \ setups, e \in Entries : s.resumes # e.tag
    BY <1>11, <1>t, ConsumersAssumption DEF ConsumersInv, Tagged, ConsumerTypes
  <2> QED BY <1>3, <1>11, <2>1, <2>2 DEF ConsumersInv, Tagged
<1>15. OneEach'
  <2>1. ASSUME up' # 0, cancels' = 0, NEW g \in added'
        PROVE  \/ Follows(g)' \/ \E c \in consumers' : c.who = g
               \/ \E s \in setups' : s.who = g /\ s.ch = up'
    <3>1. CASE g = h
      <4>1. Setup(h, up, NoTag) \in setups'
        BY <1>3, <2>1
      <4> QED BY <1>3, <3>1, <4>1 DEF Setup
    <3>2. CASE g \in added
      BY <1>3, <1>4, <2>1, <3>2 DEF ConsumersInv, OneEach
    <3> QED BY <1>3, <2>1, <3>1, <3>2
  <2> QED BY <1>3, <2>1 DEF ConsumersInv, OneEach
<1> QED BY <1>8, <1>9, <1>10, <1>13, <1>14, <1>15 DEF ConsumersInv

LEMMA ChannelReady ==
  ConsumersInv /\ (\E s \in setups : ChannelInitialised(s)) => ConsumersInv'
<1> SUFFICES ASSUME ConsumersInv, NEW s \in setups, ChannelInitialised(s) PROVE ConsumersInv'
  OBVIOUS
<1> USE DEF ChannelInitialised
<1>1. \A h : Follows(h)' <=> Follows(h)
  BY FollowsSame
<1>2. ConsumerTypes'
  BY DEF ConsumersInv, ConsumerTypes
<1>3. up # 0
  BY DEF ConsumersInv, Live
<1>4. Registered' /\ Agreeing'
  BY <1>3, RegistrationKept DEF ConsumersInv, Registered
<1>5. Live' /\ Tagged'
  BY <1>3, Shrunk
<1>6. s.who \notin added
  BY ConsumersAssumption DEF ConsumersInv, ConsumerTypes
<1>7. OneEach'
  BY <1>1, <1>6 DEF ConsumersInv, OneEach
<1> QED BY <1>2, <1>4, <1>5, <1>7 DEF ConsumersInv

LEMMA QueueWasReady == ConsumersInv /\ (\E s \in setups : QueueReady(s)) => ConsumersInv'
<1> SUFFICES ASSUME ConsumersInv, NEW s \in setups, QueueReady(s) PROVE ConsumersInv'
  OBVIOUS
<1>1. PICK t : t = [s EXCEPT !.at = "consume"]
  OBVIOUS
<1>2. /\ s.ch = up /\ s.who # "init"
      /\ \/ Follows(s.who) /\ setups' = setups \ {s}
         \/ ~Follows(s.who) /\ setups' = (setups \ {s}) \cup {t}
      /\ UNCHANGED <<app, bootstrapped, todo, init, opened, cancels, up, added, consumers, registry,
                     rpcHandlers, tags, cancelling>>
  BY <1>1 DEF QueueReady, boot
<1>3. /\ t \in SetupType /\ t.who = s.who /\ t.ch = s.ch /\ t.resumes = s.resumes
      /\ t.at = "consume"
  BY <1>1 DEF ConsumersInv, ConsumerTypes, SetupType
<1>4. \A h : Follows(h)' <=> Follows(h)
  BY <1>2, FollowsSame
<1>5. ConsumerTypes'
  BY <1>2, <1>3 DEF ConsumersInv, ConsumerTypes
<1>6. Registered' /\ Agreeing'
  BY <1>2, RegistrationKept DEF ConsumersInv, Registered
<1>7. Live'
  <2>1. \A x \in setups' : x.ch \in 1 .. opened'
    BY <1>2, <1>3 DEF ConsumersInv, Live
  <2>2. \A e \in Entries' : e.who \in added' /\ e.ch \in 1 .. opened'
    BY <1>2 DEF ConsumersInv, Live, Entries
  <2>3. \A x, y \in setups' : x.ch = up' /\ y.ch = up' /\ x.who = y.who => x = y
    BY <1>2, <1>3 DEF ConsumersInv, Live
  <2>4. \A x \in setups' : x.at = "consume" => x.who # "init" /\ (x.ch = up' => ~Follows(x.who)')
    BY <1>2, <1>3, <1>4 DEF ConsumersInv, Live
  <2>5. \A x \in setups' : x.who # "init" => x.who \in added'
    BY <1>2, <1>3 DEF ConsumersInv, Live
  <2>6. up' <= opened'
    BY <1>2 DEF ConsumersInv, Live
  <2>7. \A c \in consumers' : c.ch = up' /\ up' # 0 /\ ~Follows(c.who)'
    BY <1>2, <1>4 DEF ConsumersInv, Live
  <2>8. \A x \in setups' : x.ch = up' => \A c \in consumers' : c.who # x.who
    BY <1>2, <1>3 DEF ConsumersInv, Live
  <2> QED BY <2>1, <2>2, <2>3, <2>4, <2>5, <2>6, <2>7, <2>8 DEF Live
<1>8. Tagged'
  <2>1. Entries' = Entries
    BY <1>2 DEF Entries
  <2> QED BY <1>2, <1>3, <2>1 DEF ConsumersInv, Tagged
<1>9. OneEach'
  <2>1. ASSUME up' # 0, cancels' = 0, NEW g \in added'
        PROVE  \/ Follows(g)' \/ \E c \in consumers' : c.who = g
               \/ \E x \in setups' : x.who = g /\ x.ch = up'
    <3>1. \/ Follows(g) \/ \E c \in consumers : c.who = g
          \/ \E x \in setups : x.who = g /\ x.ch = up
      BY <1>2, <2>1 DEF ConsumersInv, OneEach
    <3> QED BY <1>2, <1>3, <1>4, <3>1
  <2> QED BY <1>2, <2>1 DEF ConsumersInv, OneEach
<1> QED BY <1>5, <1>6, <1>7, <1>8, <1>9 DEF ConsumersInv


LEMMA Consumed == ConsumersInv /\ (\E s \in setups : Consuming(s)) => ConsumersInv'
<1> SUFFICES ASSUME ConsumersInv, NEW s \in setups, Consuming(s) PROVE ConsumersInv'
  OBVIOUS
<1>t. ConsumerTypes
  BY DEF ConsumersInv
<1>1. PICK c : c = Entry(s.who, up, TagOf(s.who))
  OBVIOUS
<1>2. /\ s.ch = up /\ s.at = "consume" /\ setups' = setups \ {s}
      /\ consumers' = consumers \cup {c}
      /\ registry' = {e \in (registry \ Stale(c)) \cup {c} : e.tag # s.resumes}
      /\ tags' = IF s.who \in FixedTag THEN tags ELSE tags + 1
      /\ UNCHANGED <<app, bootstrapped, todo, init, opened, cancels, up, added, rpcHandlers,
                     cancelling>>
  BY <1>1 DEF Consuming, boot
<1>3. /\ c.who = s.who /\ c.ch = up
      /\ c.tag = IF s.who \in FixedTag THEN s.who ELSE tags + 1
      /\ s.who \in added /\ s.who \in Handlers /\ up \in 1 .. opened /\ ~Follows(s.who)
      /\ c = [who |-> c.who, ch |-> c.ch, tag |-> c.tag]
  BY <1>1, <1>2, <1>t DEF Entry, TagOf, ConsumersInv, Live, ConsumerTypes
<1>4. c \in EntryType /\ tags \in Nat /\ tags' \in Nat /\ tags' >= tags
  BY <1>2, <1>3, <1>t DEF ConsumerTypes, EntryType
<1>5. \A h : Follows(h)' <=> Follows(h)
  BY <1>2, FollowsSame
<1>6. ConsumerTypes'
  BY <1>2, <1>4, <1>t DEF ConsumerTypes
<1>7. Registered' /\ Agreeing'
  BY <1>2, RegistrationKept DEF ConsumersInv, Registered
<1>8. Entries' \subseteq Entries \cup {c}
  BY <1>2 DEF Entries
<1>9. \A d \in consumers : d.who # c.who
  BY <1>2, <1>3 DEF ConsumersInv, Live
<1>10. Live'
  <2>1. \A x \in setups' : x.ch \in 1 .. opened' /\ (x.who # "init" => x.who \in added')
    BY <1>2 DEF ConsumersInv, Live
  <2>2. \A e \in Entries' : e.who \in added' /\ e.ch \in 1 .. opened'
    BY <1>2, <1>3, <1>8 DEF ConsumersInv, Live
  <2>3. \A x, y \in setups' : x.ch = up' /\ y.ch = up' /\ x.who = y.who => x = y
    BY <1>2 DEF ConsumersInv, Live
  <2>4. \A x \in setups' : x.at = "consume" => x.who # "init" /\ (x.ch = up' => ~Follows(x.who)')
    BY <1>2, <1>5 DEF ConsumersInv, Live
  <2>5. up' <= opened'
    BY <1>2 DEF ConsumersInv, Live
  <2>6. \A d \in consumers' : d.ch = up' /\ up' # 0 /\ ~Follows(d.who)'
    BY <1>2, <1>3, <1>5 DEF ConsumersInv, Live
  <2>7. \A x \in setups' : x.ch = up' => x.who # s.who
    BY <1>2 DEF ConsumersInv, Live
  <2>8. \A x \in setups' : x.ch = up' => \A d \in consumers' : d.who # x.who
    BY <1>2, <1>3, <2>7 DEF ConsumersInv, Live
  <2> QED BY <2>1, <2>2, <2>3, <2>4, <2>5, <2>6, <2>8 DEF Live
<1>11. \A e \in Entries : e.tag = c.tag => e.who = c.who
  <2> SUFFICES ASSUME NEW e \in Entries, e.tag = c.tag PROVE e.who = c.who
    OBVIOUS
  <2>1. IF e.who \in FixedTag THEN e.tag = e.who ELSE e.tag \in 1 .. tags
    BY DEF ConsumersInv, Tagged
  <2>2. tags + 1 \notin 1 .. tags /\ tags + 1 \in Nat /\ 1 .. tags \subseteq Nat
    BY <1>4
  <2>3. \A f \in FixedTag : f \notin Nat
    BY ConsumersAssumption
  <2> QED BY <1>3, <2>1, <2>2, <2>3
<1>12. \A x \in setups : x.resumes = c.tag => x.who = c.who
  <2> SUFFICES ASSUME NEW x \in setups, x.resumes = c.tag PROVE x.who = c.who
    OBVIOUS
  <2>1. \/ x.resumes = 0
        \/ x.who \in FixedTag /\ x.resumes = x.who
        \/ x.who \notin FixedTag /\ x.resumes \in 1 .. tags
    BY DEF ConsumersInv, Tagged
  <2>2. tags + 1 \notin 1 .. tags /\ tags + 1 \in Nat /\ tags + 1 # 0 /\ 1 .. tags \subseteq Nat
    BY <1>4
  <2>3. (\A f \in FixedTag : f \notin Nat) /\ 0 \in Nat
    BY ConsumersAssumption
  <2> QED BY <1>3, <2>1, <2>2, <2>3
<1>13. Tagged'
  <2>0. 1 .. tags \subseteq 1 .. tags'
    BY <1>4
  <2>1. s.who \notin FixedTag => c.tag \in 1 .. tags'
    BY <1>2, <1>3, <1>4
  <2>2. \A e \in Entries' : IF e.who \in FixedTag THEN e.tag = e.who ELSE e.tag \in 1 .. tags'
    BY <1>3, <1>8, <2>0, <2>1 DEF ConsumersInv, Tagged
  <2>3. \A e, f \in Entries' : e.tag = f.tag => e.who = f.who
    BY <1>8, <1>11 DEF ConsumersInv, Tagged
  <2>4. \A x \in setups' : \/ x.resumes = 0
                           \/ x.who \in FixedTag /\ x.resumes = x.who
                           \/ x.who \notin FixedTag /\ x.resumes \in 1 .. tags'
    BY <1>2, <2>0 DEF ConsumersInv, Tagged
  <2>5. \A x \in setups', e \in Entries' : x.resumes = e.tag => x.who = e.who
    BY <1>2, <1>8, <1>12 DEF ConsumersInv, Tagged
  <2> QED BY <2>2, <2>3, <2>4, <2>5 DEF Tagged
<1>14. OneEach'
  <2>1. \A e, f \in registry' : e.who = f.who => e = f
    BY <1>2 DEF ConsumersInv, OneEach, Stale
  <2>2. ASSUME NEW d \in consumers', d.who \notin FixedTag PROVE d \in registry'
    <3>1. CASE d = c
      <4>1. s.resumes # c.tag
        <5>1. c.tag = tags + 1
          BY <1>3, <2>2, <3>1
        <5>2. s.resumes = 0 \/ s.resumes \in 1 .. tags
          BY <1>3, <2>2, <3>1 DEF ConsumersInv, Tagged
        <5> QED BY <1>4, <5>1, <5>2
      <4> QED BY <1>2, <3>1, <4>1
    <3>2. CASE d \in consumers
      <4>1. d \in registry /\ d \in Entries
        BY <2>2, <3>2 DEF ConsumersInv, OneEach, Entries
      <4>2. d.who # c.who
        BY <1>9, <3>2
      <4>3. d.tag # c.tag /\ d.tag # s.resumes
        BY <1>3, <1>11, <4>1, <4>2 DEF ConsumersInv, Tagged
      <4> QED BY <1>2, <4>1, <4>2, <4>3 DEF Stale
    <3> QED BY <1>2, <3>1, <3>2
  <2>3. \A d, x \in consumers' : d.who = x.who => d = x
    BY <1>2, <1>9 DEF ConsumersInv, OneEach
  <2>4. ASSUME up' # 0, cancels' = 0, NEW g \in added'
        PROVE  \/ Follows(g)' \/ \E d \in consumers' : d.who = g
               \/ \E x \in setups' : x.who = g /\ x.ch = up'
    <3>1. \/ Follows(g) \/ \E d \in consumers : d.who = g
          \/ \E x \in setups : x.who = g /\ x.ch = up
      BY <1>2, <2>4 DEF ConsumersInv, OneEach
    <3> QED BY <1>2, <1>3, <1>5, <3>1
  <2>5. cancelling' # {} => cancels' > 0
    BY <1>2 DEF ConsumersInv, OneEach
  <2> QED BY <2>1, <2>2, <2>3, <2>4, <2>5 DEF OneEach
<1> QED BY <1>6, <1>7, <1>10, <1>13, <1>14 DEF ConsumersInv

LEMMA Stranded == ConsumersInv /\ (\E s \in setups : SetupStranded(s)) => ConsumersInv'
<1> SUFFICES ASSUME ConsumersInv, NEW s \in setups, SetupStranded(s) PROVE ConsumersInv'
  OBVIOUS
<1> USE DEF SetupStranded, boot
<1>1. \A h : Follows(h)' <=> Follows(h)
  BY FollowsSame
<1>2. ConsumerTypes'
  BY DEF ConsumersInv, ConsumerTypes
<1>3. Registered' /\ Agreeing'
  BY RegistrationKept DEF ConsumersInv, Registered
<1>4. Live' /\ Tagged'
  BY Shrunk DEF ConsumersInv, Live
<1>5. OneEach'
  BY <1>1 DEF ConsumersInv, OneEach
<1> QED BY <1>2, <1>3, <1>4, <1>5 DEF ConsumersInv

LEMMA CancelRequested == ConsumersInv /\ (\E e \in registry : CancelConsumer(e)) => ConsumersInv'
<1> SUFFICES ASSUME ConsumersInv, NEW e \in registry, CancelConsumer(e) PROVE ConsumersInv'
  OBVIOUS
<1> USE DEF CancelConsumer
<1>1. cancels \in Nat /\ cancels' = cancels + 1
  BY DEF ConsumersInv, ConsumerTypes
<1>2. ConsumerTypes'
  BY DEF ConsumersInv, ConsumerTypes
<1>3. Registered' /\ Agreeing'
  BY RegistrationKept DEF ConsumersInv, Registered
<1>4. Live' /\ Tagged'
  BY Shrunk DEF ConsumersInv, Live
<1>5. OneEach'
  BY <1>1 DEF ConsumersInv, OneEach
<1> QED BY <1>2, <1>3, <1>4, <1>5 DEF ConsumersInv

LEMMA CancelAnswered == ConsumersInv /\ (\E e \in cancelling : CancelDone(e)) => ConsumersInv'
<1> SUFFICES ASSUME ConsumersInv, NEW e \in cancelling, CancelDone(e) PROVE ConsumersInv'
  OBVIOUS
<1>1. /\ cancelling' = cancelling \ {e}
      /\ \/ /\ consumers' = {c \in consumers : c.tag # e.tag}
            /\ registry' = {x \in registry : x.tag # e.tag}
         \/ consumers' = consumers /\ registry' = registry
      /\ UNCHANGED <<boot, up, added, setups, rpcHandlers, tags>>
  BY DEF CancelDone
<1>2. cancels > 0 /\ cancels \in Nat /\ cancels' = cancels
  BY <1>1 DEF ConsumersInv, ConsumerTypes, OneEach, boot
<1>3. ConsumerTypes'
  BY <1>1 DEF ConsumersInv, ConsumerTypes, boot
<1>4. Registered' /\ Agreeing'
  BY <1>1, RegistrationKept DEF ConsumersInv, Registered, boot
<1>5. consumers' \subseteq consumers /\ registry' \subseteq registry
  BY <1>1
<1>6. Live' /\ Tagged'
  BY <1>1, <1>5, Shrunk DEF ConsumersInv, Live, boot
<1>7. OneEach'
  BY <1>1, <1>2, <1>5 DEF ConsumersInv, OneEach
<1> QED BY <1>3, <1>4, <1>6, <1>7 DEF ConsumersInv

LEMMA Cancelled == ConsumersInv /\ (\E c \in consumers : BrokerCancels(c)) => ConsumersInv'
<1> SUFFICES ASSUME ConsumersInv, NEW c \in consumers, BrokerCancels(c) PROVE ConsumersInv'
  OBVIOUS
<1> USE DEF BrokerCancels
<1>1. cancels \in Nat /\ cancels' = cancels + 1
  BY DEF ConsumersInv, ConsumerTypes
<1>2. ConsumerTypes'
  BY DEF ConsumersInv, ConsumerTypes
<1>3. Registered' /\ Agreeing'
  BY RegistrationKept DEF ConsumersInv, Registered
<1>4. Live' /\ Tagged'
  BY Shrunk DEF ConsumersInv, Live
<1>5. OneEach'
  BY <1>1 DEF ConsumersInv, OneEach
<1> QED BY <1>2, <1>3, <1>4, <1>5 DEF ConsumersInv

LEMMA Resumed == ConsumersInv /\ (\E e \in registry : ResumeConsumer(e)) => ConsumersInv'
<1> SUFFICES ASSUME ConsumersInv, NEW e \in registry, ResumeConsumer(e) PROVE ConsumersInv'
  OBVIOUS
<1>t. ConsumerTypes
  BY DEF ConsumersInv
<1>1. PICK t : t = Setup(e.who, e.ch, e.tag)
  OBVIOUS
<1>2. /\ \A c \in consumers : c.who # e.who
      /\ e.ch = up /\ \A s \in setups : s.who # e.who
      /\ setups' = setups \cup {t}
      /\ UNCHANGED <<app, bootstrapped, todo, init, opened, cancels, up, added, consumers, registry,
                     rpcHandlers, tags, cancelling>>
  BY <1>1 DEF ResumeConsumer, boot
<1>3. /\ t.who = e.who /\ t.ch = e.ch /\ t.at = "queue" /\ t.resumes = e.tag
      /\ t = [who |-> t.who, ch |-> t.ch, at |-> t.at, resumes |-> t.resumes]
  BY <1>1 DEF Setup
<1>4. /\ e \in Entries /\ e.who \in added /\ e.who \in Handlers /\ e.ch \in 1 .. opened
      /\ e.tag \in Nat \cup FixedTag /\ e.ch \in Nat
  BY <1>t DEF ConsumersInv, Live, Entries, ConsumerTypes, EntryType
<1>5. \A h : Follows(h)' <=> Follows(h)
  BY <1>2, FollowsSame
<1>6. ConsumerTypes'
  <2>1. t \in SetupType
    BY <1>3, <1>4 DEF SetupType
  <2> QED BY <1>2, <1>t, <2>1 DEF ConsumerTypes
<1>7. Registered' /\ Agreeing'
  BY <1>2, RegistrationKept DEF ConsumersInv, Registered
<1>8. Live'
  <2>1. \A x \in setups' : x.ch \in 1 .. opened' /\ (x.who # "init" => x.who \in added')
    BY <1>2, <1>3, <1>4 DEF ConsumersInv, Live
  <2>2. \A f \in Entries' : f.who \in added' /\ f.ch \in 1 .. opened'
    BY <1>2 DEF ConsumersInv, Live, Entries
  <2>3. \A x, y \in setups' : x.ch = up' /\ y.ch = up' /\ x.who = y.who => x = y
    BY <1>2, <1>3 DEF ConsumersInv, Live
  <2>4. \A x \in setups' : x.at = "consume" => x.who # "init" /\ (x.ch = up' => ~Follows(x.who)')
    BY <1>2, <1>3, <1>5 DEF ConsumersInv, Live
  <2>5. up' <= opened'
    BY <1>2 DEF ConsumersInv, Live
  <2>6. \A d \in consumers' : d.ch = up' /\ up' # 0 /\ ~Follows(d.who)'
    BY <1>2, <1>5 DEF ConsumersInv, Live
  <2>7. \A x \in setups' : x.ch = up' => \A d \in consumers' : d.who # x.who
    BY <1>2, <1>3 DEF ConsumersInv, Live
  <2> QED BY <2>1, <2>2, <2>3, <2>4, <2>5, <2>6, <2>7 DEF Live
<1>9. Tagged'
  <2>1. Entries' = Entries
    BY <1>2 DEF Entries
  <2>2. IF e.who \in FixedTag THEN e.tag = e.who ELSE e.tag \in 1 .. tags
    BY <1>4 DEF ConsumersInv, Tagged
  <2>3. \A f \in Entries : e.tag = f.tag => e.who = f.who
    BY <1>4 DEF ConsumersInv, Tagged
  <2> QED BY <1>2, <1>3, <2>1, <2>2, <2>3 DEF ConsumersInv, Tagged
<1>10. OneEach'
  <2>1. setups \subseteq setups'
    BY <1>2
  <2> QED BY <1>2, <1>5, <2>1 DEF ConsumersInv, OneEach
<1> QED BY <1>6, <1>7, <1>8, <1>9, <1>10 DEF ConsumersInv

LEMMA ConsumersStep == ConsumersInv /\ ConsumerStep => ConsumersInv'
  BY ChannelOpened, InitTimedOut, Bootstrapped, RegisteredNext, RefusedToRegister, ChannelReady,
     QueueWasReady, Consumed, Stranded, CancelRequested, CancelAnswered, Cancelled, Resumed
     DEF ConsumerStep

\* The channel is lost, or a set-up function loses it.
LEMMA LostChannel ==
  ConsumersInv /\ (LoseChannel \/ \E s \in setups : SetupRefused(s)) => ConsumersInv'
<1> SUFFICES ASSUME ConsumersInv, LoseChannel \/ \E s \in setups : SetupRefused(s)
             PROVE  ConsumersInv'
  OBVIOUS
<1>1. /\ up' = 0 /\ consumers' = {} /\ setups' \subseteq setups
      /\ UNCHANGED <<app, bootstrapped, todo, init, opened, cancels, added, registry, rpcHandlers,
                     tags, cancelling>>
  BY DEF LoseChannel, SetupRefused, ChannelGone, boot
<1>2. ConsumerTypes'
  BY <1>1 DEF ConsumersInv, ConsumerTypes
<1>3. Registered' /\ Agreeing'
  BY <1>1, RegistrationKept DEF ConsumersInv, Registered
<1>4. Live' /\ Tagged'
  BY <1>1, Shrunk
<1>5. OneEach'
  BY <1>1 DEF ConsumersInv, OneEach
<1> QED BY <1>2, <1>3, <1>4, <1>5 DEF ConsumersInv

\* close() empties the maps; the set-up functions stay added.
LEMMA Closed == ConsumersInv /\ CloseDone => ConsumersInv'
<1> SUFFICES ASSUME ConsumersInv, CloseDone PROVE ConsumersInv'
  OBVIOUS
<1>1. /\ up' = 0 /\ consumers' = {} /\ registry' = {} /\ rpcHandlers' = <<>> /\ ~bootstrapped'
      /\ init' = "closed"
      /\ UNCHANGED <<app, todo, opened, cancels, added, setups, tags, cancelling>>
  BY DEF CloseDone
<1>2. ConsumerTypes'
  BY <1>1 DEF ConsumersInv, ConsumerTypes
<1>3. Registered' /\ Agreeing'
  BY <1>1 DEF ConsumersInv, Registered, Agreeing
<1>4. Live'
  <2>1. \A s \in setups : s.ch # 0
    BY DEF ConsumersInv, Live
  <2> QED BY <1>1, <2>1 DEF ConsumersInv, ConsumerTypes, Live, Entries
<1>5. Tagged'
  BY <1>1 DEF ConsumersInv, Tagged, Entries
<1>6. OneEach'
  BY <1>1 DEF ConsumersInv, OneEach
<1> QED BY <1>2, <1>3, <1>4, <1>5, <1>6 DEF ConsumersInv

LEMMA ConsumersUnchanged == ConsumersInv /\ UNCHANGED consumerVars => ConsumersInv'
<1> SUFFICES ASSUME ConsumersInv, UNCHANGED consumerVars PROVE ConsumersInv'
  OBVIOUS
<1> USE DEF consumerVars
<1>1. \A h : Follows(h)' <=> Follows(h)
  BY FollowsSame
<1>2. ConsumerTypes' /\ Registered' /\ Agreeing'
  BY DEF ConsumersInv, ConsumerTypes, Registered, Agreeing
<1>3. Live' /\ Tagged' /\ OneEach'
  BY <1>1 DEF ConsumersInv, Live, Tagged, OneEach, Entries
<1> QED BY <1>2, <1>3 DEF ConsumersInv


\* The steps that change anything about the consumers.
LEMMA NextKinds ==
  [Next]_vars => ConsumerStep \/ ChannelLost \/ CloseDone \/ UNCHANGED consumerVars
<1> SUFFICES ASSUME [Next]_vars
             PROVE  ConsumerStep \/ ChannelLost \/ CloseDone \/ UNCHANGED consumerVars
  OBVIOUS
<1>1. Processing => CloseDone \/ UNCHANGED consumerVars
  BY DEF Processing, ReplySent, Acknowledge, HandlerDone, BatchDue, BatchDone
<1>2. Close => UNCHANGED consumerVars
  BY DEF Close
<1>3. \A k : Publish(k) => UNCHANGED consumerVars
  BY DEF Publish
<1>4. \A k, confirmed : Transmit(k, confirmed) => UNCHANGED consumerVars
  BY DEF Transmit
<1>5. \A p : ReplyArrives(p) => UNCHANGED consumerVars
  BY DEF ReplyArrives
<1>6. \A r : RequestDone(r) \/ RequestTimesOut(r) => UNCHANGED consumerVars
  BY DEF RequestDone, RequestTimesOut
<1>7. \A c, m : Deliver(c, m) => UNCHANGED consumerVars
  BY DEF Deliver
<1>8. UNCHANGED vars => UNCHANGED consumerVars
  BY DEF vars
<1> HIDE DEF Processing, Close, Publish, Transmit, ReplyArrives, RequestDone, RequestTimesOut,
             Deliver
<1> QED BY <1>1, <1>2, <1>3, <1>4, <1>5, <1>6, <1>7, <1>8 DEF Next

\* Bindings are never taken back.
LEMMA BoundGrows == [Next]_vars => bound \subseteq bound'
<1>1. ConsumerStep => bound \subseteq bound'
  BY DEF ConsumerStep, OpenChannel, InitTimesOut, Bootstrap, RegisterNext, RegisterConflicting,
         ChannelInitialised, QueueReady, Consuming, SetupStranded, CancelConsumer, ResumeConsumer,
         CancelDone, BrokerCancels
<1>2. ChannelLost \/ CloseDone => bound' = bound
  BY DEF ChannelLost, LoseChannel, SetupRefused, ChannelGone, CloseDone
<1>3. UNCHANGED consumerVars => bound' = bound
  BY DEF consumerVars
<1> QED BY <1>1, <1>2, <1>3, NextKinds

\* What the broker sends and hears changes nothing of this.
LEMMA ConsumersNext == ConsumersInv /\ [Next]_vars => ConsumersInv'
<1> SUFFICES ASSUME ConsumersInv, [Next]_vars PROVE ConsumersInv'
  OBVIOUS
<1>1. CASE UNCHANGED consumerVars
  BY <1>1, ConsumersUnchanged
<1>2. CASE ConsumerStep
  BY <1>2, ConsumersStep
<1>3. CASE ChannelLost
  BY <1>3, LostChannel DEF ChannelLost
<1>4. CASE CloseDone
  BY <1>4, Closed
<1>5. ConsumerStep \/ ChannelLost \/ CloseDone \/ UNCHANGED consumerVars
  BY NextKinds
<1> QED BY <1>1, <1>2, <1>3, <1>4, <1>5

\* Whatever is lost, cancelled, resumed and set up again, for every application:
\* the registry holds one entry per handler and every consumer that cancelConsumer()
\* has to reach, a queue has a single consumer, and once the set-up functions are
\* through no handler that nobody cancelled is left without one (1168-1174).
THEOREM RegistryFollows == Spec => []RegistryInStep
<1>1. Init => ConsumersInv
  BY ConsumersStart DEF Init
<1>2. ConsumersInv /\ [Next]_vars => ConsumersInv'
  BY ConsumersNext
<1>3. ConsumersInv => RegistryInStep
  BY InStep
<1> QED BY <1>1, <1>2, <1>3, PTL DEF Spec


-----------------------------------------------------------------------------
(* The messages: where they are, and that nothing runs ahead of the sender *)

States == {"idle", "waiting", "sent", "answered", "failed"}

\* Messages a queue has taken, with the channel a request was sent on; those a handler
\* has been through with; and the places that hold them.
Sent == {x \in [id : Messages, via : Nat] : req[x.id] # "idle" /\ Routed(x.id)}
Heard == {x \in Sent : served[x.id] > 0}
Queued == {o \in [id : Messages, tried : Nat] : req[o.id] # "idle"}
Delivered == [msg : Sent, by : EntryType]
Worked == {w \in [d : Delivered, at : {"handler", "reply", "ack"}] :
              w.at # "handler" => served[w.d.msg.id] > 0}
Batch == {b \in [by : EntryType, msgs : Seq(Delivered), full : BOOLEAN] :
             Len(b.msgs) > 0 /\ \A k \in DOMAIN b.msgs : b.msgs[k].by = b.by}

MessageTypes ==
    /\ req \in [Messages -> States] /\ answer \in [Requests -> Requests \cup {NoAnswer}]
    /\ served \in [Messages -> Nat] /\ gone \subseteq Messages
    /\ outbox \in Seq(Queued) /\ ready \subseteq Sent /\ unacked \subseteq Delivered
    /\ work \subseteq Worked /\ buffers \subseteq Batch /\ batches \subseteq Batch
    /\ stuck \subseteq Delivered /\ replies \subseteq Heard

\* A request that got its reply got its own, from a handler; only events are "sent".
Answered ==
    /\ \A r \in replied : r \in Requests /\ answer[r] = r /\ served[r] > 0
    /\ \A r \in Requests : req[r] # "sent"

\* What is sent, and served, stays so; the places above only grow with it.
LEMMA Monotone ==
  ASSUME MessageTypes, bound \subseteq bound',
         req' \in [Messages -> States], served' \in [Messages -> Nat],
         \A m \in Messages : req[m] # "idle" => req'[m] # "idle",
         \A m \in Messages : served'[m] >= served[m]
  PROVE  /\ Sent \subseteq Sent' /\ Heard \subseteq Heard' /\ Queued \subseteq Queued'
         /\ Delivered \subseteq Delivered' /\ Worked \subseteq Worked' /\ Batch \subseteq Batch'
         /\ Seq(Queued) \subseteq Seq(Queued')
<1>0. \A m : Routed(m) => Routed(m)'
  BY DEF Routed
<1>1. Sent \subseteq Sent' /\ Queued \subseteq Queued'
  BY <1>0 DEF Sent, Queued
<1>2. \A m \in Messages : served[m] > 0 => served'[m] > 0
  BY DEF MessageTypes
<1>3. Heard \subseteq Heard'
  BY <1>1, <1>2 DEF Heard, Sent
<1>4. Delivered \subseteq Delivered'
  BY <1>1 DEF Delivered
<1>5. Worked \subseteq Worked'
  <2> SUFFICES ASSUME NEW w \in Worked PROVE w \in Worked'
    OBVIOUS
  <2>1. /\ w \in [d : Delivered, at : {"handler", "reply", "ack"}]
        /\ w.at # "handler" => served[w.d.msg.id] > 0
    BY DEF Worked
  <2>2. w.d.msg.id \in Messages
    BY <2>1 DEF Delivered, Sent
  <2>3. w \in [d : Delivered', at : {"handler", "reply", "ack"}]
    BY <1>4, <2>1
  <2> QED BY <1>2, <2>1, <2>2, <2>3 DEF Worked
<1>6. Seq(Delivered) \subseteq Seq(Delivered')
  BY <1>4
<1>7. Batch \subseteq Batch'
  <2> SUFFICES ASSUME NEW b \in Batch PROVE b \in Batch'
    OBVIOUS
  <2>1. b \in [by : EntryType, msgs : Seq(Delivered), full : BOOLEAN]
    BY DEF Batch
  <2>2. b \in [by : EntryType, msgs : Seq(Delivered'), full : BOOLEAN]
    BY <1>6, <2>1
  <2>3. Len(b.msgs) > 0 /\ \A k \in DOMAIN b.msgs : b.msgs[k].by = b.by
    BY DEF Batch
  <2> QED BY <2>2, <2>3 DEF Batch
<1>8. Seq(Queued) \subseteq Seq(Queued')
  BY <1>1
<1> QED BY <1>1, <1>3, <1>4, <1>5, <1>7, <1>8


\* What is left of a sequence without one of its elements.
LEMMA RemoveAtLeaves ==
  ASSUME NEW S, NEW s \in Seq(S), NEW k \in DOMAIN s
  PROVE  /\ RemoveAt(s, k) \in Seq(S)
         /\ \A i \in DOMAIN s : i # k => \E j \in DOMAIN RemoveAt(s, k) : RemoveAt(s, k)[j] = s[i]
         /\ \A j \in DOMAIN RemoveAt(s, k) : \E i \in DOMAIN s : RemoveAt(s, k)[j] = s[i]
<1>1. PICK n \in Nat : n = Len(s) /\ DOMAIN s = 1 .. n /\ k \in 1 .. n
  OBVIOUS
<1>2. PICK a, b : a = SubSeq(s, 1, k - 1) /\ b = SubSeq(s, k + 1, n)
  OBVIOUS
<1>3. \A i \in 1 .. n : s[i] \in S
  BY <1>1
<1>4. /\ a \in Seq(S) /\ Len(a) = k - 1 /\ \A i \in 1 .. k - 1 : a[i] = s[i]
  <2>1. 1 \in Int /\ k - 1 \in Int /\ \A i \in 1 .. k - 1 : s[i] \in S
    BY <1>1, <1>3
  <2>2. /\ a \in Seq(S) /\ Len(a) = IF 1 <= k - 1 THEN (k - 1) - 1 + 1 ELSE 0
        /\ \A i \in 1 .. (k - 1) - 1 + 1 : a[i] = s[1 + i - 1]
    BY <1>2, <2>1, SubSeqProperties
  <2>3. (k - 1) - 1 + 1 = k - 1 /\ (~(1 <= k - 1) => k - 1 = 0) /\ \A i \in 1 .. k - 1 : 1 + i - 1 = i
    BY <1>1
  <2> QED BY <2>2, <2>3
<1>5. /\ b \in Seq(S) /\ Len(b) = n - k /\ \A i \in 1 .. n - k : b[i] = s[k + i]
  <2>1. k + 1 \in Int /\ n \in Int /\ \A i \in k + 1 .. n : s[i] \in S
    BY <1>1, <1>3
  <2>2. /\ b \in Seq(S) /\ Len(b) = IF k + 1 <= n THEN n - (k + 1) + 1 ELSE 0
        /\ \A i \in 1 .. n - (k + 1) + 1 : b[i] = s[(k + 1) + i - 1]
    BY <1>2, <2>1, SubSeqProperties
  <2>3. n - (k + 1) + 1 = n - k /\ (~(k + 1 <= n) => n - k = 0) /\ \A i \in 1 .. n - k : (k + 1) + i - 1 = k + i
    BY <1>1
  <2> QED BY <2>2, <2>3
<1>6. PICK r : r = RemoveAt(s, k)
  OBVIOUS
<1>7. /\ r \in Seq(S) /\ Len(r) = n - 1
      /\ \A i \in 1 .. n - 1 : r[i] = IF i <= k - 1 THEN a[i] ELSE b[i - (k - 1)]
  <2>1. r = a \o b
    BY <1>1, <1>2, <1>6 DEF RemoveAt
  <2>2. a \in Seq(S) /\ b \in Seq(S) /\ Len(a) = k - 1 /\ Len(b) = n - k
    BY <1>4, <1>5
  <2>3. k \in Int /\ n \in Int /\ (k - 1) + (n - k) = n - 1
    BY <1>1
  <2>4. /\ a \o b \in Seq(S) /\ Len(a \o b) = Len(a) + Len(b)
        /\ \A i \in 1 .. Len(a) + Len(b) :
              (a \o b)[i] = IF i <= Len(a) THEN a[i] ELSE b[i - Len(a)]
    BY <2>2, ConcatProperties
  <2> QED BY <2>1, <2>2, <2>3, <2>4
<1>8. DOMAIN r = 1 .. n - 1
  BY <1>7
<1>9. ASSUME NEW i \in DOMAIN s, i # k PROVE \E j \in DOMAIN r : r[j] = s[i]
  <2>1. CASE i < k
    <3>1. i \in 1 .. n - 1 /\ i <= k - 1 /\ i \in 1 .. k - 1
      BY <1>1, <2>1
    <3> QED BY <1>4, <1>7, <1>8, <3>1
  <2>2. CASE i > k
    <3>1. /\ i - 1 \in 1 .. n - 1 /\ ~(i - 1 <= k - 1) /\ (i - 1) - (k - 1) = i - k
          /\ i - k \in 1 .. n - k /\ k + (i - k) = i
      BY <1>1, <2>2
    <3> QED BY <1>5, <1>7, <1>8, <3>1
  <2> QED BY <1>1, <1>9, <2>1, <2>2
<1>10. ASSUME NEW j \in DOMAIN r PROVE \E i \in DOMAIN s : r[j] = s[i]
  <2>1. CASE j <= k - 1
    <3>1. j \in 1 .. k - 1 /\ j \in 1 .. n
      BY <1>1, <1>8, <2>1
    <3> QED BY <1>1, <1>4, <1>7, <1>8, <2>1, <3>1
  <2>2. CASE ~(j <= k - 1)
    <3>1. j - (k - 1) \in 1 .. n - k /\ k + (j - (k - 1)) = j + 1 /\ j + 1 \in 1 .. n
      BY <1>1, <1>8, <2>2
    <3> QED BY <1>1, <1>5, <1>7, <1>8, <2>2, <3>1
  <2> QED BY <2>1, <2>2
<1> QED BY <1>6, <1>7, <1>9, <1>10

\* The inductive invariant of the messages, as far as request() goes.
RequestInv == MessageTypes /\ Answered

LEMMA MessagesStart == Init => RequestInv
<1> SUFFICES ASSUME Init PROVE RequestInv
  OBVIOUS
<1> USE DEF Init
<1>1. MessageTypes
  BY DEF MessageTypes, States, Messages
<1>2. Answered
  BY DEF Answered, Messages
<1> QED BY <1>1, <1>2 DEF RequestInv

\* Steps that touch neither req nor answer nor served keep both parts if what they
\* put somewhere belongs there.
LEMMA Moved ==
  ASSUME RequestInv, bound \subseteq bound', UNCHANGED <<req, answer, served, replied>>,
         outbox' \in Seq(Queued), ready' \subseteq Sent, unacked' \subseteq Delivered,
         work' \subseteq Worked, buffers' \subseteq Batch, batches' \subseteq Batch,
         stuck' \subseteq Delivered, replies' \subseteq Heard, gone' \subseteq Messages
  PROVE  RequestInv'
<1>1. /\ Sent \subseteq Sent' /\ Heard \subseteq Heard' /\ Delivered \subseteq Delivered'
      /\ Worked \subseteq Worked' /\ Batch \subseteq Batch' /\ Seq(Queued) \subseteq Seq(Queued')
  <2>1. /\ MessageTypes /\ req' \in [Messages -> States] /\ served' \in [Messages -> Nat]
        /\ \A m \in Messages : req[m] # "idle" => req'[m] # "idle"
        /\ \A m \in Messages : served'[m] >= served[m]
    BY DEF RequestInv, MessageTypes
  <2> QED BY <2>1, Monotone
<1>2. MessageTypes'
  BY <1>1 DEF RequestInv, MessageTypes
<1>3. Answered'
  BY DEF RequestInv, Answered
<1> QED BY <1>2, <1>3 DEF RequestInv

LEMMA Published ==
  ASSUME ConsumersInv, RequestInv, bound \subseteq bound', NEW k \in DOMAIN app.sends, Publish(k)
  PROVE  RequestInv' /\ [Promise!Next]_(Promise!vars)
<1>1. PICK m : m = app.sends[k]
  OBVIOUS
<1>2. /\ req[m] = "idle"
      /\ req' = [req EXCEPT ![m] = IF m \in Requests THEN "waiting" ELSE "sent"]
      /\ outbox' = Append(outbox, [id |-> m, tried |-> 0])
      /\ UNCHANGED <<ready, unacked, work, buffers, batches, stuck, replies, gone, answer,
                     replied, served>>
  BY <1>1 DEF Publish
<1>3. m \in Messages
  BY <1>1, DeliveryAssumption DEF ConsumersInv, ConsumerTypes
<1>4. /\ req' \in [Messages -> States] /\ req'[m] # "idle"
      /\ \A x \in Messages : req[x] # "idle" => req'[x] # "idle"
      /\ \A x \in Messages \ {m} : req'[x] = req[x]
  BY <1>2, <1>3 DEF RequestInv, MessageTypes, States
<1>5. /\ Sent \subseteq Sent' /\ Heard \subseteq Heard' /\ Queued \subseteq Queued'
      /\ Delivered \subseteq Delivered' /\ Worked \subseteq Worked' /\ Batch \subseteq Batch'
      /\ Seq(Queued) \subseteq Seq(Queued')
  <2>1. MessageTypes /\ served' \in [Messages -> Nat] /\ \A x \in Messages : served'[x] >= served[x]
    BY <1>2 DEF RequestInv, MessageTypes
  <2> QED BY <1>4, <2>1, Monotone
<1>6. outbox' \in Seq(Queued')
  <2>1. [id |-> m, tried |-> 0] \in Queued'
    BY <1>3, <1>4 DEF Queued
  <2>2. outbox \in Seq(Queued')
    BY <1>5 DEF RequestInv, MessageTypes
  <2> QED BY <1>2, <2>1, <2>2, AppendProperties
<1>7. MessageTypes'
  BY <1>2, <1>4, <1>5, <1>6 DEF RequestInv, MessageTypes
<1>8. Answered'
  BY <1>2, <1>3, <1>4 DEF RequestInv, Answered, MessageTypes, Messages
<1>9. [Promise!Next]_(Promise!vars)
  <2>1. CASE m \in Requests
    <3>1. Promise!Send(m)
      BY <1>2, <1>3, <2>1 DEF Promise!Send, RequestInv, MessageTypes, Messages
    <3> QED BY <2>1, <3>1 DEF Promise!Next
  <2>2. CASE m \notin Requests
    BY <1>2, <1>4, <2>2 DEF Promise!vars, Messages
  <2> QED BY <2>1, <2>2
<1> QED BY <1>7, <1>8, <1>9 DEF RequestInv

\* A step that changes neither the callers' side nor what was served stutters.
LEMMA PromiseStutters ==
  ASSUME UNCHANGED <<req, served>>,
         \A r \in Requests : req[r] = "answered" => answer'[r] = answer[r]
  PROVE  UNCHANGED Promise!vars
  BY DEF Promise!vars

LEMMA Transmitted ==
  ASSUME ConsumersInv, RequestInv, bound \subseteq bound', NEW k \in DOMAIN outbox, NEW confirmed \in BOOLEAN,
         Transmit(k, confirmed)
  PROVE  RequestInv' /\ [Promise!Next]_(Promise!vars)
<1>1. /\ outbox' = IF confirmed THEN RemoveAt(outbox, k) ELSE [outbox EXCEPT ![k].tried = up]
      /\ UNCHANGED <<unacked, work, buffers, batches, stuck, replies, req, answer, replied, served>>
  BY DEF Transmit, requestVars
<1>2. outbox \in Seq(Queued) /\ up \in Nat /\ ready \subseteq Sent /\ gone \subseteq Messages
  BY DEF ConsumersInv, ConsumerTypes, RequestInv, MessageTypes
<1>3. PICK o : o = outbox[k]
  OBVIOUS
<1>4. o \in Queued
  BY <1>2, <1>3
<1>5. outbox' \in Seq(Queued)
  <2>1. CASE confirmed
    BY <1>1, <1>2, <2>1, RemoveAtLeaves
  <2>2. CASE ~confirmed
    <3>1. [o EXCEPT !.tried = up] \in Queued
      BY <1>2, <1>4 DEF Queued
    <3>2. outbox' = [outbox EXCEPT ![k] = [o EXCEPT !.tried = up]]
      BY <1>1, <1>3, <2>2
    <3> QED BY <1>2, <3>1, <3>2, ExceptSeq
  <2> QED BY <2>1, <2>2
<1>6. ready' \subseteq Sent /\ gone' \subseteq Messages
  <2>1. /\ o.id \in Messages /\ req[o.id] # "idle"
    BY <1>4 DEF Queued
  <2>2. Routed(o.id) => Message(o.id, IF o.id \in Requests THEN up ELSE 0) \in Sent
    BY <1>2, <2>1 DEF Message, Sent
  <2>3. \/ /\ Routed(o.id)
           /\ ready' = ready \cup {Message(o.id, IF o.id \in Requests THEN up ELSE 0)}
           /\ gone' = gone
        \/ gone' = gone \cup {o.id} /\ ready' = ready
    BY <1>3 DEF Transmit
  <2> QED BY <1>2, <2>1, <2>2, <2>3
<1>7. RequestInv'
  BY <1>1, <1>5, <1>6, Moved DEF RequestInv, MessageTypes
<1> QED BY <1>1, <1>7, PromiseStutters

LEMMA Arrived ==
  ASSUME RequestInv, bound \subseteq bound', NEW p \in replies, ReplyArrives(p)
  PROVE  RequestInv' /\ [Promise!Next]_(Promise!vars)
<1>1. /\ replies' = replies \ {p}
      /\ replied' = replied \cup Correlated(p.id)
      /\ answer' = [r \in Requests |-> IF r \in Correlated(p.id) THEN p.id ELSE answer[r]]
      /\ UNCHANGED <<outbox, ready, unacked, work, buffers, batches, stuck, gone, req, served>>
  BY DEF ReplyArrives
<1>2. \A r \in Correlated(p.id) : r \in Requests /\ r = p.id /\ req[r] = "waiting" /\ served[r] > 0
  BY DEF Correlated, RequestInv, MessageTypes, Heard
<1>3. answer' \in [Requests -> Requests \cup {NoAnswer}]
  BY <1>1, <1>2 DEF RequestInv, MessageTypes
<1>4. /\ MessageTypes /\ req' \in [Messages -> States] /\ served' \in [Messages -> Nat]
      /\ \A m \in Messages : req[m] # "idle" => req'[m] # "idle"
      /\ \A m \in Messages : served'[m] >= served[m]
  BY <1>1 DEF RequestInv, MessageTypes
<1>5. /\ Sent \subseteq Sent' /\ Heard \subseteq Heard' /\ Delivered \subseteq Delivered'
      /\ Worked \subseteq Worked' /\ Batch \subseteq Batch' /\ Seq(Queued) \subseteq Seq(Queued')
  BY <1>4, Monotone
<1>7. MessageTypes'
  BY <1>1, <1>3, <1>5 DEF RequestInv, MessageTypes
<1>8. Answered'
  BY <1>1, <1>2 DEF RequestInv, Answered
<1>9. UNCHANGED Promise!vars
  BY <1>1, <1>2, PromiseStutters
<1> QED BY <1>7, <1>8, <1>9 DEF RequestInv

LEMMA Finished ==
  ASSUME RequestInv, bound \subseteq bound', NEW r \in Requests, RequestDone(r) \/ RequestTimesOut(r)
  PROVE  RequestInv' /\ [Promise!Next]_(Promise!vars)
<1>1. /\ req[r] = "waiting"
      /\ \/ r \in replied /\ req' = [req EXCEPT ![r] = "answered"]
         \/ req' = [req EXCEPT ![r] = "failed"]
      /\ UNCHANGED <<outbox, ready, unacked, work, buffers, batches, stuck, replies, gone, answer,
                     replied, served>>
  BY DEF RequestDone, RequestTimesOut
<1>2. /\ req' \in [Messages -> States] /\ r \in Messages
      /\ \A x \in Messages : req[x] # "idle" => req'[x] # "idle"
      /\ \A x \in Requests : req'[x] # "sent"
  BY <1>1 DEF RequestInv, MessageTypes, States, Answered, Messages
<1>3. /\ Sent \subseteq Sent' /\ Heard \subseteq Heard' /\ Queued \subseteq Queued'
      /\ Delivered \subseteq Delivered' /\ Worked \subseteq Worked' /\ Batch \subseteq Batch'
      /\ Seq(Queued) \subseteq Seq(Queued')
  <2>1. MessageTypes /\ served' \in [Messages -> Nat] /\ \A x \in Messages : served'[x] >= served[x]
    BY <1>1 DEF RequestInv, MessageTypes
  <2> QED BY <1>2, <2>1, Monotone
<1>4. MessageTypes'
  BY <1>1, <1>2, <1>3 DEF RequestInv, MessageTypes
<1>5. Answered'
  BY <1>1, <1>2 DEF RequestInv, Answered
<1>6. [Promise!Next]_(Promise!vars)
  <2>t. /\ req \in [Messages -> States] /\ Requests \subseteq Messages
        /\ r \in replied => answer[r] = r /\ served[r] > 0
    BY DEF RequestInv, MessageTypes, Answered, Messages
  <2>1. CASE r \in replied /\ req' = [req EXCEPT ![r] = "answered"]
    <3>1. Promise!Answer(r)
      BY <1>1, <2>t, <2>1 DEF Promise!Answer
    <3> QED BY <3>1 DEF Promise!Next
  <2>2. CASE req' = [req EXCEPT ![r] = "failed"]
    <3>1. Promise!Fail({r})
      BY <1>1, <2>t, <2>2 DEF Promise!Fail
    <3> QED BY <3>1 DEF Promise!Next
  <2> QED BY <1>1, <2>1, <2>2
<1> QED BY <1>4, <1>5, <1>6 DEF RequestInv


\* Handlers that were through with S: the calls among them are served once more.
LEMMA RanServes ==
  ASSUME RequestInv, bound \subseteq bound', NEW S, \A d \in S : d \in Delivered, Ran(S),
         UNCHANGED <<req, answer, replied>>
  PROVE  /\ served' \in [Messages -> Nat] /\ \A m \in Messages : served'[m] >= served[m]
         /\ \A d \in S : served'[d.msg.id] > 0
         /\ [Promise!Next]_(Promise!vars)
         /\ Sent \subseteq Sent' /\ Heard \subseteq Heard' /\ Queued \subseteq Queued'
         /\ Delivered \subseteq Delivered' /\ Worked \subseteq Worked' /\ Batch \subseteq Batch'
         /\ Seq(Queued) \subseteq Seq(Queued') /\ Answered'
<1>t. /\ MessageTypes /\ served \in [Messages -> Nat] /\ req \in [Messages -> States]
      /\ Requests \subseteq Messages
  BY DEF RequestInv, MessageTypes, Messages
<1>1. PICK T : T = {m \in Messages : \E d \in S : d.msg.id = m}
  OBVIOUS
<1>2. served' = [m \in Messages |-> IF m \in T THEN served[m] + 1 ELSE served[m]]
  BY <1>1 DEF Ran
<1>3. \A d \in S : d.msg.id \in T
  BY <1>1 DEF Delivered, Sent
<1>4. \A m \in T : req[m] # "idle" /\ m \in Messages
  BY <1>1 DEF Delivered, Sent
<1>5. /\ served' \in [Messages -> Nat] /\ \A m \in Messages : served'[m] >= served[m]
      /\ \A m \in T : served'[m] > 0
  BY <1>t, <1>2, <1>4
<1>6. [Promise!Next]_(Promise!vars)
  <2>1. Promise!Serve(T \cap Requests)
    BY <1>t, <1>2, <1>4 DEF Promise!Serve
  <2> QED BY <2>1 DEF Promise!Next
<1>7. /\ Sent \subseteq Sent' /\ Heard \subseteq Heard' /\ Queued \subseteq Queued'
      /\ Delivered \subseteq Delivered' /\ Worked \subseteq Worked' /\ Batch \subseteq Batch'
      /\ Seq(Queued) \subseteq Seq(Queued')
  BY <1>t, <1>5, Monotone
<1>8. Answered'
  BY <1>t, <1>5 DEF RequestInv, Answered
<1> QED BY <1>3, <1>5, <1>6, <1>7, <1>8

\* What the broker is told moves deliveries back to their queue or out of sight.
LEMMA Told ==
  ASSUME RequestInv, NEW msgs \in Seq(Delivered), NEW v, Tell(msgs, v)
  PROVE  unacked' \subseteq Delivered /\ ready' \subseteq Sent /\ gone' \subseteq Messages
<1>1. \A d \in Decided(msgs) : d \in Delivered /\ d.msg \in Sent /\ d.msg.id \in Messages
  <2>1. \A d \in Decided(msgs) : d \in Delivered
    BY DEF Decided
  <2> QED BY <2>1 DEF Delivered, Sent
<1>2. /\ unacked \subseteq Delivered /\ ready \subseteq Sent /\ gone \subseteq Messages
  BY DEF RequestInv, MessageTypes
<1>3. /\ unacked' = unacked \ Decided(msgs)
      /\ ready' = IF v = "requeue" THEN ready \cup {d.msg : d \in Decided(msgs)} ELSE ready
      /\ gone' = IF v = "requeue" THEN gone ELSE gone \cup {d.msg.id : d \in Decided(msgs)}
  BY DEF Tell
<1> QED BY <1>1, <1>2, <1>3

LEMMA WorkIs ==
  ASSUME RequestInv, NEW w \in work
  PROVE  /\ w \in Worked /\ w.d \in Delivered /\ <<w.d>> \in Seq(Delivered)
         /\ w.d.msg \in Sent /\ w.d.by \in EntryType /\ w.d.msg.id \in Messages
         /\ w.at # "handler" => served[w.d.msg.id] > 0
  BY DEF RequestInv, MessageTypes, Worked, Delivered, Sent

LEMMA HandlerFinished ==
  ASSUME RequestInv, bound \subseteq bound', NEW w \in work, NEW v, HandlerDone(w, v)
  PROVE  RequestInv' /\ [Promise!Next]_(Promise!vars)
<1>1. /\ w.at = "handler" /\ Ran({w.d})
      /\ \/ /\ work' = (work \ {w}) \cup {[w EXCEPT !.at = "reply"]}
            /\ UNCHANGED <<unacked, ready, gone>>
         \/ Tell(<<w.d>>, v) /\ work' = work \ {w}
         \/ work' = work \ {w} /\ UNCHANGED <<unacked, ready, gone>>
      /\ UNCHANGED <<outbox, buffers, batches, stuck, replies, req, answer, replied>>
  BY DEF HandlerDone, requestVars
<1>2. /\ w \in Worked /\ w.d \in Delivered /\ <<w.d>> \in Seq(Delivered) /\ work \subseteq Worked
  BY WorkIs DEF RequestInv, MessageTypes
<1>3. /\ served' \in [Messages -> Nat] /\ served'[w.d.msg.id] > 0
      /\ [Promise!Next]_(Promise!vars)
      /\ Sent \subseteq Sent' /\ Heard \subseteq Heard'
      /\ Delivered \subseteq Delivered' /\ Worked \subseteq Worked' /\ Batch \subseteq Batch'
      /\ Seq(Queued) \subseteq Seq(Queued') /\ Answered'
  <2>1. \A d \in {w.d} : d \in Delivered
    BY <1>2
  <2>2. w.d \in {w.d}
    OBVIOUS
  <2> QED BY <1>1, <2>1, <2>2, RanServes
<1>4. unacked' \subseteq Delivered /\ ready' \subseteq Sent /\ gone' \subseteq Messages
  <2>1. CASE Tell(<<w.d>>, v)
    BY <1>2, <2>1, Told
  <2>2. CASE UNCHANGED <<unacked, ready, gone>>
    BY <2>2 DEF RequestInv, MessageTypes
  <2> QED BY <1>1, <2>1, <2>2
<1>5. work' \subseteq Worked'
  <2>1. PICK x : x = [w EXCEPT !.at = "reply"]
    OBVIOUS
  <2>2. w \in [d : Delivered, at : {"handler", "reply", "ack"}]
    BY <1>2 DEF Worked
  <2>3. x = [d |-> w.d, at |-> "reply"]
    BY <2>1, <2>2
  <2>4. x \in Worked'
    BY <1>2, <1>3, <2>3 DEF Worked
  <2>5. work' \subseteq work \cup {x}
    BY <1>1, <2>1
  <2> QED BY <1>2, <1>3, <2>4, <2>5
<1>6. MessageTypes'
  BY <1>1, <1>3, <1>4, <1>5 DEF RequestInv, MessageTypes
<1> QED BY <1>3, <1>6 DEF RequestInv

LEMMA Replied ==
  ASSUME RequestInv, bound \subseteq bound', NEW w \in work, ReplySent(w)
  PROVE  RequestInv' /\ [Promise!Next]_(Promise!vars)
<1>1. /\ w.at = "reply"
      /\ work' = (work \ {w}) \cup {[w EXCEPT !.at = "ack"]}
      /\ replies' = (IF w.d.msg.via = direct THEN replies \cup {w.d.msg} ELSE replies)
      /\ UNCHANGED <<outbox, ready, unacked, buffers, batches, stuck, gone, req, answer, replied,
                     served>>
  BY DEF ReplySent, requestVars
<1>2. /\ w \in Worked /\ w.d.msg \in Sent /\ served[w.d.msg.id] > 0 /\ w.d \in Delivered
      /\ work \subseteq Worked /\ replies \subseteq Heard
  BY <1>1, WorkIs DEF RequestInv, MessageTypes
<1>3. w.d.msg \in Heard
  BY <1>2 DEF Heard
<1>4. [w EXCEPT !.at = "ack"] \in Worked
  <2>1. PICK x : x = [w EXCEPT !.at = "ack"]
    OBVIOUS
  <2>2. w \in [d : Delivered, at : {"handler", "reply", "ack"}]
    BY <1>2 DEF Worked
  <2>3. x = [d |-> w.d, at |-> "ack"]
    BY <2>1, <2>2
  <2>4. x \in Worked
    BY <1>2, <2>3 DEF Worked
  <2> QED BY <2>1, <2>4
<1>5. work' \subseteq Worked /\ replies' \subseteq Heard
  BY <1>1, <1>2, <1>3, <1>4
<1>6. RequestInv'
  BY <1>1, <1>5, Moved DEF RequestInv, MessageTypes
<1> QED BY <1>1, <1>6, PromiseStutters

LEMMA Acknowledged ==
  ASSUME RequestInv, bound \subseteq bound', NEW w \in work, Acknowledge(w)
  PROVE  RequestInv' /\ [Promise!Next]_(Promise!vars)
<1>1. /\ work' = work \ {w}
      /\ Tell(<<w.d>>, "ack") \/ UNCHANGED <<unacked, ready, gone>>
      /\ UNCHANGED <<outbox, buffers, batches, stuck, replies, req, answer, replied, served>>
  BY DEF Acknowledge, requestVars
<1>2. <<w.d>> \in Seq(Delivered)
  BY WorkIs
<1>3. unacked' \subseteq Delivered /\ ready' \subseteq Sent /\ gone' \subseteq Messages
  <2>1. CASE Tell(<<w.d>>, "ack")
    BY <1>2, <2>1, Told
  <2>2. CASE UNCHANGED <<unacked, ready, gone>>
    BY <2>2 DEF RequestInv, MessageTypes
  <2> QED BY <1>1, <2>1, <2>2
<1>4. RequestInv'
  BY <1>1, <1>3, Moved DEF RequestInv, MessageTypes
<1> QED BY <1>1, <1>4, PromiseStutters

LEMMA BatchIs ==
  ASSUME RequestInv, NEW b \in buffers \cup batches
  PROVE  /\ b \in Batch /\ b.by \in EntryType /\ b.msgs \in Seq(Delivered) /\ b.full \in BOOLEAN
         /\ Len(b.msgs) \in Nat \ {0} /\ DOMAIN b.msgs = 1 .. Len(b.msgs)
         /\ b.msgs[1] \in Delivered /\ b.msgs[Len(b.msgs)] \in Delivered
         /\ InBatch(b) \subseteq Delivered /\ \A d \in InBatch(b) : d.by = b.by
         /\ b.msgs[1] \in InBatch(b) /\ b.msgs[Len(b.msgs)] \in InBatch(b)
<1>1. /\ b \in Batch /\ b.by \in EntryType /\ b.msgs \in Seq(Delivered) /\ b.full \in BOOLEAN
      /\ Len(b.msgs) > 0 /\ \A k \in DOMAIN b.msgs : b.msgs[k].by = b.by
  BY DEF RequestInv, MessageTypes, Batch
<1>2. PICK n : n = Len(b.msgs)
  OBVIOUS
<1>3. n \in Nat /\ n > 0 /\ DOMAIN b.msgs = 1 .. n
  BY <1>1, <1>2
<1>4. 1 \in 1 .. n /\ n \in 1 .. n
  BY <1>3
<1>5. InBatch(b) \subseteq Delivered /\ \A d \in InBatch(b) : d.by = b.by
  BY <1>1 DEF InBatch
<1>6. b.msgs[1] \in InBatch(b) /\ b.msgs[n] \in InBatch(b)
  BY <1>3, <1>4 DEF InBatch
<1> QED BY <1>1, <1>2, <1>3, <1>5, <1>6

LEMMA Due ==
  ASSUME RequestInv, bound \subseteq bound', NEW b \in buffers, BatchDue(b)
  PROVE  RequestInv' /\ [Promise!Next]_(Promise!vars)
<1>1. /\ buffers' = buffers \ {b} /\ batches' = batches \cup {b}
      /\ UNCHANGED <<outbox, ready, unacked, work, stuck, replies, gone, req, answer, replied, served>>
  BY DEF BatchDue, requestVars
<1>2. RequestInv'
  BY <1>1, Moved DEF RequestInv, MessageTypes
<1> QED BY <1>1, <1>2, PromiseStutters

LEMMA BatchFinished ==
  ASSUME RequestInv, bound \subseteq bound', NEW b \in batches, NEW v, BatchDone(b, v)
  PROVE  RequestInv' /\ [Promise!Next]_(Promise!vars)
<1>1. /\ batches' = batches \ {b} /\ Ran(InBatch(b))
      /\ \/ Tell(b.msgs, v) /\ UNCHANGED stuck
         \/ stuck' = stuck \cup {b.msgs[1]} /\ UNCHANGED <<unacked, ready, gone>>
      /\ UNCHANGED <<outbox, work, buffers, replies, req, answer, replied>>
  BY DEF BatchDone, requestVars
<1>2. b.msgs \in Seq(Delivered) /\ b.msgs[1] \in Delivered /\ InBatch(b) \subseteq Delivered
  BY BatchIs
<1>3. /\ served' \in [Messages -> Nat]
      /\ [Promise!Next]_(Promise!vars)
      /\ Sent \subseteq Sent' /\ Heard \subseteq Heard'
      /\ Delivered \subseteq Delivered' /\ Worked \subseteq Worked' /\ Batch \subseteq Batch'
      /\ Seq(Queued) \subseteq Seq(Queued') /\ Answered'
  <2>1. \A d \in InBatch(b) : d \in Delivered
    BY <1>2
  <2> QED BY <1>1, <2>1, RanServes
<1>4. unacked' \subseteq Delivered /\ ready' \subseteq Sent /\ gone' \subseteq Messages
  <2>1. CASE Tell(b.msgs, v)
    BY <1>2, <2>1, Told
  <2>2. CASE UNCHANGED <<unacked, ready, gone>>
    BY <2>2 DEF RequestInv, MessageTypes
  <2> QED BY <1>1, <2>1, <2>2
<1>5. stuck' \subseteq Delivered
  BY <1>1, <1>2 DEF RequestInv, MessageTypes
<1>6. MessageTypes'
  BY <1>1, <1>3, <1>4, <1>5 DEF RequestInv, MessageTypes
<1> QED BY <1>3, <1>6 DEF RequestInv

LEMMA DeliveredOne ==
  ASSUME ConsumersInv, RequestInv, bound \subseteq bound', NEW c \in consumers, NEW m \in ready, Deliver(c, m)
  PROVE  RequestInv' /\ [Promise!Next]_(Promise!vars)
<1>1. PICK d : d = [msg |-> m, by |-> c]
  OBVIOUS
<1>2. /\ c \in EntryType /\ m \in Sent /\ m.id \in Messages
      /\ unacked \subseteq Delivered /\ work \subseteq Worked /\ buffers \subseteq Batch
      /\ batches \subseteq Batch /\ ready \subseteq Sent /\ gone \subseteq Messages
  BY DEF ConsumersInv, ConsumerTypes, RequestInv, MessageTypes, Sent
<1>3. d \in Delivered /\ d.by = c
  BY <1>1, <1>2 DEF Delivered
<1>4. /\ ready' = ready \ {m}
      /\ UNCHANGED <<outbox, stuck, replies, req, answer, replied, served>>
  BY DEF Deliver, requestVars
<1>5. /\ unacked' \subseteq Delivered /\ work' \subseteq Worked /\ buffers' \subseteq Batch
      /\ batches' \subseteq Batch /\ gone' \subseteq Messages
  <2>1. CASE gone' = gone \cup {m.id} /\ UNCHANGED <<unacked, work, buffers, batches>>
    BY <1>2, <2>1
  <2>2. CASE /\ work' = work \cup {[d |-> d, at |-> "handler"]} /\ unacked' = unacked \cup {d}
             /\ UNCHANGED <<gone, buffers, batches>>
    <3>1. [d |-> d, at |-> "handler"] \in Worked
      BY <1>3 DEF Worked
    <3> QED BY <1>2, <1>3, <2>2, <3>1
  <2>3. CASE /\ buffers' = buffers \cup {[by |-> c, msgs |-> <<d>>, full |-> FALSE]}
             /\ unacked' = unacked \cup {d} /\ UNCHANGED <<gone, work, batches>>
    <3>1. /\ <<d>> \in Seq(Delivered) /\ Len(<<d>>) > 0 /\ \A k \in DOMAIN <<d>> : <<d>>[k].by = c
      BY <1>3
    <3>2. [by |-> c, msgs |-> <<d>>, full |-> FALSE] \in Batch
      BY <1>2, <3>1 DEF Batch
    <3> QED BY <1>2, <1>3, <2>3, <3>2
  <2>4. CASE \E b \in {x \in buffers : x.by = c} :
                /\ unacked' = unacked \cup {d}
                /\ \/ /\ buffers' = buffers \ {b}
                      /\ batches' = batches \cup {[b EXCEPT !.msgs = Append(b.msgs, d), !.full = TRUE]}
                   \/ /\ buffers' = (buffers \ {b}) \cup {[b EXCEPT !.msgs = Append(b.msgs, d)]}
                      /\ UNCHANGED batches
                /\ UNCHANGED <<gone, work>>
    <3>1. PICK b \in buffers :
                /\ b.by = c /\ unacked' = unacked \cup {d}
                /\ \/ /\ buffers' = buffers \ {b}
                      /\ batches' = batches \cup {[b EXCEPT !.msgs = Append(b.msgs, d), !.full = TRUE]}
                   \/ /\ buffers' = (buffers \ {b}) \cup {[b EXCEPT !.msgs = Append(b.msgs, d)]}
                      /\ UNCHANGED batches
                /\ UNCHANGED <<gone, work>>
      BY <2>4
    <3>2. /\ b \in [by : EntryType, msgs : Seq(Delivered), full : BOOLEAN]
          /\ b.msgs \in Seq(Delivered) /\ \A k \in DOMAIN b.msgs : b.msgs[k].by = c
      BY <1>2, <3>1 DEF Batch
    <3>3. PICK more : more = Append(b.msgs, d)
      OBVIOUS
    <3>4. more \in Seq(Delivered) /\ Len(more) > 0 /\ \A k \in DOMAIN more : more[k].by = c
      BY <1>3, <3>2, <3>3, AppendProperties
    <3>5. \A full \in BOOLEAN : [by |-> c, msgs |-> more, full |-> full] \in Batch
      BY <1>2, <3>4 DEF Batch
    <3>6. b = [by |-> c, msgs |-> b.msgs, full |-> b.full] /\ b.full \in BOOLEAN
      BY <3>1, <3>2
    <3>7. [b EXCEPT !.msgs = more, !.full = TRUE] = [by |-> c, msgs |-> more, full |-> TRUE]
      <4>1. PICK yes : yes = TRUE
        OBVIOUS
      <4>2. [b EXCEPT !.msgs = more, !.full = yes] = [[b EXCEPT !.msgs = more] EXCEPT !.full = yes]
        OBVIOUS
      <4>3. [b EXCEPT !.msgs = more] = [by |-> c, msgs |-> more, full |-> b.full]
        BY <3>6
      <4>4. \A f : [[by |-> c, msgs |-> more, full |-> f] EXCEPT !.full = yes]
                   = [by |-> c, msgs |-> more, full |-> yes]
        OBVIOUS
      <4>5. [b EXCEPT !.msgs = more, !.full = yes]
            = [[by |-> c, msgs |-> more, full |-> b.full] EXCEPT !.full = yes]
        BY <4>2, <4>3
      <4>6. [b EXCEPT !.msgs = more, !.full = yes] = [by |-> c, msgs |-> more, full |-> yes]
        BY <4>4, <4>5
      <4> QED BY <4>1, <4>6
    <3>8. [b EXCEPT !.msgs = more] = [by |-> c, msgs |-> more, full |-> b.full]
      BY <3>6
    <3> QED BY <1>2, <1>3, <3>1, <3>3, <3>5, <3>6, <3>7, <3>8
  <2> QED BY <1>1, <2>1, <2>2, <2>3, <2>4 DEF Deliver
<1>6. RequestInv'
  BY <1>2, <1>4, <1>5, Moved DEF RequestInv, MessageTypes
<1> QED BY <1>4, <1>6, PromiseStutters


\* Losing the channel, or closing it, sends back what was not acknowledged.
LEMMA Returns ==
  ASSUME RequestInv
  PROVE  Returned \subseteq Sent
  BY DEF RequestInv, MessageTypes, Delivered, Returned

LEMMA Lost ==
  ASSUME RequestInv, bound \subseteq bound', ChannelLost
  PROVE  RequestInv' /\ [Promise!Next]_(Promise!vars)
<1>1. /\ ready' = ready \cup Returned /\ unacked' = {} /\ replies' = {}
      /\ UNCHANGED <<outbox, work, buffers, batches, stuck, gone, req, answer, replied, served>>
  BY DEF ChannelLost, Redelivered
<1>2. RequestInv'
  BY <1>1, Returns, Moved DEF RequestInv, MessageTypes
<1> QED BY <1>1, <1>2, PromiseStutters

LEMMA ClosedAll ==
  ASSUME RequestInv, bound \subseteq bound', CloseDone
  PROVE  RequestInv' /\ [Promise!Next]_(Promise!vars)
<1>1. PICK F : F = {m \in Messages : req[m] = "waiting" /\ (m \notin replied \/ m \in Unconfirmed)}
  OBVIOUS
<1>2. /\ ready' = ready \cup Returned /\ unacked' = {} /\ replies' = {} /\ outbox' = <<>>
      /\ req' = [m \in Messages |-> IF m \in F THEN "failed" ELSE req[m]]
      /\ UNCHANGED <<work, buffers, batches, stuck, gone, answer, replied, served>>
  BY <1>1 DEF CloseDone, Redelivered
<1>3. /\ req' \in [Messages -> States] /\ \A m \in F : req[m] = "waiting"
      /\ \A x \in Messages : req[x] # "idle" => req'[x] # "idle"
      /\ \A x \in Requests : req'[x] # "sent"
  BY <1>1, <1>2 DEF RequestInv, MessageTypes, States, Answered, Messages
<1>4. /\ Sent \subseteq Sent' /\ Heard \subseteq Heard' /\ Queued \subseteq Queued'
      /\ Delivered \subseteq Delivered' /\ Worked \subseteq Worked' /\ Batch \subseteq Batch'
      /\ Seq(Queued) \subseteq Seq(Queued')
  <2>1. MessageTypes /\ served' \in [Messages -> Nat] /\ \A x \in Messages : served'[x] >= served[x]
    BY <1>2 DEF RequestInv, MessageTypes
  <2> QED BY <1>3, <2>1, Monotone
<1>5. MessageTypes'
  <2>1. ready' \subseteq Sent'
    BY <1>2, <1>4, Returns DEF RequestInv, MessageTypes
  <2>2. outbox' \in Seq(Queued')
    BY <1>2
  <2> QED BY <1>2, <1>3, <1>4, <2>1, <2>2 DEF RequestInv, MessageTypes
<1>6. Answered'
  BY <1>2, <1>3 DEF RequestInv, Answered
<1>7. Promise!Fail(F \cap Requests)
  <2>1. Requests \subseteq Messages
    BY DEF Messages
  <2> QED BY <1>2, <1>3, <2>1 DEF Promise!Fail
<1> QED BY <1>5, <1>6, <1>7 DEF RequestInv, Promise!Next

\* What the consumers do, and close() when it starts to wait, moves no message.
LEMMA Untouched ==
  ASSUME RequestInv, bound \subseteq bound', (UNCHANGED messageVars) \/ Close
  PROVE  RequestInv' /\ [Promise!Next]_(Promise!vars)
<1>1. UNCHANGED <<outbox, ready, unacked, work, buffers, batches, stuck, replies, gone, req, answer,
                  replied, served>>
  BY DEF messageVars, Close, requestVars
<1>2. RequestInv'
  BY <1>1, Moved DEF RequestInv, MessageTypes
<1> QED BY <1>1, <1>2, PromiseStutters

LEMMA RequestNext ==
  ConsumersInv /\ RequestInv /\ [Next]_vars => RequestInv' /\ [Promise!Next]_(Promise!vars)
<1> SUFFICES ASSUME ConsumersInv, RequestInv, [Next]_vars
             PROVE  RequestInv' /\ [Promise!Next]_(Promise!vars)
  OBVIOUS
<1>0. bound \subseteq bound'
  BY BoundGrows
<1>1. CASE (ConsumerStep /\ UNCHANGED messageVars) \/ Close \/ UNCHANGED vars
  BY <1>0, <1>1, Untouched DEF vars
<1>2. CASE \E w \in work : ReplySent(w) \/ Acknowledge(w) \/ \E v \in Verdicts : HandlerDone(w, v)
  BY <1>0, <1>2, Replied, Acknowledged, HandlerFinished
<1>3. CASE \E b \in buffers : BatchDue(b)
  BY <1>0, <1>3, Due
<1>4. CASE \E b \in batches, v \in Verdicts : BatchDone(b, v)
  BY <1>0, <1>4, BatchFinished
<1>5. CASE CloseDone \/ ChannelLost
  BY <1>0, <1>5, ClosedAll, Lost
<1>6. CASE \E k \in DOMAIN app.sends : Publish(k)
  BY <1>0, <1>6, Published
<1>7. CASE \E k \in DOMAIN outbox, confirmed \in BOOLEAN : Transmit(k, confirmed)
  BY <1>0, <1>7, Transmitted
<1>8. CASE \E p \in replies : ReplyArrives(p)
  BY <1>0, <1>8, Arrived
<1>9. CASE \E r \in Requests : RequestDone(r) \/ RequestTimesOut(r)
  BY <1>0, <1>9, Finished
<1>10. CASE \E c \in consumers, m \in ready : Deliver(c, m)
  BY <1>0, <1>10, DeliveredOne
<1> QED BY <1>1, <1>2, <1>3, <1>4, <1>5, <1>6, <1>7, <1>8, <1>9, <1>10 DEF Next, Processing

\* request() keeps what RequestReply promises, for any connection: a reply reaches the
\* caller it answers or nobody, after a handler has run, and a call settles once,
\* with redeliveries, batches, timeouts and close() in any order (420-465).
THEOREM RequestsKeepPromise == Spec => RpcPromise
<1>1. Init => ConsumersInv /\ RequestInv
  BY ConsumersStart, MessagesStart DEF Init
<1>2. ConsumersInv /\ RequestInv /\ [Next]_vars => (ConsumersInv /\ RequestInv)'
  BY ConsumersNext, RequestNext
<1>3. Init => Promise!Init
  BY DEF Init, Promise!Init, Messages
<1>4. ConsumersInv /\ RequestInv /\ [Next]_vars => [Promise!Next]_(Promise!vars)
  BY RequestNext
<1> QED BY <1>1, <1>2, <1>3, <1>4, PTL DEF Spec, RpcPromise, Promise!Spec


-----------------------------------------------------------------------------
(* The messages: none is forgotten *)

\* A message that was sent waits to be confirmed, waits in its queue or was given to
\* a consumer, unless a handler's verdict or the broker has disposed of it.
Remembered ==
    /\ \A m \in Messages : req[m] # "idle" /\ m \notin gone /\ closing # "done" =>
          m \in Unconfirmed \/ \E x \in ready \cup {d.msg : d \in unacked} : x.id = m
    /\ closing = "done" => awaited = {}

\* What the broker waits to hear about came on the live channel, and is in hand.
InHand ==
    /\ unacked \subseteq {w.d : w \in work} \cup UNION {InBatch(b) : b \in buffers \cup batches}
    /\ \A d \in unacked : up # 0 /\ d.by.ch = up

\* A buffer is never full; it becomes a batch before that.
Sized ==
    /\ \A b \in buffers : Len(b.msgs) < BatchSize
    /\ \A b \in batches : Len(b.msgs) <= BatchSize

AccountInv == Remembered /\ InHand /\ Sized

LEMMA RememberedKept ==
  ASSUME AccountInv, RequestInv,
         closing' = "done" => awaited' = {},
         closing = "done" => closing' = "done",
         gone \subseteq gone',
         \A m \in Messages : req'[m] # "idle" => req[m] # "idle" \/ m \in Unconfirmed',
         \A m \in Unconfirmed : \/ m \in Unconfirmed' \cup gone'
                                \/ \E x \in ready' : x.id = m,
         \A x \in ready : x \in ready' \/ x.id \in gone' \/ \E d \in unacked' : d.msg = x,
         \A d \in unacked : d \in unacked' \/ d.msg \in ready' \/ d.msg.id \in gone'
  PROVE  Remembered'
<1> SUFFICES ASSUME NEW m \in Messages, req'[m] # "idle", m \notin gone', closing' # "done"
             PROVE  m \in Unconfirmed' \/ \E x \in ready' \cup {d.msg : d \in unacked'} : x.id = m
  BY DEF Remembered
<1>1. CASE m \in Unconfirmed'
  BY <1>1
<1>2. CASE req[m] # "idle" /\ m \in Unconfirmed
  BY <1>2
<1>3. CASE req[m] # "idle" /\ \E x \in ready \cup {d.msg : d \in unacked} : x.id = m
  <2>1. PICK x \in ready \cup {d.msg : d \in unacked} : x.id = m
    BY <1>3
  <2>2. CASE x \in ready
    <3>1. x \in ready' \/ \E d \in unacked' : d.msg = x
      BY <2>1, <2>2
    <3> QED BY <2>1, <3>1
  <2>3. CASE \E d \in unacked : x = d.msg
    <3>1. PICK d \in unacked : x = d.msg
      BY <2>3
    <3>2. d \in unacked' \/ d.msg \in ready'
      BY <2>1, <3>1
    <3> QED BY <2>1, <3>1, <3>2
  <2> QED BY <2>1, <2>2, <2>3
<1> QED BY <1>1, <1>2, <1>3 DEF AccountInv, Remembered

LEMMA AccountStart == Init => AccountInv
BY DEF Init, AccountInv, Remembered, InHand, Sized

\* A promise that settles does not wake a connection that is closed.
LEMMA StaysClosed ==
  ASSUME AccountInv, NEW S, Resolved(S) \/ Rejected(S)
  PROVE  (closing' = "done" <=> closing = "done") /\ (closing' = "done" => awaited' = {})
  BY DEF AccountInv, Remembered, Resolved, Rejected

\* What the broker is told of, it has put back or forgotten.
LEMMA ToldOf ==
  ASSUME NEW msgs, NEW v, Tell(msgs, v)
  PROVE  /\ ready \subseteq ready' /\ gone \subseteq gone' /\ unacked' = unacked \ Decided(msgs)
         /\ \A d \in unacked : d \in unacked' \/ d.msg \in ready' \/ d.msg.id \in gone'
  BY DEF Tell

LEMMA AccountHandler ==
  ASSUME RequestInv, AccountInv, NEW w \in work, NEW v, HandlerDone(w, v)
  PROVE  AccountInv'
<1>1. PICK x : x = [w EXCEPT !.at = "reply"]
  OBVIOUS
<1>2. /\ \/ /\ work' = (work \ {w}) \cup {x}
            /\ UNCHANGED <<unacked, ready, gone, awaited, closing>>
         \/ /\ w.d.by.ch = up /\ Tell(<<w.d>>, v) /\ work' = work \ {w} /\ Resolved({w.d})
         \/ /\ w.d.by.ch # up /\ work' = work \ {w} /\ Rejected({w.d})
            /\ UNCHANGED <<unacked, ready, gone>>
      /\ UNCHANGED <<up, outbox, buffers, batches, req>>
  BY <1>1 DEF HandlerDone, consumerVars, requestVars
<1>3. x.d = w.d
  BY <1>1, WorkIs DEF Worked
<1>4. Decided(<<w.d>>) = {w.d}
  BY DEF Decided
<1>5. /\ closing = "done" => closing' = "done"
      /\ closing' = "done" => awaited' = {}
  BY <1>2, StaysClosed DEF AccountInv, Remembered
<1>6. Unconfirmed' = Unconfirmed
  BY <1>2 DEF Unconfirmed
<1>7. Remembered'
  <2>1. /\ ready \subseteq ready' /\ gone \subseteq gone'
        /\ \A d \in unacked : d \in unacked' \/ d.msg \in ready' \/ d.msg.id \in gone'
    BY <1>2, ToldOf
  <2> QED BY <1>2, <1>5, <1>6, <2>1, RememberedKept
<1>8. InHand'
  <2>1. UNION {InBatch(b) : b \in buffers \cup batches}' = UNION {InBatch(b) : b \in buffers \cup batches}
    BY <1>2 DEF InBatch
  <2>2. CASE work' = (work \ {w}) \cup {x} /\ unacked' = unacked
    BY <1>2, <1>3, <2>1, <2>2 DEF AccountInv, InHand
  <2>3. CASE work' = work \ {w} /\ unacked' = unacked \ {w.d}
    BY <1>2, <2>1, <2>3 DEF AccountInv, InHand
  <2>4. CASE w.d.by.ch # up /\ work' = work \ {w} /\ unacked' = unacked
    BY <1>2, <2>1, <2>4 DEF AccountInv, InHand
  <2> QED BY <1>2, <1>4, <2>2, <2>3, <2>4, ToldOf
<1>9. Sized'
  BY <1>2 DEF AccountInv, Sized
<1> QED BY <1>7, <1>8, <1>9 DEF AccountInv

LEMMA AccountReply ==
  ASSUME RequestInv, AccountInv, NEW w \in work, ReplySent(w)
  PROVE  AccountInv'
<1>1. PICK x : x = [w EXCEPT !.at = "ack"]
  OBVIOUS
<1>2. /\ work' = (work \ {w}) \cup {x}
      /\ UNCHANGED <<up, outbox, ready, unacked, buffers, batches, gone, req, closing, awaited>>
  BY <1>1 DEF ReplySent, consumerVars, requestVars
<1>3. x.d = w.d
  BY <1>1, WorkIs DEF Worked
<1>4. Unconfirmed' = Unconfirmed
  BY <1>2 DEF Unconfirmed
<1>5. Remembered'
  BY <1>2, <1>4 DEF AccountInv, Remembered
<1>6. InHand'
  BY <1>2, <1>3 DEF AccountInv, InHand, InBatch
<1> QED BY <1>2, <1>5, <1>6 DEF AccountInv, Sized

LEMMA AccountAck ==
  ASSUME RequestInv, AccountInv, NEW w \in work, Acknowledge(w)
  PROVE  AccountInv'
<1>1. /\ work' = work \ {w}
      /\ \/ w.d.by.ch = up /\ Tell(<<w.d>>, "ack") /\ Resolved({w.d})
         \/ w.d.by.ch # up /\ Rejected({w.d}) /\ UNCHANGED <<unacked, ready, gone>>
      /\ UNCHANGED <<up, outbox, buffers, batches, req>>
  BY DEF Acknowledge, consumerVars, requestVars
<1>2. Decided(<<w.d>>) = {w.d}
  BY DEF Decided
<1>3. /\ closing = "done" => closing' = "done"
      /\ closing' = "done" => awaited' = {}
  BY <1>1, StaysClosed
<1>4. Unconfirmed' = Unconfirmed
  BY <1>1 DEF Unconfirmed
<1>5. Remembered'
  <2>1. /\ ready \subseteq ready' /\ gone \subseteq gone'
        /\ \A d \in unacked : d \in unacked' \/ d.msg \in ready' \/ d.msg.id \in gone'
    BY <1>1, ToldOf
  <2> QED BY <1>1, <1>3, <1>4, <2>1, RememberedKept
<1>6. InHand'
  <2>1. UNION {InBatch(b) : b \in buffers \cup batches}' = UNION {InBatch(b) : b \in buffers \cup batches}
    BY <1>1 DEF InBatch
  <2>2. CASE unacked' = unacked \ {w.d}
    BY <1>1, <2>1, <2>2 DEF AccountInv, InHand
  <2>3. CASE w.d.by.ch # up /\ unacked' = unacked
    BY <1>1, <2>1, <2>3 DEF AccountInv, InHand
  <2> QED BY <1>1, <1>2, <2>2, <2>3, ToldOf
<1>7. Sized'
  BY <1>1 DEF AccountInv, Sized
<1> QED BY <1>5, <1>6, <1>7 DEF AccountInv

LEMMA AccountBatchDue ==
  ASSUME RequestInv, AccountInv, NEW b \in buffers, BatchDue(b)
  PROVE  AccountInv'
<1>1. /\ buffers' = buffers \ {b} /\ batches' = batches \cup {b}
      /\ UNCHANGED <<up, outbox, ready, unacked, work, gone, req, closing, awaited>>
  BY DEF BatchDue, consumerVars, requestVars
<1>2. Remembered'
  BY <1>1 DEF AccountInv, Remembered, Unconfirmed
<1>3. InHand'
  BY <1>1 DEF AccountInv, InHand, InBatch
<1>4. Sized'
  <2>1. Len(b.msgs) \in Nat /\ Len(b.msgs) < BatchSize /\ BatchSize \in Nat
    BY BatchIs, DeliveryAssumption DEF AccountInv, Sized
  <2> QED BY <1>1, <2>1 DEF AccountInv, Sized
<1> QED BY <1>2, <1>3, <1>4 DEF AccountInv

LEMMA AccountBatch ==
  ASSUME RequestInv, AccountInv, NEW b \in batches, NEW v, BatchDone(b, v)
  PROVE  AccountInv'
<1>1. PICK last : last = IF b.full THEN {b.msgs[Len(b.msgs)]} ELSE {}
  OBVIOUS
<1>2. /\ batches' = batches \ {b}
      /\ \/ b.by.ch = up /\ Tell(b.msgs, v) /\ Resolved({b.msgs[1]} \cup last)
         \/ b.by.ch # up /\ Rejected(last) /\ UNCHANGED <<unacked, ready, gone>>
      /\ UNCHANGED <<up, outbox, work, buffers, req>>
  BY <1>1 DEF BatchDone, consumerVars, requestVars
<1>3. Decided(b.msgs) = InBatch(b)
  BY DEF Decided, InBatch
<1>4. /\ closing = "done" => closing' = "done"
      /\ closing' = "done" => awaited' = {}
  BY <1>2, StaysClosed
<1>5. Unconfirmed' = Unconfirmed
  BY <1>2 DEF Unconfirmed
<1>6. Remembered'
  <2>1. /\ ready \subseteq ready' /\ gone \subseteq gone'
        /\ \A d \in unacked : d \in unacked' \/ d.msg \in ready' \/ d.msg.id \in gone'
    BY <1>2, ToldOf
  <2> QED BY <1>2, <1>4, <1>5, <2>1, RememberedKept
<1>7. InHand'
  <2>1. \A x : InBatch(x)' = InBatch(x)
    BY DEF InBatch
  <2>2. CASE unacked' = unacked \ InBatch(b)
    BY <1>2, <2>1, <2>2 DEF AccountInv, InHand
  <2>3. CASE b.by.ch # up /\ unacked' = unacked
    <3>1. \A d \in InBatch(b) : d \notin unacked
      BY <2>3, BatchIs DEF AccountInv, InHand
    <3> QED BY <1>2, <2>1, <2>3, <3>1 DEF AccountInv, InHand
  <2> QED BY <1>2, <1>3, <2>2, <2>3, ToldOf
<1>8. Sized'
  BY <1>2 DEF AccountInv, Sized
<1> QED BY <1>6, <1>7, <1>8 DEF AccountInv


LEMMA AccountPublish ==
  ASSUME ConsumersInv, RequestInv, AccountInv, NEW k \in DOMAIN app.sends, Publish(k)
  PROVE  AccountInv'
<1>1. PICK m : m = app.sends[k]
  OBVIOUS
<1>2. /\ req' = [req EXCEPT ![m] = IF m \in Requests THEN "waiting" ELSE "sent"]
      /\ outbox' = Append(outbox, [id |-> m, tried |-> 0])
      /\ UNCHANGED <<up, ready, unacked, work, buffers, batches, gone, closing, awaited>>
  BY <1>1 DEF Publish, consumerVars
<1>3. m \in Unconfirmed' /\ Unconfirmed \subseteq Unconfirmed'
  <2>1. PICK n \in Nat : n = Len(outbox) /\ DOMAIN outbox = 1 .. n
    BY DEF RequestInv, MessageTypes
  <2>2. PICK o : o = [id |-> m, tried |-> 0]
    OBVIOUS
  <2>3. /\ DOMAIN (outbox') = 1 .. n + 1 /\ outbox'[n + 1] = o
        /\ \A i \in 1 .. n : outbox'[i] = outbox[i]
    <3>1. outbox \in Seq(Queued \cup {o}) /\ outbox' = Append(outbox, o)
      BY <1>2, <2>2 DEF RequestInv, MessageTypes
    <3> QED BY <2>1, <3>1, AppendProperties
  <2>4. n + 1 \in 1 .. n + 1 /\ 1 .. n \subseteq 1 .. n + 1
    BY <2>1
  <2> QED BY <2>1, <2>2, <2>3, <2>4 DEF Unconfirmed
<1>4. \A x \in Messages : req'[x] # "idle" => req[x] # "idle" \/ x = m
  BY <1>2 DEF RequestInv, MessageTypes
<1>5. Remembered'
  BY <1>2, <1>3, <1>4, RememberedKept DEF AccountInv, Remembered
<1>6. InHand' /\ Sized'
  BY <1>2 DEF AccountInv, InHand, InBatch, Sized
<1> QED BY <1>5, <1>6 DEF AccountInv

LEMMA AccountTransmit ==
  ASSUME RequestInv, AccountInv, NEW k \in DOMAIN outbox, NEW confirmed \in BOOLEAN,
         Transmit(k, confirmed)
  PROVE  AccountInv'
<1>1. PICK m : m = outbox[k].id
  OBVIOUS
<1>2. /\ outbox' = IF confirmed THEN RemoveAt(outbox, k) ELSE [outbox EXCEPT ![k].tried = up]
      /\ \/ /\ ready' = ready \cup {Message(m, IF m \in Requests THEN up ELSE 0)}
            /\ UNCHANGED gone
         \/ gone' = gone \cup {m} /\ UNCHANGED ready
      /\ UNCHANGED <<up, unacked, work, buffers, batches, req, closing, awaited>>
  BY <1>1 DEF Transmit, consumerVars, requestVars
<1>3. outbox \in Seq(Queued)
  BY DEF RequestInv, MessageTypes
<1>4. \A x \in Unconfirmed : x \in Unconfirmed' \/ x = m
  <2> SUFFICES ASSUME NEW i \in DOMAIN outbox, i # k PROVE outbox[i].id \in Unconfirmed'
    BY <1>1 DEF Unconfirmed
  <2>1. CASE confirmed
    <3>1. PICK j \in DOMAIN RemoveAt(outbox, k) : RemoveAt(outbox, k)[j] = outbox[i]
      BY <1>3, RemoveAtLeaves
    <3> QED BY <1>2, <2>1, <3>1 DEF Unconfirmed
  <2>2. CASE ~confirmed
    <3>1. i \in DOMAIN (outbox') /\ outbox'[i] = outbox[i]
      BY <1>2, <1>3, <2>2
    <3> QED BY <3>1 DEF Unconfirmed
  <2> QED BY <2>1, <2>2
<1>5. m \in gone' \/ \E x \in ready' : x.id = m
  <2>1. \A via : Message(m, via).id = m
    BY DEF Message
  <2> HIDE DEF Message
  <2> QED BY <1>2, <2>1
<1>6. Remembered'
  <2>1. \A x \in Unconfirmed : \/ x \in Unconfirmed' \cup gone'
                               \/ \E y \in ready' : y.id = x
    BY <1>4, <1>5
  <2>2. gone \subseteq gone' /\ ready \subseteq ready'
    BY <1>2
  <2> QED BY <1>2, <2>1, <2>2, RememberedKept DEF AccountInv, Remembered
<1>7. InHand' /\ Sized'
  BY <1>2 DEF AccountInv, InHand, InBatch, Sized
<1> QED BY <1>6, <1>7 DEF AccountInv

\* Replies and timers leave the messages where they are.
LEMMA AccountCaller ==
  ASSUME RequestInv, AccountInv,
         \/ \E p \in replies : ReplyArrives(p)
         \/ \E r \in Requests : RequestDone(r) \/ RequestTimesOut(r)
  PROVE  AccountInv'
<1>1. UNCHANGED <<up, outbox, ready, unacked, work, buffers, batches, gone, closing, awaited>>
  BY DEF ReplyArrives, RequestDone, RequestTimesOut, consumerVars
<1>2. \A m \in Messages : req'[m] # "idle" => req[m] # "idle"
  BY DEF RequestInv, MessageTypes, Messages, ReplyArrives, RequestDone, RequestTimesOut
<1>3. Remembered'
  BY <1>1, <1>2 DEF AccountInv, Remembered, Unconfirmed
<1>4. InHand' /\ Sized'
  BY <1>1 DEF AccountInv, InHand, InBatch, Sized
<1> QED BY <1>3, <1>4 DEF AccountInv

LEMMA AccountDeliver ==
  ASSUME ConsumersInv, RequestInv, AccountInv, NEW c \in consumers, NEW m \in ready, Deliver(c, m)
  PROVE  AccountInv'
<1>1. PICK d : d = [msg |-> m, by |-> c]
  OBVIOUS
<1>2. /\ ready' = ready \ {m}
      /\ UNCHANGED <<up, outbox, req, closing, awaited>>
  BY DEF Deliver, consumerVars, requestVars
<1>3. /\ BatchSize \in Nat \ {0, 1} /\ d.by = c /\ d.msg = m /\ up # 0 /\ c.ch = up
  BY <1>1, DeliveryAssumption DEF ConsumersInv, Live
<1>4. /\ \/ m.id \in gone' /\ unacked' = unacked
         \/ unacked' = unacked \cup {d} /\ gone' = gone
      /\ gone \subseteq gone'
  BY <1>1 DEF Deliver
<1>5. Remembered'
  <2>1. \A x \in ready : x \in ready' \/ x.id \in gone' \/ \E e \in unacked' : e.msg = x
    BY <1>2, <1>3, <1>4
  <2>2. \A e \in unacked : e \in unacked'
    BY <1>4
  <2>3. Unconfirmed' = Unconfirmed
    BY <1>2 DEF Unconfirmed
  <2> QED BY <1>2, <1>4, <2>1, <2>2, <2>3, RememberedKept DEF AccountInv, Remembered
<1>6. /\ {w.d : w \in work} \subseteq {w.d : w \in work'}
      /\ \A e : (\E b \in buffers \cup batches : e \in InBatch(b))
                   => \E b \in buffers' \cup batches' : e \in InBatch(b)
      /\ unacked' # unacked => \/ \E w \in work' : w.d = d
                               \/ \E b \in buffers' \cup batches' : d \in InBatch(b)
      /\ Sized'
  <2>1. CASE UNCHANGED <<unacked, work, buffers, batches>>
    BY <2>1 DEF AccountInv, Sized
  <2>2. CASE work' = work \cup {[d |-> d, at |-> "handler"]} /\ UNCHANGED <<buffers, batches>>
    <3>1. PICK w : w = [d |-> d, at |-> "handler"]
      OBVIOUS
    <3>2. work' = work \cup {w} /\ w.d = d
      BY <2>2, <3>1
    <3> QED BY <2>2, <3>2 DEF AccountInv, Sized
  <2>3. CASE /\ buffers' = buffers \cup {[by |-> c, msgs |-> <<d>>, full |-> FALSE]}
             /\ UNCHANGED <<work, batches>>
    <3>1. PICK b : b = [by |-> c, msgs |-> <<d>>, full |-> FALSE]
      OBVIOUS
    <3>2. b.msgs = <<d>> /\ Len(b.msgs) = 1 /\ 1 \in DOMAIN b.msgs /\ b.msgs[1] = d
      BY <3>1
    <3>3. d \in InBatch(b) /\ Len(b.msgs) < BatchSize
      BY <1>3, <3>2 DEF InBatch
    <3> QED BY <2>3, <3>1, <3>3 DEF AccountInv, Sized
  <2>4. CASE \E b \in {x \in buffers : x.by = c} :
                LET more == Append(b.msgs, d)
                IN  /\ IF Len(more) = BatchSize
                       THEN /\ buffers' = buffers \ {b}
                            /\ batches' = batches \cup {[b EXCEPT !.msgs = more, !.full = TRUE]}
                       ELSE /\ buffers' = (buffers \ {b}) \cup {[b EXCEPT !.msgs = more]}
                            /\ UNCHANGED batches
                    /\ UNCHANGED <<gone, work>>
    <3>1. PICK b, more, full, open :
                /\ b \in buffers
                /\ more = Append(b.msgs, d)
                /\ full = [b EXCEPT !.msgs = more, !.full = TRUE] /\ open = [b EXCEPT !.msgs = more]
                /\ \/ /\ Len(more) = BatchSize
                      /\ buffers' = buffers \ {b} /\ batches' = batches \cup {full}
                   \/ /\ Len(more) # BatchSize
                      /\ buffers' = (buffers \ {b}) \cup {open} /\ UNCHANGED batches
                /\ UNCHANGED work
      BY <2>4
    <3>2. /\ b \in [by : EntryType, msgs : Seq(Delivered), full : BOOLEAN] /\ b.msgs \in Seq(Delivered)
          /\ Len(b.msgs) < BatchSize
      BY <3>1 DEF RequestInv, MessageTypes, Batch, AccountInv, Sized
    <3>3. full.msgs = more /\ open.msgs = more
      BY <3>1, <3>2
    <3>4. PICK n \in Nat : n = Len(b.msgs) /\ DOMAIN b.msgs = 1 .. n
      BY <3>2
    <3>5. /\ Len(more) = n + 1 /\ DOMAIN more = 1 .. n + 1 /\ more[n + 1] = d
          /\ \A i \in 1 .. n : more[i] = b.msgs[i]
      <4>1. b.msgs \in Seq(Delivered \cup {d}) /\ d \in Delivered \cup {d}
        BY <3>2
      <4> QED BY <3>1, <3>4, <4>1, AppendProperties
    <3>6. n + 1 \in 1 .. n + 1 /\ 1 .. n \subseteq 1 .. n + 1 /\ n + 1 <= BatchSize
      BY <1>3, <3>2, <3>4
    <3>7. \A x \in {full, open} : d \in InBatch(x) /\ InBatch(b) \subseteq InBatch(x)
      BY <3>3, <3>4, <3>5, <3>6 DEF InBatch
    <3>8. Sized'
      <4>1. Len(full.msgs) <= BatchSize /\ (Len(more) # BatchSize => Len(open.msgs) < BatchSize)
        BY <1>3, <3>3, <3>5, <3>6
      <4> QED BY <3>1, <4>1 DEF AccountInv, Sized
    <3>9. \E y \in {full, open} : y \in buffers' \cup batches'
      BY <3>1
    <3>10. ASSUME NEW e, NEW x \in buffers \cup batches, e \in InBatch(x)
           PROVE  \E y \in buffers' \cup batches' : e \in InBatch(y)
      <4>1. CASE x = b
        BY <3>7, <3>9, <3>10, <4>1
      <4>2. CASE x # b
        BY <3>1, <3>10, <4>2
      <4> QED BY <4>1, <4>2
    <3>11. \E y \in buffers' \cup batches' : d \in InBatch(y)
      BY <3>7, <3>9
    <3> QED BY <3>1, <3>8, <3>10, <3>11
  <2> QED BY <1>1, <2>1, <2>2, <2>3, <2>4 DEF Deliver
<1>7. InHand'
  <2>1. ASSUME NEW e \in unacked'
        PROVE  /\ \/ \E w \in work' : w.d = e
                  \/ \E b \in buffers' \cup batches' : e \in InBatch(b)
               /\ up' # 0 /\ e.by.ch = up'
    <3>1. CASE e \in unacked
      BY <1>2, <1>6, <3>1 DEF AccountInv, InHand
    <3>2. CASE e = d /\ unacked' # unacked
      BY <1>2, <1>3, <1>6, <3>2
    <3> QED BY <1>4, <3>1, <3>2
  <2>2. \A b : InBatch(b)' = InBatch(b)
    BY DEF InBatch
  <2> QED BY <2>1, <2>2 DEF InHand
<1> QED BY <1>5, <1>6, <1>7 DEF AccountInv

\* The channel goes: every delivery is put back.
LEMMA AccountLost ==
  ASSUME RequestInv, AccountInv, ChannelLost
  PROVE  AccountInv'
<1>1. /\ ready' = ready \cup Returned /\ unacked' = {}
      /\ UNCHANGED <<outbox, work, buffers, batches, gone, req, closing, awaited>>
  BY DEF ChannelLost, Redelivered
<1>2. Unconfirmed' = Unconfirmed
  BY <1>1 DEF Unconfirmed
<1>3. \A d \in unacked : d.msg \in ready'
  BY <1>1 DEF Returned
<1>4. Remembered'
  BY <1>1, <1>2, <1>3, RememberedKept DEF AccountInv, Remembered
<1>5. InHand' /\ Sized'
  BY <1>1 DEF AccountInv, InHand, Sized
<1> QED BY <1>4, <1>5 DEF AccountInv

LEMMA AccountClosed ==
  ASSUME AccountInv, CloseDone
  PROVE  AccountInv'
  BY DEF CloseDone, Redelivered, AccountInv, Remembered, InHand, Sized

LEMMA AccountClosing ==
  ASSUME AccountInv, Close
  PROVE  AccountInv'
<1>1. /\ closing = "no" /\ closing' = "waiting"
      /\ UNCHANGED <<up, outbox, ready, unacked, work, buffers, batches, gone, req>>
  BY DEF Close, consumerVars, requestVars
<1>2. Remembered'
  BY <1>1 DEF AccountInv, Remembered, Unconfirmed
<1>3. InHand' /\ Sized'
  BY <1>1 DEF AccountInv, InHand, InBatch, Sized
<1> QED BY <1>2, <1>3 DEF AccountInv

\* Only a new channel is another than the one deliveries came on, and there are none then.
LEMMA AccountConsumers ==
  ASSUME AccountInv, ConsumerStep \/ UNCHANGED consumerVars, UNCHANGED messageVars
  PROVE  AccountInv'
<1>1. /\ up' = up \/ up = 0
      /\ UNCHANGED <<outbox, ready, unacked, work, buffers, batches, gone, req, closing, awaited>>
  BY DEF messageVars, requestVars, consumerVars, boot, ConsumerStep, OpenChannel, InitTimesOut,
         Bootstrap, RegisterNext, RegisterConflicting, ChannelInitialised, QueueReady, Consuming,
         SetupStranded, CancelConsumer, ResumeConsumer, CancelDone, BrokerCancels
<1>2. Remembered' /\ Sized'
  BY <1>1 DEF AccountInv, Remembered, Unconfirmed, Sized
<1>3. InHand'
  BY <1>1 DEF AccountInv, InHand, InBatch
<1> QED BY <1>2, <1>3 DEF AccountInv

LEMMA AccountNext == ConsumersInv /\ RequestInv /\ AccountInv /\ [Next]_vars => AccountInv'
<1> SUFFICES ASSUME ConsumersInv, RequestInv, AccountInv, [Next]_vars PROVE AccountInv'
  OBVIOUS
<1>1. CASE (ConsumerStep /\ UNCHANGED messageVars) \/ UNCHANGED vars
  BY <1>1, AccountConsumers DEF vars
<1>2. CASE \E w \in work : ReplySent(w) \/ Acknowledge(w) \/ \E v \in Verdicts : HandlerDone(w, v)
  BY <1>2, AccountReply, AccountAck, AccountHandler
<1>3. CASE \E b \in buffers : BatchDue(b)
  BY <1>3, AccountBatchDue
<1>4. CASE \E b \in batches, v \in Verdicts : BatchDone(b, v)
  BY <1>4, AccountBatch
<1>5. CASE CloseDone \/ ChannelLost \/ Close
  BY <1>5, AccountClosed, AccountLost, AccountClosing
<1>6. CASE \E k \in DOMAIN app.sends : Publish(k)
  BY <1>6, AccountPublish
<1>7. CASE \E k \in DOMAIN outbox, confirmed \in BOOLEAN : Transmit(k, confirmed)
  BY <1>7, AccountTransmit
<1>8. CASE \/ \E p \in replies : ReplyArrives(p)
           \/ \E r \in Requests : RequestDone(r) \/ RequestTimesOut(r)
  BY <1>8, AccountCaller
<1>9. CASE \E c \in consumers, m \in ready : Deliver(c, m)
  BY <1>9, AccountDeliver
<1> QED BY <1>1, <1>2, <1>3, <1>4, <1>5, <1>6, <1>7, <1>8, <1>9 DEF Next, Processing


-----------------------------------------------------------------------------
(* The messages: a routed message finds a handler *)

\* The handlers are registered in their order.  One that is not added when its turn
\* has come was refused, because of one before it that is.
Refused(i) ==
    /\ Kind[app.handlers[i]] = "rpc"
    /\ \E j \in 1 .. i - 1 :
          /\ app.handlers[j] \in added /\ Kind[app.handlers[j]] = "rpc"
          /\ Queue[app.handlers[j]] = Queue[app.handlers[i]]
          /\ (app.handlers[j] \in Differing) # (app.handlers[i] \in Differing)

Progress ==
    /\ bound \subseteq app.bound \cup added
    /\ \E n \in Nat :
          /\ Len(app.handlers) = n + Len(todo)
          /\ \A i \in 1 .. Len(todo) : todo[i] = app.handlers[n + i]
          /\ \A i \in 1 .. n : app.handlers[i] \in added \/ Refused(i)

LEMMA HandlersAre ==
  ASSUME ConsumersInv
  PROVE  /\ app.handlers \in Seq(Handlers) /\ Len(app.handlers) \in Nat
         /\ DOMAIN app.handlers = 1 .. Len(app.handlers)
         /\ todo \in Seq(Handlers) /\ Len(todo) \in Nat /\ DOMAIN todo = 1 .. Len(todo)
  BY ConsumersAssumption DEF ConsumersInv, ConsumerTypes

LEMMA ProgressStart == ConsumersInit => Progress
<1> SUFFICES ASSUME ConsumersInit PROVE Progress
  OBVIOUS
<1>1. app \in Apps /\ todo = app.handlers /\ bound = app.bound /\ app.handlers \in Seq(Handlers)
  BY ConsumersAssumption DEF ConsumersInit
<1>2. PICK n \in Nat : n = Len(todo)
  BY <1>1
<1>3. Len(app.handlers) = 0 + Len(todo) /\ \A i \in 1 .. Len(todo) : todo[i] = app.handlers[0 + i]
  BY <1>1, <1>2
<1> QED BY <1>1, <1>3 DEF Progress

\* Steps that register nothing.
LEMMA ProgressKept ==
  ASSUME Progress, UNCHANGED <<app, todo, added>>, bound' \subseteq bound \cup added
  PROVE  Progress'
<1>1. \A i : Refused(i)' <=> Refused(i)
  BY DEF Refused
<1> QED BY <1>1 DEF Progress

LEMMA ProgressRegister ==
  ASSUME ConsumersInv, Progress, RegisterNext \/ RegisterConflicting
  PROVE  Progress'
<1>1. PICK h : h = Head(todo)
  OBVIOUS
<1>2. /\ todo # <<>> /\ todo' = Tail(todo)
      /\ \/ added' = added \cup {h}
         \/ added' = added /\ Conflicts(h)
      /\ UNCHANGED <<app, bound>> /\ bootstrapped
  BY <1>1 DEF RegisterNext, RegisterConflicting
<1>3. PICK n \in Nat : /\ Len(app.handlers) = n + Len(todo)
                       /\ \A i \in 1 .. Len(todo) : todo[i] = app.handlers[n + i]
                       /\ \A i \in 1 .. n : app.handlers[i] \in added \/ Refused(i)
  BY DEF Progress
<1>4. PICK t \in Nat : t = Len(todo) /\ t > 0 /\ DOMAIN todo = 1 .. t
  <2>1. todo \in Seq(Handlers)
    BY HandlersAre
  <2> QED BY <1>2, <2>1, LenProperties
<1>5. /\ h = todo[1] /\ Len(todo') = t - 1
      /\ \A i \in 1 .. t - 1 : todo'[i] = todo[i + 1]
  BY <1>1, <1>2, <1>4, HandlersAre, HeadTailProperties
<1>6. h = app.handlers[n + 1]
  BY <1>3, <1>4, <1>5
<1>7. n + 1 \in Nat /\ Len(app.handlers) = (n + 1) + Len(todo')
  BY <1>3, <1>4, <1>5
<1>8. \A i \in 1 .. Len(todo') : todo'[i] = app.handlers[(n + 1) + i]
  <2> SUFFICES ASSUME NEW i \in 1 .. t - 1 PROVE todo'[i] = app.handlers[(n + 1) + i]
    BY <1>5
  <2>1. i + 1 \in 1 .. t /\ n + (i + 1) = (n + 1) + i
    BY <1>4
  <2> QED BY <1>3, <1>4, <1>5, <2>1
<1>9. added \subseteq added'
  BY <1>2
<1>10. \A i : Refused(i) => Refused(i)'
  BY <1>2, <1>9 DEF Refused
<1>11. h \in added' \/ Refused(n + 1)'
  <2> SUFFICES ASSUME added' = added, Conflicts(h) PROVE Refused(n + 1)'
    BY <1>2
  <2>1. PICK g \in ToSet(rpcHandlers) : /\ Kind[h] = "rpc" /\ Queue[g] = Queue[h]
                                        /\ (g \in Differing) # (h \in Differing)
    BY DEF Conflicts, ToSet
  <2>2. g \in added /\ Kind[g] = "rpc"
    BY <1>2, <2>1 DEF ConsumersInv, Registered
  <2>3. PICK j \in 1 .. Len(app.handlers) : app.handlers[j] = g
    BY <2>2, HandlersAre DEF ConsumersInv, Registered, ToSet
  <2>4. j \in 1 .. n
    <3>1. ASSUME j > n PROVE FALSE
      <4>1. j - n \in 1 .. t /\ n + (j - n) = j
        BY <1>3, <1>4, <3>1
      <4>2. todo[j - n] = g
        BY <1>3, <1>4, <2>3, <4>1
      <4> QED BY <1>4, <2>2, <4>1, <4>2 DEF ConsumersInv, Registered
    <3> QED BY <2>3, <3>1, HandlersAre
  <2>5. j \in 1 .. (n + 1) - 1
    BY <2>4
  <2> QED BY <1>2, <1>6, <2>1, <2>2, <2>3, <2>5 DEF Refused
<1>12. \A i \in 1 .. n + 1 : app.handlers[i] \in added' \/ Refused(i)'
  <2> SUFFICES ASSUME NEW i \in 1 .. n + 1 PROVE app.handlers[i] \in added' \/ Refused(i)'
    OBVIOUS
  <2>1. CASE i = n + 1
    BY <1>6, <1>11, <2>1
  <2>2. CASE i # n + 1
    <3>1. i \in 1 .. n
      BY <2>2
    <3> QED BY <1>3, <1>9, <1>10, <3>1
  <2> QED BY <2>1, <2>2
<1>13. bound' \subseteq app'.bound \cup added'
  BY <1>2, <1>9 DEF Progress
<1> QED BY <1>2, <1>7, <1>8, <1>12, <1>13 DEF Progress

LEMMA ProgressNext == ConsumersInv /\ Progress /\ [Next]_vars => Progress'
<1> SUFFICES ASSUME ConsumersInv, Progress, [Next]_vars PROVE Progress'
  OBVIOUS
<1>1. CASE RegisterNext \/ RegisterConflicting
  BY <1>1, ProgressRegister
<1>2. CASE \E s \in setups : QueueReady(s)
  <2>1. PICK s \in setups : QueueReady(s)
    BY <1>2
  <2>2. /\ UNCHANGED <<app, todo, added>> /\ bound' = bound \cup Covers(s.who)
        /\ s.ch = up /\ s.who # "init"
    BY <2>1 DEF QueueReady, boot
  <2>3. s.who \in added /\ up # 0
    BY <2>2 DEF ConsumersInv, Live
  <2>4. ToSet(rpcHandlers) \subseteq added
    BY <2>3 DEF ConsumersInv, Registered
  <2>5. Covers(s.who) \subseteq added
    BY <2>3, <2>4 DEF Covers
  <2> QED BY <2>2, <2>5, ProgressKept
<1>3. CASE ConsumerStep /\ ~(RegisterNext \/ RegisterConflicting \/ \E s \in setups : QueueReady(s))
  <2>1. UNCHANGED <<app, todo, added, bound>>
    BY <1>3 DEF ConsumerStep, boot, OpenChannel, InitTimesOut, Bootstrap, ChannelInitialised,
                Consuming, SetupStranded, CancelConsumer, ResumeConsumer, CancelDone, BrokerCancels
  <2> QED BY <2>1, ProgressKept
<1>4. CASE ChannelLost \/ CloseDone
  <2>1. UNCHANGED <<app, todo, added, bound>>
    BY <1>4 DEF ChannelLost, LoseChannel, SetupRefused, ChannelGone, CloseDone, boot
  <2> QED BY <2>1, ProgressKept
<1>5. CASE UNCHANGED consumerVars
  BY <1>5, ProgressKept DEF consumerVars
<1> QED BY <1>1, <1>2, <1>3, <1>4, <1>5, NextKinds

\* Once all are registered, the rpc handlers an earlier run has bound are there again.
LEMMA BoundAdded ==
  ASSUME ConsumersInv, Progress, todo = <<>>, NEW h \in bound, Kind[h] = "rpc"
  PROVE  h \in added
<1> SUFFICES ASSUME h \notin added PROVE FALSE
  OBVIOUS
<1>1. PICK n \in Nat : n = Len(app.handlers) /\ DOMAIN app.handlers = 1 .. n
  BY HandlersAre
<1>2. \A i \in 1 .. n : app.handlers[i] \in added \/ Refused(i)
  <2>1. PICK l \in Nat : /\ Len(app.handlers) = l + Len(todo)
                         /\ \A i \in 1 .. l : app.handlers[i] \in added \/ Refused(i)
    BY DEF Progress
  <2>2. Len(todo) = 0
    OBVIOUS
  <2> QED BY <1>1, <2>1, <2>2
<1>3. h \in app.bound /\ app \in Apps /\ h \in ToSet(app.handlers)
  BY ConsumersAssumption DEF Progress, ConsumersInv, ConsumerTypes
<1>4. PICK i \in 1 .. n : app.handlers[i] = h
  BY <1>1, <1>3 DEF ToSet
<1>5. PICK j \in 1 .. i - 1 : /\ app.handlers[j] \in added /\ Kind[app.handlers[j]] = "rpc"
                              /\ Queue[app.handlers[j]] = Queue[h]
                              /\ (app.handlers[j] \in Differing) # (h \in Differing)
  BY <1>2, <1>4 DEF Refused
<1>6. PICK T : T = {x \in 1 .. n : Queue[app.handlers[x]] = Queue[h]}
  OBVIOUS
<1>7. T # {} /\ T \subseteq Nat
  BY <1>4, <1>6
<1>8. PICK f \in T : \A x \in T : f <= x
  BY <1>7, Least
<1>9. f \in 1 .. n /\ Queue[app.handlers[f]] = Queue[h]
  BY <1>6, <1>8
<1>10. \A x \in 1 .. f - 1 : Queue[app.handlers[x]] # Queue[h]
  <2> SUFFICES ASSUME NEW x \in 1 .. f - 1, x \in T PROVE FALSE
    BY <1>1, <1>6, <1>9
  <2> QED BY <1>8, <1>9
<1>11. app.handlers[f] \in added
  BY <1>2, <1>9, <1>10 DEF Refused
<1>12. (app.handlers[j] \in Differing) = (app.handlers[f] \in Differing)
  BY <1>5, <1>9, <1>11 DEF ConsumersInv, Agreeing
<1>13. (app.handlers[f] \in Differing) = (h \in Differing)
  BY <1>1, <1>3, <1>9, <1>10, ConsumersAssumption
<1> QED BY <1>5, <1>12, <1>13

\* The rpc handlers of a queue, by their places.
LEMMA SharingIs ==
  ASSUME ConsumersInv, NEW q
  PROVE  /\ Sharing(q) \subseteq Nat
         /\ \A k \in Sharing(q) : rpcHandlers[k] \in Handlers /\ Queue[rpcHandlers[k]] = q
         /\ \A h \in ToSet(rpcHandlers) : Queue[h] = q => \E k \in Sharing(q) : rpcHandlers[k] = h
<1>1. PICK n \in Nat : n = Len(rpcHandlers) /\ DOMAIN rpcHandlers = 1 .. n
  BY DEF ConsumersInv, ConsumerTypes
<1>2. \A k \in 1 .. n : rpcHandlers[k] \in Handlers
  BY <1>1 DEF ConsumersInv, ConsumerTypes
<1> QED BY <1>1, <1>2 DEF Sharing, ToSet

\* A message that was routed finds a handler with any consumer of its queue.
LEMMA RoutedHandled ==
  ASSUME ConsumersInv, RequestInv, Progress, todo = <<>>,
         NEW c \in consumers, NEW x \in ready, To[x.id] = Queue[c.who]
  PROVE  Handled(c, x)
<1> SUFFICES ASSUME Kind[c.who] = "rpc" PROVE HandlerOf(x.id) # {}
  BY DEF Handled
<1>1. PICK m : m = x.id
  OBVIOUS
<1>2. m \in Messages /\ Routed(m)
  BY <1>1 DEF RequestInv, MessageTypes, Sent
<1>3. PICK h \in bound : Queue[h] = To[m] /\ \E p \in Pattern[h] : Binds(Key[m], p)
  BY <1>2 DEF Routed
<1>p. PICK p \in Pattern[h] : Binds(Key[m], p)
  BY <1>3
<1>4. /\ c.who \in added /\ c.who \in ToSet(app.handlers) /\ h \in ToSet(app.handlers)
      /\ app \in Apps /\ up # 0
  BY ConsumersAssumption DEF ConsumersInv, ConsumerTypes, Registered, Live, Entries, Progress
<1>5. Kind[h] = "rpc"
  <2>1. PICK i \in DOMAIN app.handlers, j \in DOMAIN app.handlers :
           app.handlers[i] = h /\ app.handlers[j] = c.who
    BY <1>4 DEF ToSet
  <2>2. CASE i = j
    BY <2>1, <2>2
  <2>3. CASE i # j
    BY <1>1, <1>3, <1>4, <2>1, <2>3, ConsumersAssumption
  <2> QED BY <2>2, <2>3
<1>6. h \in added /\ h \in Handlers
  BY <1>5, BoundAdded DEF ConsumersInv, ConsumerTypes
<1>7. h \in ToSet(rpcHandlers)
  BY <1>4, <1>5, <1>6 DEF ConsumersInv, Registered
<1>8. Matches(Key[m], p)
  <2>1. Key[m] \in Keys /\ p \in Patterns
    BY <1>2, <1>6, DeliveryAssumption
  <2> QED BY <1>p, <2>1, RoutedMatches
<1>9. PICK S, P : /\ S = Sharing(To[m]) /\ P = [k \in S |-> Pattern[rpcHandlers[k]]]
  OBVIOUS
<1>10. PICK k \in S : rpcHandlers[k] = h
  BY <1>3, <1>7, <1>9, SharingIs
<1>11. PICK found : found = IF Naming(Key[m], P) # {} THEN Naming(Key[m], P) ELSE Matching(Key[m], P)
  OBVIOUS
<1>12. found # {}
  <2>1. k \in Matching(Key[m], P)
    BY <1>8, <1>9, <1>10 DEF Matching
  <2> QED BY <1>11, <2>1
<1>13. found \subseteq S /\ S \subseteq Nat
  BY <1>9, <1>11, SharingIs DEF Naming, Matching
<1>14. PICK f \in found : \A j \in found : f <= j
  BY <1>12, <1>13, Least
<1>15. f \in Chosen(Key[m], P)
  BY <1>11, <1>14 DEF Chosen
<1> QED BY <1>1, <1>9, <1>15 DEF HandlerOf

\* The handler chosen is bound to what it is given, and names it if any does.
LEMMA ChosenBound ==
  ASSUME ConsumersInv, PlainBindings, NEW m \in Messages, NEW h \in HandlerOf(m)
  PROVE  \E p \in Pattern[h] :
            /\ Binds(Key[m], p)
            /\ p = Key[m] \/ \A k \in Sharing(To[m]) : Key[m] \notin Pattern[rpcHandlers[k]]
<1>1. PICK S, P : /\ S = Sharing(To[m]) /\ P = [k \in S |-> Pattern[rpcHandlers[k]]]
  OBVIOUS
<1>2. PICK k \in Chosen(Key[m], P) : h = rpcHandlers[k]
  BY <1>1 DEF HandlerOf
<1>3. /\ k \in S
      /\ \/ Naming(Key[m], P) # {} /\ Key[m] \in P[k]
         \/ Naming(Key[m], P) = {} /\ \E p \in P[k] : Matches(Key[m], p)
  BY <1>1, <1>2 DEF Chosen, Naming, Matching
<1>4. h \in Handlers /\ P[k] = Pattern[h]
  BY <1>1, <1>2, <1>3, SharingIs
<1>5. Key[m] \in Keys /\ Pattern[h] \subseteq Patterns
  BY <1>4, DeliveryAssumption
<1>6. CASE Key[m] \in P[k]
  <2>1. PICK n \in Nat : n = Len(Key[m]) /\ DOMAIN Key[m] = 1 .. n
    BY <1>5, KeyIs
  <2>2. Matches(Key[m], Key[m])
    BY <2>1 DEF Matches, Differs
  <2>3. Key[m] \in Pattern[h] /\ Key[m] \in Patterns /\ Plain(Key[m], Key[m])
    BY <1>4, <1>5, <1>6 DEF PlainBindings
  <2> QED BY <1>5, <2>2, <2>3, MatchedRoutes
<1>7. CASE Naming(Key[m], P) = {} /\ \E p \in P[k] : Matches(Key[m], p)
  <2>1. PICK p \in Pattern[h] : Matches(Key[m], p)
    BY <1>4, <1>7
  <2>2. Binds(Key[m], p)
    BY <1>4, <1>5, <2>1, MatchedRoutes DEF PlainBindings
  <2>3. \A j \in Sharing(To[m]) : Key[m] \notin Pattern[rpcHandlers[j]]
    BY <1>1, <1>7 DEF Naming
  <2> QED BY <2>1, <2>2, <2>3
<1> QED BY <1>3, <1>6, <1>7

\* Where patterns are plain, for any handlers, messages, batch sizes and channels: a
\* message the broker has taken is there until a handler, or its verdict, is through
\* with it; no delivery takes up the prefetch window unless it is in hand; batches
\* keep their size; and a routed message is never refused for want of a handler, but
\* goes to one whose binding let it through, one that names its key if there is any.
THEOREM NothingLost == PlainBindings /\ Spec => []MessagesAccounted
<1> DEFINE Inv == PlainBindings /\ ConsumersInv /\ RequestInv /\ AccountInv /\ Progress
<1>1. PlainBindings /\ Init => Inv
  BY ConsumersStart, MessagesStart, AccountStart, ProgressStart DEF Init
<1>2. Inv /\ [Next]_vars => Inv'
  <2> SUFFICES ASSUME Inv, [Next]_vars PROVE Inv'
    OBVIOUS
  <2>1. ConsumersInv' /\ RequestInv' /\ AccountInv' /\ Progress'
    BY ConsumersNext, RequestNext, AccountNext, ProgressNext
  <2>2. PlainBindings'
    BY DEF PlainBindings
  <2> QED BY <2>1, <2>2
<1>3. Inv => MessagesAccounted
  <2> SUFFICES ASSUME Inv PROVE MessagesAccounted
    OBVIOUS
  <2>1. \A m \in Messages : req[m] # "idle" /\ m \notin gone /\ closing # "done" =>
          m \in Unconfirmed \/ \E x \in ready \cup {d.msg : d \in unacked} : x.id = m
    BY DEF AccountInv, Remembered
  <2>2. unacked \subseteq {w.d : w \in work} \cup UNION {InBatch(b) : b \in buffers \cup batches}
    BY DEF AccountInv, InHand
  <2>3. \A b \in buffers \cup batches : Len(b.msgs) <= BatchSize
    <3> SUFFICES ASSUME NEW b \in buffers \cup batches PROVE Len(b.msgs) <= BatchSize
      OBVIOUS
    <3>1. Len(b.msgs) \in Nat /\ BatchSize \in Nat
      BY BatchIs, DeliveryAssumption
    <3>2. Len(b.msgs) < BatchSize \/ Len(b.msgs) <= BatchSize
      BY DEF AccountInv, Sized
    <3> QED BY <3>1, <3>2
  <2>4. todo = <<>> => \A c \in consumers, x \in ready : To[x.id] = Queue[c.who] => Handled(c, x)
    BY RoutedHandled
  <2>5. MatchesRouted
    BY RoutingAgrees
  <2>6. \A m \in Messages : \A h \in HandlerOf(m) : \E p \in Pattern[h] :
           /\ Binds(Key[m], p)
           /\ p = Key[m] \/ \A k \in Sharing(To[m]) : Key[m] \notin Pattern[rpcHandlers[k]]
    BY ChosenBound
  <2> QED BY <2>1, <2>2, <2>3, <2>4, <2>5, <2>6 DEF MessagesAccounted
<1>4. PlainBindings /\ Spec => []Inv
  BY <1>1, <1>2, PTL DEF Spec
<1> QED BY <1>3, <1>4, PTL

=============================================================================
