--------------------------- MODULE GraphQL_proofs ---------------------------
(***************************************************************************)
(* Proofs about the iterator a GraphQL subscription reads its events from  *)
(* (PubSubAsyncIterator), for any set of triggers, any number of messages  *)
(* and of next(), return() and throw() calls, and any size of the buffer;  *)
(* that it uses the engine as PubSubEngine allows; about the requests the  *)
(* Apollo controller answers; and about the schema made of what the        *)
(* decorators write.                                                       *)
(***************************************************************************)
EXTENDS GraphQL, SequenceTheorems, FiniteSetTheorems, WellFoundedInduction, TLAPS

AllSub(S) == \A t \in Trigs : sub[t] \in S

\* How far subscribePromise has come says what the subscriptions are, and what
\* subscriptionIds holds; an iterator that does not listen has none that is open.
Phases ==
    /\ subscribePromise = "new" => listening /\ AllSub({"unused"})
    /\ subscribePromise = "pending" => listening /\ AllSub({"pending", "active", "failed"})
    /\ subscribePromise \in {"new", "pending"} => subscriptionIds = {}
    /\ subscribePromise = "ok" /\ listening => subscriptionIds = Trigs /\ AllSub({"active"})
    /\ subscribePromise = "error" => ~listening
    /\ listening => finished = 0
    /\ ~listening => subscriptionIds = {} /\ AllSub({"closed", "failed"})

\* The pull queue holds the next() calls that wait for a message, in the order they were
\* made, and only while there is no message to give them.
Pulling ==
    /\ ~listening => pullQueue = <<>> /\ pushQueue = <<>>
    /\ pullQueue # <<>> => pushQueue = <<>>
    /\ \A k \in DOMAIN pullQueue : nexts[pullQueue[k]] = "pull"
    /\ \A j, k \in DOMAIN pullQueue : j < k => pullQueue[j] < pullQueue[k]
    /\ \A n \in Reader!NextIds : nexts[n] = "pull" => \E k \in DOMAIN pullQueue : pullQueue[k] = n

\* So do the microtasks, those of return() and throw() in between.
Waiting ==
    /\ \A k \in DOMAIN micro : micro[k] # 0 => nexts[micro[k]] = "await"
    /\ \A j, k \in DOMAIN micro : j < k /\ micro[j] # 0 /\ micro[k] # 0 => micro[j] < micro[k]
    /\ \A n \in Reader!NextIds : nexts[n] = "await" => \E k \in DOMAIN micro : micro[k] = n

\* No next() call overtakes an earlier one.
InTurn == \A j, k \in Reader!NextIds : j < k =>
    /\ nexts[j] = "idle" => nexts[k] = "idle"
    /\ nexts[j] = "await" => nexts[k] \in {"idle", "await"}
    /\ nexts[k] = "value" => nexts[j] = "value" /\ value[j] < value[k]

\* The buffer is the end of what has arrived; what was given out came before it.
Latest == listening =>
    /\ Len(pushQueue) <= arrived
    /\ \A k \in DOMAIN pushQueue : pushQueue[k] = arrived - Len(pushQueue) + k
    /\ \A n \in Reader!NextIds : nexts[n] \notin {"done", "threw"}
    /\ \A n \in Reader!NextIds : nexts[n] = "value" => value[n] + Len(pushQueue) <= arrived

ReaderInv == Reader!TypeOK /\ Phases /\ Pulling /\ Waiting /\ InTurn /\ Latest

LEMMA ReaderInit == ASSUME GraphQLAssumption, Reader!Init PROVE ReaderInv
<1>1. /\ sub = [t \in Trigs |-> "unused"] /\ handed = [t \in Trigs |-> 0]
      /\ listening = TRUE /\ subscriptionIds = {}
      /\ pullQueue = <<>> /\ pushQueue = <<>>
      /\ subscribePromise = "new" /\ idleTimer = FALSE
      /\ micro = <<>>
      /\ nexts = [n \in Reader!NextIds |-> "idle"] /\ value = [n \in Reader!NextIds |-> 0]
      /\ arrived = 0 /\ returns = 0 /\ finished = 0
  BY DEF Reader!Init, Reader!Engine!Init
<1>2. MaxQueue \in Nat /\ MaxMessages \in Nat /\ MaxNext \in Nat /\ MaxReturn \in Nat
  BY DEF GraphQLAssumption, Reader!IteratorAssumption
<1>3. /\ pullQueue \in Seq(Reader!NextIds) /\ pushQueue \in Seq(1 .. MaxMessages)
      /\ micro \in Seq(0 .. MaxNext) /\ Len(pushQueue) = 0
      /\ DOMAIN pullQueue = {} /\ DOMAIN pushQueue = {} /\ DOMAIN micro = {}
  BY <1>1
<1>4. Reader!Engine!TypeOK
  BY <1>1 DEF Reader!Engine!TypeOK, Reader!Engine!States
<1>5. Reader!TypeOK
  <2>1. /\ nexts \in [Reader!NextIds -> Reader!NextStates]
        /\ value \in [Reader!NextIds -> 0 .. MaxMessages]
    BY <1>1, <1>2 DEF Reader!NextStates
  <2>2. Len(pushQueue) <= MaxQueue
    BY <1>2, <1>3
  <2>3. arrived \in 0 .. MaxMessages /\ returns \in 0 .. MaxReturn /\ finished \in Nat
    BY <1>1, <1>2
  <2> QED BY <1>1, <1>3, <1>4, <2>1, <2>2, <2>3 DEF Reader!TypeOK
<1>6. Phases
  BY <1>1 DEF Phases, AllSub
<1>7. Pulling /\ Waiting /\ InTurn /\ Latest
  BY <1>1, <1>3 DEF Pulling, Waiting, InTurn, Latest
<1> QED BY <1>5, <1>6, <1>7 DEF ReaderInv

\* What the type invariant says of the variables, for the provers.
LEMMA ReaderTypes ==
    ASSUME Reader!TypeOK, GraphQLAssumption
    PROVE  /\ sub \in [Trigs -> Reader!Engine!States] /\ handed \in [Trigs -> Nat]
           /\ listening \in BOOLEAN /\ subscriptionIds \subseteq Trigs
           /\ pullQueue \in Seq(Reader!NextIds) /\ DOMAIN pullQueue = 1 .. Len(pullQueue)
           /\ pushQueue \in Seq(1 .. MaxMessages) /\ DOMAIN pushQueue = 1 .. Len(pushQueue)
           /\ micro \in Seq(0 .. MaxNext) /\ DOMAIN micro = 1 .. Len(micro)
           /\ Len(pullQueue) \in Nat /\ Len(pushQueue) \in Nat /\ Len(micro) \in Nat
           /\ Len(pushQueue) <= MaxQueue
           /\ \A k \in DOMAIN pullQueue : pullQueue[k] \in Reader!NextIds
           /\ \A k \in DOMAIN pushQueue : pushQueue[k] \in 1 .. MaxMessages
           /\ \A k \in DOMAIN micro : micro[k] \in 0 .. MaxNext
           /\ nexts \in [Reader!NextIds -> Reader!NextStates]
           /\ value \in [Reader!NextIds -> 0 .. MaxMessages]
           /\ arrived \in Nat /\ MaxMessages \in Nat /\ MaxNext \in Nat
           /\ MaxQueue \in Nat /\ MaxQueue > 0
           /\ Reader!NextIds \subseteq Nat /\ 0 \notin Reader!NextIds
           /\ subscribePromise \in {"new", "pending", "ok", "error"}
<1>1. pullQueue \in Seq(Reader!NextIds) /\ pushQueue \in Seq(1 .. MaxMessages)
      /\ micro \in Seq(0 .. MaxNext)
  BY DEF Reader!TypeOK
<1>2. /\ Len(pullQueue) \in Nat /\ DOMAIN pullQueue = 1 .. Len(pullQueue)
      /\ Len(pushQueue) \in Nat /\ DOMAIN pushQueue = 1 .. Len(pushQueue)
      /\ Len(micro) \in Nat /\ DOMAIN micro = 1 .. Len(micro)
  BY <1>1, LenProperties
<1>3. /\ \A k \in DOMAIN pullQueue : pullQueue[k] \in Reader!NextIds
      /\ \A k \in DOMAIN pushQueue : pushQueue[k] \in 1 .. MaxMessages
      /\ \A k \in DOMAIN micro : micro[k] \in 0 .. MaxNext
  BY <1>1, <1>2, ElementOfSeq
<1>4. MaxMessages \in Nat /\ MaxNext \in Nat /\ MaxQueue \in Nat /\ MaxQueue > 0
  BY DEF GraphQLAssumption, Reader!IteratorAssumption
<1>5. Reader!NextIds \subseteq Nat /\ 0 \notin Reader!NextIds
  BY <1>4 DEF Reader!NextIds
<1>6. sub \in [Trigs -> Reader!Engine!States] /\ handed \in [Trigs -> Nat]
  BY DEF Reader!TypeOK, Reader!Engine!TypeOK
<1>7. arrived \in Nat
  BY <1>4 DEF Reader!TypeOK
<1> QED BY <1>1, <1>2, <1>3, <1>4, <1>5, <1>6, <1>7 DEF Reader!TypeOK

\* The microtask at the head has run.
LEMMA MicroShift ==
    ASSUME ReaderInv, GraphQLAssumption, micro # <<>>, micro' = Tail(micro),
           \A n \in Reader!NextIds :
               nexts'[n] = "await" <=> nexts[n] = "await" /\ n # Head(micro)
    PROVE  Waiting' /\ micro' \in Seq(0 .. MaxNext)
<1>1. /\ micro \in Seq(0 .. MaxNext) /\ DOMAIN micro = 1 .. Len(micro) /\ Len(micro) \in Nat
      /\ \A k \in DOMAIN micro : micro[k] \in 0 .. MaxNext
      /\ MaxNext \in Nat /\ Reader!NextIds = 1 .. MaxNext
  BY ReaderTypes DEF ReaderInv, Reader!NextIds
<1>2. /\ micro' \in Seq(0 .. MaxNext) /\ Len(micro') = Len(micro) - 1 /\ Len(micro) > 0
      /\ DOMAIN micro' = 1 .. Len(micro') /\ Head(micro) = micro[1]
      /\ \A k \in DOMAIN micro' : micro'[k] = micro[k + 1] /\ k + 1 \in DOMAIN micro
  BY <1>1, HeadTailProperties, LenProperties, EmptySeq
<1>3. Waiting
  BY DEF ReaderInv
<1>4. ASSUME NEW k \in DOMAIN micro', micro'[k] # 0
      PROVE  nexts'[micro'[k]] = "await"
  <2>1. micro[k + 1] # 0 /\ micro[k + 1] \in Reader!NextIds /\ nexts[micro[k + 1]] = "await"
    BY <1>1, <1>2, <1>3, <1>4 DEF Waiting
  <2>0. 1 \in DOMAIN micro /\ 1 < k + 1 /\ micro[1] \in Nat /\ micro[k + 1] \in Nat
    BY <1>1, <1>2
  <2>2. micro[1] # 0 => micro[1] < micro[k + 1]
    BY <1>2, <1>3, <2>0, <2>1 DEF Waiting
  <2>3. micro[k + 1] # micro[1]
    BY <2>0, <2>1, <2>2
  <2> QED BY <1>2, <2>1, <2>3
<1>5. ASSUME NEW j \in DOMAIN micro', NEW k \in DOMAIN micro', j < k, micro'[j] # 0, micro'[k] # 0
      PROVE  micro'[j] < micro'[k]
  BY <1>1, <1>2, <1>3, <1>5 DEF Waiting
<1>6. ASSUME NEW n \in Reader!NextIds, nexts'[n] = "await"
      PROVE  \E k \in DOMAIN micro' : micro'[k] = n
  <2>1. nexts[n] = "await" /\ n # micro[1]
    BY <1>2, <1>6
  <2>2. PICK k \in DOMAIN micro : micro[k] = n
    BY <1>3, <2>1 DEF Waiting
  <2>3. k - 1 \in DOMAIN micro' /\ micro'[k - 1] = micro[k]
    BY <1>1, <1>2, <2>1, <2>2
  <2> QED BY <2>2, <2>3
<1> QED BY <1>2, <1>4, <1>5, <1>6 DEF Waiting

\* next(), return() or throw() is called: n is its place among the microtasks.
LEMMA MicroAppend ==
    ASSUME ReaderInv, GraphQLAssumption, NEW n \in 0 .. MaxNext, micro' = Append(micro, n),
           \A k \in Reader!NextIds :
               /\ nexts'[k] = "await" <=> nexts[k] = "await" \/ k = n
               /\ n # 0 /\ nexts[k] = "await" => k < n
    PROVE  Waiting' /\ micro' \in Seq(0 .. MaxNext)
<1>1. /\ micro \in Seq(0 .. MaxNext) /\ DOMAIN micro = 1 .. Len(micro) /\ Len(micro) \in Nat
      /\ \A k \in DOMAIN micro : micro[k] \in 0 .. MaxNext
      /\ MaxNext \in Nat /\ Reader!NextIds = 1 .. MaxNext
  BY ReaderTypes DEF ReaderInv, Reader!NextIds
<1>2. /\ micro' \in Seq(0 .. MaxNext) /\ Len(micro') = Len(micro) + 1
      /\ DOMAIN micro' = 1 .. Len(micro) + 1 /\ micro'[Len(micro) + 1] = n
      /\ \A k \in DOMAIN micro : micro'[k] = micro[k] /\ k \in DOMAIN micro'
  BY <1>1, AppendProperties, LenProperties
<1>3. Waiting
  BY DEF ReaderInv
<1>4. ASSUME NEW k \in DOMAIN micro', micro'[k] # 0
      PROVE  nexts'[micro'[k]] = "await"
  <2>1. CASE k \in DOMAIN micro
    BY <1>1, <1>2, <1>3, <1>4, <2>1 DEF Waiting
  <2>2. CASE k = Len(micro) + 1
    BY <1>1, <1>2, <1>4, <2>2
  <2> QED BY <1>1, <1>2, <2>1, <2>2
<1>5. ASSUME NEW j \in DOMAIN micro', NEW k \in DOMAIN micro', j < k, micro'[j] # 0, micro'[k] # 0
      PROVE  micro'[j] < micro'[k]
  <2>1. j \in DOMAIN micro /\ micro[j] \in Reader!NextIds /\ nexts[micro[j]] = "await"
    BY <1>1, <1>2, <1>3, <1>5 DEF Waiting
  <2>2. CASE k \in DOMAIN micro
    BY <1>1, <1>2, <1>3, <1>5, <2>1, <2>2 DEF Waiting
  <2>3. CASE k = Len(micro) + 1
    BY <1>2, <1>5, <2>1, <2>3
  <2> QED BY <1>1, <1>2, <2>2, <2>3
<1>6. ASSUME NEW k \in Reader!NextIds, nexts'[k] = "await"
      PROVE  \E j \in DOMAIN micro' : micro'[j] = k
  <2>1. CASE k = n
    BY <1>1, <1>2, <2>1
  <2>2. CASE nexts[k] = "await"
    BY <1>2, <1>3, <2>2 DEF Waiting
  <2> QED BY <1>6, <2>1, <2>2
<1> QED BY <1>2, <1>4, <1>5, <1>6 DEF Waiting

\* teardown() answers every next() that waits for a message; those that are microtasks
\* still go on.
LEMMA TornDown ==
    ASSUME ReaderInv, GraphQLAssumption, NEW ids \in SUBSET Trigs, Reader!Teardown(ids),
           UNCHANGED value
    PROVE  /\ nexts' \in [Reader!NextIds -> Reader!NextStates]
           /\ \A n \in Reader!NextIds : nexts'[n] = IF nexts[n] = "pull" THEN "done" ELSE nexts[n]
           /\ pullQueue' = <<>> /\ pushQueue' = <<>> /\ listening' = FALSE
           /\ Pulling' /\ InTurn' /\ Latest'
<1>1. /\ nexts' = [n \in Reader!NextIds |->
                      IF \E k \in DOMAIN pullQueue : pullQueue[k] = n THEN "done" ELSE nexts[n]]
      /\ pullQueue' = <<>> /\ pushQueue' = <<>> /\ listening' = FALSE
  BY DEF Reader!Teardown, Reader!Drained
<1>2. \A n \in Reader!NextIds : nexts[n] = "pull" <=> \E k \in DOMAIN pullQueue : pullQueue[k] = n
  BY DEF ReaderInv, Pulling
<1>3. nexts \in [Reader!NextIds -> Reader!NextStates]
  BY ReaderTypes DEF ReaderInv
<1>4. \A n \in Reader!NextIds : nexts'[n] = IF nexts[n] = "pull" THEN "done" ELSE nexts[n]
  BY <1>1, <1>2
<1>5. nexts' \in [Reader!NextIds -> Reader!NextStates]
  BY <1>1, <1>3 DEF Reader!NextStates
<1>6. DOMAIN pullQueue' = {}
  BY <1>1
<1>7. Pulling'
  BY <1>1, <1>4, <1>6 DEF Pulling
<1>8. InTurn'
  BY <1>4 DEF InTurn, ReaderInv
<1>9. Latest'
  BY <1>1 DEF Latest
<1> QED BY <1>1, <1>4, <1>5, <1>7, <1>8, <1>9

LEMMA ConstructKeeps ==
    ASSUME ReaderInv, GraphQLAssumption, Reader!Construct
    PROVE  ReaderInv'
<1>1. /\ subscribePromise = "new" /\ subscribePromise' = "pending"
      /\ sub' = [t \in Trigs |-> "pending"] /\ idleTimer' = IdleTimeout
      /\ UNCHANGED <<handed, listening, subscriptionIds, pullQueue, pushQueue, micro, nexts,
                     value, returns, arrived, finished>>
  BY DEF Reader!Construct, Reader!queues, Reader!calls
<1>2. Reader!TypeOK'
  <2>1. Reader!Engine!TypeOK'
    BY <1>1 DEF ReaderInv, Reader!TypeOK, Reader!Engine!TypeOK, Reader!Engine!States
  <2>2. IdleTimeout \in BOOLEAN
    BY DEF GraphQLAssumption, Reader!IteratorAssumption
  <2> QED BY <1>1, <2>1, <2>2 DEF ReaderInv, Reader!TypeOK
<1>3. Phases'
  BY <1>1 DEF ReaderInv, Phases, AllSub
<1>4. Pulling' /\ Waiting' /\ InTurn' /\ Latest'
  BY <1>1 DEF ReaderInv, Pulling, Waiting, InTurn, Latest
<1> QED BY <1>2, <1>3, <1>4 DEF ReaderInv

LEMMA EngineAnswersKeeps ==
    ASSUME ReaderInv, GraphQLAssumption, NEW t \in Trigs, Reader!EngineAnswers(t)
    PROVE  ReaderInv'
<1>1. /\ subscribePromise = "pending"
      /\ Reader!Engine!Accept({t}) \/ Reader!Engine!Refuse(t)
      /\ UNCHANGED <<listening, subscriptionIds, pullQueue, pushQueue, subscribePromise,
                     idleTimer, micro, nexts, value, returns, arrived, finished>>
  BY DEF Reader!EngineAnswers, Reader!queues, Reader!calls
<1>2. /\ sub' \in [Trigs -> Reader!Engine!States] /\ UNCHANGED handed
      /\ \A u \in Trigs : sub'[u] \in {sub[u], "active", "failed"}
  <2>1. sub \in [Trigs -> Reader!Engine!States]
    BY ReaderTypes DEF ReaderInv
  <2>2. CASE Reader!Engine!Accept({t})
    BY <2>1, <2>2 DEF Reader!Engine!Accept, Reader!Engine!States
  <2>3. CASE Reader!Engine!Refuse(t)
    BY <2>1, <2>3 DEF Reader!Engine!Refuse, Reader!Engine!States
  <2> QED BY <1>1, <2>2, <2>3
<1>3. Reader!TypeOK'
  BY <1>1, <1>2 DEF ReaderInv, Reader!TypeOK, Reader!Engine!TypeOK
<1>4. Phases'
  BY <1>1, <1>2 DEF ReaderInv, Phases, AllSub
<1>5. Pulling' /\ Waiting' /\ InTurn' /\ Latest'
  BY <1>1 DEF ReaderInv, Pulling, Waiting, InTurn, Latest
<1> QED BY <1>3, <1>4, <1>5 DEF ReaderInv

LEMMA SubscribeAllDoneKeeps ==
    ASSUME ReaderInv, GraphQLAssumption, Reader!SubscribeAllDone
    PROVE  ReaderInv'
<1>1. /\ subscribePromise = "pending"
      /\ \A t \in Trigs : sub[t] \in {"active", "failed"}
      /\ UNCHANGED <<handed, idleTimer, micro, value, arrived, returns, finished>>
  BY DEF Reader!SubscribeAllDone
<1>2. sub \in [Trigs -> Reader!Engine!States] /\ Reader!Fulfilled \subseteq Trigs
  BY ReaderTypes DEF ReaderInv, Reader!Fulfilled
<1>3. CASE Reader!Fulfilled = Trigs
  <2>1. /\ subscribePromise' = "ok" /\ subscriptionIds' = Trigs
        /\ UNCHANGED <<sub, listening, pullQueue, pushQueue, nexts>>
    BY <1>3 DEF Reader!SubscribeAllDone, Reader!queues
  <2>2. Reader!TypeOK'
    BY <1>1, <2>1 DEF ReaderInv, Reader!TypeOK, Reader!Engine!TypeOK
  <2>3. \A t \in Trigs : sub[t] = "active"
    BY <1>3 DEF Reader!Fulfilled
  <2>4. Phases'
    BY <1>1, <2>1, <2>3 DEF ReaderInv, Phases, AllSub
  <2>5. Pulling' /\ Waiting' /\ InTurn' /\ Latest'
    BY <1>1, <2>1 DEF ReaderInv, Pulling, Waiting, InTurn, Latest
  <2> QED BY <2>2, <2>4, <2>5 DEF ReaderInv
<1>4. CASE Reader!Fulfilled # Trigs
  <2>1. subscribePromise' = "error" /\ Reader!Teardown(Reader!Fulfilled)
    BY <1>4 DEF Reader!SubscribeAllDone, Reader!RolledBack
  <2>2. /\ sub' = [t \in Trigs |-> IF t \in Reader!Fulfilled THEN "closed" ELSE sub[t]]
        /\ subscriptionIds' = {}
    BY <2>1 DEF Reader!Teardown
  <2>3. /\ nexts' \in [Reader!NextIds -> Reader!NextStates]
        /\ \A n \in Reader!NextIds : nexts'[n] = IF nexts[n] = "pull" THEN "done" ELSE nexts[n]
        /\ pullQueue' = <<>> /\ pushQueue' = <<>> /\ listening' = FALSE
        /\ Pulling' /\ InTurn' /\ Latest'
    BY <1>1, <1>2, <2>1, TornDown
  <2>4. Waiting'
    <3>1. \A k \in DOMAIN micro : micro[k] # 0 => micro[k] \in Reader!NextIds
      BY ReaderTypes DEF ReaderInv, Reader!NextIds
    <3> QED BY <1>1, <2>3, <3>1 DEF ReaderInv, Waiting
  <2>5. sub' \in [Trigs -> Reader!Engine!States] /\ \A t \in Trigs : sub'[t] \in {"closed", "failed"}
    BY <1>1, <1>2, <2>2 DEF Reader!Fulfilled, Reader!Engine!States
  <2>6. Reader!TypeOK'
    <3>1. /\ pullQueue' \in Seq(Reader!NextIds) /\ pushQueue' \in Seq(1 .. MaxMessages)
          /\ Len(pushQueue') <= MaxQueue
      BY <2>3, ReaderTypes DEF ReaderInv
    <3> QED BY <1>1, <2>1, <2>2, <2>3, <2>5, <3>1 DEF ReaderInv, Reader!TypeOK, Reader!Engine!TypeOK
  <2>7. Phases'
    BY <1>1, <2>1, <2>2, <2>3, <2>5 DEF ReaderInv, Phases, AllSub
  <2> QED BY <2>3, <2>4, <2>6, <2>7 DEF ReaderInv
<1> QED BY <1>3, <1>4

LEMMA CallNextKeeps ==
    ASSUME ReaderInv, GraphQLAssumption, NEW n \in Reader!NextIds, Reader!CallNext(n)
    PROVE  ReaderInv'
<1>1. /\ nexts[n] = "idle" /\ \A k \in 1 .. n - 1 : nexts[k] # "idle"
      /\ nexts' = [nexts EXCEPT ![n] = "await"] /\ micro' = Append(micro, n)
      /\ UNCHANGED <<sub, handed, listening, subscriptionIds, pullQueue, pushQueue,
                     subscribePromise, idleTimer, value, arrived, returns, finished>>
  BY DEF Reader!CallNext, Reader!queues
<1>2. /\ nexts \in [Reader!NextIds -> Reader!NextStates] /\ MaxNext \in Nat
      /\ Reader!NextIds = 1 .. MaxNext /\ n \in 0 .. MaxNext
  BY ReaderTypes DEF ReaderInv, Reader!NextIds
<1>3. /\ nexts' \in [Reader!NextIds -> Reader!NextStates]
      /\ \A k \in Reader!NextIds : nexts'[k] = IF k = n THEN "await" ELSE nexts[k]
  BY <1>1, <1>2 DEF Reader!NextStates
<1>4. \A k \in Reader!NextIds : (k < n => nexts[k] # "idle") /\ (n < k => nexts[k] = "idle")
  BY <1>1, <1>2 DEF ReaderInv, InTurn
<1>5. Waiting' /\ micro' \in Seq(0 .. MaxNext)
  <2>1. \A k \in Reader!NextIds : nexts[k] = "await" => k < n
    BY <1>1, <1>2, <1>4
  <2>2. \A k \in Reader!NextIds : nexts'[k] = "await" <=> nexts[k] = "await" \/ k = n
    BY <1>3
  <2> QED BY <1>1, <1>2, <2>1, <2>2, MicroAppend
<1>6. Reader!TypeOK'
  BY <1>1, <1>3, <1>5 DEF ReaderInv, Reader!TypeOK, Reader!Engine!TypeOK
<1>7. Phases'
  BY <1>1 DEF ReaderInv, Phases, AllSub
<1>8. Pulling'
  <2>1. \A k \in DOMAIN pullQueue : pullQueue[k] \in Reader!NextIds
    BY ReaderTypes DEF ReaderInv
  <2> QED BY <1>1, <1>3, <2>1 DEF ReaderInv, Pulling
<1>9. InTurn'
  <2>1. SUFFICES ASSUME NEW j \in Reader!NextIds, NEW k \in Reader!NextIds, j < k
                 PROVE  /\ nexts'[j] = "idle" => nexts'[k] = "idle"
                        /\ nexts'[j] = "await" => nexts'[k] \in {"idle", "await"}
                        /\ nexts'[k] = "value" => nexts'[j] = "value" /\ value[j] < value[k]
    BY <1>1 DEF InTurn
  <2>2. /\ nexts[j] = "idle" => nexts[k] = "idle"
        /\ nexts[j] = "await" => nexts[k] \in {"idle", "await"}
        /\ nexts[k] = "value" => nexts[j] = "value" /\ value[j] < value[k]
    BY <2>1 DEF ReaderInv, InTurn
  <2> QED BY <1>1, <1>3, <1>4, <2>1, <2>2
<1>10. Latest'
  BY <1>1, <1>3 DEF ReaderInv, Latest
<1> QED BY <1>5, <1>6, <1>7, <1>8, <1>9, <1>10 DEF ReaderInv

\* return() and throw() are called, or the idle watchdog calls return().
LEMMA ReturnKeeps ==
    ASSUME ReaderInv, GraphQLAssumption, Reader!CallReturn \/ Reader!IdleFires
    PROVE  ReaderInv'
<1>1. /\ idleTimer' = FALSE /\ micro' = Append(micro, 0) /\ returns' \in 0 .. MaxReturn
      /\ UNCHANGED <<sub, handed, listening, subscriptionIds, pullQueue, pushQueue,
                     subscribePromise, nexts, value, arrived, finished>>
  <2>1. returns \in 0 .. MaxReturn /\ MaxReturn \in Nat
    BY DEF ReaderInv, Reader!TypeOK, GraphQLAssumption, Reader!IteratorAssumption
  <2>2. CASE Reader!CallReturn
    <3>1. returns' = returns + 1 /\ returns < MaxReturn
      BY <2>2 DEF Reader!CallReturn
    <3>2. returns' \in 0 .. MaxReturn
      BY <2>1, <3>1
    <3> QED BY <2>2, <3>2 DEF Reader!CallReturn, Reader!queues
  <2>3. CASE Reader!IdleFires
    BY <2>1, <2>3 DEF Reader!IdleFires, Reader!queues, Reader!calls
  <2> QED BY <2>2, <2>3
<1>2. Waiting' /\ micro' \in Seq(0 .. MaxNext)
  <2>1. 0 \in 0 .. MaxNext /\ 0 \notin Reader!NextIds
    BY ReaderTypes DEF ReaderInv
  <2> QED BY <1>1, <2>1, MicroAppend
<1>3. Reader!TypeOK'
  BY <1>1, <1>2 DEF ReaderInv, Reader!TypeOK, Reader!Engine!TypeOK
<1>4. Phases'
  BY <1>1 DEF ReaderInv, Phases, AllSub
<1>5. Pulling' /\ InTurn' /\ Latest'
  BY <1>1 DEF ReaderInv, Pulling, InTurn, Latest
<1> QED BY <1>2, <1>3, <1>4, <1>5 DEF ReaderInv

\* What teardown() of the subscriptions in subscriptionIds leaves.
LEMMA ReturnGoesOnKeeps ==
    ASSUME ReaderInv, GraphQLAssumption, Reader!GoOn, Head(micro) = 0
    PROVE  ReaderInv'
<1>1. /\ micro # <<>> /\ subscribePromise \in {"ok", "error"}
      /\ Reader!Teardown(subscriptionIds) /\ finished' = finished + 1 /\ UNCHANGED value
      /\ micro' = Tail(micro)
      /\ UNCHANGED <<handed, subscribePromise, idleTimer, arrived, returns>>
  BY DEF Reader!GoOn, Reader!MayGoOn, Reader!ReturnGoesOn
<1>2. /\ sub' = [t \in Trigs |-> IF t \in subscriptionIds THEN "closed" ELSE sub[t]]
      /\ subscriptionIds' = {}
  BY <1>1 DEF Reader!Teardown
<1>3. sub \in [Trigs -> Reader!Engine!States] /\ subscriptionIds \subseteq Trigs
  BY ReaderTypes DEF ReaderInv
<1>4. /\ nexts' \in [Reader!NextIds -> Reader!NextStates]
      /\ \A n \in Reader!NextIds : nexts'[n] = IF nexts[n] = "pull" THEN "done" ELSE nexts[n]
      /\ pullQueue' = <<>> /\ pushQueue' = <<>> /\ listening' = FALSE
      /\ Pulling' /\ InTurn' /\ Latest'
  BY <1>1, <1>3, TornDown
<1>5. Waiting' /\ micro' \in Seq(0 .. MaxNext)
  <2>1. 0 \notin Reader!NextIds
    BY ReaderTypes DEF ReaderInv
  <2>2. \A n \in Reader!NextIds :
            nexts'[n] = "await" <=> nexts[n] = "await" /\ n # Head(micro)
    BY <1>4, <2>1
  <2> QED BY <1>1, <2>2, MicroShift
<1>6. sub' \in [Trigs -> Reader!Engine!States] /\ \A t \in Trigs : sub'[t] \in {"closed", "failed"}
  BY <1>1, <1>2, <1>3 DEF ReaderInv, Phases, AllSub, Reader!Engine!States
<1>7. Reader!TypeOK'
  <2>1. /\ pullQueue' \in Seq(Reader!NextIds) /\ pushQueue' \in Seq(1 .. MaxMessages)
        /\ Len(pushQueue') <= MaxQueue
    BY <1>4, ReaderTypes DEF ReaderInv
  <2>2. finished' \in Nat
    BY <1>1 DEF ReaderInv, Reader!TypeOK
  <2> QED BY <1>1, <1>2, <1>4, <1>5, <1>6, <2>1, <2>2
          DEF ReaderInv, Reader!TypeOK, Reader!Engine!TypeOK
<1>8. Phases'
  BY <1>1, <1>2, <1>4, <1>6 DEF Phases, AllSub
<1> QED BY <1>4, <1>5, <1>7, <1>8 DEF ReaderInv

\* A next() call whose turn has come: the earlier ones have gone on, the later ones wait.
LEMMA AtHead ==
    ASSUME ReaderInv, GraphQLAssumption, micro # <<>>, Head(micro) # 0
    PROVE  /\ Head(micro) \in Reader!NextIds /\ nexts[Head(micro)] = "await"
           /\ \A k \in Reader!NextIds :
                 /\ k < Head(micro) => nexts[k] \notin {"idle", "await"}
                 /\ Head(micro) < k => nexts[k] \in {"idle", "await"}
<1>1. /\ micro \in Seq(0 .. MaxNext) /\ DOMAIN micro = 1 .. Len(micro) /\ Len(micro) \in Nat
      /\ \A k \in DOMAIN micro : micro[k] \in 0 .. MaxNext
      /\ MaxNext \in Nat /\ Reader!NextIds = 1 .. MaxNext
  BY ReaderTypes DEF ReaderInv, Reader!NextIds
<1>2. Head(micro) = micro[1] /\ 1 \in DOMAIN micro
  BY <1>1, HeadTailProperties, EmptySeq
<1>3. micro[1] \in Reader!NextIds /\ nexts[micro[1]] = "await"
  BY <1>1, <1>2 DEF ReaderInv, Waiting
<1>4. ASSUME NEW k \in Reader!NextIds, k < micro[1]
      PROVE  nexts[k] \notin {"idle", "await"}
  <2>1. nexts[k] # "idle"
    BY <1>3, <1>4 DEF ReaderInv, InTurn
  <2>2. CASE nexts[k] = "await"
    <3>1. PICK i \in DOMAIN micro : micro[i] = k
      BY <2>2 DEF ReaderInv, Waiting
    <3>2. i # 1 /\ i > 1 /\ k # 0
      BY <1>1, <1>3, <1>4, <3>1
    <3>3. micro[1] < micro[i]
      BY <1>2, <1>3, <3>1, <3>2, ReaderTypes DEF ReaderInv, Waiting
    <3> QED BY <1>1, <1>3, <1>4, <3>1, <3>3
  <2> QED BY <2>1, <2>2
<1>5. ASSUME NEW k \in Reader!NextIds, micro[1] < k
      PROVE  nexts[k] \in {"idle", "await"}
  BY <1>3, <1>5 DEF ReaderInv, InTurn
<1> QED BY <1>2, <1>3, <1>4, <1>5

\* next() after the await, of an iterator that failed, has messages, waits or is done.
LEMMA NextGoesOnKeeps ==
    ASSUME ReaderInv, GraphQLAssumption, Reader!GoOn, Head(micro) # 0
    PROVE  ReaderInv'
<1>0. PICK n \in Reader!NextIds : n = Head(micro)
  BY AtHead DEF Reader!GoOn
<1>1. /\ micro # <<>> /\ subscribePromise \in {"ok", "error"}
      /\ Reader!NextGoesOn(n) /\ micro' = Tail(micro)
      /\ UNCHANGED <<sub, handed, listening, subscriptionIds, subscribePromise, idleTimer,
                     arrived, returns, finished>>
  BY <1>0 DEF Reader!GoOn, Reader!MayGoOn, Reader!NextGoesOn
<1>2. /\ nexts[n] = "await"
      /\ \A k \in Reader!NextIds : /\ k < n => nexts[k] \notin {"idle", "await"}
                                   /\ n < k => nexts[k] \in {"idle", "await"}
  BY <1>0, <1>1, AtHead
<1>3. /\ nexts \in [Reader!NextIds -> Reader!NextStates] /\ Reader!NextIds \subseteq Nat
      /\ value \in [Reader!NextIds -> 0 .. MaxMessages] /\ MaxMessages \in Nat
      /\ pullQueue \in Seq(Reader!NextIds) /\ DOMAIN pullQueue = 1 .. Len(pullQueue)
      /\ pushQueue \in Seq(1 .. MaxMessages) /\ DOMAIN pushQueue = 1 .. Len(pushQueue)
      /\ Len(pullQueue) \in Nat /\ Len(pushQueue) \in Nat /\ Len(pushQueue) <= MaxQueue
      /\ \A k \in DOMAIN pullQueue : pullQueue[k] \in Reader!NextIds
      /\ \A k \in DOMAIN pushQueue : pushQueue[k] \in 1 .. MaxMessages
      /\ MaxQueue \in Nat /\ arrived \in Nat
  BY ReaderTypes DEF ReaderInv
\* What is left to show of a state it can go to.
<1>4. ASSUME NEW s \in {"value", "pull", "done", "threw"}, nexts' = [nexts EXCEPT ![n] = s],
             s \in {"done", "threw"} => ~listening
      PROVE  /\ nexts' \in [Reader!NextIds -> Reader!NextStates]
             /\ \A k \in Reader!NextIds : nexts'[k] = IF k = n THEN s ELSE nexts[k]
             /\ Waiting' /\ micro' \in Seq(0 .. MaxNext)
             /\ Phases'
             /\ s # "value" /\ UNCHANGED value => InTurn'
             /\ s # "pull" /\ UNCHANGED <<pullQueue, pushQueue>> => Pulling'
  <2>1. /\ nexts' \in [Reader!NextIds -> Reader!NextStates]
        /\ \A k \in Reader!NextIds : nexts'[k] = IF k = n THEN s ELSE nexts[k]
    BY <1>3, <1>4 DEF Reader!NextStates
  <2>2. Waiting' /\ micro' \in Seq(0 .. MaxNext)
    <3>1. \A k \in Reader!NextIds : nexts'[k] = "await" <=> nexts[k] = "await" /\ k # Head(micro)
      BY <1>0, <2>1
    <3> QED BY <1>1, <3>1, MicroShift
  <2>3. Phases'
    BY <1>1 DEF ReaderInv, Phases, AllSub
  <2>4. ASSUME s # "value", UNCHANGED value PROVE InTurn'
    <3>1. SUFFICES ASSUME NEW j \in Reader!NextIds, NEW k \in Reader!NextIds, j < k
                   PROVE  /\ nexts'[j] = "idle" => nexts'[k] = "idle"
                          /\ nexts'[j] = "await" => nexts'[k] \in {"idle", "await"}
                          /\ nexts'[k] = "value" => nexts'[j] = "value" /\ value[j] < value[k]
      BY <2>4 DEF InTurn
    <3>2. /\ nexts[j] = "idle" => nexts[k] = "idle"
          /\ nexts[j] = "await" => nexts[k] \in {"idle", "await"}
          /\ nexts[k] = "value" => nexts[j] = "value" /\ value[j] < value[k]
      BY <3>1 DEF ReaderInv, InTurn
    <3> QED BY <1>2, <2>1, <2>4, <3>1, <3>2
  <2>5. ASSUME s # "pull", UNCHANGED <<pullQueue, pushQueue>> PROVE Pulling'
    BY <1>1, <1>2, <1>3, <2>1, <2>5 DEF ReaderInv, Pulling
  <2> QED BY <2>1, <2>2, <2>3, <2>4, <2>5
<1>5. CASE subscribePromise = "error"
  <2>1. nexts' = [nexts EXCEPT ![n] = "threw"] /\ UNCHANGED <<pullQueue, pushQueue, value>>
    BY <1>1, <1>5 DEF Reader!NextGoesOn, Reader!queues
  <2>2. ~listening
    BY <1>5 DEF ReaderInv, Phases
  <2>3. /\ nexts' \in [Reader!NextIds -> Reader!NextStates]
        /\ Waiting' /\ micro' \in Seq(0 .. MaxNext) /\ Phases' /\ InTurn' /\ Pulling'
    BY <1>4, <2>1, <2>2
  <2>4. Latest'
    BY <1>1, <2>2 DEF Latest
  <2>5. Reader!TypeOK'
    BY <1>1, <2>1, <2>3 DEF ReaderInv, Reader!TypeOK, Reader!Engine!TypeOK
  <2> QED BY <2>3, <2>4, <2>5 DEF ReaderInv
<1>6. CASE subscribePromise # "error" /\ pushQueue # <<>>
  <2>1. /\ nexts' = [nexts EXCEPT ![n] = "value"]
        /\ value' = [value EXCEPT ![n] = Head(pushQueue)]
        /\ pushQueue' = Tail(pushQueue) /\ UNCHANGED pullQueue
    BY <1>1, <1>6 DEF Reader!NextGoesOn
  <2>2. listening /\ pullQueue = <<>>
    BY <1>6 DEF ReaderInv, Pulling
  <2>3. /\ nexts' \in [Reader!NextIds -> Reader!NextStates]
        /\ \A k \in Reader!NextIds : nexts'[k] = IF k = n THEN "value" ELSE nexts[k]
        /\ Waiting' /\ micro' \in Seq(0 .. MaxNext) /\ Phases'
    BY <1>4, <2>1
  <2>4. /\ Len(pushQueue) > 0 /\ Head(pushQueue) = pushQueue[1]
        /\ pushQueue' \in Seq(1 .. MaxMessages) /\ Len(pushQueue') = Len(pushQueue) - 1
        /\ DOMAIN pushQueue' = 1 .. Len(pushQueue')
        /\ \A k \in DOMAIN pushQueue' : pushQueue'[k] = pushQueue[k + 1] /\ k + 1 \in DOMAIN pushQueue
    BY <1>3, <1>6, <2>1, HeadTailProperties, LenProperties, EmptySeq
  <2>5. /\ Len(pushQueue) <= arrived
        /\ \A k \in DOMAIN pushQueue : pushQueue[k] = arrived - Len(pushQueue) + k
        /\ \A k \in Reader!NextIds : nexts[k] \notin {"done", "threw"}
        /\ \A k \in Reader!NextIds : nexts[k] = "value" => value[k] + Len(pushQueue) <= arrived
    BY <2>2 DEF ReaderInv, Latest
  <2>6. pushQueue[1] = arrived - Len(pushQueue) + 1 /\ pushQueue[1] \in 1 .. MaxMessages
    <3>1. 1 \in DOMAIN pushQueue
      BY <1>3, <2>4
    <3> QED BY <1>3, <2>5, <3>1
  <2>7. /\ value' \in [Reader!NextIds -> 0 .. MaxMessages]
        /\ \A k \in Reader!NextIds : value'[k] = IF k = n THEN pushQueue[1] ELSE value[k]
    BY <1>3, <2>1, <2>4, <2>6
  <2>8. \A k \in Reader!NextIds : nexts[k] # "pull"
    BY <1>3, <2>2 DEF ReaderInv, Pulling
  <2>9. \A k \in Reader!NextIds : k < n => nexts[k] = "value"
    BY <1>2, <1>3, <2>5, <2>8 DEF Reader!NextStates
  <2>10. InTurn'
    <3>1. SUFFICES ASSUME NEW j \in Reader!NextIds, NEW k \in Reader!NextIds, j < k
                   PROVE  /\ nexts'[j] = "idle" => nexts'[k] = "idle"
                          /\ nexts'[j] = "await" => nexts'[k] \in {"idle", "await"}
                          /\ nexts'[k] = "value" => nexts'[j] = "value" /\ value'[j] < value'[k]
      BY DEF InTurn
    <3>2. CASE k = n
      <4>1. nexts[j] = "value" /\ j # n
        BY <1>3, <2>9, <3>1, <3>2
      <4>2. value[j] < pushQueue[1]
        <5>1. value[j] + Len(pushQueue) <= arrived /\ value[j] \in Nat
          BY <1>3, <2>5, <4>1
        <5> QED BY <1>3, <2>6, <5>1
      <4> QED BY <2>3, <2>7, <3>2, <4>1, <4>2
    <3>3. CASE k # n
      <4>1. /\ nexts[j] = "idle" => nexts[k] = "idle"
            /\ nexts[j] = "await" => nexts[k] \in {"idle", "await"}
            /\ nexts[k] = "value" => nexts[j] = "value" /\ value[j] < value[k]
        BY <3>1 DEF ReaderInv, InTurn
      <4> QED BY <1>2, <2>3, <2>7, <3>1, <3>3, <4>1
    <3> QED BY <3>2, <3>3
  <2>11. Pulling'
    <3>1. DOMAIN pullQueue = {}
      BY <2>2
    <3> QED BY <1>1, <2>1, <2>2, <2>3, <2>8, <3>1 DEF Pulling
  <2>12. Latest'
    <3>1. Len(pushQueue') <= arrived
      BY <1>3, <2>4, <2>5
    <3>2. \A k \in DOMAIN pushQueue' : pushQueue'[k] = arrived - Len(pushQueue') + k
      BY <1>3, <2>4, <2>5
    <3>3. \A k \in Reader!NextIds : nexts'[k] \notin {"done", "threw"}
      BY <2>3, <2>5
    <3>4. ASSUME NEW k \in Reader!NextIds, nexts'[k] = "value"
          PROVE  value'[k] + Len(pushQueue') <= arrived
      <4>1. CASE k = n
        BY <1>3, <2>4, <2>6, <2>7, <4>1
      <4>2. CASE k # n
        <5>1. value[k] \in Nat /\ value[k] + Len(pushQueue) <= arrived
          BY <1>3, <2>3, <2>5, <3>4, <4>2
        <5> QED BY <1>3, <2>4, <2>7, <4>2, <5>1
      <4> QED BY <4>1, <4>2
    <3> QED BY <1>1, <3>1, <3>2, <3>3, <3>4 DEF Latest
  <2>13. Reader!TypeOK'
    <3>1. Len(pushQueue') <= MaxQueue
      BY <1>3, <2>4
    <3> QED BY <1>1, <2>1, <2>3, <2>4, <2>7, <3>1
            DEF ReaderInv, Reader!TypeOK, Reader!Engine!TypeOK
  <2> QED BY <2>3, <2>10, <2>11, <2>12, <2>13 DEF ReaderInv
<1>7. CASE subscribePromise # "error" /\ pushQueue = <<>> /\ listening
  <2>1. /\ nexts' = [nexts EXCEPT ![n] = "pull"] /\ pullQueue' = Append(pullQueue, n)
        /\ UNCHANGED <<pushQueue, value>>
    BY <1>1, <1>7 DEF Reader!NextGoesOn
  <2>2. /\ nexts' \in [Reader!NextIds -> Reader!NextStates]
        /\ \A k \in Reader!NextIds : nexts'[k] = IF k = n THEN "pull" ELSE nexts[k]
        /\ Waiting' /\ micro' \in Seq(0 .. MaxNext) /\ Phases' /\ InTurn'
    BY <1>4, <2>1
  <2>3. /\ pullQueue' \in Seq(Reader!NextIds) /\ Len(pullQueue') = Len(pullQueue) + 1
        /\ DOMAIN pullQueue' = 1 .. Len(pullQueue) + 1 /\ pullQueue'[Len(pullQueue) + 1] = n
        /\ \A k \in DOMAIN pullQueue : pullQueue'[k] = pullQueue[k] /\ k \in DOMAIN pullQueue'
    BY <1>3, <2>1, AppendProperties, LenProperties
  <2>4. \A k \in DOMAIN pullQueue : nexts[pullQueue[k]] = "pull" /\ pullQueue[k] < n
    <3>1. SUFFICES ASSUME NEW k \in DOMAIN pullQueue
                   PROVE  nexts[pullQueue[k]] = "pull" /\ pullQueue[k] < n
      OBVIOUS
    <3>2. nexts[pullQueue[k]] = "pull" /\ pullQueue[k] \in Reader!NextIds
      BY <1>3, <3>1 DEF ReaderInv, Pulling
    <3>3. pullQueue[k] # n /\ ~(n < pullQueue[k])
      BY <1>2, <3>2
    <3>4. pullQueue[k] \in Nat /\ n \in Nat
      BY <1>3, <3>2
    <3>5. pullQueue[k] < n
      BY <3>3, <3>4
    <3> QED BY <3>2, <3>5
  <2>5. Pulling'
    <3>1. ASSUME NEW k \in DOMAIN pullQueue' PROVE nexts'[pullQueue'[k]] = "pull"
      <4>1. CASE k \in DOMAIN pullQueue
        BY <1>3, <2>2, <2>3, <2>4, <4>1
      <4>2. CASE k = Len(pullQueue) + 1
        BY <2>2, <2>3, <4>2
      <4> QED BY <1>3, <2>3, <3>1, <4>1, <4>2
    <3>2. ASSUME NEW j \in DOMAIN pullQueue', NEW k \in DOMAIN pullQueue', j < k
          PROVE  pullQueue'[j] < pullQueue'[k]
      <4>1. j \in DOMAIN pullQueue
        BY <1>3, <2>3, <3>2
      <4>2. CASE k \in DOMAIN pullQueue
        BY <2>3, <3>2, <4>1, <4>2 DEF ReaderInv, Pulling
      <4>3. CASE k = Len(pullQueue) + 1
        BY <2>3, <2>4, <4>1, <4>3
      <4> QED BY <1>3, <2>3, <3>2, <4>2, <4>3
    <3>3. ASSUME NEW k \in Reader!NextIds, nexts'[k] = "pull"
          PROVE  \E j \in DOMAIN pullQueue' : pullQueue'[j] = k
      <4>1. CASE k = n
        BY <1>3, <2>3, <4>1
      <4>2. CASE k # n
        <5>1. PICK j \in DOMAIN pullQueue : pullQueue[j] = k
          BY <2>2, <3>3, <4>2 DEF ReaderInv, Pulling
        <5> QED BY <2>3, <5>1
      <4> QED BY <4>1, <4>2
    <3> QED BY <1>1, <1>7, <2>1, <3>1, <3>2, <3>3 DEF Pulling
  <2>6. Latest'
    BY <1>1, <2>1, <2>2 DEF ReaderInv, Latest
  <2>7. Reader!TypeOK'
    BY <1>1, <2>1, <2>2, <2>3 DEF ReaderInv, Reader!TypeOK, Reader!Engine!TypeOK
  <2> QED BY <2>2, <2>5, <2>6, <2>7 DEF ReaderInv
<1>8. CASE subscribePromise # "error" /\ pushQueue = <<>> /\ ~listening
  <2>1. nexts' = [nexts EXCEPT ![n] = "done"] /\ UNCHANGED <<pullQueue, pushQueue, value>>
    BY <1>1, <1>8 DEF Reader!NextGoesOn, Reader!queues
  <2>2. /\ nexts' \in [Reader!NextIds -> Reader!NextStates]
        /\ Waiting' /\ micro' \in Seq(0 .. MaxNext) /\ Phases' /\ InTurn' /\ Pulling'
    BY <1>4, <1>8, <2>1
  <2>3. Latest'
    BY <1>1, <1>8 DEF Latest
  <2>4. Reader!TypeOK'
    BY <1>1, <2>1, <2>2 DEF ReaderInv, Reader!TypeOK, Reader!Engine!TypeOK
  <2> QED BY <2>2, <2>3, <2>4 DEF ReaderInv
<1> QED BY <1>5, <1>6, <1>7, <1>8

\* The engine hands a message over: to the oldest next() that waits, or to the buffer.
LEMMA PushValueKeeps ==
    ASSUME ReaderInv, GraphQLAssumption, NEW t \in Trigs, Reader!PushValue(t)
    PROVE  ReaderInv'
<1>0. PICK m \in Nat : m = arrived + 1
  BY ReaderTypes DEF ReaderInv
<1>1. /\ subscribePromise # "new" /\ arrived < MaxMessages
      /\ Reader!Engine!Hand(t) /\ arrived' = m
      /\ idleTimer' = (IF listening THEN IdleTimeout ELSE idleTimer)
      /\ UNCHANGED <<listening, subscriptionIds, subscribePromise, micro, returns, finished>>
  BY <1>0 DEF Reader!PushValue
<1>2. /\ nexts \in [Reader!NextIds -> Reader!NextStates] /\ Reader!NextIds \subseteq Nat
      /\ value \in [Reader!NextIds -> 0 .. MaxMessages] /\ MaxMessages \in Nat
      /\ pullQueue \in Seq(Reader!NextIds) /\ DOMAIN pullQueue = 1 .. Len(pullQueue)
      /\ pushQueue \in Seq(1 .. MaxMessages) /\ DOMAIN pushQueue = 1 .. Len(pushQueue)
      /\ Len(pullQueue) \in Nat /\ Len(pushQueue) \in Nat /\ Len(pushQueue) <= MaxQueue
      /\ \A k \in DOMAIN pullQueue : pullQueue[k] \in Reader!NextIds
      /\ \A k \in DOMAIN pushQueue : pushQueue[k] \in 1 .. MaxMessages
      /\ MaxQueue \in Nat /\ MaxQueue > 0 /\ arrived \in Nat
      /\ sub \in [Trigs -> Reader!Engine!States] /\ handed \in [Trigs -> Nat]
      /\ \A k \in DOMAIN micro : micro[k] # 0 => micro[k] \in Reader!NextIds
  BY ReaderTypes DEF ReaderInv, Reader!NextIds
<1>3. UNCHANGED sub /\ handed' \in [Trigs -> Nat] /\ sub[t] \in {"pending", "active"}
  BY <1>1, <1>2 DEF Reader!Engine!Hand
<1>4. idleTimer' \in BOOLEAN
  BY <1>1 DEF ReaderInv, Reader!TypeOK, GraphQLAssumption, Reader!IteratorAssumption
<1>5. m \in 1 .. MaxMessages /\ arrived' \in 0 .. MaxMessages
  BY <1>0, <1>1, <1>2
<1>6. Phases' /\ listening
  BY <1>1, <1>3 DEF ReaderInv, Phases, AllSub
<1>7. /\ Len(pushQueue) <= arrived
      /\ \A k \in DOMAIN pushQueue : pushQueue[k] = arrived - Len(pushQueue) + k
      /\ \A k \in Reader!NextIds : nexts[k] \notin {"done", "threw"}
      /\ \A k \in Reader!NextIds : nexts[k] = "value" => value[k] + Len(pushQueue) <= arrived
  BY <1>6 DEF ReaderInv, Latest
<1>8. CASE pullQueue # <<>>
  <2>0. PICK n \in Reader!NextIds : n = pullQueue[1] /\ n = Head(pullQueue)
    <3>1. 1 \in DOMAIN pullQueue /\ Head(pullQueue) = pullQueue[1]
      BY <1>2, <1>8, HeadTailProperties, EmptySeq
    <3> QED BY <1>2, <3>1
  <2>1. /\ nexts' = [nexts EXCEPT ![n] = "value"] /\ value' = [value EXCEPT ![n] = m]
        /\ pullQueue' = Tail(pullQueue) /\ UNCHANGED pushQueue /\ pushQueue = <<>>
    BY <1>0, <1>6, <1>8, <2>0 DEF Reader!PushValue, Reader!HasConsumer, ReaderInv, Pulling
  <2>2. /\ Len(pullQueue) > 0 /\ 1 \in DOMAIN pullQueue
        /\ pullQueue' \in Seq(Reader!NextIds) /\ Len(pullQueue') = Len(pullQueue) - 1
        /\ DOMAIN pullQueue' = 1 .. Len(pullQueue')
        /\ \A k \in DOMAIN pullQueue' : pullQueue'[k] = pullQueue[k + 1] /\ k + 1 \in DOMAIN pullQueue
    BY <1>2, <1>8, <2>1, HeadTailProperties, LenProperties, EmptySeq
  <2>3. /\ nexts' \in [Reader!NextIds -> Reader!NextStates]
        /\ \A k \in Reader!NextIds : nexts'[k] = IF k = n THEN "value" ELSE nexts[k]
        /\ value' \in [Reader!NextIds -> 0 .. MaxMessages]
        /\ \A k \in Reader!NextIds : value'[k] = IF k = n THEN m ELSE value[k]
    BY <1>2, <1>5, <2>1 DEF Reader!NextStates
  <2>4. nexts[n] = "pull" /\ \A k \in DOMAIN pullQueue : k > 1 => n < pullQueue[k]
    BY <1>2, <2>0, <2>2 DEF ReaderInv, Pulling
  <2>5. Pulling'
    <3>1. ASSUME NEW k \in DOMAIN pullQueue'
          PROVE  nexts'[pullQueue'[k]] = "pull"
      <4>1. k + 1 \in DOMAIN pullQueue /\ k + 1 > 1 /\ pullQueue[k + 1] \in Reader!NextIds
        BY <1>2, <2>2
      <4>2. nexts[pullQueue[k + 1]] = "pull"
        BY <4>1 DEF ReaderInv, Pulling
      <4>3. pullQueue[k + 1] # n
        BY <1>2, <2>4, <4>1
      <4> QED BY <2>2, <2>3, <4>1, <4>2, <4>3
    <3>2. ASSUME NEW j \in DOMAIN pullQueue', NEW k \in DOMAIN pullQueue', j < k
          PROVE  pullQueue'[j] < pullQueue'[k]
      BY <1>2, <2>2, <3>2 DEF ReaderInv, Pulling
    <3>3. ASSUME NEW k \in Reader!NextIds, nexts'[k] = "pull"
          PROVE  \E j \in DOMAIN pullQueue' : pullQueue'[j] = k
      <4>1. nexts[k] = "pull" /\ k # n
        BY <2>3, <3>3
      <4>2. PICK j \in DOMAIN pullQueue : pullQueue[j] = k
        BY <4>1 DEF ReaderInv, Pulling
      <4>3. j - 1 \in DOMAIN pullQueue' /\ pullQueue'[j - 1] = pullQueue[j]
        BY <1>2, <2>0, <2>2, <4>1, <4>2
      <4> QED BY <4>2, <4>3
    <3> QED BY <1>1, <1>6, <2>1, <3>1, <3>2, <3>3 DEF Pulling
  <2>6. Waiting'
    BY <1>1, <1>2, <2>3, <2>4 DEF ReaderInv, Waiting
  <2>7. \A k \in Reader!NextIds : /\ k < n => nexts[k] = "value"
                                  /\ n < k => nexts[k] # "value"
    <3>1. ASSUME NEW k \in Reader!NextIds, k < n PROVE nexts[k] = "value"
      <4>1. nexts[k] \notin {"idle", "await"}
        BY <2>4, <3>1 DEF ReaderInv, InTurn
      <4>2. nexts[k] # "pull"
        <5>1. SUFFICES ASSUME nexts[k] = "pull" PROVE FALSE
          OBVIOUS
        <5>2. PICK j \in DOMAIN pullQueue : pullQueue[j] = k
          BY <5>1 DEF ReaderInv, Pulling
        <5>3. j > 1
          BY <1>2, <2>0, <3>1, <5>2
        <5> QED BY <1>2, <2>4, <3>1, <5>2, <5>3
      <4> QED BY <1>2, <1>7, <4>1, <4>2 DEF Reader!NextStates
    <3>2. ASSUME NEW k \in Reader!NextIds, n < k PROVE nexts[k] # "value"
      BY <2>4, <3>2 DEF ReaderInv, InTurn
    <3> QED BY <3>1, <3>2
  <2>8. InTurn'
    <3>1. SUFFICES ASSUME NEW j \in Reader!NextIds, NEW k \in Reader!NextIds, j < k
                   PROVE  /\ nexts'[j] = "idle" => nexts'[k] = "idle"
                          /\ nexts'[j] = "await" => nexts'[k] \in {"idle", "await"}
                          /\ nexts'[k] = "value" => nexts'[j] = "value" /\ value'[j] < value'[k]
      BY DEF InTurn
    <3>2. CASE k = n
      <4>1. nexts[j] = "value" /\ j # n
        BY <1>2, <2>7, <3>1, <3>2
      <4>2. value[j] < m
        <5>1. value[j] + Len(pushQueue) <= arrived /\ value[j] \in Nat
          BY <1>2, <1>7, <4>1
        <5> QED BY <1>0, <1>2, <5>1
      <4> QED BY <2>3, <3>2, <4>1, <4>2
    <3>3. CASE k # n
      <4>1. /\ nexts[j] = "idle" => nexts[k] = "idle"
            /\ nexts[j] = "await" => nexts[k] \in {"idle", "await"}
            /\ nexts[k] = "value" => nexts[j] = "value" /\ value[j] < value[k]
        BY <3>1 DEF ReaderInv, InTurn
      <4> QED BY <2>3, <2>7, <3>1, <3>3, <4>1
    <3> QED BY <3>2, <3>3
  <2>9. Latest'
    <3>1. Len(pushQueue') <= arrived' /\ Len(pushQueue') = 0 /\ DOMAIN pushQueue' = {}
      BY <1>0, <1>1, <1>2, <2>1
    <3>2. ASSUME NEW k \in Reader!NextIds, nexts'[k] = "value"
          PROVE  value'[k] + Len(pushQueue') <= arrived'
      <4>1. CASE k = n
        BY <1>1, <2>3, <3>1, <4>1
      <4>2. CASE k # n
        <5>1. value[k] \in Nat /\ value[k] + Len(pushQueue) <= arrived
          BY <1>2, <1>7, <2>3, <3>2, <4>2
        <5> QED BY <1>0, <1>1, <1>2, <2>3, <3>1, <4>2, <5>1
      <4> QED BY <4>1, <4>2
    <3>3. \A k \in Reader!NextIds : nexts'[k] \notin {"done", "threw"}
      BY <1>7, <2>3
    <3> QED BY <1>1, <3>1, <3>2, <3>3 DEF Latest
  <2>10. Reader!TypeOK'
    BY <1>1, <1>3, <1>4, <1>5, <2>1, <2>2, <2>3
       DEF ReaderInv, Reader!TypeOK, Reader!Engine!TypeOK
  <2> QED BY <1>6, <2>5, <2>6, <2>8, <2>9, <2>10 DEF ReaderInv
<1>9. CASE pullQueue = <<>>
  <2>1. /\ pushQueue' = Append(IF Len(pushQueue) >= MaxQueue THEN Tail(pushQueue) ELSE pushQueue, m)
        /\ UNCHANGED <<pullQueue, nexts, value>>
    BY <1>0, <1>6, <1>9 DEF Reader!PushValue, Reader!HasConsumer, Reader!Buffered
  <2>2. PICK q \in Seq(1 .. MaxMessages) :
            /\ pushQueue' = Append(q, m) /\ Len(q) < MaxQueue
            /\ \A k \in 1 .. Len(q) : q[k] = arrived - Len(q) + k
            /\ Len(q) <= Len(pushQueue)
    <3>1. CASE Len(pushQueue) >= MaxQueue
      <4>1. /\ Tail(pushQueue) \in Seq(1 .. MaxMessages)
            /\ Len(Tail(pushQueue)) = Len(pushQueue) - 1
            /\ \A k \in 1 .. Len(pushQueue) - 1 : Tail(pushQueue)[k] = pushQueue[k + 1]
        BY <1>2, <3>1, HeadTailProperties, EmptySeq
      <4>2. \A k \in 1 .. Len(pushQueue) - 1 :
                Tail(pushQueue)[k] = arrived - (Len(pushQueue) - 1) + k
        <5>1. SUFFICES ASSUME NEW k \in 1 .. Len(pushQueue) - 1
                       PROVE  Tail(pushQueue)[k] = arrived - (Len(pushQueue) - 1) + k
          OBVIOUS
        <5>2. k + 1 \in DOMAIN pushQueue /\ k \in Nat
          BY <1>2, <5>1
        <5>3. pushQueue[k + 1] = arrived - Len(pushQueue) + (k + 1)
          BY <1>7, <5>2
        <5>4. arrived - Len(pushQueue) + (k + 1) = arrived - (Len(pushQueue) - 1) + k
          BY <1>2, <5>2
        <5> QED BY <4>1, <5>1, <5>3, <5>4
      <4>3. Len(pushQueue) - 1 < MaxQueue /\ Len(pushQueue) - 1 <= Len(pushQueue)
        BY <1>2
      <4> QED BY <2>1, <3>1, <4>1, <4>2, <4>3
    <3>2. CASE Len(pushQueue) < MaxQueue
      <4>1. ~(Len(pushQueue) >= MaxQueue)
        BY <1>2, <3>2
      <4>2. \A k \in 1 .. Len(pushQueue) : pushQueue[k] = arrived - Len(pushQueue) + k
        BY <1>2, <1>7
      <4>3. Len(pushQueue) <= Len(pushQueue)
        BY <1>2
      <4> QED BY <1>2, <2>1, <3>2, <4>1, <4>2, <4>3
    <3>3. Len(pushQueue) >= MaxQueue \/ Len(pushQueue) < MaxQueue
      BY <1>2
    <3> QED BY <3>1, <3>2, <3>3
  <2>3. /\ Len(q) \in Nat /\ pushQueue' \in Seq(1 .. MaxMessages)
        /\ Len(pushQueue') = Len(q) + 1 /\ DOMAIN pushQueue' = 1 .. Len(q) + 1
        /\ pushQueue'[Len(q) + 1] = m /\ \A k \in 1 .. Len(q) : pushQueue'[k] = q[k]
    BY <1>5, <2>2, AppendProperties, LenProperties
  <2>4. Pulling' /\ Waiting' /\ InTurn'
    BY <1>1, <1>6, <1>9, <2>1 DEF ReaderInv, Pulling, Waiting, InTurn
  <2>5. Latest'
    <3>1. Len(pushQueue') <= arrived'
      BY <1>0, <1>1, <1>2, <1>7, <2>2, <2>3
    <3>2. ASSUME NEW k \in DOMAIN pushQueue'
          PROVE  pushQueue'[k] = arrived' - Len(pushQueue') + k
      <4>1. CASE k \in 1 .. Len(q)
        BY <1>0, <1>1, <1>2, <2>2, <2>3, <4>1
      <4>2. CASE k = Len(q) + 1
        BY <1>0, <1>1, <1>2, <2>3, <4>2
      <4> QED BY <2>3, <4>1, <4>2
    <3>3. ASSUME NEW k \in Reader!NextIds, nexts'[k] = "value"
          PROVE  value'[k] + Len(pushQueue') <= arrived'
      <4>1. value[k] \in Nat /\ value[k] + Len(pushQueue) <= arrived
        BY <1>2, <1>7, <2>1, <3>3
      <4>2. value'[k] = value[k] /\ Len(pushQueue') <= Len(pushQueue) + 1
        <5>1. value'[k] = value[k]
          BY <2>1
        <5>2. Len(q) + 1 <= Len(pushQueue) + 1
          BY <1>2, <2>2, <2>3
        <5> QED BY <2>3, <5>1, <5>2
      <4>3. Len(pushQueue') \in Nat /\ arrived' = arrived + 1
        BY <1>0, <1>1, <2>3
      <4> QED BY <1>2, <4>1, <4>2, <4>3
    <3>4. \A k \in Reader!NextIds : nexts'[k] \notin {"done", "threw"}
      BY <1>7, <2>1
    <3> QED BY <1>1, <3>1, <3>2, <3>3, <3>4 DEF Latest
  <2>6. Reader!TypeOK'
    <3>1. Len(pushQueue') <= MaxQueue
      BY <1>2, <2>2, <2>3
    <3> QED BY <1>1, <1>3, <1>4, <1>5, <2>1, <2>3, <3>1
            DEF ReaderInv, Reader!TypeOK, Reader!Engine!TypeOK
  <2> QED BY <1>6, <2>4, <2>5, <2>6 DEF ReaderInv
<1> QED BY <1>8, <1>9

LEMMA ReaderStep ==
    ASSUME ReaderInv, GraphQLAssumption, [Reader!Next]_reader
    PROVE  ReaderInv'
<1>1. CASE UNCHANGED reader
  <2>1. Reader!TypeOK'
    BY <1>1 DEF reader, ReaderInv, Reader!TypeOK, Reader!Engine!TypeOK
  <2>2. Phases' /\ Pulling' /\ Waiting' /\ InTurn' /\ Latest'
    BY <1>1 DEF reader, ReaderInv, Phases, AllSub, Pulling, Waiting, InTurn, Latest
  <2> QED BY <2>1, <2>2 DEF ReaderInv
<1>2. CASE Reader!Construct
  BY <1>2, ConstructKeeps
<1>3. CASE \E t \in Trigs : Reader!PushValue(t) \/ Reader!EngineAnswers(t)
  BY <1>3, PushValueKeeps, EngineAnswersKeeps
<1>4. CASE Reader!SubscribeAllDone
  BY <1>4, SubscribeAllDoneKeeps
<1>5. CASE \E n \in Reader!NextIds : Reader!CallNext(n)
  BY <1>5, CallNextKeeps
<1>6. CASE Reader!CallReturn \/ Reader!IdleFires
  BY <1>6, ReturnKeeps
<1>7. CASE Reader!GoOn
  BY <1>7, ReturnGoesOnKeeps, NextGoesOnKeeps
<1> QED BY <1>1, <1>2, <1>3, <1>4, <1>5, <1>6, <1>7 DEF Reader!Next

LEMMA ReaderKeeps == ASSUME ReaderInv PROVE NothingLeaked /\ DeliveredInOrder
<1>1. NothingLeaked
  BY DEF ReaderInv, Phases, AllSub, NothingLeaked, Reader!NothingLeaked
<1>2. DeliveredInOrder
  BY DEF ReaderInv, InTurn, Latest, DeliveredInOrder, Reader!DeliveredInOrder
<1> QED BY <1>1, <1>2

\* Every step of the iterator is one of the engine's interface, or none.
LEMMA ReaderUsesEngine ==
    ASSUME ReaderInv, GraphQLAssumption, [Reader!Next]_reader
    PROVE  [Reader!Engine!Next]_(Reader!Engine!vars)
<1>1. CASE UNCHANGED <<sub, handed>>
  BY <1>1 DEF Reader!Engine!vars
<1>2. CASE Reader!Construct
  <2>1. /\ subscribePromise = "new" /\ sub' = [t \in Trigs |-> "pending"] /\ UNCHANGED handed
    BY <1>2 DEF Reader!Construct
  <2>2. sub \in [Trigs -> Reader!Engine!States] /\ \A t \in Trigs : sub[t] = "unused"
    BY <2>1, ReaderTypes DEF ReaderInv, Phases, AllSub
  <2>3. CASE Trigs = {}
    BY <2>1, <2>2, <2>3 DEF Reader!Engine!vars
  <2>4. CASE Trigs # {}
    <3>1. {} \in SUBSET Trigs /\ Trigs \in SUBSET Trigs
      OBVIOUS
    <3>2. sub' = [t \in Trigs |-> IF t \in {} THEN "active"
                                  ELSE IF t \in Trigs THEN "pending" ELSE sub[t]]
      BY <2>1
    <3>3. Reader!Engine!Subscribe(Trigs)
      BY <2>1, <2>2, <2>4, <3>1, <3>2 DEF Reader!Engine!Subscribe
    <3> QED BY <3>1, <3>3 DEF Reader!Engine!Next
  <2> QED BY <2>3, <2>4
<1>3. CASE \E t \in Trigs : Reader!PushValue(t) \/ Reader!EngineAnswers(t)
  <2>1. PICK t \in Trigs : Reader!PushValue(t) \/ Reader!EngineAnswers(t)
    BY <1>3
  <2>2. Reader!Engine!Hand(t) \/ Reader!Engine!Accept({t}) \/ Reader!Engine!Refuse(t)
    BY <2>1 DEF Reader!PushValue, Reader!EngineAnswers
  <2>3. {t} \in SUBSET Trigs
    OBVIOUS
  <2> QED BY <2>2, <2>3 DEF Reader!Engine!Next
<1>4. ASSUME NEW ids \in SUBSET Trigs, Reader!Teardown(ids), \A t \in ids : sub[t] = "active",
             UNCHANGED handed
      PROVE  Reader!Engine!Next
  BY <1>4 DEF Reader!Teardown, Reader!Engine!Unsubscribe, Reader!Engine!Next
<1>5. CASE Reader!SubscribeAllDone
  <2>1. CASE Reader!Fulfilled = Trigs
    BY <1>1, <1>5, <2>1 DEF Reader!SubscribeAllDone
  <2>2. CASE Reader!Fulfilled # Trigs
    BY <1>4, <1>5, <2>2 DEF Reader!SubscribeAllDone, Reader!RolledBack, Reader!Fulfilled
  <2> QED BY <2>1, <2>2
<1>6. CASE Reader!GoOn
  <2>1. CASE Head(micro) = 0
    <3>1. /\ subscribePromise \in {"ok", "error"} /\ Reader!Teardown(subscriptionIds)
          /\ UNCHANGED handed
      BY <1>6, <2>1 DEF Reader!GoOn, Reader!MayGoOn, Reader!ReturnGoesOn
    <3>2. subscriptionIds \subseteq Trigs /\ \A t \in subscriptionIds : sub[t] = "active"
      BY <3>1, ReaderTypes DEF ReaderInv, Phases, AllSub
    <3> QED BY <1>4, <3>1, <3>2
  <2>2. CASE Head(micro) # 0
    BY <1>1, <1>6, <2>2 DEF Reader!GoOn, Reader!NextGoesOn
  <2> QED BY <2>1, <2>2
<1>7. CASE \/ UNCHANGED reader \/ \E n \in Reader!NextIds : Reader!CallNext(n)
           \/ Reader!CallReturn \/ Reader!IdleFires
  BY <1>1, <1>7 DEF reader, Reader!CallNext, Reader!CallReturn, Reader!IdleFires
<1> QED BY <1>2, <1>3, <1>5, <1>6, <1>7 DEF Reader!Next

(***************************************************************************)
(* The GraphQL packages                                                    *)
(***************************************************************************)
\* A step is one of the part considered; the others keep still.
LEMMA PartStep == ASSUME [Next]_vars PROVE [Reader!Next]_reader
BY DEF Next, vars, Declares, Answers, Iterates

LEMMA ReaderInvariant == Spec => []ReaderInv
<1>1. Init => ReaderInv
  BY GraphQLAssumption, ReaderInit DEF Init
<1>2. ReaderInv /\ [Next]_vars => ReaderInv'
  BY GraphQLAssumption, ReaderStep, PartStep
<1> QED BY <1>1, <1>2, PTL DEF Spec

\* PubSubAsyncIterator: what a consumer's next() calls yield is in the order of arrival,
\* nothing follows a done or an error, and the buffer holds the latest messages, for any
\* number of messages and calls and any MAX_QUEUE_SIZE.
THEOREM MessagesInOrder == Spec => []DeliveredInOrder
<1>1. ReaderInv => DeliveredInOrder
  BY ReaderKeeps
<1> QED BY <1>1, ReaderInvariant, PTL

\* PubSubAsyncIterator.return(), throw() and the failure of subscribeAll(): no engine
\* subscription of any trigger is left open or still being opened.
THEOREM IteratorLeaksNothing == Spec => []NothingLeaked
<1>1. ReaderInv => NothingLeaked
  BY ReaderKeeps
<1> QED BY <1>1, ReaderInvariant, PTL

\* PubSubAsyncIterator implements its side of PubSubEngine, for any set of triggers: each is
\* subscribed once, and only what is active is unsubscribed, once.
THEOREM IteratorUsesEngine == Spec => EngineSpec
<1>1. Init => Reader!Engine!Init
  BY DEF Init, Reader!Init
<1>2. ReaderInv /\ [Next]_vars => [Reader!Engine!Next]_(Reader!Engine!vars)
  BY GraphQLAssumption, ReaderUsesEngine, PartStep
<1> QED BY <1>1, <1>2, ReaderInvariant, PTL
       DEF Spec, EngineSpec, Reader!EngineSpec, Reader!Engine!Spec

-----------------------------------------------------------------------------
(***************************************************************************)
(* Requests: the files of multipart bodies, and responses in chunks.       *)
(***************************************************************************)

\* A set of numbers that is not empty has a least one.
LEMMA LeastOf ==
    ASSUME NEW T \in SUBSET Nat, T # {}
    PROVE  \E n \in T : \A m \in T : n <= m
<1>1. PICK R : R = OpToRel(<, Nat)
  OBVIOUS
<1>2. IsWellFoundedOn(R, Nat)
  BY <1>1, NatLessThanWellFounded
<1>3. \A x, y \in Nat : x < y => <<x, y>> \in R
  BY <1>1 DEF OpToRel
<1>4. \E x \in T : \A y \in T : ~ (<<y, x>> \in R)
  BY <1>2, WFMin
<1>5. PICK x \in T : \A y \in T : ~ (<<y, x>> \in R)
  BY <1>4
<1>6. \A y \in T : x <= y
  <2> SUFFICES ASSUME NEW y \in T PROVE x <= y
    OBVIOUS
  <2>1. x \in Nat /\ y \in Nat /\ ~(y < x)
    BY <1>3, <1>5
  <2> QED BY <2>1
<1> QED BY <1>5, <1>6

\* What holds of zero and of the number after one it holds of holds of all.
LEMMA Climbs ==
    ASSUME NEW n \in Nat, NEW S, 0 \in S, \A i \in 1 .. n : i - 1 \in S => i \in S
    PROVE  0 .. n \subseteq S
<1> SUFFICES ASSUME NEW k \in 0 .. n, k \notin S PROVE FALSE
  OBVIOUS
<1>1. PICK U : U = {i \in 0 .. n : i \notin S}
  OBVIOUS
<1>2. U \in SUBSET Nat /\ U # {}
  BY <1>1
<1>3. PICK m \in U : \A j \in U : m <= j
  BY <1>2, LeastOf
<1>4. m \in 1 .. n /\ m \notin S
  BY <1>1, <1>3
<1>5. m - 1 \in 0 .. n /\ m - 1 \notin U
  BY <1>1, <1>3, <1>4
<1> QED BY <1>1, <1>4, <1>5

\* What setPath() calls the way to a path is the shorter sequences it begins with.
LEMMA AboveIsPrefix ==
    ASSUME NEW p \in Seq(STRING) \ {<<>>}, NEW q \in Seq(STRING) \ {<<>>}
    PROVE  /\ Http!IsPrefix(p, p)
           /\ q \in Http!Above(p) <=> Http!IsPrefix(q, p) /\ q # p
<1>1. PICK m \in Nat : m = Len(p) /\ m > 0 /\ DOMAIN p = 1 .. m
  BY EmptySeq, LenProperties
<1>2. PICK n \in Nat : n = Len(q) /\ n > 0 /\ DOMAIN q = 1 .. n
  BY EmptySeq, LenProperties
<1>3. SubSeq(q, 1, n) = q /\ SubSeq(p, 1, m) = p
  BY <1>1, <1>2, SubSeqFull
<1>4. Http!IsPrefix(p, p)
  BY <1>1 DEF Http!IsPrefix
<1>5. ASSUME q \in Http!Above(p) PROVE Http!IsPrefix(q, p) /\ q # p
  <2>1. PICK k \in 1 .. m - 1 : q = SubSeq(p, 1, k)
    BY <1>1, <1>5 DEF Http!Above
  <2>2. Len(q) = k
    <3>1. 1 \in Int /\ k \in Int /\ \A i \in 1 .. k : p[i] \in STRING
      BY <1>1, ElementOfSeq
    <3>2. Len(SubSeq(p, 1, k)) = IF 1 <= k THEN k - 1 + 1 ELSE 0
      BY <3>1, SubSeqProperties
    <3> QED BY <2>1, <3>2
  <2> QED BY <1>1, <1>2, <1>3, <2>1, <2>2 DEF Http!IsPrefix
<1>6. ASSUME Http!IsPrefix(q, p), q # p PROVE q \in Http!Above(p)
  <2>1. n <= m /\ q = SubSeq(p, 1, n)
    BY <1>1, <1>2, <1>3, <1>6 DEF Http!IsPrefix
  <2>2. n # m
    BY <1>3, <1>6, <2>1
  <2>3. n \in 1 .. m - 1
    BY <1>1, <1>2, <2>1, <2>2
  <2> QED BY <1>1, <2>1, <2>3 DEF Http!Above
<1> QED BY <1>4, <1>5, <1>6

\* f tells what stands after each of the first n places.
Fills(f, v, P, n) ==
    /\ f[0] = v
    /\ \A k \in 1 .. n : f[k] = Http!SetPath(f[k - 1], P[k].path, P[k].file)

LEMMA FillsExist ==
    ASSUME NEW N \in Nat, NEW v, NEW P
    PROVE  \E f : f = [k \in 0 .. N |-> f[k]] /\ Fills(f, v, P, N)
<1>1. PICK U : U = {n \in 0 .. N : \E f : f = [k \in 0 .. n |-> f[k]] /\ Fills(f, v, P, n)}
  OBVIOUS
<1>2. 0 \in U
  <2>1. PICK f : f = [k \in 0 .. 0 |-> v]
    OBVIOUS
  <2>2. f[0] = v /\ DOMAIN f = 0 .. 0 /\ f = [k \in 0 .. 0 |-> f[k]]
    BY <2>1
  <2>3. Fills(f, v, P, 0)
    BY <2>2 DEF Fills
  <2> QED BY <1>1, <2>2, <2>3
<1>3. ASSUME NEW n \in 1 .. N, n - 1 \in U PROVE n \in U
  <2>1. PICK f : f = [k \in 0 .. n - 1 |-> f[k]] /\ Fills(f, v, P, n - 1)
    BY <1>1, <1>3
  <2>2. PICK e : e = Http!SetPath(f[n - 1], P[n].path, P[n].file)
    OBVIOUS
  <2>3. PICK g : g = [k \in 0 .. n |-> IF k = n THEN e ELSE f[k]]
    OBVIOUS
  <2>4. /\ DOMAIN g = 0 .. n /\ g = [k \in 0 .. n |-> g[k]]
        /\ g[n] = e /\ \A k \in 0 .. n - 1 : g[k] = f[k]
    BY <2>3
  <2>5. Fills(g, v, P, n)
    <3>1. g[0] = v
      BY <2>1, <2>4 DEF Fills
    <3>2. ASSUME NEW k \in 1 .. n
          PROVE  g[k] = Http!SetPath(g[k - 1], P[k].path, P[k].file)
      <4>1. k - 1 \in 0 .. n - 1 /\ g[k - 1] = f[k - 1]
        BY <2>4
      <4>2. CASE k = n
        BY <2>2, <2>4, <4>1, <4>2
      <4>3. CASE k # n
        <5>1. k \in 1 .. n - 1 /\ k \in 0 .. n - 1
          BY <4>3
        <5>2. f[k] = Http!SetPath(f[k - 1], P[k].path, P[k].file)
          BY <2>1, <5>1 DEF Fills
        <5> QED BY <2>4, <4>1, <5>1, <5>2
      <4> QED BY <4>2, <4>3
    <3> QED BY <3>1, <3>2 DEF Fills
  <2>6. n \in 0 .. N
    OBVIOUS
  <2> QED BY <1>1, <2>4, <2>5, <2>6
<1>4. 0 .. N \subseteq U
  BY <1>2, <1>3, Climbs
<1>5. N \in U
  BY <1>4
<1> QED BY <1>1, <1>5

\* The operations with the places filled are what stands after the last of them.
LEMMA FilledIs ==
    ASSUME NEW v, NEW P, NEW N \in Nat, N = Len(P)
    PROVE  \E f : Fills(f, v, P, N) /\ Http!Filled(v, P) = f[N]
<1>1. PICK f : f = [k \in 0 .. N |-> f[k]] /\ Fills(f, v, P, N)
  BY FillsExist
<1>2. f = [k \in 0 .. N |-> IF k = 0 THEN v
                            ELSE Http!SetPath(f[k - 1], P[k].path, P[k].file)]
  <2>1. ASSUME NEW k \in 0 .. N
        PROVE  f[k] = IF k = 0 THEN v ELSE Http!SetPath(f[k - 1], P[k].path, P[k].file)
    <3>1. CASE k = 0
      BY <1>1, <3>1 DEF Fills
    <3>2. CASE k # 0
      <4>1. k \in 1 .. N
        BY <3>2
      <4> QED BY <1>1, <3>2, <4>1 DEF Fills
    <3> QED BY <3>1, <3>2
  <2> QED BY <1>1, <2>1
<1>3. PICK g : g = CHOOSE after : after = [k \in 0 .. N |->
                  IF k = 0 THEN v ELSE Http!SetPath(after[k - 1], P[k].path, P[k].file)]
  OBVIOUS
<1>4. g = [k \in 0 .. N |-> IF k = 0 THEN v
                            ELSE Http!SetPath(g[k - 1], P[k].path, P[k].file)]
  BY <1>2, <1>3
<1>5. Http!Filled(v, P) = g[N]
  BY <1>3 DEF Http!Filled
<1>6. Fills(g, v, P, N)
  <2>1. \A k \in 0 .. N : g[k] = IF k = 0 THEN v
                                ELSE Http!SetPath(g[k - 1], P[k].path, P[k].file)
    BY <1>4
  <2>2. g[0] = v
    BY <2>1
  <2>3. ASSUME NEW k \in 1 .. N
        PROVE  g[k] = Http!SetPath(g[k - 1], P[k].path, P[k].file)
    <3>1. k \in 0 .. N /\ k # 0
      OBVIOUS
    <3> QED BY <2>1, <3>1
  <2> QED BY <2>2, <2>3 DEF Fills
<1> QED BY <1>5, <1>6

Paths == Seq(STRING) \ {<<>>}

\* What no place up to the n-th fills, is under, or needs as an object.
Clear(v, P, n, q) == \A i \in 1 .. n :
    ~Http!IsPrefix(P[i].path, q) /\ (v[q] = Text => ~Http!IsPrefix(q, P[i].path))
\* The i-th place is not filled again by the n-th.
Kept(P, n, i) == \A j \in i + 1 .. n : ~Http!IsPrefix(P[j].path, P[i].path)

\* What the first n places have made of v, unless one of them was refused.
PlacedUpTo(a, v, P, n) ==
    /\ \A q : q \in DOMAIN a <=> \/ q \in DOMAIN v /\ Clear(v, P, n, q)
                                \/ \E i \in 1 .. n : Kept(P, n, i) /\ q = P[i].path
    /\ \A q \in DOMAIN v : Clear(v, P, n, q) => a[q] = v[q]
    /\ \A i \in 1 .. n : Kept(P, n, i) => a[P[i].path] = P[i].file
    /\ \A i \in 1 .. n : /\ Len(P[i].path) <= MaxDepth
                         /\ \A x \in DOMAIN P[i].path : P[i].path[x] \notin Unsafe

LEMMA SetPathIs ==
    ASSUME NEW a, NEW p \in Paths, NEW file, DOMAIN a \subseteq Paths, MaxDepth \in Nat,
           Http!SetPath(a, p, file) # Http!Error
    PROVE  /\ a # Http!Error
           /\ Len(p) <= MaxDepth /\ \A x \in DOMAIN p : p[x] \notin Unsafe
           /\ \A q : q \in DOMAIN Http!SetPath(a, p, file) <=>
                 \/ q = p
                 \/ /\ q \in DOMAIN a /\ ~Http!IsPrefix(p, q)
                    /\ a[q] = Text => ~Http!IsPrefix(q, p)
           /\ Http!SetPath(a, p, file)[p] = file
           /\ \A q \in DOMAIN Http!SetPath(a, p, file) :
                 q # p => Http!SetPath(a, p, file)[q] = a[q]
<1>1. PICK kept : kept = {q \in DOMAIN a : /\ ~Http!IsPrefix(p, q)
                                           /\ q \in Http!Above(p) => a[q] # Text}
  OBVIOUS
<1>2. PICK b : b = [q \in kept \union {p} |-> IF q = p THEN file ELSE a[q]]
  OBVIOUS
<1>3. /\ Http!SetPath(a, p, file) = b /\ a # Http!Error /\ ~(Len(p) > MaxDepth)
      /\ ~ \E x \in DOMAIN p : p[x] \in Unsafe
  BY <1>1, <1>2 DEF Http!SetPath
<1>4. Len(p) <= MaxDepth
  <2>1. Len(p) \in Nat
    BY LenProperties DEF Paths
  <2> QED BY <1>3, <2>1
<1>5. ASSUME NEW q \in DOMAIN a
      PROVE  q \in kept <=> /\ ~Http!IsPrefix(p, q)
                            /\ a[q] = Text => ~Http!IsPrefix(q, p)
  <2>1. q \in Paths
    OBVIOUS
  <2>2. Http!IsPrefix(p, p) /\ (q \in Http!Above(p) <=> Http!IsPrefix(q, p) /\ q # p)
    BY <2>1, AboveIsPrefix DEF Paths
  <2> QED BY <1>1, <2>2
<1>6. DOMAIN b = kept \union {p} /\ b[p] = file /\ \A q \in DOMAIN b : q # p => b[q] = a[q]
  BY <1>2
<1>7. kept \subseteq DOMAIN a
  BY <1>1
<1> QED BY <1>3, <1>4, <1>5, <1>6, <1>7

LEMMA PlacedStep ==
    ASSUME NEW v, NEW P, NEW n \in Nat \ {0}, NEW a, NEW b, MaxDepth \in Nat,
           DOMAIN v \subseteq Paths,
           \A i \in 1 .. n : P[i].path \in Paths /\ P[i].file # Text,
           PlacedUpTo(a, v, P, n - 1),
           b = Http!SetPath(a, P[n].path, P[n].file), b # Http!Error
    PROVE  PlacedUpTo(b, v, P, n)
<1>1. PICK p \in Paths : p = P[n].path
  OBVIOUS
<1>2. n \in 1 .. n /\ n - 1 \in Nat /\ \A i \in 1 .. n : i = n \/ i \in 1 .. n - 1
  OBVIOUS
<1>3. \A i \in 1 .. n - 1 : i \in 1 .. n
  OBVIOUS
<1>4. DOMAIN a \subseteq Paths
  <2>1. ASSUME NEW q \in DOMAIN a PROVE q \in Paths
    <3>1. CASE q \in DOMAIN v
      BY <3>1
    <3>2. CASE \E i \in 1 .. n - 1 : Kept(P, n - 1, i) /\ q = P[i].path
      BY <1>3, <3>2
    <3> QED BY <3>1, <3>2 DEF PlacedUpTo
  <2> QED BY <2>1
<1>5. /\ Len(p) <= MaxDepth /\ \A x \in DOMAIN p : p[x] \notin Unsafe
      /\ \A q : q \in DOMAIN b <=> \/ q = p
                                   \/ /\ q \in DOMAIN a /\ ~Http!IsPrefix(p, q)
                                      /\ a[q] = Text => ~Http!IsPrefix(q, p)
      /\ b[p] = P[n].file
      /\ \A q \in DOMAIN b : q # p => b[q] = a[q]
  <2>1. PICK file : file = P[n].file
    OBVIOUS
  <2>2. b = Http!SetPath(a, p, file) /\ Http!SetPath(a, p, file) # Http!Error
    BY <1>1, <2>1
  <2>3. /\ Len(p) <= MaxDepth /\ \A x \in DOMAIN p : p[x] \notin Unsafe
        /\ \A q : q \in DOMAIN b <=> \/ q = p
                                     \/ /\ q \in DOMAIN a /\ ~Http!IsPrefix(p, q)
                                        /\ a[q] = Text => ~Http!IsPrefix(q, p)
        /\ b[p] = file
        /\ \A q \in DOMAIN b : q # p => b[q] = a[q]
    BY <1>4, <2>2, SetPathIs
  <2> QED BY <2>1, <2>3
<1>6. ASSUME NEW q
      PROVE  Clear(v, P, n, q) <=> /\ Clear(v, P, n - 1, q) /\ ~Http!IsPrefix(p, q)
                                   /\ v[q] = Text => ~Http!IsPrefix(q, p)
  BY <1>1, <1>2, <1>3 DEF Clear
<1>7. ASSUME NEW i \in 1 .. n - 1
      PROVE  Kept(P, n, i) <=> Kept(P, n - 1, i) /\ ~Http!IsPrefix(p, P[i].path)
  <2>1. n \in i + 1 .. n /\ \A j \in i + 1 .. n : j = n \/ j \in i + 1 .. n - 1
    OBVIOUS
  <2>2. \A j \in i + 1 .. n - 1 : j \in i + 1 .. n
    OBVIOUS
  <2> QED BY <1>1, <2>1, <2>2 DEF Kept
<1>8. Kept(P, n, n)
  BY DEF Kept
<1>9. Http!IsPrefix(p, p)
  BY AboveIsPrefix DEF Paths
<1>10. \A q \in DOMAIN v : Clear(v, P, n - 1, q) => a[q] = v[q]
  BY DEF PlacedUpTo
<1>11. \A i \in 1 .. n - 1 : Kept(P, n - 1, i) => a[P[i].path] = P[i].file
  BY DEF PlacedUpTo
<1>12. \A q : q \in DOMAIN a <=> \/ q \in DOMAIN v /\ Clear(v, P, n - 1, q)
                                 \/ \E i \in 1 .. n - 1 : Kept(P, n - 1, i) /\ q = P[i].path
  BY DEF PlacedUpTo
<1>13. ASSUME NEW q \in DOMAIN v, Clear(v, P, n, q)
       PROVE  q \in DOMAIN b /\ b[q] = v[q]
  <2>1. Clear(v, P, n - 1, q) /\ ~Http!IsPrefix(p, q) /\ (v[q] = Text => ~Http!IsPrefix(q, p))
    BY <1>6, <1>13
  <2>2. q \in DOMAIN a /\ a[q] = v[q] /\ q # p
    BY <1>9, <1>10, <1>12, <2>1
  <2> QED BY <1>5, <2>1, <2>2
<1>14. ASSUME NEW i \in 1 .. n, Kept(P, n, i)
       PROVE  P[i].path \in DOMAIN b /\ b[P[i].path] = P[i].file
  <2>1. CASE i = n
    BY <1>1, <1>5, <2>1
  <2>2. CASE i # n
    <3>1. i \in 1 .. n - 1
      BY <1>2, <2>2
    <3>2. Kept(P, n - 1, i) /\ ~Http!IsPrefix(p, P[i].path)
      BY <1>7, <1>14, <3>1
    <3>3. P[i].path \in DOMAIN a
      BY <1>12, <3>1, <3>2
    <3>4. a[P[i].path] = P[i].file /\ P[i].file # Text
      BY <1>11, <3>1, <3>2
    <3>5. P[i].path # p
      BY <1>9, <3>2
    <3> QED BY <1>5, <3>2, <3>3, <3>4, <3>5
  <2> QED BY <2>1, <2>2
<1>15. ASSUME NEW q \in DOMAIN b
       PROVE  \/ q \in DOMAIN v /\ Clear(v, P, n, q)
              \/ \E i \in 1 .. n : Kept(P, n, i) /\ q = P[i].path
  <2>1. CASE q = p
    BY <1>1, <1>2, <1>8, <2>1
  <2>2. CASE q # p
    <3>1. q \in DOMAIN a /\ ~Http!IsPrefix(p, q) /\ (a[q] = Text => ~Http!IsPrefix(q, p))
      BY <1>5, <2>2
    <3>2. CASE q \in DOMAIN v /\ Clear(v, P, n - 1, q)
      <4>1. a[q] = v[q]
        BY <1>10, <3>2
      <4>2. Clear(v, P, n, q)
        BY <1>6, <3>1, <3>2, <4>1
      <4> QED BY <3>2, <4>2
    <3>3. ASSUME NEW i \in 1 .. n - 1, Kept(P, n - 1, i), q = P[i].path
          PROVE  Kept(P, n, i) /\ i \in 1 .. n
      BY <1>3, <1>7, <3>1, <3>3
    <3> QED BY <1>12, <3>1, <3>2, <3>3
  <2> QED BY <2>1, <2>2
<1>16. \A i \in 1 .. n : /\ Len(P[i].path) <= MaxDepth
                         /\ \A x \in DOMAIN P[i].path : P[i].path[x] \notin Unsafe
  <2>1. \A i \in 1 .. n - 1 : /\ Len(P[i].path) <= MaxDepth
                              /\ \A x \in DOMAIN P[i].path : P[i].path[x] \notin Unsafe
    BY DEF PlacedUpTo
  <2> QED BY <1>1, <1>2, <1>5, <2>1
<1>17. \A q : q \in DOMAIN b <=> \/ q \in DOMAIN v /\ Clear(v, P, n, q)
                                 \/ \E i \in 1 .. n : Kept(P, n, i) /\ q = P[i].path
  BY <1>13, <1>14, <1>15
<1> QED BY <1>13, <1>14, <1>16, <1>17 DEF PlacedUpTo

LEMMA FilledPlaced ==
    ASSUME NEW v, NEW P, NEW N \in Nat, N = Len(P), MaxDepth \in Nat, DOMAIN v \subseteq Paths,
           \A i \in 1 .. N : P[i].path \in Paths /\ P[i].file # Text,
           Http!Filled(v, P) # Http!Error
    PROVE  PlacedUpTo(Http!Filled(v, P), v, P, N)
<1>1. PICK f : Fills(f, v, P, N) /\ Http!Filled(v, P) = f[N]
  BY FilledIs
<1>2. PICK U : U = {k \in 0 .. N : f[k] # Http!Error => PlacedUpTo(f[k], v, P, k)}
  OBVIOUS
<1>3. 0 \in U
  <2>1. f[0] = v
    BY <1>1 DEF Fills
  <2>2. PlacedUpTo(v, v, P, 0)
    BY DEF PlacedUpTo, Clear
  <2> QED BY <1>2, <2>1, <2>2
<1>4. ASSUME NEW k \in 1 .. N, k - 1 \in U PROVE k \in U
  <2>1. k \in 0 .. N /\ k \in Nat \ {0} /\ \A i \in 1 .. k : i \in 1 .. N
    OBVIOUS
  <2>2. f[k] = Http!SetPath(f[k - 1], P[k].path, P[k].file)
    BY <1>1 DEF Fills
  <2>3. ASSUME f[k] # Http!Error PROVE PlacedUpTo(f[k], v, P, k)
    <3>1. f[k - 1] # Http!Error
      BY <2>2, <2>3 DEF Http!SetPath
    <3>2. PlacedUpTo(f[k - 1], v, P, k - 1)
      BY <1>2, <1>4, <3>1
    <3> QED BY <2>1, <2>2, <2>3, <3>2, PlacedStep
  <2> QED BY <1>2, <2>1, <2>3
<1>5. 0 .. N \subseteq U
  BY <1>3, <1>4, Climbs
<1>6. N \in U
  BY <1>5
<1> QED BY <1>1, <1>2, <1>6

\* f tells which places the first n files of the map have.
Joins(f, u, n) ==
    /\ f[0] = <<>>
    /\ \A k \in 1 .. n : f[k] = f[k - 1] \o Http!OfFile(u.map[k])

LEMMA JoinsExist ==
    ASSUME NEW N \in Nat, NEW u
    PROVE  \E f : f = [k \in 0 .. N |-> f[k]] /\ Joins(f, u, N)
<1>1. PICK U : U = {n \in 0 .. N : \E f : f = [k \in 0 .. n |-> f[k]] /\ Joins(f, u, n)}
  OBVIOUS
<1>2. 0 \in U
  <2>1. PICK f : f = [k \in 0 .. 0 |-> <<>>]
    OBVIOUS
  <2>2. f[0] = <<>> /\ DOMAIN f = 0 .. 0 /\ f = [k \in 0 .. 0 |-> f[k]]
    BY <2>1
  <2>3. Joins(f, u, 0)
    BY <2>2 DEF Joins
  <2> QED BY <1>1, <2>2, <2>3
<1>3. ASSUME NEW n \in 1 .. N, n - 1 \in U PROVE n \in U
  <2>1. PICK f : f = [k \in 0 .. n - 1 |-> f[k]] /\ Joins(f, u, n - 1)
    BY <1>1, <1>3
  <2>2. PICK e : e = f[n - 1] \o Http!OfFile(u.map[n])
    OBVIOUS
  <2>3. PICK g : g = [k \in 0 .. n |-> IF k = n THEN e ELSE f[k]]
    OBVIOUS
  <2>4. /\ DOMAIN g = 0 .. n /\ g = [k \in 0 .. n |-> g[k]]
        /\ g[n] = e /\ \A k \in 0 .. n - 1 : g[k] = f[k]
    BY <2>3
  <2>5. Joins(g, u, n)
    <3>1. g[0] = <<>>
      BY <2>1, <2>4 DEF Joins
    <3>2. ASSUME NEW k \in 1 .. n PROVE g[k] = g[k - 1] \o Http!OfFile(u.map[k])
      <4>1. k - 1 \in 0 .. n - 1 /\ g[k - 1] = f[k - 1]
        BY <2>4
      <4>2. CASE k = n
        BY <2>2, <2>4, <4>1, <4>2
      <4>3. CASE k # n
        <5>1. k \in 1 .. n - 1 /\ k \in 0 .. n - 1
          BY <4>3
        <5>2. f[k] = f[k - 1] \o Http!OfFile(u.map[k])
          BY <2>1, <5>1 DEF Joins
        <5> QED BY <2>4, <4>1, <5>1, <5>2
      <4> QED BY <4>2, <4>3
    <3> QED BY <3>1, <3>2 DEF Joins
  <2>6. n \in 0 .. N
    OBVIOUS
  <2> QED BY <1>1, <2>4, <2>5, <2>6
<1>4. 0 .. N \subseteq U
  BY <1>2, <1>3, Climbs
<1>5. N \in U
  BY <1>4
<1> QED BY <1>1, <1>5

\* The places are what the files of the map have in turn.
LEMMA PlacementsIs ==
    ASSUME NEW u, NEW N \in Nat, N = Len(u.map)
    PROVE  \E f : Joins(f, u, N) /\ Http!Placements(u) = f[N]
<1>1. PICK f : f = [k \in 0 .. N |-> f[k]] /\ Joins(f, u, N)
  BY JoinsExist
<1>2. f = [k \in 0 .. N |-> IF k = 0 THEN <<>> ELSE f[k - 1] \o Http!OfFile(u.map[k])]
  <2>1. ASSUME NEW k \in 0 .. N
        PROVE  f[k] = IF k = 0 THEN <<>> ELSE f[k - 1] \o Http!OfFile(u.map[k])
    <3>1. CASE k = 0
      BY <1>1, <3>1 DEF Joins
    <3>2. CASE k # 0
      <4>1. k \in 1 .. N
        BY <3>2
      <4> QED BY <1>1, <3>2, <4>1 DEF Joins
    <3> QED BY <3>1, <3>2
  <2> QED BY <1>1, <2>1
<1>3. PICK g : g = CHOOSE upTo : upTo = [k \in 0 .. N |->
                   IF k = 0 THEN <<>> ELSE upTo[k - 1] \o Http!OfFile(u.map[k])]
  OBVIOUS
<1>4. g = [k \in 0 .. N |-> IF k = 0 THEN <<>> ELSE g[k - 1] \o Http!OfFile(u.map[k])]
  BY <1>2, <1>3
<1>5. Http!Placements(u) = g[N]
  BY <1>3 DEF Http!Placements
<1>6. Joins(g, u, N)
  <2>1. \A k \in 0 .. N : g[k] = IF k = 0 THEN <<>> ELSE g[k - 1] \o Http!OfFile(u.map[k])
    BY <1>4
  <2>2. g[0] = <<>>
    BY <2>1
  <2>3. ASSUME NEW k \in 1 .. N PROVE g[k] = g[k - 1] \o Http!OfFile(u.map[k])
    <3>1. k \in 0 .. N /\ k # 0
      OBVIOUS
    <3> QED BY <2>1, <3>1
  <2> QED BY <2>2, <2>3 DEF Joins
<1> QED BY <1>5, <1>6

Files(u) == {u.map[j].file : j \in 1 .. Len(u.map)}

\* Every place is a path with a file of the map.
LEMMA PlacementsTyped ==
    ASSUME GraphQLAssumption, NEW u \in Uploads
    PROVE  /\ Http!Placements(u) \in Seq([file : Files(u), path : Paths])
           /\ Len(u.map) \in Nat /\ DOMAIN u.map = 1 .. Len(u.map)
           /\ DOMAIN u.operations \subseteq Paths
           /\ \A f \in Files(u) : f \notin {Null, Text}
           /\ MaxDepth \in Nat /\ MaxFiles \in Nat
<1>0. PICK T : T = [file : Files(u), path : Paths]
  OBVIOUS
<1>1. /\ MaxFiles \in Nat /\ MaxDepth \in Nat /\ DOMAIN u.operations \subseteq Paths
      /\ u.map \in Seq(Http!Range(u.map))
      /\ \A m \in Http!Range(u.map) : /\ m.file \notin {Null, Text}
                                      /\ m.paths \in Seq(Paths)
  BY DEF GraphQLAssumption, Http!UploadsAssumption, Paths
<1>2. PICK N \in Nat : N = Len(u.map) /\ DOMAIN u.map = 1 .. N
  BY <1>1, LenProperties
<1>3. \A j \in 1 .. N : u.map[j] \in Http!Range(u.map)
  BY <1>2 DEF Http!Range
<1>4. ASSUME NEW j \in 1 .. N PROVE Http!OfFile(u.map[j]) \in Seq(T)
  <2>1. PICK s \in Seq(Paths) : s = u.map[j].paths
    BY <1>1, <1>3
  <2>2. PICK n \in Nat : n = Len(s) /\ DOMAIN s = 1 .. n /\ \A i \in 1 .. n : s[i] \in Paths
    BY LenProperties, ElementOfSeq
  <2>3. PICK f \in Files(u) : f = u.map[j].file
    BY <1>2 DEF Files
  <2>4. PICK r : r = [i \in 1 .. n |-> [file |-> f, path |-> s[i]]]
    OBVIOUS
  <2>5. r \in [1 .. n -> T]
    BY <1>0, <2>2, <2>3, <2>4
  <2>6. r \in Seq(T)
    BY <2>5, SeqDef
  <2>7. <<>> \in Seq(T)
    BY EmptySeq
  <2>8. Http!OfFile(u.map[j]) = IF f = Http!NotAFile THEN <<>> ELSE r
    BY <2>1, <2>2, <2>3, <2>4 DEF Http!OfFile
  <2> QED BY <2>6, <2>7, <2>8
<1>5. PICK f : Joins(f, u, N) /\ Http!Placements(u) = f[N]
  BY <1>2, PlacementsIs
<1>6. PICK U : U = {k \in 0 .. N : f[k] \in Seq(T)}
  OBVIOUS
<1>7. 0 \in U
  <2>1. f[0] = <<>>
    BY <1>5 DEF Joins
  <2>2. <<>> \in Seq(T)
    BY EmptySeq
  <2>3. f[0] \in Seq(T) /\ 0 \in 0 .. N
    BY <2>1, <2>2
  <2> QED BY <1>6, <2>3
<1>8. ASSUME NEW k \in 1 .. N, k - 1 \in U PROVE k \in U
  <2>1. f[k - 1] \in Seq(T) /\ Http!OfFile(u.map[k]) \in Seq(T) /\ k \in 0 .. N
    BY <1>4, <1>6, <1>8
  <2>2. f[k] = f[k - 1] \o Http!OfFile(u.map[k])
    BY <1>5 DEF Joins
  <2>3. f[k - 1] \o Http!OfFile(u.map[k]) \in Seq(T)
    BY <2>1, ConcatProperties
  <2> QED BY <1>6, <2>1, <2>2, <2>3
<1>9. 0 .. N \subseteq U
  BY <1>7, <1>8, Climbs
<1>10. N \in U
  BY <1>9
<1>11. \A f1 \in Files(u) : f1 \notin {Null, Text}
  BY <1>1, <1>2, <1>3 DEF Files
<1> QED BY <1>0, <1>1, <1>2, <1>5, <1>6, <1>10, <1>11

\* What UploadsPlaced says of one upload that has been let through.
RightlyPlaced(b, u) ==
    LET places == Http!Placements(u)
        given == {k \in DOMAIN places : Http!Stays(u, k)}
        rest == {q \in DOMAIN u.operations : Http!Untouched(u, q)}
    IN /\ DOMAIN b = rest \union {places[k].path : k \in given}
       /\ \A k \in given : b[places[k].path] = places[k].file
       /\ \A q \in rest : b[q] = u.operations[q]
       /\ \A k \in DOMAIN places : /\ Len(places[k].path) <= MaxDepth
                                   /\ Http!Range(places[k].path) \intersect Unsafe = {}
                                   /\ places[k].file \notin Oversized
       /\ Http!Cardinality({places[k].file : k \in DOMAIN places}) <= MaxFiles

LEMMA PlacedRightly ==
    ASSUME GraphQLAssumption, NEW u \in Uploads, Http!Placed(u) # Http!Error
    PROVE  RightlyPlaced(Http!Placed(u), u)
<1>1. PICK T : T = [file : Files(u), path : Paths]
  OBVIOUS
<1>2. PICK P \in Seq(T) : P = Http!Placements(u)
  BY <1>1, PlacementsTyped
<1>3. PICK N \in Nat : N = Len(P) /\ DOMAIN P = 1 .. N
  BY LenProperties
<1>4. \A i \in 1 .. N : P[i].path \in Paths /\ P[i].file \in Files(u)
  <2>1. \A i \in 1 .. N : P[i] \in T
    BY <1>3, ElementOfSeq
  <2> QED BY <1>1, <2>1
<1>5. PICK v : v = u.operations
  OBVIOUS
<1>6. /\ Len(u.map) \in Nat /\ DOMAIN u.map = 1 .. Len(u.map)
      /\ DOMAIN v \subseteq Paths /\ Text \notin Files(u)
      /\ MaxDepth \in Nat /\ MaxFiles \in Nat
  BY <1>5, PlacementsTyped
<1>7. PICK b : b = Http!Placed(u)
  OBVIOUS
<1>8. /\ b = Http!Filled(v, P) /\ b # Http!Error /\ ~(Len(u.map) > MaxFiles)
      /\ ~ \E k \in DOMAIN u.map : u.map[k].file \in Oversized
  BY <1>2, <1>5, <1>7 DEF Http!Placed
<1>9. PlacedUpTo(b, v, P, N)
  <2>1. \A i \in 1 .. N : P[i].path \in Paths /\ P[i].file # Text
    BY <1>4, <1>6
  <2> QED BY <1>3, <1>6, <1>8, <2>1, FilledPlaced
<1>10. ASSUME NEW k \in 1 .. N PROVE Http!Stays(u, k) <=> Kept(P, N, k)
  <2>1. \A j \in 1 .. N : j > k <=> j \in k + 1 .. N
    BY <1>3
  <2>2. \A j \in k + 1 .. N : j \in 1 .. N
    BY <1>3
  <2> QED BY <1>2, <1>3, <2>1, <2>2 DEF Http!Stays, Kept
<1>11. ASSUME NEW q PROVE Http!Untouched(u, q) <=> Clear(v, P, N, q)
  BY <1>2, <1>3, <1>5 DEF Http!Untouched, Clear
<1>12. PICK given : given = {k \in 1 .. N : Http!Stays(u, k)}
  OBVIOUS
<1>13. PICK rest : rest = {q \in DOMAIN v : Http!Untouched(u, q)}
  OBVIOUS
<1>14. DOMAIN b = rest \union {P[k].path : k \in given}
  <2>1. \A q : q \in DOMAIN b <=> \/ q \in DOMAIN v /\ Clear(v, P, N, q)
                                  \/ \E i \in 1 .. N : Kept(P, N, i) /\ q = P[i].path
    BY <1>9 DEF PlacedUpTo
  <2>2. \A q : q \in rest <=> q \in DOMAIN v /\ Clear(v, P, N, q)
    BY <1>11, <1>13
  <2>3. \A i : i \in given <=> i \in 1 .. N /\ Kept(P, N, i)
    BY <1>10, <1>12
  <2> QED BY <2>1, <2>2, <2>3
<1>15. \A k \in given : b[P[k].path] = P[k].file
  BY <1>9, <1>10, <1>12 DEF PlacedUpTo
<1>16. \A q \in rest : b[q] = v[q]
  BY <1>9, <1>11, <1>13 DEF PlacedUpTo
<1>17. \A k \in 1 .. N : /\ Len(P[k].path) <= MaxDepth
                         /\ Http!Range(P[k].path) \intersect Unsafe = {}
                         /\ P[k].file \notin Oversized
  <2>1. \A f \in Files(u) : f \notin Oversized
    BY <1>6, <1>8 DEF Files
  <2>2. \A k \in 1 .. N : Http!Range(P[k].path) \intersect Unsafe = {}
    BY <1>9 DEF PlacedUpTo, Http!Range
  <2>3. \A k \in 1 .. N : Len(P[k].path) <= MaxDepth
    BY <1>9 DEF PlacedUpTo
  <2> QED BY <1>4, <2>1, <2>2, <2>3
<1>18. PICK F : F = {P[k].file : k \in 1 .. N}
  OBVIOUS
<1>19. Http!Cardinality(F) <= MaxFiles
  <2>1. PICK L \in Nat : L = Len(u.map)
    BY <1>6
  <2>2. PICK g : g = [j \in 1 .. L |-> u.map[j].file]
    OBVIOUS
  <2>3. g \in Surjection(1 .. L, Files(u))
    BY <2>1, <2>2 DEF Surjection, Files
  <2>4. IsFiniteSet(1 .. L) /\ Cardinality(1 .. L) = L
    <3>1. 1 \in Int /\ L \in Int
      BY <2>1
    <3>2. Cardinality(1 .. L) = (IF 1 > L THEN 0 ELSE L - 1 + 1) /\ IsFiniteSet(1 .. L)
      BY <3>1, FS_Interval
    <3>3. (IF 1 > L THEN 0 ELSE L - 1 + 1) = L
      BY <2>1
    <3> QED BY <3>2, <3>3
  <2>5. IsFiniteSet(Files(u)) /\ Cardinality(Files(u)) <= L
    BY <2>3, <2>4, FS_Surjection
  <2>6. F \subseteq Files(u)
    BY <1>4, <1>18
  <2>7. Cardinality(F) <= Cardinality(Files(u)) /\ IsFiniteSet(F)
    BY <2>5, <2>6, FS_Subset
  <2>8. Cardinality(F) \in Nat /\ Cardinality(Files(u)) \in Nat
    BY <2>5, <2>7, FS_CardinalityType
  <2>9. Http!Cardinality(F) = Cardinality(F)
    BY Zenon DEF Http!Cardinality, Cardinality
  <2> QED BY <1>6, <1>8, <2>1, <2>5, <2>7, <2>8, <2>9
<1>20. RightlyPlaced(b, u)
  <2>1. DOMAIN Http!Placements(u) = 1 .. N
    BY <1>2, <1>3
  <2> QED BY <1>2, <1>5, <1>12, <1>13, <1>14, <1>15, <1>16, <1>17, <1>18, <1>19, <2>1
           DEF RightlyPlaced
<1> QED BY <1>7, <1>20

PostStates == {"idle", "refused", "executing", "draining", "answered", "failed"}
IterStates == {"none", "open", "returned"}

HttpTyped ==
    /\ post \in [Posts -> PostStates]
    /\ upload = [r \in Posts |-> upload[r]] /\ body = [r \in Posts |-> body[r]]
    /\ chunks \in [Posts -> [iter : IterStates, taken : Nat]]

\* What came of an upload is what Apollo Server gets, and was not refused.
PlacedOnce(r) == upload[r] # Http!Nothing =>
    /\ upload[r] \in Uploads /\ body[r] = Http!Placed(upload[r])
    /\ post[r] = "refused" \/ body[r] # Http!Error

\* An iterator is open only while the response is drained from it.
OpenWhileDraining(r) == chunks[r].iter = "open" => post[r] = "draining"

HttpInv == HttpTyped /\ \A r \in Posts : PlacedOnce(r) /\ OpenWhileDraining(r)

LEMMA HttpInit == ASSUME Http!Init PROVE HttpInv
<1>1. HttpTyped
  BY DEF Http!Init, HttpTyped, Http!NoChunks, PostStates, IterStates
<1>2. \A r \in Posts : PlacedOnce(r) /\ OpenWhileDraining(r)
  BY DEF Http!Init, PlacedOnce, OpenWhileDraining, Http!NoChunks
<1> QED BY <1>1, <1>2 DEF HttpInv

\* The handler of one request comes to state s; its upload is what it was.
LEMMA PostMoves ==
    ASSUME HttpInv, NEW r \in Posts, NEW s \in PostStates,
           NEW c \in [iter : IterStates, taken : Nat],
           post' = [post EXCEPT ![r] = s], chunks' = [chunks EXCEPT ![r] = c],
           UNCHANGED <<upload, body>>,
           post[r] # "refused", c.iter = "open" => s = "draining"
    PROVE  HttpInv'
<1>1. HttpTyped'
  BY DEF HttpInv, HttpTyped
<1>2. ASSUME NEW o \in Posts PROVE PlacedOnce(o)' /\ OpenWhileDraining(o)'
  <2>1. /\ PlacedOnce(o) /\ OpenWhileDraining(o)
        /\ upload'[o] = upload[o] /\ body'[o] = body[o]
        /\ post'[o] = IF o = r THEN s ELSE post[o]
        /\ chunks'[o] = IF o = r THEN c ELSE chunks[o]
    BY DEF HttpInv, HttpTyped
  <2>2. CASE o = r
    BY <2>1, <2>2 DEF PlacedOnce, OpenWhileDraining
  <2>3. CASE o # r
    BY <2>1, <2>3 DEF PlacedOnce, OpenWhileDraining
  <2> QED BY <2>2, <2>3
<1> QED BY <1>1, <1>2 DEF HttpInv

LEMMA HttpStep == ASSUME HttpInv, [Http!Next]_http PROVE HttpInv'
<1>1. /\ post \in [Posts -> PostStates] /\ chunks \in [Posts -> [iter : IterStates, taken : Nat]]
      /\ upload = [r \in Posts |-> upload[r]] /\ body = [r \in Posts |-> body[r]]
  BY DEF HttpInv, HttpTyped
<1>2. CASE UNCHANGED <<post, upload, body, chunks>>
  BY <1>2 DEF HttpInv, HttpTyped, PlacedOnce, OpenWhileDraining
<1>3. ASSUME NEW r \in Posts, NEW s \in PostStates, post[r] # "refused",
             post' = [post EXCEPT ![r] = s], UNCHANGED <<upload, body, chunks>>,
             chunks[r].iter # "open"
      PROVE  HttpInv'
  <2>1. PICK c \in [iter : IterStates, taken : Nat] : c = chunks[r]
    BY <1>1
  <2>2. chunks' = [chunks EXCEPT ![r] = c]
    BY <1>1, <1>3, <2>1
  <2> QED BY <1>3, <2>1, <2>2, PostMoves
<1>4. ASSUME NEW r \in Posts, NEW s \in PostStates, NEW i \in IterStates,
             post[r] # "refused", i = "open" => s = "draining",
             post' = [post EXCEPT ![r] = s], chunks' = [chunks EXCEPT ![r].iter = i],
             UNCHANGED <<upload, body>>
      PROVE  HttpInv'
  <2>1. PICK c : c = [iter |-> i, taken |-> chunks[r].taken]
    OBVIOUS
  <2>2. c \in [iter : IterStates, taken : Nat] /\ c.iter = i
    BY <1>1, <2>1
  <2>3. chunks' = [chunks EXCEPT ![r] = c]
    <3>1. PICK m \in [iter : IterStates, taken : Nat] : m = chunks[r]
      BY <1>1
    <3>2. m = [iter |-> m.iter, taken |-> m.taken]
      OBVIOUS
    <3>3. [m EXCEPT !.iter = i] = c
      BY <2>1, <3>1, <3>2
    <3>4. chunks' = [chunks EXCEPT ![r] = [m EXCEPT !.iter = i]]
      BY <1>4, <3>1
    <3> QED BY <3>3, <3>4
  <2> QED BY <1>4, <2>2, <2>3, PostMoves
<1>5. ASSUME NEW r \in Posts, NEW how \in {"upgrade", "options", "json"}, Http!Arrives(r, how)
      PROVE  HttpInv'
  <2>1. PICK s \in PostStates : post' = [post EXCEPT ![r] = s]
    BY <1>5 DEF Http!Arrives, PostStates
  <2>2. post[r] = "idle" /\ UNCHANGED <<upload, body, chunks>>
    BY <1>5 DEF Http!Arrives
  <2>3. chunks[r].iter # "open"
    BY <2>2 DEF HttpInv, OpenWhileDraining
  <2> QED BY <1>3, <2>1, <2>2, <2>3
<1>6. ASSUME NEW r \in Posts, NEW u \in Uploads, Http!ArrivesMultipart(r, u) PROVE HttpInv'
  <2>1. PICK b : b = Http!Placed(u)
    OBVIOUS
  <2>2. PICK s \in PostStates : s = IF b = Http!Error THEN "refused" ELSE "executing"
    BY DEF PostStates
  <2>3. /\ upload' = [upload EXCEPT ![r] = u] /\ body' = [body EXCEPT ![r] = b]
        /\ post' = [post EXCEPT ![r] = s] /\ post[r] = "idle" /\ chunks' = chunks
    BY <1>6, <2>1, <2>2 DEF Http!ArrivesMultipart
  <2>4. HttpTyped'
    BY <1>1, <2>3 DEF HttpTyped
  <2>5. ASSUME NEW o \in Posts PROVE PlacedOnce(o)' /\ OpenWhileDraining(o)'
    <3>1. /\ PlacedOnce(o) /\ OpenWhileDraining(o) /\ chunks'[o] = chunks[o]
          /\ upload'[o] = (IF o = r THEN u ELSE upload[o])
          /\ body'[o] = (IF o = r THEN b ELSE body[o])
          /\ post'[o] = (IF o = r THEN s ELSE post[o])
      BY <1>1, <2>3 DEF HttpInv
    <3>2. CASE o = r
      BY <2>1, <2>2, <2>3, <3>1, <3>2 DEF PlacedOnce, OpenWhileDraining
    <3>3. CASE o # r
      BY <3>1, <3>3 DEF PlacedOnce, OpenWhileDraining
    <3> QED BY <3>2, <3>3
  <2> QED BY <2>4, <2>5 DEF HttpInv
<1>7. ASSUME NEW r \in Posts, Http!Chunk(r) PROVE HttpInv'
  <2>1. /\ post[r] = "draining" /\ UNCHANGED <<post, upload, body>>
        /\ chunks' = [chunks EXCEPT ![r].taken = @ + 1]
    BY <1>7 DEF Http!Chunk
  <2>2. PICK c : c = [iter |-> chunks[r].iter, taken |-> chunks[r].taken + 1]
    OBVIOUS
  <2>3. c \in [iter : IterStates, taken : Nat] /\ "draining" \in PostStates
    BY <1>1, <2>2 DEF PostStates
  <2>4. chunks' = [chunks EXCEPT ![r] = c] /\ post' = [post EXCEPT ![r] = "draining"]
    <3>1. PICK m \in [iter : IterStates, taken : Nat] : m = chunks[r]
      BY <1>1
    <3>2. m = [iter |-> m.iter, taken |-> m.taken]
      OBVIOUS
    <3>3. [m EXCEPT !.taken = m.taken + 1] = c
      BY <2>2, <3>1, <3>2
    <3>4. chunks' = [chunks EXCEPT ![r] = [m EXCEPT !.taken = m.taken + 1]]
      BY <2>1, <3>1
    <3>5. post' = [post EXCEPT ![r] = "draining"]
      BY <1>1, <2>1
    <3> QED BY <3>3, <3>4, <3>5
  <2> QED BY <2>1, <2>3, <2>4, PostMoves
<1>8. ASSUME NEW r \in Posts, NEW how \in {"complete", "chunked", "rejects"},
             Http!Executed(r, how)
      PROVE  HttpInv'
  <2>1. post[r] = "executing" /\ UNCHANGED <<upload, body>>
    BY <1>8 DEF Http!Executed
  <2>2. CASE how = "chunked"
    <3>1. /\ post' = [post EXCEPT ![r] = "draining"] /\ chunks' = [chunks EXCEPT ![r].iter = "open"]
          /\ "draining" \in PostStates /\ "open" \in IterStates
      BY <1>8, <2>2 DEF Http!Executed, PostStates, IterStates
    <3> QED BY <1>4, <2>1, <3>1
  <2>3. CASE how # "chunked"
    <3>1. PICK s \in PostStates : post' = [post EXCEPT ![r] = s]
      BY <1>8, <2>3 DEF Http!Executed, PostStates
    <3>2. chunks' = chunks /\ chunks[r].iter # "open"
      BY <1>8, <2>1, <2>3 DEF Http!Executed, HttpInv, OpenWhileDraining
    <3> QED BY <1>3, <2>1, <3>1, <3>2
  <2> QED BY <2>2, <2>3
<1>9. ASSUME NEW r \in Posts, NEW ok \in BOOLEAN, Http!Drained(r, ok) PROVE HttpInv'
  <2>1. /\ post[r] = "draining" /\ UNCHANGED <<upload, body>>
        /\ chunks' = [chunks EXCEPT ![r].iter = "returned"] /\ "returned" \in IterStates
    BY <1>9 DEF Http!Drained, IterStates
  <2>2. PICK s \in PostStates : post' = [post EXCEPT ![r] = s]
    BY <1>9 DEF Http!Drained, PostStates
  <2> QED BY <1>4, <2>1, <2>2
<1>10. CASE UNCHANGED http
  BY <1>2, <1>10 DEF http
<1>11. CASE Http!Start \/ Http!Stop \/ Http!Stopped \/ \E ok \in BOOLEAN : Http!Started(ok)
  BY <1>2, <1>11 DEF Http!Start, Http!Stop, Http!Stopped, Http!Started
<1> QED BY <1>5, <1>6, <1>7, <1>8, <1>9, <1>10, <1>11 DEF Http!Next, Http!Responds

LEMMA HttpKeeps == ASSUME GraphQLAssumption, HttpInv PROVE RequestsServed
<1>1. Http!UploadsPlaced
  <2> SUFFICES ASSUME NEW r \in Posts,
                      post[r] \notin {"idle", "refused"}, upload[r] # Http!Nothing
               PROVE  RightlyPlaced(body[r], upload[r])
    BY Zenon DEF Http!UploadsPlaced, RightlyPlaced
  <2>1. upload[r] \in Uploads /\ body[r] = Http!Placed(upload[r]) /\ body[r] # Http!Error
    BY DEF HttpInv, PlacedOnce
  <2> QED BY <2>1, PlacedRightly
<1>2. Http!ChunksReturned
  BY DEF Http!ChunksReturned, HttpInv, OpenWhileDraining
<1> QED BY <1>1, <1>2 DEF RequestsServed

\* processMultipartRequest() (upload.ts), executeRequest() (graphql.controller.ts): for any
\* operations, map and limits, Apollo Server gets every file at the paths its map names, the
\* last where they overlap, and everything else as it came; a refused request is not executed;
\* and an iterator of chunks is returned however the response ends.
THEOREM UploadsReach == Spec => []RequestsServed
<1>1. Init => HttpInv
  BY HttpInit DEF Init
<1>2. HttpInv /\ [Next]_vars => HttpInv'
  <2>1. [Next]_vars => [Http!Next]_http
    BY DEF Next, vars, Declares, Answers, Iterates
  <2> QED BY <2>1, HttpStep
<1>3. HttpInv => RequestsServed
  BY GraphQLAssumption, HttpKeeps
<1> QED BY <1>1, <1>2, <1>3, PTL DEF Spec

-----------------------------------------------------------------------------
(***************************************************************************)
(* The schema: what the decorators write, and what is made of it.          *)
(***************************************************************************)
\* A non-empty set of numbers none of which is above n has a greatest one.
LEMMA GreatestOf ==
    ASSUME NEW n \in Nat, NEW S \in SUBSET (0 .. n), S # {}
    PROVE  \E m \in S : \A k \in S : k <= m
<1>1. PICK T : T = {k \in 0 .. n : \A j \in S : j <= k}
  OBVIOUS
<1>2. T \in SUBSET Nat /\ T # {}
  <2>1. n \in T
    BY <1>1
  <2> QED BY <1>1, <2>1
<1>3. PICK m \in T : \A k \in T : m <= k
  BY <1>2, LeastOf
<1>4. m \in 0 .. n /\ \A j \in S : j <= m
  BY <1>1, <1>3
<1>5. m \in S
  <2> SUFFICES ASSUME m \notin S PROVE FALSE
    OBVIOUS
  <2>1. \A j \in S : j \in 0 .. n /\ j <= m /\ j # m
    BY <1>4
  <2>2. \A j \in S : j <= m - 1
    BY <1>4, <2>1
  <2>3. PICK j \in S : TRUE
    OBVIOUS
  <2>4. m - 1 \in 0 .. n
    BY <1>4, <2>1, <2>3
  <2>5. m - 1 \in T
    BY <1>1, <2>2, <2>4
  <2> QED BY <1>3, <1>4, <2>5
<1> QED BY <1>4, <1>5

\* What holds of a class whenever it holds of every class declared before holds of all.
LEMMA EveryClass ==
    ASSUME NEW n \in Nat, NEW S, \A c \in 1 .. n : (\A d \in 1 .. c - 1 : d \in S) => c \in S
    PROVE  1 .. n \subseteq S
<1> SUFFICES ASSUME NEW k \in 1 .. n, k \notin S PROVE FALSE
  OBVIOUS
<1>1. PICK U : U = {i \in 1 .. n : i \notin S}
  OBVIOUS
<1>2. U \in SUBSET Nat /\ U # {}
  BY <1>1
<1>3. PICK m \in U : \A j \in U : m <= j
  BY <1>2, LeastOf
<1>4. m \in 1 .. n /\ m \notin S
  BY <1>1, <1>3
<1>5. \A d \in 1 .. m - 1 : d \in S
  <2> SUFFICES ASSUME NEW d \in 1 .. m - 1, d \notin S PROVE FALSE
    OBVIOUS
  <2>1. d \in 1 .. n /\ d < m
    BY <1>4
  <2>2. d \in U
    BY <1>1, <2>1
  <2> QED BY <1>3, <1>4, <2>1, <2>2
<1> QED BY <1>4, <1>5

\* What RemoveAt() leaves.
LEMMA RemoveAtIs ==
    ASSUME NEW T, NEW s \in Seq(T), NEW i \in 1 .. Len(s)
    PROVE  /\ Types!RemoveAt(s, i) \in Seq(T)
           /\ Len(Types!RemoveAt(s, i)) = Len(s) - 1
           /\ \A j \in 1 .. Len(s) - 1 :
                 Types!RemoveAt(s, i)[j] = IF j < i THEN s[j] ELSE s[j + 1]
<1>1. PICK n \in Nat : n = Len(s) /\ DOMAIN s = 1 .. n /\ \A j \in 1 .. n : s[j] \in T
  BY LenProperties, ElementOfSeq
<1>2. i \in Nat /\ 1 <= i /\ i <= n
  BY <1>1
<1>3. PICK a : a = SubSeq(s, 1, i - 1)
  OBVIOUS
<1>4. PICK b : b = SubSeq(s, i + 1, n)
  OBVIOUS
<1>5. a \in Seq(T) /\ Len(a) = i - 1 /\ \A j \in 1 .. i - 1 : a[j] = s[j]
  <2>1. 1 \in Int /\ i - 1 \in Int /\ \A j \in 1 .. i - 1 : s[j] \in T
    BY <1>1, <1>2
  <2>2. /\ SubSeq(s, 1, i - 1) \in Seq(T)
        /\ Len(SubSeq(s, 1, i - 1)) = IF 1 <= i - 1 THEN i - 1 - 1 + 1 ELSE 0
        /\ \A j \in 1 .. i - 1 - 1 + 1 : SubSeq(s, 1, i - 1)[j] = s[1 + j - 1]
    BY <2>1, SubSeqProperties
  <2>3. (IF 1 <= i - 1 THEN i - 1 - 1 + 1 ELSE 0) = i - 1
    BY <1>2
  <2>4. \A j \in 1 .. i - 1 : j \in 1 .. i - 1 - 1 + 1 /\ 1 + j - 1 = j
    BY <1>2
  <2> QED BY <1>3, <2>2, <2>3, <2>4
<1>6. b \in Seq(T) /\ Len(b) = n - i /\ \A j \in 1 .. n - i : b[j] = s[i + j]
  <2>1. i + 1 \in Int /\ n \in Int /\ \A j \in i + 1 .. n : s[j] \in T
    BY <1>1, <1>2
  <2>2. /\ SubSeq(s, i + 1, n) \in Seq(T)
        /\ Len(SubSeq(s, i + 1, n)) = IF i + 1 <= n THEN n - (i + 1) + 1 ELSE 0
        /\ \A j \in 1 .. n - (i + 1) + 1 : SubSeq(s, i + 1, n)[j] = s[i + 1 + j - 1]
    BY <2>1, SubSeqProperties
  <2>3. (IF i + 1 <= n THEN n - (i + 1) + 1 ELSE 0) = n - i
    BY <1>2
  <2>4. \A j \in 1 .. n - i : j \in 1 .. n - (i + 1) + 1 /\ i + 1 + j - 1 = i + j
    BY <1>2
  <2> QED BY <1>4, <2>2, <2>3, <2>4
<1>7. PICK r : r = a \o b
  OBVIOUS
<1>8. /\ r \in Seq(T) /\ Len(r) = Len(a) + Len(b)
      /\ \A j \in 1 .. Len(a) + Len(b) : r[j] = IF j <= Len(a) THEN a[j] ELSE b[j - Len(a)]
  BY <1>5, <1>6, <1>7, ConcatProperties
<1>9. Len(a) + Len(b) = n - 1
  BY <1>2, <1>5, <1>6
<1>10. \A j \in 1 .. n - 1 : r[j] = IF j <= i - 1 THEN a[j] ELSE b[j - (i - 1)]
  BY <1>5, <1>8, <1>9
<1>11. ASSUME NEW j \in 1 .. n - 1 PROVE r[j] = IF j < i THEN s[j] ELSE s[j + 1]
  <2>1. CASE j < i
    <3>1. j <= i - 1 /\ j \in 1 .. i - 1
      BY <1>2, <2>1
    <3> QED BY <1>5, <1>10, <2>1, <3>1
  <2>2. CASE ~(j < i)
    <3>1. ~(j <= i - 1) /\ j - (i - 1) \in 1 .. n - i /\ i + (j - (i - 1)) = j + 1
      BY <1>2, <2>2
    <3> QED BY <1>6, <1>10, <2>2, <3>1
  <2> QED BY <2>1, <2>2
<1>12. Types!RemoveAt(s, i) = r
  BY <1>1, <1>3, <1>4, <1>7 DEF Types!RemoveAt
<1> QED BY <1>1, <1>8, <1>9, <1>11, <1>12

\* The decorator k has put a field on class c, and none has hidden it since.
Live(c, k) ==
    /\ wrote[k].class = c /\ wrote[k].what = "field"
    /\ \A j \in DOMAIN wrote : j > k /\ wrote[j].class = c /\ wrote[j].what = "hide" =>
          wrote[j].name # wrote[k].name

Same(e, w) == e.name = w.name /\ e.ref = w.ref

\* The storage holds of every class the fields that are live, each name once.
FieldsHold(c) ==
    /\ \A i, j \in DOMAIN fields[c] : fields[c][i].name = fields[c][j].name => i = j
    /\ \A k \in DOMAIN wrote : Live(c, k) => \E i \in DOMAIN fields[c] : Same(fields[c][i], wrote[k])
    /\ \A i \in DOMAIN fields[c] : \E k \in DOMAIN wrote : Live(c, k) /\ Same(fields[c][i], wrote[k])

WroteOnce == \A j, k \in DOMAIN wrote :
    /\ wrote[j].class = wrote[k].class /\ wrote[j].what = wrote[k].what
    /\ wrote[j].name = wrote[k].name
    => j = k

TypeRef == Classes \union {Types!Scalar}
Takes == {<<>>} \union ({"name", "all"} \X Classes)

SchemaTyped ==
    /\ program \in Programs /\ declaring \in Nat \ {0}
    /\ fields \in [Classes -> Seq([name : Props, ref : TypeRef])]
    /\ wrote \in Seq([class : Classes, what : {"field", "hide"}, name : Props, ref : TypeRef])
    /\ operations \in Seq([kind : Kinds, name : Props, ref : TypeRef, takes : Takes])
    /\ resolvers \in Seq([on : Classes, name : Props, ref : Classes \union {Types!Untyped}])

\* Once a schema is built, it is that of what the storage holds.
SchemaInv ==
    /\ SchemaTyped /\ WroteOnce /\ \A c \in Classes : FieldsHold(c)
    /\ schema.is # "none" => declaring \notin Classes /\ schema = Types!Built

\* A field that the class does not have yet is written.
LEMMA FieldAdds ==
    ASSUME SchemaInv, NEW d \in Classes, NEW n \in Props, NEW ref \in TypeRef,
           wrote' = Append(wrote, [class |-> d, what |-> "field", name |-> n, ref |-> ref]),
           fields' = [fields EXCEPT ![d] = Append(@, [name |-> n, ref |-> ref])],
           \A k \in DOMAIN wrote : ~(/\ wrote[k].class = d /\ wrote[k].what = "field"
                                     /\ wrote[k].name = n)
    PROVE  /\ fields' \in [Classes -> Seq([name : Props, ref : TypeRef])]
           /\ wrote' \in Seq([class : Classes, what : {"field", "hide"}, name : Props, ref : TypeRef])
           /\ WroteOnce' /\ \A c \in Classes : FieldsHold(c)'
<1>1. PICK T : T = [name : Props, ref : TypeRef]
  OBVIOUS
<1>2. PICK W : W = [class : Classes, what : {"field", "hide"}, name : Props, ref : TypeRef]
  OBVIOUS
<1>3. fields \in [Classes -> Seq(T)] /\ wrote \in Seq(W)
  BY <1>1, <1>2 DEF SchemaInv, SchemaTyped
<1>4. PICK N \in Nat : N = Len(wrote) /\ DOMAIN wrote = 1 .. N
  BY <1>3, LenProperties
<1>5. PICK w \in W : /\ w = [class |-> d, what |-> "field", name |-> n, ref |-> ref]
                     /\ w.class = d /\ w.what = "field" /\ w.name = n /\ w.ref = ref
  BY <1>2
<1>6. /\ wrote' \in Seq(W) /\ DOMAIN wrote' = 1 .. N + 1 /\ wrote'[N + 1] = w
      /\ \A k \in 1 .. N : wrote'[k] = wrote[k]
  BY <1>3, <1>4, <1>5, AppendProperties, LenProperties
<1>7. PICK e \in T : e = [name |-> n, ref |-> ref] /\ e.name = n /\ e.ref = ref
  BY <1>1
<1>8. PICK s \in Seq(T) : s = fields[d]
  BY <1>3
<1>9. PICK M \in Nat : M = Len(s) /\ DOMAIN s = 1 .. M
  BY LenProperties
<1>10. PICK t \in Seq(T) : /\ t = Append(s, e) /\ DOMAIN t = 1 .. M + 1 /\ t[M + 1] = e
                           /\ \A i \in 1 .. M : t[i] = s[i]
  <2>1. PICK t \in Seq(T) : t = Append(s, e)
    BY AppendProperties
  <2>2. Len(t) = M + 1 /\ t[M + 1] = e /\ \A i \in 1 .. M : t[i] = s[i]
    BY <1>9, <2>1, AppendProperties
  <2>3. DOMAIN t = 1 .. M + 1
    BY <2>2, LenProperties
  <2> QED BY <2>1, <2>2, <2>3
<1>11. /\ fields' \in [Classes -> Seq(T)] /\ fields'[d] = t
       /\ \A c \in Classes : c # d => fields'[c] = fields[c]
  BY <1>3, <1>7, <1>8, <1>10
<1>12. \A k \in 1 .. N + 1 : k = N + 1 \/ k \in 1 .. N
  BY <1>4
<1>13. N + 1 \in 1 .. N + 1 /\ \A k \in 1 .. N : k \in 1 .. N + 1
  BY <1>4
<1>14. ASSUME NEW c \in Classes, NEW k \in 1 .. N PROVE Live(c, k)' <=> Live(c, k)
  <2>1. wrote'[N + 1].what # "hide"
    BY <1>5, <1>6
  <2>2. \A j \in 1 .. N + 1 : j = N + 1 \/ (j \in 1 .. N /\ wrote'[j] = wrote[j])
    BY <1>6, <1>12
  <2>3. wrote'[k] = wrote[k]
    BY <1>6
  <2> QED BY <1>4, <1>6, <1>13, <2>1, <2>2, <2>3 DEF Live
<1>15. ASSUME NEW c \in Classes PROVE Live(c, N + 1)' <=> c = d
  <2>1. \A j \in 1 .. N + 1 : ~(j > N + 1)
    BY <1>4
  <2> QED BY <1>5, <1>6, <2>1 DEF Live
<1>16. WroteOnce'
  <2>1. ASSUME NEW j \in 1 .. N + 1, NEW k \in 1 .. N + 1,
               wrote'[j].class = wrote'[k].class, wrote'[j].what = wrote'[k].what,
               wrote'[j].name = wrote'[k].name
        PROVE  j = k
    <3>1. CASE j \in 1 .. N /\ k \in 1 .. N
      BY <1>4, <1>6, <2>1, <3>1 DEF SchemaInv, WroteOnce
    <3>2. CASE j = N + 1 /\ k \in 1 .. N
      BY <1>4, <1>5, <1>6, <2>1, <3>2
    <3>3. CASE k = N + 1 /\ j \in 1 .. N
      BY <1>4, <1>5, <1>6, <2>1, <3>3
    <3> QED BY <1>12, <3>1, <3>2, <3>3
  <2> QED BY <1>6, <2>1 DEF WroteOnce
<1>17. ASSUME NEW c \in Classes, c # d PROVE FieldsHold(c)'
  <2>1. FieldsHold(c) /\ fields'[c] = fields[c]
    BY <1>11, <1>17 DEF SchemaInv
  <2>2. \A k \in 1 .. N + 1 : Live(c, k)' => k \in 1 .. N /\ Live(c, k)
    BY <1>12, <1>14, <1>15, <1>17
  <2>3. \A k \in 1 .. N : wrote'[k] = wrote[k] /\ (Live(c, k)' <=> Live(c, k)) /\ k \in 1 .. N + 1
    BY <1>6, <1>13, <1>14
  <2> QED BY <1>4, <1>6, <2>1, <2>2, <2>3 DEF FieldsHold
<1>18. FieldsHold(d)'
  <2>1. FieldsHold(d)
    BY DEF SchemaInv
  <2>2. \A i \in 1 .. M : s[i].name # n
    <3> SUFFICES ASSUME NEW i \in 1 .. M, s[i].name = n PROVE FALSE
      OBVIOUS
    <3>1. PICK k \in 1 .. N : Live(d, k) /\ Same(s[i], wrote[k])
      BY <1>4, <1>8, <1>9, <2>1 DEF FieldsHold
    <3> QED BY <1>4, <3>1 DEF Live, Same
  <2>3. \A i \in 1 .. M + 1 : i = M + 1 \/ i \in 1 .. M
    BY <1>9
  <2>4. M + 1 \in 1 .. M + 1 /\ \A i \in 1 .. M : i \in 1 .. M + 1
    BY <1>9
  <2>5. \A i, j \in 1 .. M + 1 : t[i].name = t[j].name => i = j
    <3>1. \A i, j \in 1 .. M : s[i].name = s[j].name => i = j
      BY <1>8, <1>9, <2>1 DEF FieldsHold
    <3> QED BY <1>7, <1>10, <2>2, <2>3, <3>1
  <2>6. ASSUME NEW k \in 1 .. N + 1, Live(d, k)'
        PROVE  \E i \in 1 .. M + 1 : Same(t[i], wrote'[k])
    <3>1. CASE k = N + 1
      <4>1. Same(t[M + 1], wrote'[k])
        BY <1>5, <1>6, <1>7, <1>10, <3>1 DEF Same
      <4> QED BY <2>4, <4>1
    <3>2. CASE k \in 1 .. N
      <4>1. PICK i \in 1 .. M : Same(s[i], wrote[k])
        BY <1>4, <1>8, <1>9, <1>14, <2>1, <2>6, <3>2 DEF FieldsHold
      <4> QED BY <1>6, <1>10, <2>4, <3>2, <4>1
    <3> QED BY <1>12, <3>1, <3>2
  <2>7. ASSUME NEW i \in 1 .. M + 1
        PROVE  \E k \in 1 .. N + 1 : Live(d, k)' /\ Same(t[i], wrote'[k])
    <3>1. CASE i = M + 1
      <4>1. Live(d, N + 1)' /\ Same(t[i], wrote'[N + 1])
        BY <1>5, <1>6, <1>7, <1>10, <1>15, <3>1 DEF Same
      <4> QED BY <1>13, <4>1
    <3>2. CASE i \in 1 .. M
      <4>1. PICK k \in 1 .. N : Live(d, k) /\ Same(s[i], wrote[k])
        BY <1>4, <1>8, <1>9, <2>1, <3>2 DEF FieldsHold
      <4> QED BY <1>6, <1>10, <1>13, <1>14, <3>2, <4>1
    <3> QED BY <2>3, <3>1, <3>2
  <2>8. DOMAIN fields'[d] = 1 .. M + 1 /\ DOMAIN wrote' = 1 .. N + 1 /\ fields'[d] = t
    BY <1>6, <1>10, <1>11
  <2>9. \A i, j \in DOMAIN fields'[d] : fields'[d][i].name = fields'[d][j].name => i = j
    BY <2>5, <2>8
  <2>10. \A k \in DOMAIN wrote' : Live(d, k)' => \E i \in DOMAIN fields'[d] : Same(fields'[d][i], wrote'[k])
    BY <2>6, <2>8
  <2>11. \A i \in DOMAIN fields'[d] : \E k \in DOMAIN wrote' : Live(d, k)' /\ Same(fields'[d][i], wrote'[k])
    BY <2>7, <2>8
  <2> QED BY <2>9, <2>10, <2>11 DEF FieldsHold, Same
<1> QED BY <1>1, <1>2, <1>6, <1>11, <1>16, <1>17, <1>18

\* A field is hidden, if the class has it yet.
LEMMA HideRemoves ==
    ASSUME SchemaInv, NEW d \in Classes, NEW n \in Props, NEW ref \in TypeRef,
           wrote' = Append(wrote, [class |-> d, what |-> "hide", name |-> n, ref |-> ref]),
           \A k \in DOMAIN wrote : ~(/\ wrote[k].class = d /\ wrote[k].what = "hide"
                                     /\ wrote[k].name = n),
           \/ fields' = fields /\ \A i \in DOMAIN fields[d] : fields[d][i].name # n
           \/ \E i \in DOMAIN fields[d] : /\ fields[d][i].name = n
                  /\ fields' = [fields EXCEPT ![d] = Types!RemoveAt(fields[d], i)]
    PROVE  /\ fields' \in [Classes -> Seq([name : Props, ref : TypeRef])]
           /\ wrote' \in Seq([class : Classes, what : {"field", "hide"}, name : Props, ref : TypeRef])
           /\ WroteOnce' /\ \A c \in Classes : FieldsHold(c)'
<1>1. PICK T : T = [name : Props, ref : TypeRef]
  OBVIOUS
<1>2. PICK W : W = [class : Classes, what : {"field", "hide"}, name : Props, ref : TypeRef]
  OBVIOUS
<1>3. fields \in [Classes -> Seq(T)] /\ wrote \in Seq(W)
  BY <1>1, <1>2 DEF SchemaInv, SchemaTyped
<1>4. PICK N \in Nat : N = Len(wrote) /\ DOMAIN wrote = 1 .. N
  BY <1>3, LenProperties
<1>5. PICK w \in W : /\ w = [class |-> d, what |-> "hide", name |-> n, ref |-> ref]
                     /\ w.class = d /\ w.what = "hide" /\ w.name = n
  BY <1>2
<1>6. /\ wrote' \in Seq(W) /\ DOMAIN wrote' = 1 .. N + 1 /\ wrote'[N + 1] = w
      /\ \A k \in 1 .. N : wrote'[k] = wrote[k]
  BY <1>3, <1>4, <1>5, AppendProperties, LenProperties
<1>7. \A k \in 1 .. N + 1 : k = N + 1 \/ k \in 1 .. N
  BY <1>4
<1>8. N + 1 \in 1 .. N + 1 /\ \A k \in 1 .. N : k \in 1 .. N + 1 /\ N + 1 > k
  BY <1>4
<1>9. PICK s \in Seq(T) : s = fields[d]
  BY <1>3
<1>10. PICK M \in Nat : M = Len(s) /\ DOMAIN s = 1 .. M
  BY LenProperties
<1>11. FieldsHold(d)
  BY DEF SchemaInv
<1>12. \A i, j \in 1 .. M : s[i].name = s[j].name => i = j
  BY <1>9, <1>10, <1>11 DEF FieldsHold
<1>13. PICK t \in Seq(T) : /\ t = fields'[d]
                           /\ \A c \in Classes : c # d => fields'[c] = fields[c]
                           /\ fields' \in [Classes -> Seq(T)]
                           /\ \A i \in DOMAIN t : \E j \in 1 .. M : t[i] = s[j] /\ s[j].name # n
                           /\ \A j \in 1 .. M : s[j].name # n => \E i \in DOMAIN t : t[i] = s[j]
                           /\ \A i, j \in DOMAIN t : t[i].name = t[j].name => i = j
  <2>1. CASE fields' = fields /\ \A i \in DOMAIN fields[d] : fields[d][i].name # n
    <3>1. fields'[d] = s /\ \A i \in 1 .. M : s[i].name # n
      BY <1>9, <1>10, <2>1
    <3>2. fields' \in [Classes -> Seq(T)] /\ \A c \in Classes : fields'[c] = fields[c]
      BY <1>3, <2>1
    <3> QED BY <1>10, <1>12, <3>1, <3>2
  <2>2. ASSUME NEW h \in DOMAIN fields[d], fields[d][h].name = n,
               fields' = [fields EXCEPT ![d] = Types!RemoveAt(fields[d], h)]
        PROVE  \E t \in Seq(T) :
                  /\ t = fields'[d]
                  /\ \A c \in Classes : c # d => fields'[c] = fields[c]
                  /\ fields' \in [Classes -> Seq(T)]
                  /\ \A i \in DOMAIN t : \E j \in 1 .. M : t[i] = s[j] /\ s[j].name # n
                  /\ \A j \in 1 .. M : s[j].name # n => \E i \in DOMAIN t : t[i] = s[j]
                  /\ \A i, j \in DOMAIN t : t[i].name = t[j].name => i = j
    <3>1. h \in 1 .. M /\ h \in 1 .. Len(s) /\ s[h].name = n
      BY <1>9, <1>10, <2>2
    <3>2. PICK t : t = Types!RemoveAt(s, h)
      OBVIOUS
    <3>3. /\ t \in Seq(T) /\ Len(t) = M - 1
          /\ \A j \in 1 .. M - 1 : t[j] = IF j < h THEN s[j] ELSE s[j + 1]
      BY <1>10, <3>1, <3>2, RemoveAtIs
    <3>4. DOMAIN t = 1 .. M - 1
      BY <3>3, LenProperties
    <3>5. /\ fields'[d] = t /\ fields' \in [Classes -> Seq(T)]
          /\ \A c \in Classes : c # d => fields'[c] = fields[c]
      BY <1>3, <1>9, <2>2, <3>2, <3>3
    <3>6. ASSUME NEW i \in 1 .. M - 1
          PROVE  \E j \in 1 .. M : t[i] = s[j] /\ s[j].name # n
      <4>1. CASE i < h
        <5>1. i \in 1 .. M /\ t[i] = s[i] /\ i # h
          BY <1>10, <3>3, <4>1
        <5> QED BY <1>12, <3>1, <5>1
      <4>2. CASE ~(i < h)
        <5>1. i + 1 \in 1 .. M /\ t[i] = s[i + 1] /\ i + 1 # h
          BY <1>10, <3>1, <3>3, <4>2
        <5> QED BY <1>12, <3>1, <5>1
      <4> QED BY <4>1, <4>2
    <3>7. ASSUME NEW j \in 1 .. M, s[j].name # n
          PROVE  \E i \in 1 .. M - 1 : t[i] = s[j]
      <4>1. j # h
        BY <3>1, <3>7
      <4>2. CASE j < h
        <5>1. j \in 1 .. M - 1 /\ t[j] = s[j]
          BY <1>10, <3>1, <3>3, <4>2
        <5> QED BY <5>1
      <4>3. CASE ~(j < h)
        <5>1. j - 1 \in 1 .. M - 1 /\ ~(j - 1 < h) /\ (j - 1) + 1 = j
          BY <1>10, <3>1, <4>1, <4>3
        <5>2. t[j - 1] = s[j]
          BY <3>3, <5>1
        <5> QED BY <5>1, <5>2
      <4> QED BY <4>2, <4>3
    <3>8. ASSUME NEW i \in 1 .. M - 1, NEW j \in 1 .. M - 1, t[i].name = t[j].name
          PROVE  i = j
      <4>1. PICK a \in 1 .. M : a = IF i < h THEN i ELSE i + 1
        BY <1>10, <3>1
      <4>2. PICK b \in 1 .. M : b = IF j < h THEN j ELSE j + 1
        BY <1>10, <3>1
      <4>3. t[i] = s[a] /\ t[j] = s[b]
        BY <3>3, <4>1, <4>2
      <4>4. a = b
        BY <1>12, <3>8, <4>3
      <4> QED BY <1>10, <3>1, <4>1, <4>2, <4>4
    <3>9. \A i \in DOMAIN t : \E j \in 1 .. M : t[i] = s[j] /\ s[j].name # n
      BY <3>4, <3>6
    <3>10. \A j \in 1 .. M : s[j].name # n => \E i \in DOMAIN t : t[i] = s[j]
      BY <3>4, <3>7
    <3>11. \A i, j \in DOMAIN t : t[i].name = t[j].name => i = j
      BY <3>4, <3>8
    <3>12. t \in Seq(T)
      BY <3>3
    <3> QED BY <3>5, <3>9, <3>10, <3>11, <3>12
  <2> QED BY <2>1, <2>2
<1>14. ASSUME NEW c \in Classes, NEW k \in 1 .. N
       PROVE  Live(c, k)' <=> Live(c, k) /\ ~(c = d /\ wrote[k].name = n)
  <2>1. wrote'[k] = wrote[k] /\ wrote'[N + 1] = w /\ N + 1 > k /\ N + 1 \in DOMAIN wrote'
    BY <1>6, <1>8
  <2>2. \A j \in 1 .. N + 1 : j = N + 1 \/ (j \in 1 .. N /\ wrote'[j] = wrote[j])
    BY <1>6, <1>7
  <2>3. \A j \in 1 .. N : j \in 1 .. N + 1 /\ wrote'[j] = wrote[j]
    BY <1>6, <1>8
  <2> QED BY <1>4, <1>5, <1>6, <2>1, <2>2, <2>3 DEF Live
<1>15. ASSUME NEW c \in Classes PROVE ~Live(c, N + 1)'
  BY <1>5, <1>6 DEF Live
<1>16. WroteOnce'
  <2>1. ASSUME NEW j \in 1 .. N + 1, NEW k \in 1 .. N + 1,
               wrote'[j].class = wrote'[k].class, wrote'[j].what = wrote'[k].what,
               wrote'[j].name = wrote'[k].name
        PROVE  j = k
    <3>1. CASE j \in 1 .. N /\ k \in 1 .. N
      BY <1>4, <1>6, <2>1, <3>1 DEF SchemaInv, WroteOnce
    <3>2. CASE j = N + 1 /\ k \in 1 .. N
      BY <1>4, <1>5, <1>6, <2>1, <3>2
    <3>3. CASE k = N + 1 /\ j \in 1 .. N
      BY <1>4, <1>5, <1>6, <2>1, <3>3
    <3> QED BY <1>7, <3>1, <3>2, <3>3
  <2> QED BY <1>6, <2>1 DEF WroteOnce
<1>17. ASSUME NEW c \in Classes, c # d PROVE FieldsHold(c)'
  <2>1. FieldsHold(c) /\ fields'[c] = fields[c]
    BY <1>13, <1>17 DEF SchemaInv
  <2>2. \A k \in 1 .. N + 1 : Live(c, k)' => k \in 1 .. N /\ Live(c, k)
    BY <1>7, <1>14, <1>15
  <2>3. \A k \in 1 .. N : wrote'[k] = wrote[k] /\ (Live(c, k)' <=> Live(c, k)) /\ k \in 1 .. N + 1
    BY <1>6, <1>8, <1>14, <1>17
  <2> QED BY <1>4, <1>6, <2>1, <2>2, <2>3 DEF FieldsHold
<1>18. FieldsHold(d)'
  <2>1. DOMAIN wrote' = 1 .. N + 1 /\ fields'[d] = t
    BY <1>6, <1>13
  <2>2. ASSUME NEW k \in DOMAIN wrote', Live(d, k)'
        PROVE  \E i \in DOMAIN fields'[d] : Same(fields'[d][i], wrote'[k])
    <3>1. k \in 1 .. N /\ Live(d, k) /\ wrote[k].name # n /\ wrote'[k] = wrote[k]
      BY <1>6, <1>7, <1>14, <1>15, <2>1, <2>2
    <3>2. PICK j \in 1 .. M : Same(s[j], wrote[k])
      BY <1>4, <1>9, <1>10, <1>11, <3>1 DEF FieldsHold
    <3>3. s[j].name # n
      BY <3>1, <3>2 DEF Same
    <3>4. PICK i \in DOMAIN t : t[i] = s[j]
      BY <1>13, <3>3
    <3> QED BY <2>1, <3>1, <3>2, <3>4
  <2>3. ASSUME NEW i \in DOMAIN fields'[d]
        PROVE  \E k \in DOMAIN wrote' : Live(d, k)' /\ Same(fields'[d][i], wrote'[k])
    <3>1. PICK j \in 1 .. M : t[i] = s[j] /\ s[j].name # n
      BY <1>13, <2>1, <2>3
    <3>2. PICK k \in 1 .. N : Live(d, k) /\ Same(s[j], wrote[k])
      BY <1>4, <1>9, <1>10, <1>11 DEF FieldsHold
    <3>3. wrote[k].name # n
      BY <3>1, <3>2 DEF Same
    <3>4. k \in 1 .. N + 1 /\ wrote'[k] = wrote[k] /\ Live(d, k)'
      BY <1>6, <1>8, <1>14, <3>2, <3>3
    <3> QED BY <2>1, <3>1, <3>2, <3>4
  <2>4. \A i, j \in DOMAIN fields'[d] : fields'[d][i].name = fields'[d][j].name => i = j
    BY <1>13, <2>1
  <2> QED BY <2>2, <2>3, <2>4 DEF FieldsHold, Same
<1> QED BY <1>1, <1>2, <1>6, <1>13, <1>16, <1>17, <1>18

\* What buildSchema() makes depends on what the storage holds.
LEMMA BuiltSame ==
    ASSUME UNCHANGED <<program, fields, operations, resolvers>>
    PROVE  Types!Built' = Types!Built
<1>1. /\ Types!base' = Types!base /\ Types!kinds' = Types!kinds /\ Types!maps' = Types!maps
      /\ Types!members' = Types!members /\ Types!entries' = Types!entries
  BY DEF Types!base, Types!kinds, Types!maps, Types!members, Types!entries
<1>2. ASSUME NEW c PROVE Types!OwnFields(c)' = Types!OwnFields(c)
  BY DEF Types!OwnFields
<1>3. Types!Collected' = Types!Collected
  BY <1>1 DEF Types!Collected, Types!OwnFields
<1>4. Types!AllTypes' = Types!AllTypes
  BY <1>1 DEF Types!AllTypes, Types!Types
<1>5. Types!ByName' = Types!ByName
  BY <1>4 DEF Types!ByName, Types!Named
<1>6. ASSUME NEW c PROVE Types!ValuesOf(c)' = Types!ValuesOf(c)
  BY <1>1 DEF Types!ValuesOf
<1>7. ASSUME NEW c PROVE Types!TypeOf(c)' = Types!TypeOf(c)
  BY <1>1, <1>4 DEF Types!TypeOf
<1>8. ASSUME NEW c PROVE Types!Resolved(c)' = Types!Resolved(c)
  BY <1>1, <1>5, <1>7 DEF Types!Resolved
<1>9. Types!Offered' = Types!Offered
  BY DEF Types!Offered
<1>10. ASSUME NEW o PROVE Types!ResolvedArgs(o)' = Types!ResolvedArgs(o)
  BY <1>2, <1>8 DEF Types!ResolvedArgs, Types!ArgsOf
<1>11. ASSUME NEW t PROVE Types!MembersOf(t)' = Types!MembersOf(t)
  BY <1>1, <1>8 DEF Types!MembersOf
<1>12. ASSUME NEW t PROVE Types!FieldsOf(t)' = Types!FieldsOf(t)
  BY <1>3, <1>8 DEF Types!FieldsOf
<1>13. Types!Composed' = Types!Composed
  BY <1>1, <1>4 DEF Types!Composed, Types!Unions
<1>14. ASSUME NEW of PROVE Types!Found(of)' = Types!Found(of)
  BY DEF Types!Found, Types!Resolved, Types!TypeOf,
      Types!AllTypes, Types!Types, Types!ByName, Types!Named, Types!Offered,
      Types!ResolvedArgs, Types!ArgsOf, Types!OwnFields, Types!MembersOf,
      Types!Composed, Types!Unions, Types!kinds, Types!maps, Types!members
<1>15. ASSUME NEW found, NEW of PROVE Types!Accepted(found, of)' = Types!Accepted(found, of)
  BY <1>6, <1>8, <1>9, <1>10, <1>11 DEF Types!Accepted
<1> QED BY <1>8, <1>9, <1>10, <1>11, <1>12, <1>13, <1>14, <1>15
  DEF Types!Built

LEMMA SchemaInit == ASSUME Types!Init PROVE SchemaInv
<1>1. /\ program \in Programs /\ declaring = 1 /\ fields = [c \in Classes |-> <<>>]
      /\ operations = <<>> /\ resolvers = <<>> /\ wrote = <<>> /\ schema.is = "none"
  BY DEF Types!Init, Types!Schema
<1>2. /\ \A T : <<>> \in Seq(T)
      /\ DOMAIN wrote = {} /\ \A c \in Classes : fields[c] = <<>> /\ DOMAIN fields[c] = {}
  BY <1>1
<1>3. SchemaTyped
  BY <1>1, <1>2 DEF SchemaTyped
<1>4. WroteOnce /\ \A c \in Classes : FieldsHold(c)
  BY <1>2 DEF WroteOnce, FieldsHold
<1> QED BY <1>1, <1>3, <1>4 DEF SchemaInv

\* A step that leaves what classes have declared alone, and comes before the schema.
LEMMA NothingDeclared ==
    ASSUME SchemaInv, SchemaTyped', UNCHANGED <<fields, wrote>>,
           schema' = schema, schema.is = "none"
    PROVE  SchemaInv'
<1>1. WroteOnce' /\ \A c \in Classes : FieldsHold(c)'
  BY DEF SchemaInv, WroteOnce, FieldsHold, Live, Same
<1> QED BY <1>1 DEF SchemaInv

LEMMA SchemaStep == ASSUME SchemaInv, [Types!Next]_types PROVE SchemaInv'
<1>1. /\ SchemaTyped /\ program \in Programs /\ declaring \in Nat \ {0}
      /\ fields \in [Classes -> Seq([name : Props, ref : TypeRef])]
      /\ wrote \in Seq([class : Classes, what : {"field", "hide"}, name : Props, ref : TypeRef])
      /\ operations \in Seq([kind : Kinds, name : Props, ref : TypeRef, takes : Takes])
      /\ resolvers \in Seq([on : Classes, name : Props, ref : Classes \union {Types!Untyped}])
  BY DEF SchemaInv, SchemaTyped
<1>2. ASSUME NEW n \in Props, NEW ref \in TypeRef, Types!Field(n, ref) PROVE SchemaInv'
  <2>1. /\ declaring \in Classes
        /\ wrote' = Append(wrote, [class |-> declaring, what |-> "field", name |-> n, ref |-> ref])
        /\ UNCHANGED <<program, declaring, operations, resolvers, schema>>
        /\ fields' = [fields EXCEPT ![declaring] = Append(@, [name |-> n, ref |-> ref])]
    BY <1>2 DEF Types!Field, Types!Writes
  <2>2. \A k \in DOMAIN wrote : ~(/\ wrote[k].class = declaring /\ wrote[k].what = "field"
                                  /\ wrote[k].name = n)
    BY <1>2 DEF Types!Field, Types!Once, Types!Applied
  <2>3. PICK d \in Classes : d = declaring
    BY <2>1
  <2>4. /\ fields' \in [Classes -> Seq([name : Props, ref : TypeRef])]
        /\ wrote' \in Seq([class : Classes, what : {"field", "hide"}, name : Props, ref : TypeRef])
        /\ WroteOnce' /\ \A c \in Classes : FieldsHold(c)'
    BY <2>1, <2>2, <2>3, FieldAdds
  <2>5. SchemaTyped'
    BY <1>1, <2>1, <2>4 DEF SchemaTyped
  <2>6. schema'.is = "none"
    BY <2>1 DEF SchemaInv
  <2> QED BY <2>4, <2>5, <2>6 DEF SchemaInv
<1>3. ASSUME NEW n \in Props, Types!HideField(n) PROVE SchemaInv'
  <2>1. /\ declaring \in Classes
        /\ wrote' = Append(wrote, [class |-> declaring, what |-> "hide", name |-> n,
                                   ref |-> Types!Scalar])
        /\ UNCHANGED <<program, declaring, operations, resolvers, schema>>
    BY <1>3 DEF Types!HideField, Types!Writes
  <2>2. \A k \in DOMAIN wrote : ~(/\ wrote[k].class = declaring /\ wrote[k].what = "hide"
                                  /\ wrote[k].name = n)
    BY <1>3 DEF Types!HideField, Types!Once, Types!Applied
  <2>3. PICK d \in Classes : d = declaring
    BY <2>1
  <2>4. PICK s \in Seq([name : Props, ref : TypeRef]) : s = fields[d]
    BY <1>1
  <2>5. PICK found : found = {k \in DOMAIN s : s[k].name = n}
    OBVIOUS
  <2>6. fields' = [fields EXCEPT ![d] = IF found = {} THEN s
                      ELSE Types!RemoveAt(s, CHOOSE k \in found : \A j \in found : k <= j)]
    BY <1>3, <2>3, <2>4, <2>5 DEF Types!HideField
  <2>7. \/ fields' = fields /\ \A i \in DOMAIN fields[d] : fields[d][i].name # n
        \/ \E i \in DOMAIN fields[d] : /\ fields[d][i].name = n
               /\ fields' = [fields EXCEPT ![d] = Types!RemoveAt(fields[d], i)]
    <3>1. CASE found = {}
      <4>1. fields' = fields
        BY <1>1, <2>4, <2>6, <3>1
      <4> QED BY <2>4, <2>5, <3>1, <4>1
    <3>2. CASE found # {}
      <4>1. PICK i : i = CHOOSE k \in found : \A j \in found : k <= j
        OBVIOUS
      <4>2. \E k \in found : \A j \in found : k <= j
        <5>1. found \in SUBSET Nat
          BY <2>5, LenProperties
        <5> QED BY <3>2, <5>1, LeastOf
      <4>3. i \in found
        BY <4>1, <4>2
      <4>4. i \in DOMAIN fields[d] /\ fields[d][i].name = n
        BY <2>4, <2>5, <4>3
      <4>5. fields' = [fields EXCEPT ![d] = Types!RemoveAt(fields[d], i)]
        BY <2>4, <2>6, <3>2, <4>1
      <4> QED BY <4>4, <4>5
    <3> QED BY <3>1, <3>2
  <2>8. Types!Scalar \in TypeRef
    BY DEF TypeRef
  <2>9. /\ fields' \in [Classes -> Seq([name : Props, ref : TypeRef])]
        /\ wrote' \in Seq([class : Classes, what : {"field", "hide"}, name : Props, ref : TypeRef])
        /\ WroteOnce' /\ \A c \in Classes : FieldsHold(c)'
    <3>1. PICK r \in TypeRef : r = Types!Scalar
      BY <2>8
    <3>2. wrote' = Append(wrote, [class |-> d, what |-> "hide", name |-> n, ref |-> r])
      BY <2>1, <2>3, <3>1
    <3>3. \A k \in DOMAIN wrote : ~(/\ wrote[k].class = d /\ wrote[k].what = "hide"
                                    /\ wrote[k].name = n)
      BY <2>2, <2>3
    <3> QED BY <2>7, <3>2, <3>3, HideRemoves
  <2>10. SchemaTyped'
    BY <1>1, <2>1, <2>9 DEF SchemaTyped
  <2>11. schema'.is = "none"
    BY <2>1 DEF SchemaInv
  <2> QED BY <2>9, <2>10, <2>11 DEF SchemaInv
<1>4. CASE Types!Declared
  <2>1. /\ declaring \in Classes /\ declaring' = declaring + 1 /\ schema' = schema
        /\ UNCHANGED <<program, fields, operations, resolvers, wrote>>
    BY <1>4 DEF Types!Declared
  <2>2. SchemaTyped' /\ schema.is = "none"
    <3>1. declaring + 1 \in Nat \ {0}
      BY <1>1
    <3>2. SchemaTyped'
      BY <1>1, <2>1, <3>1 DEF SchemaTyped
    <3> QED BY <2>1, <3>2 DEF SchemaInv
  <2> QED BY <2>1, <2>2, NothingDeclared
<1>5. ASSUME NEW kind \in Kinds, NEW n \in Props, NEW ref \in TypeRef,
             Types!Operation(kind, n, ref)
      PROVE  SchemaInv'
  <2>1. PICK o : o = [kind |-> kind, name |-> n, ref |-> ref, takes |-> <<>>]
    OBVIOUS
  <2>2. o \in [kind : Kinds, name : Props, ref : TypeRef, takes : Takes]
    BY <2>1 DEF Takes
  <2>3. /\ operations' = Append(operations, o) /\ schema' = schema /\ schema.is = "none"
        /\ UNCHANGED <<program, declaring, fields, wrote, resolvers>>
    BY <1>5, <2>1 DEF Types!Operation, Types!Resolving
  <2>4. operations' \in Seq([kind : Kinds, name : Props, ref : TypeRef, takes : Takes])
    BY <1>1, <2>2, <2>3, AppendProperties
  <2>5. SchemaTyped'
    BY <1>1, <2>3, <2>4 DEF SchemaTyped
  <2> QED BY <2>3, <2>5, NothingDeclared
<1>6. ASSUME NEW on \in Classes, NEW n \in Props, NEW ref \in Classes \union {Types!Untyped},
             Types!FieldResolver(on, n, ref)
      PROVE  SchemaInv'
  <2>1. PICK o : o = [on |-> on, name |-> n, ref |-> ref]
    OBVIOUS
  <2>2. o \in [on : Classes, name : Props, ref : Classes \union {Types!Untyped}]
    BY <2>1
  <2>3. /\ resolvers' = Append(resolvers, o) /\ schema' = schema /\ schema.is = "none"
        /\ UNCHANGED <<program, declaring, fields, wrote, operations>>
    BY <1>6, <2>1 DEF Types!FieldResolver, Types!Resolving
  <2>4. resolvers' \in Seq([on : Classes, name : Props, ref : Classes \union {Types!Untyped}])
    BY <1>1, <2>2, <2>3, AppendProperties
  <2>5. SchemaTyped'
    BY <1>1, <2>3, <2>4 DEF SchemaTyped
  <2> QED BY <2>3, <2>5, NothingDeclared
<1>7. ASSUME NEW by \in {"name", "all"}, NEW ref \in Classes, Types!Args(by, ref)
      PROVE  SchemaInv'
  <2>1. PICK N \in Nat : N = Len(operations) /\ DOMAIN operations = 1 .. N
    BY <1>1, LenProperties
  <2>2. /\ operations # <<>> /\ schema' = schema /\ schema.is = "none"
        /\ operations' = [operations EXCEPT ![N].takes = <<by, ref>>]
        /\ UNCHANGED <<program, declaring, fields, wrote, resolvers>>
    BY <1>7, <2>1 DEF Types!Args, Types!Resolving
  <2>3. N \in 1 .. N
    BY <1>1, <2>1, <2>2, EmptySeq
  <2>4. PICK m \in [kind : Kinds, name : Props, ref : TypeRef, takes : Takes] : m = operations[N]
    BY <1>1, <2>1, <2>3, ElementOfSeq
  <2>5. PICK o : o = [m EXCEPT !.takes = <<by, ref>>]
    OBVIOUS
  <2>6. o \in [kind : Kinds, name : Props, ref : TypeRef, takes : Takes]
    BY <2>4, <2>5 DEF Takes
  <2>7. operations' = [operations EXCEPT ![N] = o]
    BY <2>2, <2>4, <2>5
  <2>8. operations' \in Seq([kind : Kinds, name : Props, ref : TypeRef, takes : Takes])
    BY <1>1, <2>1, <2>3, <2>6, <2>7, ExceptSeq
  <2>9. SchemaTyped'
    BY <1>1, <2>2, <2>8 DEF SchemaTyped
  <2> QED BY <2>2, <2>9, NothingDeclared
<1>8. CASE Types!Build
  <2>1. /\ declaring \notin Classes /\ schema' = Types!Built
        /\ UNCHANGED <<program, declaring, fields, operations, resolvers, wrote>>
    BY <1>8 DEF Types!Build
  <2>2. SchemaTyped' /\ WroteOnce' /\ \A c \in Classes : FieldsHold(c)'
    <3>1. SchemaTyped'
      BY <1>1, <2>1 DEF SchemaTyped
    <3>2. WroteOnce' /\ \A c \in Classes : FieldsHold(c)'
      BY <2>1 DEF SchemaInv, WroteOnce, FieldsHold, Live, Same
    <3> QED BY <3>1, <3>2
  <2>3. schema' = Types!Built'
    BY <2>1, BuiltSame
  <2> QED BY <2>1, <2>2, <2>3 DEF SchemaInv
<1>9. CASE UNCHANGED types
  <2>1. UNCHANGED <<program, declaring, fields, operations, resolvers, schema, wrote>>
    BY <1>9 DEF types
  <2>2. SchemaTyped' /\ WroteOnce' /\ \A c \in Classes : FieldsHold(c)'
    <3>1. SchemaTyped'
      BY <1>1, <2>1 DEF SchemaTyped
    <3>2. WroteOnce' /\ \A c \in Classes : FieldsHold(c)'
      BY <2>1 DEF SchemaInv, WroteOnce, FieldsHold, Live, Same
    <3> QED BY <3>1, <3>2
  <2>3. Types!Built' = Types!Built
    BY <2>1, BuiltSame
  <2> QED BY <2>1, <2>2, <2>3 DEF SchemaInv
<1> QED BY <1>2, <1>3, <1>4, <1>5, <1>6, <1>7, <1>8, <1>9 DEF Types!Next, TypeRef

\* What a class declares itself is what is live; there is one declaration of a name.
LEMMA OwnIsLive ==
    ASSUME SchemaInv, NEW c \in Classes, NEW n
    PROVE  /\ \A k : k \in Types!Own(c, n) <=> k \in DOMAIN wrote /\ Live(c, k) /\ wrote[k].name = n
           /\ \A j, k \in Types!Own(c, n) : j = k
           /\ Types!Own(c, n) # {} => n \in Props
<1>1. ASSUME NEW what
      PROVE  \A k : k \in Types!Wrote(what, c, n) <=>
                 /\ k \in DOMAIN wrote
                 /\ wrote[k].class = c /\ wrote[k].what = what /\ wrote[k].name = n
  BY DEF Types!Wrote, Types!Applied
<1>2. ASSUME NEW k
      PROVE  k \in Types!Own(c, n) <=> k \in DOMAIN wrote /\ Live(c, k) /\ wrote[k].name = n
  BY <1>1 DEF Types!Own, Live
<1>3. \A j, k \in Types!Own(c, n) : j = k
  BY <1>2 DEF Live, SchemaInv, WroteOnce
<1>4. \A k \in DOMAIN wrote : wrote[k].name \in Props
  <2>1. wrote \in Seq([class : Classes, what : {"field", "hide"}, name : Props, ref : TypeRef])
    BY DEF SchemaInv, SchemaTyped
  <2>2. \A k \in 1 .. Len(wrote) :
           wrote[k] \in [class : Classes, what : {"field", "hide"}, name : Props, ref : TypeRef]
    BY <2>1, ElementOfSeq
  <2>3. DOMAIN wrote = 1 .. Len(wrote)
    BY <2>1, LenProperties
  <2> QED BY <2>2, <2>3
<1> QED BY <1>2, <1>3, <1>4

LEMMA OwnFieldsIs ==
    ASSUME SchemaInv, NEW c \in Classes
    PROVE  /\ \A n : n \in DOMAIN Types!OwnFields(c) <=> Types!Own(c, n) # {}
           /\ \A n : \A k \in Types!Own(c, n) : Types!OwnFields(c)[n] = wrote[k].ref
<1>1. PICK own : own = fields[c]
  OBVIOUS
<1>2. FieldsHold(c)
  BY DEF SchemaInv
<1>3. PICK g : g = Types!OwnFields(c)
  OBVIOUS
<1>4. DOMAIN g = {own[k].name : k \in DOMAIN own}
  BY <1>1, <1>3 DEF Types!OwnFields
<1>5. ASSUME NEW i \in DOMAIN own PROVE g[own[i].name] = own[i].ref
  <2>1. PICK n : n = own[i].name
    OBVIOUS
  <2>2. \A k \in DOMAIN own : own[k].name = n => k = i
    BY <1>1, <1>2, <2>1 DEF FieldsHold
  <2>3. own \in Seq([name : Props, ref : TypeRef])
    BY <1>1 DEF SchemaInv, SchemaTyped
  <2>4. i \in Nat /\ i <= i
    BY <2>3, LenProperties
  <2>5. PICK last : last = CHOOSE k \in DOMAIN own :
                      own[k].name = n /\ \A j \in DOMAIN own : own[j].name = n => j <= k
    OBVIOUS
  <2>6. last = i
    BY <2>1, <2>2, <2>4, <2>5
  <2>7. n \in {own[k].name : k \in DOMAIN own}
    BY <2>1
  <2>8. g[n] = own[CHOOSE k \in DOMAIN own :
                      own[k].name = n /\ \A j \in DOMAIN own : own[j].name = n => j <= k].ref
    BY <1>1, <1>3, <2>7 DEF Types!OwnFields
  <2> QED BY <2>1, <2>5, <2>6, <2>8
<1>6. ASSUME NEW n PROVE n \in DOMAIN g <=> Types!Own(c, n) # {}
  <2>1. ASSUME n \in DOMAIN g PROVE Types!Own(c, n) # {}
    <3>1. PICK i \in DOMAIN own : own[i].name = n
      BY <1>4, <2>1
    <3>2. PICK k \in DOMAIN wrote : Live(c, k) /\ Same(own[i], wrote[k])
      BY <1>1, <1>2 DEF FieldsHold
    <3> QED BY <3>1, <3>2, OwnIsLive DEF Same
  <2>2. ASSUME NEW k \in Types!Own(c, n) PROVE n \in DOMAIN g
    <3>1. k \in DOMAIN wrote /\ Live(c, k) /\ wrote[k].name = n
      BY <2>2, OwnIsLive
    <3>2. PICK i \in DOMAIN own : Same(own[i], wrote[k])
      BY <1>1, <1>2, <3>1 DEF FieldsHold
    <3> QED BY <1>4, <3>1, <3>2 DEF Same
  <2> QED BY <2>1, <2>2
<1>7. ASSUME NEW n, NEW k \in Types!Own(c, n) PROVE g[n] = wrote[k].ref
  <2>1. k \in DOMAIN wrote /\ Live(c, k) /\ wrote[k].name = n
    BY <1>7, OwnIsLive
  <2>2. PICK i \in DOMAIN own : Same(own[i], wrote[k])
    BY <1>1, <1>2, <2>1 DEF FieldsHold
  <2> QED BY <1>5, <2>1, <2>2 DEF Same
<1> QED BY <1>3, <1>6, <1>7

\* What the program says of its classes.
LEMMA ProgramIs ==
    ASSUME GraphQLAssumption, SchemaInv
    PROVE  /\ \E N \in Nat : Classes = 1 .. N /\ Types!Untyped = N + 1
           /\ \A c \in Classes : Types!base[c] \in 0 .. c - 1
           /\ \A c \in Classes : Types!kinds[c] \subseteq {"object", "input", "enum", "scalar", "union"}
           /\ \A c \in Classes : Types!members[c] \subseteq Classes
           /\ \A c \in Classes : \A j, k \in DOMAIN Types!entries[c] :
                 Types!entries[c][j][1] = Types!entries[c][k][1] => j = k
<1>1. Types!GraphQLSchemaAssumption /\ program \in Programs
  BY DEF GraphQLAssumption, SchemaInv, SchemaTyped
<1>2. \E N \in Nat : Classes = 1 .. N /\ Types!Untyped = N + 1
  BY <1>1 DEF Types!GraphQLSchemaAssumption, Types!Untyped
<1> QED BY <1>1, <1>2 DEF Types!GraphQLSchemaAssumption, Types!base, Types!kinds, Types!members,
                          Types!entries

\* The way from a class to its root: the class, and then the way from its base.
LEMMA AncestryIs ==
    ASSUME GraphQLAssumption, SchemaInv
    PROVE  /\ DOMAIN Types!Ancestry = Classes
           /\ \A c \in Classes :
                 Types!Ancestry[c] = <<c>> \o (IF Types!base[c] = 0 THEN <<>>
                                               ELSE Types!Ancestry[Types!base[c]])
<1>1. PICK N \in Nat : Classes = 1 .. N
  BY ProgramIs
<1>2. PICK b : b = Types!base
  OBVIOUS
<1>3. \A c \in 1 .. N : b[c] \in 0 .. c - 1
  BY <1>1, <1>2, ProgramIs
<1>4. PICK U : U = {n \in 0 .. N : \E f : /\ f = [c \in 1 .. n |-> f[c]]
                  /\ \A c \in 1 .. n : f[c] = <<c>> \o (IF b[c] = 0 THEN <<>> ELSE f[b[c]])}
  OBVIOUS
<1>5. 0 \in U
  <2>1. PICK f : f = [c \in 1 .. 0 |-> 0]
    OBVIOUS
  <2>2. f = [c \in 1 .. 0 |-> f[c]]
    BY <2>1
  <2>3. 0 \in 0 .. N /\ \A c \in 1 .. 0 : FALSE
    OBVIOUS
  <2> QED BY <1>4, <2>2, <2>3
<1>6. ASSUME NEW n \in 1 .. N, n - 1 \in U PROVE n \in U
  <2>1. PICK f : /\ f = [c \in 1 .. n - 1 |-> f[c]]
                 /\ \A c \in 1 .. n - 1 :
                       f[c] = <<c>> \o (IF b[c] = 0 THEN <<>> ELSE f[b[c]])
    BY <1>4, <1>6
  <2>2. PICK e : e = <<n>> \o (IF b[n] = 0 THEN <<>> ELSE f[b[n]])
    OBVIOUS
  <2>3. PICK g : g = [c \in 1 .. n |-> IF c = n THEN e ELSE f[c]]
    OBVIOUS
  <2>4. /\ g = [c \in 1 .. n |-> g[c]] /\ g[n] = e
        /\ \A c \in 1 .. n - 1 : g[c] = f[c]
    BY <2>3
  <2>5. ASSUME NEW c \in 1 .. n PROVE g[c] = <<c>> \o (IF b[c] = 0 THEN <<>> ELSE g[b[c]])
    <3>1. b[c] # 0 => b[c] \in 1 .. n - 1
      BY <1>3
    <3>2. b[c] # 0 => g[b[c]] = f[b[c]]
      BY <2>4, <3>1
    <3>3. CASE c = n
      BY <2>2, <2>4, <3>2, <3>3
    <3>4. CASE c # n
      <4>1. c \in 1 .. n - 1
        BY <3>4
      <4> QED BY <2>1, <2>4, <3>2, <4>1
    <3> QED BY <3>3, <3>4
  <2>6. n \in 0 .. N
    OBVIOUS
  <2> QED BY <1>4, <2>4, <2>5, <2>6
<1>7. 0 .. N \subseteq U
  BY <1>5, <1>6, Climbs
<1>8. PICK f : /\ f = [c \in Classes |-> f[c]]
               /\ \A c \in Classes : f[c] = <<c>> \o (IF b[c] = 0 THEN <<>> ELSE f[b[c]])
  <2>1. N \in U
    BY <1>7
  <2> QED BY <1>1, <1>4, <2>1
<1>9. f = [c \in Classes |-> <<c>> \o (IF b[c] = 0 THEN <<>> ELSE f[b[c]])]
  BY <1>8
<1>10. PICK g : g = CHOOSE A : A = [c \in Classes |-> <<c>> \o (IF b[c] = 0 THEN <<>> ELSE A[b[c]])]
  OBVIOUS
<1>11. g = [c \in Classes |-> <<c>> \o (IF b[c] = 0 THEN <<>> ELSE g[b[c]])]
  BY <1>9, <1>10
<1>12. Types!Ancestry = g
  BY <1>2, <1>10 DEF Types!Ancestry
<1>13. DOMAIN g = Classes
       /\ \A c \in Classes : g[c] = <<c>> \o (IF b[c] = 0 THEN <<>> ELSE g[b[c]])
  BY <1>11
<1> QED BY <1>2, <1>12, <1>13

\* The fields of a class: its own, and below them those of its base.
Over(own, above) ==
    [n \in DOMAIN own \union DOMAIN above |-> IF n \in DOMAIN own THEN own[n] ELSE above[n]]

LEMMA CollectedIs ==
    ASSUME GraphQLAssumption, SchemaInv
    PROVE  /\ DOMAIN Types!Collected = Classes
           /\ \A c \in Classes :
                 Types!Collected[c] = Over(Types!OwnFields(c),
                     IF Types!base[c] = 0 THEN <<>> ELSE Types!Collected[Types!base[c]])
<1>1. PICK N \in Nat : Classes = 1 .. N
  BY ProgramIs
<1>2. PICK b : b = Types!base
  OBVIOUS
<1>3. \A c \in 1 .. N : b[c] \in 0 .. c - 1
  BY <1>1, <1>2, ProgramIs
<1>4. PICK U : U = {n \in 0 .. N : \E f : /\ f = [c \in 1 .. n |-> f[c]]
                  /\ \A c \in 1 .. n : f[c] = Over(Types!OwnFields(c),
                                                   IF b[c] = 0 THEN <<>> ELSE f[b[c]])}
  OBVIOUS
<1>5. 0 \in U
  <2>1. PICK f : f = [c \in 1 .. 0 |-> 0]
    OBVIOUS
  <2>2. f = [c \in 1 .. 0 |-> f[c]]
    BY <2>1
  <2>3. 0 \in 0 .. N /\ \A c \in 1 .. 0 : FALSE
    OBVIOUS
  <2> QED BY <1>4, <2>2, <2>3
<1>6. ASSUME NEW n \in 1 .. N, n - 1 \in U PROVE n \in U
  <2>1. PICK f : /\ f = [c \in 1 .. n - 1 |-> f[c]]
                 /\ \A c \in 1 .. n - 1 : f[c] = Over(Types!OwnFields(c),
                                                      IF b[c] = 0 THEN <<>> ELSE f[b[c]])
    BY <1>4, <1>6
  <2>2. PICK e : e = Over(Types!OwnFields(n), IF b[n] = 0 THEN <<>> ELSE f[b[n]])
    OBVIOUS
  <2>3. PICK g : g = [c \in 1 .. n |-> IF c = n THEN e ELSE f[c]]
    OBVIOUS
  <2>4. /\ g = [c \in 1 .. n |-> g[c]] /\ g[n] = e
        /\ \A c \in 1 .. n - 1 : g[c] = f[c]
    BY <2>3
  <2>5. ASSUME NEW c \in 1 .. n
        PROVE  g[c] = Over(Types!OwnFields(c), IF b[c] = 0 THEN <<>> ELSE g[b[c]])
    <3>1. b[c] # 0 => b[c] \in 1 .. n - 1
      BY <1>3
    <3>2. b[c] # 0 => g[b[c]] = f[b[c]]
      BY <2>4, <3>1
    <3>3. CASE c = n
      BY <2>2, <2>4, <3>2, <3>3
    <3>4. CASE c # n
      <4>1. c \in 1 .. n - 1
        BY <3>4
      <4> QED BY <2>1, <2>4, <3>2, <4>1
    <3> QED BY <3>3, <3>4
  <2>6. n \in 0 .. N
    OBVIOUS
  <2> QED BY <1>4, <2>4, <2>5, <2>6
<1>7. 0 .. N \subseteq U
  BY <1>5, <1>6, Climbs
<1>8. PICK f : /\ f = [c \in Classes |-> f[c]]
               /\ \A c \in Classes : f[c] = Over(Types!OwnFields(c),
                                                 IF b[c] = 0 THEN <<>> ELSE f[b[c]])
  <2>1. N \in U
    BY <1>7
  <2> QED BY <1>1, <1>4, <2>1
<1>9. f = [c \in Classes |-> Over(Types!OwnFields(c), IF b[c] = 0 THEN <<>> ELSE f[b[c]])]
  BY <1>8
<1>10. PICK g : g = CHOOSE A : A = [c \in Classes |->
                    Over(Types!OwnFields(c), IF b[c] = 0 THEN <<>> ELSE A[b[c]])]
  OBVIOUS
<1>11. g = [c \in Classes |-> Over(Types!OwnFields(c), IF b[c] = 0 THEN <<>> ELSE g[b[c]])]
  BY <1>9, <1>10
<1>12. Types!Collected = g
  BY <1>2, <1>10 DEF Types!Collected, Over
<1>13. DOMAIN g = Classes
       /\ \A c \in Classes :
             g[c] = Over(Types!OwnFields(c), IF b[c] = 0 THEN <<>> ELSE g[b[c]])
  BY <1>11
<1> QED BY <1>2, <1>12, <1>13

\* Where a class declares a name itself, that is what is said of it; otherwise what is
\* said of it where its base is.
LEMMA SaysIs ==
    ASSUME GraphQLAssumption, SchemaInv, NEW c \in Classes, NEW n
    PROVE  /\ \A k \in Types!Own(c, n) :
                 Types!Declares(c, n) /\ Types!Says(c, n) = wrote[k].ref
           /\ Types!Own(c, n) = {} =>
                 /\ Types!Declares(c, n) <=>
                       Types!base[c] # 0 /\ Types!Declares(Types!base[c], n)
                 /\ Types!Declares(c, n) => Types!Says(c, n) = Types!Says(Types!base[c], n)
<1>1. PICK N \in Nat : Classes = 1 .. N
  BY ProgramIs
<1>2. PICK b \in 0 .. c - 1 : b = Types!base[c]
  BY ProgramIs
<1>3. PICK A : A = Types!Ancestry
  OBVIOUS
<1>4. \A d \in Classes : A[d] \in Seq(Classes) /\ A[d] # <<>> /\ A[d][1] = d
  <2>1. PICK U : U = {d \in Classes : A[d] \in Seq(Classes) /\ A[d] # <<>> /\ A[d][1] = d}
    OBVIOUS
  <2>2. ASSUME NEW d \in 1 .. N, \A e \in 1 .. d - 1 : e \in U PROVE d \in U
    <3>1. PICK s : s = IF Types!base[d] = 0 THEN <<>> ELSE A[Types!base[d]]
      OBVIOUS
    <3>2. s \in Seq(Classes)
      <4>1. CASE Types!base[d] = 0
        BY <3>1, <4>1, EmptySeq
      <4>2. CASE Types!base[d] # 0
        <5>1. Types!base[d] \in 1 .. d - 1
          BY <1>1, <4>2, ProgramIs
        <5> QED BY <2>1, <2>2, <3>1, <4>2, <5>1
      <4> QED BY <4>1, <4>2
    <3>3. A[d] = <<d>> \o s
      BY <1>1, <1>3, <3>1, AncestryIs
    <3>4. <<d>> \in Seq(Classes) /\ Len(<<d>>) = 1 /\ <<d>>[1] = d
      BY <1>1
    <3>5. /\ A[d] \in Seq(Classes) /\ Len(A[d]) = 1 + Len(s)
          /\ \A i \in 1 .. 1 + Len(s) : A[d][i] = IF i <= 1 THEN <<d>>[i] ELSE s[i - 1]
      BY <3>2, <3>3, <3>4, ConcatProperties
    <3>6. Len(s) \in Nat
      BY <3>2, LenProperties
    <3>7. 1 \in 1 .. 1 + Len(s)
      BY <3>6
    <3>8. A[d][1] = d
      BY <3>4, <3>5, <3>7
    <3>9. A[d] # <<>>
      BY <3>5, <3>6
    <3> QED BY <1>1, <2>1, <3>5, <3>8, <3>9
  <2>3. 1 .. N \subseteq U
    BY <2>2, EveryClass
  <2> QED BY <1>1, <2>1, <2>3
<1>5. PICK s \in Seq(Classes) : s = IF b = 0 THEN <<>> ELSE A[b]
  <2>1. b # 0 => b \in Classes
    BY <1>1, <1>2
  <2>2. <<>> \in Seq(Classes)
    BY EmptySeq
  <2> QED BY <1>4, <2>1, <2>2
<1>6. PICK M \in Nat : M = Len(s) /\ DOMAIN s = 1 .. M
  BY LenProperties
<1>7. PICK a \in Seq(Classes) : /\ a = A[c] /\ DOMAIN a = 1 .. M + 1 /\ a[1] = c
                                /\ \A i \in 1 .. M : a[i + 1] = s[i]
  <2>1. A[c] = <<c>> \o s
    BY <1>2, <1>3, <1>5, AncestryIs
  <2>2. <<c>> \in Seq(Classes) /\ Len(<<c>>) = 1 /\ <<c>>[1] = c
    OBVIOUS
  <2>3. PICK a : a = <<c>> \o s
    OBVIOUS
  <2>4. /\ a \in Seq(Classes) /\ Len(a) = 1 + Len(s)
        /\ \A i \in 1 .. 1 + Len(s) : a[i] = IF i <= 1 THEN <<c>>[i] ELSE s[i - 1]
    BY <2>2, <2>3, ConcatProperties
  <2>5. Len(a) = M + 1 /\ DOMAIN a = 1 .. M + 1
    BY <1>6, <2>4, LenProperties
  <2>6. \A i \in 1 .. M + 1 : a[i] = IF i <= 1 THEN c ELSE s[i - 1]
    BY <1>6, <2>2, <2>4
  <2>7. 1 \in 1 .. M + 1 /\ \A i \in 1 .. M : i + 1 \in 1 .. M + 1 /\ ~(i + 1 <= 1) /\ i + 1 - 1 = i
    BY <1>6
  <2>8. a[1] = c /\ \A i \in 1 .. M : a[i + 1] = s[i]
    BY <2>6, <2>7
  <2> QED BY <2>1, <2>3, <2>4, <2>5, <2>8
<1>8. \A i \in 1 .. M + 1 : i = 1 \/ (i - 1 \in 1 .. M /\ i = (i - 1) + 1)
  BY <1>6
<1>9. 1 \in 1 .. M + 1 /\ \A i \in 1 .. M : i + 1 \in 1 .. M + 1
  BY <1>6
<1>10. Types!Declares(c, n) <=> \E i \in 1 .. M + 1 : Types!Own(a[i], n) # {}
  BY <1>3, <1>7 DEF Types!Declares
<1>11. ASSUME NEW k \in Types!Own(c, n)
       PROVE  Types!Declares(c, n) /\ Types!Says(c, n) = wrote[k].ref
  <2>1. Types!Declares(c, n)
    BY <1>7, <1>9, <1>10, <1>11
  <2>2. PICK nearest : nearest = CHOOSE i \in DOMAIN a :
            Types!Own(a[i], n) # {} /\ \A j \in 1 .. i - 1 : Types!Own(a[j], n) = {}
    OBVIOUS
  <2>3. nearest = 1
    <3>1. 1 \in DOMAIN a /\ Types!Own(a[1], n) # {} /\ \A j \in 1 .. 1 - 1 : FALSE
      BY <1>7, <1>9, <1>11
    <3>2. nearest \in DOMAIN a /\ \A j \in 1 .. nearest - 1 : Types!Own(a[j], n) = {}
      BY <2>2, <3>1
    <3>3. nearest # 1 => 1 \in 1 .. nearest - 1
      BY <1>7, <3>2
    <3> QED BY <3>1, <3>2, <3>3
  <2>4. PICK m : m = CHOOSE i \in Types!Own(a[nearest], n) : TRUE
    OBVIOUS
  <2>5. m = k
    <3>1. m \in Types!Own(c, n)
      BY <1>7, <1>11, <2>3, <2>4
    <3> QED BY <1>11, <3>1, OwnIsLive
  <2>6. Types!Says(c, n) = wrote[m].ref
    BY <1>3, <1>7, <2>2, <2>4 DEF Types!Says
  <2> QED BY <2>1, <2>5, <2>6
<1>12. ASSUME Types!Own(c, n) = {}
       PROVE  /\ Types!Declares(c, n) <=> b # 0 /\ Types!Declares(b, n)
              /\ Types!Declares(c, n) => Types!Says(c, n) = Types!Says(b, n)
  <2>1. Types!Declares(c, n) <=> \E i \in 1 .. M : Types!Own(s[i], n) # {}
    <3>1. ASSUME NEW i \in 1 .. M + 1, Types!Own(a[i], n) # {}
          PROVE  \E j \in 1 .. M : Types!Own(s[j], n) # {}
      <4>1. i # 1
        BY <1>7, <1>12, <3>1
      <4>2. i - 1 \in 1 .. M /\ a[i] = s[i - 1]
        BY <1>7, <1>8, <4>1
      <4> QED BY <3>1, <4>2
    <3>2. ASSUME NEW i \in 1 .. M, Types!Own(s[i], n) # {}
          PROVE  \E j \in 1 .. M + 1 : Types!Own(a[j], n) # {}
      BY <1>7, <1>9, <3>2
    <3> QED BY <1>10, <3>1, <3>2
  <2>2. CASE b = 0
    <3>1. \A i \in 1 .. M : FALSE
      BY <1>5, <1>6, <2>2
    <3> QED BY <2>1, <2>2, <3>1
  <2>3. CASE b # 0
    <3>1. s = A[b] /\ (Types!Declares(b, n) <=> \E i \in 1 .. M : Types!Own(s[i], n) # {})
      BY <1>3, <1>5, <1>6, <2>3 DEF Types!Declares
    <3>2. ASSUME Types!Declares(c, n) PROVE Types!Says(c, n) = Types!Says(b, n)
      <4>1. PICK T : T = {i \in 1 .. M : Types!Own(s[i], n) # {}}
        OBVIOUS
      <4>2. T \in SUBSET Nat /\ T # {}
        <5>1. PICK i \in 1 .. M : Types!Own(s[i], n) # {}
          BY <2>1, <3>2
        <5>2. i \in T
          BY <4>1, <5>1
        <5>3. T \subseteq 1 .. M
          BY <4>1
        <5> QED BY <5>2, <5>3
      <4>3. PICK m \in T : \A j \in T : m <= j
        BY <4>2, LeastOf
      <4>4. m \in 1 .. M /\ Types!Own(s[m], n) # {}
        BY <4>1
      <4>5. \A j \in 1 .. m - 1 : Types!Own(s[j], n) = {}
        <5> SUFFICES ASSUME NEW j \in 1 .. m - 1, Types!Own(s[j], n) # {} PROVE FALSE
          OBVIOUS
        <5>1. j \in 1 .. M /\ j < m
          BY <4>4
        <5>2. j \in T
          BY <4>1, <5>1
        <5> QED BY <4>3, <4>4, <5>1, <5>2
      <4>6. PICK u : u = CHOOSE i \in DOMAIN s :
                Types!Own(s[i], n) # {} /\ \A j \in 1 .. i - 1 : Types!Own(s[j], n) = {}
        OBVIOUS
      <4>7. u = m
        <5>1. /\ u \in 1 .. M /\ Types!Own(s[u], n) # {}
              /\ \A j \in 1 .. u - 1 : Types!Own(s[j], n) = {}
          BY <1>6, <4>4, <4>5, <4>6
        <5>2. ~(u < m)
          <6>1. u < m => u \in 1 .. m - 1
            BY <4>4, <5>1
          <6> QED BY <4>5, <5>1, <6>1
        <5>3. ~(m < u)
          <6>1. m < u => m \in 1 .. u - 1
            BY <4>4, <5>1
          <6> QED BY <4>4, <5>1, <6>1
        <5> QED BY <4>4, <5>1, <5>2, <5>3
      <4>8. PICK v : v = CHOOSE i \in DOMAIN a :
                Types!Own(a[i], n) # {} /\ \A j \in 1 .. i - 1 : Types!Own(a[j], n) = {}
        OBVIOUS
      <4>9. v = m + 1
        <5>1. m + 1 \in DOMAIN a /\ Types!Own(a[m + 1], n) # {}
          BY <1>7, <1>9, <4>4
        <5>2. ASSUME NEW j \in 1 .. m + 1 - 1 PROVE Types!Own(a[j], n) = {}
          <6>1. CASE j = 1
            BY <1>7, <1>12, <6>1
          <6>2. CASE j # 1
            <7>1. j - 1 \in 1 .. m - 1 /\ j - 1 \in 1 .. M /\ (j - 1) + 1 = j
              BY <4>4, <6>2
            <7>2. a[j] = s[j - 1]
              BY <1>7, <7>1
            <7> QED BY <4>5, <7>1, <7>2
          <6> QED BY <6>1, <6>2
        <5>3. /\ v \in DOMAIN a /\ Types!Own(a[v], n) # {}
              /\ \A j \in 1 .. v - 1 : Types!Own(a[j], n) = {}
          <6>1. PICK w : w = m + 1
            OBVIOUS
          <6>2. ASSUME NEW j \in 1 .. w - 1 PROVE Types!Own(a[j], n) = {}
            <7>1. j \in 1 .. m + 1 - 1
              BY <4>4, <6>1
            <7> QED BY <5>2, <7>1
          <6>3. w \in DOMAIN a /\ Types!Own(a[w], n) # {}
            BY <5>1, <6>1
          <6> QED BY <4>8, <6>2, <6>3
        <5>4. v \in Nat /\ m \in Nat
          BY <1>7, <4>4, <5>3
        <5>5. ~(v < m + 1)
          <6>1. v < m + 1 => v \in 1 .. m + 1 - 1
            BY <1>7, <5>3, <5>4
          <6> QED BY <5>2, <5>3, <6>1
        <5>6. ~(m + 1 < v)
          <6>1. m + 1 < v => m + 1 \in 1 .. v - 1
            BY <5>4
          <6> QED BY <5>1, <5>3, <6>1
        <5> QED BY <5>4, <5>5, <5>6
      <4>10. a[v] = s[m] /\ a[v] = s[u]
        BY <1>7, <4>4, <4>7, <4>9
      <4>11. Types!Says(c, n) = wrote[CHOOSE i \in Types!Own(a[v], n) : TRUE].ref
        BY <1>3, <1>7, <4>8 DEF Types!Says
      <4>12. Types!Says(b, n) = wrote[CHOOSE i \in Types!Own(s[u], n) : TRUE].ref
        BY <1>3, <3>1, <4>6 DEF Types!Says
      <4>13. PICK O : O = Types!Own(a[v], n)
        OBVIOUS
      <4>14. O = Types!Own(s[u], n)
        BY <4>10, <4>13
      <4> QED BY <4>11, <4>12, <4>13, <4>14
    <3> QED BY <2>1, <2>3, <3>1, <3>2
  <2> QED BY <2>2, <2>3
<1> QED BY <1>2, <1>11, <1>12

\* What is collected of a class is what is said of it.
CollectsWhatIsSaid(c) ==
    /\ \A n : n \in DOMAIN Types!Collected[c] <=> Types!Declares(c, n)
    /\ \A n : Types!Declares(c, n) =>
          /\ n \in Props /\ Types!Says(c, n) \in TypeRef
          /\ Types!Collected[c][n] = Types!Says(c, n)

LEMMA CollectedSays ==
    ASSUME GraphQLAssumption, SchemaInv
    PROVE  \A c \in Classes : CollectsWhatIsSaid(c)
<1>1. PICK N \in Nat : Classes = 1 .. N
  BY ProgramIs
<1>2. PICK U : U = {c \in Classes : CollectsWhatIsSaid(c)}
  OBVIOUS
<1>3. \A k \in DOMAIN wrote : wrote[k].name \in Props /\ wrote[k].ref \in TypeRef
  <2>1. wrote \in Seq([class : Classes, what : {"field", "hide"}, name : Props, ref : TypeRef])
    BY DEF SchemaInv, SchemaTyped
  <2>2. \A k \in 1 .. Len(wrote) :
           wrote[k] \in [class : Classes, what : {"field", "hide"}, name : Props, ref : TypeRef]
    BY <2>1, ElementOfSeq
  <2>3. DOMAIN wrote = 1 .. Len(wrote)
    BY <2>1, LenProperties
  <2> QED BY <2>2, <2>3
<1>4. ASSUME NEW c \in 1 .. N, \A d \in 1 .. c - 1 : d \in U PROVE c \in U
  <2>1. c \in Classes
    BY <1>1
  <2>2. PICK b \in 0 .. c - 1 : b = Types!base[c]
    BY <2>1, ProgramIs
  <2>3. PICK own : own = Types!OwnFields(c)
    OBVIOUS
  <2>4. PICK above : above = IF b = 0 THEN <<>> ELSE Types!Collected[b]
    OBVIOUS
  <2>5. PICK f : f = Types!Collected[c]
    OBVIOUS
  <2>6. /\ DOMAIN f = DOMAIN own \union DOMAIN above
        /\ \A n \in DOMAIN f : f[n] = IF n \in DOMAIN own THEN own[n] ELSE above[n]
    <3>1. f = Over(own, above)
      BY <2>1, <2>2, <2>3, <2>4, <2>5, CollectedIs
    <3> QED BY <3>1 DEF Over
  <2>7. b # 0 => b \in Classes /\ CollectsWhatIsSaid(b)
    <3>1. b # 0 => b \in 1 .. c - 1
      BY <2>2
    <3> QED BY <1>2, <1>4, <3>1
  <2>8. ASSUME NEW n, NEW k \in Types!Own(c, n)
        PROVE  /\ n \in DOMAIN f /\ Types!Declares(c, n) /\ n \in Props
               /\ Types!Says(c, n) \in TypeRef /\ f[n] = Types!Says(c, n)
    <3>1. n \in DOMAIN own /\ own[n] = wrote[k].ref
      BY <2>1, <2>3, <2>8, OwnFieldsIs
    <3>2. Types!Declares(c, n) /\ Types!Says(c, n) = wrote[k].ref
      BY <2>1, <2>8, SaysIs
    <3>3. k \in DOMAIN wrote /\ wrote[k].name = n
      BY <2>1, <2>8, OwnIsLive
    <3> QED BY <1>3, <2>6, <3>1, <3>2, <3>3
  <2>9. ASSUME NEW n, Types!Own(c, n) = {}
        PROVE  /\ n \in DOMAIN f <=> Types!Declares(c, n)
               /\ Types!Declares(c, n) =>
                     n \in Props /\ Types!Says(c, n) \in TypeRef /\ f[n] = Types!Says(c, n)
    <3>1. n \notin DOMAIN own
      BY <2>1, <2>3, <2>9, OwnFieldsIs
    <3>2. /\ Types!Declares(c, n) <=> b # 0 /\ Types!Declares(b, n)
          /\ Types!Declares(c, n) => Types!Says(c, n) = Types!Says(b, n)
      BY <2>1, <2>2, <2>9, SaysIs
    <3>3. CASE b = 0
      BY <2>4, <2>6, <3>1, <3>2, <3>3
    <3>4. CASE b # 0
      <4>1. /\ n \in DOMAIN above <=> Types!Declares(b, n)
            /\ Types!Declares(b, n) => /\ n \in Props /\ Types!Says(b, n) \in TypeRef
                                       /\ above[n] = Types!Says(b, n)
        BY <2>4, <2>7, <3>4 DEF CollectsWhatIsSaid
      <4> QED BY <2>6, <3>1, <3>2, <3>4, <4>1
    <3> QED BY <3>3, <3>4
  <2>10. CollectsWhatIsSaid(c)
    <3>1. ASSUME NEW n
          PROVE  /\ n \in DOMAIN f <=> Types!Declares(c, n)
                 /\ Types!Declares(c, n) =>
                       n \in Props /\ Types!Says(c, n) \in TypeRef /\ f[n] = Types!Says(c, n)
      <4>1. CASE Types!Own(c, n) = {}
        BY <2>9, <4>1
      <4>2. CASE Types!Own(c, n) # {}
        BY <2>8, <4>2
      <4> QED BY <4>1, <4>2
    <3> QED BY <2>5, <3>1 DEF CollectsWhatIsSaid
  <2> QED BY <1>2, <2>1, <2>10
<1>5. 1 .. N \subseteq U
  BY <1>4, EveryClass
<1> QED BY <1>1, <1>2, <1>5

\* The types buildSchema() makes of classes, unions aside.
Made == {"enum", "scalar", "object", "input"}

LEMMA AllTypesIs ==
    ASSUME GraphQLAssumption, SchemaInv
    PROVE  /\ \A t \in Types!AllTypes : /\ t = <<t[1], t[2]>> /\ t[1] \in Classes
                                        /\ t[2] \in Made /\ t[2] \in Types!kinds[t[1]]
           /\ \A c \in Classes : \A kind \in Types!kinds[c] \ {"union"} :
                 <<c, kind>> \in Types!AllTypes
<1>1. DOMAIN Types!Order = 1 .. 4 /\ Types!Order[1] = "enum" /\ Types!Order[2] = "scalar"
      /\ Types!Order[3] = "object" /\ Types!Order[4] = "input"
  BY DEF Types!Order
<1>2. \A k \in 1 .. 4 : k = 1 \/ k = 2 \/ k = 3 \/ k = 4
  OBVIOUS
<1>3. ASSUME NEW t \in Types!AllTypes
      PROVE  /\ t = <<t[1], t[2]>> /\ t[1] \in Classes
             /\ t[2] \in Made /\ t[2] \in Types!kinds[t[1]]
  <2>1. PICK k \in 1 .. 4 : t \in Types!Types(Types!Order[k])
    BY <1>1, <1>3 DEF Types!AllTypes
  <2>2. Types!Order[k] \in Made
    BY <1>1, <1>2 DEF Made
  <2>3. PICK c \in Classes : t = <<c, Types!Order[k]>> /\ Types!Order[k] \in Types!kinds[c]
    BY <2>1 DEF Types!Types
  <2>4. t[1] = c /\ t[2] = Types!Order[k]
    BY <2>3
  <2> QED BY <2>2, <2>3, <2>4
<1>4. ASSUME NEW c \in Classes, NEW kind \in Types!kinds[c] \ {"union"}
      PROVE  <<c, kind>> \in Types!AllTypes
  <2>1. kind \in Made
    BY <1>4, ProgramIs DEF Made
  <2>2. PICK k \in 1 .. 4 : Types!Order[k] = kind
    BY <1>1, <2>1 DEF Made
  <2>3. <<c, kind>> \in Types!Types(Types!Order[k])
    BY <1>4, <2>2 DEF Types!Types
  <2> QED BY <1>1, <2>3 DEF Types!AllTypes
<1> QED BY <1>3, <1>4

\* The order in which buildEnums(), buildScalars() and so on are called.
LEMMA RankIs ==
    ASSUME NEW t
    PROVE  /\ t[2] = "enum" => Types!Rank(t) = 1
           /\ t[2] = "scalar" => Types!Rank(t) = 2
           /\ t[2] = "object" => Types!Rank(t) = 3
           /\ t[2] = "input" => Types!Rank(t) = 4
<1>1. DOMAIN Types!Order = 1 .. 4 /\ Types!Order[1] = "enum" /\ Types!Order[2] = "scalar"
      /\ Types!Order[3] = "object" /\ Types!Order[4] = "input"
  BY DEF Types!Order
<1>2. \A k \in 1 .. 4 : k = 1 \/ k = 2 \/ k = 3 \/ k = 4
  OBVIOUS
<1>3. 1 \in 1 .. 4 /\ 2 \in 1 .. 4 /\ 3 \in 1 .. 4 /\ 4 \in 1 .. 4
  OBVIOUS
<1>4. PICK r : r = CHOOSE k \in 1 .. 4 : Types!Order[k] = t[2]
  OBVIOUS
<1>5. Types!Rank(t) = r
  BY <1>1, <1>4 DEF Types!Rank
<1>6. ASSUME NEW i \in 1 .. 4, t[2] = Types!Order[i] PROVE r = i
  <2>1. r \in 1 .. 4 /\ Types!Order[r] = t[2]
    BY <1>4, <1>6
  <2> QED BY <1>1, <1>2, <1>6, <2>1
<1> QED BY <1>1, <1>3, <1>5, <1>6

\* Of several types there is one made last.
LEMMA MadeLastIs ==
    ASSUME GraphQLAssumption, SchemaInv, NEW T \in SUBSET Types!AllTypes, T # {}
    PROVE  /\ Types!MadeLast(T) \in T
           /\ \A u \in T : Types!Later(Types!MadeLast(T), u)
<1>1. PICK N \in Nat : Classes = 1 .. N
  BY ProgramIs
<1>2. ASSUME NEW t \in T PROVE Types!Rank(t) \in 0 .. 4 /\ t[1] \in 0 .. N
  <2>1. t[1] \in Classes /\ t[2] \in Made
    BY AllTypesIs
  <2>2. Types!Rank(t) \in {1, 2, 3, 4}
    BY <2>1, RankIs DEF Made
  <2> QED BY <1>1, <2>1, <2>2
<1>3. PICK R : R = {Types!Rank(t) : t \in T}
  OBVIOUS
<1>4. R \in SUBSET (0 .. 4) /\ R # {}
  BY <1>2, <1>3
<1>5. PICK r \in R : \A k \in R : k <= r
  <2>1. 4 \in Nat
    OBVIOUS
  <2> QED BY <1>4, <2>1, GreatestOf
<1>6. PICK S : S = {t[1] : t \in {u \in T : Types!Rank(u) = r}}
  OBVIOUS
<1>7. S \in SUBSET (0 .. N) /\ S # {}
  BY <1>2, <1>3, <1>6
<1>8. PICK m \in S : \A k \in S : k <= m
  BY <1>7, GreatestOf
<1>9. PICK t \in T : Types!Rank(t) = r /\ t[1] = m
  BY <1>6
<1>10. ASSUME NEW u \in T PROVE Types!Later(t, u)
  <2>1. Types!Rank(u) \in R /\ Types!Rank(u) <= r
    BY <1>3, <1>5
  <2>2. Types!Rank(u) \in 0 .. 4 /\ r \in 0 .. 4
    BY <1>2, <1>9
  <2>3. CASE Types!Rank(u) = r
    <3>1. u[1] \in S
      BY <1>6, <2>3
    <3>2. u[1] <= m /\ u[1] \in 0 .. N /\ m \in 0 .. N
      BY <1>2, <1>7, <1>8, <3>1
    <3>3. t[1] >= u[1]
      BY <1>9, <3>2
    <3> QED BY <1>9, <2>3, <3>3 DEF Types!Later
  <2>4. CASE Types!Rank(u) # r
    <3>1. r > Types!Rank(u)
      BY <2>1, <2>2, <2>4
    <3> QED BY <1>9, <3>1 DEF Types!Later
  <2> QED BY <2>3, <2>4
<1>11. Types!MadeLast(T) = CHOOSE x \in T : \A u \in T : Types!Later(x, u)
  BY DEF Types!MadeLast
<1>12. PICK x : x = CHOOSE y \in T : \A u \in T : Types!Later(y, u)
  OBVIOUS
<1>13. x \in T /\ \A u \in T : Types!Later(x, u)
  BY <1>10, <1>12
<1> QED BY <1>11, <1>12, <1>13

\* The types a class stands for: one made of it, or a scalar that maps it.
Standing(c) == {t \in Types!AllTypes : t[1] = c \/ (t[2] = "scalar" /\ Types!maps[t[1]] = c)}

LEMMA ResolvedIs ==
    ASSUME GraphQLAssumption, SchemaInv, NEW c \in Classes
    PROVE  /\ Standing(c) # {} =>
                 /\ Types!Resolved(c) \in Standing(c)
                 /\ \A u \in Standing(c) : Types!Later(Types!Resolved(c), u)
           /\ Standing(c) = {} /\ "union" \in Types!kinds[c] => Types!Resolved(c) = <<c, "union">>
<1>1. c # Types!Scalar /\ c # Types!Untyped
  BY ProgramIs DEF Types!Scalar
<1>2. PICK T : T = Standing(c)
  OBVIOUS
<1>3. Types!TypeOf(c) = IF T = {} THEN <<>> ELSE Types!MadeLast(T)
  BY <1>2 DEF Types!TypeOf, Standing
<1>4. T \in SUBSET Types!AllTypes
  BY <1>2 DEF Standing
<1>5. CASE T # {}
  <2>1. Types!MadeLast(T) \in T /\ \A u \in T : Types!Later(Types!MadeLast(T), u)
    BY <1>4, <1>5, MadeLastIs
  <2>2. PICK t : t = Types!MadeLast(T)
    OBVIOUS
  <2>3. t = <<t[1], t[2]>>
    BY <1>4, <2>1, <2>2, AllTypesIs
  <2>4. t # <<>>
    BY <2>3
  <2>5. Types!TypeOf(c) = t
    BY <1>3, <1>5, <2>2
  <2>6. Types!Resolved(c) = t
    BY <1>1, <2>4, <2>5 DEF Types!Resolved
  <2> QED BY <1>2, <1>5, <2>1, <2>2, <2>6
<1>6. CASE T = {}
  <2>1. Types!TypeOf(c) = <<>>
    BY <1>3, <1>6
  <2>2. "union" \in Types!kinds[c] => Types!Resolved(c) = <<c, "union">>
    BY <1>1, <2>1 DEF Types!Resolved
  <2> QED BY <1>2, <1>6, <2>2
<1> QED BY <1>5, <1>6

\* A class with a type of its own resolves to what it means.
LEMMA ResolvedMeans ==
    ASSUME GraphQLAssumption, SchemaInv, NEW ref
    PROVE  Types!Means(ref, Types!Resolved(ref))
<1> SUFFICES ASSUME ref \in Classes, Types!kinds[ref] # {}
             PROVE  LET t == Types!Resolved(ref)
                    IN t[1] = ref \/ (t[2] = "scalar" /\ Types!maps[t[1]] = ref)
  BY DEF Types!Means
<1>1. CASE Standing(ref) # {}
  <2>1. Types!Resolved(ref) \in Standing(ref)
    BY <1>1, ResolvedIs
  <2> QED BY <2>1 DEF Standing
<1>2. CASE Standing(ref) = {}
  <2>1. "union" \in Types!kinds[ref]
    <3> SUFFICES ASSUME "union" \notin Types!kinds[ref] PROVE FALSE
      OBVIOUS
    <3>1. PICK kind \in Types!kinds[ref] : kind \in Types!kinds[ref] \ {"union"}
      OBVIOUS
    <3>2. <<ref, kind>> \in Types!AllTypes
      BY <3>1, AllTypesIs
    <3>3. <<ref, kind>>[1] = ref
      OBVIOUS
    <3>4. <<ref, kind>> \in Standing(ref)
      BY <3>2, <3>3 DEF Standing
    <3> QED BY <1>2, <3>4
  <2>2. Types!Resolved(ref) = <<ref, "union">>
    BY <1>2, <2>1, ResolvedIs
  <2> QED BY <2>2
<1> QED BY <1>1, <1>2

\* A class of one kind resolves to a type of that kind, or to a scalar that maps it.
LEMMA KindIs ==
    ASSUME GraphQLAssumption, SchemaInv, NEW c \in Classes, NEW kind, Types!kinds[c] = {kind}
    PROVE  LET t == Types!Resolved(c)
           IN t # <<>> /\ (t[2] = kind \/ t[2] = "scalar") /\ (kind = "object" => t[2] = kind)
<1>1. ASSUME NEW t \in Standing(c)
      PROVE  /\ t # <<>> /\ (t[2] = kind \/ t[2] = "scalar")
  <2>1. t = <<t[1], t[2]>> /\ t[2] \in Types!kinds[t[1]]
    BY <1>1, AllTypesIs DEF Standing
  <2>2. t # <<>>
    BY <2>1
  <2> QED BY <1>1, <2>1, <2>2 DEF Standing
<1>2. CASE Standing(c) # {}
  <2>1. PICK t \in Standing(c) : t = Types!Resolved(c) /\ \A u \in Standing(c) : Types!Later(t, u)
    BY <1>2, ResolvedIs
  <2>2. ASSUME kind = "object" PROVE t[2] = kind
    <3> SUFFICES ASSUME t[2] = "scalar" PROVE FALSE
      BY <1>1, <2>1, <2>2
    <3>1. PICK u : u = <<c, "object">>
      OBVIOUS
    <3>2. u \in Types!AllTypes
      <4>1. "object" \in Types!kinds[c] \ {"union"}
        BY <2>2
      <4> QED BY <3>1, <4>1, AllTypesIs
    <3>3. u[1] = c /\ u[2] = "object"
      BY <3>1
    <3>4. u \in Standing(c)
      BY <3>2, <3>3 DEF Standing
    <3>5. Types!Rank(u) = 3 /\ Types!Rank(t) = 2
      BY <3>3, RankIs
    <3> QED BY <2>1, <3>4, <3>5 DEF Types!Later
  <2> QED BY <1>1, <2>1, <2>2
<1>3. CASE Standing(c) = {}
  <2>1. kind = "union"
    <3> SUFFICES ASSUME kind # "union" PROVE FALSE
      OBVIOUS
    <3>1. kind \in Types!kinds[c] \ {"union"}
      OBVIOUS
    <3>2. PICK u : u = <<c, kind>>
      OBVIOUS
    <3>3. u \in Types!AllTypes /\ u[1] = c
      BY <3>1, <3>2, AllTypesIs
    <3> QED BY <1>3, <3>3 DEF Standing
  <2>2. Types!Resolved(c) = <<c, "union">>
    BY <1>3, <2>1, ResolvedIs
  <2>3. <<c, "union">> # <<>> /\ <<c, "union">>[2] = "union"
    OBVIOUS
  <2> QED BY <2>1, <2>2, <2>3
<1> QED BY <1>2, <1>3

\* What a program may use on a side is resolved to a type that fits that side.
LEMMA IsFits ==
    ASSUME GraphQLAssumption, SchemaInv, NEW ref \in TypeRef,
           NEW allowed \in {Types!Output, Types!Input}, Types!Is(ref, allowed)
    PROVE  Types!Fits(Types!Resolved(ref), allowed)
<1>1. "scalar" \in allowed
  BY DEF Types!Output, Types!Input
<1>2. CASE ref = Types!Scalar
  <2>1. Types!Resolved(ref) = <<Types!Scalar, "scalar">>
    <3>1. Types!Scalar # Types!Untyped /\ Types!Scalar \notin Classes
      BY ProgramIs DEF Types!Scalar
    <3> QED BY <1>2, <3>1 DEF Types!Resolved
  <2>2. PICK t : t = <<Types!Scalar, "scalar">>
    OBVIOUS
  <2>3. t # <<>> /\ t[2] = "scalar"
    BY <2>2
  <2> QED BY <1>1, <2>1, <2>2, <2>3 DEF Types!Fits
<1>3. CASE ref # Types!Scalar
  <2>1. ref \in Classes
    BY <1>3 DEF TypeRef
  <2>2. CASE \E kind \in allowed : Types!kinds[ref] = {kind}
    <3>1. PICK kind \in allowed : Types!kinds[ref] = {kind}
      BY <2>2
    <3>2. PICK t : t = Types!Resolved(ref)
      OBVIOUS
    <3>3. t # <<>> /\ (t[2] = kind \/ t[2] = "scalar")
      BY <2>1, <3>1, <3>2, KindIs
    <3> QED BY <1>1, <3>2, <3>3 DEF Types!Fits
  <2>3. CASE /\ Types!kinds[ref] = {}
             /\ \E c \in Classes : "scalar" \in Types!kinds[c] /\ Types!maps[c] = ref
    <3>1. PICK c \in Classes : "scalar" \in Types!kinds[c] /\ Types!maps[c] = ref
      BY <2>3
    <3>2. PICK u : u = <<c, "scalar">>
      OBVIOUS
    <3>3. u \in Types!AllTypes /\ u[1] = c /\ u[2] = "scalar"
      BY <3>1, <3>2, AllTypesIs
    <3>4. Standing(ref) # {}
      BY <3>1, <3>3 DEF Standing
    <3>5. PICK t \in Standing(ref) : t = Types!Resolved(ref)
      BY <2>1, <3>4, ResolvedIs
    <3>6. t = <<t[1], t[2]>> /\ t[2] \in Types!kinds[t[1]]
      BY <3>5, AllTypesIs DEF Standing
    <3>7. t[2] = "scalar"
      BY <2>3, <3>5, <3>6 DEF Standing
    <3>8. t # <<>>
      BY <3>6
    <3> QED BY <1>1, <3>5, <3>7, <3>8 DEF Types!Fits
  <2> QED BY <1>3, <2>2, <2>3 DEF Types!Is
<1> QED BY <1>2, <1>3

\* What a type has for fields: those its class declares, and the resolvers'; the type of a
\* field with resolvers is its own or that of one of them, unless one has no type and finds none.
LEMMA FieldsOfIs ==
    ASSUME GraphQLAssumption, SchemaInv, NEW t, t[1] \in Classes, t[2] \in {"object", "input"}
    PROVE  LET c == t[1]
               f == Types!FieldsOf(t)
           IN /\ DOMAIN f = {n \in Props : \/ Types!Declares(c, n)
                                           \/ t[2] = "object" /\ Types!Resolvers(c, n) # {}}
              /\ \A n \in DOMAIN f : t[2] = "input" \/ Types!Resolvers(c, n) = {} =>
                    Types!Declares(c, n) /\ f[n] = Types!Resolved(Types!Says(c, n))
              /\ \A n \in DOMAIN f : t[2] = "object" /\ Types!Resolvers(c, n) # {} =>
                    \/ Types!Declares(c, n) /\ f[n] = Types!Resolved(Types!Says(c, n))
                    \/ \E k \in Types!Resolvers(c, n) :
                          IF resolvers[k].ref = Types!Untyped THEN ~Types!Declares(c, n)
                          ELSE f[n] = Types!Resolved(resolvers[k].ref)
<1>1. PICK c \in Classes : c = t[1]
  OBVIOUS
<1>2. PICK f : f = Types!FieldsOf(t)
  OBVIOUS
<1>3. PICK own : own = Types!Collected[t[1]]
  OBVIOUS
<1>4. /\ \A n : n \in DOMAIN own <=> Types!Declares(c, n)
      /\ \A n : Types!Declares(c, n) => n \in Props /\ own[n] = Types!Says(c, n)
  BY <1>1, <1>3, CollectedSays DEF CollectsWhatIsSaid
<1> DEFINE of(n) == IF t[2] = "input" THEN {}
                    ELSE {k \in DOMAIN resolvers : resolvers[k].on = t[1] /\ resolvers[k].name = n}
           typed(n) == {k \in of(n) : resolvers[k].ref # Types!Untyped}
           latest(n) == CHOOSE k \in typed(n) : \A j \in typed(n) : j <= k
           throws(n) == \/ n \in DOMAIN own /\ Types!Resolved(own[n]) = <<>>
                        \/ \E k \in typed(n) : Types!Resolved(resolvers[k].ref) = <<>>
                        \/ n \notin DOMAIN own /\ \E k \in of(n) : \A j \in typed(n) : k < j
<1>5. f = [n \in DOMAIN own \union {n \in Props : of(n) # {}} |->
             IF throws(n) THEN <<>>
             ELSE Types!Resolved(IF typed(n) = {} THEN own[n] ELSE resolvers[latest(n)].ref)]
  BY <1>2, <1>3 DEF Types!FieldsOf
<1>6. \A n : of(n) = IF t[2] = "input" THEN {} ELSE Types!Resolvers(c, n)
  BY <1>1 DEF Types!Resolvers
<1>7. \A n : /\ typed(n) = {k \in of(n) : resolvers[k].ref # Types!Untyped}
             /\ of(n) \subseteq Nat
             /\ typed(n) # {} => latest(n) \in typed(n)
  <2>1. resolvers \in Seq([on : Classes, name : Props, ref : Classes \union {Types!Untyped}])
    BY DEF SchemaInv, SchemaTyped
  <2>2. DOMAIN resolvers = 1 .. Len(resolvers) /\ Len(resolvers) \in Nat
    BY <2>1, LenProperties
  <2>3. \A n : of(n) \subseteq 1 .. Len(resolvers)
    BY <2>2
  <2>4. ASSUME NEW n, typed(n) # {} PROVE latest(n) \in typed(n)
    <3>1. PICK K : K = typed(n)
      OBVIOUS
    <3>2. K \in SUBSET (0 .. Len(resolvers)) /\ K # {}
      BY <2>2, <2>3, <2>4, <3>1
    <3>3. \E k \in K : \A j \in K : j <= k
      BY <2>2, <3>2, GreatestOf
    <3>4. (CHOOSE k \in K : \A j \in K : j <= k) \in K
      BY <3>3
    <3> QED BY <3>1, <3>4
  <2>5. \A n : typed(n) = {k \in of(n) : resolvers[k].ref # Types!Untyped}
    OBVIOUS
  <2> HIDE DEF of, typed, latest
  <2>6. \A n : of(n) \subseteq Nat
    BY <2>2, <2>3
  <2>7. \A n : typed(n) # {} => latest(n) \in typed(n)
    BY <2>4
  <2> QED BY <2>5, <2>6, <2>7
<1> HIDE DEF of, typed, latest
<1>8. DOMAIN f = {n \in Props : \/ Types!Declares(c, n)
                                \/ t[2] = "object" /\ Types!Resolvers(c, n) # {}}
  <2>1. DOMAIN f = DOMAIN own \union {n \in Props : of(n) # {}}
    BY <1>5
  <2>2. \A n : of(n) # {} <=> t[2] = "object" /\ Types!Resolvers(c, n) # {}
    BY <1>6
  <2> QED BY <1>4, <2>1, <2>2
<1>9. ASSUME NEW n \in DOMAIN f, t[2] = "input" \/ Types!Resolvers(c, n) = {}
      PROVE  Types!Declares(c, n) /\ f[n] = Types!Resolved(Types!Says(c, n))
  <2>1. of(n) = {} /\ n \in DOMAIN own
    BY <1>4, <1>6, <1>8, <1>9
  <2>2. typed(n) = {}
    BY <1>7, <2>1
  <2>3. f[n] = Types!Resolved(own[n])
    BY <1>5, <2>1, <2>2
  <2> QED BY <1>4, <2>1, <2>3
<1>10. ASSUME NEW n \in DOMAIN f, t[2] = "object", Types!Resolvers(c, n) # {}
       PROVE  \/ Types!Declares(c, n) /\ f[n] = Types!Resolved(Types!Says(c, n))
              \/ \E k \in Types!Resolvers(c, n) :
                    IF resolvers[k].ref = Types!Untyped THEN ~Types!Declares(c, n)
                    ELSE f[n] = Types!Resolved(resolvers[k].ref)
  <2>1. of(n) = Types!Resolvers(c, n) /\ of(n) # {} /\ of(n) \subseteq Nat
    BY <1>6, <1>7, <1>10
  <2>2. typed(n) = {k \in of(n) : resolvers[k].ref # Types!Untyped}
    BY <1>7
  <2>3. f[n] = IF throws(n) THEN <<>>
               ELSE Types!Resolved(IF typed(n) = {} THEN own[n] ELSE resolvers[latest(n)].ref)
    BY <1>5
  <2>4. CASE n \in DOMAIN own /\ (Types!Resolved(own[n]) = <<>> \/ (~throws(n) /\ typed(n) = {}))
    <3>1. f[n] = Types!Resolved(own[n])
      BY <2>3, <2>4
    <3> QED BY <1>4, <2>4, <3>1
  <2>5. CASE \E k \in typed(n) : Types!Resolved(resolvers[k].ref) = <<>>
    <3>1. f[n] = <<>>
      BY <2>3, <2>5
    <3> QED BY <2>1, <2>2, <2>5, <3>1
  <2>6. CASE n \notin DOMAIN own /\ \E k \in of(n) : \A j \in typed(n) : k < j
    <3>1. PICK k \in of(n) : \A j \in typed(n) : k < j
      BY <2>6
    <3>2. k \in Nat /\ k \notin typed(n)
      BY <2>1, <3>1
    <3>3. resolvers[k].ref = Types!Untyped
      BY <2>2, <3>1, <3>2
    <3> QED BY <1>4, <2>1, <2>6, <3>1, <3>3
  <2>7. CASE ~throws(n) /\ typed(n) # {}
    <3>1. latest(n) \in typed(n) /\ f[n] = Types!Resolved(resolvers[latest(n)].ref)
      BY <1>7, <2>3, <2>7
    <3> QED BY <2>1, <2>2, <3>1
  <2>8. CASE ~throws(n) /\ typed(n) = {}
    BY <2>1, <2>4, <2>6, <2>8
  <2> QED BY <2>4, <2>5, <2>6, <2>7, <2>8
<1> QED BY <1>1, <1>2, <1>8, <1>9, <1>10

\* A member of an enum has its own value: an object has a key once.
LEMMA ValueIs ==
    ASSUME GraphQLAssumption, SchemaInv, NEW c \in Classes, NEW k \in DOMAIN Types!entries[c],
           Types!ValidName(Types!entries[c][k][1])
    PROVE  /\ Types!entries[c][k][1] \in DOMAIN Types!ValuesOf(c)
           /\ Types!ValuesOf(c)[Types!entries[c][k][1]] = Types!entries[c][k][2]
<1>1. PICK of : of = Types!entries[c]
  OBVIOUS
<1>2. PICK n : n = of[k][1]
  OBVIOUS
<1>3. \A j \in DOMAIN of : of[j][1] = n => j = k
  BY <1>1, <1>2, ProgramIs
<1>4. PICK keyed : keyed = {j \in DOMAIN of : of[j][1] = n}
  OBVIOUS
<1>5. keyed = {k} /\ (CHOOSE j \in keyed : TRUE) = k
  BY <1>1, <1>2, <1>3, <1>4
<1>6. PICK f : f = Types!ValuesOf(c)
  OBVIOUS
<1>7. n \in DOMAIN f
  <2>1. n \in {of[j][1] : j \in DOMAIN of} \cup {of[j][2] : j \in DOMAIN of}
    BY <1>1, <1>2
  <2>2. keyed # {} /\ Types!ValidName(n)
    BY <1>1, <1>2, <1>5
  <2> QED BY <1>1, <1>4, <1>6, <2>1, <2>2 DEF Types!ValuesOf
<1>8. f[n] = IF keyed # {} THEN of[CHOOSE j \in keyed : TRUE][2]
             ELSE of[CHOOSE j \in {i \in DOMAIN of : ~Types!ValidName(of[i][1]) /\ of[i][2] = n} :
                        \A i \in {h \in DOMAIN of : ~Types!ValidName(of[h][1]) /\ of[h][2] = n} :
                           j <= i][1]
  BY <1>1, <1>4, <1>6, <1>7 DEF Types!ValuesOf
<1>9. f[n] = of[k][2]
  BY <1>5, <1>8
<1> QED BY <1>1, <1>2, <1>6, <1>7, <1>9

\* The operations a schema offers, and their arguments.
LEMMA OfferedIs ==
    ASSUME SchemaInv, NEW o \in Types!Offered
    PROVE  \E k \in DOMAIN operations : o = operations[k] /\ o.ref \in TypeRef /\ o.takes \in Takes
<1>1. PICK k \in DOMAIN operations : o = operations[k]
  BY DEF Types!Offered
<1>2. operations \in Seq([kind : Kinds, name : Props, ref : TypeRef, takes : Takes])
  BY DEF SchemaInv, SchemaTyped
<1>3. k \in 1 .. Len(operations)
  BY <1>2, LenProperties
<1>4. operations[k] \in [kind : Kinds, name : Props, ref : TypeRef, takes : Takes]
  BY <1>2, <1>3, ElementOfSeq
<1>5. operations[k].ref \in TypeRef /\ operations[k].takes \in Takes
  BY <1>4
<1> QED BY <1>1, <1>5

LEMMA ArgsIs ==
    ASSUME NEW o, o.takes \in Takes
    PROVE  /\ DOMAIN Types!ResolvedArgs(o) = DOMAIN Types!ArgsOf(o)
           /\ \A n \in DOMAIN Types!ArgsOf(o) :
                 Types!ResolvedArgs(o)[n] = Types!Resolved(Types!ArgsOf(o)[n])
           /\ o.takes = <<>> => DOMAIN Types!ArgsOf(o) = {}
           /\ o.takes # <<>> =>
                 /\ o.takes[2] \in Classes /\ o.takes[1] \in {"name", "all"}
                 /\ o.takes[1] = "name" => /\ DOMAIN Types!ArgsOf(o) = {"argument"}
                                           /\ Types!ArgsOf(o)["argument"] = o.takes[2]
                 /\ o.takes[1] = "all" => Types!ArgsOf(o) = Types!OwnFields(o.takes[2])
<1>1. PICK f : f = Types!ArgsOf(o)
  OBVIOUS
<1>2. Types!ResolvedArgs(o) = [n \in DOMAIN f |-> Types!Resolved(f[n])]
  BY <1>1 DEF Types!ResolvedArgs
<1>3. DOMAIN Types!ResolvedArgs(o) = DOMAIN f
      /\ \A n \in DOMAIN f : Types!ResolvedArgs(o)[n] = Types!Resolved(f[n])
  BY <1>2
<1>4. o.takes = <<>> => DOMAIN f = {}
  BY <1>1 DEF Types!ArgsOf
<1>5. ASSUME o.takes # <<>>
      PROVE  /\ o.takes[2] \in Classes /\ o.takes[1] \in {"name", "all"}
             /\ o.takes[1] = "name" => DOMAIN f = {"argument"} /\ f["argument"] = o.takes[2]
             /\ o.takes[1] = "all" => f = Types!OwnFields(o.takes[2])
  <2>1. o.takes \in {"name", "all"} \X Classes
    BY <1>5 DEF Takes
  <2>2. o.takes[2] \in Classes /\ o.takes[1] \in {"name", "all"}
    BY <2>1
  <2>3. o.takes[1] = "name" => f = [n \in {"argument"} |-> o.takes[2]]
    BY <1>1, <1>5 DEF Types!ArgsOf
  <2>4. o.takes[1] = "all" => f = Types!OwnFields(o.takes[2])
    BY <1>1, <1>5 DEF Types!ArgsOf
  <2> QED BY <2>2, <2>3, <2>4
<1> QED BY <1>1, <1>3, <1>4, <1>5

\* What is found is made of a class.
LEMMA FoundIs ==
    ASSUME GraphQLAssumption, SchemaInv, NEW of, NEW t \in Types!Found(of)
    PROVE  /\ t \in Types!Composed /\ t = <<t[1], t[2]>> /\ t[1] \in Classes
           /\ t[2] \in Types!kinds[t[1]]
<1>1. t \in Types!Composed
  BY DEF Types!Found
<1>2. CASE t \in Types!AllTypes
  BY <1>1, <1>2, AllTypesIs
<1>3. CASE t \in Types!Unions
  BY <1>1, <1>3 DEF Types!Unions
<1> QED BY <1>1, <1>2, <1>3 DEF Types!Composed

\* The schema that is built, in terms of what it is made of.
FieldsGiven == [t \in Types!Composed |->
    IF t[2] \in {"object", "input"} THEN Types!FieldsOf(t) ELSE <<>>]

LEMMA BuiltIs ==
    /\ Types!Built.is \in {"built", "broken"}
    /\ Types!Built.is = "built" <=> Types!Accepted(Types!Found(FieldsGiven), FieldsGiven)
    /\ Types!Built.is = "built" =>
          /\ Types!Built.types = {[type |-> t, fields |-> FieldsGiven[t], members |-> Types!MembersOf(t)] :
                                     t \in Types!Found(FieldsGiven)}
          /\ Types!Built.operations =
                {[op |-> o, returns |-> Types!Resolved(o.ref), args |-> Types!ResolvedArgs(o)] :
                    o \in Types!Offered}
<1>1. PICK of : of = FieldsGiven
  OBVIOUS
<1>2. PICK found : found = Types!Found(of)
  OBVIOUS
<1>3. PICK types1 : types1 = {[type |-> t, fields |-> of[t], members |-> Types!MembersOf(t)] : t \in found}
  OBVIOUS
<1>4. PICK ops : ops = {[op |-> o, returns |-> Types!Resolved(o.ref), args |-> Types!ResolvedArgs(o)] :
                           o \in Types!Offered}
  OBVIOUS
<1>5. Types!Built = IF Types!Accepted(found, of) THEN Types!Schema("built", types1, ops)
                    ELSE Types!Schema("broken", {}, {})
  BY <1>1, <1>2, <1>3, <1>4 DEF Types!Built, FieldsGiven
<1>6. CASE Types!Accepted(found, of)
  <2>1. Types!Built = [is |-> "built", types |-> types1, operations |-> ops]
    BY <1>5, <1>6 DEF Types!Schema
  <2>2. Types!Built.is = "built" /\ Types!Built.types = types1 /\ Types!Built.operations = ops
    BY <2>1
  <2> QED BY <1>1, <1>2, <1>3, <1>4, <1>6, <2>2
<1>7. CASE ~Types!Accepted(found, of)
  <2>1. Types!Built.is = "broken"
    BY <1>5, <1>7 DEF Types!Schema
  <2> QED BY <1>1, <1>2, <1>7, <2>1
<1> QED BY <1>6, <1>7

LEMMA WhatIsBuiltSays ==
    ASSUME GraphQLAssumption, SchemaInv, schema.is = "built"
    PROVE  Types!SaysWhatIsDeclared
<1>1. schema = Types!Built
  BY DEF SchemaInv
<1>2. /\ schema.types = {[type |-> t, fields |-> FieldsGiven[t], members |-> Types!MembersOf(t)] :
                            t \in Types!Found(FieldsGiven)}
      /\ schema.operations =
            {[op |-> o, returns |-> Types!Resolved(o.ref), args |-> Types!ResolvedArgs(o)] :
                o \in Types!Offered}
  BY <1>1, BuiltIs
<1>3. ASSUME NEW t \in schema.types, NEW c, c = t.type[1], t.type[2] \in {"object", "input"}
      PROVE  /\ DOMAIN t.fields = {n \in Props : \/ Types!Declares(c, n)
                                                 \/ t.type[2] = "object" /\ Types!Resolvers(c, n) # {}}
             /\ \A n \in DOMAIN t.fields :
                   t.type[2] = "input" \/ Types!Resolvers(c, n) = {}
                   => Types!Means(Types!Says(c, n), t.fields[n])
  <2>1. PICK u \in Types!Found(FieldsGiven) :
            t = [type |-> u, fields |-> FieldsGiven[u], members |-> Types!MembersOf(u)]
    BY <1>2
  <2>2. t.type = u /\ t.fields = FieldsGiven[u]
    BY <2>1
  <2>3. u \in Types!Composed /\ u[1] \in Classes
    BY FoundIs
  <2>4. FieldsGiven[u] = Types!FieldsOf(u)
    BY <1>3, <2>2, <2>3 DEF FieldsGiven
  <2>5. PICK f : f = t.fields /\ f = Types!FieldsOf(u)
    BY <2>2, <2>4
  <2>6. /\ DOMAIN f = {n \in Props : \/ Types!Declares(c, n)
                                     \/ u[2] = "object" /\ Types!Resolvers(c, n) # {}}
        /\ \A n \in DOMAIN f : u[2] = "input" \/ Types!Resolvers(c, n) = {} =>
              f[n] = Types!Resolved(Types!Says(c, n))
    <3>1. u[1] = c /\ u[2] \in {"object", "input"}
      BY <1>3, <2>2
    <3>2. /\ DOMAIN Types!FieldsOf(u) =
                {n \in Props : \/ Types!Declares(u[1], n)
                               \/ u[2] = "object" /\ Types!Resolvers(u[1], n) # {}}
          /\ \A n \in DOMAIN Types!FieldsOf(u) : u[2] = "input" \/ Types!Resolvers(u[1], n) = {} =>
                Types!Declares(u[1], n) /\ Types!FieldsOf(u)[n] = Types!Resolved(Types!Says(u[1], n))
      BY <2>3, <3>1, FieldsOfIs, Zenon
    <3> QED BY <2>5, <3>1, <3>2
  <2>7. ASSUME NEW n \in DOMAIN f, u[2] = "input" \/ Types!Resolvers(c, n) = {}
        PROVE  Types!Means(Types!Says(c, n), f[n])
    <3>1. f[n] = Types!Resolved(Types!Says(c, n))
      BY <2>6, <2>7
    <3> QED BY <3>1, ResolvedMeans
  <2> QED BY <2>2, <2>5, <2>6, <2>7
<1>4. ASSUME NEW t \in schema.types, NEW c, c = t.type[1]
      PROVE  /\ t.type[2] = "union" =>
                   \A d \in Types!members[c] : \E m \in t.members : Types!Means(d, m)
             /\ t.type[2] = "enum" =>
                   \A k \in DOMAIN Types!entries[c] : Types!ValidName(Types!entries[c][k][1]) =>
                       Types!ValuesOf(c)[Types!entries[c][k][1]] = Types!entries[c][k][2]
  <2>1. PICK u \in Types!Found(FieldsGiven) :
            t = [type |-> u, fields |-> FieldsGiven[u], members |-> Types!MembersOf(u)]
    BY <1>2
  <2>2. t.type = u /\ t.members = Types!MembersOf(u) /\ c \in Classes
    BY <1>4, <2>1, FoundIs
  <2>3. ASSUME t.type[2] = "union", NEW d \in Types!members[c]
        PROVE  \E m \in t.members : Types!Means(d, m)
    <3>1. Types!Resolved(d) \in t.members
      BY <1>4, <2>2, <2>3 DEF Types!MembersOf
    <3> QED BY <3>1, ResolvedMeans
  <2>4. ASSUME NEW k \in DOMAIN Types!entries[c], Types!ValidName(Types!entries[c][k][1])
        PROVE  Types!ValuesOf(c)[Types!entries[c][k][1]] = Types!entries[c][k][2]
    BY <2>2, <2>4, ValueIs
  <2> QED BY <2>3, <2>4
<1>5. ASSUME NEW o \in schema.operations
      PROVE  /\ Types!Means(o.op.ref, o.returns)
             /\ o.op.takes # <<>> /\ o.op.takes[1] = "name" =>
                   Types!Means(o.op.takes[2], o.args["argument"])
             /\ o.op.takes # <<>> /\ o.op.takes[1] = "all" =>
                   \A n \in Props : Types!Own(o.op.takes[2], n) # {} => n \in DOMAIN o.args
  <2>1. PICK p \in Types!Offered :
            o = [op |-> p, returns |-> Types!Resolved(p.ref), args |-> Types!ResolvedArgs(p)]
    BY <1>2
  <2>2. o.op = p /\ o.returns = Types!Resolved(p.ref) /\ o.args = Types!ResolvedArgs(p)
    BY <2>1
  <2>3. p.takes \in Takes
    BY OfferedIs
  <2>4. Types!Means(o.op.ref, o.returns)
    BY <2>2, ResolvedMeans
  <2>5. ASSUME p.takes # <<>>, p.takes[1] = "name"
        PROVE  Types!Means(p.takes[2], o.args["argument"])
    <3>1. "argument" \in DOMAIN Types!ArgsOf(p) /\ Types!ArgsOf(p)["argument"] = p.takes[2]
      BY <2>3, <2>5, ArgsIs
    <3>2. o.args["argument"] = Types!Resolved(p.takes[2])
      BY <2>2, <2>3, <3>1, ArgsIs
    <3> QED BY <3>2, ResolvedMeans
  <2>6. ASSUME p.takes # <<>>, p.takes[1] = "all", NEW n \in Props, Types!Own(p.takes[2], n) # {}
        PROVE  n \in DOMAIN o.args
    <3>1. p.takes[2] \in Classes /\ DOMAIN o.args = DOMAIN Types!OwnFields(p.takes[2])
      BY <2>2, <2>3, <2>6, ArgsIs
    <3> QED BY <2>6, <3>1, OwnFieldsIs
  <2> QED BY <2>2, <2>4, <2>5, <2>6
<1>6. ASSUME NEW t \in schema.types
      PROVE  LET c == t.type[1] IN t.type[2] \in {"object", "input"} =>
               /\ DOMAIN t.fields = {n \in Props : \/ Types!Declares(c, n)
                                                   \/ t.type[2] = "object" /\ Types!Resolvers(c, n) # {}}
               /\ \A n \in DOMAIN t.fields :
                     t.type[2] = "input" \/ Types!Resolvers(c, n) = {}
                     => Types!Means(Types!Says(c, n), t.fields[n])
  BY <1>3
<1>7. ASSUME NEW t \in schema.types
      PROVE  LET c == t.type[1] IN
             /\ t.type[2] = "union" =>
                   \A d \in Types!members[c] : \E m \in t.members : Types!Means(d, m)
             /\ t.type[2] = "enum" =>
                   \A k \in DOMAIN Types!entries[c] : Types!ValidName(Types!entries[c][k][1]) =>
                       Types!ValuesOf(c)[Types!entries[c][k][1]] = Types!entries[c][k][2]
  BY <1>4
<1> QED BY <1>5, <1>6, <1>7 DEF Types!SaysWhatIsDeclared

\* A class of a sound program is of one kind.
LEMMA OneKind ==
    ASSUME GraphQLAssumption, SchemaInv, Types!Sound, NEW c \in Classes, NEW kind \in Types!kinds[c]
    PROVE  Types!kinds[c] = {kind}
<1>1. PICK S : S = Types!kinds[c]
  OBVIOUS
<1>2. Types!Cardinality(S) = 1
  BY <1>1 DEF Types!Sound
<1>3. Cardinality(S) = 1
  BY <1>2, Zenon DEF Types!Cardinality, Cardinality
<1>4. IsFiniteSet(S)
  <2>1. IsFiniteSet({"object", "input", "enum", "scalar", "union"})
    <3>1. IsFiniteSet({})
      BY FS_EmptySet
    <3>2. IsFiniteSet({} \union {"object"})
      BY <3>1, FS_AddElement
    <3>3. IsFiniteSet({} \union {"object"} \union {"input"})
      BY <3>2, FS_AddElement
    <3>4. IsFiniteSet({} \union {"object"} \union {"input"} \union {"enum"})
      BY <3>3, FS_AddElement
    <3>5. IsFiniteSet({} \union {"object"} \union {"input"} \union {"enum"} \union {"scalar"})
      BY <3>4, FS_AddElement
    <3>6. IsFiniteSet({} \union {"object"} \union {"input"} \union {"enum"} \union {"scalar"}
                         \union {"union"})
      BY <3>5, FS_AddElement
    <3>7. {} \union {"object"} \union {"input"} \union {"enum"} \union {"scalar"} \union {"union"}
             = {"object", "input", "enum", "scalar", "union"}
      OBVIOUS
    <3> QED BY <3>6, <3>7
  <2>2. S \subseteq {"object", "input", "enum", "scalar", "union"}
    BY <1>1, ProgramIs
  <2> QED BY <2>1, <2>2, FS_Subset
<1>5. PICK x : S = {x}
  BY <1>3, <1>4, FS_Singleton
<1> QED BY <1>1, <1>5

\* The fields of a type of a sound program fit it, and there are some.
LEMMA FieldsFit ==
    ASSUME GraphQLAssumption, SchemaInv, Types!Sound,
           NEW t, t[1] \in Classes, t[2] \in {"object", "input"}, Types!kinds[t[1]] = {t[2]}
    PROVE  /\ Types!FieldsOf(t) # <<>>
           /\ \A n \in DOMAIN Types!FieldsOf(t) :
                 Types!Fits(Types!FieldsOf(t)[n], Types!Position(t))
<1>1. PICK c \in Classes : c = t[1]
  OBVIOUS
<1>2. PICK f : f = Types!FieldsOf(t)
  OBVIOUS
<1>3. PICK side \in {Types!Output, Types!Input} : /\ side = Types!Position(t)
                                                  /\ t[2] = "object" => side = Types!Output
                                                  /\ t[2] = "input" => side = Types!Input
  BY DEF Types!Position
<1>4. /\ \E n \in Props : Types!Declares(c, n)
      /\ \A n \in Props : Types!Declares(c, n) => Types!Is(Types!Says(c, n), side)
      /\ \A n \in Props : \A k \in Types!Resolvers(c, n) :
            IF resolvers[k].ref = Types!Untyped THEN Types!Declares(c, n)
            ELSE Types!Is(resolvers[k].ref, Types!Output)
  <2>1. Types!kinds[c] # {} /\ Types!kinds[c] \in {{"object"}, {"input"}}
    BY <1>1
  <2>2. side = IF Types!kinds[c] = {"object"} THEN Types!Output ELSE Types!Input
    BY <1>1, <1>3
  <2> QED BY <2>1, <2>2 DEF Types!Sound
<1>5. DOMAIN f = {n \in Props : Types!Declares(c, n) \/ (t[2] = "object" /\ Types!Resolvers(c, n) # {})}
  BY <1>1, <1>2, FieldsOfIs
<1>6. \A n \in DOMAIN f : t[2] = "input" \/ Types!Resolvers(c, n) = {} =>
         Types!Declares(c, n) /\ f[n] = Types!Resolved(Types!Says(c, n))
  BY <1>1, <1>2, FieldsOfIs
<1>7. \A n \in DOMAIN f : t[2] = "object" /\ Types!Resolvers(c, n) # {} =>
         \/ Types!Declares(c, n) /\ f[n] = Types!Resolved(Types!Says(c, n))
         \/ \E k \in Types!Resolvers(c, n) :
               IF resolvers[k].ref = Types!Untyped THEN ~Types!Declares(c, n)
               ELSE f[n] = Types!Resolved(resolvers[k].ref)
  BY <1>1, <1>2, FieldsOfIs
<1>8. f # <<>>
  <2>1. PICK n \in Props : n \in DOMAIN f
    BY <1>4, <1>5
  <2> QED BY <2>1
<1>9. ASSUME NEW n \in DOMAIN f, Types!Declares(c, n), f[n] = Types!Resolved(Types!Says(c, n))
      PROVE  Types!Fits(f[n], side)
  <2>1. Types!Says(c, n) \in TypeRef /\ n \in Props
    BY <1>9, CollectedSays DEF CollectsWhatIsSaid
  <2>2. Types!Is(Types!Says(c, n), side)
    BY <1>4, <1>9, <2>1
  <2> QED BY <1>9, <2>1, <2>2, IsFits
<1>10. ASSUME NEW n \in DOMAIN f PROVE Types!Fits(f[n], side)
  <2>1. CASE t[2] = "input" \/ Types!Resolvers(c, n) = {}
    BY <1>6, <1>9, <2>1
  <2>2. CASE t[2] = "object" /\ Types!Resolvers(c, n) # {}
    <3> SUFFICES ASSUME NEW k \in Types!Resolvers(c, n),
                        IF resolvers[k].ref = Types!Untyped THEN ~Types!Declares(c, n)
                        ELSE f[n] = Types!Resolved(resolvers[k].ref)
                 PROVE  Types!Fits(f[n], side)
      BY <1>7, <1>9, <2>2
    <3>2. n \in Props /\ k \in DOMAIN resolvers
      BY <1>5 DEF Types!Resolvers
    <3>3. IF resolvers[k].ref = Types!Untyped THEN Types!Declares(c, n)
          ELSE Types!Is(resolvers[k].ref, Types!Output)
      BY <1>4, <3>2
    <3>4. resolvers[k].ref # Types!Untyped
      BY <3>3
    <3>5. PICK r : r = resolvers[k].ref
      OBVIOUS
    <3>6. r \in TypeRef
      <4>1. resolvers \in Seq([on : Classes, name : Props, ref : Classes \union {Types!Untyped}])
        BY DEF SchemaInv, SchemaTyped
      <4>2. k \in 1 .. Len(resolvers)
        BY <3>2, <4>1, LenProperties
      <4>3. resolvers[k] \in [on : Classes, name : Props, ref : Classes \union {Types!Untyped}]
        BY <4>1, <4>2, ElementOfSeq
      <4> QED BY <3>4, <3>5, <4>3 DEF TypeRef
    <3>7. Types!Is(r, side) /\ f[n] = Types!Resolved(r)
      BY <1>3, <2>2, <3>3, <3>4, <3>5
    <3> QED BY <3>6, <3>7, IsFits
  <2> QED BY <2>1, <2>2
<1> QED BY <1>2, <1>3, <1>8, <1>10

\* The arguments of an operation of a sound program fit the input side.
LEMMA ArgsFit ==
    ASSUME GraphQLAssumption, SchemaInv, Types!Sound, NEW o \in Types!Offered,
           NEW n \in DOMAIN Types!ResolvedArgs(o)
    PROVE  Types!Fits(Types!ResolvedArgs(o)[n], Types!Input)
<1>1. PICK k \in DOMAIN operations : o = operations[k] /\ o.takes \in Takes
  BY OfferedIs
<1>2. PICK takes : takes = o.takes
  OBVIOUS
<1>3. PICK r : r = Types!ArgsOf(o)[n] /\ n \in DOMAIN Types!ArgsOf(o)
               /\ Types!ResolvedArgs(o)[n] = Types!Resolved(r)
  BY <1>1, ArgsIs
<1>4. takes # <<>> /\ takes[2] \in Classes /\ takes[1] \in {"name", "all"}
  BY <1>1, <1>2, <1>3, ArgsIs
<1>5. \/ takes[1] = "name" /\ Types!Is(takes[2], Types!Input)
      \/ /\ takes[1] = "all" /\ Types!kinds[takes[2]] \in {{}, {"input"}}
         /\ \A m \in Props : Types!Declares(takes[2], m) =>
               Types!Is(Types!Says(takes[2], m), Types!Input)
  <2>1. LET given == operations[k].takes IN
        given # <<>> => \/ given[1] = "name" /\ Types!Is(given[2], Types!Input)
                        \/ given[1] = "all" /\ Types!kinds[given[2]] \in {{}, {"input"}}
                           /\ \A m \in Props : Types!Declares(given[2], m) =>
                                 Types!Is(Types!Says(given[2], m), Types!Input)
    BY <1>1 DEF Types!Sound
  <2> QED BY <1>1, <1>2, <1>4, <2>1
<1>6. r \in TypeRef /\ Types!Is(r, Types!Input)
  <2>1. CASE takes[1] = "name"
    <3>1. DOMAIN Types!ArgsOf(o) = {"argument"} /\ Types!ArgsOf(o)["argument"] = takes[2]
      BY <1>1, <1>2, <1>4, <2>1, ArgsIs
    <3>2. r = takes[2]
      BY <1>3, <3>1
    <3> QED BY <1>4, <1>5, <2>1, <3>2 DEF TypeRef
  <2>2. CASE takes[1] = "all"
    <3>1. PICK c \in Classes : c = takes[2]
      BY <1>4
    <3>2. Types!ArgsOf(o) = Types!OwnFields(c)
      BY <1>1, <1>2, <1>4, <2>2, <3>1, ArgsIs
    <3>3. Types!Own(c, n) # {}
      BY <1>3, <3>2, OwnFieldsIs
    <3>4. PICK i \in Types!Own(c, n) : TRUE
      BY <3>3
    <3>5. r = wrote[i].ref
      BY <1>3, <3>2, <3>4, OwnFieldsIs
    <3>6. Types!Declares(c, n) /\ Types!Says(c, n) = r
      BY <3>4, <3>5, SaysIs
    <3>7. n \in Props /\ Types!Says(c, n) \in TypeRef
      BY <3>6, CollectedSays DEF CollectsWhatIsSaid
    <3> QED BY <1>5, <2>2, <3>1, <3>6, <3>7
  <2> QED BY <1>4, <2>1, <2>2
<1>7. Types!Input \in {Types!Output, Types!Input}
  OBVIOUS
<1> QED BY <1>3, <1>6, <1>7, IsFits

\* graphql-js has nothing to say against a sound program.
LEMMA SoundAccepted ==
    ASSUME GraphQLAssumption, SchemaInv, Types!Sound
    PROVE  Types!Accepted(Types!Found(FieldsGiven), FieldsGiven)
<1>1. PICK found : found = Types!Found(FieldsGiven)
  OBVIOUS
<1>2. \A t \in found : /\ t \in Types!Composed /\ t = <<t[1], t[2]>> /\ t[1] \in Classes
                       /\ t[2] \in Types!kinds[t[1]]
  BY <1>1, FoundIs
<1>3. \A t \in found : Types!kinds[t[1]] = {t[2]}
  BY <1>2, OneKind
<1>4. \E o \in Types!Offered : o.kind = "query"
  <2>1. operations \in Seq([kind : Kinds, name : Props, ref : TypeRef, takes : Takes])
    BY DEF SchemaInv, SchemaTyped
  <2>2. PICK q \in DOMAIN operations : operations[q].kind = "query"
    BY DEF Types!Sound
  <2>3. PICK N \in Nat : N = Len(operations) /\ DOMAIN operations = 1 .. N
    BY <2>1, LenProperties
  <2>4. PICK S : S = {k \in 1 .. N : <<operations[k].kind, operations[k].name>>
                                      = <<operations[q].kind, operations[q].name>>}
    OBVIOUS
  <2>5. S \in SUBSET (0 .. N) /\ S # {} /\ S \subseteq 1 .. N
    BY <2>2, <2>3, <2>4
  <2>6. PICK m \in S : \A k \in S : k <= m
    BY <2>5, GreatestOf
  <2>7. \A j \in 1 .. N : j > m => <<operations[j].kind, operations[j].name>>
                                     # <<operations[m].kind, operations[m].name>>
    BY <2>4, <2>5, <2>6
  <2>8. operations[m] \in Types!Offered
    BY <2>3, <2>5, <2>7 DEF Types!Offered
  <2>9. operations[m].kind = "query"
    BY <2>2, <2>4, <2>6
  <2> QED BY <2>8, <2>9
<1>5. ASSUME NEW o \in Types!Offered
      PROVE  /\ Types!Fits(Types!Resolved(o.ref), Types!Output)
             /\ \A ref \in Types!Range(Types!ResolvedArgs(o)) : Types!Fits(ref, Types!Input)
  <2>1. PICK k \in DOMAIN operations : o = operations[k] /\ o.ref \in TypeRef
    BY OfferedIs
  <2>2. Types!Is(operations[k].ref, Types!Output)
    BY DEF Types!Sound
  <2>3. Types!Fits(Types!Resolved(o.ref), Types!Output)
    <3>1. Types!Output \in {Types!Output, Types!Input}
      OBVIOUS
    <3> QED BY <2>1, <2>2, <3>1, IsFits
  <2>4. ASSUME NEW ref \in Types!Range(Types!ResolvedArgs(o)) PROVE Types!Fits(ref, Types!Input)
    <3>1. PICK n \in DOMAIN Types!ResolvedArgs(o) : ref = Types!ResolvedArgs(o)[n]
      BY <2>4 DEF Types!Range
    <3> QED BY <3>1, ArgsFit
  <2> QED BY <2>3, <2>4
<1>6. ASSUME NEW t \in found, NEW u \in found, NameOf[t[1]] = NameOf[u[1]] PROVE t = u
  <2>1. t[1] = u[1]
    <3>1. Types!kinds[t[1]] # {} /\ Types!kinds[u[1]] # {}
      BY <1>2
    <3> QED BY <1>2, <1>6, <3>1 DEF Types!Sound
  <2>2. {t[2]} = {u[2]}
    BY <1>3, <2>1
  <2>3. t[2] = u[2] /\ t = <<t[1], t[2]>> /\ u = <<u[1], u[2]>>
    BY <1>2, <2>2
  <2> QED BY <2>1, <2>3
<1>7. ASSUME NEW t \in found, t[2] = "enum" PROVE Types!ValuesOf(t[1]) # <<>>
  <2>1. PICK c \in Classes : c = t[1] /\ Types!kinds[c] = {"enum"}
    BY <1>2, <1>3, <1>7
  <2>2. PICK k \in DOMAIN Types!entries[c] : Types!ValidName(Types!entries[c][k][1])
    BY <2>1 DEF Types!Sound
  <2>3. Types!entries[c][k][1] \in DOMAIN Types!ValuesOf(c)
    BY <2>2, ValueIs
  <2> QED BY <2>1, <2>3
<1>8. ASSUME NEW t \in found, t[2] = "union"
      PROVE  /\ Types!MembersOf(t) # {}
             /\ \A ref \in Types!MembersOf(t) : Types!Fits(ref, {"object"})
  <2>1. PICK c \in Classes : c = t[1] /\ Types!kinds[c] = {"union"}
    BY <1>2, <1>3, <1>8
  <2>2. Types!members[c] # {} /\ \A d \in Types!members[c] : Types!kinds[d] = {"object"}
    BY <2>1 DEF Types!Sound
  <2>3. Types!MembersOf(t) = {Types!Resolved(d) : d \in Types!members[c]}
    BY <1>8, <2>1 DEF Types!MembersOf
  <2>4. ASSUME NEW ref \in Types!MembersOf(t) PROVE Types!Fits(ref, {"object"})
    <3>1. PICK d \in Types!members[c] : ref = Types!Resolved(d)
      BY <2>3, <2>4
    <3>2. d \in Classes /\ Types!kinds[d] = {"object"}
      BY <2>2, ProgramIs
    <3>3. ref # <<>> /\ ref[2] = "object"
      BY <3>1, <3>2, KindIs
    <3> QED BY <3>3 DEF Types!Fits
  <2>5. Types!MembersOf(t) # {}
    BY <2>2, <2>3
  <2> QED BY <2>4, <2>5
<1>9. ASSUME NEW t \in found, t[2] \in {"object", "input"}
      PROVE  /\ FieldsGiven[t] # <<>>
             /\ \A ref \in Types!Range(FieldsGiven[t]) : Types!Fits(ref, Types!Position(t))
  <2>1. FieldsGiven[t] = Types!FieldsOf(t)
    BY <1>2, <1>9 DEF FieldsGiven
  <2>2. t[1] \in Classes /\ Types!kinds[t[1]] = {t[2]}
    BY <1>2, <1>3
  <2>3. /\ Types!FieldsOf(t) # <<>>
        /\ \A n \in DOMAIN Types!FieldsOf(t) :
              Types!Fits(Types!FieldsOf(t)[n], Types!Position(t))
    BY <1>9, <2>2, FieldsFit
  <2>4. ASSUME NEW ref \in Types!Range(FieldsGiven[t]) PROVE Types!Fits(ref, Types!Position(t))
    <3>1. PICK n \in DOMAIN FieldsGiven[t] : ref = FieldsGiven[t][n]
      BY <2>4 DEF Types!Range
    <3> QED BY <2>1, <2>3, <3>1
  <2> QED BY <2>1, <2>3, <2>4
<1>10. ASSUME NEW t \in found
       PROVE  CASE t[2] = "scalar" -> TRUE
                [] t[2] = "enum" -> Types!ValuesOf(t[1]) # <<>>
                [] t[2] = "union" -> /\ Types!MembersOf(t) # {}
                                     /\ \A ref \in Types!MembersOf(t) : Types!Fits(ref, {"object"})
                [] OTHER -> /\ FieldsGiven[t] # <<>>
                            /\ \A ref \in Types!Range(FieldsGiven[t]) :
                                  Types!Fits(ref, Types!Position(t))
  <2>1. t[2] \in {"object", "input", "enum", "scalar", "union"}
    BY <1>2, ProgramIs
  <2>2. CASE t[2] = "scalar"
    BY <2>2
  <2>3. CASE t[2] = "enum"
    BY <1>7, <2>3
  <2>4. CASE t[2] = "union"
    BY <1>8, <2>4
  <2>5. CASE t[2] \in {"object", "input"}
    BY <1>9, <2>5
  <2> QED BY <2>1, <2>2, <2>3, <2>4, <2>5
<1> QED BY <1>1, <1>4, <1>5, <1>6, <1>10 DEF Types!Accepted

LEMMA SchemaIsFaithful ==
    ASSUME GraphQLAssumption, SchemaInv
    PROVE  Types!SchemaFaithful
<1>1. schema.is = "built" => Types!SaysWhatIsDeclared
  BY WhatIsBuiltSays
<1>2. ASSUME Types!Sound, schema.is = "broken" PROVE FALSE
  <2>1. schema = Types!Built
    BY <1>2 DEF SchemaInv
  <2>2. Types!Built.is = "built"
    BY <1>2, SoundAccepted, BuiltIs
  <2> QED BY <1>2, <2>1, <2>2
<1> QED BY <1>1, <1>2 DEF Types!SchemaFaithful

\* The schema an application is given says what its classes declare: its types have the
\* fields of their classes and of the classes above, each of the type made of the class
\* it names, and a program with nothing wrong in it gets a schema
\* (ApolloService.start(), SchemaBuilder.buildSchema(), TypeMetadataStorage).
THEOREM SchemaSays == Spec => []SchemaFaithful
<1>1. Init => SchemaInv
  BY SchemaInit DEF Init
<1>2. SchemaInv /\ [Next]_vars => SchemaInv'
  <2>1. [Next]_vars => [Types!Next]_types
    BY DEF Next, vars, Declares, Answers, Iterates
  <2> QED BY <2>1, SchemaStep
<1>3. SchemaInv => SchemaFaithful
  BY GraphQLAssumption, SchemaIsFaithful DEF SchemaFaithful
<1> QED BY <1>1, <1>2, <1>3, PTL DEF Spec

(***************************************************************************)
(* One WebSocket connection (GraphQLWs), for any ids, any number of        *)
(* operations, of connection_init messages and of events, with and without *)
(* the onConnect hook and the keep-alive interval.                         *)
(***************************************************************************)
CONSTANTS Ids, MaxOps, MaxInits, MaxEvents, HasOnConnect, KeepAlive

VARIABLES socket, closeCode, peerDead, known, closed, isInitialized, initTimer, keepAlive,
          timers, stale, inits, acks, disconnects, wsDisposed, subscriptions, opId, opSt,
          aborted, iter, events, sent, completed

Ws == INSTANCE GraphQLWs WITH disposed <- wsDisposed

\* The types the arguments need (the counters of frames and calls have no
\* bound here).
WsTypes ==
    /\ socket \in {"new", "open", "closing", "closed"}
    /\ known \in BOOLEAN /\ closed \in BOOLEAN /\ wsDisposed \in BOOLEAN
    /\ initTimer \in BOOLEAN /\ keepAlive \in BOOLEAN
    /\ timers \in Nat /\ disconnects \in Nat
    /\ inits \in [Ws!Inits -> {"unused", "await", "done"}]
    /\ subscriptions \in [Ids -> Ws!Ops \cup {0}]
    /\ opId \in [Ws!Ops -> Ids]
    /\ opSt \in [Ws!Ops -> Ws!Running \cup {"unused", "closing", "ended"}]
    /\ aborted \in [Ws!Ops -> BOOLEAN]
    /\ iter \in [Ws!Ops -> {"none", "open", "returned"}]
    /\ sent \in [Ws!Ops -> Nat]
    /\ completed \in [Ws!Ops -> BOOLEAN]

\* The connection's life: before it opens nothing has been started for it; while
\* it is in the map it is not closed; once it is out of the map it is.
Life ==
    /\ socket = "new" => /\ ~known /\ ~closed /\ ~initTimer /\ ~keepAlive
                         /\ \A k \in Ws!Inits : inits[k] = "unused"
                         /\ \A o \in Ws!Ops : opSt[o] = "unused"
    /\ known => ~closed /\ ~wsDisposed
    /\ ~known /\ socket # "new" => closed
    /\ wsDisposed => closed

\* What a connection holds outside its operations.
Timers ==
    /\ timers = (IF keepAlive THEN 1 ELSE 0)
    /\ closed => ~keepAlive /\ ~initTimer
    /\ disconnects = (IF closed /\ ~wsDisposed THEN 1 ELSE 0)

\* The subscriptions map holds accepted operations under their own ids, and none
\* once the connection is closed.
Map ==
    /\ \A id \in Ids : subscriptions[id] # 0 =>
          opId[subscriptions[id]] = id /\ opSt[subscriptions[id]] # "unused"
    /\ closed => \A id \in Ids : subscriptions[id] = 0

\* A source stream is open only past the setup, and not once its operation was
\* cancelled.
Streams ==
    \A o \in Ws!Ops : iter[o] = "open" => opSt[o] \in {"loop", "exec", "hook"} /\ ~aborted[o]

\* After the complete frame comes only the finally block.
Completed == \A o \in Ws!Ops : completed[o] => opSt[o] \in {"closing", "ended"}

WsInv == WsTypes /\ Life /\ Timers /\ Map /\ Streams /\ Ws!LiveOperationRegistered /\ Completed

-----------------------------------------------------------------------------
(* What the invariant says of the properties *)

LEMMA InvReaches == WsInv => Ws!EndReachesAll
<1> SUFFICES ASSUME WsInv
             PROVE  Ws!EndReachesAll
  OBVIOUS
<1>1. Ws!LiveOperationRegistered
  BY DEF WsInv
<1>2. ASSUME NEW o \in Ws!Ops, iter[o] = "open"
      PROVE  ~closed /\ opSt[o] \in Ws!Running
  <2>1. opSt[o] \in Ws!Running /\ ~aborted[o]
    BY <1>2 DEF WsInv, Streams, Ws!Running
  <2>2. subscriptions[opId[o]] = o /\ opId[o] \in Ids /\ o # 0
    BY <2>1, <1>1 DEF Ws!LiveOperationRegistered, WsInv, WsTypes, Ws!Ops
  <2> QED BY <2>1, <2>2 DEF WsInv, Map
<1>3. /\ timers = (IF keepAlive THEN 1 ELSE 0)
      /\ closed => ~keepAlive /\ ~initTimer
      /\ disconnects = (IF closed /\ ~wsDisposed THEN 1 ELSE 0)
  BY DEF WsInv, Timers
<1>4. Ws!ReleasedOnClose
  BY <1>2, <1>3 DEF Ws!ReleasedOnClose
<1> QED BY <1>1, <1>4 DEF Ws!EndReachesAll

LEMMA WsInit == Ws!WsAssumption /\ Ws!Init => WsInv
<1> SUFFICES ASSUME Ws!WsAssumption, Ws!Init
             PROVE  WsInv
  OBVIOUS
<1>1. WsTypes
  BY DEF Ws!Init, WsTypes, Ws!WsAssumption
<1>2. Life /\ Timers /\ Map
  BY DEF Ws!Init, Life, Timers, Map
<1>3. Streams /\ Ws!LiveOperationRegistered /\ Completed
  BY DEF Ws!Init, Streams, Ws!LiveOperationRegistered, Completed, Ws!Running
<1> QED BY <1>1, <1>2, <1>3 DEF WsInv

-----------------------------------------------------------------------------
(* Closing *)

\* A cleaned up connection holds nothing: every operation that was running was
\* registered, or had been cancelled before.
LEMMA CleanedUp ==
    ASSUME WsInv, known, Ws!CleanupConnection, UNCHANGED <<opId, opSt, sent, completed, inits>>,
           socket' \in {"open", "closing", "closed"}, socket # "new",
           known' = FALSE, wsDisposed' \in BOOLEAN,
           disconnects' = (IF wsDisposed' THEN 0 ELSE 1)
    PROVE  WsInv'
<1>1. WsTypes /\ Life /\ Timers /\ Map /\ Streams /\ Ws!LiveOperationRegistered /\ Completed
  BY DEF WsInv
<1>2. ~closed
  BY <1>1 DEF Life
<1>3. /\ closed' = TRUE /\ initTimer' = FALSE /\ keepAlive' = FALSE
      /\ timers' = (IF keepAlive THEN timers - 1 ELSE timers)
      /\ aborted' = [o \in Ws!Ops |-> aborted[o] \/ o \in Ws!Registered]
      /\ iter' = [o \in Ws!Ops |-> IF o \in Ws!Registered /\ iter[o] = "open" THEN "returned"
                                ELSE iter[o]]
      /\ subscriptions' = [id \in Ids |-> 0]
  BY <1>2 DEF Ws!CleanupConnection, Ws!ClearInterval, Ws!Abort
<1>4. timers' = 0
  BY <1>1, <1>3 DEF Timers, WsTypes
<1>5. ASSUME NEW o \in Ws!Ops, opSt[o] \in Ws!Running
      PROVE  aborted'[o]
  <2>1. aborted'[o] = (aborted[o] \/ o \in Ws!Registered)
    BY <1>3
  <2>2. CASE aborted[o]
    BY <2>1, <2>2
  <2>3. CASE ~aborted[o]
    <3>1. subscriptions[opId[o]] = o /\ opId[o] \in Ids /\ o # 0
      BY <1>1, <1>5, <2>3 DEF Ws!LiveOperationRegistered, WsTypes, Ws!Ops
    <3>2. o \in Ws!Registered
      BY <3>1 DEF Ws!Registered
    <3> QED BY <2>1, <3>2
  <2> QED BY <2>2, <2>3
<1>6. ASSUME NEW o \in Ws!Ops
      PROVE  iter'[o] # "open"
  <2>1. SUFFICES ASSUME iter[o] = "open"
                 PROVE  o \in Ws!Registered
    BY <1>3
  <2>2. opSt[o] \in Ws!Running /\ ~aborted[o]
    BY <1>1, <2>1 DEF Streams, Ws!Running
  <2>3. subscriptions[opId[o]] = o /\ opId[o] \in Ids /\ o # 0
    BY <1>1, <2>2 DEF Ws!LiveOperationRegistered, WsTypes, Ws!Ops
  <2> QED BY <2>3 DEF Ws!Registered
<1>7. aborted' \in [Ws!Ops -> BOOLEAN] /\ iter' \in [Ws!Ops -> {"none", "open", "returned"}]
  BY <1>1, <1>3 DEF WsTypes
<1>8. subscriptions' \in [Ids -> Ws!Ops \cup {0}]
  BY <1>3
<1>9. WsTypes'
  <2>1. disconnects' \in Nat /\ timers' \in Nat
    BY <1>4
  <2>2. /\ opId' = opId /\ opSt' = opSt /\ sent' = sent /\ completed' = completed
        /\ inits' = inits
    OBVIOUS
  <2> QED BY <1>1, <1>3, <1>7, <1>8, <2>1, <2>2 DEF WsTypes
<1>10. Life' /\ Timers'
  BY <1>1, <1>3, <1>4 DEF Life, Timers, WsTypes
<1>11. Map'
  BY <1>3 DEF Map
<1>12. Streams'
  BY <1>6 DEF Streams
<1>13. Ws!LiveOperationRegistered'
  BY <1>5 DEF Ws!LiveOperationRegistered
<1>14. Completed'
  BY <1>1 DEF Completed
<1> QED BY <1>9, <1>10, <1>11, <1>12, <1>13, <1>14 DEF WsInv

LEMMA OnTransportClose == WsInv /\ Ws!TransportClose => WsInv'
<1> SUFFICES ASSUME WsInv, Ws!TransportClose
             PROVE  WsInv'
  OBVIOUS
<1>1. WsTypes /\ Life /\ Timers /\ Map /\ Streams /\ Ws!LiveOperationRegistered /\ Completed
  BY DEF WsInv
<1>2. CASE known
  <2>1. Ws!CleanupConnection /\ disconnects' = disconnects + 1 /\ known' = FALSE
    BY <1>2 DEF Ws!TransportClose, Ws!HandleClose, Ws!Forgotten
  <2>2. disconnects = 0 /\ ~wsDisposed /\ wsDisposed \in BOOLEAN
    BY <1>1, <1>2 DEF Life, Timers, WsTypes
  <2>3. /\ UNCHANGED <<opId, opSt, sent, completed, inits, wsDisposed>>
        /\ socket' \in {"open", "closing", "closed"} /\ socket # "new"
    BY DEF Ws!TransportClose
  <2>4. disconnects' = (IF wsDisposed' THEN 0 ELSE 1) /\ wsDisposed' \in BOOLEAN
    BY <2>1, <2>2, <2>3
  <2>5. UNCHANGED <<opId, opSt, sent, completed, inits>>
    BY <2>3
  <2> QED BY <1>2, <2>1, <2>3, <2>4, <2>5, CleanedUp
<1>3. CASE ~known
  <2>1. /\ UNCHANGED <<known, closed, initTimer, keepAlive, timers, subscriptions, aborted, iter,
                       disconnects, opId, opSt, sent, completed, inits, wsDisposed>>
        /\ socket' = "closed" /\ socket # "new"
    BY <1>3 DEF Ws!TransportClose, Ws!HandleClose
  <2>2. WsTypes'
    BY <1>1, <2>1 DEF WsTypes
  <2>3. Life' /\ Timers' /\ Map'
    BY <1>1, <2>1 DEF Life, Timers, Map
  <2>4. Streams' /\ Ws!LiveOperationRegistered' /\ Completed'
    BY <1>1, <2>1 DEF Streams, Ws!LiveOperationRegistered, Completed
  <2> QED BY <2>2, <2>3, <2>4 DEF WsInv
<1> QED BY <1>2, <1>3

LEMMA OnWatchdog == WsInv /\ Ws!Watchdog => WsInv'
<1> SUFFICES ASSUME WsInv, Ws!Watchdog
             PROVE  WsInv'
  OBVIOUS
<1>1. WsTypes /\ Life /\ Timers
  BY DEF WsInv
<1>2. known /\ Ws!CleanupConnection /\ disconnects' = disconnects + 1 /\ known' = FALSE
  BY DEF Ws!Watchdog, Ws!WatchdogCleans, Ws!HandleClose, Ws!Forgotten
<1>3. disconnects = 0 /\ ~wsDisposed /\ wsDisposed \in BOOLEAN
  BY <1>1, <1>2 DEF Life, Timers, WsTypes
<1>4. UNCHANGED <<opId, opSt, sent, completed, inits, wsDisposed>>
  BY DEF Ws!Watchdog
<1>5. socket \in {"open", "closing", "closed"}
  BY <1>1, <1>2 DEF Life, WsTypes
<1>6. socket' \in {"open", "closing", "closed"} /\ socket # "new"
  BY <1>5 DEF Ws!Watchdog, Ws!Shut
<1>7. disconnects' = (IF wsDisposed' THEN 0 ELSE 1) /\ wsDisposed' \in BOOLEAN
  BY <1>2, <1>3, <1>4
<1>8. UNCHANGED <<opId, opSt, sent, completed, inits>>
  BY <1>4
<1> QED BY <1>2, <1>6, <1>7, <1>8, CleanedUp

LEMMA OnDispose == WsInv /\ Ws!Dispose => WsInv'
<1> SUFFICES ASSUME WsInv, Ws!Dispose
             PROVE  WsInv'
  OBVIOUS
<1>1. WsTypes /\ Life /\ Timers
  BY DEF WsInv
<1>2. known /\ Ws!CleanupConnection /\ known' = FALSE /\ wsDisposed' = TRUE
  BY DEF Ws!Dispose
<1>3. disconnects = 0
  BY <1>1, <1>2 DEF Life, Timers, WsTypes
<1>4. UNCHANGED <<socket, opId, opSt, sent, completed, inits, disconnects>>
  BY DEF Ws!Dispose
<1>5. socket \in {"open", "closing", "closed"}
  BY <1>1, <1>2 DEF Life, WsTypes
<1> QED BY <1>2, <1>3, <1>4, <1>5, CleanedUp

-----------------------------------------------------------------------------
(* The connection's own steps *)

\* A step that touches no operation keeps what the invariant says of operations,
\* unless it closes the connection.
LEMMA OpersKept ==
    ASSUME WsInv, UNCHANGED Ws!opers, closed' = closed, WsTypes', Life', Timers'
    PROVE  WsInv'
<1>1. WsTypes /\ Life /\ Timers /\ Map /\ Streams /\ Ws!LiveOperationRegistered /\ Completed
  BY DEF WsInv
<1>2. UNCHANGED <<subscriptions, opId, opSt, aborted, iter, sent, completed>>
  BY DEF Ws!opers
<1>3. Map' /\ Streams' /\ Ws!LiveOperationRegistered' /\ Completed'
  BY <1>1, <1>2 DEF Map, Streams, Ws!LiveOperationRegistered, Completed
<1> QED BY <1>3 DEF WsInv

LEMMA OnHandleOpen == WsInv /\ Ws!HandleOpen => WsInv'
<1> SUFFICES ASSUME WsInv, Ws!HandleOpen
             PROVE  WsInv'
  OBVIOUS
<1>1. WsTypes /\ Life /\ Timers
  BY DEF WsInv
<1>2. /\ socket = "new" /\ socket' = "open" /\ known' = TRUE /\ initTimer' = TRUE
      /\ UNCHANGED <<closed, keepAlive, timers, inits, disconnects, wsDisposed, Ws!opers>>
  BY DEF Ws!HandleOpen
<1>3. ~closed /\ ~wsDisposed
  BY <1>1, <1>2 DEF Life
<1>4. UNCHANGED <<subscriptions, opId, opSt, aborted, iter, sent, completed>>
  BY <1>2 DEF Ws!opers
<1>5. WsTypes'
  BY <1>1, <1>2, <1>4 DEF WsTypes
<1>6. Life' /\ Timers'
  BY <1>1, <1>2, <1>3 DEF Life, Timers
<1> QED BY <1>2, <1>5, <1>6, OpersKept

\* Initialize, for a connection that is not closed.
LEMMA Initializes ==
    ASSUME WsInv, ~closed, socket # "new", Ws!Initialize,
           inits' \in [Ws!Inits -> {"unused", "await", "done"}],
           UNCHANGED <<socket, known, closed, disconnects, wsDisposed, Ws!opers>>
    PROVE  WsInv'
<1>1. WsTypes /\ Life /\ Timers
  BY DEF WsInv
<1>2. /\ initTimer' = FALSE
      /\ keepAlive' = (keepAlive \/ (KeepAlive /\ ~closed /\ ~keepAlive))
      /\ timers' = IF KeepAlive /\ ~closed /\ ~keepAlive THEN timers + 1 ELSE timers
  BY DEF Ws!Initialize, Ws!StartsKeepAlive
<1>3. keepAlive' \in BOOLEAN /\ timers' = (IF keepAlive' THEN 1 ELSE 0)
  <2>1. CASE KeepAlive /\ ~keepAlive
    <3>1. keepAlive' = TRUE
      BY <1>2, <2>1
    <3>2. timers = 0
      BY <1>1, <2>1 DEF Timers
    <3>3. timers' = timers + 1
      BY <1>2, <2>1
    <3> QED BY <3>1, <3>2, <3>3
  <2>2. CASE ~(KeepAlive /\ ~keepAlive)
    <3>1. keepAlive' = keepAlive
      <4>1. (keepAlive \/ (KeepAlive /\ ~closed /\ ~keepAlive)) = keepAlive
        BY <1>1, <2>2 DEF WsTypes
      <4> QED BY <1>2, <4>1
    <3>2. timers' = timers
      BY <1>2, <2>2
    <3> QED BY <1>1, <3>1, <3>2 DEF WsTypes, Timers
  <2> QED BY <2>1, <2>2
<1>4. UNCHANGED <<subscriptions, opId, opSt, aborted, iter, sent, completed>>
  BY DEF Ws!opers
<1>5. timers' \in Nat
  BY <1>3
<1>6. WsTypes'
  BY <1>1, <1>2, <1>3, <1>4, <1>5 DEF WsTypes
<1>7. Life'
  BY <1>1 DEF Life
<1>8. Timers'
  BY <1>1, <1>3 DEF Timers
<1> QED BY <1>6, <1>7, <1>8, OpersKept

\* A step that at most shuts the socket, stops the init timer and moves an
\* onConnect call on.
LEMMA Harmless ==
    ASSUME WsInv, socket # "new", UNCHANGED <<socket, closeCode>> \/ (\E c \in Ws!Codes : Ws!Shut(c)),
           inits' \in [Ws!Inits -> {"unused", "await", "done"}],
           initTimer' = initTimer \/ initTimer' = FALSE,
           UNCHANGED <<known, closed, keepAlive, timers, disconnects, wsDisposed, Ws!opers>>
    PROVE  WsInv'
<1>1. WsTypes /\ Life /\ Timers
  BY DEF WsInv
<1>2. socket' \in {"open", "closing", "closed"}
  <2>1. CASE UNCHANGED <<socket, closeCode>>
    BY <1>1, <2>1 DEF WsTypes
  <2>2. CASE \E c \in Ws!Codes : Ws!Shut(c)
    BY <1>1, <2>2 DEF WsTypes, Ws!Shut
  <2> QED BY <2>1, <2>2
<1>3. UNCHANGED <<subscriptions, opId, opSt, aborted, iter, sent, completed>>
  BY DEF Ws!opers
<1>4. WsTypes'
  BY <1>1, <1>2, <1>3 DEF WsTypes
<1>5. Life' /\ Timers'
  BY <1>1, <1>2 DEF Life, Timers
<1> QED BY <1>4, <1>5, OpersKept

LEMMA OnMsgInit == ASSUME NEW k \in Ws!Inits PROVE WsInv /\ Ws!MsgInit(k) => WsInv'
<1> SUFFICES ASSUME WsInv, Ws!MsgInit(k)
             PROVE  WsInv'
  OBVIOUS
<1>1. WsTypes /\ Life
  BY DEF WsInv
<1>2. socket # "new" /\ known /\ ~closed
  BY <1>1 DEF Ws!MsgInit, Ws!Receives, Life
<1>3. inits' \in [Ws!Inits -> {"unused", "await", "done"}]
  BY <1>1 DEF Ws!MsgInit, WsTypes
<1>4. UNCHANGED <<known, closed, disconnects, wsDisposed, Ws!opers>>
  BY DEF Ws!MsgInit
<1>5. CASE isInitialized
  <2>1. Ws!Shut("TooManyInitialisationRequests") /\ UNCHANGED <<initTimer, keepAlive, timers>>
    BY <1>5 DEF Ws!MsgInit
  <2>2. \E c \in Ws!Codes : Ws!Shut(c)
    BY <2>1 DEF Ws!Codes
  <2> QED BY <1>2, <1>3, <1>4, <2>1, <2>2, Harmless
<1>6. CASE ~isInitialized /\ HasOnConnect
  <2>1. UNCHANGED <<socket, closeCode, initTimer, keepAlive, timers>>
    BY <1>6 DEF Ws!MsgInit
  <2> QED BY <1>2, <1>3, <1>4, <2>1, Harmless
<1>7. CASE ~isInitialized /\ ~HasOnConnect
  <2>1. Ws!Initialize /\ UNCHANGED <<socket, closeCode>>
    BY <1>7 DEF Ws!MsgInit
  <2> QED BY <1>2, <1>3, <1>4, <2>1, Initializes
<1> QED BY <1>5, <1>6, <1>7

LEMMA OnOnConnectSettles ==
    ASSUME NEW k \in Ws!Inits, NEW ok \in BOOLEAN
    PROVE  WsInv /\ Ws!OnConnectSettles(k, ok) => WsInv'
<1> SUFFICES ASSUME WsInv, Ws!OnConnectSettles(k, ok)
             PROVE  WsInv'
  OBVIOUS
<1>1. WsTypes /\ Life
  BY DEF WsInv
<1>2. socket # "new"
  BY <1>1 DEF Ws!OnConnectSettles, Life
<1>3. inits' \in [Ws!Inits -> {"unused", "await", "done"}]
  BY <1>1 DEF Ws!OnConnectSettles, WsTypes
<1>4. UNCHANGED <<known, closed, disconnects, wsDisposed, Ws!opers>>
  BY DEF Ws!OnConnectSettles
<1>5. CASE ~ok
  <2>1. Ws!Shut("Forbidden") /\ UNCHANGED <<initTimer, keepAlive, timers>>
    BY <1>5 DEF Ws!OnConnectSettles
  <2>2. \E c \in Ws!Codes : Ws!Shut(c)
    BY <2>1 DEF Ws!Codes
  <2> QED BY <1>2, <1>3, <1>4, <2>1, <2>2, Harmless
<1>6. CASE ok /\ closed
  <2>1. UNCHANGED <<socket, closeCode, initTimer, keepAlive, timers>>
    BY <1>6 DEF Ws!OnConnectSettles
  <2> QED BY <1>2, <1>3, <1>4, <2>1, Harmless
<1>7. CASE ok /\ ~closed
  <2>1. Ws!Initialize /\ UNCHANGED <<socket, closeCode>>
    BY <1>7 DEF Ws!OnConnectSettles
  <2> QED BY <1>2, <1>3, <1>4, <1>7, <2>1, Initializes
<1> QED BY <1>5, <1>6, <1>7

LEMMA OnInitTimeout == WsInv /\ Ws!InitTimeout => WsInv'
<1> SUFFICES ASSUME WsInv, Ws!InitTimeout
             PROVE  WsInv'
  OBVIOUS
<1>1. WsTypes /\ Life
  BY DEF WsInv
<1>2. socket # "new"
  BY <1>1 DEF Ws!InitTimeout, Life
<1>3. /\ initTimer' = FALSE
      /\ UNCHANGED <<known, closed, keepAlive, timers, inits, disconnects, wsDisposed, Ws!opers>>
  BY DEF Ws!InitTimeout
<1>4. inits' \in [Ws!Inits -> {"unused", "await", "done"}]
  BY <1>1, <1>3 DEF WsTypes
<1>5. UNCHANGED <<socket, closeCode>> \/ (\E c \in Ws!Codes : Ws!Shut(c))
  <2>1. UNCHANGED <<socket, closeCode>> \/ Ws!Shut("InitialisationTimeout")
    BY DEF Ws!InitTimeout
  <2> QED BY <2>1 DEF Ws!Codes
<1> QED BY <1>2, <1>3, <1>4, <1>5, Harmless

\* What the other steps of the connection leave alone: time, the vanishing client
\* and the messages that only count as activity.
LEMMA OnOthers == WsInv /\ (Ws!TimePasses \/ Ws!PeerDies \/ Ws!MsgOther) => WsInv'
<1> SUFFICES ASSUME WsInv, Ws!TimePasses \/ Ws!PeerDies \/ Ws!MsgOther
             PROVE  WsInv'
  OBVIOUS
<1>1. WsTypes /\ Life
  BY DEF WsInv
<1>2. /\ UNCHANGED <<known, closed, initTimer, keepAlive, timers, inits, disconnects, wsDisposed,
                     Ws!opers>>
      /\ UNCHANGED <<socket, closeCode>> \/ Ws!Shut("BadRequest")
      /\ known \/ socket = "open"
  BY DEF Ws!TimePasses, Ws!PeerDies, Ws!MsgOther, Ws!Receives, Ws!connButSocket
<1>3. socket # "new"
  BY <1>1, <1>2 DEF Life
<1>4. inits' \in [Ws!Inits -> {"unused", "await", "done"}]
  BY <1>1, <1>2 DEF WsTypes
<1>5. UNCHANGED <<socket, closeCode>> \/ (\E c \in Ws!Codes : Ws!Shut(c))
  BY <1>2 DEF Ws!Codes
<1> QED BY <1>2, <1>3, <1>4, <1>5, Harmless

-----------------------------------------------------------------------------
(* The steps of operations *)

\* What a step keeps of the invariant when it leaves the connection alone and moves
\* one accepted operation, which may give its registration up.
LEMMA Moves ==
    ASSUME WsInv, NEW o \in Ws!Ops, opSt[o] # "unused",
           UNCHANGED <<Ws!conn, opId, aborted>>,
           subscriptions' \in {subscriptions, Ws!Unregistered(o)},
           NEW s \in (Ws!Running \cup {"closing", "ended"}), opSt' = [opSt EXCEPT ![o] = s],
           NEW i \in {"none", "open", "returned"}, iter' = [iter EXCEPT ![o] = i],
           sent' \in [Ws!Ops -> Nat],
           NEW c \in BOOLEAN, completed' = [completed EXCEPT ![o] = c],
           i = "open" => s \in {"loop", "exec", "hook"} /\ ~aborted[o],
           s \in Ws!Running /\ ~aborted[o] => opSt[o] \in Ws!Running /\ subscriptions' = subscriptions,
           c => s \in {"closing", "ended"}
    PROVE  WsInv'
<1>1. WsTypes /\ Life /\ Timers /\ Map /\ Streams /\ Ws!LiveOperationRegistered /\ Completed
  BY DEF WsInv
<1>2. UNCHANGED <<socket, known, closed, initTimer, keepAlive, timers, inits, disconnects,
                  wsDisposed>>
  BY DEF Ws!conn
<1>3. ASSUME NEW id \in Ids
      PROVE  /\ subscriptions'[id] \in {subscriptions[id], 0}
             /\ subscriptions[id] # 0 /\ subscriptions[id] # o
                  => subscriptions'[id] = subscriptions[id]
  <2>1. CASE subscriptions' = subscriptions
    BY <2>1
  <2>2. CASE subscriptions' = Ws!Unregistered(o) /\ subscriptions' # subscriptions
    <3>1. /\ subscriptions[opId[o]] = o
          /\ subscriptions' = [subscriptions EXCEPT ![opId[o]] = 0]
      BY <2>2 DEF Ws!Unregistered
    <3> QED BY <1>1, <3>1 DEF WsTypes
  <2> QED BY <2>1, <2>2
<1>4. subscriptions' \in [Ids -> Ws!Ops \cup {0}]
  <2>1. CASE subscriptions' = subscriptions
    BY <1>1, <2>1 DEF WsTypes
  <2>2. CASE subscriptions' = [subscriptions EXCEPT ![opId[o]] = 0]
    BY <1>1, <2>2 DEF WsTypes
  <2> QED BY <2>1, <2>2 DEF Ws!Unregistered
<1>5. opSt' \in [Ws!Ops -> Ws!Running \cup {"unused", "closing", "ended"}]
  BY <1>1 DEF WsTypes
<1>6. /\ iter' \in [Ws!Ops -> {"none", "open", "returned"}]
      /\ completed' \in [Ws!Ops -> BOOLEAN]
  BY <1>1 DEF WsTypes
<1>7. WsTypes'
  BY <1>1, <1>2, <1>4, <1>5, <1>6 DEF WsTypes
<1>8. Life' /\ Timers'
  <2>1. socket # "new"
    BY <1>1 DEF Life
  <2> QED BY <1>1, <1>2, <2>1 DEF Life, Timers
<1>9. ASSUME NEW p \in Ws!Ops
      PROVE  opSt'[p] = (IF p = o THEN s ELSE opSt[p]) /\ (opSt[p] # "unused" => opSt'[p] # "unused")
  BY <1>1 DEF WsTypes, Ws!Running
<1>10. Map'
  <2>1. ASSUME NEW id \in Ids, subscriptions'[id] # 0
        PROVE  opId'[subscriptions'[id]] = id /\ opSt'[subscriptions'[id]] # "unused"
    <3>1. subscriptions'[id] = subscriptions[id] /\ subscriptions[id] \in Ws!Ops
      BY <1>1, <1>3, <2>1 DEF WsTypes
    <3>2. opId[subscriptions[id]] = id /\ opSt[subscriptions[id]] # "unused"
      BY <1>1, <2>1, <3>1 DEF Map
    <3> QED BY <1>9, <3>1, <3>2
  <2>2. ASSUME closed', NEW id \in Ids
        PROVE  subscriptions'[id] = 0
    BY <1>1, <1>2, <1>3, <2>2 DEF Map
  <2> QED BY <2>1, <2>2 DEF Map
<1>11. Streams'
  <2>1. ASSUME NEW p \in Ws!Ops, iter'[p] = "open"
        PROVE  opSt'[p] \in {"loop", "exec", "hook"} /\ ~aborted'[p]
    <3>1. CASE p = o
      BY <1>1, <1>9, <2>1, <3>1 DEF WsTypes
    <3>2. CASE p # o
      BY <1>1, <1>9, <2>1, <3>2 DEF WsTypes, Streams
    <3> QED BY <3>1, <3>2
  <2> QED BY <2>1 DEF Streams
<1>12. Ws!LiveOperationRegistered'
  <2>1. ASSUME NEW p \in Ws!Ops, opSt'[p] \in Ws!Running, ~aborted'[p]
        PROVE  subscriptions'[opId'[p]] = p
    <3>1. opSt[p] \in Ws!Running /\ ~aborted[p]
      BY <1>9, <2>1
    <3>2. subscriptions[opId[p]] = p /\ opId[p] \in Ids /\ p # 0
      BY <1>1, <3>1 DEF Ws!LiveOperationRegistered, WsTypes, Ws!Ops
    <3>3. CASE p = o
      BY <1>9, <2>1, <3>2, <3>3
    <3>4. CASE p # o
      BY <1>3, <3>2, <3>4
    <3> QED BY <3>3, <3>4
  <2> QED BY <2>1 DEF Ws!LiveOperationRegistered
<1>13. Completed'
  <2>1. ASSUME NEW p \in Ws!Ops, completed'[p]
        PROVE  opSt'[p] \in {"closing", "ended"}
    <3>1. CASE p = o
      BY <1>1, <1>9, <2>1, <3>1 DEF WsTypes
    <3>2. CASE p # o
      BY <1>1, <1>9, <2>1, <3>2 DEF WsTypes, Completed
    <3> QED BY <3>1, <3>2
  <2> QED BY <2>1 DEF Completed
<1> QED BY <1>7, <1>8, <1>10, <1>11, <1>12, <1>13 DEF WsInv

\* A frame more is a number of frames.
LEMMA FrameTyped ==
    ASSUME WsTypes, NEW o \in Ws!Ops, NEW n \in Nat
    PROVE  /\ [sent EXCEPT ![o] = @ + n] \in [Ws!Ops -> Nat]
           /\ iter = [iter EXCEPT ![o] = iter[o]] /\ iter[o] \in {"none", "open", "returned"}
           /\ completed = [completed EXCEPT ![o] = completed[o]] /\ completed[o] \in BOOLEAN
           /\ opSt = [opSt EXCEPT ![o] = opSt[o]]
  BY DEF WsTypes

LEMMA OnSetupFails ==
    ASSUME NEW o \in Ws!Ops, NEW n \in {1, 2}
    PROVE  WsInv /\ Ws!SetupFails(o, n) => WsInv'
<1> SUFFICES ASSUME WsInv, Ws!SetupFails(o, n)
             PROVE  WsInv'
  OBVIOUS
<1>1. WsTypes /\ Streams
  BY DEF WsInv
<1>2. /\ opSt[o] = "setup" /\ opSt' = [opSt EXCEPT ![o] = "ended"]
      /\ sent' = [sent EXCEPT ![o] = @ + n] /\ completed' = [completed EXCEPT ![o] = (n = 2)]
      /\ subscriptions' = Ws!Unregistered(o) /\ UNCHANGED <<Ws!conn, opId, aborted, iter, events>>
  BY DEF Ws!SetupFails
<1>3. /\ sent' \in [Ws!Ops -> Nat] /\ iter' = [iter EXCEPT ![o] = iter[o]]
      /\ iter[o] \in {"none", "open", "returned"} /\ iter[o] # "open"
  BY <1>1, <1>2, FrameTyped DEF Streams
<1>4. (n = 2) \in BOOLEAN /\ "ended" \in Ws!Running \cup {"closing", "ended"} /\ "ended" \notin Ws!Running
  BY DEF Ws!Running
<1>5. UNCHANGED <<Ws!conn, opId, aborted>>
  BY <1>2
<1> QED BY <1>2, <1>3, <1>4, <1>5, Moves

LEMMA OnSetupStream == ASSUME NEW o \in Ws!Ops PROVE WsInv /\ Ws!SetupStream(o) => WsInv'
<1> SUFFICES ASSUME WsInv, Ws!SetupStream(o)
             PROVE  WsInv'
  OBVIOUS
<1>1. WsTypes /\ Completed
  BY DEF WsInv
<1>2. opSt[o] = "setup" /\ UNCHANGED <<Ws!conn, opId, aborted, sent, completed>>
  BY DEF Ws!SetupStream
<1>3. /\ sent' \in [Ws!Ops -> Nat] /\ completed' = [completed EXCEPT ![o] = completed[o]]
      /\ completed[o] \in BOOLEAN /\ ~completed[o]
  BY <1>1, <1>2, FrameTyped DEF WsTypes, Completed
<1>4. UNCHANGED <<Ws!conn, opId, aborted>>
  BY <1>2
<1>5. CASE aborted[o]
  <2>1. /\ iter' = [iter EXCEPT ![o] = "returned"] /\ opSt' = [opSt EXCEPT ![o] = "ended"]
        /\ subscriptions' = Ws!Unregistered(o)
    BY <1>5 DEF Ws!SetupStream, Ws!LateAbort
  <2>2. "ended" \in Ws!Running \cup {"closing", "ended"} /\ "ended" \notin Ws!Running
    BY DEF Ws!Running
  <2> QED BY <1>2, <1>3, <1>4, <2>1, <2>2, Moves
<1>6. CASE ~aborted[o]
  <2>1. /\ iter' = [iter EXCEPT ![o] = "open"] /\ opSt' = [opSt EXCEPT ![o] = "loop"]
        /\ subscriptions' = subscriptions
    BY <1>6 DEF Ws!SetupStream, Ws!LateAbort
  <2>2. "loop" \in Ws!Running \cup {"closing", "ended"} /\ opSt[o] \in Ws!Running
    BY <1>2 DEF Ws!Running
  <2> QED BY <1>2, <1>3, <1>4, <1>6, <2>1, <2>2, Moves
<1> QED BY <1>5, <1>6

\* A step inside the loop.
LEMMA InLoop ==
    ASSUME WsInv, NEW o \in Ws!Ops, opSt[o] \in {"loop", "exec", "hook"},
           NEW s \in {"loop", "exec", "hook"}, opSt' = [opSt EXCEPT ![o] = s],
           sent' = sent \/ Ws!Frame(o),
           UNCHANGED <<Ws!conn, subscriptions, opId, aborted, iter, completed>>
    PROVE  WsInv'
<1>1. WsTypes /\ Streams /\ Completed
  BY DEF WsInv
<1>2. /\ iter' = [iter EXCEPT ![o] = iter[o]] /\ iter[o] \in {"none", "open", "returned"}
      /\ completed' = [completed EXCEPT ![o] = completed[o]]
      /\ completed[o] \in BOOLEAN /\ ~completed[o]
  BY <1>1, FrameTyped DEF Completed
<1>3. sent' \in [Ws!Ops -> Nat]
  <2>1. [sent EXCEPT ![o] = @ + 1] \in [Ws!Ops -> Nat]
    BY <1>1, FrameTyped
  <2> QED BY <1>1, <2>1 DEF WsTypes, Ws!Frame
<1>4. iter[o] = "open" => ~aborted[o]
  BY <1>1 DEF Streams
<1>5. /\ s \in Ws!Running \cup {"closing", "ended"} /\ opSt[o] \in Ws!Running /\ opSt[o] # "unused"
      /\ subscriptions' = subscriptions
  BY DEF Ws!Running
<1>6. UNCHANGED <<Ws!conn, opId, aborted>>
  OBVIOUS
<1> QED BY <1>2, <1>3, <1>4, <1>5, <1>6, Moves

\* The loop is left, with or without a last frame.
LEMMA OutOfLoop ==
    ASSUME WsInv, NEW o \in Ws!Ops, opSt[o] = "loop", Ws!Finally(o), sent' = sent \/ Ws!Frame(o),
           NEW c \in BOOLEAN, completed' = [completed EXCEPT ![o] = c],
           UNCHANGED <<Ws!conn, subscriptions, opId, aborted>>
    PROVE  WsInv'
<1>1. WsTypes
  BY DEF WsInv
<1>2. /\ opSt' = [opSt EXCEPT ![o] = "closing"] /\ iter' = [iter EXCEPT ![o] = "returned"]
  BY DEF Ws!Finally
<1>3. sent' \in [Ws!Ops -> Nat]
  <2>1. [sent EXCEPT ![o] = @ + 1] \in [Ws!Ops -> Nat]
    BY <1>1, FrameTyped
  <2> QED BY <1>1, <2>1 DEF WsTypes, Ws!Frame
<1>4. "closing" \in Ws!Running \cup {"closing", "ended"} /\ "closing" \notin Ws!Running
  BY DEF Ws!Running
<1>5. subscriptions' = subscriptions /\ UNCHANGED <<Ws!conn, opId, aborted>>
  OBVIOUS
<1> QED BY <1>2, <1>3, <1>4, <1>5, Moves

LEMMA OnLoop ==
    ASSUME NEW o \in Ws!Ops
    PROVE  WsInv /\ (Ws!Stream(o) \/ Ws!Aborts(o) \/ Ws!ExecDone(o) \/ Ws!EventThrows(o) \/ Ws!HookDone(o)) => WsInv'
<1> SUFFICES ASSUME WsInv,
                    Ws!Stream(o) \/ Ws!Aborts(o) \/ Ws!ExecDone(o) \/ Ws!EventThrows(o) \/ Ws!HookDone(o)
             PROVE  WsInv'
  OBVIOUS
<1>1. WsTypes
  BY DEF WsInv
<1>2. completed = [completed EXCEPT ![o] = completed[o]] /\ completed[o] \in BOOLEAN
  BY <1>1, FrameTyped
<1>3. CASE Ws!NextValue(o)
  BY <1>3, InLoop DEF Ws!NextValue
<1>4. CASE Ws!ExecDone(o)
  BY <1>4, InLoop DEF Ws!ExecDone
<1>5. CASE Ws!EventThrows(o)
  <2>1. sent' = sent \/ Ws!Frame(o)
    BY <1>5 DEF Ws!EventThrows
  <2>2. /\ opSt[o] \in {"loop", "exec", "hook"} /\ opSt' = [opSt EXCEPT ![o] = "loop"]
        /\ UNCHANGED <<Ws!conn, subscriptions, opId, aborted, iter, completed>>
    BY <1>5 DEF Ws!EventThrows
  <2> QED BY <2>1, <2>2, InLoop
<1>6. CASE Ws!HookDone(o)
  BY <1>6, InLoop DEF Ws!HookDone
<1>7. CASE Ws!NextDone(o)
  BY <1>7, OutOfLoop DEF Ws!NextDone, Ws!LeavesLoop
<1>8. CASE Ws!NextThrows(o)
  <2>1. /\ opSt[o] = "loop" /\ Ws!Finally(o) /\ Ws!Frame(o) /\ completed' = completed
        /\ UNCHANGED <<Ws!conn, subscriptions, opId, aborted>>
    BY <1>8 DEF Ws!NextThrows
  <2> QED BY <1>2, <2>1, OutOfLoop
<1>9. CASE Ws!Aborts(o)
  <2>1. /\ opSt[o] = "loop" /\ Ws!Finally(o) /\ sent' = sent /\ completed' = completed
        /\ UNCHANGED <<Ws!conn, subscriptions, opId, aborted>>
    BY <1>9 DEF Ws!Aborts
  <2> QED BY <1>2, <2>1, OutOfLoop
<1> QED BY <1>3, <1>4, <1>5, <1>6, <1>7, <1>8, <1>9 DEF Ws!Stream

LEMMA OnEnds == ASSUME NEW o \in Ws!Ops PROVE WsInv /\ Ws!Ends(o) => WsInv'
<1> SUFFICES ASSUME WsInv, Ws!Ends(o)
             PROVE  WsInv'
  OBVIOUS
<1>1. WsTypes /\ Streams
  BY DEF WsInv
<1>2. /\ opSt[o] = "closing" /\ opSt' = [opSt EXCEPT ![o] = "ended"]
      /\ subscriptions' = Ws!Unregistered(o)
      /\ iter' = iter /\ sent' = sent /\ completed' = completed
  BY DEF Ws!Ends
<1>3. UNCHANGED <<Ws!conn, opId, aborted>>
  BY DEF Ws!Ends
<1>4. /\ iter' = [iter EXCEPT ![o] = iter[o]] /\ iter[o] \in {"none", "open", "returned"}
      /\ completed' = [completed EXCEPT ![o] = completed[o]] /\ completed[o] \in BOOLEAN
      /\ iter[o] # "open" /\ sent' \in [Ws!Ops -> Nat]
  BY <1>1, <1>2, FrameTyped DEF WsTypes, Streams
<1>5. "ended" \in Ws!Running \cup {"closing", "ended"} /\ "ended" \notin Ws!Running
  BY DEF Ws!Running
<1> QED BY <1>2, <1>3, <1>4, <1>5, Moves

-----------------------------------------------------------------------------
(* subscribe and complete *)

LEMMA OnMsgSubscribe == ASSUME NEW id \in Ids PROVE WsInv /\ Ws!MsgSubscribe(id) => WsInv'
<1> SUFFICES ASSUME WsInv, Ws!MsgSubscribe(id)
             PROVE  WsInv'
  OBVIOUS
<1>1. WsTypes /\ Life /\ Timers /\ Map /\ Streams /\ Ws!LiveOperationRegistered /\ Completed
  BY DEF WsInv
<1>2. /\ socket = "open" /\ known
      /\ UNCHANGED <<known, closed, initTimer, keepAlive, timers, inits, disconnects, wsDisposed>>
  BY DEF Ws!MsgSubscribe, Ws!Receives, Ws!connButSocket
<1>3. ~closed
  BY <1>1, <1>2 DEF Life
<1>4. CASE UNCHANGED Ws!opers /\ (\E c \in Ws!Codes : Ws!Shut(c))
  <2>1. inits' \in [Ws!Inits -> {"unused", "await", "done"}]
    BY <1>1, <1>2 DEF WsTypes
  <2> QED BY <1>2, <1>4, <2>1, Harmless
<1>5. CASE /\ subscriptions[id] = 0
           /\ UNCHANGED <<socket, closeCode, aborted, iter, events, sent, completed>>
           /\ \E o \in Ws!Ops : /\ opSt[o] = "unused"
                             /\ opId' = [opId EXCEPT ![o] = id]
                             /\ opSt' = [opSt EXCEPT ![o] = "setup"]
                             /\ subscriptions' = [subscriptions EXCEPT ![id] = o]
  <2>1. PICK o \in Ws!Ops : /\ opSt[o] = "unused"
                         /\ opId' = [opId EXCEPT ![o] = id]
                         /\ opSt' = [opSt EXCEPT ![o] = "setup"]
                         /\ subscriptions' = [subscriptions EXCEPT ![id] = o]
    BY <1>5
  <2>2. UNCHANGED <<aborted, iter, sent, completed, socket>>
    BY <1>5
  <2>3. /\ opId' \in [Ws!Ops -> Ids] /\ subscriptions' \in [Ids -> Ws!Ops \cup {0}]
        /\ opSt' \in [Ws!Ops -> Ws!Running \cup {"unused", "closing", "ended"}]
    BY <1>1, <2>1 DEF WsTypes, Ws!Running
  <2>4. WsTypes'
    BY <1>1, <1>2, <2>2, <2>3 DEF WsTypes
  <2>5. Life' /\ Timers'
    BY <1>1, <1>2, <1>3, <2>2 DEF Life, Timers
  <2>6. /\ \A p \in Ws!Ops : opId'[p] = (IF p = o THEN id ELSE opId[p])
        /\ \A p \in Ws!Ops : opSt'[p] = (IF p = o THEN "setup" ELSE opSt[p])
        /\ \A x \in Ids : subscriptions'[x] = (IF x = id THEN o ELSE subscriptions[x])
    BY <1>1, <2>1 DEF WsTypes
  <2>7. Map'
    <3>1. ASSUME NEW x \in Ids, subscriptions'[x] # 0
          PROVE  opId'[subscriptions'[x]] = x /\ opSt'[subscriptions'[x]] # "unused"
      <4>1. CASE x = id
        BY <2>6, <4>1
      <4>2. CASE x # id
        <5>1. subscriptions'[x] = subscriptions[x] /\ subscriptions[x] \in Ws!Ops
          BY <1>1, <2>6, <3>1, <4>2 DEF WsTypes
        <5>2. opId[subscriptions[x]] = x /\ opSt[subscriptions[x]] # "unused"
          BY <1>1, <3>1, <5>1 DEF Map
        <5> QED BY <2>1, <2>6, <5>1, <5>2
      <4> QED BY <4>1, <4>2
    <3> QED BY <1>2, <1>3, <3>1 DEF Map
  <2>8. Streams'
    BY <1>1, <2>1, <2>2, <2>6 DEF Streams
  <2>9. Ws!LiveOperationRegistered'
    <3>1. ASSUME NEW p \in Ws!Ops, opSt'[p] \in Ws!Running, ~aborted'[p]
          PROVE  subscriptions'[opId'[p]] = p
      <4>1. CASE p = o
        BY <2>6, <4>1
      <4>2. CASE p # o
        <5>1. subscriptions[opId[p]] = p /\ opId[p] \in Ids /\ p # 0
          BY <1>1, <2>2, <2>6, <3>1, <4>2 DEF Ws!LiveOperationRegistered, WsTypes, Ws!Ops
        <5>2. opId[p] # id
          BY <1>5, <5>1
        <5> QED BY <2>6, <4>2, <5>1, <5>2
      <4> QED BY <4>1, <4>2
    <3> QED BY <3>1 DEF Ws!LiveOperationRegistered
  <2>10. Completed'
    BY <1>1, <2>1, <2>2, <2>6 DEF Completed
  <2> QED BY <2>4, <2>5, <2>7, <2>8, <2>9, <2>10 DEF WsInv
<1>6. \/ UNCHANGED Ws!opers /\ (\E c \in Ws!Codes : Ws!Shut(c))
      \/ /\ subscriptions[id] = 0
         /\ UNCHANGED <<socket, closeCode, aborted, iter, events, sent, completed>>
         /\ \E o \in Ws!Ops : /\ opSt[o] = "unused"
                           /\ opId' = [opId EXCEPT ![o] = id]
                           /\ opSt' = [opSt EXCEPT ![o] = "setup"]
                           /\ subscriptions' = [subscriptions EXCEPT ![id] = o]
  <2>1. CASE /\ Ws!Shut(IF ~isInitialized THEN "Unauthorized" ELSE "SubscriberAlreadyExists")
             /\ UNCHANGED Ws!opers
    BY <2>1 DEF Ws!Codes
  <2>2. CASE ~(/\ Ws!Shut(IF ~isInitialized THEN "Unauthorized" ELSE "SubscriberAlreadyExists")
               /\ UNCHANGED Ws!opers)
    BY <2>2 DEF Ws!MsgSubscribe
  <2> QED BY <2>1, <2>2
<1> QED BY <1>4, <1>5, <1>6

LEMMA OnMsgComplete == ASSUME NEW id \in Ids PROVE WsInv /\ Ws!MsgComplete(id) => WsInv'
<1> SUFFICES ASSUME WsInv, Ws!MsgComplete(id)
             PROVE  WsInv'
  OBVIOUS
<1>1. WsTypes /\ Life /\ Timers /\ Map /\ Streams /\ Ws!LiveOperationRegistered /\ Completed
  BY DEF WsInv
<1>2. /\ socket = "open" /\ known
      /\ UNCHANGED <<socket, known, closed, initTimer, keepAlive, timers, inits, disconnects,
                     wsDisposed, opId, opSt, sent, completed>>
  BY DEF Ws!MsgComplete, Ws!Receives, Ws!connButSocket
<1>3. ~closed
  BY <1>1, <1>2 DEF Life
<1>4. CASE subscriptions[id] = 0
  <2>1. UNCHANGED <<subscriptions, aborted, iter>>
    BY <1>4 DEF Ws!MsgComplete
  <2>2. WsTypes'
    BY <1>1, <1>2, <2>1 DEF WsTypes
  <2>3. Life' /\ Timers' /\ Map'
    BY <1>1, <1>2, <2>1 DEF Life, Timers, Map
  <2>4. Streams' /\ Ws!LiveOperationRegistered' /\ Completed'
    BY <1>1, <1>2, <2>1 DEF Streams, Ws!LiveOperationRegistered, Completed
  <2> QED BY <2>2, <2>3, <2>4 DEF WsInv
<1>5. CASE subscriptions[id] # 0
  <2>1. PICK o \in Ws!Ops : subscriptions[id] = o
    BY <1>1, <1>5 DEF WsTypes
  <2>2. /\ aborted' = [p \in Ws!Ops |-> aborted[p] \/ p \in {o}]
        /\ iter' = [p \in Ws!Ops |-> IF p \in {o} /\ iter[p] = "open" THEN "returned" ELSE iter[p]]
        /\ subscriptions' = [subscriptions EXCEPT ![id] = 0]
    BY <1>5, <2>1 DEF Ws!MsgComplete, Ws!Abort
  <2>3. /\ \A p \in Ws!Ops : p = o => aborted'[p]
        /\ \A p \in Ws!Ops : p # o => aborted'[p] = aborted[p]
        /\ \A p \in Ws!Ops : iter'[p] = "open" => iter[p] = "open" /\ p # o
        /\ \A x \in Ids : subscriptions'[x] = (IF x = id THEN 0 ELSE subscriptions[x])
    BY <1>1, <2>2 DEF WsTypes
  <2>4. /\ aborted' \in [Ws!Ops -> BOOLEAN] /\ iter' \in [Ws!Ops -> {"none", "open", "returned"}]
        /\ subscriptions' \in [Ids -> Ws!Ops \cup {0}]
    BY <1>1, <2>2 DEF WsTypes
  <2>5. WsTypes'
    BY <1>1, <1>2, <2>4 DEF WsTypes
  <2>6. Life' /\ Timers'
    BY <1>1, <1>2 DEF Life, Timers
  <2>7. Map'
    BY <1>1, <1>2, <1>3, <2>3 DEF Map
  <2>8. Streams' /\ Completed'
    BY <1>1, <1>2, <2>3 DEF Streams, Completed
  <2>9. Ws!LiveOperationRegistered'
    <3>1. ASSUME NEW p \in Ws!Ops, opSt'[p] \in Ws!Running, ~aborted'[p]
          PROVE  subscriptions'[opId'[p]] = p
      <4>1. p # o
        BY <2>3, <3>1
      <4>2. subscriptions[opId[p]] = p /\ opId[p] \in Ids
        BY <1>1, <1>2, <2>3, <3>1, <4>1 DEF Ws!LiveOperationRegistered, WsTypes
      <4> QED BY <1>2, <2>1, <2>3, <4>1, <4>2
    <3> QED BY <3>1 DEF Ws!LiveOperationRegistered
  <2> QED BY <2>5, <2>6, <2>7, <2>8, <2>9 DEF WsInv
<1> QED BY <1>4, <1>5

-----------------------------------------------------------------------------
(* The theorems *)

LEMMA WsStep == WsInv /\ [Ws!Next]_(Ws!vars) => WsInv'
<1> SUFFICES ASSUME WsInv, [Ws!Next]_(Ws!vars)
             PROVE  WsInv'
  OBVIOUS
<1>1. CASE Ws!HandleOpen
  BY <1>1, OnHandleOpen
<1>2. CASE Ws!TransportClose \/ Ws!Dispose \/ Ws!Watchdog
  BY <1>2, OnTransportClose, OnDispose, OnWatchdog
<1>3. CASE Ws!PeerDies \/ Ws!TimePasses
  BY <1>3, OnOthers
<1>4. CASE Ws!Client
  BY <1>4, OnMsgInit, OnMsgSubscribe, OnMsgComplete, OnOthers DEF Ws!Client
<1>5. CASE \E k \in Ws!Inits, ok \in BOOLEAN : Ws!OnConnectSettles(k, ok)
  BY <1>5, OnOnConnectSettles
<1>6. CASE Ws!InitTimeout
  BY <1>6, OnInitTimeout
<1>7. CASE \E o \in Ws!Ops : Ws!Operation(o) \/ Ws!Stream(o)
  BY <1>7, OnSetupFails, OnSetupStream, OnLoop, OnEnds DEF Ws!Operation
<1>8. CASE UNCHANGED Ws!vars
  <2>1. UNCHANGED <<socket, known, closed, initTimer, keepAlive, timers, inits, disconnects,
                    wsDisposed, subscriptions, opId, opSt, aborted, iter, sent, completed>>
    BY <1>8 DEF Ws!vars
  <2>2. WsTypes' = WsTypes /\ Life' = Life /\ Timers' = Timers /\ Map' = Map
    BY <2>1 DEF WsTypes, Life, Timers, Map
  <2>3. /\ Streams' = Streams /\ Ws!LiveOperationRegistered' = Ws!LiveOperationRegistered
        /\ Completed' = Completed
    BY <2>1 DEF Streams, Ws!LiveOperationRegistered, Completed
  <2> QED BY <2>2, <2>3 DEF WsInv
<1> QED BY <1>1, <1>2, <1>3, <1>4, <1>5, <1>6, <1>7, <1>8 DEF Ws!Next

\* No frame follows the complete frame: every step that sends one belongs to an
\* operation still in the setup, the loop or the hooks, and whoever completed is in
\* its finally block or over.
LEMMA StepSilent ==
    WsInv /\ [Ws!Next]_(Ws!vars) => [\A o \in Ws!Ops : completed[o] => sent'[o] = sent[o]]_(Ws!vars)
<1> SUFFICES ASSUME WsInv, Ws!Next, NEW o \in Ws!Ops, completed[o]
             PROVE  sent'[o] = sent[o]
  OBVIOUS
<1>1. WsTypes /\ opSt[o] \in {"closing", "ended"}
  BY DEF WsInv, Completed
<1>2. \/ sent' = sent
      \/ \E p \in Ws!Ops : /\ opSt[p] \in {"setup", "loop", "exec", "hook"}
                        /\ \E n \in {1, 2} : sent' = [sent EXCEPT ![p] = @ + n]
  <2>1. CASE Ws!HandleOpen \/ Ws!TransportClose \/ Ws!PeerDies \/ Ws!Dispose
    BY <2>1 DEF Ws!HandleOpen, Ws!TransportClose, Ws!PeerDies, Ws!Dispose, Ws!opers
  <2>2. CASE Ws!Client
    BY <2>2 DEF Ws!Client, Ws!MsgInit, Ws!MsgSubscribe, Ws!MsgComplete, Ws!MsgOther, Ws!opers
  <2>3. CASE \E k \in Ws!Inits, ok \in BOOLEAN : Ws!OnConnectSettles(k, ok)
    BY <2>3 DEF Ws!OnConnectSettles, Ws!opers
  <2>4. CASE Ws!InitTimeout \/ Ws!TimePasses \/ Ws!Watchdog
    BY <2>4 DEF Ws!InitTimeout, Ws!TimePasses, Ws!Watchdog, Ws!opers
  <2>5. CASE \E p \in Ws!Ops : Ws!Operation(p) \/ Ws!Stream(p)
    <3>1. PICK p \in Ws!Ops : Ws!Operation(p) \/ Ws!Stream(p)
      BY <2>5
    <3>2. CASE \E n \in {1, 2} : Ws!SetupFails(p, n)
      BY <3>2 DEF Ws!SetupFails
    <3>3. CASE Ws!SetupStream(p) \/ Ws!HookDone(p) \/ Ws!Aborts(p) \/ Ws!Ends(p) \/ Ws!NextValue(p)
      BY <3>3 DEF Ws!SetupStream, Ws!HookDone, Ws!Aborts, Ws!Ends, Ws!NextValue
    <3>4. CASE Ws!ExecDone(p) \/ Ws!EventThrows(p)
      BY <3>4 DEF Ws!ExecDone, Ws!EventThrows, Ws!Frame
    <3>5. CASE Ws!NextDone(p) \/ Ws!NextThrows(p)
      BY <3>5 DEF Ws!NextDone, Ws!NextThrows, Ws!Frame
    <3> QED BY <3>1, <3>2, <3>3, <3>4, <3>5 DEF Ws!Operation, Ws!Stream
  <2> QED BY <2>1, <2>2, <2>3, <2>4, <2>5 DEF Ws!Next
<1>3. CASE sent' = sent
  BY <1>3
<1>4. CASE \E p \in Ws!Ops : /\ opSt[p] \in {"setup", "loop", "exec", "hook"}
                          /\ \E n \in {1, 2} : sent' = [sent EXCEPT ![p] = @ + n]
  BY <1>1, <1>4 DEF WsTypes
<1> QED BY <1>2, <1>3, <1>4

\* In every reachable state whatever ends finds what it must end: running operations
\* are registered under their ids until they are cancelled, and a closed connection
\* keeps no timer, no interval and no source stream, and told onDisconnect once
\* (handleClose, cleanupConnection and executeSubscription in graphql-ws.handler.ts).
THEOREM EndsReachAll == ASSUME Ws!WsAssumption PROVE Ws!Spec => []Ws!EndReachesAll
<1>1. Ws!Init => WsInv
  BY WsInit, Ws!WsAssumption
<1>2. WsInv /\ [Ws!Next]_(Ws!vars) => WsInv'
  BY WsStep
<1>3. WsInv => Ws!EndReachesAll
  BY InvReaches
<1> QED BY <1>1, <1>2, <1>3, PTL DEF Ws!Spec

\* Whatever the close event, the timers, the hooks and the source stream do after
\* it, no frame is sent for an operation whose complete frame went out
\* (handleAsyncIterator in graphql-ws.handler.ts).
THEOREM SilenceAfterComplete == ASSUME Ws!WsAssumption PROVE Ws!Spec => Ws!SilentAfterComplete
<1>1. Ws!Init => WsInv
  BY WsInit, Ws!WsAssumption
<1>2. WsInv /\ [Ws!Next]_(Ws!vars) => WsInv'
  BY WsStep
<1>3. WsInv /\ [Ws!Next]_(Ws!vars) => [\A o \in Ws!Ops : completed[o] => sent'[o] = sent[o]]_(Ws!vars)
  BY StepSilent
<1> QED BY <1>1, <1>2, <1>3, PTL DEF Ws!Spec, Ws!SilentAfterComplete
=============================================================================
