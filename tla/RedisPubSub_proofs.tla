------------------------- MODULE RedisPubSub_proofs -------------------------
(***************************************************************************)
(* Proofs about RedisPubSub, for any triggers, any number of subscriptions *)
(* and messages, and handlers that call back in any way.                   *)
(***************************************************************************)
EXTENDS RedisPubSub, SequenceTheorems, TLAPS

(***************************************************************************)
(* Sequences: what splice() leaves.                                        *)
(***************************************************************************)
LEMMA SpliceProperties ==
    ASSUME NEW S, NEW s \in Seq(S), NEW k \in DOMAIN s
    PROVE  /\ Splice(s, k) \in Seq(S)
           /\ Len(Splice(s, k)) = Len(s) - 1
           /\ DOMAIN Splice(s, k) = 1 .. Len(s) - 1
           /\ \A j \in 1 .. Len(s) - 1 : Splice(s, k)[j] = IF j < k THEN s[j] ELSE s[j + 1]
<1>1. /\ Len(s) \in Nat /\ DOMAIN s = 1 .. Len(s) /\ Len(s) - 1 \in Nat
      /\ \A j \in 1 .. Len(s) : s[j] \in S
  BY LenProperties
<1>2. Splice(s, k) \in [1 .. Len(s) - 1 -> S]
  BY <1>1 DEF Splice
<1>3. Splice(s, k) \in Seq(S)
  BY <1>1, <1>2, SeqDef
<1> QED BY <1>1, <1>2, <1>3 DEF Splice

LEMMA WithoutProperties ==
    ASSUME NEW S, NEW s \in Seq(S), NEW x, NoRepetition(s)
    PROVE  /\ Without(s, x) \in Seq(S)
           /\ NoRepetition(Without(s, x))
           /\ Elems(Without(s, x)) = Elems(s) \ {x}
<1>1. CASE x \notin Elems(s)
  BY <1>1 DEF Without
<1>2. CASE x \in Elems(s)
  <2> DEFINE k == IndexOf(s, x)
             r == Splice(s, k)
  <2>1. k \in DOMAIN s /\ s[k] = x
    BY <1>2 DEF Elems, IndexOf
  <2>2. Without(s, x) = r
    BY <1>2 DEF Without
  <2>3. /\ r \in Seq(S) /\ DOMAIN r = 1 .. Len(s) - 1
        /\ \A j \in 1 .. Len(s) - 1 : r[j] = IF j < k THEN s[j] ELSE s[j + 1]
    BY <2>1, SpliceProperties
  <2>4. Len(s) \in Nat /\ DOMAIN s = 1 .. Len(s)
    BY LenProperties
  <2> HIDE DEF r, k
  <2>o. ASSUME NEW j \in 1 .. Len(s) - 1
        PROVE  \E o \in DOMAIN s : /\ r[j] = s[o] /\ o # k
                                   /\ o = IF j < k THEN j ELSE j + 1
    <3>1. CASE j < k
      BY <2>1, <2>3, <2>4, <3>1
    <3>2. CASE j >= k
      <4>1. j + 1 \in DOMAIN s /\ j + 1 # k /\ ~(j < k)
        BY <2>1, <2>4, <3>2
      <4> QED BY <2>3, <4>1
    <3> QED BY <2>1, <2>4, <3>1, <3>2
  <2>5. NoRepetition(r)
    <3>1. SUFFICES ASSUME NEW i \in 1 .. Len(s) - 1, NEW j \in 1 .. Len(s) - 1, r[i] = r[j]
                   PROVE  i = j
      BY <2>3 DEF NoRepetition
    <3>2. PICK oi \in DOMAIN s : r[i] = s[oi] /\ oi = IF i < k THEN i ELSE i + 1
      BY <2>o
    <3>3. PICK oj \in DOMAIN s : r[j] = s[oj] /\ oj = IF j < k THEN j ELSE j + 1
      BY <2>o
    <3>4. oi = oj
      BY <3>1, <3>2, <3>3 DEF NoRepetition
    <3> QED BY <2>1, <2>4, <3>2, <3>3, <3>4
  <2>6. Elems(r) \subseteq Elems(s) \ {x}
    <3>1. ASSUME NEW j \in 1 .. Len(s) - 1
          PROVE  r[j] \in Elems(s) /\ r[j] # x
      <4>1. PICK o \in DOMAIN s : r[j] = s[o] /\ o # k
        BY <2>o
      <4>2. s[o] # s[k]
        BY <2>1, <4>1 DEF NoRepetition
      <4> QED BY <2>1, <4>1, <4>2 DEF Elems
    <3> QED BY <2>3, <3>1 DEF Elems
  <2>7. ASSUME NEW y \in Elems(s) \ {x}
        PROVE  y \in Elems(r)
    <3>1. PICK j \in DOMAIN s : s[j] = y
      BY DEF Elems
    <3>2. j # k
      BY <2>1, <3>1
    <3>3. CASE j < k
      BY <2>1, <2>3, <2>4, <3>1, <3>3 DEF Elems
    <3>4. CASE j > k
      <4>1. j - 1 \in 1 .. Len(s) - 1 /\ r[j - 1] = y
        BY <2>1, <2>3, <2>4, <3>1, <3>4
      <4> QED BY <4>1, <2>3 DEF Elems
    <3> QED BY <2>1, <2>4, <3>1, <3>2, <3>3, <3>4
  <2> QED BY <2>2, <2>3, <2>5, <2>6, <2>7
<1> QED BY <1>1, <1>2

\* A splice keeps a sequence over its set also when it has repetitions.
LEMMA WithoutTyped ==
    ASSUME NEW S, NEW s \in Seq(S), NEW x
    PROVE  Without(s, x) \in Seq(S)
<1>1. CASE x \in Elems(s)
  <2>1. IndexOf(s, x) \in DOMAIN s
    BY <1>1 DEF Elems, IndexOf
  <2> QED BY <1>1, <2>1, SpliceProperties DEF Without
<1> QED BY <1>1 DEF Without

LEMMA AppendFresh ==
    ASSUME NEW S, NEW s \in Seq(S), NEW x \in S
    PROVE  /\ Append(s, x) \in Seq(S)
           /\ Elems(Append(s, x)) = Elems(s) \cup {x}
           /\ NoRepetition(s) /\ x \notin Elems(s) => NoRepetition(Append(s, x))
<1>1. Len(s) \in Nat /\ DOMAIN s = 1 .. Len(s)
  BY LenProperties
<1>2. /\ Append(s, x) \in Seq(S) /\ DOMAIN Append(s, x) = 1 .. Len(s) + 1
      /\ Append(s, x)[Len(s) + 1] = x
      /\ \A j \in 1 .. Len(s) : Append(s, x)[j] = s[j]
  BY <1>1
<1> DEFINE r == Append(s, x)
<1> HIDE DEF r
<1>3. Elems(r) = Elems(s) \cup {x}
  BY <1>1, <1>2 DEF Elems, r
<1>4. NoRepetition(s) /\ x \notin Elems(s) => NoRepetition(r)
  BY <1>1, <1>2 DEF Elems, NoRepetition, r
<1> QED BY <1>2, <1>3, <1>4 DEF r

-----------------------------------------------------------------------------
(***************************************************************************)
(* Typing                                                                  *)
(***************************************************************************)
LEMMA CommandTyped ==
    ASSUME NEW key \in Requests, NEW cmd \in {"sub", "unsub"}
    PROVE  Command(cmd, key) \in Commands
BY DEF Command, Commands

\* The requests are pairs of a trigger and a flag.
LEMMA RequestParts ==
    ASSUME NEW req \in Requests
    PROVE  req[1] \in Triggers /\ req[2] \in BOOLEAN
BY DEF Requests, Triggers

LEMMA TypeInit == Init => TypeOK
<1> SUFFICES ASSUME Init PROVE TypeOK
  OBVIOUS
<1> QED BY BoundsAssumption DEF Init, TypeOK, NoFan, Fans, Stages, Calls, Ids

LEMMA TypeStep ==
    ASSUME TypeOK, IdsFresh, [Next]_vars
    PROVE  TypeOK'
<1>a. /\ DOMAIN subscriptionMap \subseteq Ids
      /\ \A id \in DOMAIN subscriptionMap : subscriptionMap[id] \in Requests
      /\ subsRefsMap \in [Triggers -> Seq(Ids)]
  BY DEF TypeOK
<1>b. pipe \in Seq(Commands) /\ fan \in Fans
  BY DEF TypeOK
<1>c. /\ pendingSubscribes \in [Triggers -> Stages] /\ call \in [Ids -> Calls]
      /\ currentSubscriptionId \in 0 .. MaxSubs /\ rolling \subseteq Ids
      /\ got \in [Ids -> Nat] /\ status \in {"connecting", "ready", "end"}
      /\ server \subseteq Requests /\ refused \subseteq Requests
      /\ msgs \in 0 .. MaxMessages /\ drops \in 0 .. MaxDrops
  BY DEF TypeOK
<1>1. ASSUME NEW req \in Requests, Subscribe(req) PROVE TypeOK'
  <2> DEFINE id == currentSubscriptionId
             t  == req[1]
  <2>1. id \in Ids /\ t \in Triggers
    BY <1>1, <1>c, BoundsAssumption, RequestParts DEF Subscribe, Ids
  <2>2. subsRefsMap' \in [Triggers -> Seq(Ids)]
    <3>1. Append(subsRefsMap[t], id) \in Seq(Ids)
      BY <2>1, <1>a
    <3>2. subsRefsMap' = [subsRefsMap EXCEPT ![t] = Append(subsRefsMap[t], id)]
      BY <1>1 DEF Subscribe, FreshId
    <3> QED BY <1>a, <3>1, <3>2
  <2>3. pipe' \in Seq(Commands)
    <3>1. Command("sub", req) \in Commands
      BY CommandTyped
    <3>2. pipe' = pipe \/ pipe' = Append(pipe, Command("sub", req))
      BY <1>1 DEF Subscribe, Sent
    <3> QED BY <1>b, <3>1, <3>2
  <2>4. fan' \in Fans
    <3>1. fan' = fan \/ fan' = [fan EXCEPT !.live = FALSE]
      BY <1>1 DEF Subscribe
    <3> QED BY <3>1, <1>b DEF Fans
  <2>5. /\ DOMAIN subscriptionMap' \subseteq Ids
        /\ \A i \in DOMAIN subscriptionMap' : subscriptionMap'[i] \in Requests
    BY <1>1, <1>a, <2>1 DEF Subscribe, Put, FreshId
  <2>6. pendingSubscribes' \in [Triggers -> Stages] /\ call' \in [Ids -> Calls]
    BY <1>1, <1>c DEF Subscribe, Stages, Calls
  <2>7. currentSubscriptionId' \in 0 .. MaxSubs
    BY <1>1, <1>c, BoundsAssumption DEF Subscribe
  <2>8. UNCHANGED <<rolling, got, status, server, refused, msgs, drops>>
    BY <1>1 DEF Subscribe
  <2> QED BY <1>c, <2>2, <2>3, <2>4, <2>5, <2>6, <2>7, <2>8 DEF TypeOK
<1>2. ASSUME NEW id \in Ids, Unsubscribe(id) PROVE TypeOK'
  <2> DEFINE t == subscriptionMap[id][1]
             mine == fan.on /\ fan.key[1] = t
  <2>1. id \in DOMAIN subscriptionMap /\ subscriptionMap[id] \in Requests /\ t \in Triggers
    BY <1>2, <1>a, RequestParts DEF Unsubscribe
  <2>2. subsRefsMap' \in [Triggers -> Seq(Ids)]
    <3>1. Without(subsRefsMap[t], id) \in Seq(Ids)
      BY <2>1, <1>a, WithoutTyped
    <3>2. \/ subsRefsMap' = [subsRefsMap EXCEPT ![t] = <<>>]
          \/ subsRefsMap' = [subsRefsMap EXCEPT ![t] = Without(subsRefsMap[t], id)]
      BY <1>2 DEF Unsubscribe
    <3>3. <<>> \in Seq(Ids)
      OBVIOUS
    <3> QED BY <1>a, <3>1, <3>2, <3>3
  <2>3. pipe' \in Seq(Commands)
    <3>1. Release(subscriptionMap[id]) \in Commands
      BY <2>1, CommandTyped DEF Release
    <3>2. pipe' = pipe \/ pipe' = Append(pipe, Release(subscriptionMap[id]))
      BY <1>2 DEF Unsubscribe, Sent
    <3> QED BY <1>b, <3>1, <3>2
  <2>4. fan' \in Fans
    <3>1. Without(fan.arr, id) \in Seq(Ids)
      BY <1>b, WithoutTyped DEF Fans
    <3>2. \/ fan' = [fan EXCEPT !.live = @ /\ ~mine, !.due = @ \ {id}]
          \/ fan' = [fan EXCEPT !.arr = IF mine /\ fan.live THEN Without(@, id) ELSE @,
                                !.due = @ \ {id}]
      BY <1>2 DEF Unsubscribe
    <3> HIDE DEF mine
    <3>3. CASE fan' = [fan EXCEPT !.live = @ /\ ~mine, !.due = @ \ {id}]
      BY <1>b, <3>3 DEF Fans
    <3>4. CASE fan' = [fan EXCEPT !.arr = IF mine /\ fan.live THEN Without(@, id) ELSE @,
                                  !.due = @ \ {id}]
      BY <1>b, <3>1, <3>4 DEF Fans
    <3> QED BY <3>2, <3>3, <3>4
  <2>5. /\ DOMAIN subscriptionMap' \subseteq Ids
        /\ \A i \in DOMAIN subscriptionMap' : subscriptionMap'[i] \in Requests
    BY <1>2, <1>a DEF Unsubscribe, Drop
  <2>6. UNCHANGED <<pendingSubscribes, currentSubscriptionId, call, rolling, got,
                    status, server, refused, msgs, drops>>
    BY <1>2 DEF Unsubscribe
  <2> QED BY <1>c, <2>2, <2>3, <2>4, <2>5, <2>6 DEF TypeOK
<1>3. ASSUME NEW id \in DOMAIN subscriptionMap, RollbackSubscription(id)
      PROVE  /\ DOMAIN subscriptionMap' \subseteq Ids
             /\ \A i \in DOMAIN subscriptionMap' : subscriptionMap'[i] \in Requests
             /\ subsRefsMap' \in [Triggers -> Seq(Ids)]
             /\ call' \in [Ids -> Calls]
  <2> DEFINE t == subscriptionMap[id][1]
  <2>1. t \in Triggers
    BY <1>a, RequestParts
  <2>2. Without(subsRefsMap[t], id) \in Seq(Ids)
    BY <2>1, <1>a, WithoutTyped
  <2>3. subsRefsMap' \in [Triggers -> Seq(Ids)]
    BY <1>3, <1>a, <2>2 DEF RollbackSubscription
  <2>4. call' \in [Ids -> Calls]
    BY <1>3, <1>c DEF RollbackSubscription, Calls
  <2> QED BY <1>3, <1>a, <2>3, <2>4 DEF RollbackSubscription, Drop
<1>4. ASSUME Close PROVE TypeOK'
  <2>1. Command("quit", <<>>) \in Commands
    BY DEF Commands
  <2>2. pipe' \in Seq(Commands)
    BY <1>4, <1>b, <2>1 DEF Close
  <2> QED BY <1>4, <1>a, <1>b, <1>c, <2>2 DEF Close, TypeOK, bookkeeping
<1>5. ASSUME NEW t \in Triggers, IssueSubscribe(t) PROVE TypeOK'
  <2>1. PICK id \in Ids : /\ First(id, Waiters(t))
                          /\ pipe' = Append(pipe, Command("sub", subscriptionMap[id]))
    BY <1>5 DEF IssueSubscribe
  <2>2. subscriptionMap[id] \in Requests
    BY <1>a, <2>1 DEF First, Waiters, Registered
  <2>3. Command("sub", subscriptionMap[id]) \in Commands
    BY <2>2, CommandTyped
  <2>4. pipe' \in Seq(Commands)
    BY <1>b, <2>1, <2>3
  <2>5. pendingSubscribes' \in [Triggers -> Stages]
    BY <1>5, <1>c DEF IssueSubscribe, Stages
  <2> QED BY <1>5, <1>a, <1>b, <1>c, <2>4, <2>5 DEF IssueSubscribe, TypeOK, bookkeeping
<1>6. ASSUME NEW t \in Triggers, WaitTimeout(t) PROVE TypeOK'
  BY <1>6, <1>a, <1>b, <1>c
     DEF WaitTimeout, TypeOK, Stages, bookkeeping, connection
<1>7. ASSUME NEW t \in Triggers, Resolve(t) PROVE TypeOK'
  BY <1>7, <1>a, <1>b, <1>c
     DEF Resolve, TypeOK, Stages, Calls, bookkeeping, connection
<1>8. ASSUME NEW t \in Triggers, Reject(t) PROVE TypeOK'
  <2>1. PICK id \in Ids : /\ First(id, Waiters(t))
                          /\ RollbackSubscription(id)
                          /\ rolling' = Waiters(t) \ {id}
    BY <1>8 DEF Reject
  <2>2. id \in DOMAIN subscriptionMap
    BY <2>1 DEF First, Waiters, Registered
  <2>3. rolling' \subseteq Ids
    BY <1>a, <2>1 DEF Waiters, Registered
  <2>4. pendingSubscribes' \in [Triggers -> Stages]
    BY <1>8, <1>c DEF Reject, PendingAfterReject, Stages
  <2> QED BY <1>3, <1>8, <1>b, <1>c, <2>1, <2>2, <2>3, <2>4
          DEF Reject, TypeOK, connection
<1>9. ASSUME RejectWaiter PROVE TypeOK'
  <2>1. PICK id \in Ids : /\ First(id, rolling)
                          /\ RollbackSubscription(id)
                          /\ rolling' = rolling \ {id}
    BY <1>9 DEF RejectWaiter
  <2>2. id \in DOMAIN subscriptionMap
    BY <2>1 DEF First, IdsFresh
  <2>3. rolling' \subseteq Ids
    BY <1>c, <2>1
  <2> QED BY <1>3, <1>9, <1>b, <1>c, <2>1, <2>2, <2>3 DEF RejectWaiter, TypeOK, connection
<1>10. ASSUME WaitError PROVE TypeOK'
  BY <1>10, <1>a, <1>b, <1>c DEF WaitError, TypeOK, Stages, bookkeeping, connection
<1>11. ASSUME FanStep PROVE TypeOK'
  <2>1. fan' \in Fans
    <3> DEFINE id == fan.arr[fan.i]
               known == Known(id)
    <3>1. fan' = [fan EXCEPT !.i = @ + 1, !.called = @ \/ known,
                             !.due = IF known THEN @ \ {id} ELSE @]
      BY <1>11 DEF FanStep
    <3> HIDE DEF known, id
    <3>0. fan.i + 1 \in Nat /\ fan.due \ {id} \in SUBSET Ids
      BY <1>b DEF Fans
    <3>2. CASE known
      <4>1. fan' = [fan EXCEPT !.i = fan.i + 1, !.called = TRUE, !.due = fan.due \ {id}]
        BY <1>b, <3>1, <3>2 DEF Fans
      <4> QED BY <1>b, <3>0, <4>1 DEF Fans
    <3>3. CASE ~known
      <4>1. fan' = [fan EXCEPT !.i = fan.i + 1]
        BY <1>b, <3>1, <3>3 DEF Fans
      <4> QED BY <1>b, <3>0, <4>1 DEF Fans
    <3> QED BY <3>2, <3>3
  <2>2. got' \in [Ids -> Nat]
    BY <1>11, <1>a, <1>c DEF FanStep, Known
  <2> QED BY <1>11, <1>a, <1>b, <1>c, <2>1, <2>2 DEF FanStep, TypeOK, bookkeeping, connection
<1>12. ASSUME FanThrow \/ FanDone PROVE TypeOK'
  <2>1. fan' \in Fans
    <3>1. fan' = NoFan
      BY <1>12 DEF FanThrow, FanDone
    <3>2. NoFan \in Fans
      BY DEF NoFan, Fans
    <3> QED BY <3>1, <3>2
  <2> QED BY <1>12, <1>a, <1>b, <1>c, <2>1
          DEF FanThrow, FanDone, TypeOK, bookkeeping, connection
<1>13. ASSUME NEW key \in Requests, Message(key) PROVE TypeOK'
  <2>1. subsRefsMap[key[1]] \in Seq(Ids)
    BY <1>a, RequestParts
  <2>2. Elems(subsRefsMap[key[1]]) \in SUBSET Ids
    BY <2>1, LenProperties DEF Elems
  <2>3. fan' \in Fans
    BY <1>13, <1>b, <2>1, <2>2 DEF Message, Fans
  <2>4. msgs' \in 0 .. MaxMessages
    BY <1>13, <1>c, BoundsAssumption DEF Message
  <2> QED BY <1>13, <1>a, <1>b, <1>c, <2>3, <2>4
          DEF Message, TypeOK, bookkeeping, connection
<1>14. ASSUME ConnReady PROVE TypeOK'
  BY <1>14, <1>a, <1>b, <1>c DEF ConnReady, TypeOK, bookkeeping
<1>15. ASSUME ConnDrop PROVE TypeOK'
  BY <1>15, <1>a, <1>b, <1>c, BoundsAssumption DEF ConnDrop, TypeOK, bookkeeping
<1>16. ASSUME NEW ok \in BOOLEAN, Reply(ok) PROVE TypeOK'
  <2> DEFINE c == Head(pipe)
  <2>1. c \in Commands /\ Tail(pipe) \in Seq(Commands)
    BY <1>16, <1>b DEF Reply
  <2>2. c.cmd \in {"sub", "unsub"} => c.key \in Requests
    BY <2>1 DEF Commands, Command
  <2>3. /\ server' \subseteq Requests /\ refused' \subseteq Requests
        /\ pendingSubscribes' \in [Triggers -> Stages]
    BY <1>16, <1>c, <2>2 DEF Reply, Stages
  <2> QED BY <1>16, <1>a, <1>b, <1>c, <2>1, <2>3 DEF Reply, TypeOK, bookkeeping
<1>17. ASSUME Quit PROVE TypeOK'
  BY <1>17, <1>a, <1>b, <1>c, EmptySeq DEF Quit, TypeOK, Stages, bookkeeping
<1>18. CASE UNCHANGED vars
  BY <1>18, <1>a, <1>b, <1>c DEF vars, TypeOK
<1> QED
  BY <1>1, <1>2, <1>4, <1>5, <1>6, <1>7, <1>8, <1>9, <1>10, <1>11, <1>12, <1>13, <1>14,
     <1>15, <1>16, <1>17, <1>18 DEF Next, Callers, Promises, Fanout, Redis

-----------------------------------------------------------------------------
(***************************************************************************)
(* The two maps and the promises                                           *)
(***************************************************************************)
Promised == <<subscriptionMap, subsRefsMap, currentSubscriptionId, call, rolling>>

\* Only these steps touch the maps, the promises or a handler.
LEMMA StepCases ==
    ASSUME [Next]_vars
    PROVE  \/ \E req \in Requests : Subscribe(req)
           \/ \E id \in Ids : Unsubscribe(id)
           \/ \E t \in Triggers : Resolve(t)
           \/ \E t \in Triggers : Reject(t)
           \/ RejectWaiter
           \/ FanStep /\ UNCHANGED Promised
           \/ UNCHANGED <<Promised, got>>
BY DEF Next, Callers, Promises, Fanout, Redis, vars, Promised, bookkeeping, connection,
       Close, IssueSubscribe, WaitTimeout, WaitError, FanStep, FanThrow, FanDone, Message,
       ConnReady, ConnDrop, Reply, Quit

LEMMA IdsInit == Init => IdsFresh
BY BoundsAssumption DEF Init, IdsFresh, Ids

LEMMA IdsStep ==
    ASSUME TypeOK, IdsFresh, [Next]_vars
    PROVE  IdsFresh'
<1>a. /\ DOMAIN subscriptionMap \subseteq Ids /\ call \in [Ids -> Calls]
      /\ currentSubscriptionId \in 0 .. MaxSubs /\ rolling \subseteq Ids
  BY DEF TypeOK
<1>1. ASSUME NEW req \in Requests, Subscribe(req) PROVE IdsFresh'
  <2> DEFINE id == currentSubscriptionId
  <2>1. id \in Ids
    BY <1>1, <1>a, BoundsAssumption DEF Subscribe, Ids
  <2>2. /\ currentSubscriptionId' = id + 1 /\ rolling' = rolling
        /\ DOMAIN subscriptionMap' = DOMAIN subscriptionMap \cup {id}
    BY <1>1 DEF Subscribe, Put, FreshId
  <2>3. PICK c \in {"await", "resolved"} : call' = [call EXCEPT ![id] = c]
    BY <1>1 DEF Subscribe, FreshId
  <2>4. call[id] = "unused" /\ id \notin rolling
    BY <2>1, <1>a, BoundsAssumption DEF IdsFresh, Ids
  <2> QED BY <1>a, <2>1, <2>2, <2>3, <2>4, BoundsAssumption DEF IdsFresh, Ids
<1>2. ASSUME NEW id \in Ids, Unsubscribe(id) PROVE IdsFresh'
  BY <1>2, <1>a DEF Unsubscribe, Drop, IdsFresh
<1>3. ASSUME NEW t \in Triggers, Resolve(t) PROVE IdsFresh'
  BY <1>3, <1>a DEF Resolve, SocketTurn, Waiters, Registered, bookkeeping, IdsFresh
<1>4. ASSUME NEW t \in Triggers, Reject(t) PROVE IdsFresh'
  BY <1>4, <1>a DEF Reject, SocketTurn, First, Waiters, Registered, RollbackSubscription,
                    Drop, IdsFresh
<1>5. ASSUME RejectWaiter PROVE IdsFresh'
  BY <1>5, <1>a DEF RejectWaiter, First, RollbackSubscription, Drop, IdsFresh
<1>6. ASSUME UNCHANGED Promised PROVE IdsFresh'
  BY <1>6 DEF Promised, IdsFresh
<1> QED BY <1>1, <1>2, <1>3, <1>4, <1>5, <1>6, StepCases DEF Promised

LEMMA RefsInit == Init => RefsConsistent
BY DEF Init, RefsConsistent, NoRepetition, Elems, Registered

\* Dropping one id from both maps keeps them in step.
LEMMA DropKeepsRefs ==
    ASSUME TypeOK, RefsConsistent, NEW id \in DOMAIN subscriptionMap,
           subscriptionMap' = Drop(subscriptionMap, id),
           subsRefsMap' = [subsRefsMap EXCEPT ![subscriptionMap[id][1]] = Without(@, id)]
    PROVE  RefsConsistent'
<1> DEFINE t == subscriptionMap[id][1]
<1>1. t \in Triggers /\ subsRefsMap \in [Triggers -> Seq(Ids)]
  BY RequestParts DEF TypeOK
<1> SUFFICES ASSUME NEW u \in Triggers
             PROVE  NoRepetition(subsRefsMap'[u]) /\ Elems(subsRefsMap'[u]) = Registered(u)'
  BY DEF RefsConsistent
<1>2. CASE u = t
  <2>1. subsRefsMap'[u] = Without(subsRefsMap[t], id)
    BY <1>1, <1>2
  <2>2. NoRepetition(subsRefsMap[t]) /\ Elems(subsRefsMap[t]) = Registered(t)
    BY <1>1 DEF RefsConsistent
  <2>3. NoRepetition(subsRefsMap'[u]) /\ Elems(subsRefsMap'[u]) = Registered(t) \ {id}
    BY <1>1, <2>1, <2>2, WithoutProperties
  <2> QED BY <1>2, <2>3 DEF Registered, Drop
<1>3. CASE u # t
  <2>1. subsRefsMap'[u] = subsRefsMap[u]
    BY <1>1, <1>3
  <2>2. Registered(u)' = Registered(u)
    BY <1>3 DEF Registered, Drop
  <2> QED BY <2>1, <2>2 DEF RefsConsistent
<1> QED BY <1>2, <1>3

LEMMA RefsStep ==
    ASSUME TypeOK, IdsFresh, RefsConsistent, [Next]_vars
    PROVE  RefsConsistent'
<1>a. /\ DOMAIN subscriptionMap \subseteq Ids /\ call \in [Ids -> Calls]
      /\ subsRefsMap \in [Triggers -> Seq(Ids)]
      /\ currentSubscriptionId \in 0 .. MaxSubs
  BY DEF TypeOK
<1>1. ASSUME NEW req \in Requests, Subscribe(req) PROVE RefsConsistent'
  <2> DEFINE id == currentSubscriptionId
             t  == req[1]
  <2>1. t \in Triggers /\ id \in Ids
    BY <1>1, <1>a, BoundsAssumption, RequestParts DEF Subscribe, Ids
  <2>2. id \notin DOMAIN subscriptionMap
    BY <2>1, <1>a, BoundsAssumption DEF IdsFresh, Ids
  <2>3. /\ subscriptionMap' = Put(subscriptionMap, id, req)
        /\ subsRefsMap' = [subsRefsMap EXCEPT ![t] = Append(subsRefsMap[t], id)]
    BY <1>1 DEF Subscribe, FreshId
  <2> SUFFICES ASSUME NEW u \in Triggers
               PROVE  NoRepetition(subsRefsMap'[u]) /\ Elems(subsRefsMap'[u]) = Registered(u)'
    BY DEF RefsConsistent
  <2>4. NoRepetition(subsRefsMap[u]) /\ Elems(subsRefsMap[u]) = Registered(u)
    BY DEF RefsConsistent
  <2>5. CASE u = t
    <3>1. Registered(u)' = Registered(t) \cup {id}
      BY <2>2, <2>3, <2>5 DEF Registered, Put
    <3>2. id \notin Elems(subsRefsMap[t])
      BY <2>2, <2>4, <2>5 DEF Registered
    <3>3. subsRefsMap'[u] = Append(subsRefsMap[t], id) /\ subsRefsMap[t] \in Seq(Ids)
      BY <1>a, <2>1, <2>3, <2>5
    <3> QED BY <2>1, <2>4, <2>5, <3>1, <3>2, <3>3, AppendFresh
  <2>6. CASE u # t
    <3>1. Registered(u)' = Registered(u)
      BY <2>2, <2>3, <2>6 DEF Registered, Put
    <3> QED BY <1>a, <2>3, <2>4, <2>6, <3>1
  <2> QED BY <2>5, <2>6
<1>2. ASSUME NEW id \in Ids, Unsubscribe(id) PROVE RefsConsistent'
  <2> DEFINE t == subscriptionMap[id][1]
  <2>1. id \in DOMAIN subscriptionMap /\ t \in Triggers
    BY <1>2, RequestParts DEF Unsubscribe, TypeOK
  <2>2. subscriptionMap' = Drop(subscriptionMap, id)
    BY <1>2 DEF Unsubscribe
  <2>3. id \in Elems(subsRefsMap[t])
    BY <2>1 DEF RefsConsistent, Registered
  <2>4. CASE Len(subsRefsMap[t]) = 1
    <3>1. subsRefsMap' = [subsRefsMap EXCEPT ![t] = <<>>]
      BY <1>2, <2>4 DEF Unsubscribe
    <3>2. Without(subsRefsMap[t], id) = <<>>
      <4>1. subsRefsMap[t] \in Seq(Ids)
        BY <1>a, <2>1
      <4>2. IndexOf(subsRefsMap[t], id) \in DOMAIN subsRefsMap[t]
        BY <2>3 DEF Elems, IndexOf
      <4>3. /\ Without(subsRefsMap[t], id) \in Seq(Ids)
            /\ Len(Without(subsRefsMap[t], id)) = 0
        BY <2>3, <2>4, <4>1, <4>2, SpliceProperties DEF Without
      <4> QED BY <4>3, EmptySeq
    <3> QED BY <2>1, <2>2, <3>1, <3>2, DropKeepsRefs
  <2>5. CASE Len(subsRefsMap[t]) # 1
    <3>1. subsRefsMap' = [subsRefsMap EXCEPT ![t] = Without(@, id)]
      BY <1>2, <2>5 DEF Unsubscribe
    <3> QED BY <2>1, <2>2, <3>1, DropKeepsRefs
  <2> QED BY <2>4, <2>5
<1>3. ASSUME NEW t \in Triggers, Resolve(t) PROVE RefsConsistent'
  BY <1>3 DEF Resolve, bookkeeping, RefsConsistent, Registered
<1>4. ASSUME NEW id \in DOMAIN subscriptionMap, RollbackSubscription(id) PROVE RefsConsistent'
  BY <1>4, DropKeepsRefs DEF RollbackSubscription
<1>5. ASSUME NEW t \in Triggers, Reject(t) PROVE RefsConsistent'
  BY <1>4, <1>5 DEF Reject, First, Waiters, Registered
<1>6. ASSUME RejectWaiter PROVE RefsConsistent'
  BY <1>4, <1>6 DEF RejectWaiter, First, IdsFresh
<1>7. ASSUME UNCHANGED Promised PROVE RefsConsistent'
  BY <1>7 DEF Promised, RefsConsistent, Registered
<1> QED BY <1>1, <1>2, <1>3, <1>5, <1>6, <1>7, StepCases DEF Promised

-----------------------------------------------------------------------------
(***************************************************************************)
(* Theorems                                                                *)
(***************************************************************************)
IInv == TypeOK /\ IdsFresh /\ RefsConsistent

LEMMA Inductive == Spec => []IInv
<1>1. Init => IInv
  BY TypeInit, IdsInit, RefsInit DEF IInv
<1>2. IInv /\ [Next]_vars => IInv'
  BY TypeStep, IdsStep, RefsStep DEF IInv
<1> QED BY <1>1, <1>2, PTL DEF Spec

\* The fields of RedisPubSub keep their types (redis-pubsub.ts 59-69).
THEOREM TypeCorrect == Spec => []TypeOK
<1>1. IInv => TypeOK
  BY DEF IInv
<1> QED BY <1>1, Inductive, PTL

\* subscriptionMap and subsRefsMap describe the same subscriptions, whatever
\* fails, times out or calls back (redis-pubsub.ts 160-241 and 298-332).
THEOREM Consistency == Spec => []RefsConsistent
<1>1. IInv => RefsConsistent
  BY DEF IInv
<1> QED BY <1>1, Inductive, PTL

-----------------------------------------------------------------------------
(***************************************************************************)
(* RedisPubSub implements PubSubEngine                                     *)
(***************************************************************************)
LEMMA EngineInit == Init => Engine!Init
BY DEF Init, Engine!Init, subState

LEMMA EngineStep ==
    ASSUME IInv, [Next]_vars
    PROVE  [Engine!Next]_(Engine!vars)
<1>a. /\ DOMAIN subscriptionMap \subseteq Ids /\ call \in [Ids -> Calls]
      /\ got \in [Ids -> Nat] /\ currentSubscriptionId \in 0 .. MaxSubs
  BY DEF IInv, TypeOK
<1>b. IdsFresh
  BY DEF IInv
<1>1. ASSUME NEW req \in Requests, Subscribe(req) PROVE Engine!Next
  <2> DEFINE id == currentSubscriptionId
  <2>1. id \in Ids /\ call[id] = "unused" /\ id \notin DOMAIN subscriptionMap
    BY <1>1, <1>a, <1>b, BoundsAssumption DEF Subscribe, IdsFresh, Ids
  <2>2. got' = got /\ DOMAIN subscriptionMap' = DOMAIN subscriptionMap \cup {id}
    BY <1>1 DEF Subscribe, Put, FreshId
  <2>3. PICK c \in {"await", "resolved"} : call' = [call EXCEPT ![id] = c]
    BY <1>1 DEF Subscribe, FreshId
  <2> DEFINE A == IF c = "await" THEN {} ELSE {id}
  <2>4. /\ subState[id] = "unused"
        /\ subState' = [x \in Ids |-> IF x \in A THEN "active"
                                     ELSE IF x \in {id} THEN "pending" ELSE subState[x]]
    BY <1>a, <2>1, <2>2, <2>3 DEF subState
  <2>5. Engine!Subscribe({id})
    BY <2>2, <2>4 DEF Engine!Subscribe
  <2> QED BY <2>1, <2>5 DEF Engine!Next
<1>2. ASSUME NEW id \in Ids, Unsubscribe(id) PROVE Engine!Next
  <2>1. /\ id \in DOMAIN subscriptionMap /\ call[id] = "resolved"
        /\ DOMAIN subscriptionMap' = DOMAIN subscriptionMap \ {id}
        /\ call' = call /\ got' = got
    BY <1>2 DEF Unsubscribe, Drop
  <2>2. subState[id] = "active" /\ subState' = [x \in Ids |-> IF x \in {id} THEN "closed" ELSE subState[x]]
    BY <1>a, <2>1 DEF subState
  <2>3. Engine!Unsubscribe({id})
    BY <2>1, <2>2 DEF Engine!Unsubscribe
  <2> QED BY <2>3 DEF Engine!Next
<1>3. ASSUME NEW t \in Triggers, Resolve(t) PROVE Engine!Next
  <2> DEFINE W == Waiters(t)
  <2>1. /\ W \subseteq Ids /\ \A id \in W : call[id] = "await" /\ id \in DOMAIN subscriptionMap
    BY <1>a DEF Waiters, Registered
  <2>2. /\ call' = [id \in Ids |-> IF id \in W THEN "resolved" ELSE call[id]]
        /\ subscriptionMap' = subscriptionMap /\ got' = got
    BY <1>3 DEF Resolve, bookkeeping
  <2> HIDE DEF W
  <2>3. /\ \A id \in W : subState[id] = "pending"
        /\ subState' = [id \in Ids |-> IF id \in W THEN "active" ELSE subState[id]]
    BY <1>a, <2>1, <2>2 DEF subState
  <2>4. Engine!Accept(W)
    BY <2>2, <2>3 DEF Engine!Accept
  <2> QED BY <2>1, <2>4 DEF Engine!Next
<1>4. ASSUME NEW id \in Ids, call[id] = "await", RollbackSubscription(id), got' = got
      PROVE  Engine!Next
  <2>1. /\ DOMAIN subscriptionMap' = DOMAIN subscriptionMap \ {id}
        /\ call' = [call EXCEPT ![id] = "rejected"]
    BY <1>4 DEF RollbackSubscription, Drop
  <2>2. subState[id] = "pending" /\ subState' = [subState EXCEPT ![id] = "failed"]
    BY <1>a, <1>4, <2>1 DEF subState
  <2>3. Engine!Refuse(id)
    BY <1>4, <2>2 DEF Engine!Refuse
  <2> QED BY <2>3 DEF Engine!Next
<1>5. ASSUME NEW t \in Triggers, Reject(t) PROVE Engine!Next
  BY <1>4, <1>5 DEF Reject, First, Waiters
<1>6. ASSUME RejectWaiter PROVE Engine!Next
  BY <1>b, <1>4, <1>6 DEF RejectWaiter, First, IdsFresh
<1>7. ASSUME FanStep, UNCHANGED Promised PROVE [Engine!Next]_(Engine!vars)
  <2> DEFINE id == fan.arr[fan.i]
  <2>1. subState' = subState
    BY <1>7 DEF Promised, subState
  <2>2. CASE id \in DOMAIN subscriptionMap
    <3>1. id \in Ids /\ subState[id] \in {"pending", "active"}
      BY <1>a, <1>b, <2>2 DEF subState, IdsFresh
    <3>2. got' = [got EXCEPT ![id] = @ + 1]
      BY <1>7, <2>2 DEF FanStep, Known
    <3>3. Engine!Hand(id)
      BY <2>1, <3>1, <3>2 DEF Engine!Hand
    <3> QED BY <3>1, <3>3 DEF Engine!Next
  <2>3. CASE id \notin DOMAIN subscriptionMap
    BY <1>7, <2>1, <2>3 DEF FanStep, Known, Engine!vars
  <2> QED BY <2>2, <2>3
<1>8. ASSUME UNCHANGED <<Promised, got>> PROVE UNCHANGED Engine!vars
  BY <1>8 DEF Promised, subState, Engine!vars
<1> QED BY <1>1, <1>2, <1>3, <1>5, <1>6, <1>7, <1>8, StepCases

\* Sharing one Redis subscription among subscribers is invisible to them: each
\* id is fresh, its call is answered once, and its handler runs only between
\* the call and its failure or unsubscribe() (redis-pubsub.ts 160-332, 433-459).
THEOREM Refinement == Spec => EngineSpec
<1>1. Init => Engine!Init
  BY EngineInit
<1>2. IInv /\ [Next]_vars => [Engine!Next]_(Engine!vars)
  BY EngineStep
<1>3. Spec => []IInv
  BY Inductive
<1> QED BY <1>1, <1>2, <1>3, PTL DEF Spec, EngineSpec, Engine!Spec

-----------------------------------------------------------------------------
(***************************************************************************)
(* The bookkeeping and Redis stay in step, for callers that use a trigger  *)
(* as a channel or as a pattern and not as both.                           *)
(***************************************************************************)
OneKindPerTrigger == \A r, s \in Requests : r[1] = s[1] => r = s

UnsubSent(key) == Command("unsub", key) \in Elems(pipe)
Forsaken(key) == UnsubSent(key) \/ key \in refused

\* A trigger without a pending (P)SUBSCRIBE has subscribers that have their id, or
\* whose rejection is queued; one with has subscribers, and all of them wait.
Settled ==
    \A t \in Triggers :
        IF pendingSubscribes[t] = "none"
        THEN \A id \in Registered(t) : call[id] = "resolved" \/ id \in rolling
        ELSE /\ Registered(t) # {}
             /\ \A id \in Registered(t) : call[id] = "await" /\ id \notin rolling

\* Redis holds what a subscriber was told it holds, and nothing on the way ends it.
Backed ==
    \A id \in DOMAIN subscriptionMap :
        status # "end" /\ (call[id] = "resolved" \/ pendingSubscribes[subscriptionMap[id][1]] = "ok")
            => subscriptionMap[id] \in server /\ ~UnsubSent(subscriptionMap[id])

\* A (P)SUBSCRIBE on the way is the last command about its key.
LastWord ==
    \A i \in DOMAIN pipe : pipe[i].cmd = "sub" =>
        /\ pendingSubscribes[pipe[i].key[1]] = "sent"
        /\ \A j \in DOMAIN pipe : j > i => pipe[j].key # pipe[i].key

Ended == status = "end" => server = {} /\ pipe = <<>>

\* Redis holds nothing for a (P)SUBSCRIBE that may still fail or has failed, except
\* what an earlier subscriber left behind; nor for nobody.
Doomed(t) == \/ pendingSubscribes[t] \in {"waiting", "sent", "failed"}
             \/ Registered(t) \cap rolling # {}
Undone == \A key \in server : Doomed(key[1]) => Forsaken(key)
Kept == \A key \in server : \/ \E id \in DOMAIN subscriptionMap : subscriptionMap[id] = key
                            \/ Forsaken(key)

InStep == Settled /\ Backed /\ LastWord /\ Ended /\ Undone /\ Kept

LEMMA SubKeys ==
    ASSUME TypeOK
    PROVE  \A i \in DOMAIN pipe : pipe[i].cmd = "sub" =>
               pipe[i].key \in Requests /\ pipe[i].key[1] \in Triggers
<1>1. \A i \in DOMAIN pipe : pipe[i] \in Commands
  BY DEF TypeOK
<1>2. \A i \in DOMAIN pipe : pipe[i].cmd = "sub" => pipe[i].key \in Requests
  BY <1>1 DEF Commands, Command
<1> QED BY <1>2, RequestParts

\* What a command pushed into the pipe changes.
LEMMA PipePush ==
    ASSUME TypeOK, LastWord, NEW c \in Commands, pipe' = Append(pipe, c),
           \A t \in Triggers : pendingSubscribes[t] = "sent" => pendingSubscribes'[t] = "sent",
           c.cmd = "sub" => pendingSubscribes'[c.key[1]] = "sent",
           \A i \in DOMAIN pipe : pipe[i].cmd = "sub" => pipe[i].key # c.key
    PROVE  LastWord' /\ Elems(pipe') = Elems(pipe) \cup {c}
<1>1. pipe \in Seq(Commands) /\ Len(pipe) \in Nat /\ DOMAIN pipe = 1 .. Len(pipe)
  BY DEF TypeOK
<1>2. /\ DOMAIN pipe' = 1 .. Len(pipe) + 1 /\ pipe'[Len(pipe) + 1] = c
      /\ \A i \in 1 .. Len(pipe) : pipe'[i] = pipe[i]
  BY <1>1
<1>3. \A i \in DOMAIN pipe : pipe[i].cmd = "sub" => pipe[i].key[1] \in Triggers
  BY <1>1, RequestParts DEF Commands, Command
<1>4. \A i \in DOMAIN pipe' : i \in DOMAIN pipe \/ i = Len(pipe) + 1
  BY <1>1, <1>2
<1>5. Elems(pipe') = Elems(pipe) \cup {c}
  BY <1>1, AppendFresh
<1>6. ASSUME NEW i \in DOMAIN pipe', pipe'[i].cmd = "sub"
      PROVE  /\ pendingSubscribes'[pipe'[i].key[1]] = "sent"
             /\ \A j \in DOMAIN pipe' : j > i => pipe'[j].key # pipe'[i].key
  <2>1. CASE i = Len(pipe) + 1
    BY <2>1, <1>1, <1>2, <1>6
  <2>2. CASE i \in DOMAIN pipe
    BY <2>2, <1>1, <1>2, <1>3, <1>4, <1>6 DEF LastWord
  <2> QED BY <2>1, <2>2, <1>4
<1> QED BY <1>5, <1>6 DEF LastWord

\* A trigger with a reference has a subscriber.
LEMMA RefsNonempty ==
    ASSUME IInv, NEW t \in Triggers, subsRefsMap[t] # <<>>
    PROVE  Registered(t) # {}
<1>1. subsRefsMap[t] \in Seq(Ids)
  BY DEF IInv, TypeOK
<1>2. 1 \in DOMAIN subsRefsMap[t]
  BY <1>1, EmptySeq
<1> QED BY <1>2 DEF IInv, RefsConsistent, Elems

\* A subscriber more, which is the first of its trigger or shares.
LEMMA InStepSubscribe ==
    ASSUME OneKindPerTrigger, IInv, InStep, NEW req \in Requests, Subscribe(req)
    PROVE  InStep'
<1> DEFINE id == currentSubscriptionId
           t == req[1]
<1>1. /\ DOMAIN subscriptionMap \subseteq Ids /\ call \in [Ids -> Calls] /\ t \in Triggers
      /\ \A x \in DOMAIN subscriptionMap : subscriptionMap[x] \in Requests
      /\ pendingSubscribes \in [Triggers -> Stages] /\ server \subseteq Requests
  BY RequestParts DEF IInv, TypeOK
<1>2. id \in Ids /\ id \notin DOMAIN subscriptionMap
  <2>1. id \in Ids
    BY BoundsAssumption DEF Subscribe, IInv, TypeOK, Ids
  <2>2. call[id] = "unused"
    BY <2>1, BoundsAssumption DEF IInv, IdsFresh, Ids
  <2> QED BY <2>1, <2>2 DEF IInv, IdsFresh
<1>3. /\ DOMAIN subscriptionMap' = DOMAIN subscriptionMap \cup {id}
      /\ subscriptionMap'[id] = req
      /\ \A x \in DOMAIN subscriptionMap : subscriptionMap'[x] = subscriptionMap[x]
  BY <1>2 DEF Subscribe, Put, FreshId
<1>4. rolling = {} /\ UNCHANGED <<rolling, status, server, refused>>
  BY DEF Subscribe, CallerTurn
<1>5. /\ Registered(t)' = Registered(t) \cup {id}
      /\ \A u \in Triggers \ {t} : Registered(u)' = Registered(u)
  BY <1>2, <1>3 DEF Registered
<1>6. \A x \in DOMAIN subscriptionMap : call'[x] = call[x]
  BY <1>1, <1>2 DEF Subscribe, FreshId
<1>7. \A x \in Registered(t) : subscriptionMap[x] = req
  BY <1>1 DEF Registered, OneKindPerTrigger
<1>8. CASE subsRefsMap[t] = <<>>
  <2>1. Registered(t) = {} /\ pendingSubscribes[t] = "none"
    BY <1>1, <1>8 DEF IInv, RefsConsistent, Elems, InStep, Settled
  <2>2. /\ call'[id] = "await" /\ pendingSubscribes'[t] \in {"waiting", "sent"}
        /\ \A u \in Triggers \ {t} : pendingSubscribes'[u] = pendingSubscribes[u]
    BY <1>1, <1>2, <1>8 DEF Subscribe, FreshId
  <2>3. LastWord' /\ \A key \in Requests : UnsubSent(key)' <=> UnsubSent(key)
    <3>1. CASE status = "ready"
      <4>1. pipe' = Append(pipe, Command("sub", req)) /\ pendingSubscribes'[t] = "sent"
        BY <3>1, <1>1, <1>8 DEF Subscribe, Sent
      <4>2. Command("sub", req) \in Commands /\ Command("sub", req).key = req
        BY CommandTyped DEF Command
      <4>3. \A i \in DOMAIN pipe : pipe[i].cmd = "sub" => pipe[i].key # req
        BY <2>1 DEF InStep, LastWord
      <4>4. LastWord' /\ Elems(pipe') = Elems(pipe) \cup {Command("sub", req)}
        BY <4>1, <4>2, <4>3, <2>1, <2>2, PipePush DEF IInv, InStep
      <4> QED BY <4>4 DEF UnsubSent, Command
    <3>2. CASE status # "ready"
      <4>1. pipe' = pipe
        BY <3>2, <1>8 DEF Subscribe
      <4>2. \A i \in DOMAIN pipe : pipe[i].cmd = "sub" => pipe[i].key[1] \in Triggers \ {t}
        BY <2>1, RequestParts DEF InStep, LastWord, IInv, TypeOK, Commands, Command
      <4> QED BY <4>1, <4>2, <2>2 DEF InStep, LastWord, UnsubSent
    <3> QED BY <3>1, <3>2
  <2>4. Ended'
    BY <1>4, <1>8 DEF InStep, Ended, Subscribe, Sent
  <2>5. Settled'
    BY <1>1, <1>2, <1>4, <1>5, <1>6, <2>1, <2>2 DEF InStep, Settled, Registered
  <2>6. Backed'
    BY <1>1, <1>2, <1>3, <1>4, <1>6, <2>1, <2>2, <2>3, RequestParts DEF InStep, Backed, Registered
  <2>7. Undone' /\ Kept'
    <3>1. \A key \in server : key \in Requests /\ (Forsaken(key)' <=> Forsaken(key))
      BY <1>1, <1>4, <2>3 DEF Forsaken
    <3>2. \A key \in server : key[1] = t => Forsaken(key)
      BY <1>1, <2>1 DEF InStep, Kept, Registered
    <3>3. \A key \in server : key[1] # t => (Doomed(key[1])' <=> Doomed(key[1]))
      BY <1>1, <1>4, <1>5, <2>2, RequestParts DEF Doomed
    <3> QED BY <1>3, <1>4, <3>1, <3>2, <3>3 DEF InStep, Undone, Kept
  <2> QED BY <2>3, <2>4, <2>5, <2>6, <2>7 DEF InStep
<1>9. CASE subsRefsMap[t] # <<>>
  <2>1. UNCHANGED <<pendingSubscribes, pipe>>
        /\ call'[id] = IF pendingSubscribes[t] # "none" THEN "await" ELSE "resolved"
    BY <1>1, <1>2, <1>9 DEF Subscribe, FreshId
  <2>2. PICK other \in Registered(t) : TRUE
    BY <1>1, <1>9, EmptySeq, RefsNonempty DEF IInv
  <2>3. Settled'
    BY <1>1, <1>2, <1>4, <1>5, <1>6, <2>1, <2>2 DEF InStep, Settled, Registered
  <2>4. subscriptionMap[other] = req /\ other \in DOMAIN subscriptionMap
    BY <2>2, <1>7 DEF Registered
  <2>5. pendingSubscribes[t] = "none" => call[other] = "resolved"
    BY <1>1, <1>4, <2>2 DEF InStep, Settled
  <2>6. Backed'
    BY <1>3, <1>4, <1>6, <2>1, <2>4, <2>5 DEF InStep, Backed, UnsubSent
  <2>7. LastWord' /\ Ended'
    BY <1>4, <2>1 DEF InStep, LastWord, Ended
  <2>8. Undone' /\ Kept'
    <3>1. \A key \in server : Forsaken(key)' <=> Forsaken(key)
      BY <1>4, <2>1 DEF Forsaken, UnsubSent
    <3>2. \A key \in server : Doomed(key[1])' => Doomed(key[1])
      BY <1>4, <2>1 DEF Doomed
    <3> QED BY <1>3, <1>4, <3>1, <3>2 DEF InStep, Undone, Kept
  <2> QED BY <2>3, <2>6, <2>7, <2>8 DEF InStep
<1> QED BY <1>8, <1>9

\* A subscriber less: the last one of a trigger gives the Redis subscription back.
LEMMA InStepUnsubscribe ==
    ASSUME OneKindPerTrigger, IInv, InStep, NEW id \in Ids, Unsubscribe(id)
    PROVE  InStep'
<1>k. PICK key0, t : key0 = subscriptionMap[id] /\ t = key0[1]
  OBVIOUS
<1>1. /\ DOMAIN subscriptionMap \subseteq Ids /\ t \in Triggers /\ key0 \in Requests
      /\ \A x \in DOMAIN subscriptionMap : subscriptionMap[x] \in Requests
      /\ id \in DOMAIN subscriptionMap /\ call[id] = "resolved"
      /\ pendingSubscribes \in [Triggers -> Stages] /\ server \subseteq Requests
  BY <1>k, RequestParts DEF IInv, TypeOK, Unsubscribe
<1>2. /\ DOMAIN subscriptionMap' = DOMAIN subscriptionMap \ {id}
      /\ \A x \in DOMAIN subscriptionMap' : subscriptionMap'[x] = subscriptionMap[x]
  BY DEF Unsubscribe, Drop
<1>3. UNCHANGED <<pendingSubscribes, call, rolling, status, server, refused>> /\ rolling = {}
  BY DEF Unsubscribe, CallerTurn
<1>4. /\ Registered(t)' = Registered(t) \ {id} /\ id \in Registered(t)
      /\ \A u \in Triggers \ {t} : Registered(u)' = Registered(u)
  BY <1>k, <1>1, <1>2 DEF Registered
<1>5. pendingSubscribes[t] = "none"
  BY <1>1, <1>4 DEF InStep, Settled
<1>6. Settled'
  BY <1>3, <1>4, <1>5 DEF InStep, Settled
<1>7. \A u \in Triggers : Doomed(u)' => Doomed(u)
  BY <1>3 DEF Doomed
<1>8. CASE Len(subsRefsMap[t]) = 1
  <2>1. \A x \in Registered(t) : x = id
    <3>1. subsRefsMap[t] \in Seq(Ids) /\ Elems(subsRefsMap[t]) = Registered(t)
      BY <1>1 DEF IInv, TypeOK, RefsConsistent
    <3>2. \A j, k \in DOMAIN subsRefsMap[t] : j = k
      BY <3>1, <1>8
    <3> QED BY <3>1, <3>2, <1>4 DEF Elems
  <2>2. \A x \in DOMAIN subscriptionMap' : subscriptionMap[x] # key0
    BY <2>1, <1>k, <1>1, <1>2 DEF Registered
  <2>3. pipe' = Sent(Command("unsub", key0))
    BY <1>k, <1>8 DEF Unsubscribe, Release
  <2>4. CASE status = "end"
    <3>1. server = {} /\ pipe' = pipe
      BY <2>3, <2>4 DEF InStep, Ended, Sent
    <3> QED BY <1>3, <1>6, <2>4, <3>1 DEF InStep, Backed, LastWord, Ended, Undone, Kept
  <2>5. CASE status # "end"
    <3>1. pipe' = Append(pipe, Command("unsub", key0)) /\ Command("unsub", key0) \in Commands
      BY <1>1, <2>3, <2>5, CommandTyped DEF Sent
    <3>2. Command("unsub", key0).key = key0 /\ Command("unsub", key0).cmd = "unsub"
      BY DEF Command
    <3>3. \A i \in DOMAIN pipe : pipe[i].cmd = "sub" => pipe[i].key # key0
      BY <1>k, <1>5 DEF InStep, LastWord
    <3>4. LastWord' /\ Elems(pipe') = Elems(pipe) \cup {Command("unsub", key0)}
      BY <1>3, <3>1, <3>2, <3>3, PipePush DEF IInv, InStep
    <3>5. \A key \in Requests : UnsubSent(key)' <=> UnsubSent(key) \/ key = key0
      BY <3>4 DEF UnsubSent, Command
    <3>6. Backed'
      BY <1>1, <1>2, <1>3, <2>2, <3>5 DEF InStep, Backed
    <3>7. \A key \in server : Forsaken(key)' <=> Forsaken(key) \/ key = key0
      BY <1>1, <1>3, <3>5 DEF Forsaken
    <3>8. Undone'
      BY <1>1, <1>3, <1>7, <3>7, RequestParts DEF InStep, Undone
    <3>9. Kept'
      BY <1>k, <1>2, <1>3, <3>7 DEF InStep, Kept
    <3> QED BY <1>3, <1>6, <2>5, <3>4, <3>6, <3>8, <3>9 DEF InStep, Ended
  <2> QED BY <2>4, <2>5
<1>9. CASE Len(subsRefsMap[t]) # 1
  <2>1. pipe' = pipe
    BY <1>k, <1>9 DEF Unsubscribe
  <2>2. PICK other \in Registered(t) : other # id
    <3>1. /\ subsRefsMap[t] \in Seq(Ids) /\ Elems(subsRefsMap[t]) = Registered(t)
          /\ NoRepetition(subsRefsMap[t]) /\ subsRefsMap[t] # <<>>
      BY <1>k, <1>1 DEF IInv, TypeOK, RefsConsistent, Unsubscribe
    <3>2. Len(subsRefsMap[t]) \in Nat /\ Len(subsRefsMap[t]) # 0
      BY <3>1, EmptySeq
    <3>3. 1 \in DOMAIN subsRefsMap[t] /\ 2 \in DOMAIN subsRefsMap[t]
      <4>1. PICK n \in Nat : n = Len(subsRefsMap[t]) /\ DOMAIN subsRefsMap[t] = 1 .. n
        BY <3>1
      <4>2. n # 0 /\ n # 1
        BY <4>1, <3>2, <1>9
      <4>3. 1 \in 1 .. n /\ 2 \in 1 .. n
        BY <4>2
      <4> QED BY <4>1, <4>3
    <3>4. subsRefsMap[t][1] # subsRefsMap[t][2]
      BY <3>1, <3>3 DEF NoRepetition
    <3>5. {subsRefsMap[t][1], subsRefsMap[t][2]} \subseteq Registered(t)
      BY <3>1, <3>3 DEF Elems
    <3> QED BY <3>4, <3>5
  <2>3. other \in DOMAIN subscriptionMap' /\ subscriptionMap'[other] = key0
    BY <1>k, <1>1, <1>2, <2>2 DEF Registered, OneKindPerTrigger
  <2>4. \A key \in server : Forsaken(key)' <=> Forsaken(key)
    BY <1>3, <2>1 DEF Forsaken, UnsubSent
  <2>5. Undone'
    BY <1>1, <1>3, <1>7, <2>4, RequestParts DEF InStep, Undone
  <2>7. Kept'
    BY <1>k, <1>2, <1>3, <2>3, <2>4 DEF InStep, Kept
  <2>6. Backed' /\ LastWord' /\ Ended'
    BY <1>2, <1>3, <2>1 DEF InStep, Backed, LastWord, Ended, UnsubSent
  <2> QED BY <1>6, <2>5, <2>6, <2>7 DEF InStep
<1> QED BY <1>8, <1>9

\* A rejection takes one subscriber of t back, and no other.
LEMMA InStepRollback ==
    ASSUME IInv, InStep, NEW id \in DOMAIN subscriptionMap, NEW t \in Triggers,
           t = subscriptionMap[id][1], RollbackSubscription(id), Doomed(t),
           pendingSubscribes[t] \in {"none", "failed"},
           pendingSubscribes' = [pendingSubscribes EXCEPT ![t] = "none"],
           rolling' \subseteq Registered(t) \cup rolling, UNCHANGED <<status, pipe, server, refused>>,
           \A x \in Registered(t) \ {id} : call[x] = "resolved" \/ x \in rolling',
           \A u \in Triggers \ {t} : Registered(u) \cap rolling' = Registered(u) \cap rolling
    PROVE  InStep'
<1>1. /\ DOMAIN subscriptionMap \subseteq Ids /\ call \in [Ids -> Calls]
      /\ \A x \in DOMAIN subscriptionMap : subscriptionMap[x] \in Requests
      /\ pendingSubscribes \in [Triggers -> Stages] /\ server \subseteq Requests
  BY DEF IInv, TypeOK
<1>2. /\ DOMAIN subscriptionMap' = DOMAIN subscriptionMap \ {id}
      /\ \A x \in DOMAIN subscriptionMap' : subscriptionMap'[x] = subscriptionMap[x] /\ call'[x] = call[x]
  BY <1>1 DEF RollbackSubscription, Drop
<1>3. /\ Registered(t)' = Registered(t) \ {id}
      /\ \A u \in Triggers \ {t} : Registered(u)' = Registered(u)
  BY <1>2 DEF Registered
<1>4. Settled'
  <2>1. \A u \in Triggers : \A x \in Registered(u)' : x \in DOMAIN subscriptionMap'
    BY DEF Registered
  <2> QED BY <1>1, <1>2, <1>3, <2>1 DEF InStep, Settled
<1>5. Backed'
  BY <1>1, <1>2, RequestParts DEF InStep, Backed, UnsubSent
<1>6. LastWord' /\ Ended'
  <2>1. \A i \in DOMAIN pipe : pipe[i].cmd = "sub" =>
            pipe[i].key[1] \in Triggers /\ pipe[i].key[1] # t
    BY SubKeys DEF InStep, LastWord, IInv
  <2> QED BY <1>1, <2>1 DEF InStep, LastWord, Ended
<1>7. \A key \in server : Forsaken(key)' <=> Forsaken(key)
  BY DEF Forsaken, UnsubSent
<1>8. \A u \in Triggers : Doomed(u)' => Doomed(u)
  BY <1>1, <1>3 DEF Doomed
<1>9. Undone'
  BY <1>1, <1>7, <1>8, RequestParts DEF InStep, Undone
<1>10. Kept'
  <2>1. Forsaken(subscriptionMap[id]) \/ subscriptionMap[id] \notin server
    BY DEF InStep, Undone
  <2> QED BY <1>2, <1>7, <2>1 DEF InStep, Kept
<1> QED BY <1>4, <1>5, <1>6, <1>9, <1>10 DEF InStep

\* The shared (P)SUBSCRIBE went through, or was refused.
LEMMA InStepSettle ==
    ASSUME IInv, InStep, NEW t \in Triggers, Resolve(t) \/ Reject(t)
    PROVE  InStep'
<1>1. /\ DOMAIN subscriptionMap \subseteq Ids /\ call \in [Ids -> Calls]
      /\ \A x \in DOMAIN subscriptionMap : subscriptionMap[x] \in Requests
      /\ pendingSubscribes \in [Triggers -> Stages] /\ server \subseteq Requests
      /\ \A u \in Triggers : Registered(u) \subseteq DOMAIN subscriptionMap
      /\ \A i \in DOMAIN pipe : pipe[i].cmd = "sub" => pipe[i].key[1] \in Triggers
  BY SubKeys, RequestParts DEF IInv, TypeOK, Registered
<1>2. rolling = {}
  BY DEF Resolve, Reject, SocketTurn
<1>3. CASE Resolve(t)
  <2>1. /\ UNCHANGED <<subscriptionMap, rolling, status, pipe, server, refused>>
        /\ pendingSubscribes[t] = "ok" /\ pendingSubscribes' = [pendingSubscribes EXCEPT ![t] = "none"]
        /\ call' = [id \in Ids |-> IF id \in Waiters(t) THEN "resolved" ELSE call[id]]
    BY <1>3 DEF Resolve, bookkeeping, connection
  <2>2. \A u \in Triggers : Registered(u)' = Registered(u)
    BY <2>1 DEF Registered
  <2>3. \A x \in Registered(t) : call'[x] = "resolved"
    BY <1>1, <2>1 DEF InStep, Settled, Waiters
  <2>4. \A x \in DOMAIN subscriptionMap : x \notin Registered(t) => call'[x] = call[x]
    BY <1>1, <2>1 DEF Waiters
  <2>5. Settled'
    <3>1. \A u \in Triggers \ {t} : \A x \in Registered(u) : x \notin Registered(t)
      BY DEF Registered
    <3> QED BY <1>1, <2>1, <2>2, <2>3, <2>4, <3>1 DEF InStep, Settled
  <2>6. Backed'
    <3>1. \A x \in DOMAIN subscriptionMap : x \in Registered(t) <=> subscriptionMap[x][1] = t
      BY DEF Registered
    <3> QED BY <1>1, <2>1, <2>4, <3>1, RequestParts DEF InStep, Backed, UnsubSent
  <2>7. LastWord' /\ Ended'
    BY <1>1, <2>1 DEF InStep, LastWord, Ended
  <2>8. \A u \in Triggers : Doomed(u)' => Doomed(u)
    BY <1>1, <2>1, <2>2 DEF Doomed
  <2>9. Undone' /\ Kept'
    BY <1>1, <2>1, <2>8, RequestParts DEF InStep, Undone, Kept, Forsaken, UnsubSent
  <2> QED BY <2>5, <2>6, <2>7, <2>9 DEF InStep
<1>4. CASE Reject(t)
  <2>1. PICK id \in Ids : First(id, Waiters(t)) /\ RollbackSubscription(id) /\ rolling' = Waiters(t) \ {id}
    BY <1>4 DEF Reject
  <2>2. /\ id \in Registered(t) /\ Waiters(t) \subseteq Registered(t)
        /\ \A x \in Registered(t) : x \in Waiters(t)
    BY <1>4, <2>1 DEF First, Waiters, InStep, Settled, Reject
  <2>3. id \in DOMAIN subscriptionMap /\ subscriptionMap[id][1] = t
    BY <2>2 DEF Registered
  <2>4. /\ pendingSubscribes[t] = "failed" /\ UNCHANGED <<status, pipe, server, refused>>
        /\ pendingSubscribes' = [pendingSubscribes EXCEPT ![t] = "none"]
    BY <1>4 DEF Reject, PendingAfterReject, connection
  <2>5. \A u \in Triggers \ {t} : Registered(u) \cap rolling' = {}
    BY <2>1, <2>2 DEF Registered
  <2>6. Doomed(t)
    BY <2>4 DEF Doomed
  <2> QED BY <2>1, <2>2, <2>3, <2>4, <2>5, <2>6, <1>2, InStepRollback
<1> QED BY <1>3, <1>4

LEMMA InStepRejectWaiter ==
    ASSUME IInv, InStep, RejectWaiter
    PROVE  InStep'
<1>1. PICK id \in Ids : First(id, rolling) /\ RollbackSubscription(id) /\ rolling' = rolling \ {id}
  BY DEF RejectWaiter
<1>2. id \in rolling /\ id \in DOMAIN subscriptionMap /\ rolling \subseteq DOMAIN subscriptionMap
  BY <1>1 DEF First, IInv, IdsFresh, TypeOK
<1>3. PICK t \in Triggers : t = subscriptionMap[id][1]
  BY <1>2, RequestParts DEF IInv, TypeOK
<1>4. id \in Registered(t) /\ Doomed(t)
  BY <1>2, <1>3 DEF Registered, Doomed
<1>5. pendingSubscribes[t] = "none"
  BY <1>2, <1>4 DEF InStep, Settled
<1>6. UNCHANGED <<pendingSubscribes, status, pipe, server, refused>>
      /\ pendingSubscribes \in [Triggers -> Stages]
  BY DEF RejectWaiter, connection, IInv, TypeOK
<1>7. pendingSubscribes' = [pendingSubscribes EXCEPT ![t] = "none"]
  BY <1>5, <1>6
<1>8. \A x \in Registered(t) \ {id} : call[x] = "resolved" \/ x \in rolling'
  BY <1>1, <1>5 DEF InStep, Settled
<1>9. \A u \in Triggers \ {t} : Registered(u) \cap rolling' = Registered(u) \cap rolling
  BY <1>1, <1>3 DEF Registered
<1> QED BY <1>1, <1>2, <1>3, <1>4, <1>5, <1>6, <1>7, <1>8, <1>9, InStepRollback

\* Stages that only move between those of a (P)SUBSCRIBE that may still fail.
LEMMA InStepWait ==
    ASSUME IInv, InStep, UNCHANGED <<bookkeeping, call, rolling, connection>>,
           \A t \in Triggers : \/ pendingSubscribes'[t] = pendingSubscribes[t]
                               \/ pendingSubscribes[t] = "waiting" /\ pendingSubscribes'[t] = "failed"
    PROVE  InStep'
<1>1. /\ \A x \in DOMAIN subscriptionMap : subscriptionMap[x][1] \in Triggers
      /\ \A key \in server : key[1] \in Triggers
  BY RequestParts DEF IInv, TypeOK
<1>2. \A i \in DOMAIN pipe : pipe[i].cmd = "sub" => pipe[i].key[1] \in Triggers
  BY SubKeys DEF IInv
<1>3. UNCHANGED <<subscriptionMap, call, rolling, status, pipe, server, refused>>
  BY DEF bookkeeping, connection
<1>4. \A u \in Triggers : Registered(u)' = Registered(u) /\ (Doomed(u)' <=> Doomed(u))
  BY <1>3 DEF Registered, Doomed
<1>5. Settled'
  BY <1>3, <1>4 DEF InStep, Settled
<1>6. Backed' /\ LastWord' /\ Ended'
  BY <1>1, <1>2, <1>3 DEF InStep, Backed, LastWord, Ended, UnsubSent
<1>7. Undone' /\ Kept'
  BY <1>1, <1>3, <1>4 DEF InStep, Undone, Kept, Forsaken, UnsubSent
<1> QED BY <1>5, <1>6, <1>7 DEF InStep

\* The connection is ready, and the (P)SUBSCRIBE of t is sent.
LEMMA InStepIssue ==
    ASSUME OneKindPerTrigger, IInv, InStep, NEW t \in Triggers, IssueSubscribe(t)
    PROVE  InStep'
<1>1. PICK id \in Ids : First(id, Waiters(t)) /\ pipe' = Append(pipe, Command("sub", subscriptionMap[id]))
  BY DEF IssueSubscribe
<1>2. PICK key : key = subscriptionMap[id]
  OBVIOUS
<1>3. id \in DOMAIN subscriptionMap /\ key \in Requests /\ key[1] = t
  BY <1>1, <1>2 DEF First, Waiters, Registered, IInv, TypeOK
<1>4. /\ UNCHANGED <<subscriptionMap, call, rolling, status, server, refused>>
      /\ pendingSubscribes[t] = "waiting" /\ pendingSubscribes' = [pendingSubscribes EXCEPT ![t] = "sent"]
      /\ pendingSubscribes \in [Triggers -> Stages] /\ status = "ready"
  BY DEF IssueSubscribe, bookkeeping, IInv, TypeOK
<1>5. /\ \A x \in DOMAIN subscriptionMap : subscriptionMap[x] \in Requests
      /\ \A k \in server : k \in Requests
  BY DEF IInv, TypeOK
<1>6. Command("sub", key) \in Commands /\ Command("sub", key).key = key
  BY <1>3, CommandTyped DEF Command
<1>7. \A i \in DOMAIN pipe : pipe[i].cmd = "sub" => pipe[i].key # key
  BY <1>3, <1>4 DEF InStep, LastWord
<1>8. LastWord' /\ Elems(pipe') = Elems(pipe) \cup {Command("sub", key)}
  BY <1>1, <1>2, <1>3, <1>4, <1>6, <1>7, PipePush DEF IInv, InStep
<1>9. \A k \in Requests : UnsubSent(k)' <=> UnsubSent(k)
  BY <1>8 DEF UnsubSent, Command
<1>10. \A u \in Triggers : Registered(u)' = Registered(u) /\ (Doomed(u)' <=> Doomed(u))
  BY <1>4 DEF Registered, Doomed
<1>11. Settled' /\ Ended'
  BY <1>4, <1>10 DEF InStep, Settled, Ended
<1>12. Backed'
  BY <1>4, <1>5, <1>9, RequestParts DEF InStep, Backed
<1>13. Undone' /\ Kept'
  BY <1>4, <1>5, <1>9, <1>10, RequestParts DEF InStep, Undone, Kept, Forsaken
<1> QED BY <1>8, <1>11, <1>12, <1>13 DEF InStep

\* close() only adds its QUIT.
LEMMA InStepClose ==
    ASSUME IInv, InStep, Close
    PROVE  InStep'
<1> DEFINE c == Command("quit", <<>>)
<1>1. c \in Commands /\ c.cmd = "quit" /\ c.key = <<>>
  BY DEF Command, Commands
<1>2. \A key \in Requests : key # <<>>
  <2>1. Requests \subseteq Triggers \X BOOLEAN
    BY DEF Requests, Triggers
  <2> QED BY <2>1
<1>3. \A i \in DOMAIN pipe : pipe[i].cmd = "sub" => pipe[i].key # c.key
  BY <1>1, <1>2, SubKeys DEF IInv
<1>4. /\ UNCHANGED <<subscriptionMap, pendingSubscribes, call, rolling, status, server, refused>>
      /\ pipe' = Append(pipe, c) /\ status # "end"
  BY DEF Close, bookkeeping
<1> HIDE DEF c
<1>5. LastWord' /\ Elems(pipe') = Elems(pipe) \cup {c}
  BY <1>1, <1>3, <1>4, PipePush DEF IInv, InStep
<1>6. \A k \in Requests : UnsubSent(k)' <=> UnsubSent(k)
  BY <1>1, <1>5 DEF UnsubSent, Command
<1>7. /\ \A x \in DOMAIN subscriptionMap : subscriptionMap[x] \in Requests
      /\ \A k \in server : k \in Requests
  BY DEF IInv, TypeOK
<1>8. \A u \in Triggers : Registered(u)' = Registered(u) /\ (Doomed(u)' <=> Doomed(u))
  BY <1>4 DEF Registered, Doomed
<1>9. Settled' /\ Ended' /\ Backed'
  BY <1>4, <1>6, <1>7, <1>8 DEF InStep, Settled, Ended, Backed
<1>10. Undone' /\ Kept'
  BY <1>4, <1>6, <1>7, <1>8, RequestParts DEF InStep, Undone, Kept, Forsaken
<1> QED BY <1>5, <1>9, <1>10 DEF InStep

\* The first command leaves the pipe.
LEMMA PipePop ==
    ASSUME TypeOK, pipe # <<>>, pipe' = Tail(pipe)
    PROVE  /\ Head(pipe) = pipe[1] /\ Head(pipe) \in Commands /\ 1 \in DOMAIN pipe
           /\ \A i \in DOMAIN pipe' : i + 1 \in DOMAIN pipe /\ i + 1 > 1 /\ pipe'[i] = pipe[i + 1]
                                      /\ i \in Nat
           /\ \A i \in DOMAIN pipe : i # 1 => i - 1 \in DOMAIN pipe' /\ pipe'[i - 1] = pipe[i]
<1>1. pipe \in Seq(Commands) /\ Len(pipe) \in Nat /\ DOMAIN pipe = 1 .. Len(pipe) /\ Len(pipe) # 0
  BY EmptySeq DEF TypeOK
<1>2. DOMAIN pipe' = 1 .. Len(pipe) - 1 /\ \A i \in 1 .. Len(pipe) - 1 : pipe'[i] = pipe[i + 1]
  BY <1>1
<1>3. Head(pipe) = pipe[1] /\ 1 \in DOMAIN pipe /\ pipe[1] \in Commands
  BY <1>1
<1> QED BY <1>1, <1>2, <1>3

\* Redis has answered the first command, which took effect or was refused.
LEMMA InStepReply ==
    ASSUME OneKindPerTrigger, IInv, InStep, NEW ok \in BOOLEAN, Reply(ok)
    PROVE  InStep'
<1>1. PICK c : c = Head(pipe)
  OBVIOUS
<1>2. /\ pipe # <<>> /\ pipe' = Tail(pipe) /\ status = "ready" /\ rolling = {}
      /\ UNCHANGED <<subscriptionMap, call, rolling, status>>
  BY DEF Reply, SocketTurn, bookkeeping
<1>3. /\ c = pipe[1] /\ c \in Commands /\ 1 \in DOMAIN pipe
      /\ \A i \in DOMAIN pipe' : i + 1 \in DOMAIN pipe /\ i + 1 > 1 /\ pipe'[i] = pipe[i + 1] /\ i \in Nat
      /\ \A i \in DOMAIN pipe : i # 1 => i - 1 \in DOMAIN pipe' /\ pipe'[i - 1] = pipe[i]
  BY <1>1, <1>2, PipePop DEF IInv
<1>4. /\ \A x \in DOMAIN subscriptionMap : subscriptionMap[x] \in Requests
      /\ server \subseteq Requests /\ pendingSubscribes \in [Triggers -> Stages]
  BY DEF IInv, TypeOK
<1>5. \A u \in Triggers : Registered(u)' = Registered(u)
  BY <1>2 DEF Registered
<1>6. \A k \in Requests : UnsubSent(k)' => UnsubSent(k)
  BY <1>3 DEF UnsubSent, Elems
<1>7. \A k \in Requests : UnsubSent(k) => UnsubSent(k)' \/ c = Command("unsub", k)
  BY <1>3 DEF UnsubSent, Elems
<1>8. Ended'
  BY <1>2 DEF Ended
<1>9. CASE c.cmd = "sub"
  <2>1. /\ server' = IF ok THEN server \cup {c.key} ELSE server
        /\ pendingSubscribes' = [pendingSubscribes EXCEPT ![c.key[1]] = IF ok THEN "ok" ELSE "failed"]
        /\ UNCHANGED refused
    BY <1>1, <1>9 DEF Reply
  <2>2. PICK t : t = c.key[1]
    OBVIOUS
  <2>3. c.key \in Requests /\ t \in Triggers /\ pendingSubscribes[t] = "sent"
    BY <1>3, <1>9, <2>2, SubKeys DEF InStep, LastWord, IInv
  <2>4. \A i \in DOMAIN pipe' : pipe'[i].key # c.key
    BY <1>3, <1>9 DEF InStep, LastWord
  <2>5. ~UnsubSent(c.key)'
    BY <2>4 DEF UnsubSent, Elems, Command
  <2>6. \A k \in Requests : UnsubSent(k)' <=> UnsubSent(k)
    BY <1>6, <1>7, <1>9 DEF Command
  <2>7. Settled'
    BY <1>2, <1>4, <1>5, <2>1, <2>2, <2>3 DEF InStep, Settled
  <2>8. LastWord'
    <3> SUFFICES ASSUME NEW i \in DOMAIN pipe', pipe'[i].cmd = "sub"
                 PROVE  /\ pendingSubscribes'[pipe'[i].key[1]] = "sent"
                        /\ \A j \in DOMAIN pipe' : j > i => pipe'[j].key # pipe'[i].key
      BY DEF LastWord
    <3>1. /\ pipe'[i].key \in Requests /\ pipe'[i].key[1] \in Triggers
          /\ pendingSubscribes[pipe'[i].key[1]] = "sent"
          /\ \A j \in DOMAIN pipe' : j > i => pipe'[j].key # pipe'[i].key
      BY <1>3, SubKeys DEF InStep, LastWord, IInv
    <3>2. pipe'[i].key[1] # t
      BY <2>2, <2>3, <2>4, <3>1 DEF OneKindPerTrigger
    <3> QED BY <1>4, <2>1, <2>2, <3>1, <3>2
  <2>9. Backed'
    <3> SUFFICES ASSUME NEW x \in DOMAIN subscriptionMap,
                        call[x] = "resolved" \/ pendingSubscribes'[subscriptionMap[x][1]] = "ok"
                 PROVE  subscriptionMap[x] \in server' /\ ~UnsubSent(subscriptionMap[x])'
      BY <1>2 DEF Backed, UnsubSent
    <3>1. CASE subscriptionMap[x][1] = t
      <4>1. subscriptionMap[x] = c.key
        BY <3>1, <1>4, <2>2, <2>3 DEF OneKindPerTrigger
      <4>2. call[x] = "await"
        BY <3>1, <2>3 DEF InStep, Settled, Registered
      <4>3. ok
        BY <4>2, <3>1, <1>4, <2>1, <2>2, <2>3
      <4> QED BY <4>1, <4>3, <1>2, <2>1, <2>5
    <3>2. CASE subscriptionMap[x][1] # t
      <4>1. pendingSubscribes'[subscriptionMap[x][1]] = pendingSubscribes[subscriptionMap[x][1]]
        BY <3>2, <1>4, <2>1, <2>2, RequestParts
      <4>2. subscriptionMap[x] \in server /\ ~UnsubSent(subscriptionMap[x])
        BY <4>1, <1>2 DEF InStep, Backed
      <4> QED BY <4>2, <1>2, <1>4, <2>1, <2>6
    <3> QED BY <3>1, <3>2
  <2>10. Undone' /\ Kept'
    <3>1. \A k \in server : Forsaken(k)' <=> Forsaken(k)
      BY <1>4, <2>1, <2>6 DEF Forsaken
    <3>2. \A u \in Triggers : Doomed(u)' => Doomed(u)
      BY <1>2, <1>4, <1>5, <2>1, <2>2, <2>3 DEF Doomed
    <3>3. ok => ~Doomed(t)'
      BY <1>2, <1>4, <2>1, <2>2, <2>3 DEF Doomed
    <3>4. \E x \in DOMAIN subscriptionMap : subscriptionMap[x] = c.key
      BY <1>4, <2>2, <2>3 DEF InStep, Settled, Registered, OneKindPerTrigger
    <3>5. Undone'
      BY <1>4, <2>1, <2>2, <3>1, <3>2, <3>3, RequestParts DEF InStep, Undone
    <3>6. Kept'
      BY <1>2, <2>1, <3>1, <3>4 DEF InStep, Kept
    <3> QED BY <3>5, <3>6
  <2> QED BY <1>8, <2>7, <2>8, <2>9, <2>10 DEF InStep
<1>10. CASE c.cmd = "unsub"
  <2>1. /\ server' = IF ok THEN server \ {c.key} ELSE server
        /\ refused' = IF ok THEN refused \ {c.key} ELSE refused \cup {c.key}
        /\ UNCHANGED pendingSubscribes
    BY <1>1, <1>10 DEF Reply
  <2>2. c.key \in Requests /\ c = Command("unsub", c.key) /\ UnsubSent(c.key)
    BY <1>3, <1>10 DEF Commands, Command, UnsubSent, Elems
  <2>3. Settled'
    BY <1>2, <1>5, <2>1 DEF InStep, Settled
  <2>4. LastWord'
    BY <1>3, <2>1 DEF InStep, LastWord
  <2>5. Backed'
    BY <1>2, <1>4, <1>6, <2>1, <2>2 DEF InStep, Backed
  <2>6. \A k \in server' : Forsaken(k) => Forsaken(k)'
    BY <1>4, <1>7, <2>1, <2>2 DEF Forsaken, Command
  <2>7. \A u \in Triggers : Doomed(u)' <=> Doomed(u)
    BY <1>2, <1>5, <2>1 DEF Doomed
  <2>8. Undone' /\ Kept'
    BY <1>2, <1>4, <2>1, <2>6, <2>7, RequestParts DEF InStep, Undone, Kept
  <2> QED BY <1>8, <2>3, <2>4, <2>5, <2>8 DEF InStep
<1> QED BY <1>1, <1>9, <1>10 DEF Reply

\* QUIT ends the connection.
LEMMA InStepQuit ==
    ASSUME IInv, InStep, Quit
    PROVE  InStep'
<1>1. /\ UNCHANGED <<subscriptionMap, call, rolling>> /\ status' = "end" /\ pipe' = <<>> /\ server' = {}
      /\ pendingSubscribes' = [t \in Triggers |-> IF pendingSubscribes[t] = "sent" THEN "failed"
                                                  ELSE pendingSubscribes[t]]
  BY DEF Quit, bookkeeping
<1>2. \A u \in Triggers : Registered(u)' = Registered(u)
  BY <1>1 DEF Registered
<1>3. Settled'
  BY <1>1, <1>2 DEF InStep, Settled
<1>4. LastWord'
  BY <1>1 DEF LastWord
<1> QED BY <1>1, <1>3, <1>4 DEF InStep, Backed, Ended, Undone, Kept

LEMMA InStepInit == Init => InStep
BY DEF Init, InStep, Settled, Registered, Backed, LastWord, Ended, Undone, Kept

LEMMA InStepStep ==
    ASSUME OneKindPerTrigger, IInv, InStep, [Next]_vars
    PROVE  InStep'
<1>1. CASE WaitError \/ \E t \in Triggers : WaitTimeout(t)
  <2>1. pendingSubscribes \in [Triggers -> Stages]
    BY DEF IInv, TypeOK
  <2> QED BY <1>1, <2>1, InStepWait DEF WaitError, WaitTimeout
<1>2. CASE ConnReady \/ ConnDrop
  <2>1. /\ UNCHANGED <<subscriptionMap, pendingSubscribes, call, rolling, pipe, server, refused>>
        /\ status # "end" /\ status' # "end"
    BY <1>2 DEF ConnReady, ConnDrop, bookkeeping
  <2>2. \A u \in Triggers : Registered(u)' = Registered(u)
    BY <2>1 DEF Registered
  <2>3. Undone' /\ Kept'
    BY <2>1, <2>2, RequestParts DEF InStep, Undone, Kept, Doomed, Forsaken, UnsubSent, IInv, TypeOK
  <2>4. Settled' /\ Backed' /\ LastWord' /\ Ended'
    BY <2>1, <2>2 DEF InStep, Settled, Backed, LastWord, Ended, UnsubSent
  <2> QED BY <2>3, <2>4 DEF InStep
<1>3. CASE FanStep \/ FanDone \/ FanThrow \/ UNCHANGED vars \/ \E key \in Requests : Message(key)
  <2>1. UNCHANGED <<subscriptionMap, pendingSubscribes, call, rolling, status, pipe, server, refused>>
    BY <1>3 DEF FanStep, FanDone, FanThrow, Message, vars, bookkeeping, connection
  <2>2. \A u \in Triggers : Registered(u)' = Registered(u)
    BY <2>1 DEF Registered
  <2>3. Undone' /\ Kept'
    BY <2>1, <2>2, RequestParts DEF InStep, Undone, Kept, Doomed, Forsaken, UnsubSent, IInv, TypeOK
  <2>4. Settled' /\ Backed' /\ LastWord' /\ Ended'
    BY <2>1, <2>2 DEF InStep, Settled, Backed, LastWord, Ended, UnsubSent
  <2> QED BY <2>3, <2>4 DEF InStep
<1> QED BY <1>1, <1>2, <1>3, InStepSubscribe, InStepUnsubscribe, InStepClose, InStepIssue,
           InStepSettle, InStepRejectWaiter, InStepReply, InStepQuit
        DEF Next, Callers, Promises, Fanout, Redis

\* When no trigger is used both as a channel and as a pattern, a subscribe() that
\* returned an id is backed by Redis until it is cancelled or the connection is
\* closed, and Redis holds nothing else than what it was asked in vain to let go
\* (redis-pubsub.ts 160-241 and 298-332).
THEOREM SubscribersBacked == OneKindPerTrigger /\ Spec => []RedisInStep
<1> DEFINE Inv == OneKindPerTrigger /\ IInv /\ InStep
<1>1. OneKindPerTrigger /\ Init => Inv
  BY TypeInit, IdsInit, RefsInit, InStepInit DEF IInv
<1>2. Inv /\ [Next]_vars => Inv'
  BY TypeStep, IdsStep, RefsStep, InStepStep DEF IInv, OneKindPerTrigger
<1>3. Inv => RedisInStep
  BY DEF InStep, Backed, Kept, Forsaken, UnsubSent, RedisInStep
<1> HIDE DEF Inv
<1> QED BY <1>1, <1>2, <1>3, PTL DEF Spec
=============================================================================
